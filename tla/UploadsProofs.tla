--------------------------- MODULE UploadsProofs ---------------------------
(***************************************************************************)
(* What Uploads guarantees for every set of handlers, torrents, names and  *)
(* requests.                                                               *)
(***************************************************************************)
EXTENDS Uploads, TLAPS

\* A sequence is its head and its tail.
LEMMA SeqFacts ==
    ASSUME NEW S, NEW s \in Seq(S), s # <<>>
    PROVE  /\ Head(s) \in S /\ Head(s) \in Range(s)
           /\ Tail(s) \in Seq(S) /\ Range(Tail(s)) \subseteq Range(s)
           /\ Range(s) \subseteq {Head(s)} \cup Range(Tail(s))
<1>1. Len(s) \in Nat \ {0} /\ DOMAIN s = 1..Len(s) /\ Head(s) = s[1]
  OBVIOUS
<1>2. /\ Tail(s) \in Seq(S) /\ DOMAIN Tail(s) = 1..(Len(s) - 1)
      /\ \A i \in 1..(Len(s) - 1) : Tail(s)[i] = s[i + 1]
  OBVIOUS
<1>3. ASSUME NEW i \in DOMAIN s PROVE s[i] \in {Head(s)} \cup Range(Tail(s))
  <2>1. CASE i = 1
    BY <2>1, <1>1
  <2>2. CASE i # 1
    <3>1. i - 1 \in 1..(Len(s) - 1) /\ Tail(s)[i - 1] = s[i]
      BY <2>2, <1>1, <1>2
    <3>2. QED
      BY <3>1, <1>2 DEF Range
  <2>3. QED
    BY <2>1, <2>2
<1>4. Range(Tail(s)) \subseteq Range(s)
  BY <1>1, <1>2 DEF Range
<1>5. Head(s) \in S /\ Head(s) \in Range(s)
  BY <1>1 DEF Range
<1>6. QED
  BY <1>2, <1>3, <1>4, <1>5 DEF Range

\* Append adds one element.
LEMMA RangeOfAppend ==
    ASSUME NEW S, NEW s \in Seq(S), NEW e
    PROVE  Range(Append(s, e)) = Range(s) \cup {e}
<1>1. /\ DOMAIN s = 1..Len(s) /\ Len(s) \in Nat
      /\ DOMAIN Append(s, e) = 1..(Len(s) + 1)
      /\ \A i \in 1..Len(s) : Append(s, e)[i] = s[i]
      /\ Append(s, e)[Len(s) + 1] = e
  OBVIOUS
<1>2. QED
  BY <1>1 DEF Range

\* Elements of a sequence are of its type.
LEMMA RangeOfSeq ==
    ASSUME NEW S, NEW s \in Seq(S)
    PROVE  Range(s) \subseteq S
<1>1. \A i \in DOMAIN s : s[i] \in S
  OBVIOUS
<1>2. QED
  BY <1>1 DEF Range

\* uuid.New returns a name nobody uses.
LEMMA FreshNameIsFree ==
    ASSUME NEW h, Name \ InUse # {}
    PROVE  FreshName(h) \in Name \ InUse
<1>1. \E n \in Name : n \notin InUse
  OBVIOUS
<1>2. QED
  BY <1>1 DEF FreshName

\* The link of the call a handler waits for, and its labels.
LEMMA CallType ==
    ASSUME TypeOK, NEW h \in Handler, links[h] # <<>>
    PROVE  Call(h) \in [link : Torrent \cup Name, labels : SUBSET Label]
<1>1. Head(links[h]) \in Torrent \cup Name
  BY SeqFacts DEF TypeOK
<1>2. Labels(tags[h]) \in SUBSET Label
  <2>1. tags[h] \in TagSets \cup {{}}
    BY DEF TypeOK
  <2>2. ASSUME NEW l \in tags[h] PROVE l \in UNION TagSets
    BY <2>1, <2>2
  <2>3. tags[h] \subseteq Label /\ Own \subseteq Label
    BY <2>2 DEF Label
  <2>4. Labels(tags[h]) = tags[h] \cup Own
    BY DEF Labels
  <2>5. QED
    BY <2>3, <2>4
<1>3. QED
  BY <1>1, <1>2 DEF Call

\* What a link that is found leads to.
LEMMA ContentType ==
    ASSUME TypeOK, NEW l, Found(l)
    PROVE  Content(l) \in Torrent
<1>1. \A n \in DOMAIN stored : stored[n] \in Torrent
  BY DEF TypeOK
<1>2. QED
  BY <1>1 DEF TypeOK, Found, Content

\* A handler that ends leaves no trace but what it gave to others.
LEMMA FinishType ==
    ASSUME TypeOK, NEW h \in Handler, Finish(h),
           late' \subseteq [link : Torrent \cup Name, labels : SUBSET Label]
    PROVE  TypeOK'
<1>1. /\ DOMAIN stored' \subseteq Name /\ stored' \in [DOMAIN stored' -> Torrent]
      /\ admitted' \subseteq DOMAIN stored'
  BY DEF TypeOK, Finish, DropUnused, Restrict
<1>2. /\ left' \in [Handler -> Seq(Torrent \cup {Blank})]
      /\ links' \in [Handler -> Seq(Torrent \cup Name)]
  BY DEF TypeOK, Finish
<1>3. QED
  BY <1>1, <1>2 DEF TypeOK, Finish

\* Transmission takes what is behind a link.
LEMMA TakesType ==
    ASSUME TypeOK, NEW c \in [link : Torrent \cup Name, labels : SUBSET Label],
           (Found(c.link) /\ Takes(c)) \/ UNCHANGED trVars
    PROVE  /\ tr' \subseteq Torrent /\ byHand' \subseteq tr'
           /\ labels' \in [Torrent -> SUBSET Label]
           /\ seen' \in [Handler -> SUBSET Torrent]
<1>1. CASE Found(c.link) /\ Takes(c)
  <2> DEFINE t == Content(c.link)
  <2>1. t \in Torrent
    BY <1>1, ContentType
  <2>2. /\ tr' = tr \cup {t} /\ byHand' = byHand
        /\ seen' = [h \in Handler |-> seen[h] \cup ({t} \cap given[h])]
        /\ labels' = labels \/ labels' = [labels EXCEPT ![t] = c.labels]
    BY <1>1 DEF Takes, Holds
  <2> HIDE DEF t
  <2>3. QED
    BY <2>1, <2>2 DEF TypeOK
<1>2. CASE UNCHANGED trVars
  BY <1>2 DEF TypeOK, trVars
<1>3. QED
  BY <1>1, <1>2

-----------------------------------------------------------------------------

\* A handler waits for the answer to a link it has not yet struck off.
WaitsForLink == \A h \in Handler : at[h] = "wait" => links[h] # <<>>

\* A handler that waits for Transmission goes on having a link to wait for.
LEMMA WaitsForLinkKept ==
    ASSUME TypeOK, WaitsForLink, [Next]_vars
    PROVE  WaitsForLink'
<1> USE DEF handlerVars, fileVars, trVars
<1> SUFFICES ASSUME NEW g \in Handler PROVE at'[g] = "wait" => links'[g] # <<>>
  BY DEF WaitsForLink
<1>0. at[g] = "wait" => links[g] # <<>>
  BY DEF WaitsForLink
<1>1. ASSUME NEW h \in Handler, Ask(h) \/ Upload(h) \/ Uploaded(h) \/ AddTaken(h)
      PROVE at'[g] = "wait" => links'[g] # <<>>
  <2>1. /\ at'[h] # "wait"
        /\ g # h => at'[g] = at[g] /\ links'[g] = links[g]
    BY <1>1 DEF Ask, Upload, Uploaded, AddTaken, Step, Next1, TypeOK
  <2>2. QED
    BY <2>1, <1>0
<1>2. ASSUME NEW h \in Handler, SendAdd(h) PROVE at'[g] = "wait" => links'[g] # <<>>
  BY <1>0, <1>2 DEF SendAdd, Step, TypeOK
<1>3. ASSUME NEW h \in Handler, Finish(h) PROVE at'[g] = "wait" => links'[g] # <<>>
  BY <1>0, <1>3 DEF Finish, TypeOK
<1>4. ASSUME UNCHANGED <<at, links>> PROVE at'[g] = "wait" => links'[g] # <<>>
  BY <1>0, <1>4
<1>5. ASSUME NEW h \in Handler, UploadFails(h) \/ AddFails(h) \/ Answer(h) \/ TimeOut(h)
      PROVE Finish(h)
  BY <1>5 DEF UploadFails, AddFails, Answer, TimeOut
<1>6. ASSUME NEW h \in Handler, Serves(h) PROVE UNCHANGED <<at, links>>
  BY <1>6 DEF Serves
<1>7. ASSUME NEW n, Admit(n) \/ Expire(n) PROVE UNCHANGED <<at, links>>
  BY <1>7 DEF Admit, Expire
<1>8. ASSUME NEW c, ServesLate(c) PROVE UNCHANGED <<at, links>>
  BY <1>8 DEF ServesLate
<1>9. ASSUME NEW t, AddedByHand(t) \/ Removed(t) PROVE UNCHANGED <<at, links>>
  BY <1>9 DEF AddedByHand, Removed
<1>10. CASE UNCHANGED vars
  BY <1>4, <1>10 DEF vars
<1>11. QED
  BY <1>1, <1>2, <1>3, <1>4, <1>5, <1>6, <1>7, <1>8, <1>9, <1>10 DEF Next, Add

TypeInv == TypeOK /\ WaitsForLink

\* The types hold always.
LEMMA TypeInvariant == UploadsAssumption => (Spec => []TypeInv)
<1> SUFFICES ASSUME UploadsAssumption PROVE Spec => []TypeInv
  OBVIOUS
<1>1. Init => TypeInv
  BY DEF Init, TypeInv, TypeOK, WaitsForLink, UploadsAssumption
<1>2. TypeInv /\ [Next]_vars => TypeInv'
  <2> SUFFICES ASSUME TypeOK, WaitsForLink, [Next]_vars PROVE TypeOK'
    BY WaitsForLinkKept DEF TypeInv
  <2> USE DEF handlerVars, fileVars, trVars
  <2>1. ASSUME NEW h \in Handler, Ask(h) PROVE TypeOK'
    <3>1. PICK r \in Requests, g \in TagSets :
              LET byLink == r.urls # <<>> IN
              /\ Step(h, "idle", IF byLink THEN "add" ELSE "upload")
              /\ left' = [left EXCEPT ![h] = IF byLink THEN <<>> ELSE r.files]
              /\ links' = [links EXCEPT ![h] = r.urls]
              /\ given' = [given EXCEPT ![h] = Torrents(r)]
              /\ passed' = [passed EXCEPT ![h] = PassesOver(r)]
              /\ tags' = [tags EXCEPT ![h] = g]
      BY <2>1 DEF Ask
    <3>2. /\ r.urls \in Seq(Torrent) /\ r.files \in Seq(Torrent \cup {Blank})
          /\ r.broken \subseteq Torrent
      BY DEF UploadsAssumption
    <3>3. r.urls \in Seq(Torrent \cup Name)
      BY <3>2
    <3>4. Torrents(r) \subseteq Torrent /\ PassesOver(r) \subseteq Torrent
      <4>1. Range(r.urls) \subseteq Torrent /\ Range(r.files) \subseteq Torrent \cup {Blank}
        BY <3>2, RangeOfSeq
      <4>2. QED
        BY <3>2, <4>1 DEF Torrents, PassesOver
    <3>5. /\ left' \in [Handler -> Seq(Torrent \cup {Blank})]
          /\ links' \in [Handler -> Seq(Torrent \cup Name)]
      <4>1. left' \in [Handler -> Seq(Torrent \cup {Blank})]
        BY <3>1, <3>2 DEF TypeOK
      <4>2. links' \in [Handler -> Seq(Torrent \cup Name)]
        BY <3>1, <3>3 DEF TypeOK
      <4>3. QED
        BY <4>1, <4>2
    <3>6. /\ {given', passed'} \subseteq [Handler -> SUBSET Torrent]
          /\ tags' \in [Handler -> TagSets \cup {{}}]
          /\ at' \in [Handler -> {"idle", "upload", "add", "wait"}]
      BY <3>1, <3>4 DEF TypeOK, Step
    <3>7. seen' \in [Handler -> SUBSET Torrent]
      BY <2>1 DEF TypeOK, Ask
    <3>8. QED
      BY <2>1, <3>5, <3>6, <3>7 DEF TypeOK, Ask
  <2>2. ASSUME NEW h \in Handler, Upload(h) PROVE TypeOK'
    <3>1. FreshName(h) \in Name
      BY <2>2, FreshNameIsFree DEF Upload
    <3>2. Head(left[h]) \in Torrent /\ Tail(left[h]) \in Seq(Torrent \cup {Blank})
      BY <2>2, SeqFacts DEF Upload, TypeOK
    <3>3. Append(links[h], FreshName(h)) \in Seq(Torrent \cup Name)
      BY <3>1 DEF TypeOK
    <3>4. DOMAIN stored' = DOMAIN stored \cup {FreshName(h)}
      BY <2>2 DEF Upload
    <3>5. stored' \in [DOMAIN stored' -> Torrent] /\ DOMAIN stored' \subseteq Name
          /\ admitted' \subseteq DOMAIN stored'
      BY <2>2, <3>1, <3>2, <3>4 DEF Upload, TypeOK
    <3>6. /\ left' \in [Handler -> Seq(Torrent \cup {Blank})]
          /\ links' \in [Handler -> Seq(Torrent \cup Name)]
      BY <2>2, <3>2, <3>3 DEF Upload, TypeOK
    <3>7. QED
      BY <2>2, <3>5, <3>6 DEF Upload, Step, TypeOK
  <2>3. ASSUME NEW h \in Handler, UploadFails(h) \/ AddFails(h) \/ Answer(h)
        PROVE TypeOK'
    <3>1. Finish(h) /\ late' = late
      BY <2>3 DEF UploadFails, AddFails, Answer
    <3>2. QED
      BY <3>1, FinishType DEF TypeOK
  <2>4. ASSUME NEW h \in Handler, TimeOut(h) PROVE TypeOK'
    <3>1. CASE late' = late
      BY <2>4, <3>1, FinishType DEF TypeOK, TimeOut
    <3>2. CASE late' # late
      <4>1. late' = late \cup {Call(h)} /\ Finish(h)
        BY <2>4, <3>2 DEF TimeOut
      <4>2. links[h] # <<>>
        BY <2>4 DEF TimeOut, WaitsForLink
      <4>3. QED
        BY <4>1, <4>2, FinishType, CallType DEF TypeOK
    <3>3. QED
      BY <3>1, <3>2
  <2>5. ASSUME NEW h \in Handler, Uploaded(h) PROVE TypeOK'
    BY <2>5 DEF TypeOK, Uploaded, Step
  <2>6. ASSUME NEW h \in Handler, SendAdd(h) PROVE TypeOK'
    BY <2>6 DEF TypeOK, SendAdd, Step
  <2>7. ASSUME NEW h \in Handler, AddTaken(h) PROVE TypeOK'
    <3>1. Tail(links[h]) \in Seq(Torrent \cup Name)
      BY <2>7, SeqFacts DEF AddTaken, Step, WaitsForLink, TypeOK
    <3>2. /\ DOMAIN stored' \subseteq Name /\ stored' \in [DOMAIN stored' -> Torrent]
          /\ admitted' \subseteq DOMAIN stored'
      BY <2>7 DEF TypeOK, AddTaken, DropUnused, Restrict
    <3>3. links' \in [Handler -> Seq(Torrent \cup Name)]
      BY <2>7, <3>1 DEF TypeOK, AddTaken, Next1
    <3>4. QED
      BY <2>7, <3>2, <3>3 DEF TypeOK, AddTaken, Step
  <2>8. ASSUME NEW h \in Handler, Serves(h) PROVE TypeOK'
    <3>1. Call(h) \in [link : Torrent \cup Name, labels : SUBSET Label]
      BY <2>8, CallType DEF Serves, WaitsForLink
    <3>2. (Found(Call(h).link) /\ Takes(Call(h))) \/ UNCHANGED trVars
      BY <2>8 DEF Serves, Call
    <3>3. reply' \in [Handler -> {"none", "added", "refused"}]
      BY <2>8 DEF Serves, TypeOK
    <3>4. UNCHANGED <<at, left, links, tags, given, passed, stored, admitted, late>>
      BY <2>8 DEF Serves
    <3>5. QED
      BY <3>1, <3>2, <3>3, <3>4, TakesType DEF TypeOK
  <2>9. ASSUME NEW n \in Name, Admit(n) PROVE TypeOK'
    BY <2>9 DEF TypeOK, Admit
  <2>10. ASSUME NEW n \in Name, Expire(n) PROVE TypeOK'
    BY <2>10 DEF TypeOK, Expire, Restrict
  <2>11. ASSUME NEW c \in late, ServesLate(c) PROVE TypeOK'
    <3>1. c \in [link : Torrent \cup Name, labels : SUBSET Label]
      BY DEF TypeOK
    <3>2. (Found(c.link) /\ Takes(c)) \/ UNCHANGED trVars
      BY <2>11 DEF ServesLate
    <3>3. /\ DOMAIN stored' \subseteq Name /\ stored' \in [DOMAIN stored' -> Torrent]
          /\ admitted' \subseteq DOMAIN stored'
      BY <2>11 DEF TypeOK, ServesLate, DropUnused, Restrict
    <3>4. /\ UNCHANGED <<at, left, links, tags, reply, given, passed>>
          /\ late' \subseteq late
      BY <2>11 DEF ServesLate
    <3>5. QED
      BY <3>1, <3>2, <3>3, <3>4, TakesType DEF TypeOK
  <2>12. ASSUME NEW t \in Torrent, AddedByHand(t) PROVE TypeOK'
    <3>1. /\ tr' = tr \cup {t} /\ byHand' = byHand \cup {t}
          /\ seen' = [h \in Handler |-> seen[h] \cup ({t} \cap given[h])]
          /\ labels' = [labels EXCEPT ![t] = {}]
          /\ UNCHANGED <<handlerVars, fileVars, late>>
      BY <2>12 DEF AddedByHand, Holds
    <3>2. seen' \in [Handler -> SUBSET Torrent] /\ labels' \in [Torrent -> SUBSET Label]
      BY <3>1 DEF TypeOK
    <3>3. QED
      BY <3>1, <3>2 DEF TypeOK
  <2>13. ASSUME NEW t \in Torrent, Removed(t) PROVE TypeOK'
    <3>1. labels' \in [Torrent -> SUBSET Label]
      BY <2>13 DEF TypeOK, Removed
    <3>2. QED
      BY <2>13, <3>1 DEF TypeOK, Removed
  <2>14. CASE UNCHANGED vars
    BY <2>14 DEF TypeOK, vars
  <2>15. QED
    BY <2>1, <2>2, <2>3, <2>4, <2>5, <2>6, <2>7, <2>8, <2>9, <2>10, <2>11, <2>12,
       <2>13, <2>14 DEF Next, Add
<1>3. QED
  BY <1>1, <1>2, PTL DEF Spec

\* Every variable has its type.
THEOREM TypeCorrect == UploadsAssumption => (Spec => []TypeOK)
<1>1. TypeInv => TypeOK
  BY DEF TypeInv
<1>2. QED
  BY <1>1, TypeInvariant, PTL

-----------------------------------------------------------------------------
(* The right file under each link.                                         *)

\* The links whose call has not been answered.
ToCome(h) == IF reply[h] = "added" THEN Tail(links[h]) ELSE links[h]

\* Nothing a handler was asked for and has not passed over is lost: what
\* Transmission has not had is behind a link that is still to be called, or has
\* yet to be uploaded.
Good(h) ==
    /\ Range(links[h]) \subseteq Torrent \cup DOMAIN stored
    /\ at[h] # "upload" => left[h] = <<>>
    /\ at[h] # "wait" => reply[h] = "none"
    /\ \A t \in given[h] \ (seen[h] \cup passed[h]) :
           t \in Range(left[h]) \/ \E l \in Range(ToCome(h)) : Content(l) = t

GoodAll == \A h \in Handler : Good(h)

\* Nothing happens to a handler whose links lead where they led.
LEMMA GoodKept ==
    ASSUME NEW g \in Handler, Good(g),
           at'[g] = at[g], left'[g] = left[g], links'[g] = links[g],
           reply'[g] = reply[g], given'[g] = given[g], passed'[g] = passed[g],
           seen[g] \subseteq seen'[g],
           Range(ToCome(g)) \subseteq Range(links[g]),
           \A n \in Range(links[g]) \cap DOMAIN stored :
               n \in DOMAIN stored' /\ stored'[n] = stored[n]
    PROVE  Good(g)'
<1>1. ToCome(g)' = ToCome(g)
  BY DEF ToCome
<1>2. \A l \in Range(links[g]) : Content(l)' = Content(l)
  BY DEF Good, Content
<1>3. Range(links'[g]) \subseteq Torrent \cup DOMAIN stored'
  BY DEF Good
<1>4. ASSUME NEW t \in given'[g] \ (seen'[g] \cup passed'[g])
      PROVE t \in Range(left'[g]) \/ \E l \in Range(ToCome(g)') : Content(l)' = t
  BY <1>1, <1>2, <1>4 DEF Good
<1>5. QED
  BY <1>3, <1>4 DEF Good

\* A handler that ends owes nothing, and takes no file of another away.
LEMMA GoodAfterFinish ==
    ASSUME TypeOK, GoodAll, NEW h \in Handler, Finish(h), NEW g \in Handler,
           Range(ToCome(g)) \subseteq Range(links[g])
    PROVE  Good(g)'
<1>1. CASE g = h
  <2>1. /\ at'[g] = "idle" /\ left'[g] = <<>> /\ links'[g] = <<>>
        /\ reply'[g] = "none" /\ given'[g] = {}
    BY <1>1 DEF Finish, TypeOK
  <2>2. Range(<<>>) = {}
    BY DEF Range
  <2>3. QED
    BY <2>1, <2>2 DEF Good
<1>2. CASE g # h
  <2>1. /\ at'[g] = at[g] /\ left'[g] = left[g] /\ links'[g] = links[g]
        /\ reply'[g] = reply[g] /\ seen'[g] = seen[g]
        /\ given'[g] = given[g] /\ passed'[g] = passed[g]
    BY <1>2 DEF Finish, TypeOK
  <2>2. Range(links[g]) \subseteq InUse'
    BY <2>1 DEF InUse
  <2>3. \A n \in Range(links[g]) \cap DOMAIN stored :
            n \in DOMAIN stored' /\ stored'[n] = stored[n]
    BY <2>2 DEF Finish, DropUnused, Restrict
  <2>4. QED
    BY <2>1, <2>3, GoodKept DEF GoodAll
<1>3. QED
  BY <1>1, <1>2

\* The links a handler has yet to send are links of its request.
LEMMA ToComeIsLinks ==
    ASSUME TypeInv, GoodAll, NEW g \in Handler
    PROVE  Range(ToCome(g)) \subseteq Range(links[g])
<1>1. CASE reply[g] = "added"
  <2>1. links[g] # <<>> /\ links[g] \in Seq(Torrent \cup Name)
    BY <1>1 DEF GoodAll, Good, TypeInv, TypeOK, WaitsForLink
  <2>2. QED
    BY <1>1, <2>1, SeqFacts DEF ToCome
<1>2. CASE reply[g] # "added"
  BY <1>2 DEF ToCome
<1>3. QED
  BY <1>1, <1>2

\* A handler's own step to Upload: the new link leads to the file it was
\* made for, and every old link where it led.
LEMMA GoodAfterUpload ==
    ASSUME UploadsAssumption, TypeInv, GoodAll, NEW h \in Handler, Upload(h),
           NEW g \in Handler
    PROVE  Good(g)'
<1>1. FreshName(h) \in Name \ InUse
  BY FreshNameIsFree DEF Upload
<1>2. PICK n \in Name \ InUse :
          /\ stored' = [m \in DOMAIN stored \cup {n} |->
                           IF m = n THEN Head(left[h]) ELSE stored[m]]
          /\ links' = [links EXCEPT ![h] = Append(@, n)]
          /\ left' = [left EXCEPT ![h] = Tail(@)]
          /\ left[h] # <<>> /\ at[h] = "upload" /\ at' = [at EXCEPT ![h] = "upload"]
          /\ reply' = reply /\ given' = given /\ passed' = passed /\ seen' = seen
  BY <1>1 DEF Upload, Step, trVars
<1>3. \A f \in Handler : n \notin Range(links[f])
  BY DEF InUse
<1>4. CASE g # h
  <2>1. \A m \in Range(links[g]) \cap DOMAIN stored :
            m \in DOMAIN stored' /\ stored'[m] = stored[m]
    BY <1>2, <1>3
  <2>2. QED
    BY <1>2, <1>4, <2>1, ToComeIsLinks, GoodKept DEF GoodAll, TypeInv, TypeOK
<1>5. CASE g = h
  <2>1. /\ links'[g] = Append(links[g], n) /\ left'[g] = Tail(left[g])
        /\ at'[g] = "upload" /\ reply'[g] = "none" /\ reply[g] = "none"
    BY <1>2, <1>5 DEF GoodAll, Good, TypeInv, TypeOK
  <2>2. Range(links'[g]) = Range(links[g]) \cup {n}
    BY <2>1, RangeOfAppend DEF TypeInv, TypeOK
  <2>3. ToCome(g) = links[g] /\ ToCome(g)' = links'[g]
    BY <2>1 DEF ToCome
  <2>4. \A l \in Range(links[g]) : Content(l)' = Content(l)
    BY <1>2, <1>3 DEF Content, GoodAll, Good
  <2>5. Content(n)' = Head(left[g])
    BY <1>2, <1>5 DEF Content, UploadsAssumption
  <2>6. Range(left[g]) \subseteq {Head(left[g])} \cup Range(left'[g])
    BY <1>2, <1>5, <2>1, SeqFacts DEF TypeInv, TypeOK
  <2>7. ASSUME NEW t \in given'[g] \ (seen'[g] \cup passed'[g])
        PROVE t \in Range(left'[g]) \/ \E l \in Range(ToCome(g)') : Content(l)' = t
    <3>1. t \in Range(left[g]) \/ \E l \in Range(links[g]) : Content(l) = t
      BY <1>2, <2>3, <2>7 DEF GoodAll, Good
    <3>2. CASE t \in Range(left[g])
      BY <2>2, <2>3, <2>5, <2>6, <3>2
    <3>3. CASE \E l \in Range(links[g]) : Content(l) = t
      BY <2>2, <2>3, <2>4, <3>3
    <3>4. QED
      BY <3>1, <3>2, <3>3
  <2>8. Range(links'[g]) \subseteq Torrent \cup DOMAIN stored'
    BY <1>2, <2>2 DEF GoodAll, Good
  <2>9. QED
    BY <2>1, <2>7, <2>8 DEF Good
<1>6. QED
  BY <1>4, <1>5

\* The request's torrents are all behind its links or in its files.
LEMMA GoodAfterAsk ==
    ASSUME UploadsAssumption, TypeInv, GoodAll, NEW h \in Handler, Ask(h),
           NEW g \in Handler
    PROVE  Good(g)'
<1>1. PICK r \in Requests, tg \in TagSets :
          LET byLink == r.urls # <<>> IN
          /\ Step(h, "idle", IF byLink THEN "add" ELSE "upload")
          /\ left' = [left EXCEPT ![h] = IF byLink THEN <<>> ELSE r.files]
          /\ links' = [links EXCEPT ![h] = r.urls]
          /\ given' = [given EXCEPT ![h] = Torrents(r)]
          /\ passed' = [passed EXCEPT ![h] = PassesOver(r)]
          /\ tags' = [tags EXCEPT ![h] = tg]
  BY DEF Ask
<1>2. stored' = stored /\ reply' = reply
      /\ seen' = [seen EXCEPT ![h] = given'[h] \cap tr]
  BY DEF Ask, fileVars
<1>3. CASE g # h
  <2>1. /\ at'[g] = at[g] /\ left'[g] = left[g] /\ links'[g] = links[g]
        /\ given'[g] = given[g] /\ passed'[g] = passed[g] /\ seen'[g] = seen[g]
    BY <1>1, <1>2, <1>3 DEF Step, TypeInv, TypeOK
  <2>2. QED
    BY <1>2, <2>1, ToComeIsLinks, GoodKept DEF GoodAll
<1>4. CASE g = h
  <2>1. reply[g] = "none" /\ reply'[g] = "none"
    BY <1>1, <1>2, <1>4 DEF GoodAll, Good, Step
  <2>2. /\ links'[g] = r.urls
        /\ left'[g] = IF r.urls # <<>> THEN <<>> ELSE r.files
        /\ given'[g] \ passed'[g] \subseteq Range(GoesBy(r)) \ {Blank}
        /\ at'[g] = IF r.urls # <<>> THEN "add" ELSE "upload"
    BY <1>1, <1>4 DEF Step, Torrents, PassesOver, TypeInv, TypeOK
  <2>3. r.urls \in Seq(Torrent)
    BY DEF UploadsAssumption
  <2>4. Range(r.urls) \subseteq Torrent
    BY <2>3, RangeOfSeq
  <2>5. ToCome(g)' = r.urls
    BY <2>1, <2>2 DEF ToCome
  <2>6. ASSUME NEW t \in given'[g] \ (seen'[g] \cup passed'[g])
        PROVE t \in Range(left'[g]) \/ \E l \in Range(ToCome(g)') : Content(l)' = t
    <3>1. CASE r.urls # <<>>
      <4>1. t \in Range(r.urls)
        BY <2>2, <2>6, <3>1 DEF GoesBy
      <4>2. t \in Torrent
        BY <2>4, <4>1
      <4>3. Content(t)' = t
        BY <4>2 DEF Content
      <4>4. QED
        BY <2>5, <4>1, <4>3
    <3>2. CASE r.urls = <<>>
      BY <2>2, <2>6, <3>2 DEF GoesBy
    <3>3. QED
      BY <3>1, <3>2
  <2>7. QED
    BY <2>1, <2>2, <2>4, <2>6 DEF Good
<1>5. QED
  BY <1>3, <1>4

\* Transmission answers for the link the handler waits for.
LEMMA GoodAfterServes ==
    ASSUME TypeInv, GoodAll, NEW h \in Handler, Serves(h), NEW g \in Handler
    PROVE  Good(g)'
<1> DEFINE t == Content(Head(links[h]))
<1>1. /\ UNCHANGED <<at, left, links, given, passed, stored>>
      /\ at[h] = "wait" /\ reply[h] = "none"
      /\ \/ /\ reply' = [reply EXCEPT ![h] = "added"]
            /\ seen' = [f \in Handler |-> seen[f] \cup ({t} \cap given[f])]
         \/ reply' = [reply EXCEPT ![h] = "refused"] /\ seen' = seen
  BY DEF Serves, Takes, Holds, Call, trVars, fileVars
<1>2. \A l : Content(l)' = Content(l)
  BY <1>1 DEF Content
<1>3. seen[g] \subseteq seen'[g]
  BY <1>1 DEF TypeInv, TypeOK
<1>4. CASE g # h
  <2>1. reply'[g] = reply[g]
    BY <1>1, <1>4 DEF TypeInv, TypeOK
  <2>2. QED
    BY <1>1, <1>3, <2>1, ToComeIsLinks, GoodKept DEF GoodAll
<1>5. CASE g = h
  <2>1. ToCome(g) = links[g]
    BY <1>1, <1>5 DEF ToCome
  <2>2. links[g] # <<>> /\ left[g] = <<>>
    BY <1>1, <1>5 DEF GoodAll, Good, TypeInv, WaitsForLink
  <2>3. Range(<<>>) = {}
    BY DEF Range
  <2>4. ASSUME NEW x \in given'[g] \ (seen'[g] \cup passed'[g])
        PROVE \E l \in Range(ToCome(g)') : Content(l)' = x
    <3>1. x \in given[g] \ (seen[g] \cup passed[g])
      BY <1>1, <1>3, <2>4
    <3>2. PICK l \in Range(links[g]) : Content(l) = x
      BY <2>1, <2>2, <2>3, <3>1 DEF GoodAll, Good
    <3>3. CASE reply' = [reply EXCEPT ![h] = "refused"]
      <4>1. ToCome(g)' = links[g]
        BY <1>1, <1>5, <3>3 DEF ToCome, TypeInv, TypeOK
      <4>2. QED
        BY <1>2, <3>2, <4>1
    <3>4. CASE /\ reply' = [reply EXCEPT ![h] = "added"]
               /\ seen' = [f \in Handler |-> seen[f] \cup ({t} \cap given[f])]
      <4>1. ToCome(g)' = Tail(links[g])
        BY <1>1, <1>5, <3>4 DEF ToCome, TypeInv, TypeOK
      <4>2. x # t
        BY <1>5, <2>4, <3>1, <3>4
      <4>3. l # Head(links[g])
        BY <1>5, <3>2, <4>2
      <4>4. l \in Range(Tail(links[g]))
        BY <2>2, <3>2, <4>3, SeqFacts DEF TypeInv, TypeOK
      <4>5. QED
        BY <1>2, <3>2, <4>1, <4>4
    <3>5. QED
      BY <1>1, <3>3, <3>4
  <2>5. QED
    BY <1>1, <1>5, <2>2, <2>4 DEF GoodAll, Good
<1>6. QED
  BY <1>4, <1>5

\* An answered link is struck off.
LEMMA GoodAfterTaken ==
    ASSUME TypeInv, GoodAll, NEW h \in Handler, AddTaken(h), NEW g \in Handler
    PROVE  Good(g)'
<1>1. /\ at[h] = "wait" /\ at' = [at EXCEPT ![h] = "add"] /\ reply[h] = "added"
      /\ links' = [links EXCEPT ![h] = Tail(@)]
      /\ reply' = [reply EXCEPT ![h] = "none"]
      /\ left' = left /\ given' = given /\ passed' = passed /\ seen' = seen
      /\ stored' = Restrict(stored, DOMAIN stored \cap InUse')
  BY DEF AddTaken, Step, Next1, DropUnused, trVars
<1>2. Range(links'[g]) \subseteq Range(links[g])
  <2>1. links[h] \in Seq(Torrent \cup Name) /\ links[h] # <<>>
    BY <1>1 DEF TypeInv, TypeOK, WaitsForLink
  <2>2. Range(Tail(links[h])) \subseteq Range(links[h])
    BY <2>1, SeqFacts
  <2>3. QED
    BY <1>1, <2>2 DEF TypeInv, TypeOK
<1>3. \A n \in Range(links'[g]) \cap DOMAIN stored :
          n \in DOMAIN stored' /\ stored'[n] = stored[n]
  BY <1>1 DEF InUse, Restrict
<1>4. CASE g # h
  <2>1. /\ at'[g] = at[g] /\ left'[g] = left[g] /\ links'[g] = links[g]
        /\ reply'[g] = reply[g] /\ seen'[g] = seen[g]
        /\ given'[g] = given[g] /\ passed'[g] = passed[g]
    BY <1>1, <1>4 DEF TypeInv, TypeOK
  <2>2. QED
    BY <1>3, <2>1, ToComeIsLinks, GoodKept DEF GoodAll
<1>5. CASE g = h
  <2>1. /\ at'[g] = "add" /\ reply'[g] = "none" /\ left'[g] = <<>> /\ left[g] = <<>>
    BY <1>1, <1>5 DEF GoodAll, Good, TypeInv, TypeOK
  <2>2. links'[g] = Tail(links[g]) /\ ToCome(g) = Tail(links[g])
    BY <1>1, <1>5 DEF ToCome, TypeInv, TypeOK
  <2>3. ToCome(g)' = links'[g]
    BY <2>1 DEF ToCome
  <2>4. Range(links'[g]) \subseteq Torrent \cup DOMAIN stored'
    BY <1>2, <1>3 DEF GoodAll, Good
  <2>5. \A l \in Range(links'[g]) : Content(l)' = Content(l)
    BY <1>2, <1>3 DEF GoodAll, Good, Content
  <2>6. ASSUME NEW x \in given'[g] \ (seen'[g] \cup passed'[g])
        PROVE x \in Range(left'[g]) \/ \E l \in Range(ToCome(g)') : Content(l)' = x
    <3>1. x \in Range(left[g]) \/ \E l \in Range(links'[g]) : Content(l) = x
      BY <1>1, <2>2, <2>6 DEF GoodAll, Good
    <3>2. QED
      BY <2>1, <2>3, <2>5, <3>1
  <2>7. QED
    BY <2>1, <2>4, <2>6 DEF Good
<1>6. QED
  BY <1>4, <1>5

\* Every step keeps the requests good.
LEMMA GoodInductive ==
    ASSUME UploadsAssumption, TypeInv, GoodAll, [Next]_vars
    PROVE  GoodAll'
<1> USE DEF handlerVars, fileVars, trVars
<1> SUFFICES ASSUME NEW g \in Handler PROVE Good(g)'
  BY DEF GoodAll
<1>0. Good(g) /\ Range(ToCome(g)) \subseteq Range(links[g])
  BY ToComeIsLinks DEF GoodAll
<1>1. ASSUME NEW h \in Handler, Uploaded(h) \/ SendAdd(h) PROVE Good(g)'
  <2>1. /\ UNCHANGED <<left, links, reply, given, passed, seen, stored>>
        /\ at[h] \in {"upload", "add"} /\ at'[h] \in {"add", "wait"}
        /\ at' = [at EXCEPT ![h] = at'[h]] /\ (at[h] = "upload" => left[h] = <<>>)
        /\ at[h] # "wait"
    BY <1>1 DEF Uploaded, SendAdd, Step, TypeInv, TypeOK
  <2>2. CASE g # h
    BY <1>0, <2>1, <2>2, GoodKept DEF TypeInv, TypeOK
  <2>3. CASE g = h
    <3>1. ToCome(g)' = ToCome(g) /\ \A l : Content(l)' = Content(l)
      BY <2>1 DEF ToCome, Content
    <3>2. QED
      BY <1>0, <2>1, <2>3, <3>1 DEF Good
  <2>4. QED
    BY <2>2, <2>3
<1>2. ASSUME NEW h \in Handler, UploadFails(h) \/ AddFails(h) \/ Answer(h) \/ TimeOut(h)
      PROVE Good(g)'
  <2>1. Finish(h)
    BY <1>2 DEF UploadFails, AddFails, Answer, TimeOut
  <2>2. QED
    BY <1>0, <2>1, GoodAfterFinish DEF TypeInv
<1>3. ASSUME NEW n \in Name, Admit(n) PROVE Good(g)'
  BY <1>0, <1>3, GoodKept DEF Admit
<1>4. ASSUME NEW n \in Name, Expire(n) PROVE Good(g)'
  <2>1. \A m \in Range(links[g]) \cap DOMAIN stored :
            m \in DOMAIN stored' /\ stored'[m] = stored[m]
    BY <1>4 DEF Expire, Restrict
  <2>2. QED
    BY <1>0, <1>4, <2>1, GoodKept DEF Expire
<1>5. ASSUME NEW c \in late, ServesLate(c) PROVE Good(g)'
  <2>1. Range(links[g]) \subseteq InUse'
    BY <1>5 DEF ServesLate, InUse
  <2>2. \A m \in Range(links[g]) \cap DOMAIN stored :
            m \in DOMAIN stored' /\ stored'[m] = stored[m]
    BY <1>5, <2>1 DEF ServesLate, DropUnused, Restrict
  <2>3. seen[g] \subseteq seen'[g]
    BY <1>5 DEF ServesLate, Takes, Holds
  <2>4. QED
    BY <1>0, <1>5, <2>2, <2>3, GoodKept DEF ServesLate
<1>6. ASSUME NEW t \in Torrent, AddedByHand(t) \/ Removed(t) PROVE Good(g)'
  <2>1. seen[g] \subseteq seen'[g] /\ UNCHANGED <<handlerVars, fileVars>>
    BY <1>6 DEF AddedByHand, Removed, Holds
  <2>2. QED
    BY <1>0, <2>1, GoodKept
<1>7. CASE UNCHANGED vars
  BY <1>0, <1>7, GoodKept DEF vars
<1>8. QED
  BY <1>1, <1>2, <1>3, <1>4, <1>5, <1>6, <1>7, GoodAfterAsk, GoodAfterUpload,
     GoodAfterServes, GoodAfterTaken DEF Next, Add

\* A request answered without an error got all its torrents in, but for those
\* that were passed over.
THEOREM AnsweredMeansIn == UploadsAssumption => (Spec => []OkMeansIn)
<1> SUFFICES ASSUME UploadsAssumption PROVE Spec => []OkMeansIn
  OBVIOUS
<1>1. Init => GoodAll
  <2>1. Range(<<>>) = {}
    BY DEF Range
  <2>2. QED
    BY <2>1 DEF Init, GoodAll, Good
<1>2. TypeInv /\ GoodAll /\ [Next]_vars => GoodAll'
  BY GoodInductive
<1>3. TypeInv /\ GoodAll => OkMeansIn
  <2> SUFFICES ASSUME TypeInv, GoodAll, NEW h \in Handler, at[h] = "add", links[h] = <<>>
               PROVE given[h] \subseteq seen[h] \cup passed[h]
    BY DEF OkMeansIn
  <2>1. Range(<<>>) = {} /\ ToCome(h) = <<>> /\ left[h] = <<>>
    BY DEF Range, ToCome, GoodAll, Good
  <2>2. QED
    BY <2>1 DEF GoodAll, Good
<1>4. Spec => []TypeInv
  BY TypeInvariant
<1>5. QED
  BY <1>1, <1>2, <1>3, <1>4, PTL DEF Spec

-----------------------------------------------------------------------------
(* Labels.                                                                 *)

\* Every call, also an abandoned one, goes with the tags of some request.
TagsTruthful ==
    /\ \A h \in Handler : at[h] # "idle" => tags[h] \in TagSets
    /\ \A c \in late : \E g \in TagSets : c.labels = g \cup Own

\* What comes through the proxy has the labels of one request.
THEOREM LabelsAreOfOneRequest == UploadsAssumption => (Spec => []LabelsKept)
<1> SUFFICES ASSUME UploadsAssumption PROVE Spec => []LabelsKept
  OBVIOUS
<1> DEFINE Inv == TagsTruthful /\ LabelsKept
<1>1. Init => Inv
  BY DEF Init, TagsTruthful, LabelsKept
<1>2. TypeInv /\ Inv /\ [Next]_vars => Inv'
  <2> SUFFICES ASSUME TypeInv, TagsTruthful, LabelsKept, [Next]_vars
               PROVE  TagsTruthful' /\ LabelsKept'
    OBVIOUS
  <2> USE DEF handlerVars, fileVars, trVars
  <2>1. ASSUME NEW c, Found(c.link), Takes(c), \E g \in TagSets : c.labels = g \cup Own
        PROVE  LabelsKept'
    <3> DEFINE t == Content(c.link)
    <3>1. t \in Torrent /\ tr' = tr \cup {t} /\ byHand' = byHand
          /\ labels' = IF t \in tr THEN labels ELSE [labels EXCEPT ![t] = c.labels]
      BY <2>1, ContentType DEF Takes, Holds, TypeInv
    <3> HIDE DEF t
    <3>2. ASSUME NEW x \in tr' \ byHand' PROVE \E g \in TagSets : labels'[x] = g \cup Own
      <4>1. CASE x \in tr /\ x # t
        BY <3>1, <3>2, <4>1 DEF LabelsKept, TypeInv, TypeOK
      <4>2. CASE x = t /\ t \in tr
        BY <3>1, <3>2, <4>2 DEF LabelsKept
      <4>3. CASE x = t /\ t \notin tr
        BY <2>1, <3>1, <4>3 DEF TypeInv, TypeOK
      <4>4. QED
        BY <3>1, <3>2, <4>1, <4>2, <4>3
    <3>3. QED
      BY <3>2 DEF LabelsKept
  <2>2. ASSUME UNCHANGED <<tr, labels, byHand>> PROVE LabelsKept'
    BY <2>2 DEF LabelsKept
  <2>3. ASSUME NEW h \in Handler, at[h] = "wait"
        PROVE  \E g \in TagSets : Call(h).labels = g \cup Own
    <3>1. tags[h] \in TagSets
      BY <2>3 DEF TagsTruthful
    <3>2. Call(h).labels = tags[h] \cup Own
      BY DEF Call, Labels
    <3>3. QED
      BY <3>1, <3>2
  <2>4. ASSUME NEW h \in Handler, Ask(h) PROVE TagsTruthful' /\ LabelsKept'
    <3>1. PICK g \in TagSets : tags' = [tags EXCEPT ![h] = g]
      BY <2>4 DEF Ask
    <3>2. /\ \A f \in Handler \ {h} : at'[f] = at[f]
          /\ late' = late /\ UNCHANGED <<tr, labels, byHand>>
      BY <2>4 DEF Ask, Step, TypeInv, TypeOK
    <3>3. TagsTruthful'
      BY <3>1, <3>2 DEF TagsTruthful, TypeInv, TypeOK
    <3>4. QED
      BY <2>2, <3>2, <3>3
  <2>5. ASSUME NEW h \in Handler,
               Upload(h) \/ Uploaded(h) \/ SendAdd(h) \/ AddTaken(h)
        PROVE  TagsTruthful' /\ LabelsKept'
    <3>1. /\ UNCHANGED <<tags, late, tr, labels, byHand>>
          /\ at[h] # "idle" /\ \A f \in Handler \ {h} : at'[f] = at[f]
      BY <2>5 DEF Upload, Uploaded, SendAdd, AddTaken, Step, TypeInv, TypeOK
    <3>2. TagsTruthful'
      BY <3>1 DEF TagsTruthful
    <3>3. QED
      BY <2>2, <3>1, <3>2
  <2>6. ASSUME NEW h \in Handler,
               UploadFails(h) \/ AddFails(h) \/ Answer(h) \/ TimeOut(h)
        PROVE  TagsTruthful' /\ LabelsKept'
    <3>1. /\ UNCHANGED <<tr, labels, byHand>>
          /\ at' = [at EXCEPT ![h] = "idle"] /\ tags' = [tags EXCEPT ![h] = {}]
      BY <2>6 DEF UploadFails, AddFails, Answer, TimeOut, Finish
    <3>2. late' = late \/ (at[h] = "wait" /\ late' = late \cup {Call(h)})
      BY <2>6 DEF UploadFails, AddFails, Answer, TimeOut
    <3>3. \A c \in late' : \E g \in TagSets : c.labels = g \cup Own
      BY <2>3, <3>2 DEF TagsTruthful
    <3>4. \A f \in Handler : at'[f] # "idle" => tags'[f] \in TagSets
      BY <3>1 DEF TagsTruthful, TypeInv, TypeOK
    <3>5. QED
      BY <2>2, <3>1, <3>3, <3>4 DEF TagsTruthful
  <2>7. ASSUME NEW h \in Handler, Serves(h) PROVE TagsTruthful' /\ LabelsKept'
    <3>1. at' = at /\ tags' = tags /\ late' = late
      BY <2>7 DEF Serves
    <3>2. TagsTruthful'
      BY <3>1 DEF TagsTruthful
    <3>3. (Found(Call(h).link) /\ Takes(Call(h))) \/ UNCHANGED trVars
      BY <2>7 DEF Serves, Call
    <3>4. QED
      BY <2>1, <2>2, <2>3, <2>7, <3>2, <3>3 DEF Serves
  <2>8. ASSUME NEW c \in late, ServesLate(c) PROVE TagsTruthful' /\ LabelsKept'
    <3>1. at' = at /\ tags' = tags /\ late' \subseteq late
      BY <2>8 DEF ServesLate
    <3>2. TagsTruthful'
      BY <3>1 DEF TagsTruthful
    <3>3. (Found(c.link) /\ Takes(c)) \/ UNCHANGED trVars
      BY <2>8 DEF ServesLate
    <3>4. \E g \in TagSets : c.labels = g \cup Own
      BY DEF TagsTruthful
    <3>5. QED
      BY <2>1, <2>2, <3>2, <3>3, <3>4
  <2>9. ASSUME NEW n \in Name, Admit(n) \/ Expire(n) PROVE TagsTruthful' /\ LabelsKept'
    BY <2>2, <2>9 DEF Admit, Expire, TagsTruthful
  <2>10. ASSUME NEW t \in Torrent, AddedByHand(t) \/ Removed(t)
         PROVE TagsTruthful' /\ LabelsKept'
    <3>1. TagsTruthful'
      BY <2>10 DEF AddedByHand, Removed, TagsTruthful
    <3>2. \A x \in tr' \ byHand' : x \in tr \ byHand /\ labels'[x] = labels[x]
      BY <2>10 DEF AddedByHand, Removed, Holds, TypeInv, TypeOK
    <3>3. QED
      BY <3>1, <3>2 DEF LabelsKept
  <2>11. CASE UNCHANGED vars
    BY <2>2, <2>11 DEF vars, TagsTruthful
  <2>12. QED
    BY <2>4, <2>5, <2>6, <2>7, <2>8, <2>9, <2>10, <2>11 DEF Next, Add
<1>3. Inv => LabelsKept
  OBVIOUS
<1>4. Spec => []TypeInv
  BY TypeInvariant
<1> HIDE DEF Inv
<1>5. QED
  BY <1>1, <1>2, <1>3, <1>4, PTL DEF Spec

=============================================================================
