----------------------- MODULE HistoricalStatsProofs -----------------------
(***************************************************************************)
(* Proofs about HistoricalStats, for every bound and every increment.      *)
(***************************************************************************)
EXTENDS HistoricalStats, TLAPS

\* No total is mistaken for the bytes that are no document.
LEMMA JunkIsNoTotal == Junk \notin Totals
BY StatsAssumption DEF Junk, Totals, Count

\* No bytes are totals.
LEMMA ZeroType == Zero \in Totals
BY StatsAssumption DEF Zero, Totals, Count

\* A document is at least as long as an empty file.
LEMMA OverwriteTruncated ==
    ASSUME NEW t \in Totals
    PROVE  Overwrite(Truncated, t) = [exists |-> TRUE, size |-> Size(t), holds |-> t]
<1>1. Size(t) \in Nat
  BY StatsAssumption DEF Size, Totals
<1> QED BY <1>1 DEF Overwrite, Truncated

\* What a write leaves behind is what was written, or junk.
LEMMA OverwriteType ==
    ASSUME NEW f \in [exists : BOOLEAN, size : Nat, holds : Totals \cup {Junk}],
           NEW t \in Totals
    PROVE  /\ Overwrite(f, t)
                \in [exists : BOOLEAN, size : Nat, holds : Totals \cup {Junk}]
           /\ Overwrite(f, t).holds \in {t, Junk}
<1>1. Size(t) \in Nat
  BY StatsAssumption DEF Size, Totals
<1> QED BY <1>1 DEF Overwrite

TypeInv == TypeOK /\ Total \in Totals

\* The types hold at the start.
LEMMA TypeInit == Init => TypeInv
BY ZeroType, StatsAssumption
   DEF Init, TypeInv, TypeOK, NoFile, Total, Plus, Zero, Totals, Count, Saver

\* Every step keeps them.
LEMMA TypeStep == TypeInv /\ [Next]_vars => TypeInv'
<1> SUFFICES ASSUME TypeInv, [Next]_vars PROVE TypeInv'
  OBVIOUS
<1> USE DEF TypeInv, TypeOK
<1>1. CASE StartLoads
  <2>1. file.holds \in Totals
    BY <1>1 DEF StartLoads, Readable
  <2>2. base' \in Totals /\ session' = Zero
    BY <1>1, <2>1 DEF StartLoads, Loaded, Totals
  <2>3. Total' \in Totals
    BY <2>2 DEF Total, Plus, Zero, Totals, Count
  <2> QED BY <1>1, <2>2, <2>3, ZeroType DEF StartLoads
<1>2. CASE StartCreates
  <2>1. Plus(Zero, Zero) = Zero
    BY DEF Plus, Zero
  <2> QED BY <1>2, <2>1, ZeroType DEF StartCreates, Total, Saver
<1>3. CASE Booted
  BY <1>3 DEF Booted, Total, Saver
<1>4. CASE Refresh
  <2>1. PICK d \in Increment, u \in Increment :
            LET more == [down |-> d, up |-> u] IN
            /\ Plus(counted, more) \in Totals /\ Plus(Total, more) \in Totals
            /\ session' = Plus(session, more)
            /\ counted' = Plus(counted, more)
    BY <1>4 DEF Refresh
  <2>2. d \in Nat /\ u \in Nat
    BY StatsAssumption
  <2>3. base' = base
    BY <1>4 DEF Refresh
  <2>a. /\ base.down \in Nat /\ base.up \in Nat
        /\ session.down \in Nat /\ session.up \in Nat
    BY DEF Totals, Count
  <2>b. /\ base.down + session.down + d \in 0..MaxCount
        /\ base.up + session.up + u \in 0..MaxCount
    BY <2>1 DEF Total, Plus, Totals, Count
  <2>c. /\ session' = [down |-> session.down + d, up |-> session.up + u]
        /\ Total' = [down |-> base.down + (session.down + d),
                     up |-> base.up + (session.up + u)]
    BY <2>1, <2>3 DEF Total, Plus
  <2>d. /\ session.down + d \in 0..MaxCount /\ session.up + u \in 0..MaxCount
        /\ base.down + (session.down + d) \in 0..MaxCount
        /\ base.up + (session.up + u) \in 0..MaxCount
    BY <2>a, <2>b, <2>2, StatsAssumption
  <2>4. session' \in Totals /\ Total' \in Totals
    BY <2>c, <2>d DEF Totals, Count
  <2> QED BY <1>4, <2>1, <2>4 DEF Refresh
<1>5. ASSUME NEW w \in Saver, Begin(w) PROVE TypeInv'
  <2>1. [buf[w] EXCEPT !.down = Total.down] \in Totals
    BY DEF Totals
  <2> QED BY <1>5, <2>1 DEF Begin, Total
<1>6. ASSUME NEW w \in Saver, ReadUp(w) PROVE TypeInv'
  <2>1. [buf[w] EXCEPT !.up = Total.up] \in Totals
    BY DEF Totals
  <2> QED BY <1>6, <2>1 DEF ReadUp, Total
<1>7. ASSUME NEW w \in Saver, Create(w) PROVE TypeInv'
  BY <1>7 DEF Create, Truncated, Total
<1>8. ASSUME NEW w \in Saver, Write(w) PROVE TypeInv'
  <2>1. file' \in [exists : BOOLEAN, size : Nat, holds : Totals \cup {Junk}]
    BY <1>8, OverwriteType DEF Write
  <2> QED BY <1>8, <2>1 DEF Write, Finished, Total
<1>9. ASSUME NEW w \in Saver, Fault(w) PROVE TypeInv'
  BY <1>9 DEF Fault, WriteFails, CreateFails, Finished, Total
<1>10. CASE StartPanics \/ Sigterm \/ Exit \/ Crash \/ UNCHANGED vars
  BY <1>10 DEF StartPanics, Sigterm, Exit, Crash, vars, Total, Saver
<1> QED BY <1>1, <1>2, <1>3, <1>4, <1>5, <1>6, <1>7, <1>8, <1>9, <1>10
        DEF Next, Save

\* Types, for every value of the constants.
THEOREM TypeCorrect == Spec => []TypeOK
<1>1. TypeInv => TypeOK
  BY DEF TypeInv
<1> QED BY <1>1, TypeInit, TypeStep, PTL DEF Spec

\* So they hold always.
LEMMA TypeAlways == Spec => []TypeInv
BY TypeInit, TypeStep, PTL DEF Spec

-----------------------------------------------------------------------------
\* No overlap, crash or disk failure ever makes memory, file or a pending save
\* claim an uploaded byte that was not counted.
THEOREM UploadsCounted == Spec => []UploadNotInvented
<1>1. Init => UploadNotInvented
  BY DEF Init, UploadNotInvented, Total, Plus, Zero, Readable, NoFile
<1>2. TypeInv /\ UploadNotInvented /\ [Next]_vars => UploadNotInvented'
  <2> SUFFICES ASSUME TypeInv, UploadNotInvented, [Next]_vars
               PROVE  UploadNotInvented'
    OBVIOUS
  <2> USE DEF UploadNotInvented, TypeInv, TypeOK
  <2>1. CASE StartLoads
    <3>1. Total'.up = file.holds.up
      BY <2>1 DEF StartLoads, Loaded, Total, Plus, Zero, Readable, Totals, Count
    <3> QED BY <2>1, <3>1 DEF StartLoads, Readable
  <2>2. CASE StartCreates
    <3>1. Total'.up = 0 /\ counted'.up \in Nat /\ file' = file /\ counted' = counted
      BY <2>2 DEF StartCreates, Total, Plus, Zero, Totals, Count
    <3>2. \A w \in Saver : buf'[w].up <= counted'.up
      BY <2>2, <3>1 DEF StartCreates, Zero, Saver
    <3> QED BY <2>2, <3>1, <3>2 DEF Readable
  <2>3. CASE Refresh
    <3>1. PICK d \in Increment, u \in Increment :
              /\ session' = Plus(session, [down |-> d, up |-> u])
              /\ counted' = Plus(counted, [down |-> d, up |-> u])
      BY <2>3 DEF Refresh
    <3>2. u \in Nat /\ base' = base /\ buf' = buf /\ file' = file
      BY <2>3, StatsAssumption DEF Refresh
    <3>3. counted'.up = counted.up + u /\ Total'.up = Total.up + u
      BY <3>1, <3>2 DEF Total, Plus, Totals, Count
    <3>4. counted.up \in Nat /\ \A w \in Saver : buf[w].up \in Nat
      BY DEF Totals, Count
    <3>5. Total.up \in Nat
      BY DEF Totals, Count
    <3>6. file.holds \in Totals => file.holds.up \in Nat
      BY DEF Totals, Count
    <3> QED BY <3>2, <3>3, <3>4, <3>5, <3>6 DEF Readable
  <2>4. ASSUME NEW w \in Saver, Begin(w) PROVE UploadNotInvented'
    <3>1. buf'[w].up = buf[w].up
      BY <2>4 DEF Begin, Totals
    <3> QED BY <2>4, <3>1 DEF Begin, Total, Readable
  <2>5. ASSUME NEW w \in Saver, ReadUp(w) PROVE UploadNotInvented'
    <3>1. buf'[w].up = Total.up
      BY <2>5 DEF ReadUp, Totals
    <3> QED BY <2>5, <3>1 DEF ReadUp, Total, Readable
  <2>6. ASSUME NEW w \in Saver, Create(w) PROVE UploadNotInvented'
    BY <2>6 DEF Create, Truncated, Total, Readable
  <2>7. ASSUME NEW w \in Saver, Write(w) PROVE UploadNotInvented'
    <3>1. file'.holds \in {buf[w], Junk}
      BY <2>7, OverwriteType DEF Write
    <3> QED BY <2>7, <3>1 DEF Write, Total, Readable
  <2>8. ASSUME NEW w \in Saver, Fault(w) PROVE UploadNotInvented'
    BY <2>8 DEF Fault, WriteFails, CreateFails, Total, Readable
  <2>9. CASE \/ Booted \/ StartPanics \/ Sigterm \/ Exit \/ Crash
             \/ UNCHANGED vars
    BY <2>9 DEF Booted, StartPanics, Sigterm, Exit, Crash, vars, Total, Readable
  <2> QED BY <2>1, <2>2, <2>3, <2>4, <2>5, <2>6, <2>7, <2>8, <2>9
          DEF Next, Save
<1> QED BY <1>1, <1>2, TypeAlways, PTL DEF Spec

-----------------------------------------------------------------------------
(* Clean histories.                                                        *)

\* While the history is clean, each phase, and what the main goroutine is
\* doing in it, fixes where the all-time upload total is: in memory, in
\* buf["main"], or in the file.
Graceful ==
    /\ pc["main"] = "write" => file = Truncated
    /\ phase = "down" =>
           \/ ~file.exists /\ counted.up = 0 /\ pc["main"] = "idle"
           \/ /\ Readable /\ file.holds.up = counted.up
              /\ pc["main"] = "done" /\ file.holds = buf["main"]
    /\ phase = "boot" =>
           /\ counted.up = 0 /\ Total.up = 0
           /\ pc["main"] \in {"create", "write", "done"}
    /\ phase = "running" => Total.up = counted.up /\ pc["main"] = "idle"
    /\ phase = "stopping" =>
           /\ Total.up = counted.up
           /\ pc["main"] \in {"create", "write", "done"}
                  => buf["main"].up = counted.up
           /\ pc["main"] = "done" => Readable /\ file.holds = buf["main"]
    /\ phase # "running" => pc["ticker"] = "idle"

GracefulInv == clean => Graceful

\* No byte is lost at the start.
LEMMA GracefulInit == Init => Graceful
BY DEF Init, Graceful, NoFile, Zero, Total, Plus, Saver

\* A step that leaves the history clean keeps every byte.
LEMMA GracefulStep ==
    ASSUME TypeInv, TypeInv', GracefulInv, [Next]_vars
    PROVE  GracefulInv'
<1> SUFFICES ASSUME clean' PROVE Graceful'
  BY DEF GracefulInv
<1> USE DEF TypeInv, TypeOK, Saver
<1>0. clean /\ Graceful
  <2>1. clean' => clean
    BY DEF Next, StartLoads, StartCreates, StartPanics, Booted, Refresh, Save,
           Begin, ReadUp, Create, Write, Fault, WriteFails, CreateFails,
           Sigterm, Exit, Crash, vars
  <2> QED BY <2>1 DEF GracefulInv
<1> USE <1>0
<1>1. CASE StartLoads
  <2>1. Total'.up = file.holds.up
    BY <1>1 DEF StartLoads, Loaded, Total, Plus, Zero, Readable, Totals, Count
  <2> QED BY <1>1, <2>1 DEF StartLoads, Graceful, Readable
<1>2. CASE StartCreates
  <2>1. Total'.up = 0 /\ phase' = "boot"
    BY <1>2 DEF StartCreates, Total, Plus, Zero
  <2>2. counted'.up = 0 /\ pc'["main"] = "create" /\ pc'["ticker"] = "idle"
    BY <1>2 DEF StartCreates, Graceful, Readable
  <2> QED BY <2>1, <2>2 DEF Graceful
<1>3. CASE Booted
  BY <1>3 DEF Booted, Graceful, Total
<1>4. CASE Refresh
  <2>1. PICK d \in Increment, u \in Increment :
            /\ session' = Plus(session, [down |-> d, up |-> u])
            /\ counted' = Plus(counted, [down |-> d, up |-> u])
    BY <1>4 DEF Refresh
  <2>2. /\ u \in Nat /\ phase = "running"
        /\ UNCHANGED <<phase, base, buf, pc, file>>
    BY <1>4, StatsAssumption DEF Refresh
  <2>3. counted'.up = counted.up + u /\ Total'.up = Total.up + u
    BY <2>1, <2>2 DEF Total, Plus, Totals, Count
  <2> QED BY <2>2, <2>3 DEF Graceful
<1>5. ASSUME NEW w \in Saver, Begin(w) PROVE Graceful'
  BY <1>5 DEF Begin, Graceful, Total, Readable
<1>6. ASSUME NEW w \in Saver, ReadUp(w) PROVE Graceful'
  <2>1. buf'[w].up = Total.up /\ \A v \in Saver \ {w} : buf'[v] = buf[v]
    BY <1>6 DEF ReadUp, Totals
  <2> QED BY <1>6, <2>1 DEF ReadUp, Graceful, Total, Readable
<1>7. ASSUME NEW w \in Saver, Create(w) PROVE Graceful'
  <2>1. phase # "down"
    BY <1>7 DEF Create, Graceful
  <2> QED BY <1>7, <2>1 DEF Create, Graceful, Total
<1>8. CASE Write("ticker")
  <2>1. phase = "running" /\ pc["main"] = "idle"
    BY <1>8 DEF Write, Graceful
  <2> QED BY <1>8, <2>1 DEF Write, Finished, Graceful, Total
<1>9. CASE Write("main")
  <2>1. file = Truncated /\ phase \in {"boot", "stopping"} /\ phase' = phase
    BY <1>9 DEF Write, Graceful, Readable
  <2>2. /\ file' = [exists |-> TRUE, size |-> Size(buf["main"]),
                   holds |-> buf["main"]]
        /\ pc'["main"] = "done" /\ pc'["ticker"] = pc["ticker"]
    BY <1>9, <2>1, OverwriteTruncated DEF Write, Finished
  <2>3. Readable' /\ file'.holds = buf["main"]
    BY <2>2, JunkIsNoTotal DEF Readable
  <2> QED BY <1>9, <2>1, <2>2, <2>3 DEF Write, Graceful, Total
<1>10. CASE Exit
  <2>1. /\ phase = "stopping" /\ phase' = "down" /\ pc["main"] = "done"
        /\ pc' = [pc EXCEPT !["ticker"] = "idle"]
        /\ UNCHANGED <<base, session, file, buf, counted>>
    BY <1>10 DEF Exit
  <2>2. Readable' /\ file'.holds = buf'["main"]
    BY <2>1 DEF Graceful, Readable
  <2>3. file'.holds.up = counted'.up
    BY <2>1 DEF Graceful
  <2>4. pc'["main"] = "done" /\ pc'["ticker"] = "idle"
    BY <2>1
  <2> QED BY <2>1, <2>2, <2>3, <2>4 DEF Graceful
<1>11. CASE Sigterm
  BY <1>11 DEF Sigterm, Graceful, Total, Readable
<1>12. CASE StartPanics \/ UNCHANGED vars
  BY <1>12 DEF StartPanics, vars, Graceful, Total, Readable
<1>13. ~Crash /\ ~(\E w \in Saver : Fault(w))
  BY DEF Crash, Fault, WriteFails, CreateFails
<1> QED BY <1>1, <1>2, <1>3, <1>4, <1>5, <1>6, <1>7, <1>8, <1>9, <1>10, <1>11,
           <1>12, <1>13 DEF Next, Save

\* Where the all-time upload total is at every moment of a clean history.
THEOREM GracefulInvariant == Spec => []GracefulInv
<1>1. Init => GracefulInv
  BY GracefulInit DEF GracefulInv
<1>2. TypeInv /\ TypeInv' /\ GracefulInv /\ [Next]_vars => GracefulInv'
  BY GracefulStep
<1> QED BY <1>1, <1>2, TypeAlways, PTL DEF Spec

\* With graceful shutdowns over a disk that works, every byte uploaded since
\* the installation is in the all-time total, however many restarts.
THEOREM UploadsSurvive == Spec => []UploadAllTime
<1>1. GracefulInv => UploadAllTime
  BY DEF GracefulInv, Graceful, UploadAllTime
<1> QED BY <1>1, GracefulInvariant, PTL

\* With such a history, the final save is what the file holds at the end.
THEOREM LastSaveWins == Spec => []FinalSaveKept
<1>1. GracefulInv => FinalSaveKept
  BY DEF GracefulInv, Graceful, FinalSaveKept
<1> QED BY <1>1, GracefulInvariant, PTL

\* With such a history, the proxy can always be started again.
THEOREM AlwaysStarts == Spec => []CanStart
<1>1. GracefulInv => CanStart
  BY DEF GracefulInv, Graceful, CanStart
<1> QED BY <1>1, GracefulInvariant, PTL
-----------------------------------------------------------------------------
\* What a start may load, now or after the saves under way, is no less than
\* what this process started from; without a file it started from zero.
BaseInv ==
    /\ ~file.exists => base.up = 0
    /\ Readable => base.up <= file.holds.up
    /\ \A w \in Saver : pc[w] \in {"create", "write"} => base.up <= buf[w].up

\* A start loads no less than the one before did; nothing else changes the base.
LEMMA BaseStep ==
    ASSUME TypeInv, BaseInv, [Next]_vars
    PROVE  BaseInv' /\ base'.up >= base.up
<1> USE DEF TypeInv, TypeOK, BaseInv
<1>0. base.up \in Nat /\ session.up \in Nat /\ Total.up = base.up + session.up
  BY DEF Total, Plus, Totals, Count
<1>1. CASE StartLoads
  <2>1. base'.up = file.holds.up /\ file' = file /\ file.exists
    BY <1>1 DEF StartLoads, Loaded, Readable
  <2>2. \A w \in Saver : pc'[w] = "idle"
    BY <1>1 DEF StartLoads
  <2>3. Readable /\ file.holds.up \in Nat
    BY <1>1 DEF StartLoads, Readable, Totals, Count
  <2> QED BY <1>0, <2>1, <2>2, <2>3 DEF Readable
<1>2. CASE StartCreates
  <2>1. /\ base.up = 0 /\ base'.up = 0 /\ file' = file /\ ~file.exists
        /\ buf'["main"].up = 0 /\ pc'["ticker"] = "idle"
    BY <1>2 DEF StartCreates, Zero, Saver
  <2> QED BY <2>1 DEF Readable, Saver
<1>3. CASE Refresh
  BY <1>0, <1>3 DEF Refresh, Readable
<1>4. ASSUME NEW w \in Saver, Begin(w) PROVE BaseInv' /\ base' = base
  <2>1. /\ base' = base /\ file' = file
        /\ \A v \in Saver \ {w} : pc'[v] = pc[v] /\ buf'[v] = buf[v]
        /\ pc'[w] = "readUp"
    BY <1>4 DEF Begin
  <2> QED BY <2>1 DEF Readable
<1>5. ASSUME NEW w \in Saver, ReadUp(w) PROVE BaseInv' /\ base' = base
  <2>1. /\ base' = base /\ file' = file
        /\ \A v \in Saver \ {w} : pc'[v] = pc[v] /\ buf'[v] = buf[v]
        /\ buf'[w].up = Total.up
    BY <1>5 DEF ReadUp, Totals
  <2> QED BY <1>0, <2>1 DEF Readable
<1>6. ASSUME NEW w \in Saver, Create(w) PROVE BaseInv' /\ base' = base
  BY <1>6 DEF Create, Truncated, Readable
<1>7. ASSUME NEW w \in Saver, Write(w) PROVE BaseInv' /\ base' = base
  <2>1. /\ base' = base /\ buf' = buf /\ base.up <= buf[w].up
        /\ \A v \in Saver : pc'[v] \in {"create", "write"} => pc[v] = pc'[v]
    BY <1>7 DEF Write, Finished
  <2>2. file'.exists /\ file'.holds \in {buf[w], Junk}
    BY <1>7, OverwriteType DEF Write, Overwrite
  <2> QED BY <2>1, <2>2 DEF Readable
<1>8. ASSUME NEW w \in Saver, Fault(w) PROVE BaseInv' /\ base' = base
  BY <1>8 DEF Fault, WriteFails, CreateFails, Finished, Readable
<1>9. CASE Booted \/ StartPanics \/ Sigterm \/ Exit \/ Crash \/ UNCHANGED vars
  BY <1>0, <1>9 DEF Booted, StartPanics, Sigterm, Exit, Crash, vars, Readable, Saver
<1> QED BY <1>0, <1>1, <1>2, <1>3, <1>4, <1>5, <1>6, <1>7, <1>8, <1>9
        DEF Next, Save

\* No restart takes the all-time upload total below where the process before
\* it started from, whatever was killed, overlapped or failed.
THEOREM RestartsKeepBase == Spec => BaseNeverBack
<1>1. Init => BaseInv
  BY DEF Init, BaseInv, NoFile, Zero, Readable
<1>2. TypeInv /\ BaseInv /\ [Next]_vars => BaseInv'
  BY BaseStep
<1>3. TypeInv /\ BaseInv /\ [Next]_vars => [base'.up >= base.up]_vars
  BY BaseStep
<1> QED BY <1>1, <1>2, <1>3, TypeAlways, PTL DEF Spec, BaseNeverBack
=============================================================================
