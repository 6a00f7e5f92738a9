-------------------------- MODULE HistoricalStats --------------------------
(***************************************************************************)
(* The all-time totals of the proxy: kept in memory as a base loaded at    *)
(* start plus what this session counted, and written to properties.json    *)
(* every ten minutes by a ticker goroutine and once more by the clean-up   *)
(* function on the main goroutine (internal/data/torrent.go,               *)
(* internal/domain/torrent.go, internal/trigger/task.go).                  *)
(*                                                                         *)
(* A save reads the totals without a lock, truncates the file, and then    *)
(* writes it.  Nothing waits for the ticker goroutine at shutdown.         *)
(***************************************************************************)
EXTENDS Naturals

CONSTANTS
    Increment,      \* bytes one refresh may count, in one direction
    MaxCount,       \* bound: all-time bytes counted per direction
    Digits          \* length of the decimal form of a total

Count == 0..MaxCount

ASSUME StatsAssumption ==
    /\ MaxCount \in Nat
    /\ Increment \subseteq Nat
    /\ Digits \in [Count -> Nat \ {0}]

Totals == [down : Count, up : Count]
Zero == [down |-> 0, up |-> 0]
Plus(s, t) == [down |-> s.down + t.down, up |-> s.up + t.up]

\* The goroutines that save: main (at first start and at shutdown), ticker.
Saver == {"main", "ticker"}

VARIABLES
    phase,      \* life of the process
    base,       \* uc.statistics.TotalDownloaded, TotalUploaded
    session,    \* uc.statistics.Total...Session
    file,       \* properties.json
    pc,         \* where each saver is
    buf,        \* the totals it is about to write
    counted,    \* history: every byte counted since the proxy was installed
    clean       \* history: never killed, no disk fault, and nothing else at
                \* work during a clean-up

vars == <<phase, base, session, file, pc, buf, counted, clean>>

\* Bytes that are no JSON document: an empty file, or the tail of a longer
\* document behind a shorter one.  json.Unmarshal returns an error.
Junk == [down |-> MaxCount + 1, up |-> MaxCount + 1]
NoFile == [exists |-> FALSE, size |-> 0, holds |-> Junk]
Truncated == [exists |-> TRUE, size |-> 0, holds |-> Junk]
Size(t) == Digits[t.down] + Digits[t.up]

\* Writing t at offset 0 of what the file holds by now.
Overwrite(f, t) ==
    IF f.size <= Size(t)
    THEN [exists |-> TRUE, size |-> Size(t), holds |-> t]
    ELSE [exists |-> TRUE, size |-> f.size, holds |-> Junk]

Readable == file.exists /\ file.holds # Junk
Total == Plus(base, session)

Init ==
    /\ phase = "down"
    /\ base = Zero /\ session = Zero
    /\ file = NoFile
    /\ pc = [w \in Saver |-> "idle"]
    /\ buf = [w \in Saver |-> Zero]
    /\ counted = Zero
    /\ clean = TRUE

-----------------------------------------------------------------------------
(* Start: NewTorrentUsecase loads the totals.                              *)

\* Faulty variants: the file is doubled, or read the wrong way round.
LoadedTwice(t) == Plus(t, t)
LoadedCrosswise(t) == [down |-> t.up, up |-> t.down]

\* GetHistoricalStatistics fills both totals from total_uploaded.
Loaded(t) == [down |-> t.up, up |-> t.up]

StartLoads ==
    /\ phase = "down" /\ Readable
    /\ base' = Loaded(file.holds)
    /\ session' = Zero
    /\ phase' = "running"
    /\ pc' = [w \in Saver |-> "idle"]
    /\ UNCHANGED <<file, buf, counted, clean>>

\* No file: zeroes are saved before the proxy goes on.
StartCreates ==
    /\ phase = "down" /\ ~file.exists
    /\ base' = Zero /\ session' = Zero
    /\ phase' = "boot"
    /\ pc' = [pc EXCEPT !["main"] = "create", !["ticker"] = "idle"]
    /\ buf' = [buf EXCEPT !["main"] = Zero]
    /\ UNCHANGED <<file, counted, clean>>

\* An unreadable file makes NewTorrentUsecase panic: no start, ever.
StartPanics ==
    /\ phase = "down" /\ file.exists /\ file.holds = Junk
    /\ UNCHANGED vars

Booted ==
    /\ phase = "boot" /\ pc["main"] = "done"
    /\ phase' = "running"
    /\ pc' = [pc EXCEPT !["main"] = "idle"]
    /\ UNCHANGED <<base, session, file, buf, counted, clean>>

-----------------------------------------------------------------------------
(* Counting and saving.                                                    *)

\* A shutdown does not stop the tickers before the clean-up cancels their
\* context, and nobody waits for a tick that has begun, or that a select takes
\* when both are ready.  Here they may tick until main returns.
Working == phase \in {"running", "stopping"}

\* UpClientData adds what the peers transferred (bounded by MaxCount).  It
\* stores the two totals separately: two steps here, each with one increment
\* of zero, which Increment contains.
Refresh ==
    /\ Working
    /\ \E d, u \in Increment :
           LET more == [down |-> d, up |-> u] IN
           /\ Plus(counted, more) \in Totals /\ Plus(Total, more) \in Totals
           /\ session' = Plus(session, more)
           /\ counted' = Plus(counted, more)
    /\ clean' = (clean /\ phase = "running")
    /\ UNCHANGED <<phase, base, file, pc, buf>>

\* Faulty variant: no periodic save.
BeginAtExitOnly(w) ==
    /\ pc[w] = "idle"
    /\ w = "main" /\ phase = "stopping"
    /\ buf' = [buf EXCEPT ![w].down = Total.down]
    /\ pc' = [pc EXCEPT ![w] = "readUp"]
    /\ UNCHANGED <<phase, base, session, file, counted, clean>>

\* SaveStatistics reads the download total, then the upload total.
Begin(w) ==
    /\ pc[w] = "idle"
    /\ \/ w = "ticker" /\ Working
       \/ w = "main" /\ phase = "stopping"
    /\ buf' = [buf EXCEPT ![w].down = Total.down]
    /\ pc' = [pc EXCEPT ![w] = "readUp"]
    /\ clean' = (clean /\ (w = "ticker" => phase = "running"))
    /\ UNCHANGED <<phase, base, session, file, counted>>

\* Faulty variant: only this session's uploads are saved.
ReadUpSession(w) ==
    /\ pc[w] = "readUp"
    /\ buf' = [buf EXCEPT ![w].up = session.up]
    /\ pc' = [pc EXCEPT ![w] = "create"]
    /\ UNCHANGED <<phase, base, session, file, counted, clean>>

ReadUp(w) ==
    /\ pc[w] = "readUp"
    /\ buf' = [buf EXCEPT ![w].up = Total.up]
    /\ pc' = [pc EXCEPT ![w] = "create"]
    /\ UNCHANGED <<phase, base, session, file, counted, clean>>

\* Faulty variant: the file is opened without being truncated.
CreateKeeps(w) ==
    /\ pc[w] = "create"
    /\ file' = [file EXCEPT !.exists = TRUE]
    /\ pc' = [pc EXCEPT ![w] = "write"]
    /\ UNCHANGED <<phase, base, session, buf, counted, clean>>

\* os.Create truncates the file.
Create(w) ==
    /\ pc[w] = "create"
    /\ file' = Truncated
    /\ pc' = [pc EXCEPT ![w] = "write"]
    /\ UNCHANGED <<phase, base, session, buf, counted, clean>>

Finished(w) == IF w = "main" THEN "done" ELSE "idle"

Write(w) ==
    /\ pc[w] = "write"
    /\ file' = Overwrite(file, buf[w])
    /\ pc' = [pc EXCEPT ![w] = Finished(w)]
    /\ UNCHANGED <<phase, base, session, buf, counted, clean>>

\* The deferred Close overwrites the error of Write with its own nil.
WriteFails(w) ==
    /\ pc[w] = "write"
    /\ pc' = [pc EXCEPT ![w] = Finished(w)]
    /\ clean' = FALSE
    /\ UNCHANGED <<phase, base, session, file, buf, counted>>

\* The error of os.Create is logged; at first start it is a panic.
CreateFails(w) ==
    /\ pc[w] = "create"
    /\ clean' = FALSE
    /\ phase' = IF phase = "boot" THEN "down" ELSE phase
    /\ pc' = [pc EXCEPT ![w] = IF phase = "boot" THEN "idle" ELSE Finished(w)]
    /\ UNCHANGED <<base, session, file, buf, counted>>

-----------------------------------------------------------------------------
(* Shutdown and crash.                                                     *)

Sigterm ==
    /\ phase = "running"
    /\ phase' = "stopping"
    /\ clean' = (clean /\ pc["ticker"] = "idle")
    /\ UNCHANGED <<base, session, file, pc, buf, counted>>

\* The clean-up has saved: main returns and the other goroutines die.
Exit ==
    /\ phase = "stopping" /\ pc["main"] = "done"
    /\ phase' = "down"
    /\ pc' = [pc EXCEPT !["ticker"] = "idle"]
    /\ UNCHANGED <<base, session, file, buf, counted, clean>>

Crash ==
    /\ phase # "down"
    /\ clean' = FALSE
    /\ phase' = "down"
    /\ pc' = [w \in Saver |-> "idle"]
    /\ UNCHANGED <<base, session, file, buf, counted>>

-----------------------------------------------------------------------------
Save(w) == Begin(w) \/ ReadUp(w) \/ Create(w) \/ Write(w)
Fault(w) == WriteFails(w) \/ CreateFails(w)

Next ==
    \/ StartLoads \/ StartCreates \/ StartPanics \/ Booted
    \/ Refresh
    \/ \E w \in Saver : Save(w) \/ Fault(w)
    \/ Sigterm \/ Exit \/ Crash

Spec == Init /\ [][Next]_vars

\* The ticker keeps ticking and its goroutine keeps running; a disk that
\* fails does not fail every save.
FairSpec ==
    /\ Spec
    /\ WF_vars(Save("ticker") \/ Fault("ticker"))
    /\ SF_vars(Create("ticker")) /\ SF_vars(Write("ticker"))

-----------------------------------------------------------------------------
(* Properties.                                                             *)

\* Every variable has its type.
TypeOK ==
    /\ phase \in {"down", "boot", "running", "stopping"}
    /\ base \in Totals /\ session \in Totals /\ counted \in Totals
    /\ file \in [exists : BOOLEAN, size : Nat, holds : Totals \cup {Junk}]
    /\ pc \in [Saver -> {"idle", "readUp", "create", "write", "done"}]
    /\ clean \in BOOLEAN
    /\ buf \in [Saver -> Totals]

\* Memory, file and every save under way claim no uploaded byte that was not
\* counted, whatever overlaps, crashes or fails.
UploadNotInvented ==
    /\ Total.up <= counted.up
    /\ Readable => file.holds.up <= counted.up
    /\ \A w \in Saver : buf[w].up <= counted.up

\* As long as the process was never killed, the disk never failed and nothing
\* else ran during a clean-up, the all-time upload total survives restarts to
\* the byte.
UploadAllTime ==
    clean /\ phase \in {"running", "stopping"} => Total.up = counted.up

\* The same of the all-time download total.
DownloadAllTime ==
    clean /\ phase \in {"running", "stopping"} => Total.down = counted.down

\* With such a history, the file holds what the final save wrote.
FinalSaveKept ==
    clean /\ phase = "down" /\ pc["main"] = "done" => file.holds = buf["main"]

\* With such a history, a process that is down can be started: its file is
\* absent or readable.
CanStart == clean /\ phase = "down" => ~file.exists \/ Readable

\* Restarting never takes the all-time upload total below where the previous
\* process started from, even after a crash or a stale save.
BaseNeverBack ==
    [][base'.up >= base.up]_vars

\* While the process runs, every byte it counted reaches the disk.
SavedInTheEnd ==
    \A n \in Count :
        (phase = "running" /\ Total.up >= n)
            ~> (phase # "running" \/ (Readable /\ file.holds.up >= n))
=============================================================================
