# transmission-proxy: TLA+ models, model checking and proofs

transmission-proxy puts a qBittorrent WebUI API in front of a Transmission
daemon (TR) so that PeerBanHelper (PBH) can watch peers and ban them. TR has no
ban list, so the proxy drops the packets of banned addresses with nftables; TR
keeps no totals per peer, so the proxy integrates transfer rates itself.

This directory models the proxy's own logic: what it remembers, in which order
its handlers and background tasks change it, and what happens when they
interleave, fail, or are killed half way. Paths below are relative to `src/`,
and to `src/internal/` where they start with `domain/`, `data/`, `service/` or
`trigger/`.

Contents: [the system](#1-the-system), [modules](#2-modules),
[runs](#3-runs), [fairness](#4-fairness), [assumptions](#5-assumptions),
[proofs](#6-proofs), [where code and docs disagree](#7-where-code-and-docs-disagree),
[not modelled](#8-not-modelled), [plan](#9-plan).

## 1. The system

Everything runs in one process. HTTP handlers run concurrently with each other
and with three background tasks, and **no shared field is protected by a lock**.
Two things outlive the process: the kernel's nftables sets and
`properties.json`.

| component | code | state | operations |
|---|---|---|---|
| ban path | `domain/app.go`, `data/banip.go`, `data/infra.go`, `service/transfer.go` | `banlistIPV4`, `banlistIPV6` (plain maps), the message buffer of the one `nftables.Conn`, the kernel sets | `BanIP`, `UnbanIP`, `UpBanIPList`, status look-ups, start, clean-up |
| all-time totals | `data/torrent.go`, `domain/torrent.go`, `trigger/task.go` | base and session totals, `properties.json` | load or create at start, save every 10 minutes and at shutdown |
| client data | `domain/torrent.go` `UpClientData`, `service/sync.go` | `uc.torrents`, `uc.statistics`, `PeerCache` | a ticker refreshes, `GetMainData` reads |
| peer view | `domain/torrent.go` `GetPeers`, `service/sync.go` | the cached `Peer`s, shared with the refresh; the ban record | `GetTorrentPeers` |
| trackers | `domain/torrent.go`, `data/torrent.go`, `trigger/task.go` | `uc.trackers`, TR's tracker lists | rebuild the list, send it to every torrent, and to those `Add` has added |
| uploads | `trigger/http.go`, `service/torrent.go`, `domain/torrent.go`, `data/torrent.go` | `TmpTorrentFileData` | `Add` with links or files, `Download` |
| torrent queries | `domain/torrent.go`, `service/torrent.go` | none | `GetInfo`, `GetProperties`, filters |
| preferences | `domain/app.go`, `data/app.go`, `service/app.go` | none; the ban path's | `GetPreferences`, `SetPreferences` |
| routes, codec, configuration, sign-in stubs, build | `trigger/http.go`, `encoding/`, `conf/`, `service/auth.go`, `cmd/tool`, `Dockerfile` | none | - |

How they interact. PBH polls `GetMainData` and `GetTorrentPeers`, decides, and
posts addresses to `BanPeers`, again and again until it sees them gone. A ban
goes through `AppUsecase` to `banIPDao`, which queues nftables messages on a
connection that all handlers share, flushes, and records. `GetPeers` reads that
record to hide fresh bans, because TR goes on reporting a dropped peer for a
while and PBH would otherwise send its whole list again. `UpClientData` counts
rates into the peer cache, then publishes session totals and the torrent table;
`SaveStatistics` adds the session to the base and writes it. The tracker task
rebuilds `uc.trackers`, which `Add` reads for new torrents. TR takes torrents by
link only: `Add` puts an uploaded file into a cache and sends TR a link back to
the proxy's own `Download`, which serves it while `Add` waits for TR. `GetInfo`
reads the table twice, `GetProperties` once.

What is hard, and what must hold all the same:

| component | hard | correct means |
|---|---|---|
| ban path | one message buffer for all handlers; all-or-nothing batches; a crash that leaves the kernel full and the record empty; two halves (IPv4, IPv6) of one request that fail separately; unlocked maps | what is recorded or acknowledged is dropped (it is, but for one defect, section 7); only an unban or a shutdown lifts a ban; a client that retries succeeds |
| all-time totals | truncate and write are two steps; ticker and final save may overlap; the two totals are read apart; errors are swallowed | no byte is invented, none is lost over a graceful restart, the file can be read again |
| client data | counters are updated one peer at a time, totals and table published at the end, in separate stores; a refresh may be abandoned half way; the cache evicts | peers' counters and session totals agree; tables are whole; the table follows TR |
| peer view | four unlocked reads of things that change; `Peer`s are updated in place while answers point to them | fresh bans are hidden, everyone else is shown (unless the key is taken), counters do not go back |
| trackers | the list is rebuilt in place by tasks that may overlap, while `Add` reads it; RPCs fail | the list is bounded and holds the configured trackers; every torrent gets them; `Add` tells the truth |
| uploads | the proxy waits for TR, which waits for the proxy; the cache admits entries late and drops them; the request ends before TR has; repeated and abandoned calls | an `Add` without error got everything in but what it passes over; labels are those of one request; nobody waits for ever; a file sent often enough gets in |
| torrent queries | a list is filtered by looking it up in a table that may have been replaced; clients come back later with its hashes | a list is of one table; a torrent that stays is never overlooked |

## 2. Modules

| module | models | checked through | proofs |
|---|---|---|---|
| `BanContract` | what the ban service promises, without bookkeeping | refined by `BanList` | `BanListProofs` |
| `BanList` | the ban path, crash and restart included | `MCBanList` | `BanListProofs` |
| `HistoricalStats` | all-time totals and `properties.json` | `MCHistoricalStats` | `HistoricalStatsProofs` |
| `ClientData` | refresh, cache, statistics, `GetMainData` | `MCClientData`, `MCTorrentQuery` | `ClientDataProofs` |
| `PeerRefresh` | interface: what a refresh does to the peers of one torrent | extended by `PeerView`, implemented by `ClientData` | `ClientDataProofs` |
| `BanRequests` | interface: what ban requests do to kernel and record in the life of a process | extended by `PeerView`, implemented by `BanList` | `BanListProofs` |
| `TorrentQuery` | `GetInfo` and `GetProperties`; extends `ClientData` with the rows of the table and these handlers | `MCTorrentQuery` | `TorrentQueryProofs` |
| `PeerView` | `GetTorrentPeers` against refreshes and bans | `MCPeerView` | `PeerViewProofs` |
| `Trackers` | tracker tasks, and what `Add` has to do with them | `MCTrackers` | `TrackersProofs` |
| `Uploads` | `Add` from the form to TR's answer, temporary files, `Download` | `MCUploads` | `UploadsProofs` |

How they fit together. `TorrentQuery` is composed with `ClientData`: its
next-state relation takes every step of the refresh and adds the rows of the
table it publishes. `PeerView` reads what two other components write, and
meets each through an interface module: its own steps extend the steps of
`PeerRefresh` and `BanRequests`, and `ClientData` (for every torrent) and
`BanList` (between a start and the end of the process) are shown to implement
these, by runs (`FeedsPeerView`, `FeedsRecord`) and by proof (`PeersFed`,
`RecordFed`). So nothing is assumed about refreshes and ban requests in the
theorems of `PeerView` that the components' own models do not provide. In the
same way `BanContract` is what clients may rely on. Elsewhere the boundary is
argued, not proved: `HistoricalStats` has the increment a refresh arrives at
(`ClientData` has how); `Trackers` has an `Add` whose torrents are sent to TR
one by one (`Uploads` has links, files, labels and timeouts), and `Uploads`
leaves out the tracker lists.

Definitions marked *Faulty variant* are not used by the specifications. Each is
a plausible bug (a lost reset, a swapped order) put in the place of the
definition that follows it to see that a property notices.

**BanList.** Program counters: `status4` and `status6` are the two look-ups of
`BanIP`/`UnbanIP`, `forget` the first step of `ClearBanList`; then, for each
repository call, `queue` (messages appended), `flush`, `record`. A request for preferences (`banned_IPs`)
begins at `port`, the listen port TR may refuse, and goes on as a ban. `staged` is
what the sets would hold once the buffer is applied. `batch` is `"refused"` if
it holds a message the kernel is bound to refuse: deleting an absent element,
or deleting a set the rules use. A flush that fails empties the buffer of
everyone's messages; one that finds an empty buffer returns nil. So a request
whose messages another one's refused flush took along believes them sent: its
addresses are then in `lost`, a history variable, until the kernel gets them
after all. `MayRefuse` says whether the kernel may refuse a well-formed batch,
any of them; all three runs allow it. `Ops` selects the operations: handlers
call only `BanIP` today, `UnbanIP` and `UpBanIPList` are complete but not wired.

**HistoricalStats.** `phase` is the life of the process, `pc` where the main
goroutine (first save, final save) and the ticker's are in
`SaveStatistics`: read down, read up, `os.Create`, `Write`. A file has a size,
because two overlapping saves both write at offset 0 and a shorter document
does not erase the tail of a longer one. `clean` is a history variable: the
process was never killed, the disk never failed, and no tick was at work during
a clean-up. Properties of undisturbed restarts have it as their condition, and
one run checks them together with those that hold whatever happens.

**ClientData.** `at` is where the refresh is; peers are counted into `cache`
one at a time, torrent by torrent; `left` are the stores of the publication
still to be done, which other goroutines see in program order if `InOrder`.
`table.totals`, `forgotten` and `abandoned` are history variables.

**TorrentQuery.** `ask` is where a request is: `filter` (it has copied the list
of the table's torrents), `shown` (the client has the list and may ask for
properties). `yet` are those the filter by hash has still to look up in
`uc.torrents`, as it is by then. `from` and `stays` are history variables: the
table that was copied, and the torrents TR has held ever since.

**PeerRefresh, BanRequests.** A refresh of one torrent may be abandoned because
a peer of another torrent is refused, also after all of its own were counted. A
ban request sends the addresses it does not find on record (`wanted`, `queued`;
IPv6 addresses always, because `BanIPV6` records in `banlistIPV4` and looks up
in `banlistIPV6`), finds some of them in the kernel by the flush of another
request, records what it `flushed` part by part, and may fail in between. What
it takes for flushed need not be in the kernel: another request's refused flush
may have discarded it. The kernel need not be empty when a process starts.

**PeerView.** `ask` is where the handler is: `lookup` (it has the torrent and
the time), `pick` (it looks each peer up and filters), `shape` (it reads the
`Peer`s it points to). A `Peer` lives in `cache` until evicted; handlers that
still hold it find it in `orphan`. `banTime` are the values of the record, whose
keys are `recorded`. Peers are put into the answer under `KeyOf`, the IP and the
port in one string with nothing in between (`genAddr`), so that a peer may take
the place of another (`PutPeer`); `KeyAssumption` says what such peers have in
common: not the IP. A ban handler reads the clock into `taken` when its flush
has returned and stores it later, over a later one perhaps. `floor` and `known`
are history variables: what the counters were when the request began, and the
ban times on record or about to be stored.

**Trackers.** `at` is where each task is: `fetch`, `load`/`store` (one append
each to `uc.trackers`, whose read and write are two steps, so that overlapping
tasks can lose each other's), `torrents`, `set`. `add` is where each handler of
`Add` is. Torrents appear by other ways, too (`Appears`): added to TR by someone
else, or by a call that `Add` has given up. `alone` is a history variable: the last rebuild was not disturbed.

**Uploads.** A form has links, links that `url.Parse` refuses (`broken`) and
files; `Add` goes by the links that are left, and by the files if there are none
(`GoesBy`), and passes over the rest without a word (`PassesOver`). `at` is where
each handler is: `upload` (files still to be put into the cache, `left`), `add`
(links still to be sent, `links`), `wait` (a `TorrentAdd` is at TR, whose answer
will be in `reply`). A file is `stored` when `Set` has returned and `admitted`
when the cache finds it. `late` are calls the proxy gave up and TR still works
on. TR's own steps (`Serves`, `ServesLate`, `AddedByHand`, `Removed`) include
`Download`: the link is found or it is not. `given` (all torrents of the form),
`passed`, `seen` and `byHand` are history variables. `DropUnused` forgets files
nobody can ask for any more, as their expiry will: it keeps names few.

## 3. Runs

| run | states | question | bounds |
|---|---|---|---|
| `ban_concurrent` | 29,666 | Is everything recorded or acknowledged dropped, unless it was lost with the other request's refused flush? Does a retry converge? Does it implement `BanContract`, and give readers of the record what `PeerView` relies on? | 2 handlers; any batch may be refused; 2 IPv4 addresses, one in two spellings, 1 IPv6, 1 text that is no address; 2 requests, which share an address, each as a ban or with preferences |
| `ban_all_ops` | 149,613 | With unbans, list updates and any refusal, does only an unban lift a ban, and is the buffer drained? | 2 handlers (symmetric), 2 requests, 3 operations |
| `ban_lost_batch` | violated | *BanIPV4 bans the IPv4 addresses* (`AckedIsDropped`) when a flush may be refused | as `ban_concurrent` |
| `stats` | 52,280 | With crashes, overlap and disk faults: nothing invented, no step back, saved in the end? Without them: do uploads survive to the byte, can it always be started? | totals to 2, the last one digit longer |
| `stats_swap` | violated | *all-time download total* after a restart | as `stats` |
| `client_balance` | 1,405,188 | Do counters and totals agree to the byte? Is an answer's total as new as its torrents? | 1 torrent, 2 peers (symmetric), both directions, 2 bytes per direction, 1 poller; eviction, refusal, RPC errors |
| `client_follows` | 123,920 | Does the table follow TR, and is it always whole? Are lists of one table, and complete? Is each torrent refreshed the way `PeerView` assumes? | 2 torrents that come and go, 1 peer each; refused peers; 1 `GetInfo`, 2 looks of a torrent, 3 filters |
| `client_empty` | violated | *update the client data* when the last torrent goes | 2 torrents, nothing refused |
| `peers` | 395,677 | Are fresh bans hidden, others shown unless their key is taken, counters current? Do banned peers disappear for good? | 1 peer, idle or uploaded to, and 1 idle one with the same key that comes and goes before the bans (`Guest`); 1 handler, 2 ban requests of which one may overtake the other (`Overlap`), clock to 1, `Skip` 1, counter to 1 |
| `trackers` | 80,340 | Is an undisturbed list sound, is `Add` truthful, do trackers arrive? | 2 tasks, 1 handler, 1 torrent that comes and goes, 1 configured and 2 offered trackers, `MaxSize` 2 |
| `uploads` | 83,442 | Is an answer truthful, are labels those of one request, is every request answered, do repeated uploads arrive? | 1 handler and 1 abandoned call, 2 torrents, 3 names, 2 tags; a file, two files, a file before an empty one, a link with a file beside it, a broken link with a good one, with a file, alone |
| `trackers_offline` | violated | *add the following trackers to new torrents* without a subscription | 1 task |

Why the bounds are enough:

- Every race in the ban path is between two requests that share the buffer or a
  map; a third handler adds nothing it could not do as one of the two, at a
  later time. What does not depend on such an argument is proved for any number
  (section 6).
- The totals need three values: zero, one that a save holds and one that came
  after it. Two lengths of document are what `Overwrite` tells apart.
- `Balance` needs two peers (one counted, one not, when a refresh is
  abandoned), both directions (their stores are apart), and two refreshes,
  which two bytes allow. `RemovedGoes` needs two torrents, one that keeps TR
  from being empty. `OneTable` and `StayersShown` need a table that differs from
  the one copied in a row, and one that lacks a torrent.
- Two requests to `Add` meet in TR and in the cache only. There the second is an
  abandoned call of the first, a torrent added by hand, or the same handler's
  next request, which may carry other tags. Three names are enough for two files
  of a request and one of an abandoned call.
- Peers of one torrent influence each other in two ways: the end of a refresh
  comes when all are counted, which `Publish` can delay freely, and one may take
  the place of another in an answer. For that two peers with one key are enough;
  the second never needs traffic or a ban of its own, for what it does to the
  first is to be written before or after it. With `Skip` 1 and the clock to 1, a request can begin before a
  ban, within `skipIPsDuration` of it, and when that is over. Two ban requests
  of the address are enough for an older ban time to replace a newer one.
- `MaxSize` 2 with one configured tracker and lists of none or three lines
  (one of them no URL) makes the bound bite and not bite.

Named bounds: `MaxCount` (`HistoricalStats`, `PeerView`), `MaxBytes`
(`ClientData`), `MaxNow` (`PeerView`), `MaxLate` (`Uploads`: abandoned calls at a
time), `Overlap` (`MCPeerView`: the second ban request comes and goes while the
first, which has reached the kernel, is about to record, with the peer cached and
its counters at their bound), `Guest` (`MCPeerView`: the second peer has no
traffic, is never banned, and comes and goes before the first ban request),
`PeersOrQueries` (`MCTorrentQuery`: no list is asked for while there are peers;
handlers do not read peers, and a list sees the same tables without).
Counters stop there: a refresh that would
exceed `MaxBytes` or `MaxCount` is not taken, `PeerView` counts no further than
`MaxCount`. `int64` overflow is not modelled: at 10 GB/s it takes 29 years.

Every run checks deadlock, too: there is no state the proxy cannot leave.
(An unreadable `properties.json` is a state with one step, `StartPanics`,
which changes nothing.)

## 4. Fairness

| specification | fairness | why the code justifies it |
|---|---|---|
| `BanList!FairSpec` | weak on each handler's step | a goroutine that can run does; no step waits for another's |
| | strong on `FlushOkFor(h, ip)` | the environment's part: a kernel that refuses well-formed batches now and then does not refuse one address for ever |
| `HistoricalStats!FairSpec` | weak on the ticker's save | the ticker fires every 10 minutes for as long as the process lives |
| | strong on its `Create` and `Write` | a disk that fails now and then |
| `ClientData!FairSpec` | weak on `Refresh` | `RunStatisticsTask` loops over its ticker; an error is logged and the loop goes on |
| | strong on `CountPeer` | ristretto's buffer drains: it does not refuse one peer for ever |
| `PeerView!FairSpec` (`MCSpec` adds the bound) | weak on `Refresh`, strong on `CountStep`; weak on `Handle`; weak on `FallsSilent` | as above; TR times out a peer whose packets are dropped |
| | strong on `PublishStep` | the interface lets any refresh be abandoned, by a peer of another torrent; a cache that does not refuse peers for ever lets some end |
| `TorrentQuery!QueryFair` | as `ClientData` | handlers need none: nothing is promised of a client that goes away |
| `Uploads!FairSpec` | weak on each handler's step and on TR's answer (`Progress`) | goroutines run; TR answers, with an error or without. The timeout is not needed for `AddAnswered` |
| | strong, for a file sent on its own, on its upload, its admission, the call for it and TR's success (`Luck`) | the environment's part: ristretto admits some attempts before TR asks, TR takes some, and not every request runs into the timeout |
| `Trackers!FairSpec` | weak on each task's and handler's step, and on its ticks | `go task()` at each tick. The weak fairness of a fetch is an assumption: `http.Get` has no timeout (`data/torrent.go:53`) |
| `OfflineSpec` | strong on `Torrents`, `SetAll` | TR answers now and then |
| `OnlineSpec` | strong on `Fetched` | so does the subscription |

No fairness is assumed of clients, of the clock, of crashes, evictions, or of
torrents coming and going; none of the timeout either. `RetriesConverge` has its condition in the formula:
the process stays up and some client goes on asking; `UploadArrives`, too. `TrackersArrive` has, too:
from some time on, tasks do not overlap (they are three hours apart).

## 5. Assumptions

- **Memory.** Reads and writes of a word or a pointer are atomic. The order in
  which another goroutine sees stores is a constant (`InOrder`) where a property
  depends on it: x86 keeps it, the arm64 images the project ships need not, so
  `StatsNotOlder` is conditional and `WholeRefresh` is not (`client_follows` has
  them in order, `TableIsWhole` is proved for any). Publishing a Go map
  without a barrier, and torn slice headers, are beyond the models; the runtime's
  *concurrent map writes* is `BanList!MapRace`.
- **nftables.** A batch is applied whole or not at all; `Flush` empties the
  buffer whatever the outcome and returns nil for an empty one
  (`google/nftables`). Adding to an existing set keeps its elements.
- **ristretto.** An entry may be dropped at any time, a `Set` of a new key may be
  refused, an update of a present key is not. `Set` of a new key returns before
  the entry is found.
- **Temporary files.** A request is over, by its timeout, long before its files
  expire: ten minutes against half a minute in the template. File names are
  fresh (`uuid.New`).
- **TR** reports addresses as `net.IP.String` spells them, so that a ban of an
  address and the peer of that address meet. Two peers with the same IP and the
  same key have the same port, and are one (`KeyAssumption`).
- **Kills.** A process may be killed between any two steps; a single `Write` of
  the small document is whole or not at all.
- **Requests.** The repository's handlers are complete; that one HTTP request
  may be answered and its client gone makes no difference to them.

## 6. Proofs

TLC checks the instances above; these theorems hold for every value of the
constants that satisfies the module's named assumption.

| theorem | states | along which argument |
|---|---|---|
| `BanListProofs!TypeCorrect` | `TypeOK` | inductive by itself |
| `UnbanOnly`, `LostInvariant`, `BufferDrained` | `OnlyUnbanLifts`, `LostOnlyByUnban`, `NothingLeftQueued`; all operations, any refusals | `LostOnlyByUnban`: what is staged lacks an address of the kernel only while an unban that asked for it is in flight |
| `BanInvariant`, `RecordSound`, `AnswersSound` | `RecordedOrLost`, `AckedOrLost`, for `Wired`, any refusals | `BanInv`, which lives with the proofs: before anything says an address is banned, the address is in a call still to be made, then staged, then in the kernel or lost (`Made`). Without it, the record is not inductive: another handler's flush moves addresses from the buffer to the kernel, or discards them |
| `LossTakesBoth` | `AckedIsDropped`, for `Wired`, if the kernel refuses no well-formed batch or there is one handler | nothing is ever `lost` then |
| `Implements` | `KeepsContract`, for `Wired`, any refusals | each step maps to `Drop`, `Lose`, `Acknowledge`, `Withdraw`, `Crash` or a stutter |
| `RecordFed` | `FeedsRecord`, for `Wired`, any refusals: each process implements `BanRequests` | `RequestInv`: the calls a request has yet to make split its addresses off the record among themselves, and what is staged and not in the kernel is about to be flushed by some request |
| `HistoricalStatsProofs!TypeCorrect` | `TypeOK` | inductive by itself |
| `UploadsCounted` | `UploadNotInvented` under every fault | with the sizes of the file and of the buffers |
| `RestartsKeepBase` | `BaseNeverBack`, under every fault | `BaseInv`: whatever a save under way may still write, or a start find in the file, is no less than what this process started from |
| `GracefulInvariant`, `UploadsSurvive`, `LastSaveWins`, `AlwaysStarts` | `UploadAllTime`, `FinalSaveKept`, `CanStart` | `GracefulInv`, which lives with the proofs: while the history is clean, each phase fixes where the total is, in memory, in `buf["main"]` or in the file |
| `ClientDataProofs!TypeCorrect` | `TypeOK` | inductive by itself |
| `TableIsWhole` | `WholeRefresh` | the table is stored when no peer is left to count |
| `StatsKeepUp` | `StatsNotOlder` | a table's history totals are never above the statistics when stores are in order, and a handler reads the table first |
| `CountersBalance` | `Balance` | `BalanceInv`: with it, the cache is finite and no store is outstanding outside a publication. `Balance` sums over the cache: that the fold is the sum, whatever order it is taken in, is shown from its defining equation by the smallest set for which it would fail |
| `PeersFed` | `FeedsPeerView`: the refresh of each torrent implements `PeerRefresh` | each step of a refresh is one of the torrent's own, an abandonment, or a stutter |
| `PeerViewProofs!TypeCorrect` | `TypeOK` | with what each handler still works through |
| `FreshBansHidden` | `AckedHidden` | `HideInv` with `KnownInv`: a ban time may go back, but never before all those that were on record, or about to be, when a request that knew the address began |
| `CountsNotOlder` | `CountsCurrent` | `CountInv`: a refresh never sets a counter back, a `Peer` a handler points to is in the cache or keeps its counter as an orphan |
| `OthersShown` | `UnbannedShown`, for any peers and keys | `ShownInv` on top of `CountInv`: a peer cached all along is in the handler's list, then among those it picked, then in the answer or behind one with its key, unless its address is on record |
| `TorrentQueryProofs!TypeCorrect` | `QueryTypeOK` | with the types of `ClientData` |
| `ListsOfOneTable`, `StayersAreShown` | `OneTable`, `StayersShown` | `QueryInv`: what a request works on are rows of the table it copied, and a torrent TR holds all along is in every table published since, because a refresh publishes what TR answered later |
| `UploadsProofs!TypeCorrect` | `TypeOK` | with a handler that waits having a link |
| `AnsweredMeansIn` | `OkMeansIn` | `GoodAll`: of each request, every torrent is in TR, behind a link, a file yet to be stored, or passed over, and a link to a file leads to that file |
| `LabelsAreOfOneRequest` | `LabelsKept` | `TagsTruthful`: every call, waiting or abandoned, carries the tags of one request |
| `TrackersProofs!TypeCorrect` | `TypeOK` | inductive by itself |
| `AnswersTruthful` | `AddTruthful` | what a handler has added got in, and it sends only when nothing is left to add |
| `ListIsSound` | `ListSound` | `ListInv`: while nothing disturbs a rebuild, what is in the list and what is still to be appended are sound together. That a fetched list is (`CollectedSound`) follows from the last line read: before it the bound was not reached, and a line adds at most one tracker |

`Wired` means: only `BanIP`, as the handlers are today. Nothing is assumed of
refusals: a flush may be refused whatever the batch holds. What such a refusal
costs is in the statements instead, as `lost`: an address that the *other*
request believes flushed, and nothing else. `ban_lost_batch` shows that this
happens; `LossTakesBoth`, that it takes a refusal and two requests at a time.
The theorems of `PeerViewProofs` are about any components that implement the two
interfaces.

Only model-checked: liveness (`RetriesConverge`, `SavedInTheEnd` and the like),
which is out of the prover's reach. Every invariant and action property of a
passing run is proved.

Some proofs would not go through at first because the models were wrong, and
changed them. A torrent's refresh is abandoned by a peer of *another* torrent,
too. The kernel may hold addresses when a process starts. And a ban request may
put an older ban time in the place of a newer one: an earlier argument for
`FreshBansHidden` had ban times only grow.

## 7. Where code and docs disagree

Shown by a run:

- A ban that never reached the kernel is recorded and acknowledged when another
  handler's flush is refused with its messages in the buffer, whether or not that
  handler has any of its own there (`ban_lost_batch`, `data/banip.go:81`). An
  IPv4 address on record is skipped from then on (`domain/app.go:63`): no retry
  bans it while the process lives (`RetriesConverge` has that case as its
  exception).
- After a restart the download total is the upload total (`stats_swap`,
  `data/torrent.go:188`).
- The last torrents stay listed when TR becomes empty (`client_empty`,
  `domain/torrent.go:551`).
- The configured trackers reach no torrent while the subscription cannot be
  fetched (`trackers_offline`, `domain/torrent.go:289`).

Modelled as the code has it, and visible in the definitions named:

- `UnbanIPV4/6` store a ban time instead of deleting it (`data/banip.go:144`;
  `Record`): an unbanned address stays on record and cannot be banned again. Not
  reachable today, for nothing calls them.
- `BanIPV6` records in `banlistIPV4` (`:116`; `Record`, `BanAsked`): IPv6
  addresses are banned anew by each request, which renews their ban time. An
  IPv4 address on record is not, and its time is never renewed
  (`domain/app.go:63`): the comment at `domain/torrent.go:486` says that recently
  banned addresses are filtered, but one that was banned again after
  `skipIPsDuration` is shown while it has traffic. `AckedHidden` is about the ban
  time on record.
- `genAddr` joins IP and port without a separator (`service/sync.go:116`; the
  comment at `:114` says `ip:port`; `PutPeer`): 10.0.0.1 with port 51413 and
  10.0.0.15 with port 1413 have one key, and one of the two is missing from
  the answer, so that PBH neither sees nor bans it. `UnbannedShown` says that a
  peer is missing for no other reason.
- The ban time is taken before it is stored, without a lock: of two overlapping
  requests the one that took it first may store it last (`data/banip.go:85`;
  `BanFlushedStep`, `BanRecordedStep`), and `skipIPsDuration` ends earlier.
- A crash between `os.Create` and `Write` leaves an empty `properties.json`, and
  `NewTorrentUsecase` panics at every later start (`StartPanics`); `NewInfra`
  has set up the tables by then, and nothing removes them.
- At shutdown nothing waits for the ticker's save (`trigger/task.go:102`;
  `clean`): an older save may be the last one, or leave a tail behind the
  newer.
- The deferred `Close` overwrites the error of `Write` (`WriteFails`).
- A nil ID is dereferenced after a failed `TorrentAdd` (`data/torrent.go:112`;
  `AddFails`); the recovery middleware turns the panic into an error answer.
- The bound on trackers is looked at after a line was taken, and configured
  trackers are not bounded (`domain/torrent.go:303`; `Read`, `ListSound`).
- `UpTracker` replaces a torrent's whole list (`data/torrent.go:78` says *add*):
  a torrent's own trackers are lost (`TorrentSet`).
- The preferences' `banned_IPs` are only ever added to the bans
  (`domain/app.go:294`, `SetPreferences`): an address that a client takes off
  its list stays banned. `UpBanIPList`, which would lift it, is not wired.
- The HTTP handler of `Add` drops the category (`trigger/http.go:123`; `Labels`),
  and `Add` would store it only when `add_torrent_label` is configured
  (`domain/torrent.go:342`): a `GetInfo` by category finds only what was
  labelled by other means.
- Links that `url.Parse` refuses are skipped, and uploaded files are ignored when
  a link is left (`service/torrent.go:47`, `:53`; `PassesOver`): the request is
  answered without an error, and the client is not told that a part of it was
  left out. `OkMeansIn` says just that much. One empty file fails the whole
  request after others were stored, and a form without links that is not
  multipart makes `Add` dereference a nil `MultipartForm` (`:64`), which the
  recovery middleware answers with an error (`UploadFails`).
- A torrent TR holds already keeps its old labels, whatever the repeated request
  says (`Takes`).
- `domain/torrent.go:687` says that torrents are filtered by hash. The loop at
  `:691` looks each torrent up in `uc.torrents` and never reads `filter.Hashes`
  (`LookUp`): a client that asks for one hash gets every torrent that is still in
  the table. No property here says that a list answers the filter; `OneTable`
  says of which table its torrents are, `StayersShown` that none is missing that
  passes the code's own filters. `completed`, `stalled`, `inactive` and `errored` filter nothing, `resumed` everything
  (`Matches`).
- The comment on the expiry of temporary files says one minute
  (`data/infra.go:268`), the code ten (`Expire`).
- The first tracker task runs before the HTTP server starts, over an `http.Get`
  without timeout (`serving`).

Outside the models: the id slices of `UpTorrentALLTrackerList` and `Add` start
with as many zeroes as there are torrents.

## 8. Not modelled

- **`GetPreferences`**: one request to TR and a conversion, no state.
- **`UpBanIPV4List`, `UpBanIPV6List`**: nothing calls them.
- **A call that `Add` has given up**: `Uploads` has it; in `Trackers` its torrent
  appears (`Appears`), and a `TorrentSet` that may follow it is left out.
- **Routes, codec, configuration, sign-in stubs, build files**: parsing and
  formatting; of the routes, the form of `Add` and the timeout are in `Uploads`.
- Within the modelled parts: field-by-field conversions (to the qBittorrent
  form, and from TR's), save path, cookie and the paused flag of `Add`, logging,
  contexts other than `Add`'s (no other modelled step stops at a cancelled one).

## 9. Plan

Done: `BanContract`, `BanList` first, being why the proxy exists; then
`HistoricalStats`, the only state on disk; `ClientData`, which both feed on;
`PeerView`, which joins ban path and client data, through the interfaces both
are proved to implement; `Trackers`; `Uploads`, and `TorrentQuery`, composed
with `ClientData`. Every safety property is proved.

Next, in this order:

1. An interface between `ClientData` and `HistoricalStats`, as `PeerRefresh` is
   one: the save reads `uc.statistics` while a refresh publishes it.
   `HistoricalStats!Refresh` already splits the increment; `ClientData` would be
   shown to implement it.
2. One between `Uploads` and `Trackers`: what an `Add` does to TR.
