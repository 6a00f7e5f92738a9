----------------------------- MODULE BanRequests -----------------------------
(***************************************************************************)
(* What ban requests do to the kernel and to the record of banned          *)
(* addresses while one process lives, as whoever reads that record may     *)
(* rely on it.  It is the interface of two modules: PeerView builds its    *)
(* handlers on it, and BanList, which has the shared nftables connection,  *)
(* crashes and shutdowns, implements it between a start and the end of the *)
(* process.                                                                *)
(*                                                                         *)
(* A request sends the addresses it does not find on record to the kernel, *)
(* a part at a time, and records each part when its flush has returned.    *)
(* The kernel may get an address earlier, with the flush of another        *)
(* request, or not at all, when that flush is refused.  A request that     *)
(* fails has recorded a part of its addresses.                             *)
(***************************************************************************)
CONSTANTS
    IP,         \* addresses
    Banner      \* handlers of ban requests at work at a time

VARIABLES
    kernel,     \* addresses whose packets the kernel drops
    recorded,   \* addresses on record, the keys of banlistIPV4
    wanted,     \* the addresses of each handler's request
    queued,     \* those it has yet to flush
    flushed     \* those it has flushed and not recorded

banVars == <<kernel, recorded, wanted, queued, flushed>>

\* A process that starts may find addresses in the kernel; it has no record.
BanInit ==
    /\ kernel \in SUBSET IP
    /\ recorded = {}
    /\ wanted = [b \in Banner |-> {}]
    /\ queued = [b \in Banner |-> {}] /\ flushed = [b \in Banner |-> {}]

\* The statuses are looked up.  Addresses on record may be banned anew: IPv6
\* addresses always are.
BanAsked(b) ==
    /\ wanted[b] = {}
    /\ \E W \in (SUBSET IP) \ {{}} : \E S \in SUBSET W :
           /\ W \ S \subseteq recorded
           /\ wanted' = [wanted EXCEPT ![b] = W]
           /\ queued' = [queued EXCEPT ![b] = S]
    /\ UNCHANGED <<kernel, recorded, flushed>>

\* A flush takes along what others have queued.  It may find that another one
\* did so with its own, or was refused with them and discarded them all: what
\* it takes for flushed need not be in the kernel.
BanFlushed(b) ==
    /\ flushed[b] = {}
    /\ \E S \in SUBSET queued[b] :
           /\ flushed' = [flushed EXCEPT ![b] = S]
           /\ queued' = [queued EXCEPT ![b] = @ \ S]
    /\ \E X \in SUBSET (UNION {queued[g] : g \in Banner}) : kernel' = kernel \cup X
    /\ UNCHANGED <<recorded, wanted>>

BanRefused(b) ==
    /\ queued[b] # {} /\ flushed[b] = {}
    /\ wanted' = [wanted EXCEPT ![b] = {}] /\ queued' = [queued EXCEPT ![b] = {}]
    /\ UNCHANGED <<kernel, recorded, flushed>>

BanRecorded(b) ==
    /\ flushed[b] # {}
    /\ recorded' = recorded \cup flushed[b]
    /\ flushed' = [flushed EXCEPT ![b] = {}]
    /\ UNCHANGED <<kernel, wanted, queued>>

BanAnswered(b) ==
    /\ wanted[b] # {} /\ queued[b] = {} /\ flushed[b] = {}
    /\ wanted' = [wanted EXCEPT ![b] = {}]
    /\ UNCHANGED <<kernel, recorded, queued, flushed>>

BanNext ==
    \E b \in Banner :
        \/ BanAsked(b) \/ BanFlushed(b) \/ BanRefused(b)
        \/ BanRecorded(b) \/ BanAnswered(b)
=============================================================================
