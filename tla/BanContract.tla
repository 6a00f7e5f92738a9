---------------------------- MODULE BanContract ----------------------------
(***************************************************************************)
(* What HTTP clients may rely on, without the proxy's bookkeeping: an      *)
(* address is acknowledged as banned only if the kernel drops its packets, *)
(* or if its ban was lost when the kernel refused the batch of several     *)
(* requests.  Once dropped it can be lost no more, and stays dropped until *)
(* the proxy's own shutdown removes the tables.                            *)
(***************************************************************************)
CONSTANT IP

VARIABLES
    dropped,  \* addresses whose packets the kernel drops
    acked,    \* addresses some client was told are banned
    lost      \* addresses whose ban was lost, and that are not dropped since

contractVars == <<dropped, acked, lost>>

Init ==
    /\ dropped \in SUBSET IP
    /\ acked = {} /\ lost = {}

\* The kernel takes in a batch of addresses.
Drop ==
    /\ \E S \in SUBSET IP : dropped' = dropped \cup S
    /\ lost' = lost \ dropped'
    /\ UNCHANGED acked

\* The kernel refuses a batch, and some request is answered with an error;
\* others that had addresses in it are not.
Lose ==
    /\ \E S \in SUBSET (IP \ dropped) : lost' = lost \cup S
    /\ UNCHANGED <<dropped, acked>>

\* A ban request is answered without an error.
Acknowledge ==
    /\ \E S \in SUBSET (dropped \cup lost) : acked' = acked \cup S
    /\ UNCHANGED <<dropped, lost>>

\* A graceful shutdown withdraws every promise; its clean-up may be refused.
Withdraw ==
    /\ dropped' \in {{}, dropped}
    /\ acked' = {} /\ lost' = {}

\* A crash breaks no promise; what was lost and not acknowledged is history.
Crash ==
    /\ lost' = lost \cap acked
    /\ UNCHANGED <<dropped, acked>>

Next == Drop \/ Lose \/ Acknowledge \/ Withdraw \/ Crash

Spec == Init /\ [][Next]_contractVars
=============================================================================
