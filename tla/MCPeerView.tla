----------------------------- MODULE MCPeerView -----------------------------
(***************************************************************************)
(* An instance of PeerView: a peer, idle or uploaded to, two ban requests  *)
(* for its address, and another peer that has the same key in an answer.   *)
(***************************************************************************)
EXTENDS PeerView

CONSTANTS a, z, i, j, b, e, c, key

R(d, u) == [down |-> d, up |-> u]
MCRate == {R(0, 0), R(0, 1)}
MCIPOf == [k \in Addr |-> IF k = a THEN i ELSE j]
MCKeyOf == [k \in Addr |-> key]

\* Bound: the second ban request comes and goes while the first, which has
\* reached the kernel, is about to record, and the peer is in the cache with its
\* counters at their bound.
Overlap ==
    wanted'[e] # {} =>
        /\ flushed'[b] # {} /\ i \in kernel'
        /\ a \in DOMAIN cache' /\ cache'[a].count["up"] = MaxCount

\* Bound: the other peer has no traffic and is never banned, and it comes and
\* goes before the first ban request.
Guest ==
    /\ \A g \in Banner : wanted'[g] \subseteq {i}
    /\ z \in DOMAIN resp' => DOMAIN resp' = Addr /\ resp'[z] = Still /\ resp'[a] # Still
    /\ z \in DOMAIN resp' \cup table' \cup DOMAIN cache' \cup snap'[c] =>
           wanted'[b] = {} /\ recorded' = {} /\ kernel' = {} /\ now' = 0

MCSpec ==
    /\ Init /\ kernel \subseteq {i}
    /\ [][Next /\ Overlap /\ Guest]_vars
    /\ Fairness
=============================================================================
