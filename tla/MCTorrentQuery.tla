--------------------------- MODULE MCTorrentQuery ---------------------------
(***************************************************************************)
(* Instances of TorrentQuery: a torrent downloads and moves data, or is    *)
(* checked and has a label.                                                *)
(***************************************************************************)
EXTENDS TorrentQuery

CONSTANTS h1, h2, a1, q1, g

MCRate == {[down |-> 0, up |-> 0]}
MCRow == {[status |-> "download", moving |-> TRUE, labels |-> {}],
          [status |-> "check", moving |-> FALSE, labels |-> {g}]}
MCFilter ==
    {[status |-> "checking", labels |-> {}, byHash |-> TRUE],
     [status |-> "active", labels |-> {g}, byHash |-> FALSE],
     [status |-> "resumed", labels |-> {}, byHash |-> TRUE]}

\* Bound: lists are asked for before the first peer shows up.  Peers change
\* when a table is published, not what is in it.
PeersOrQueries ==
    (\E q \in Query : ask'[q] # "idle") => DOMAIN cache' = {} /\ PeersOf(resp') = {}

MCSpec == QueryInit /\ [][QueryNext /\ PeersOrQueries]_allVars /\ QueryFair
=============================================================================
