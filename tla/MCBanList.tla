----------------------------- MODULE MCBanList -----------------------------
(***************************************************************************)
(* Instances of BanList for TLC: two IPv4 addresses, one of them sent in   *)
(* two spellings, one IPv6 address, and text that is no address.           *)
(***************************************************************************)
EXTENDS BanList, TLC

CONSTANTS h1, h2, a, b, x, aMapped, junk

MCV4 == {a, b}
MCV6 == {x}
\* aMapped stands for "::ffff:a", which To4 takes back to a.
MCAddr == {a, b, x, aMapped, junk}
MCIPOf == [s \in MCAddr |-> CASE s = aMapped -> a
                              [] s = junk    -> NoIP
                              [] OTHER       -> s]
MCRequests == {{a, junk}, {aMapped, b, x}}
\* Fewer requests where three operations interleave.
MCFewRequests == {{a}, {aMapped, x}}

Symmetry == Permutations(Handler)
=============================================================================
