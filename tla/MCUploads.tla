----------------------------- MODULE MCUploads -----------------------------
(***************************************************************************)
(* Instances of Uploads: a file sent alone, two files in one request, a    *)
(* good file before an empty one, a link with a file beside it, a broken   *)
(* link beside a good one, with a file, and with nothing.                  *)
(***************************************************************************)
EXTENDS Uploads

CONSTANTS h1, h2, t1, t2, n1, n2, n3, g, k, own

MCRequests ==
    {Sent(<<>>, {}, <<t1>>), Sent(<<>>, {}, <<t1, t2>>), Sent(<<>>, {}, <<t2, Blank>>),
     Sent(<<t2>>, {}, <<t1>>), Sent(<<t2>>, {t1}, <<>>), Sent(<<>>, {t2}, <<t1>>),
     Sent(<<>>, {t1}, <<>>)}
=============================================================================
