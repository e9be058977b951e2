------------------------------ MODULE MCStorage -------------------------------
(***************************************************************************)
(* Storage with two tokens, user ids, tasks and results.                   *)
(***************************************************************************)
EXTENDS Storage, TLC

CONSTANTS k1, k2, u1, u2, t1, t2, url1, url2
===============================================================================
