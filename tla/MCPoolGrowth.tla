---------------------------- MODULE MCPoolGrowth ----------------------------
(***************************************************************************)
(* Model checking of PoolGrowth: from one pool to two and to four, where   *)
(* the limit is, with clients enough to be too many for four; the timers   *)
(* are two threads that get in each other's way and in handle_pool's.      *)
(***************************************************************************)
EXTENDS PoolGrowth

CONSTANTS t1, t2

MCThreads == 2
MCStartPools == 1
MCPoolLimit == 10
MCTimer == {t1, t2}
MCMaxDesc == 9

=============================================================================
