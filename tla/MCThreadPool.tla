---------------------------- MODULE MCThreadPool ----------------------------
(***************************************************************************)
(* Model checking of ThreadPool, twice.  MCThreadPool.cfg looks at what    *)
(* holds while nothing has gone wrong, in a ring of three slots with four  *)
(* connections, so that a slot and descriptors are used again: CONSTRAINT  *)
(* Clean stops at the first state in which something has.                  *)
(* MCThreadPoolLive.cfg goes on beyond it, in a ring of one slot, which    *)
(* three connections fill more than once.                                  *)
(***************************************************************************)
EXTENDS ThreadPool

MCMaxConn == 4
MCNumThread == 3

MCLiveMaxConn == 3
MCLiveNumThread == 1

=============================================================================
