--------------------------- MODULE MCHandleClient ---------------------------
(***************************************************************************)
(* Model checking of HandleClient: three connections over two buffers, so  *)
(* that what one leaves lies under what the next one sends; requests in    *)
(* three parts; a timer of two, which cuts a client that does not pause,   *)
(* and a quota of three, which only one that pauses can use up.            *)
(* MaxRequest is what the connections can send under their quota: it stops *)
(* nobody.                                                                 *)
(***************************************************************************)
EXTENDS HandleClient

MCMaxConn == 3
MCTimerStart == 2
MCRequestStart == 3
MCMaxRequest == MCMaxConn * MCRequestStart
MCNumMsg == 2
MCParts == 3

=============================================================================
