----------------------------- MODULE MCResponse -----------------------------
(***************************************************************************)
(* Model checking of Response: files of up to five bytes, sent in as many  *)
(* parts as there can be, truncated once and written again; the two error  *)
(* codes are sizes a file can have, as they are in the code.  A page of up *)
(* to five bytes, three more that can be read behind it, and lengths       *)
(* modulo 16: the largest page is no multiple of either code, as in the    *)
(* code, and lengths that go below zero come out beyond what can be read.  *)
(***************************************************************************)
EXTENDS Response

MCMaxSize == 5
MCHeadLen == 3
MCErrorCode == 3
MCClosedCode == 4
MCMaxTrunc == 1
MCMaxPage == 5
MCPageHeadLen == 2
MCMemLen == 8
MCWord == 16

=============================================================================
