---------------------------- MODULE MCImageCache ----------------------------
(***************************************************************************)
(* Model checking of ImageCache: a ring of three, and four paths in the    *)
(* list, so that the list outgrows the ring while a hit is read; two       *)
(* threads, which convert one image at the same time or find it half       *)
(* entered; three images that can be converted, so that a search that has  *)
(* passed the end of the list can find, at a place too great, another one  *)
(* within the ring; one restart, after which one path is enough; and an    *)
(* image that is missing, of each kind: one of them is asked for with an   *)
(* extension that is the beginning of that of an image there is. An image  *)
(* is longer than the others.                                              *)
(***************************************************************************)
EXTENDS ImageCache

CONSTANTS t1, t2, a, b, c, m, n

MCWorker == {t1, t2}
MCImage == {a, b, c, m, n}
MCMissing == {m, n}
MCJpg == {a, b, m}
MCLength == [im \in MCImage |-> IF im = a THEN 2 ELSE 1]
MCLonger == [im \in MCImage |-> IF im = n THEN {a} ELSE {}]
MCSize == 5
MCRing == 3
MCMaxBoots == 1
MCMaxList == [boot \in 0..MCMaxBoots |-> IF boot = 0 THEN 4 ELSE 1]

=============================================================================
