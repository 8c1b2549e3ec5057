----------------------------- MODULE MCPathList -----------------------------
(***************************************************************************)
(* Model checking of PathList: two threads; a quality of 0 for a display   *)
(* of height 5, whose digits are those of a quality of 0.5 for no display  *)
(* (for which the numbers are 0), and there with an extension that is the  *)
(* beginning of the others'; and a quality of 1.  The first symbol of an   *)
(* extension stands for the point and the letters both have.  A quality    *)
(* has one digit behind the point, and no three paths fit into the mapping.*)
(***************************************************************************)
EXTENDS PathList

CONSTANTS t1, t2, a, jp, g, webp

Jpg == <<jp, g>>

Image(q, width, height, ext, format) ==
  [name |-> a, q |-> q, width |-> width, height |-> height, colors |-> 0,
   ext |-> ext, format |-> format]

MCWorker == {t1, t2}
MCRequest ==
  {Image(0, 0, 5, Jpg, webp),
   Image(5, 0, 0, <<jp>>, Jpg), Image(10, 0, 0, Jpg, Jpg)}
MCCharacter == {jp, g}
MCUnit == 10
MCSize == 13
MCMaxList == 3

=============================================================================
