---------------------------- MODULE MCAcceptList ----------------------------
(***************************************************************************)
(* Model checking of AcceptList: two threads, the one with every line of   *)
(* one or two of the types here and some others, the other with a line of  *)
(* one type or two; a list made for three types.                           *)
(***************************************************************************)
EXTENDS AcceptList

CONSTANTS t1, t2

MCType == {<<"text/html">>, <<"image/webp", ";", "q=0.5">>, <<"*/*", ";", "q=1">>}

MCWorker == {t1, t2}
MCPreallocation == 3
MCLine == [w \in MCWorker |->
  IF w = t1
  THEN {a \o <<NUL>> : a \in MCType}
       \cup {a \o <<",">> \o b \o <<NUL>> : a \in MCType, b \in MCType}
       \cup {<<"text/html", ",", "image/jpeg", ";", " q=1", ",", "image/jxr", NUL>>,
             <<"image/gif", ",", "image/jpg", ",", "*/*", NUL>>, <<"image/*", NUL>>,
             <<"image/png", ",", ";", "q=0.5", NUL>>, <<";", NUL>>}
  ELSE {<<"image/webp", NUL>>, <<"text/html", ",", "image/png", ";", " q=0.5", NUL>>}]

=============================================================================
