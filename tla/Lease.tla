------------------------------- MODULE Lease -------------------------------
(***************************************************************************)
(* What the keep-alive handling of one slot promises, with no mechanism:   *)
(* while a connection is held it is answered at most MaxAnswers times, the *)
(* server waits at most Patience seconds for the next request, and once    *)
(* the connection has been given up only a new one may be answered.        *)
(***************************************************************************)
EXTENDS Naturals

CONSTANTS MaxAnswers, Patience

VARIABLES
  held,       \* a client has the slot
  answers,    \* answers it may still be given
  patience    \* seconds the server may still wait for it

vars == <<held, answers, patience>>

Init == ~held /\ answers = MaxAnswers /\ patience = Patience

\* A new client is given the slot.
Grant ==
  /\ ~held
  /\ held' = TRUE
  /\ answers' = MaxAnswers
  /\ patience' = Patience

\* A request arrives and is answered; the waiting begins anew.
Answer ==
  /\ held
  /\ answers > 0
  /\ answers' = answers - 1
  /\ patience' = Patience
  /\ UNCHANGED held

\* Some seconds, or none, go by.
Wait ==
  /\ held
  /\ patience' \in 0..patience
  /\ UNCHANGED <<held, answers>>

\* The client leaves, or is made to.
GiveUp ==
  /\ held
  /\ held' = FALSE
  /\ patience' \in 0..patience
  /\ UNCHANGED answers

Next == Grant \/ Answer \/ Wait \/ GiveUp

Spec == Init /\ [][Next]_vars

=============================================================================
