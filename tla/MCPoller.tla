------------------------------ MODULE MCPoller ------------------------------
(* Poller with one or two subscriptions and three rows on three ticks of   *)
(* the clock, so that rows share a time and overtake one another.          *)
EXTENDS Poller

CONSTANTS c1, c2, r1, r2, r3

OneClient  == {c1}
TwoClients == {c1, c2}
OneRow     == {r1}
ThreeRows  == {r1, r2, r3}
=============================================================================
