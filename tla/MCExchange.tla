---- MODULE MCExchange ----
(* Two cabinets, one charged pack in the first and one in the vehicle. *)
EXTENDS Exchange
CONSTANTS c1, c2, p1, p2
MCHome == (c1 :> p1) @@ (c2 :> None)
====
