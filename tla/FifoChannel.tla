---------------------------- MODULE FifoChannel ----------------------------
(***************************************************************************)
(* What each direction of a network adapter promises its user: a first-in  *)
(* first-out channel.  Messages are put in at one end; those that come out *)
(* at the other end come out in the order they were put in, each at most   *)
(* once, none invented and none altered.  The channel may stop delivering  *)
(* at any time, so it promises a prefix and never that the rest arrives.   *)
(***************************************************************************)
EXTENDS Naturals, Sequences

CONSTANT Message   (* what may be put in *)

VARIABLES
  in,   (* every message ever put in, in order      *)
  out   (* every message ever handed out, in order  *)

vars == <<in, out>>

Init == in = <<>> /\ out = <<>>

Put == \E m \in Message : in' = Append(in, m) /\ out' = out

Get ==
  /\ Len(out) < Len(in)
  /\ out' = Append(out, in[Len(out) + 1])
  /\ in' = in

Next == Put \/ Get

Spec == Init /\ [][Next]_vars
=============================================================================
