---------------------------- MODULE ByteTransfer ----------------------------
(***************************************************************************)
(* What the functions for large objects promise: the bytes of a source     *)
(* arrive at the destination in order, none twice, and a call that reports *)
(* success has moved them all.  A call that fails promises nothing of the  *)
(* destination.  LobStream describes how the library does it.              *)
(***************************************************************************)
EXTENDS Naturals, Sequences

CONSTANT Sources    \* the sequences of bytes there are to move

VARIABLES src, dst, outcome

vars == <<src, dst, outcome>>

Init == src \in Sources /\ dst = << >> /\ outcome = "running"

Move ==
  /\ outcome = "running"
  /\ \E n \in Len(dst) + 1 .. Len(src) : dst' = SubSeq(src, 1, n)
  /\ UNCHANGED <<src, outcome>>

Succeed ==
  /\ outcome = "running" /\ dst = src
  /\ outcome' = "ok"
  /\ UNCHANGED <<src, dst>>

Fail ==
  /\ outcome = "running"
  /\ outcome' = "failed" /\ dst' = << >>
  /\ UNCHANGED src

Next == Move \/ Succeed \/ Fail

Spec == Init /\ [][Next]_vars
=============================================================================
