-------------------------------- MODULE Order --------------------------------
(* What sort_by makes of a finite set: before holds the pairs of different *)
(* elements that are in order.                                             *)
EXTENDS Integers, Sequences

Less == {pair \in Nat \X Nat : pair[1] < pair[2]}

First(items, before) == CHOOSE x \in items : \A y \in items : <<y, x>> \notin before

InOrder(items, before) ==
  LET from[left \in SUBSET items] ==
        IF left = {} THEN <<>>
        ELSE LET first == First(left, before) IN <<first>> \o from[left \ {first}]
  IN from[items]
=============================================================================
