---------------------------- MODULE MCUnstacking ----------------------------
(* Unstacking with small bounds: flip, which shows the order of results, a *)
(* closure taken from the stack and called, blocks of one result.          *)
EXTENDS Unstacking

TwoForTwo == {<<2, 2>>}
OneForTwo == {<<2, 1>>}
TwoForOne == {<<1, 2>>}
=============================================================================
