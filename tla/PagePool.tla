------------------------------ MODULE PagePool ------------------------------
(***************************************************************************)
(* What std/page-alloc.watim promises its clients, without saying how the  *)
(* free pages are kept: memory is an ever growing range of 64 KiB pages,   *)
(* and a page is lent to at most one client at a time.                     *)
(***************************************************************************)
EXTENDS Integers

CONSTANTS
  Reserved,  (* pages below this number hold static data and the stack     *)
  MaxPages   (* the limit of the memory: (memory 1 65536)                  *)

VARIABLES
  lent,      (* the pages clients own                                      *)
  size       (* the number of pages of memory                              *)

poolVars == <<lent, size>>

Pages == Reserved .. MaxPages - 1
Run(first, n) == first .. first + n - 1

PoolInit == lent = {} /\ size = Reserved

(* The n adjacent pages from first, which nobody owns, become the          *)
(* client's; memory may grow.                                              *)
LendRun(first, n) ==
  /\ size' \in size .. MaxPages
  /\ Run(first, n) \subseteq Reserved .. size' - 1
  /\ Run(first, n) \cap lent = {}
  /\ lent' = lent \cup Run(first, n)

Lend == \E first \in Pages, n \in 1 .. MaxPages : LendRun(first, n)

(* A client gives one page back: memory never shrinks.                     *)
Return ==
  /\ \E p \in lent : lent' = lent \ {p}
  /\ UNCHANGED size

(* Growing fails half way and the process exits: nothing was lent.         *)
GrowAndFail ==
  /\ size' = MaxPages
  /\ UNCHANGED lent

PoolNext == Lend \/ Return \/ GrowAndFail

PoolSpec == PoolInit /\ [][PoolNext]_poolVars
=============================================================================
