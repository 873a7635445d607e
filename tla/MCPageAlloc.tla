---------------------------- MODULE MCPageAlloc ----------------------------
(* Model checking PageAlloc: one reserved page and up to five to lend.     *)
EXTENDS PageAlloc
=============================================================================
