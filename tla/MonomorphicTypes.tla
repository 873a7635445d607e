-------------------------- MODULE MonomorphicTypes --------------------------
(***************************************************************************)
(* Types, as inference leaves them and monomization takes them.  A custom  *)
(* type is known by its definition and has the types its parameters are.   *)
(***************************************************************************)
EXTENDS Sequences

None == [k |-> "none"]
Primitive(name) == [k |-> "primitive", name |-> name]
Generic(n) == [k |-> "generic", n |-> n]
Ptr(child) == [k |-> "ptr", of |-> <<child>>]
Fun(parameters, returns) ==
  [k |-> "fun", of |-> parameters \o returns, n |-> Len(parameters)]
Custom(definition, arguments) ==
  [k |-> "custom", definition |-> definition, of |-> arguments]
=============================================================================
