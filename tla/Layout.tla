------------------------------- MODULE Layout -------------------------------
(***************************************************************************)
(* How values lie in memory: sizes, offsets of fields and the kinds of     *)
(* places a value may be in (bootstrap/monomorphization/monomizer.py, and  *)
(* align_to of bootstrap/util.py).                                         *)
(*                                                                         *)
(* A type is a record of its kind, its size, and the types it is made of:  *)
(* the fields of a struct, what a pointer points to, the payloads of a     *)
(* variant's cases, of which Unit is none at all.  The size is computed    *)
(* where the type is made, as compute_sizes does before anything asks for  *)
(* one.                                                                    *)
(***************************************************************************)
LOCAL INSTANCE Integers
LOCAL INSTANCE Sequences
LOCAL INSTANCE FiniteSetsExt

AlignTo(n, to) ==
  IF to = 0 \/ n % to = 0 THEN n ELSE n + to - (n % to)

Smaller(a, b) == IF a < b THEN a ELSE b

Size(t) == t.size
Largest(types) == Max({Size(types[i]) : i \in DOMAIN types} \cup {0})

(* The size of a struct: after each field, that of the next is aligned to, *)
(* but never more than 4; in the end, that of the largest.                 *)
StructSize(fields) ==
  LET n == Len(fields)
      size[k \in 0..n] ==
        IF k = 0 THEN 0
        ELSE LET end == size[k - 1] + Size(fields[k])
             IN IF k = n THEN end ELSE AlignTo(end, Smaller(4, Size(fields[k + 1])))
  IN AlignTo(size[n], Largest(fields))

VariantSize(payloads) == 4 + Largest(payloads)

(* Where the fields of a struct start, computed anew.                      *)
Starts(fields) ==
  LET at[k \in 1..Len(fields)] ==
        IF k = 1 THEN 0
        ELSE AlignTo(at[k - 1] + Size(fields[k - 1]), Smaller(Size(fields[k]), 4))
  IN at

Type(kind, size, of) == [kind |-> kind, size |-> size, of |-> of]
Unit == Type("none", 0, << >>)
Bool == Type("bool", 4, << >>)
I8 == Type("i8", 1, << >>)
I32 == Type("i32", 4, << >>)
I64 == Type("i64", 8, << >>)
Ptr(child) == Type("ptr", 4, << child >>)
Fun == Type("fun", 4, << >>)
Struct(fields) == Type("struct", StructSize(fields), fields)
Variant(payloads) == Type("variant", VariantSize(payloads), payloads)

FieldOffset(t, i) == Starts(t.of)[i]

CanLiveInReg(t) == Size(t) <= 8
IsI64(t) == Size(t) > 4 /\ Size(t) <= 8
LocalLivesInMemory(local) == ~CanLiveInReg(local.type) \/ local.reffed
=============================================================================
