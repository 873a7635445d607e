-------------------------- MODULE Monomorphization --------------------------
(***************************************************************************)
(* Making instances of generic functions and types: monomize and Ctx of    *)
(* bootstrap/monomorphization/monomizer.py.                                *)
(*                                                                         *)
(* A type becomes an entry of `types', and is known by its number from     *)
(* then on; a function becomes one instance for each list of type          *)
(* arguments it is called with.  Both tables have entries that are made    *)
(* but not filled while what they depend on is worked out, since types and *)
(* functions may be recursive.                                             *)
(*                                                                         *)
(* The modules come in compilation order.  A function's body is chosen     *)
(* while it is walked for the first time: a use of a type stands for every *)
(* word, local, parameter or result that has one.                          *)
(***************************************************************************)
EXTENDS Integers, SequencesExt, FiniteSetsExt, MonomorphicTypes

CONSTANTS
  Functions,      (* in the order of their modules: module, kind, how many *)
                  (* type parameters, whether it is referred to instead of *)
                  (* called, and the types of an extern                    *)
  Definitions,    (* custom types: kind, and the types of fields or cases  *)
  Uses,           (* types that may be used, of each number of parameters  *)
  Arguments,      (* type arguments that may be given, likewise            *)
  Globals,        (* what the types of a module's globals may be           *)
  CallsExported,  (* whether exported functions are called as well         *)
  MaxItems,       (* bound: items in all bodies                            *)
  MaxFrames       (* bound: calls of monomize_function in progress         *)

VARIABLES
  bodies,         (* what each function is made of, as far as it is known  *)
  tables,         (* types, those this module's Ctx knows, and the type    *)
                  (* definitions of every module                           *)
  instances,      (* of every function                                     *)
  functionTable,
  frames,         (* monomize_function in progress, outermost first        *)
  module, turn,   (* the module and the function monomize has come to      *)
  phase

vars == <<bodies, tables, instances, functionTable, frames, module, turn, phase>>

-----------------------------------------------------------------------------
Primitives == <<Primitive("bool"), Primitive("i8"), Primitive("i32"), Primitive("i64")>>
PrimitiveId(type) == CHOOSE i \in 1..Len(Primitives) : Primitives[i] = type

RECURSIVE IsClosed(_)
IsClosed(type) ==
  /\ type.k # "generic"
  /\ "of" \in DOMAIN type => \A i \in DOMAIN type.of : IsClosed(type.of[i])

(* Keys of the table: a type of which the parts are numbers.  None stands  *)
(* for an entry that is not filled, or that nothing came to fill.          *)
Key(type, ids) == IF type.k = "custom"
                  THEN [type EXCEPT !.of = ids] @@ [type |-> None]
                  ELSE [type EXCEPT !.of = ids]

(* The type a custom key stands for is not compared.                       *)
SameKey(a, b) ==
  /\ a.k = b.k
  /\ IF a.k = "custom" THEN a.definition = b.definition /\ a.of = b.of ELSE a = b

Known(t, key) == {id \in t.mine : SameKey(t.types[id], key)}

(* A slip: a variant is taken for a struct.                                *)
SameParts(a, b) == a.parts = b.parts

(* type_definitions_equiv.                                                 *)
Equiv(a, b) == a.kind = b.kind /\ a.parts = b.parts

(* One definition serves all types of a module that look alike.            *)
AddDefinition(t, made) ==
  LET defs == t.defs[module]
      alike == {i \in DOMAIN defs : Equiv(made, defs[i])}
      at == IF alike # {} THEN Min(alike) ELSE Len(defs) + 1
  IN [tables |-> IF alike # {} THEN t ELSE [t EXCEPT !.defs[module] = Append(@, made)],
      handle |-> [k |-> "handle", module |-> module, index |-> at]]

(* What is added for nothing is taken off again if it is still the last.   *)
GiveUp(t, id) ==
  IF id = Len(t.types) THEN [t EXCEPT !.types = Front(@)] ELSE t

RECURSIVE MonomizeType(_, _, _), MonomizeTypes(_, _, _)

MonomizeTypes(t, types, arguments) ==
  IF types = << >> THEN [tables |-> t, ids |-> << >>]
  ELSE LET first == MonomizeType(t, Head(types), arguments)
           others == MonomizeTypes(first.tables, Tail(types), arguments)
       IN [others EXCEPT !.ids = <<first.id>> \o @]

MonomizeCustomType(t, key) ==
  LET definition == Definitions[key.definition]
      parts == MonomizeTypes(t, definition.parts, key.of)
  IN AddDefinition(parts.tables, [kind |-> definition.kind, parts |-> parts.ids])

(* The number of a type, with the tables as they are afterwards.  A case   *)
(* without a value has no type.                                            *)
MonomizeType(t, type, arguments) ==
  IF type.k = "none" THEN [tables |-> t, id |-> 0]
  ELSE IF type.k = "primitive" THEN [tables |-> t, id |-> PrimitiveId(type)]
  ELSE IF type.k = "generic" THEN [tables |-> t, id |-> arguments[type.n]]
  ELSE
  LET id == Len(t.types) + 1
      parts == MonomizeTypes([t EXCEPT !.types = Append(@, None)], type.of, arguments)
      key == Key(type, parts.ids)
      known == Known(parts.tables, key)
      entered == [parts.tables EXCEPT !.types[id] = key, !.mine = @ \union {id}]
  IN IF known # {}
     THEN [tables |-> GiveUp(parts.tables, id), id |-> Min(known)]
     ELSE IF type.k # "custom" THEN [tables |-> entered, id |-> id]
     ELSE LET made == MonomizeCustomType(entered, key)
          IN [tables |-> [made.tables EXCEPT !.types[id].type = made.handle], id |-> id]

-----------------------------------------------------------------------------
(* Functions and their instances.                                          *)

Top == Last(frames)
Body == bodies[Top.function]

Init ==
  /\ bodies = [f \in DOMAIN Functions |-> [items |-> << >>, whole |-> FALSE]]
  /\ tables = [types |-> Primitives, mine |-> {},
               defs |-> [i \in {Functions[f].module : f \in DOMAIN Functions} |-> << >>]]
  /\ instances = [f \in DOMAIN Functions |-> << >>]
  /\ functionTable = << >>
  /\ frames = << >>
  /\ module = 1 /\ turn = 1
  /\ phase = "running"

Turning(kind) ==
  /\ phase = "running" /\ frames = << >> /\ turn \in DOMAIN Functions
  /\ Functions[turn].module = module /\ Functions[turn].kind = kind
  /\ turn' = turn + 1

(* A function that is not exported waits until it is called.               *)
PassFunction ==
  /\ Turning("local")
  /\ UNCHANGED <<bodies, tables, instances, functionTable, frames, module, phase>>

InsertExtern ==
  LET types == Functions[turn].types
      made == MonomizeTypes(tables, types, << >>)
  IN
  /\ Turning("extern")
  /\ bodies' = [bodies EXCEPT ![turn] =
       [items |-> [j \in DOMAIN types |-> [k |-> "type", type |-> types[j]]], whole |-> TRUE]]
  /\ tables' = made.tables
  /\ instances' = [instances EXCEPT ![turn] =
       <<[arguments |-> << >>, made |-> made.ids, done |-> TRUE]>>]
  /\ UNCHANGED <<functionTable, frames, module, phase>>

(* A slip: an instance that is being made is not found.                    *)
FinishedFor(f, arguments) ==
  {n \in DOMAIN instances[f] : instances[f][n].arguments = arguments /\ instances[f][n].done}

(* A slip: the first instance does for all.                                *)
AnyInstance(f, arguments) == {1} \intersect DOMAIN instances[f]

(* lookup_function.                                                        *)
InstancesFor(f, arguments) ==
  {n \in DOMAIN instances[f] : instances[f][n].arguments = arguments}

(* pre_insert_function, which asserts that there is no such instance, and  *)
(* monomize_function up to its first type.                                 *)
Begin(f, arguments) ==
  IF \E n \in DOMAIN instances[f] : instances[f][n].arguments = arguments
  THEN phase' = "assertion failed" /\ UNCHANGED <<instances, frames>>
  ELSE /\ instances' = [instances EXCEPT ![f] =
            Append(@, [arguments |-> arguments, made |-> << >>, done |-> FALSE])]
       /\ frames' = Append(frames, [function |-> f, instance |-> Len(instances[f]) + 1,
                                    arguments |-> arguments, next |-> 1])
       /\ UNCHANGED phase

ExportFunction ==
  /\ Turning("exported") /\ Begin(turn, << >>)
  /\ UNCHANGED <<bodies, tables, functionTable, module>>

Walking == phase = "running" /\ frames # << >>
Extern(f) == Functions[f].kind = "extern"

(* Functions of imported modules, or of the same.  A generic function of   *)
(* the same module is passed type parameters as they are, since a recursion *)
(* at ever larger types has no end.                                        *)
Callable(f, g, arguments) ==
  /\ Functions[g].module <= Functions[f].module
  /\ Len(arguments) = Functions[g].generics
  /\ Functions[g].kind = "exported" => CallsExported
  /\ Functions[g].module = Functions[f].module =>
       \A i \in DOMAIN arguments : arguments[i].k = "generic" \/ IsClosed(arguments[i])

Possible(f) ==
  {[k |-> "type", type |-> type] : type \in Uses[Functions[f].generics]}
  \union
  {item \in [k : {"call"}, of : DOMAIN Functions,
             arguments : Arguments[Functions[f].generics]] :
     Callable(f, item.of, item.arguments)}

(* What may come next in the body; it is chosen by who first gets there.   *)
Items ==
  Cardinality(UNION {{f} \X DOMAIN bodies[f].items : f \in {g \in DOMAIN bodies : ~Extern(g)}})
Ahead == Top.next <= Len(Body.items)
Coming ==
  IF ~Walking THEN {}
  ELSE IF Ahead THEN {Body.items[Top.next]}
  ELSE IF Body.whole \/ Items = MaxItems THEN {}
  ELSE Possible(Top.function)

Comes(item) ==
  bodies' = IF Ahead THEN bodies
            ELSE [bodies EXCEPT ![Top.function].items = Append(@, item)]

(* What the item has become.                                               *)
GoOn(made) ==
  /\ instances' = [instances EXCEPT ![Top.function][Top.instance].made = Append(@, made)]
  /\ frames' = [frames EXCEPT ![Len(frames)].next = @ + 1]

UseType(item) ==
  LET made == MonomizeType(tables, item.type, Top.arguments) IN
  /\ item.k = "type" /\ Comes(item)
  /\ tables' = made.tables
  /\ GoOn(made.id)
  /\ UNCHANGED <<functionTable, module, turn, phase>>

(* monomize_call and insert_into_function_table, for an instance that is   *)
(* there or an extern.                                                     *)
Call(item) ==
  LET made == MonomizeTypes(tables, item.arguments, Top.arguments)
      known == InstancesFor(item.of, made.ids)
      handle == [function |-> item.of, instance |-> IF Extern(item.of) THEN 1 ELSE Min(known)]
  IN
  /\ item.k = "call" /\ Comes(item)
  /\ Extern(item.of) \/ known # {}
  /\ tables' = made.tables
  /\ functionTable' = IF Functions[item.of].referred /\ ~Contains(functionTable, handle)
                      THEN Append(functionTable, handle) ELSE functionTable
  /\ GoOn(handle)
  /\ UNCHANGED <<module, turn, phase>>

(* The first call at these types: the instance is made at once, and the    *)
(* caller goes on, with this call, when it is there.                       *)
CallNew(item) ==
  LET made == MonomizeTypes(tables, item.arguments, Top.arguments) IN
  /\ item.k = "call" /\ Comes(item)
  /\ ~Extern(item.of) /\ InstancesFor(item.of, made.ids) = {}
  /\ Len(frames) < MaxFrames
  /\ tables' = made.tables
  /\ Begin(item.of, made.ids)
  /\ UNCHANGED <<functionTable, module, turn>>

(* The end of a body: the slot is filled.                                  *)
Return ==
  /\ Walking /\ Top.next > Len(Body.items)
  /\ bodies' = [bodies EXCEPT ![Top.function].whole = TRUE]
  /\ instances' = [instances EXCEPT ![Top.function][Top.instance].done = TRUE]
  /\ frames' = Front(frames)
  /\ UNCHANGED <<tables, functionTable, module, turn, phase>>

(* The globals come last; the next module's Ctx knows no type yet.  After  *)
(* the last module every slot is asserted to be filled.                    *)
EndModule(type) ==
  /\ phase = "running" /\ frames = << >>
  /\ turn \in DOMAIN Functions => Functions[turn].module > module
  /\ tables' = [MonomizeType(tables, type, << >>).tables EXCEPT !.mine = {}]
  /\ IF turn \in DOMAIN Functions
     THEN module' = module + 1 /\ UNCHANGED phase
     ELSE /\ phase' = IF \A f \in DOMAIN Functions : \A n \in DOMAIN instances[f] :
                           instances[f][n].done
                      THEN "done" ELSE "assertion failed"
          /\ UNCHANGED module
  /\ UNCHANGED <<bodies, instances, functionTable, frames, turn>>

Next ==
  \/ PassFunction \/ InsertExtern \/ ExportFunction \/ Return
  \/ \E item \in Coming : UseType(item) \/ Call(item) \/ CallNew(item)
  \/ \E type \in Globals : EndModule(type)

Spec == Init /\ [][Next]_vars

-----------------------------------------------------------------------------
(* What a number stands for: the type, with numbers resolved.              *)
RECURSIVE Meaning(_), Substituted(_, _)
Meaning(id) ==
  LET key == IF id = 0 THEN None ELSE tables.types[id] IN
  IF "of" \notin DOMAIN key THEN key
  ELSE [field \in DOMAIN key \ {"type"} |->
          IF field = "of" THEN [j \in DOMAIN key.of |-> Meaning(key.of[j])] ELSE key[field]]
Meanings(ids) == [j \in DOMAIN ids |-> Meaning(ids[j])]

Substituted(type, arguments) ==
  IF type.k = "generic" THEN arguments[type.n]
  ELSE IF "of" \notin DOMAIN type THEN type
  ELSE [type EXCEPT !.of = [j \in DOMAIN @ |-> Substituted(@[j], arguments)]]

AllInstances == UNION {{f} \X DOMAIN instances[f] : f \in DOMAIN Functions}

(* Whatever an instance has become of what its function is made of is what *)
(* its type arguments make of it: types, and the instances it calls, with  *)
(* all that recursion and other modules had entered in between             *)
(* (monomizer.py:592-628, 866-877).                                        *)
InstancesFaithful ==
  \A at \in AllInstances :
    LET instance == instances[at[1]][at[2]]
        arguments == Meanings(instance.arguments)
    IN \A j \in DOMAIN instance.made :
         LET item == bodies[at[1]].items[j]
             made == instance.made[j]
         IN IF item.k = "type"
            THEN Meaning(made) = Substituted(item.type, arguments)
            ELSE /\ made.function = item.of
                 /\ phase = "done" => made.instance \in DOMAIN instances[item.of]
                 /\ made.instance \in DOMAIN instances[item.of] =>
                      \/ Extern(item.of)
                      \/ Meanings(instances[item.of][made.instance].arguments)
                           = [i \in DOMAIN item.arguments |->
                                Substituted(item.arguments[i], arguments)]

(* A custom type has the definition its own makes of its arguments, though *)
(* types share definitions and are known before they have one              *)
(* (monomizer.py:630-662).                                                 *)
DefinitionsFaithful ==
  \A id \in DOMAIN tables.types :
    LET key == tables.types[id] IN
    key.k = "custom" =>
      LET its == Definitions[key.definition]
          definition == tables.defs[key.type.module][key.type.index]
      IN /\ key.type # None /\ definition.kind = its.kind
         /\ Meanings(definition.parts)
              = [j \in DOMAIN its.parts |-> Substituted(its.parts[j], Meanings(key.of))]

(* No instance is entered twice, and none is left unmade                   *)
(* (monomizer.py:550, 913).                                                *)
NoAssertionFails == phase # "assertion failed"

(* Nor is one made within its own making, which would have no end: a       *)
(* module knows a type by one number, however it first came to it, and     *)
(* finds instances that are not made yet (monomizer.py:541-554, 617-628).  *)
MadeOnce ==
  /\ NoAssertionFails
  /\ \A i, j \in DOMAIN frames :
       /\ frames[i].function = frames[j].function
       /\ Meanings(frames[i].arguments) = Meanings(frames[j].arguments)
       => i = j
=============================================================================
