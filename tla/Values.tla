-------------------------------- MODULE Values --------------------------------
(***************************************************************************)
(* The values decodeState builds, and the types of its targets.  A target  *)
(* without methods of its own is any, a string, a slice, an array, a map   *)
(* with string keys or a struct.                                           *)
(***************************************************************************)

Nil        == <<"nil">>
Text(b)    == <<"str", b>>
Number(b)  == <<"num", b>>
List(q)    == <<"list", q>>
Mapping(f) == <<"map", f>>

AnyType       == <<"any">>
StringType    == <<"string">>
SliceOf(t)    == <<"slice", t>>
ArrayOf(t, n) == <<"array", t, n>>
MapOf(t)      == <<"mapping", t>>
StructOf(fs)  == <<"struct", fs>>   \* fs: from names of fields to types
Invalid       == <<"invalid">>      \* reflect.Value{}
Kind(t)       == t[1]
Kinds         == {"any", "string", "slice", "array", "mapping", "struct", "invalid"}

ConcreteType(val) ==
  CASE val[1] = "nil"  -> Invalid
    [] val[1] = "str"  -> StringType
    [] val[1] = "num"  -> <<"number">>
    [] val[1] = "list" -> SliceOf(AnyType)
    [] val[1] = "map"  -> MapOf(AnyType)

\* An assignment to an element of a Go map
Put(f, key, val) == [k \in DOMAIN f \cup {key} |-> IF k = key THEN val ELSE f[k]]
===============================================================================
