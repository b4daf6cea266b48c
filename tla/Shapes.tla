------------------------------- MODULE Shapes -------------------------------
(***************************************************************************)
(* Go types and values for the codecs that walk them with reflection       *)
(* (go-wire, go-amino, rlp), and a state machine that builds them.         *)
(*                                                                         *)
(* A type is a record whose k is the reflect.Kind: "ptr", "slice", "array" *)
(* and "map" have an element type e, "struct" has fields f, each with a    *)
(* type t and a flag that stands for its tag, "interface" has the concrete *)
(* type e of the values it is given.  The flag of a struct or an interface *)
(* says how the type is known to the codec.  A nil pointer or interface is *)
(* <<>> and another one <<v>>; strings, slices and arrays are sequences,   *)
(* and so are maps: the i-th key in order has value v[i].                  *)
(***************************************************************************)
EXTENDS Integers, Sequences, SequencesExt

CONSTANTS
    MaxNodes,       \* how many types an input is built from
    Leaves,         \* the values of the basic kinds: a function from kinds to sets
    Collections,    \* "slice", "array" and, for a codec that has them, "map"
    FieldFlags,     \* the tags a field of a struct may have
    StructFlags,    \* the flags of structs with one field
    InterfaceFlags  \* the flags of interfaces

VARIABLE in         \* the inputs: a stack of [t |-> type, v |-> value]

\* The zero value of a type.  The zero time is before 1970.
ZeroTime == -1
RECURSIVE Zero(_)
Zero(t) ==
    CASE t.k \in {"interface", "ptr", "slice", "map", "string", "number", "raw"} -> <<>>
      [] t.k = "array" -> [i \in 1 .. t.len |-> Zero(t.e)]
      [] t.k = "struct" -> [i \in 1 .. Len(t.f) |-> Zero(t.f[i].t)]
      [] t.k = "bool" -> FALSE
      [] t.k = "time" -> ZeroTime
      [] OTHER -> 0

\* The fields a codec sees: the exported ones without the json tag "-".
Fields(t) == SelectSeq([i \in 1 .. Len(t.f) |-> [i |-> i] @@ t.f[i]], LAMBDA x : x.flag # "skip")

Signed(t) == t.k \in {"int8", "int16", "int32", "int64", "int"}
OfBytes(t) == t.e.k = "uint8"

-----------------------------------------------------------------------------
Init == in = <<>>

Top(k) == SubSeq(in, Len(in) - k + 1, Len(in))
Under(k) == SubSeq(in, 1, Len(in) - k)

RECURSIVE Nodes(_)
Nodes(t) ==
    CASE t.k \in {"ptr", "slice", "array", "map", "interface"} -> 1 + Nodes(t.e)
      [] t.k = "struct" -> FoldLeft(LAMBDA a, f : a + Nodes(f.t), 1, t.f)
      [] OTHER -> 1
Size(st) == FoldLeft(LAMBDA a, x : a + Nodes(x.t), 0, st)

Basic == \E k \in DOMAIN Leaves : \E v \in Leaves[k] :
            /\ Len(in) < 2
            /\ Size(in) < MaxNodes
            /\ in' = Append(in, [t |-> [k |-> k], v |-> v])
Replace(k, t, v) == /\ in' = Append(Under(k), [t |-> t, v |-> v])
                    /\ Size(in') <= MaxNodes
\* Pointers to pointers and to interfaces are left out.
Pointer == /\ in # <<>>
           /\ Last(in).t.k \notin {"ptr", "interface"}
           /\ \E v \in {<<>>, <<Last(in).v>>} : Replace(1, [k |-> "ptr", e |-> Last(in).t], v)
Interface ==
    /\ in # <<>>
    /\ \E flag \in InterfaceFlags, v \in {<<>>, <<Last(in).v>>} :
          Replace(1, [k |-> "interface", flag |-> flag, e |-> Last(in).t], v)
Many == \E k \in 1 .. Len(in), kind \in Collections :
            LET vs == [i \in 1 .. k |-> Top(k)[i].v]
            IN  /\ \A i \in 1 .. k : Top(k)[i].t = Last(in).t
                /\ Replace(k, [k |-> kind, e |-> Last(in).t, len |-> k], vs)
Empty == /\ in # <<>>
         /\ Replace(1, [k |-> "slice", e |-> Last(in).t, len |-> 0], <<>>)
\* One field of a struct has a tag.
Struct == \E k \in 1 .. Len(in), x \in FieldFlags, flag \in StructFlags \cup {""} :
          \E p \in 1 .. k :
            /\ flag # "" => k = 1 /\ x = ""
            /\ Replace(k, [k |-> "struct", flag |-> flag,
                           f |-> [i \in 1 .. k |-> [t |-> Top(k)[i].t,
                                                    flag |-> IF i = p THEN x ELSE ""]]],
                       [i \in 1 .. k |-> Top(k)[i].v])

Next == Basic \/ Pointer \/ Interface \/ Many \/ Empty \/ Struct

=============================================================================
