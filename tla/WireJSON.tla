------------------------------ MODULE WireJSON ------------------------------
(***************************************************************************)
(* The JSON half of go-wire (tendermint/go-wire/reflect.go): what          *)
(* writeReflectJSON writes and readReflectJSON reads back, for the values  *)
(* of module Wire.                                                         *)
(*                                                                         *)
(* A string is a sequence of characters, which are numbers: a hexadecimal  *)
(* digit d is HexBase + d and the millisecond t of a time is TimeBase + t. *)
(* Field i of a struct has the JSONName i.                                 *)
(***************************************************************************)
EXTENDS Wire

HexBase == 1000
TimeBase == 2000

Hex(b) == [i \in 1 .. 2 * Len(b) |->
              HexBase + (IF i % 2 = 1 THEN b[(i + 1) \div 2] \div 16 ELSE b[i \div 2] % 16)]
IsHex(s) == Len(s) % 2 = 0 /\ \A i \in 1 .. Len(s) : s[i] - HexBase \in 0 .. 15
DecodeHex(s) == [i \in 1 .. Len(s) \div 2 |-> 16 * (s[2 * i - 1] - HexBase) + s[2 * i] - HexBase]

-----------------------------------------------------------------------------
(* isEmpty: a comparable value that is the zero value of its type, a       *)
(* struct of empty fields, or a slice without elements.                    *)

RECURSIVE Comparable(_)
Comparable(t) ==
    CASE t.k = "slice" -> FALSE
      [] t.k = "array" -> Comparable(t.e)
      [] t.k = "struct" -> \A i \in 1 .. Len(t.f) : Comparable(t.f[i].t)
      [] OTHER -> TRUE

RECURSIVE isEmpty(_, _)

EmptyFields(t, v) == \A j \in 1 .. Len(Fields(t)) : isEmpty(Fields(t)[j].t, v[Fields(t)[j].i])

isEmpty(t, v) ==
    CASE Comparable(t) -> v = Zero(t)
      [] ~Comparable(t) /\ t.k = "struct" -> EmptyFields(t, v)
      [] OTHER -> Len(v) = 0

-----------------------------------------------------------------------------
(* writeReflectJSON.                                                       *)

RECURSIVE writeReflectJSON(_, _, _)

WriteInterfaceJSON(v, t, o) ==
    LET w == writeReflectJSON(ConcreteValue(v, t), Concrete(t), o)
    IN  CASE v = <<>> -> Tree(Null)
          [] v # <<>> /\ t.flag = "unregistered" -> writeReflectJSON(v[1], t.e, o)
          [] v # <<>> /\ t.flag = "other" -> NoTree("Unexpected type")
          [] v # <<>> /\ t.flag = "registered" /\ IsPtr(t) /\ v[1] = <<>> -> NoTree("nil-pointer")
          [] OTHER -> [d |-> Arr(<<Num(TypeByte), w.d>>), err |-> w.err]

WriteElemsJSON(v, t, o) ==
    LET ws == [i \in 1 .. Len(v) |-> writeReflectJSON(v[i], t.e, o)]
    IN  IF OfBytes(t) THEN Tree(Str(Hex(v)))
        ELSE [d |-> Arr([i \in 1 .. Len(v) |-> ws[i].d]), err |-> ErrOf(ws)]

Unwrap(t) == t.flag = "unwrap"

\* An unwrapped struct is its only field; an empty field that says
\* omitempty is left out.
WriteStructJSON(v, t) ==
    LET fs == SelectSeq(Fields(t), LAMBDA x : ~(x.flag = "omit" /\ isEmpty(x.t, v[x.i])))
        ws == [j \in 1 .. Len(fs) |-> writeReflectJSON(v[fs[j].i], fs[j].t, fs[j].flag)]
        At(i) == CHOOSE j \in 1 .. Len(fs) : fs[j].i = i
    IN  IF Unwrap(t) THEN writeReflectJSON(v[Fields(t)[1].i], Fields(t)[1].t, Fields(t)[1].flag)
        ELSE [d |-> [j |-> "obj", v |-> [i \in {fs[j].i : j \in 1 .. Len(fs)} |-> ws[At(i)].d]],
              err |-> ErrOf(ws)]

writeReflectJSON(v, t, o) ==
    CASE t.k = "interface" -> WriteInterfaceJSON(v, t, o)
      [] t.k = "ptr" -> IF v = <<>> THEN Tree(Null) ELSE writeReflectJSON(v[1], t.e, o)
      [] t.k \in {"array", "slice"} -> WriteElemsJSON(v, t, o)
      [] t.k = "struct" -> WriteStructJSON(v, t)
      [] t.k = "time" -> Tree(Str(<<TimeBase + v \div Milli>>))
      [] t.k = "string" -> Tree(Str(v))
      [] IsNumber(t) -> Tree(Num(v))
      [] t.k = "bool" -> Tree([j |-> "bool", v |-> v])
      [] t.k = "float" -> IF o = "unsafe" THEN Tree(Num(v)) ELSE NoTree("unsafe")

-----------------------------------------------------------------------------
(* readReflectJSON of a tree into a zero value.                            *)

Read(v) == [v |-> v, err |-> NoErr]
NotRead(t, e) == [v |-> Zero(t), err |-> e]

RECURSIVE readReflectJSON(_, _, _)

\* readByteJSON: the type byte and the rest.
IsByteJSON(d) == d.j = "arr" /\ Len(d.v) = 2

ReadInterfaceJSON(t, o, d) ==
    LET r == readReflectJSON(Concrete(t), o, d.v[2])
    IN  CASE t.flag = "unregistered" -> NotRead(t, "unregistered")
          [] t.flag # "unregistered" /\ d.j = "null" -> Read(<<>>)
          [] t.flag # "unregistered" /\ d.j # "null" /\ ~IsByteJSON(d) -> NotRead(t, "Expected [Byte,?]")
          [] t.flag = "registered" /\ IsByteJSON(d) /\ d.v[1].v = TypeByte ->
                [r EXCEPT !.v = <<IF IsPtr(t) THEN <<@>> ELSE @>>]
          [] OTHER -> NotRead(t, "not registered")

ReadBytesJSON(t, d) ==
    CASE d.j # "str" -> NotRead(t, "Expected string")
      [] d.j = "str" /\ ~IsHex(d.v) -> NotRead(t, "hex")
      [] d.j = "str" /\ IsHex(d.v) /\ t.k = "array" /\ Len(d.v) # 2 * t.len -> NotRead(t, "length")
      [] OTHER -> Read(DecodeHex(d.v))

ReadElemsJSON(t, o, d) ==
    LET rs == [i \in 1 .. Len(d.v) |-> readReflectJSON(t.e, o, d.v[i])]
    IN  CASE OfBytes(t) -> ReadBytesJSON(t, d)
          [] ~OfBytes(t) /\ d.j # "arr" -> NotRead(t, "Expected array")
          [] ~OfBytes(t) /\ d.j = "arr" /\ t.k = "array" /\ Len(d.v) # t.len -> NotRead(t, "length")
          [] OTHER -> [v |-> [i \in 1 .. Len(d.v) |-> rs[i].v], err |-> ErrOf(rs)]

\* A missing field keeps its zero value.
ReadStructJSON(t, d) ==
    LET fs == Fields(t)
        x == fs[1]
        Present == SelectSeq(fs, LAMBDA y : y.i \in DOMAIN d.v)
        rs == [j \in 1 .. Len(Present) |->
                  readReflectJSON(Present[j].t, Present[j].flag, d.v[Present[j].i])]
        At(i) == {j \in 1 .. Len(Present) : Present[j].i = i}
        only == readReflectJSON(x.t, x.flag, d)
    IN  CASE Unwrap(t) -> [only EXCEPT !.v = [Zero(t) EXCEPT ![x.i] = only.v]]
          [] ~Unwrap(t) /\ d.j # "obj" -> NotRead(t, "Expected map")
          [] OTHER -> [v |-> [i \in 1 .. Len(t.f) |-> IF At(i) = {} THEN Zero(t.f[i].t)
                                                      ELSE rs[CHOOSE j \in At(i) : TRUE].v],
                       err |-> ErrOf(rs)]

ReadTimeJSON(t, d) ==
    IF d.j # "str" THEN NotRead(t, "Expected string")
    ELSE IF Len(d.v) # 1 \/ d.v[1] < TimeBase THEN NotRead(t, "time")
    ELSE Read((d.v[1] - TimeBase) * Milli)

ReadNumberJSON(t, d) ==
    CASE d.j # "num" -> NotRead(t, "Expected numeric")
      [] d.j = "num" /\ d.v < 0 /\ ~Signed(t) /\ t.k # "float" -> NotRead(t, "Expected unsigned")
      [] OTHER -> Read(d.v)

readReflectJSON(t, o, d) ==
    CASE t.k = "interface" -> ReadInterfaceJSON(t, o, d)
      [] t.k = "ptr" -> IF d.j = "null" THEN Read(<<>>)
                        ELSE LET r == readReflectJSON(t.e, o, d) IN [r EXCEPT !.v = <<@>>]
      [] t.k \in {"array", "slice"} -> ReadElemsJSON(t, o, d)
      [] t.k = "struct" -> ReadStructJSON(t, d)
      [] t.k = "time" -> ReadTimeJSON(t, d)
      [] t.k = "string" -> IF d.j = "str" THEN Read(d.v) ELSE NotRead(t, "Expected string")
      [] IsNumber(t) -> ReadNumberJSON(t, d)
      [] t.k = "bool" -> IF d.j = "bool" THEN Read(d.v) ELSE NotRead(t, "Expected boolean")
      [] t.k = "float" -> IF o = "unsafe" THEN ReadNumberJSON(t, d) ELSE NotRead(t, "unsafe")

\* WriteJSON and ReadJSONPtr.  WriteJSON looks through a pointer, ReadJSONPtr
\* is given one.
WriteJSON(v, t) == writeReflectJSON(v, t, NoOpts)
ReadJSON(t, d) == readReflectJSON(t, NoOpts, d)

-----------------------------------------------------------------------------
\* A pointer to what is written as null is read as a nil pointer.
RECURSIVE KeptJSON(_, _)
KeptJSON(t, v) ==
    CASE t.k = "ptr" /\ v # <<>> ->
            IF writeReflectJSON(v[1], t.e, "unsafe").d = Null THEN <<>>
            ELSE <<KeptJSON(t.e, v[1])>>
      [] t.k = "interface" /\ v # <<>> ->
            <<IF IsPtr(t) THEN <<KeptJSON(t.e.e, v[1][1])>> ELSE KeptJSON(t.e, v[1])>>
      [] t.k \in {"slice", "array"} -> [i \in 1 .. Len(v) |-> KeptJSON(t.e, v[i])]
      [] t.k = "struct" -> [i \in 1 .. Len(v) |-> IF t.f[i].flag = "skip" THEN Zero(t.f[i].t)
                                                  ELSE KeptJSON(t.f[i].t, v[i])]
      [] OTHER -> Kept(t, v)

\* What writeReflectJSON writes without an error is read back by
\* readReflectJSON as the same value, but for skipped fields, the
\* milliseconds of a time and pointers to nil: a field left out for
\* omitempty, an unwrapped struct and an interface come back as they were.
JSONRoundTrip ==
    in # <<>> =>
        LET t == Last(in).t
            w == WriteJSON(Last(in).v, t)
            r == ReadJSON(t, w.d)
        IN  w.err = NoErr /\ Readable(t) => r.err = NoErr /\ r.v = KeptJSON(t, Last(in).v)

\* The binary and the JSON codec refuse the same values.
SameRefusals ==
    in # <<>> => ((WriteBinary(Last(in).v, Last(in).t).err = NoErr) <=>
                  (WriteJSON(Last(in).v, Last(in).t).err = NoErr))

=============================================================================
