------------------------------ MODULE AminoJSON ------------------------------
(***************************************************************************)
(* The JSON half of go-amino (json-encode.go, json-decode.go), for the     *)
(* types and values of module Shapes and the documents of module WireBase. *)
(* A registered type is wrapped in an object with its disfix.  A slice     *)
(* without elements is nil.  The keys of maps are strings, and of the      *)
(* types with methods of their own for JSON there is time.Time, whose text *)
(* is exact.                                                               *)
(***************************************************************************)
EXTENDS Amino

Base64 == 3000     \* base64 of encoding/json (external): byte b is Base64 + b
TimeText == 4000   \* RFC 3339 of package time (external)

Disfix(t) == Disamb(t) \o Prefix(t)
Wrapped(t, d) == [j |-> "obj", v |-> [type |-> Str(Disfix(t)), value |-> d]]

-----------------------------------------------------------------------------
(* json-encode.go *)

\* isEmpty, for omitempty: compared with the zero value of the field's own
\* type, so that what a pointer points to is empty only without elements.
isEmpty(t, v) ==
    IF IsPointer(t) THEN v = <<>> \/ (t.e.k \in {"slice", "string"} /\ v[1] = <<>>)
    ELSE v = Zero(t)

RECURSIVE encodeReflectJSON_(_, _, _)

encodeReflectJSON(v, t, o) ==
    LET w == encodeReflectJSON_(v, t, o)
    IN  IF Registered(Deref(t)) THEN [w EXCEPT !.d = Wrapped(Deref(t), @)] ELSE w

encodeReflectJSONInterface(v, t, o) ==
    LET c == Deref(t.e)
        nilptr == IsPointer(t.e) /\ v[1] = <<>>
        w == encodeReflectJSON_(DerefValue(v[1], t.e), c, o)
    IN  CASE v = <<>> -> Tree(Null)
          [] v # <<>> /\ nilptr -> NoTree("panic")
          [] v # <<>> /\ ~nilptr /\ ~(HasInfo(c) /\ Registered(c)) -> NoTree("unregistered concrete type")
          [] OTHER -> [w EXCEPT !.d = Wrapped(c, @)]

\* An element or a field: a nil pointer is null without a wrapper.
EncodePart(v, t, o) ==
    IF IsPointer(t) /\ v = <<>> THEN Tree(Null) ELSE encodeReflectJSON(DerefValue(v, t), Deref(t), o)

encodeReflectJSONList(v, t, o) ==
    LET ws == [i \in 1 .. Len(v) |-> EncodePart(v[i], t.e, o)]
    IN  CASE t.k = "slice" /\ v = <<>> -> Tree(Null)
          [] OfBytes(t) /\ v # <<>> -> Tree(Str([i \in 1 .. Len(v) |-> Base64 + v[i]]))
          [] ~HasInfo(t.e) /\ v # <<>> -> NoTree("Unregistered interface")
          [] OTHER -> [d |-> Arr([i \in 1 .. Len(v) |-> ws[i].d]), err |-> ErrOf(ws)]

encodeReflectJSONMap(v, t, o) ==
    LET ws == [i \in 1 .. Len(v) |-> EncodePart(v[i], t.e, o)]
    IN  IF ~HasInfo(t.e) /\ v # <<>> THEN NoTree("Unregistered interface")
        ELSE [d |-> [j |-> "obj", v |-> [i \in 1 .. Len(v) |-> ws[i].d]], err |-> ErrOf(ws)]

encodeReflectJSONStruct(v, t) ==
    LET fs == SelectSeq(Fields(t), LAMBDA x : ~(x.flag = "omit" /\ isEmpty(x.t, v[x.i])))
        ws == [j \in 1 .. Len(fs) |-> EncodePart(v[fs[j].i], fs[j].t, fs[j].flag)]
        At(i) == CHOOSE j \in 1 .. Len(fs) : fs[j].i = i
    IN  IF \E j \in 1 .. Len(Fields(t)) : ~HasInfo(Fields(t)[j].t) THEN NoTree("Unregistered interface")
        ELSE [d |-> [j |-> "obj", v |-> [i \in {fs[j].i : j \in 1 .. Len(fs)} |-> ws[At(i)].d]],
              err |-> ErrOf(ws)]

encodeReflectJSON_(v, t, o) ==
    CASE t.k = "ptr" -> IF v = <<>> THEN Tree(Null) ELSE encodeReflectJSON_(v[1], t.e, o)
      [] t.k = "time" -> Tree(Str(<<TimeText + v>>))
      [] t.k = "interface" -> encodeReflectJSONInterface(v, t, o)
      [] t.k \in {"array", "slice"} -> encodeReflectJSONList(v, t, o)
      [] t.k = "struct" -> encodeReflectJSONStruct(v, t)
      [] t.k = "map" -> encodeReflectJSONMap(v, t, o)
      [] t.k = "bool" -> Tree([j |-> "bool", v |-> v])
      [] t.k = "string" -> Tree(Str(v))
      [] t.k = "float" -> IF o = "unsafe" THEN Tree(Num(v)) ELSE NoTree("unsafe")
      [] OTHER -> Tree(Num(v))

\* MarshalJSON gets what is in an interface.
MarshalJSON(v, t) ==
    IF t.k = "interface" THEN IF v = <<>> THEN Tree(Null) ELSE encodeReflectJSON(v[1], t.e, "")
    ELSE IF HasInfo(t) THEN encodeReflectJSON(v, t, "") ELSE NoTree("Unregistered interface")

-----------------------------------------------------------------------------
(* json-decode.go: a document into a zero value. *)

Decoded(v) == [v |-> v, err |-> NoErr]
NotDecoded(t, e) == [v |-> Zero(t), err |-> e]

RECURSIVE decodeReflectJSON_(_, _, _)

\* decodeDisfixJSON: the error, if any.
DisfixError(d, c) ==
    CASE d.j = "null" -> "panic"
      [] d.j \notin {"null", "obj"} -> "Cannot parse disfix JSON wrapper"
      [] d.j = "obj" /\ ~({"type", "value"} \subseteq DOMAIN d.v) -> "disfix or value missing"
      [] OTHER -> IF d.v.type.v # Disfix(c) THEN "disfix" ELSE NoErr

decodeReflectJSON(t, o, d) ==
    LET e == DisfixError(d, Deref(t))
    IN  IF ~Registered(Deref(t)) THEN decodeReflectJSON_(t, o, d)
        ELSE IF e # NoErr THEN NotDecoded(t, e) ELSE decodeReflectJSON_(t, o, d.v.value)

decodeReflectJSONInterface(t, o, d) ==
    LET c == Deref(t.e)
        e == IF Registered(c) THEN DisfixError(d, c) ELSE "unrecognized"
        r == decodeReflectJSON_(c, o, d.v.value)
    IN  IF e # NoErr THEN NotDecoded(t, e)
        ELSE [r EXCEPT !.v = <<IF IsPointer(t.e) THEN <<@>> ELSE @>>]

decodeReflectJSONList(t, o, d) ==
    LET rs == [i \in 1 .. Len(d.v) |-> decodeReflectJSON(t.e, o, d.v[i])]
        wrong == t.k = "array" /\ Len(d.v) # t.len
    IN  CASE ~HasInfo(t.e) -> NotDecoded(t, "Unregistered interface")
          [] HasInfo(t.e) /\ OfBytes(t) ->
                IF d.j # "str" \/ wrong THEN NotDecoded(t, "bytes")
                ELSE Decoded([i \in 1 .. Len(d.v) |-> d.v[i] - Base64])
          [] HasInfo(t.e) /\ ~OfBytes(t) /\ (d.j # "arr" \/ wrong) -> NotDecoded(t, "length mismatch")
          [] OTHER -> [v |-> [i \in 1 .. Len(d.v) |-> rs[i].v], err |-> ErrOf(rs)]

decodeReflectJSONMap(t, o, d) ==
    LET rs == [i \in DOMAIN d.v |-> decodeReflectJSON(t.e, o, d.v[i])]
    IN  CASE d.j \notin {"obj", "null"} -> NotDecoded(t, "json")
          [] d.j \in {"obj", "null"} /\ ~HasInfo(t.e) -> NotDecoded(t, "Unregistered interface")
          [] OTHER -> IF d.j = "null" THEN Decoded(<<>>)
                      ELSE [v |-> [i \in DOMAIN d.v |-> rs[i].v], err |-> ErrOf(rs)]

\* Mutant: a field that is not in the document is an error.
decodeReflectJSONStruct_AllRequired(t, o, d) ==
    LET fs == Fields(t)
        rs == [j \in 1 .. Len(fs) |-> decodeReflectJSON(fs[j].t, o, d.v[fs[j].i])]
    IN  IF d.j # "obj" \/ \E j \in 1 .. Len(fs) : fs[j].i \notin DOMAIN d.v THEN NotDecoded(t, "missing")
        ELSE [v |-> [i \in 1 .. Len(t.f) |-> IF \E j \in 1 .. Len(fs) : fs[j].i = i
                                             THEN rs[CHOOSE j \in 1 .. Len(fs) : fs[j].i = i].v
                                             ELSE Zero(t.f[i].t)],
              err |-> ErrOf(rs)]

\* The fields get the options of the struct, not their own.
decodeReflectJSONStruct(t, o, d) ==
    LET fs == Fields(t)
        Field(x) == IF d.j = "obj" /\ x.i \in DOMAIN d.v THEN decodeReflectJSON(x.t, o, d.v[x.i]) ELSE Decoded(Zero(x.t))
        rs == [j \in 1 .. Len(fs) |-> Field(fs[j])]
        At(i) == {j \in 1 .. Len(fs) : fs[j].i = i}
    IN  CASE d.j \notin {"obj", "null"} -> NotDecoded(t, "json")
          [] d.j \in {"obj", "null"} /\ (\E j \in 1 .. Len(fs) : ~HasInfo(fs[j].t)) ->
                NotDecoded(t, "Unregistered interface")
          [] OTHER -> [v |-> [i \in 1 .. Len(t.f) |-> IF At(i) = {} THEN Zero(t.f[i].t)
                                                      ELSE rs[CHOOSE j \in At(i) : TRUE].v],
                       err |-> ErrOf(rs)]

\* encoding/json leaves a value alone for null.
StdlibJSONUnmarshal(t, j, d) ==
    CASE d.j = "null" -> Decoded(Zero(t))
      [] d.j = j -> Decoded(IF t.k = "time" THEN d.v[1] - TimeText ELSE d.v)
      [] OTHER -> NotDecoded(t, "json")

decodeReflectJSON_(t, o, d) ==
    CASE d.j = "null" /\ t.k \in {"ptr", "interface", "slice", "array"} -> Decoded(Zero(t))
      [] t.k = "ptr" /\ d.j # "null" -> LET r == decodeReflectJSON_(t.e, o, d) IN [r EXCEPT !.v = <<@>>]
      [] t.k = "interface" /\ d.j # "null" -> decodeReflectJSONInterface(t, o, d)
      [] t.k \in {"array", "slice"} /\ d.j # "null" -> decodeReflectJSONList(t, o, d)
      [] t.k = "struct" -> decodeReflectJSONStruct(t, o, d)
      [] t.k = "map" -> decodeReflectJSONMap(t, o, d)
      [] t.k = "float" /\ o # "unsafe" -> NotDecoded(t, "unsafe")
      [] t.k = "bool" -> StdlibJSONUnmarshal(t, "bool", d)
      [] t.k \in {"time", "string"} -> StdlibJSONUnmarshal(t, "str", d)
      [] OTHER -> StdlibJSONUnmarshal(t, "num", d)

UnmarshalJSON(t, d) ==
    IF HasInfo(t) THEN decodeReflectJSON(t, "", d) ELSE NotDecoded(t, "Unregistered interface")

-----------------------------------------------------------------------------
\* What a value is after a round trip: skipped fields are zero; a pointer to
\* what is written as null, or left out for omitempty, is nil.
RECURSIVE KeptJSON(_, _)
KeptJSON(t, v) ==
    CASE t.k = "ptr" /\ v # <<>> ->
            IF t.e.k = "slice" /\ v[1] = <<>> THEN <<>> ELSE <<KeptJSON(t.e, v[1])>>
      [] t.k = "interface" /\ v # <<>> ->
            <<IF IsPointer(t.e) THEN <<KeptJSON(t.e.e, v[1][1])>> ELSE KeptJSON(t.e, v[1])>>
      [] t.k \in {"slice", "array", "map"} -> [i \in 1 .. Len(v) |-> KeptJSON(t.e, v[i])]
      [] t.k = "struct" ->
            [i \in 1 .. Len(v) |->
                IF t.f[i].flag = "skip" \/ (t.f[i].flag = "omit" /\ isEmpty(t.f[i].t, v[i]))
                THEN Zero(t.f[i].t) ELSE KeptJSON(t.f[i].t, v[i])]
      [] OTHER -> v

\* The values whose document cannot be read back: a float, for the decoder
\* never sees the tag "unsafe" of its field, and, inside another value, a nil
\* pointer to a registered type, for null has no disfix.
RECURSIVE Unreadable(_, _)
Unreadable(t, v) ==
    CASE t.k = "float" -> TRUE
      [] t.k = "ptr" -> v # <<>> /\ Unreadable(t.e, v[1])
      [] t.k = "interface" -> v # <<>> /\ Unreadable(Deref(t.e), DerefValue(v[1], t.e))
      [] t.k \in {"slice", "array", "map"} ->
            \E i \in 1 .. Len(v) : \/ Unreadable(t.e, v[i])
                                   \/ IsPointer(t.e) /\ Registered(t.e.e) /\ v[i] = <<>>
      [] t.k = "struct" ->
            \E i \in 1 .. Len(v) :
                /\ t.f[i].flag # "skip"
                /\ ~(t.f[i].flag = "omit" /\ isEmpty(t.f[i].t, v[i]))
                /\ \/ Unreadable(t.f[i].t, v[i])
                   \/ IsPointer(t.f[i].t) /\ Registered(t.f[i].t.e) /\ v[i] = <<>>
      [] OTHER -> FALSE

\* What MarshalJSON writes is read back as the same value by UnmarshalJSON,
\* but for skipped fields and pointers to nil, unless it has a part that
\* cannot be read back, in which case UnmarshalJSON does say so.
AminoJSONRoundTrip ==
    in # <<>> =>
        LET t == Last(in).t
            v == Last(in).v
            w == MarshalJSON(v, t)
            r == UnmarshalJSON(t, w.d)
        IN  w.err = NoErr /\ Known(t) /\ (t.k = "interface" /\ v # <<>> => Registered(Deref(t.e))) =>
                IF Unreadable(t, v) THEN r.err # NoErr
                ELSE r.err = NoErr /\ r.v = KeptJSON(t, v)

RECURSIVE HasMap(_)
HasMap(t) == \/ t.k = "map"
             \/ t.k \in {"ptr", "slice", "array", "interface"} /\ HasMap(t.e)
             \/ t.k = "struct" /\ \E i \in 1 .. Len(t.f) : HasMap(t.f[i].t)

\* What the binary codec takes the JSON codec takes, and the other way round,
\* but for maps, which the binary codec does not have.
AminoSameRefusals ==
    in # <<>> =>
        LET t == Last(in).t IN
        Marshals(Last(in).v, t) /\ ~HasMap(t) =>
            ((MarshalBinaryBare(Last(in).v, t).err = NoErr) <=> (MarshalJSON(Last(in).v, t).err = NoErr))

\* Everything that MarshalJSON writes is read back without an error.
AminoJSONReadable ==
    in # <<>> =>
        LET w == MarshalJSON(Last(in).v, Last(in).t)
        IN  w.err = NoErr /\ Marshals(Last(in).v, Last(in).t) => UnmarshalJSON(Last(in).t, w.d).err = NoErr
=============================================================================
