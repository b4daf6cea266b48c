-------------------------------- MODULE Amino --------------------------------
(***************************************************************************)
(* The go-amino binary codec (tendermint/go-amino): encodeReflectBinary    *)
(* and decodeReflectBinary for the types and values of module Shapes.      *)
(*                                                                         *)
(* A struct with the flag "registered" was given to RegisterConcrete.  An  *)
(* interface is "registered", registered with "disambiguate"               *)
(* (AlwaysDisambiguate), or "unregistered".  The prefix and disambiguation *)
(* bytes are from a hash of the registered name (external): here they only *)
(* tell types of different sizes apart.  Types with MarshalAmino are not   *)
(* modelled.                                                               *)
(***************************************************************************)
EXTENDS Shapes, WireBase

CONSTANT Second     \* the nanoseconds in a second, 10^9 in the code

\* The three bits that tell how a value is laid out, and the pointer bit.
Typ3 == [Varint |-> 0, Byte8 |-> 1, ByteLength |-> 2, Struct |-> 3, StructTerm |-> 4, Byte4 |-> 5,
         List |-> 6, Interface |-> 7]
Typ4_Pointer == 8

IsPointer(t) == t.k = "ptr"
Deref(t) == IF t.k = "ptr" THEN t.e ELSE t

typeToTyp3(t, o) ==
    CASE t.k = "interface" -> Typ3.Interface
      [] t.k \in {"array", "slice"} -> IF OfBytes(t) THEN Typ3.ByteLength ELSE Typ3.List
      [] t.k = "string" -> Typ3.ByteLength
      [] t.k \in {"struct", "map", "time"} -> Typ3.Struct
      [] t.k \in {"int64", "uint64"} -> IF o = "varint" THEN Typ3.Varint ELSE Typ3.Byte8
      [] t.k = "float" -> Typ3.Byte8
      [] t.k \in {"int32", "uint32"} -> Typ3.Byte4
      [] OTHER -> Typ3.Varint
typeToTyp4(t, o) == typeToTyp3(Deref(t), o) + (IF IsPointer(t) THEN Typ4_Pointer ELSE 0)

Registered(t) == t.k = "struct" /\ t.flag = "registered"
Prefix(t) == <<16, Nodes(t), 7, 8>>
Disamb(t) == <<9, Nodes(t), 9>>
WithTyp3(pb, typ) == [pb EXCEPT ![4] = @ + typ]

\* getTypeInfo_wlock: an interface must be registered, other types need not.
HasInfo(t) == ~(Deref(t).k = "interface" /\ Deref(t).flag = "unregistered")

-----------------------------------------------------------------------------
(* Encoding of the basic kinds (encoder.go).  PutUvarint and PutVarint of  *)
(* encoding/binary: groups of seven bits, the least significant first, and *)
(* the sign in the lowest bit.                                             *)

RECURSIVE EncodeUvarint(_)
EncodeUvarint(u) == IF u < 128 THEN <<u>> ELSE <<128 + (u % 128)>> \o EncodeUvarint(u \div 128)
EncodeVarint(i) == EncodeUvarint(IF i < 0 THEN -2 * i - 1 ELSE 2 * i)

FieldKey(num, typ) == EncodeUvarint(8 * num + typ)
EncodeTime(v) ==
    FieldKey(1, Typ3.Byte8) \o BigEndian(v \div Second, IntBytes) \o
    FieldKey(2, Typ3.Byte4) \o BigEndian(v % Second, 4) \o <<Typ3.StructTerm>>
EncodeByteSlice(bz) == EncodeUvarint(Len(bz)) \o bz

EncodeNumber(v, t, o) ==
    CASE typeToTyp3(t, o) = Typ3.Byte8 -> BigEndian(v, IntBytes)
      [] typeToTyp3(t, o) = Typ3.Byte4 -> BigEndian(v, 4)
      [] OTHER -> IF Signed(t) THEN EncodeVarint(v) ELSE EncodeUvarint(v)

-----------------------------------------------------------------------------
(* Encoding (binary-encode.go): the bytes or the error, which may be a     *)
(* panic.                                                                  *)

Wrote(b) == [b |-> b, err |-> NoErr]
Cannot(e) == [b |-> <<>>, err |-> e]
Then(a, b) == IF a.err # NoErr THEN a ELSE [b |-> a.b \o b.b, err |-> b.err]
All(ws) == FoldLeft(Then, Wrote(<<>>), ws)

\* Nil or empty behind a pointer, if there is one: such fields and list
\* elements are as good as nil.
isVoid(v, t) ==
    IF IsPointer(t) THEN v = <<>> \/ (t.e.k \in {"string", "slice", "map"} /\ v[1] = <<>>)
    ELSE t.k \in {"string", "slice", "map", "interface"} /\ v = <<>>
DerefValue(v, t) == IF IsPointer(t) THEN v[1] ELSE v

RECURSIVE encodeReflectBinary(_, _, _), encodeReflectBinary_(_, _, _)

encodeReflectBinaryInterface(v, t, o) ==
    LET c == Deref(t.e)
        nilptr == IsPointer(t.e) /\ v[1] = <<>>
    IN  CASE v = <<>> -> Wrote(<<0, 0>>)
          [] v # <<>> /\ nilptr -> Cannot("panic")
          [] v # <<>> /\ ~nilptr /\ ~(HasInfo(c) /\ Registered(c)) -> Cannot("unregistered concrete type")
          [] OTHER -> Then(Wrote((IF t.flag = "disambiguate" THEN <<0>> \o Disamb(c) ELSE <<>>)
                                 \o WithTyp3(Prefix(c), typeToTyp3(c, o))),
                           encodeReflectBinary_(DerefValue(v[1], t.e), c, o))

EncodeElem(v, t, o) ==
    CASE IsPointer(t) /\ isVoid(v, t) -> Wrote(<<1>>)
      [] IsPointer(t) /\ ~isVoid(v, t) -> Then(Wrote(<<0>>), encodeReflectBinary(v[1], t.e, o))
      [] OTHER -> encodeReflectBinary(v, t, o)

encodeReflectBinaryList(v, t, o) ==
    IF ~HasInfo(t.e) THEN Cannot("Unregistered interface")
    ELSE Then(Wrote(<<typeToTyp4(t.e, o)>> \o EncodeUvarint(Len(v))),
              All([i \in 1 .. Len(v) |-> EncodeElem(v[i], t.e, o)]))

\* Fields are numbered from 1 in the order of the struct; void ones are
\* left out.
\* Mutant: a field that is left out does not count.
encodeReflectBinaryStruct_Renumbered(v, t) ==
    LET fs == SelectSeq(Fields(t), LAMBDA x : ~isVoid(v[x.i], x.t))
        Field(j) == LET x == fs[j] IN
            Then(Wrote(FieldKey(j, typeToTyp3(Deref(x.t), x.flag))),
                 encodeReflectBinary(DerefValue(v[x.i], x.t), Deref(x.t), x.flag))
    IN  Then(All([j \in 1 .. Len(fs) |-> Field(j)]), Wrote(<<Typ3.StructTerm>>))

encodeReflectBinaryStruct(v, t) ==
    LET fs == Fields(t)
        Field(j) == LET x == fs[j] IN
            IF isVoid(v[x.i], x.t) THEN Wrote(<<>>)
            ELSE IF ~HasInfo(x.t) THEN Cannot("Unregistered interface")
            ELSE Then(Wrote(FieldKey(j, typeToTyp3(Deref(x.t), x.flag))),
                      encodeReflectBinary(DerefValue(v[x.i], x.t), Deref(x.t), x.flag))
    IN  Then(All([j \in 1 .. Len(fs) |-> Field(j)]), Wrote(<<Typ3.StructTerm>>))

encodeReflectBinary_(v, t, o) ==
    CASE t.k = "interface" -> encodeReflectBinaryInterface(v, t, o)
      [] t.k \in {"array", "slice"} -> IF OfBytes(t) THEN Wrote(EncodeByteSlice(v))
                                       ELSE encodeReflectBinaryList(v, t, o)
      [] t.k = "struct" -> encodeReflectBinaryStruct(v, t)
      [] t.k = "map" -> Cannot("panic")
      [] t.k = "time" -> Wrote(EncodeTime(v))
      [] t.k = "string" -> Wrote(EncodeByteSlice(v))
      [] t.k = "bool" -> Wrote(<<IF v THEN 1 ELSE 0>>)
      [] t.k = "float" -> IF o = "unsafe" THEN Wrote(BigEndian(v, IntBytes)) ELSE Cannot("unsafe")
      [] OTHER -> Wrote(EncodeNumber(v, t, o))

encodeReflectBinary(v, t, o) ==
    Then(Wrote(IF Registered(t) THEN WithTyp3(Prefix(t), typeToTyp3(t, o)) ELSE <<>>),
         encodeReflectBinary_(v, t, o))

\* MarshalBinaryBare gets the value behind pointers and interfaces.
RECURSIVE MarshalBinaryBare(_, _)
MarshalBinaryBare(v, t) ==
    IF t.k \in {"ptr", "interface"}
    THEN IF v = <<>> THEN Cannot("panic") ELSE MarshalBinaryBare(v[1], t.e)
    ELSE encodeReflectBinary(v, t, "")

MarshalBinary(v, t) ==
    LET w == MarshalBinaryBare(v, t) IN [w EXCEPT !.b = EncodeUvarint(Len(w.b)) \o w.b]

-----------------------------------------------------------------------------
(* Decoding of the basic kinds (decoder.go).  A reader (module WireBase)   *)
(* also notes whether a varint was cut off.                                *)

Bytes(b) == [cut |-> FALSE] @@ Reader(b)
Left(s) == Len(s.b) - s.n
Took(s, k, v) == [s EXCEPT !.n = @ + k, !.v = v]
Then2(s, Do(_)) == IF s.err # NoErr THEN s ELSE Do(s)

\* Uvarint of encoding/binary (external): the number and how many bytes it
\* has, 0 if they end too early, -1 if it does not fit.
Groups == (8 * IntBytes + 6) \div 7
Uvarint(s) ==
    LET At(j) == s.b[s.n + j]
        Ends == {j \in 1 .. Left(s) : At(j) < 128}
        k == CHOOSE j \in Ends : \A i \in Ends : j <= i
        u == FoldLeft(LAMBDA a, j : 128 * a + (At(j) % 128), 0, [i \in 1 .. k |-> k + 1 - i])
    IN  CASE Ends = {} -> [u |-> 0, n |-> IF Left(s) > Groups THEN -1 ELSE 0]
          [] Ends # {} /\ (k > Groups \/ u >= 256 ^ IntBytes) -> [u |-> 0, n |-> -1]
          [] OTHER -> [u |-> u, n |-> k]

DecodeUvarint(s) ==
    LET x == Uvarint(s) IN IF x.n <= 0 THEN Fail(s, "EOF decoding uvarint") ELSE Took(s, x.n, x.u)

\* Only a negative count is an error here: a varint that is cut off is 0.
DecodeVarint(s) ==
    LET x == Uvarint(s)
    IN  IF x.n < 0 THEN Fail(s, "EOF decoding varint")
        ELSE [Took(s, x.n, IF x.u % 2 = 0 THEN x.u \div 2 ELSE -((x.u + 1) \div 2)) EXCEPT !.cut = @ \/ x.n = 0]

DecodeFixed(s, w, signed) ==
    LET bz == SubSeq(s.b, s.n + 1, s.n + w)
    IN  IF Left(s) < w THEN Fail(s, "EOF") ELSE Took(s, w, IF signed THEN AsInt(bz) ELSE AsUint(bz))

MaxOf == [int8 |-> 127, int16 |-> 32767, uint8 |-> 255, uint16 |-> 65535]
DecodeNumber(s, t, o) ==
    LET r == IF Signed(t) THEN DecodeVarint(s) ELSE DecodeUvarint(s)
    IN  CASE typeToTyp3(t, o) = Typ3.Byte8 -> DecodeFixed(s, IntBytes, Signed(t))
          [] typeToTyp3(t, o) = Typ3.Byte4 -> DecodeFixed(s, 4, Signed(t))
          [] OTHER -> IF r.err = NoErr /\ t.k \in DOMAIN MaxOf /\ r.v > MaxOf[t.k]
                      THEN Fail(r, "out of range") ELSE r

DecodeBool(s) ==
    IF Left(s) = 0 THEN Fail(s, "EOF")
    ELSE IF s.b[s.n + 1] > 1 THEN Fail(Took(s, 1, FALSE), "invalid bool")
    ELSE Took(s, 1, s.b[s.n + 1] = 1)

\* A length that is negative as an int.
TooLong(u) == u >= 2 ^ (8 * IntBytes - 1)

DecodeByteSlice(s) ==
    LET r == DecodeUvarint(s)
    IN  IF r.err # NoErr THEN r
        ELSE IF TooLong(r.v) \/ Left(r) < r.v THEN Fail(r, "insufficient bytes")
        ELSE Took(r, r.v, SubSeq(r.b, r.n + 1, r.n + r.v))

\* The field number and type of a key; both 0 after an error.
DecodeFieldKey(s) ==
    LET r == DecodeUvarint(s)
    IN  [r EXCEPT !.v = IF r.err # NoErr THEN [num |-> 0, typ |-> 0]
                        ELSE [num |-> r.v \div 8, typ |-> r.v % 8]]

ExpectKey(s, num, typ) ==
    LET r == DecodeFieldKey(s)
    IN  IF r.err = NoErr /\ r.v # [num |-> num, typ |-> typ] THEN Fail(r, "Expected field") ELSE r

DecodeTyp3(s) ==
    IF Left(s) = 0 THEN Fail(s, "EOF reading typ3 byte")
    ELSE IF s.b[s.n + 1] >= 8 THEN Fail(s, "Invalid typ3 byte") ELSE Took(s, 1, s.b[s.n + 1])
ExpectTerm(s, v) ==
    LET r == DecodeTyp3(s)
    IN  IF r.err = NoErr /\ r.v # Typ3.StructTerm THEN Fail(r, "Expected StructTerm")
        ELSE [r EXCEPT !.v = v]

DecodeTime(s) ==
    LET k1 == ExpectKey(s, 1, Typ3.Byte8)
        sec == Then2(k1, LAMBDA r : DecodeFixed(r, IntBytes, TRUE))
        k2 == Then2(sec, LAMBDA r : ExpectKey(r, 2, Typ3.Byte4))
        ns == Then2(k2, LAMBDA r : DecodeFixed(r, 4, TRUE))
        ok == Then2(ns, LAMBDA r : IF r.v \notin 0 .. Second - 1 THEN Fail(r, "Invalid time") ELSE r)
    IN  Then2(ok, LAMBDA r : ExpectTerm(r, sec.v * Second + ns.v))

-----------------------------------------------------------------------------
(* Decoding (binary-decode.go) into a zero value.                          *)

RECURSIVE decodeReflectBinary(_, _, _), decodeReflectBinary_(_, _, _), DecodeElems(_, _, _, _, _),
          DecodeFields(_, _, _, _, _)

\* DecodeDisambPrefixBytes: nil, or the prefix bytes with what is before them.
DecodeDisambPrefixBytes(s) ==
    LET At(j) == s.b[s.n + j]
        From(j) == SubSeq(s.b, s.n + j, s.n + j + 3)
    IN  CASE Left(s) >= 2 /\ At(1) = 0 /\ At(2) = 0 -> Took(s, 2, [nil |-> TRUE])
          [] Left(s) < 4 /\ ~(Left(s) >= 2 /\ At(1) = 0 /\ At(2) = 0) -> Fail(s, "EOF")
          [] Left(s) \in 4 .. 7 /\ At(1) = 0 /\ At(2) # 0 -> Fail(s, "EOF")
          [] Left(s) >= 8 /\ At(1) = 0 /\ At(2) # 0 ->
                Took(s, 8, [nil |-> FALSE, disamb |-> SubSeq(From(1), 2, 4), prefix |-> From(5)])
          [] OTHER -> Took(s, 4, [nil |-> FALSE, disamb |-> <<>>, prefix |-> From(1)])

decodeReflectBinaryInterface(t, o, s) ==
    LET c == Deref(t.e)
        p == DecodeDisambPrefixBytes(s)
        known == /\ Registered(c)
                 /\ p.v.prefix = WithTyp3(Prefix(c), typeToTyp3(c, o))
                 /\ p.v.disamb \in {<<>>, Disamb(c)}
        d == decodeReflectBinary_(c, o, p)
    IN  CASE p.err # NoErr -> p
          [] p.err = NoErr /\ p.v.nil -> Return(p, <<>>)
          [] p.err = NoErr /\ ~p.v.nil /\ ~known -> Fail(p, "unrecognized")
          [] OTHER -> Return(d, <<IF IsPointer(t.e) THEN <<d.v>> ELSE d.v>>)

\* One nil byte for an element that may be nil, and the element.
DecodeElem(t, o, s) ==
    LET nil == s.b[s.n + 1]
    IN  CASE ~IsPointer(t) -> decodeReflectBinary(t, o, s)
          [] IsPointer(t) /\ Left(s) = 0 -> Fail(s, "EOF")
          [] IsPointer(t) /\ Left(s) > 0 /\ nil > 1 -> Fail(s, "Unexpected nil byte")
          [] IsPointer(t) /\ Left(s) > 0 /\ nil = 1 -> Took(s, 1, <<>>)
          [] OTHER -> decodeReflectBinary(t, o, Took(s, 1, 0))

DecodeElems(k, t, o, s, got) ==
    LET r == DecodeElem(t, o, s)
    IN  IF k = 0 THEN Return(s, got)
        ELSE IF r.err # NoErr THEN r ELSE DecodeElems(k - 1, t, o, r, Append(got, r.v))

decodeTyp4AndCheck(t, o, s) ==
    IF Left(s) = 0 THEN Fail(s, "EOF")
    ELSE IF s.b[s.n + 1] # typeToTyp4(t, o) THEN Fail(s, "Typ4 mismatch") ELSE Took(s, 1, 0)

DecodeList(t, o, s) ==
    LET c == Then2(decodeTyp4AndCheck(t.e, o, s), DecodeUvarint)
    IN  CASE ~HasInfo(t.e) -> Fail(s, "Unregistered interface")
          [] HasInfo(t.e) /\ c.err # NoErr -> c
          [] c.err = NoErr /\ t.k = "array" /\ c.v # t.len -> Fail(c, "Expected num items")
          [] c.err = NoErr /\ t.k = "slice" /\ (TooLong(c.v) \/ c.v > Left(c)) -> Fail(c, "Impossible")
          [] OTHER -> DecodeElems(c.v, t.e, o, c, <<>>)

DecodeByteArray(t, s) ==
    LET r == DecodeByteSlice(s)
    IN  CASE t.k = "slice" -> r
          [] t.k = "array" /\ Left(s) < t.len -> Fail(s, "Insufficient bytes")
          [] OTHER -> IF r.err = NoErr /\ Len(r.v) # t.len THEN Fail(r, "Mismatched") ELSE r

\* Field j of fs, and the ones after it: a field with a smaller number than
\* the next key is nil, and a key without a number ends the fields.
DecodeFields(fs, j, s, got, t) ==
    LET x == fs[j]
        k == DecodeFieldKey(s)
        d == decodeReflectBinary(x.t, x.flag, k)
    IN  CASE j > Len(fs) -> ExpectTerm(s, got)
          [] j <= Len(fs) /\ ~HasInfo(x.t) -> Fail(s, "Unregistered interface")
          [] j <= Len(fs) /\ j < k.v.num -> DecodeFields(fs, j + 1, s, got, t)
          [] j <= Len(fs) /\ k.v.num = 0 -> ExpectTerm(s, got)
          [] j <= Len(fs) /\ k.v.num \in 1 .. j - 1 -> Fail(k, "Expected field number")
          [] j <= Len(fs) /\ k.v.num = j /\ k.v.typ # typeToTyp3(Deref(x.t), x.flag) ->
                Fail(k, "Expected field type")
          [] OTHER -> IF d.err # NoErr THEN d
                      ELSE DecodeFields(fs, j + 1, d, [got EXCEPT ![x.i] = d.v], t)

decodeReflectBinary_(t, o, s) ==
    CASE t.k = "ptr" -> LET r == decodeReflectBinary_(t.e, o, s) IN [r EXCEPT !.v = <<@>>]
      [] t.k = "interface" -> decodeReflectBinaryInterface(t, o, s)
      [] t.k \in {"array", "slice"} -> IF OfBytes(t) THEN DecodeByteArray(t, s) ELSE DecodeList(t, o, s)
      [] t.k = "struct" -> DecodeFields(Fields(t), 1, s, Zero(t), t)
      [] t.k = "map" -> Fail(s, "panic")
      [] t.k = "time" -> DecodeTime(s)
      [] t.k = "string" -> DecodeByteSlice(s)
      [] t.k = "bool" -> DecodeBool(s)
      [] t.k = "float" -> IF o = "unsafe" THEN DecodeFixed(s, IntBytes, TRUE) ELSE Fail(s, "unsafe")
      [] OTHER -> DecodeNumber(s, t, o)

decodeReflectBinary(t, o, s) ==
    LET c == Deref(t)
        pb == SubSeq(s.b, s.n + 1, s.n + 4)
    IN  CASE ~Registered(c) -> decodeReflectBinary_(t, o, s)
          [] Registered(c) /\ Left(s) < 4 -> Fail(s, "EOF skipping prefix bytes")
          [] Registered(c) /\ Left(s) >= 4 /\ pb # WithTyp3(Prefix(c), typeToTyp3(c, o)) ->
                Fail(s, IF pb[4] \div 8 = Prefix(c)[4] \div 8 /\ SubSeq(pb, 1, 3) = SubSeq(Prefix(c), 1, 3)
                        THEN "Typ3 mismatch" ELSE "panic")
          [] OTHER -> decodeReflectBinary_(t, o, Took(s, 4, 0))

\* Mutant: bytes that are left over are no error.
UnmarshalBinaryBare_LeftOver(t, b) ==
    IF b = <<>> \/ ~HasInfo(t) THEN Fail(Bytes(b), "empty or unregistered") ELSE decodeReflectBinary(t, "", Bytes(b))

UnmarshalBinaryBare(t, b) ==
    LET r == decodeReflectBinary(t, "", Bytes(b))
    IN  IF b = <<>> \/ ~HasInfo(t) THEN Fail(Bytes(b), "empty or unregistered")
        ELSE IF r.err = NoErr /\ r.n # Len(b) THEN Fail(r, "didn't read all bytes") ELSE r

UnmarshalBinary(t, b) ==
    LET x == Uvarint(Bytes(b))
    IN  IF b = <<>> \/ x.n < 0 \/ x.u # Len(b) - x.n THEN Fail(Bytes(b), "byte-length prefix")
        ELSE UnmarshalBinaryBare(t, SubSeq(b, x.n + 1, Len(b)))

\* UnmarshalBinaryReader, with a limit that is 0 for none.  A prefix that is
\* longer than the limit sets an error that the next byte read overwrites.
UnmarshalBinaryReader(t, b, maxSize) ==
    LET x == Uvarint(Bytes(b))
    IN  IF x.n <= 0 \/ (maxSize > 0 /\ maxSize - x.n < x.u) \/ Len(b) - x.n < x.u
        THEN Fail(Bytes(b), "Read overflow or EOF")
        ELSE UnmarshalBinaryBare(t, SubSeq(b, x.n + 1, x.n + x.u))

-----------------------------------------------------------------------------
\* What a value is after a round trip: skipped fields are zero, and a void
\* pointer is nil.
RECURSIVE Kept(_, _)
Kept(t, v) ==
    CASE t.k = "ptr" -> IF isVoid(v, t) THEN <<>> ELSE <<Kept(t.e, v[1])>>
      [] t.k = "interface" ->
            IF v = <<>> THEN v
            ELSE <<IF IsPointer(t.e) THEN <<Kept(t.e.e, v[1][1])>> ELSE Kept(t.e, v[1])>>
      [] t.k \in {"slice", "array"} -> [i \in 1 .. Len(v) |-> Kept(t.e, v[i])]
      [] t.k = "struct" -> [i \in 1 .. Len(v) |-> IF t.f[i].flag = "skip" THEN Zero(t.f[i].t)
                                                  ELSE Kept(t.f[i].t, v[i])]
      [] OTHER -> v

\* The types that decoding has an info for everywhere.  A nil field of an
\* unregistered interface is left out by the encoder, which needs no info
\* for it, but the decoder asks for it.
RECURSIVE Known(_)
Known(t) == /\ HasInfo(t)
            /\ t.k \in {"ptr", "slice", "array", "map", "interface"} => Known(t.e)
            /\ t.k = "struct" => \A i \in 1 .. Len(t.f) : t.f[i].flag # "skip" => Known(t.f[i].t)

\* The inputs that a caller may give: at the top neither nil nor an
\* interface whose concrete type is not registered.
Marshals(v, t) == /\ Known(t)
                  /\ t.k = "ptr" => v # <<>>
                  /\ t.k = "interface" => v # <<>> /\ Registered(Deref(t.e))

KeptTop(t, v) == IF t.k = "ptr" THEN <<Kept(t.e, v[1])>> ELSE Kept(t, v)

\* What MarshalBinary writes is read back as the same value, bare, with a
\* length prefix and from a stream whose limit is the length, and nothing
\* may follow it (amino.go UnmarshalBinaryBare, UnmarshalBinary).
AminoRoundTrip ==
    in # <<>> =>
        LET t == Last(in).t
            w == MarshalBinaryBare(Last(in).v, t)
            lw == MarshalBinary(Last(in).v, t).b
            r == UnmarshalBinaryBare(t, w.b)
        IN  w.err = NoErr /\ Marshals(Last(in).v, t) =>
                /\ r.err = NoErr /\ ~r.cut /\ r.v = KeptTop(t, Last(in).v)
                /\ UnmarshalBinaryBare(t, w.b \o <<0>>).err # NoErr
                /\ UnmarshalBinary(t, lw) = r
                /\ UnmarshalBinaryReader(t, lw \o <<7>>, Len(lw)) = r

\* A value that is cut off is refused, unless it is cut where DecodeVarint
\* reads: binary.Varint returns a count of 0 there, which it lets pass.
OnlyVarintsCut ==
    in # <<>> =>
        LET t == Last(in).t
            w == MarshalBinaryBare(Last(in).v, t)
        IN  w.err = NoErr /\ Marshals(Last(in).v, t) =>
                \A k \in 1 .. Len(w.b) - 1 :
                    LET r == UnmarshalBinaryBare(t, SubSeq(w.b, 1, k)) IN r.err = NoErr => r.cut

\* Every value that is cut off is refused, as the error "EOF decoding varint"
\* of decoder.go:68 says.
EveryCutNoticed ==
    in # <<>> =>
        LET t == Last(in).t
            w == MarshalBinaryBare(Last(in).v, t)
        IN  w.err = NoErr /\ Marshals(Last(in).v, t) =>
                \A k \in 1 .. Len(w.b) - 1 : UnmarshalBinaryBare(t, SubSeq(w.b, 1, k)).err # NoErr

=============================================================================
