-------------------------------- MODULE Wire --------------------------------
(***************************************************************************)
(* The go-wire binary codec (tendermint/go-wire/reflect.go): what          *)
(* writeReflectBinary writes for a value of a type and what                *)
(* readReflectBinary reads back.                                           *)
(*                                                                         *)
(* Types, values and inputs are those of module Shapes.  Options are the   *)
(* flag of the field: "varint" and "unsafe" matter here, "skip" and        *)
(* "omit" to the typeInfo and to JSON.  An interface is "registered",      *)
(* "unregistered", or "other" when the concrete type it is given was not   *)
(* registered for it.                                                      *)
(***************************************************************************)
EXTENDS Shapes, WireBase

NoOpts == ""
TypeByte == 1       \* the byte the concrete type of an interface is registered with

-----------------------------------------------------------------------------
(* Types.  The width of the fixed-size numbers, and whether a number of    *)
(* the type and options is a varint.                                       *)

Width == [int8 |-> 1, uint8 |-> 1, int16 |-> 2, uint16 |-> 2, int32 |-> 4, uint32 |-> 4,
          int64 |-> IntBytes, uint64 |-> IntBytes]
IsVarint(t, o) == t.k \in {"int", "uint"} \/ (t.k \in {"int64", "uint64"} /\ o = "varint")
IsNumber(t) == t.k \in DOMAIN Width \cup {"int", "uint"}

-----------------------------------------------------------------------------
(* writeReflectBinary: the bytes, or the error after which nothing is      *)
(* written any more.                                                       *)

Wrote(b) == [b |-> b, err |-> NoErr]
Cannot(e) == [b |-> <<>>, err |-> e]
Then(a, b) == IF a.err # NoErr THEN a ELSE [b |-> a.b \o b.b, err |-> b.err]
All(ws) == FoldLeft(Then, Wrote(<<>>), ws)

RECURSIVE writeReflectBinary(_, _, _)

\* A registered interface is written as the byte of the concrete type and
\* the value, without the byte of a pointer; an unregistered one as the value.
IsPtr(t) == t.e.k = "ptr"
Concrete(t) == IF IsPtr(t) THEN t.e.e ELSE t.e
ConcreteValue(v, t) == IF IsPtr(t) THEN v[1][1] ELSE v[1]

WriteInterface(v, t, o) ==
    CASE v = <<>> -> Wrote(<<0>>)
      [] v # <<>> /\ t.flag = "unregistered" -> writeReflectBinary(v[1], t.e, o)
      [] v # <<>> /\ t.flag = "other" -> Cannot("Unexpected type")
      [] v # <<>> /\ t.flag = "registered" /\ IsPtr(t) /\ v[1] = <<>> -> Cannot("nil-pointer")
      [] OTHER -> Then(Wrote(<<TypeByte>>),
                       writeReflectBinary(ConcreteValue(v, t), Concrete(t), o))

WritePtr(v, t, o) ==
    IF v = <<>> THEN Wrote(<<0>>)
    ELSE Then(Wrote(<<1>>), writeReflectBinary(v[1], t.e, o))

WriteArray(v, t, o) ==
    IF OfBytes(t) THEN Wrote(v)
    ELSE All([i \in 1 .. Len(v) |-> writeReflectBinary(v[i], t.e, o)])

WriteSlice(v, t, o) ==
    IF OfBytes(t) THEN Wrote(WriteByteSlice(v))
    ELSE Then(Wrote(WriteVarint(Len(v))),
              All([i \in 1 .. Len(v) |-> writeReflectBinary(v[i], t.e, o)]))

WriteStruct(v, t) ==
    All([j \in 1 .. Len(Fields(t)) |->
            LET x == Fields(t)[j] IN writeReflectBinary(v[x.i], x.t, x.flag)])

WriteNumber(v, t, o) ==
    CASE IsVarint(t, o) /\ Signed(t) -> WriteVarint(v)
      [] IsVarint(t, o) /\ ~Signed(t) -> WriteUvarint(v)
      [] OTHER -> BigEndian(v, Width[t.k])

WriteFloat(v, o) == IF o = "unsafe" THEN Wrote(BigEndian(v, IntBytes)) ELSE Cannot("unsafe")

writeReflectBinary(v, t, o) ==
    CASE t.k = "interface" -> WriteInterface(v, t, o)
      [] t.k = "ptr" -> WritePtr(v, t, o)
      [] t.k = "array" -> WriteArray(v, t, o)
      [] t.k = "slice" -> WriteSlice(v, t, o)
      [] t.k = "struct" -> WriteStruct(v, t)
      [] t.k = "time" -> Wrote(WriteTime(v))
      [] t.k = "string" -> Wrote(WriteByteSlice(v))
      [] IsNumber(t) -> Wrote(WriteNumber(v, t, o))
      [] t.k = "bool" -> Wrote(IF v THEN <<1>> ELSE <<0>>)
      [] t.k = "float" -> WriteFloat(v, o)

WriteBinary(v, t) == writeReflectBinary(v, t, NoOpts)

-----------------------------------------------------------------------------
(* readReflectBinary into a zero value: the reader with the value read.    *)

RECURSIVE readReflectBinary(_, _, _, _), ReadElems(_, _, _, _, _, _), ReadFields(_, _, _, _, _)

ReadInterface(t, o, lmt, s) ==
    LET r == ReadUint(1, s)
        d == readReflectBinary(Concrete(t), o, lmt, r)
    IN  CASE t.flag = "unregistered" -> Return(Fail(s, "unregistered"), <<>>)
          [] t.flag # "unregistered" /\ (r.err # NoErr \/ r.v = 0) -> Return(r, <<>>)
          [] t.flag = "registered" /\ r.err = NoErr /\ r.v = TypeByte ->
                Return(d, <<IF IsPtr(t) THEN <<d.v>> ELSE d.v>>)
          [] OTHER -> Return(Fail(r, "type byte"), <<>>)

ReadPtr(t, o, lmt, s) ==
    LET r == ReadUint(1, s)
        d == readReflectBinary(t.e, o, lmt, r)
    IN  CASE r.err # NoErr \/ r.v = 0 -> Return(r, <<>>)
          [] r.err = NoErr /\ r.v > 1 -> Return(Fail(r, "type byte"), <<>>)
          [] OTHER -> Return(d, <<d.v>>)

\* The elements one by one; an error or the limit ends it with what it has.
ReadElems(k, e, o, lmt, s, got) ==
    LET r == readReflectBinary(e, o, lmt, s)
    IN  CASE k <= 0 -> Return(s, got)
          [] k > 0 /\ r.err # NoErr -> Return(r, got)
          [] k > 0 /\ r.err = NoErr /\ Beyond(lmt, r.n) -> Return(Fail(r, "Overflow"), got)
          [] OTHER -> ReadElems(k - 1, e, o, lmt, r, Append(got, r.v))

ReadArray(t, o, lmt, s) ==
    LET r == IF OfBytes(t) THEN ReadFull(t.len, s) ELSE ReadElems(t.len, t.e, o, lmt, s, <<>>)
    IN  Return(r, IF r.err # NoErr THEN Zero(t) ELSE r.v)

ReadSlice(t, o, lmt, s) ==
    LET r == ReadVarint(s)
        d == ReadElems(r.v, t.e, o, lmt, r, <<>>)
    IN  IF OfBytes(t) THEN ReadByteSlice(lmt, s)
        ELSE Return(d, IF d.err # NoErr THEN <<>> ELSE d.v)

ReadFields(fs, j, lmt, s, got) ==
    LET x == fs[j]
        r == readReflectBinary(x.t, x.flag, lmt, s)
    IN  IF j > Len(fs) THEN Return(s, got)
        ELSE ReadFields(fs, j + 1, lmt, r, [got EXCEPT ![x.i] = r.v])

ReadNumber(t, o, s) ==
    CASE IsVarint(t, o) /\ Signed(t) -> ReadVarint(s)
      [] IsVarint(t, o) /\ ~Signed(t) ->
            LET r == ReadVarint(s) IN Return(r, r.v % (256 ^ IntBytes))
      [] ~IsVarint(t, o) /\ Signed(t) -> ReadInt(Width[t.k], s)
      [] OTHER -> ReadUint(Width[t.k], s)

readReflectBinary(t, o, lmt, s) ==
    CASE t.k = "interface" -> ReadInterface(t, o, lmt, s)
      [] t.k = "ptr" -> ReadPtr(t, o, lmt, s)
      [] t.k = "array" -> ReadArray(t, o, lmt, s)
      [] t.k = "slice" -> ReadSlice(t, o, lmt, s)
      [] t.k = "struct" -> ReadFields(Fields(t), 1, lmt, s, Zero(t))
      [] t.k = "time" -> LET r == ReadTime(s) IN Return(r, IF r.err # NoErr THEN ZeroTime ELSE r.v)
      [] t.k = "string" -> ReadByteSlice(lmt, s)
      [] IsNumber(t) -> ReadNumber(t, o, s)
      [] t.k = "bool" -> LET r == ReadUint(1, s) IN Return(r, r.v > 0)
      [] t.k = "float" -> IF o = "unsafe" THEN ReadInt(IntBytes, s) ELSE Return(Fail(s, "unsafe"), 0)

\* Mutant: the limit is not looked at when everything has been read.
ReadBinary_NoLimit(t, b, lmt) == readReflectBinary(t, NoOpts, lmt, Reader(b))

ReadBinary(t, b, lmt) ==
    LET r == readReflectBinary(t, NoOpts, lmt, Reader(b))
    IN  IF r.err = NoErr /\ Beyond(lmt, r.n) THEN Fail(r, "Overflow") ELSE r

WriteBinaryLengthPrefixed(v, t) ==
    LET w == WriteBinary(v, t) IN [w EXCEPT !.b = WriteVarint(Len(w.b)) \o w.b]

\* The limit is about all the bytes read, the prefix included.
ReadBinaryPtrLengthPrefixed(t, b, lmt) ==
    LET p == ReadVarint(Reader(b))
        d == readReflectBinary(t, NoOpts, lmt, p)
        r == IF d.err = NoErr /\ Beyond(lmt, d.n) THEN Fail(d, "Overflow") ELSE d
    IN  IF r.err = NoErr /\ r.n - p.n # p.v THEN Fail(r, "wrong length prefix") ELSE r

-----------------------------------------------------------------------------
\* What a value is after a round trip: skipped fields are zero and a time
\* has milliseconds.
RECURSIVE Kept(_, _)
Kept(t, v) ==
    CASE t.k = "ptr" /\ v # <<>> -> <<Kept(t.e, v[1])>>
      [] t.k = "interface" /\ v # <<>> -> <<Kept(t.e, v[1])>>
      [] t.k \in {"slice", "array"} -> [i \in 1 .. Len(v) |-> Kept(t.e, v[i])]
      [] t.k = "struct" -> [i \in 1 .. Len(v) |-> IF t.f[i].flag = "skip" THEN Zero(t.f[i].t)
                                                  ELSE Kept(t.f[i].t, v[i])]
      [] t.k = "time" -> (v \div Milli) * Milli
      [] OTHER -> v

\* Whether the type has no unregistered interface.
RECURSIVE Readable(_)
Readable(t) ==
    CASE t.k \in {"ptr", "slice", "array"} -> Readable(t.e)
      [] t.k = "interface" -> t.flag # "unregistered" /\ Readable(t.e)
      [] t.k = "struct" -> \A i \in 1 .. Len(t.f) : Readable(t.f[i].t)
      [] OTHER -> TRUE

\* What writeReflectBinary writes without an error is read back as the same
\* value by readReflectBinary, which takes exactly these bytes, whatever
\* follows them, with the length of the bytes as the limit and with a length
\* prefix (wire.go UnmarshalBinary, ReadBinaryPtrLengthPrefixed).
BinaryRoundTrip ==
    in # <<>> =>
        LET t == Last(in).t
            w == WriteBinary(Last(in).v, t)
            r == ReadBinary(t, w.b \o <<1>>, Len(w.b))
            lw == WriteBinaryLengthPrefixed(Last(in).v, t)
            lr == ReadBinaryPtrLengthPrefixed(t, lw.b, 0)
        IN  w.err = NoErr /\ Readable(t) =>
                /\ r.err = NoErr /\ r.n = Len(w.b) /\ r.v = Kept(t, Last(in).v)
                /\ lr.err = NoErr /\ lr.n = Len(lw.b) /\ lr.v = r.v

\* A reader that is cut off, or that has a smaller limit, reports an error:
\* no proper prefix of what was written is taken for a whole value
\* (wire.go ReadFull and ErrBinaryReadOverflow).
TruncationNoticed ==
    in # <<>> =>
        LET t == Last(in).t
            w == WriteBinary(Last(in).v, t)
        IN  w.err = NoErr /\ Readable(t) =>
                \A k \in 1 .. Len(w.b) - 1 : /\ ReadBinary(t, SubSeq(w.b, 1, k), 0).err # NoErr
                                             /\ ReadBinary(t, w.b, k).err # NoErr

=============================================================================
