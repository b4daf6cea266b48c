--------------------------------- MODULE RLP ---------------------------------
(***************************************************************************)
(* The recursive length prefix codec (rlp/encode.go, decode.go, raw.go) on *)
(* the types and values of module Shapes, with the kinds "bigint" for      *)
(* big.Int, "number" for bn.Number, whose value is <<>> where V is nil,    *)
(* and "raw" for RawValue.  The i-th key of a map is the string of the     *)
(* character i.  Types with EncodeRLP or DecodeRLP methods of their own    *)
(* are not modelled.                                                       *)
(*                                                                         *)
(* A machine word has IntBytes bytes and a header that holds the size is   *)
(* for sizes below Short; they are 8 and 56 in the code.                   *)
(***************************************************************************)
EXTENDS Shapes

CONSTANTS
    IntBytes,       \* the bytes of an int, 8 in the code
    Short,          \* the first size that does not fit a tag, 56 in the code
    InputBytes      \* the bytes of the inputs that no encoder wrote

NoErr == ""
StringTag == 128
ListTag == 192
LongTag(tag) == tag + Short - 1     \* 0xB7 and 0xF7

BigEndian(i, w) == [k \in 1 .. w |-> (i \div (256 ^ (w - k))) % 256]
AsUint(b) == FoldLeft(LAMBDA a, x : 256 * a + x, 0, b)

\* Mutant: 256 ^ k is said to fit k bytes.
intsize_OffByOne(i) == CHOOSE k \in 1 .. IntBytes : /\ k = IntBytes \/ i <= 256 ^ k
                                                    /\ \A j \in 1 .. k - 1 : i > 256 ^ j

intsize(i) == CHOOSE k \in 1 .. IntBytes : /\ k = IntBytes \/ i < 256 ^ k
                                           /\ \A j \in 1 .. k - 1 : i >= 256 ^ j
putint(i) == BigEndian(i, intsize(i))
headsize(size) == IF size < Short THEN 1 ELSE 1 + intsize(size)
puthead(tag, size) ==
    IF size < Short THEN <<tag + size>> ELSE <<LongTag(tag) + intsize(size)>> \o putint(size)

Width(t) == CASE t.k \in {"uint8", "int8"} -> 1
              [] t.k \in {"uint16", "int16"} -> 2
              [] OTHER -> IntBytes
IsUint(t) == t.k \in {"uint8", "uint16", "uint"}
IsInt(t) == t.k \in {"int8", "int16", "int"}

-----------------------------------------------------------------------------
(* typecache.go: the types that have a decoder and a writer.               *)

\* parseStructTag: a tail is the last field and a slice.
TagsValid(t) ==
    \A i \in 1 .. Len(t.f) : t.f[i].flag = "tail" => i = Len(t.f) /\ t.f[i].t.k = "slice"

RECURSIVE HasTypeInfo(_)
HasTypeInfo(t) ==
    CASE t.k \in {"ptr", "slice", "array"} -> HasTypeInfo(t.e)
      [] t.k = "struct" -> TagsValid(t) /\ \A j \in 1 .. Len(Fields(t)) : HasTypeInfo(Fields(t)[j].t)
      [] OTHER -> t.k \notin {"float", "time"}

-----------------------------------------------------------------------------
(* encode.go.  An encbuf has the bytes without the headers of lists, and   *)
(* those headers.                                                          *)

Encbuf == [str |-> <<>>, lheads |-> <<>>, lhsize |-> 0, err |-> NoErr]
Put(w, b) == [w EXCEPT !.str = @ \o b]
SizeOf(w) == Len(w.str) + w.lhsize

encodeString(w, b) ==
    IF Len(b) = 1 /\ b[1] < 128 THEN Put(w, b) ELSE Put(w, puthead(StringTag, Len(b)) \o b)

list(w) == [w EXCEPT !.lheads = Append(@, [offset |-> Len(w.str), size |-> w.lhsize])]
\* lh is the index of the header that list added.
listEnd(w, lh) ==
    LET size == SizeOf(w) - w.lheads[lh].offset - w.lheads[lh].size
    IN  [w EXCEPT !.lheads[lh].size = size, !.lhsize = @ + headsize(size)]

\* The pieces of the output, in order: a header after the bytes before it.
Pieces(w) ==
    LET Before(h) == IF h = 1 THEN 0 ELSE w.lheads[h - 1].offset
        n == Len(w.lheads)
        Piece(i) == LET h == (i + 1) \div 2
                    IN  IF h > n THEN SubSeq(w.str, IF n = 0 THEN 1 ELSE w.lheads[n].offset + 1, Len(w.str))
                        ELSE IF i % 2 = 1 THEN SubSeq(w.str, Before(h) + 1, w.lheads[h].offset)
                        ELSE puthead(ListTag, w.lheads[h].size)
    IN  [i \in 1 .. 2 * n + 1 |-> Piece(i)]
Join(ps) == FoldLeft(LAMBDA a, p : a \o p, <<>>, ps)
toBytes(w) == Join(Pieces(w))

\* encReader.Read into buffers of k bytes until the end: what is copied in
\* each call.
RECURSIVE ReadAll(_, _, _)
ReadAll(piece, ps, k) ==
    LET nonempty == SelectSeq(ps, LAMBDA p : p # <<>>)
        RECURSIVE Fill(_, _, _)
        Fill(b, p, rest) ==
            IF p = <<>> /\ rest = <<>> THEN [b |-> b, p |-> <<>>, rest |-> <<>>, eof |-> TRUE]
            ELSE IF p = <<>> THEN Fill(b, Head(rest), Tail(rest))
            ELSE IF Len(p) > k - Len(b)
                 THEN [b |-> b \o SubSeq(p, 1, k - Len(b)), p |-> SubSeq(p, k - Len(b) + 1, Len(p)),
                       rest |-> rest, eof |-> FALSE]
                 ELSE Fill(b \o p, <<>>, rest)
        got == Fill(<<>>, piece, nonempty)
    IN  IF got.eof THEN got.b ELSE got.b \o ReadAll(got.p, got.rest, k)

Magnitude(i) == IF i = 0 THEN <<>> ELSE putint(IF i < 0 THEN -i ELSE i)
\* bn.Number.Bytes: a byte for the sign, then the magnitude.
NumberBytes(v) == IF v = <<>> THEN <<>> ELSE <<IF v[1] < 0 THEN 255 ELSE 0>> \o Magnitude(v[1])

writeUint(w, i) ==
    CASE i = 0 -> Put(w, <<StringTag>>)
      [] i \in 1 .. 127 -> Put(w, <<i>>)
      [] OTHER -> Put(w, <<StringTag + intsize(i)>> \o putint(i))
writeInt(w, i, t) == writeUint(w, IF i < 0 THEN i + 256 ^ Width(t) ELSE i)

RECURSIVE writer(_, _, _, _)
Writes(w, vs, t) == FoldLeft(LAMBDA a, v : writer(a, v, t, ""), w, vs)

makeSliceWriter(w, v, t, tag) ==
    IF tag = "tail" THEN Writes(w, v, t.e) ELSE listEnd(Writes(list(w), v, t.e), Len(w.lheads) + 1)

makeStructWriter(w, v, t) ==
    listEnd(FoldLeft(LAMBDA a, f : writer(a, v[f.i], f.t, f.flag), list(w), Fields(t)), Len(w.lheads) + 1)

\* Mutant: a nil pointer is an empty string, whatever it could point to.
NilPointer_String(w, e) == Put(w, <<StringTag>>)

NilPointer(w, e) ==
    CASE e.k = "bigint" \/ (e.k = "array" /\ OfBytes(e)) -> Put(w, <<StringTag>>)
      [] e.k = "number" -> Put(w, <<0>>)
      [] e.k = "struct" \/ (e.k = "array" /\ ~OfBytes(e)) -> listEnd(list(w), Len(w.lheads) + 1)
      [] OTHER -> writer(w, Zero(e), e, "")

\* A map is a string with the list of its pairs, each of them a string with
\* the list of the encoded key and the encoded value.
EncodedList(bs) == toBytes(listEnd(FoldLeft(LAMBDA w, b : encodeString(w, b), list(Encbuf), bs), 1))
MapKey(i) == <<i>>
writeMap(w, v, t) ==
    LET vs == [i \in 1 .. Len(v) |-> writer(Encbuf, v[i], t.e, "")]
        pairs == [i \in 1 .. Len(v) |-> EncodedList(<<toBytes(encodeString(Encbuf, MapKey(i))), toBytes(vs[i])>>)]
    IN  IF ~HasTypeInfo(t.e) THEN [w EXCEPT !.err = "not RLP-serializable"]
        ELSE IF t.e.k = "interface" /\ (\E i \in 1 .. Len(v) : v[i] = <<>>) THEN [w EXCEPT !.err = "panic"]
        ELSE IF \E i \in 1 .. Len(v) : vs[i].err # NoErr THEN [w EXCEPT !.err = "value"]
        ELSE encodeString(w, EncodedList(pairs))

writeInterface(w, v, t) ==
    IF v = <<>> THEN Put(w, <<ListTag>>)
    ELSE IF HasTypeInfo(t.e) THEN writer(w, v[1], t.e, "") ELSE [w EXCEPT !.err = "not RLP-serializable"]

writeBigInt(w, i) ==
    IF i < 0 THEN [w EXCEPT !.err = "cannot encode negative *big.Int"]
    ELSE IF i = 0 THEN Put(w, <<StringTag>>) ELSE encodeString(w, putint(i))

writer(w, v, t, tag) ==
    CASE w.err # NoErr -> w
      [] w.err = NoErr /\ t.k = "raw" -> Put(w, v)
      [] w.err = NoErr /\ t.k = "interface" -> writeInterface(w, v, t)
      [] w.err = NoErr /\ t.k = "bigint" -> writeBigInt(w, v)
      [] w.err = NoErr /\ t.k = "number" -> encodeString(w, NumberBytes(v))
      [] w.err = NoErr /\ IsUint(t) -> writeUint(w, v)
      [] w.err = NoErr /\ IsInt(t) -> writeInt(w, v, t)
      [] w.err = NoErr /\ t.k = "map" -> writeMap(w, v, t)
      [] w.err = NoErr /\ t.k = "bool" -> Put(w, <<IF v THEN 1 ELSE StringTag>>)
      [] w.err = NoErr /\ t.k = "string" -> encodeString(w, v)
      [] w.err = NoErr /\ t.k \in {"slice", "array"} ->
            IF OfBytes(t) THEN encodeString(w, v) ELSE makeSliceWriter(w, v, t, tag)
      [] w.err = NoErr /\ t.k = "struct" -> makeStructWriter(w, v, t)
      [] w.err = NoErr /\ t.k = "ptr" -> IF v = <<>> THEN NilPointer(w, t.e) ELSE writer(w, v[1], t.e, "")

EncodeToBytes(v, t) ==
    LET w == writer(Encbuf, v, t, "")
    IN  IF ~HasTypeInfo(t) THEN [b |-> <<>>, err |-> "not RLP-serializable"]
        ELSE IF w.err # NoErr THEN [b |-> <<>>, err |-> w.err] ELSE [b |-> toBytes(w), err |-> NoErr]

-----------------------------------------------------------------------------
(* decode.go.  A Stream has the input b, n bytes of which are read, what   *)
(* Kind has found out about the next value, unless kind is "unknown", and  *)
(* the lists it is in; err and v are what the last call returned.          *)

Stream(b) == [b |-> b, n |-> 0, kind |-> "unknown", size |-> 0, byteval |-> 0, kinderr |-> NoErr,
              stack |-> <<>>, err |-> NoErr, v |-> <<>>]
Fail(s, e) == [s EXCEPT !.err = e]
Return(s, v) == [s EXCEPT !.v = v, !.err = NoErr]
Rearm(s) == [s EXCEPT !.kind = "unknown"]
Depth(s) == Len(s.stack)
Tos(s) == s.stack[Depth(s)]
Remaining(s) == Len(s.b) - s.n

\* willRead and readFull: k bytes.
readFull(k, s) ==
    LET r == IF Depth(s) = 0 THEN Rearm(s) ELSE [Rearm(s) EXCEPT !.stack[Depth(s)].pos = @ + k]
    IN  CASE Depth(s) > 0 /\ k > Tos(s).size - Tos(s).pos -> Fail(Rearm(s), "ErrElemTooLarge")
          [] Depth(s) = 0 \/ k <= Tos(s).size - Tos(s).pos ->
                IF k > Remaining(s) THEN Fail(r, "ErrValueTooLarge")
                ELSE Return([r EXCEPT !.n = @ + k], SubSeq(s.b, s.n + 1, s.n + k))

readUint(size, s) ==
    LET r == readFull(size, s)
    IN  CASE size = 0 -> Return(Rearm(s), 0)
          [] size > 0 /\ r.err # NoErr -> r
          [] OTHER -> IF size > 1 /\ r.v[1] = 0 THEN Fail(r, "ErrCanonSize") ELSE Return(r, AsUint(r.v))

\* readKind: the kind and the size are in the tag or in the bytes after it.
Found(s, kind, size) == [s EXCEPT !.kind = kind, !.size = size]
readKind(s) ==
    LET r == readFull(1, s)
        b == r.v[1]
        tag == IF b < ListTag THEN StringTag ELSE ListTag
        kind == IF b < ListTag THEN "String" ELSE "List"
        long == readUint(b - LongTag(tag), r)
    IN  CASE r.err # NoErr -> Fail(Found(r, "Byte", 0), IF Depth(s) = 0 THEN "EOF" ELSE r.err)
          [] r.err = NoErr /\ b < 128 -> [Found(r, "Byte", 0) EXCEPT !.byteval = b]
          [] r.err = NoErr /\ b >= 128 /\ b <= LongTag(tag) -> Found(r, kind, b - tag)
          [] r.err = NoErr /\ b >= 128 /\ b > LongTag(tag) ->
                IF long.err # NoErr THEN Found(long, kind, 0)
                ELSE IF long.v < Short THEN Fail(Found(long, kind, long.v), "ErrCanonSize")
                ELSE Found(long, kind, long.v)

\* Kind: what is known stays known, an error too.
Kind(s) ==
    LET r == readKind([s EXCEPT !.kinderr = NoErr])
        e == CASE r.err # NoErr -> r.err
               [] r.err = NoErr /\ Depth(s) = 0 -> IF r.size > Remaining(r) THEN "ErrValueTooLarge" ELSE NoErr
               [] r.err = NoErr /\ Depth(s) > 0 ->
                     IF r.size > Tos(r).size - Tos(r).pos THEN "ErrElemTooLarge" ELSE NoErr
    IN  CASE s.kind # "unknown" -> Fail(s, s.kinderr)
          [] s.kind = "unknown" /\ Depth(s) > 0 /\ Tos(s).pos = Tos(s).size -> Fail(s, "EOL")
          [] OTHER -> [r EXCEPT !.kinderr = e, !.err = e]

BytesOf(s) ==
    LET k == Kind(s)
        r == readFull(k.size, k)
    IN  CASE k.err # NoErr -> k
          [] k.err = NoErr /\ k.kind = "Byte" -> Return(Rearm(k), <<k.byteval>>)
          [] k.err = NoErr /\ k.kind = "String" ->
                IF r.err = NoErr /\ k.size = 1 /\ r.v[1] < 128 THEN Fail(r, "ErrCanonSize") ELSE r
          [] k.err = NoErr /\ k.kind = "List" -> Fail(k, "ErrExpectedString")

Raw(s) ==
    LET k == Kind(s)
        r == readFull(k.size, k)
    IN  CASE k.err # NoErr -> k
          [] k.err = NoErr /\ k.kind = "Byte" -> Return(Rearm(k), <<k.byteval>>)
          [] OTHER -> IF r.err # NoErr THEN r
                      ELSE Return(r, puthead(IF k.kind = "String" THEN StringTag ELSE ListTag, k.size) \o r.v)

\* A zero byte is not the encoding of a number: what Kind knows stays.
uint(w, s) ==
    LET k == Kind(s)
        r == readUint(k.size, k)
    IN  CASE k.err # NoErr -> k
          [] k.err = NoErr /\ k.kind = "Byte" ->
                IF k.byteval = 0 THEN Fail(Return(k, 0), "ErrCanonInt") ELSE Return(Rearm(k), k.byteval)
          [] k.err = NoErr /\ k.kind = "String" /\ k.size > w -> Fail(k, "errUintOverflow")
          [] k.err = NoErr /\ k.kind = "String" /\ k.size <= w ->
                IF r.err = NoErr /\ k.size > 0 /\ r.v < 128 THEN Fail(r, "ErrCanonSize") ELSE r
          [] k.err = NoErr /\ k.kind = "List" -> Fail(k, "ErrExpectedString")

Bool(s) ==
    LET r == uint(1, s)
    IN  IF r.err # NoErr THEN r ELSE IF r.v > 1 THEN Fail(r, "invalid boolean value") ELSE Return(r, r.v = 1)

List(s) ==
    LET k == Kind(s)
    IN  CASE k.err # NoErr -> k
          [] k.err = NoErr /\ k.kind # "List" -> Fail(k, "ErrExpectedList")
          [] OTHER -> Return([Rearm(k) EXCEPT !.stack = Append(@, [pos |-> 0, size |-> k.size]), !.size = 0], k.size)

\* Mutant: the enclosing list does not count the list that ended.
ListEnd_NotCounted(s) ==
    IF Tos(s).pos # Tos(s).size THEN Fail(s, "errNotAtEOL")
    ELSE [Rearm(s) EXCEPT !.stack = Front(@), !.size = 0, !.err = NoErr]

ListEnd(s) ==
    LET up == [Rearm(s) EXCEPT !.stack = Front(@), !.size = 0, !.err = NoErr]
    IN  IF Tos(s).pos # Tos(s).size THEN Fail(s, "errNotAtEOL")
        ELSE IF Depth(up) = 0 THEN up ELSE [up EXCEPT !.stack[Depth(up)].pos = @ + Tos(s).size]

RECURSIVE decoder(_, _, _)

\* decodeSliceElems: until the end of the list.  An element that is read
\* without moving the stream is read for ever.
RECURSIVE decodeSliceElems(_, _, _)
decodeSliceElems(s, e, vs) ==
    LET r == decoder(s, e, "")
    IN  CASE r.err = "EOL" -> Return(r, vs)
          [] r.err \notin {"EOL", NoErr} -> r
          [] r.err = NoErr /\ r = s -> Fail(r, "for ever")
          [] OTHER -> decodeSliceElems(r, e, Append(vs, r.v))

decodeListSlice(s, t) ==
    LET l == List(s)
        r == IF l.v = 0 THEN Return(l, <<>>) ELSE decodeSliceElems(l, t.e, <<>>)
        z == ListEnd(r)
    IN  IF l.err # NoErr THEN l ELSE IF r.err # NoErr THEN r
        ELSE IF z.err # NoErr THEN z ELSE Return(z, r.v)

\* The values of the given types, in order, from one list.  The last one may
\* be a tail.
DecodeInto(s, ts, few) ==
    LET l == List(s)
        Step(a, f) == LET d == decoder(a, f.t, f.flag)
                      IN  IF a.err # NoErr THEN a
                          ELSE IF d.err = "EOL" THEN Fail(d, few)
                          ELSE IF d.err # NoErr THEN d ELSE Return(d, Append(a.v, d.v))
        r == FoldLeft(Step, Return(l, <<>>), ts)
        z == ListEnd(r)
    IN  IF l.err # NoErr THEN l ELSE IF r.err # NoErr THEN r
        ELSE IF z.err # NoErr THEN z ELSE Return(z, r.v)

decodeListArray(s, t) ==
    DecodeInto(s, [i \in 1 .. t.len |-> [t |-> t.e, flag |-> ""]], "input list has too few elements")

makeStructDecoder(s, t) ==
    LET r == DecodeInto(s, Fields(t), "too few elements")
        At(i) == {j \in 1 .. Len(Fields(t)) : Fields(t)[j].i = i}
    IN  IF r.err # NoErr THEN r
        ELSE Return(r, [i \in 1 .. Len(t.f) |-> IF At(i) = {} THEN Zero(t.f[i].t)
                                                ELSE r.v[CHOOSE j \in At(i) : TRUE]])

decodeByteArray(s, t) ==
    LET k == Kind(s)
        u == uint(IntBytes, k)
        r == readFull(k.size, k)
    IN  CASE k.err # NoErr -> k
          [] k.err = NoErr /\ k.kind = "Byte" -> IF t.len # 1 THEN Fail(k, "length") ELSE Return(u, <<u.v>>)
          [] k.err = NoErr /\ k.kind = "String" ->
                IF t.len # k.size THEN Fail(k, "length")
                ELSE IF r.err = NoErr /\ k.size = 1 /\ r.v[1] < 128 THEN Fail(r, "ErrCanonSize") ELSE r
          [] k.err = NoErr /\ k.kind = "List" -> Fail(k, "ErrExpectedString")

makePtrDecoder(s, t) ==
    LET r == decoder(s, t.e, "") IN IF r.err # NoErr THEN r ELSE Return(r, <<r.v>>)

makeOptionalPtrDecoder(s, t) ==
    LET k == Kind(s)
    IN  IF k.err # NoErr \/ (k.size = 0 /\ k.kind # "Byte")
        THEN [Rearm(k) EXCEPT !.v = <<>>] ELSE makePtrDecoder(k, t)

\* decodeInterface: a slice of bytes or of interfaces.
RECURSIVE decodeInterface(_)
RECURSIVE InterfaceElems(_, _)
InterfaceElems(s, vs) ==
    LET r == decodeInterface(s)
    IN  IF r.err = "EOL" THEN Return(r, vs) ELSE IF r.err # NoErr THEN r ELSE InterfaceElems(r, Append(vs, r.v))
decodeInterface(s) ==
    LET k == Kind(s)
        l == List(k)
        r == InterfaceElems(l, <<>>)
        b == BytesOf(k)
    IN  CASE k.err # NoErr -> k
          [] k.err = NoErr /\ k.kind = "List" ->
                IF r.err # NoErr THEN r ELSE Return(ListEnd(r), [list |-> r.v])
          [] OTHER -> IF b.err # NoErr THEN b ELSE Return(b, [bytes |-> b.v])

\* bn.Number.SetBytes and big.Int.SetBytes.
ToNumber(b) == IF b = <<>> THEN <<0>> ELSE IF b[1] = 255 THEN <<-AsUint(Tail(b))>> ELSE <<AsUint(b)>>

DecodeBytes(b, t) ==
    LET r == decoder(Stream(b), t, "")
    IN  IF ~HasTypeInfo(t) THEN Fail(Stream(b), "not RLP-serializable")
        ELSE IF r.err # NoErr THEN r
        ELSE IF Remaining(r) > 0 THEN Fail(r, "ErrMoreThanOneValue") ELSE r

\* What an earlier value of a map is once the next one is decoded into the
\* same variable: a pointer keeps its target, a slice its elements and a
\* big.Int its words.
RECURSIVE Reused(_, _, _)
Reused(t, old, new) ==
    CASE t.k \in {"ptr", "number"} -> IF old = <<>> \/ new = <<>> THEN old ELSE new
      [] t.k = "bigint" -> IF old = 0 \/ new = 0 THEN old ELSE new
      [] t.k = "slice" /\ ~OfBytes(t) -> [i \in 1 .. Len(old) |-> IF i <= Len(new) THEN new[i] ELSE old[i]]
      [] t.k = "array" /\ ~OfBytes(t) -> [i \in 1 .. Len(old) |-> Reused(t.e, old[i], new[i])]
      [] t.k = "struct" -> [i \in 1 .. Len(old) |-> Reused(t.f[i].t, old[i], new[i])]
      [] OTHER -> old

\* The maps of the model have at most two keys, which come in order.  A pair
\* that is no pair ends the map without an error.
ByteSlices == [k |-> "slice", e |-> [k |-> "slice", e |-> [k |-> "uint8"]]]
decodeMap(s, t) ==
    LET b == BytesOf(s)
        bbt == DecodeBytes(b.v, ByteSlices)
        bbv == [i \in 1 .. Len(bbt.v) |-> DecodeBytes(bbt.v[i], ByteSlices)]
        bad == {i \in 1 .. Len(bbt.v) : bbv[i].err # NoErr \/ Len(bbv[i].v) # 2}
        n == IF bad = {} THEN Len(bbt.v) ELSE (CHOOSE i \in bad : \A j \in bad : i <= j) - 1
        vs == [i \in 1 .. n |-> DecodeBytes(bbv[i].v[2], t.e)]
        errs == {i \in 1 .. n : vs[i].err # NoErr}
    IN  CASE b.err # NoErr -> b
          [] b.err = NoErr /\ bbt.err # NoErr -> Fail(b, bbt.err)
          [] b.err = NoErr /\ bbt.err = NoErr /\ errs # {} -> Fail(b, "value")
          [] b.err = NoErr /\ bbt.err = NoErr /\ errs = {} /\ bad # {} /\ bbv[n + 1].err # NoErr ->
                Fail(b, bbv[n + 1].err)
          [] OTHER -> Return(b, [i \in 1 .. n |-> IF i = n THEN vs[i].v
                                                  ELSE Reused(t.e, vs[i].v, vs[i + 1].v)])

ToInt(i, t) == IF i >= 256 ^ Width(t) \div 2 THEN i - 256 ^ Width(t) ELSE i
As(r, v) == IF r.err # NoErr THEN r ELSE Return(r, v)

decoder(s, t, tag) ==
    LET u == uint(Width(t), s)
        b == BytesOf(s)
    IN  CASE t.k = "raw" -> Raw(s)
          [] t.k = "bigint" -> IF b.err = NoErr /\ b.v # <<>> /\ b.v[1] = 0 THEN Fail(b, "ErrCanonInt")
                               ELSE As(b, AsUint(b.v))
          [] t.k = "number" -> As(b, ToNumber(b.v))
          [] IsUint(t) -> u
          [] IsInt(t) -> As(u, ToInt(u.v, t))
          [] t.k = "map" -> decodeMap(s, t)
          [] t.k = "bool" -> Bool(s)
          [] t.k = "string" \/ (t.k = "slice" /\ OfBytes(t)) -> b
          [] t.k = "array" /\ OfBytes(t) -> decodeByteArray(s, t)
          [] t.k = "array" /\ ~OfBytes(t) -> decodeListArray(s, t)
          [] t.k = "slice" /\ ~OfBytes(t) ->
                IF tag = "tail" THEN decodeSliceElems(s, t.e, <<>>) ELSE decodeListSlice(s, t)
          [] t.k = "struct" -> makeStructDecoder(s, t)
          [] t.k = "ptr" -> IF tag = "nil" /\ t.e.k \notin {"bigint", "number"}
                            THEN makeOptionalPtrDecoder(s, t) ELSE makePtrDecoder(s, t)
          [] t.k = "interface" -> decodeInterface(s)

-----------------------------------------------------------------------------
(* raw.go.                                                                 *)

readSize(b, slen) ==
    IF slen > Len(b) THEN [size |-> 0, err |-> "ErrUnexpectedEOF"]
    ELSE LET s == AsUint(SubSeq(b, 1, slen))
         IN  [size |-> s, err |-> IF s < Short \/ b[1] = 0 THEN "ErrCanonSize" ELSE NoErr]

\* The kind, and where the content begins and ends.
HeadOf(k, ts, cs, err) == [k |-> k, ts |-> ts, cs |-> cs, err |-> err]
readKindOf(buf) ==
    LET b == buf[1]
        tag == IF b < ListTag THEN StringTag ELSE ListTag
        k == IF b < ListTag THEN "String" ELSE "List"
        long == readSize(Tail(buf), b - LongTag(tag))
        h == CASE b < 128 -> HeadOf("Byte", 0, 1, NoErr)
               [] b >= 128 /\ b <= LongTag(tag) ->
                     HeadOf(k, 1, b - tag, IF b = StringTag + 1 /\ Len(buf) > 1 /\ buf[2] < 128
                                           THEN "ErrCanonSize" ELSE NoErr)
               [] OTHER -> HeadOf(k, b - LongTag(tag) + 1, long.size, long.err)
    IN  IF buf = <<>> THEN HeadOf("Byte", 0, 0, "ErrUnexpectedEOF")
        ELSE IF h.err = NoErr /\ h.cs > Len(buf) - h.ts THEN [h EXCEPT !.err = "ErrValueTooLarge"]
        ELSE h

Split(b) ==
    LET h == readKindOf(b)
    IN  IF h.err # NoErr THEN [k |-> "Byte", content |-> <<>>, rest |-> b, err |-> h.err]
        ELSE [k |-> h.k, content |-> SubSeq(b, h.ts + 1, h.ts + h.cs),
              rest |-> SubSeq(b, h.ts + h.cs + 1, Len(b)), err |-> NoErr]
SplitString(b) == LET r == Split(b) IN IF r.err = NoErr /\ r.k = "List" THEN [r EXCEPT !.err = "ErrExpectedString"] ELSE r
SplitList(b) == LET r == Split(b) IN IF r.err = NoErr /\ r.k # "List" THEN [r EXCEPT !.err = "ErrExpectedList"] ELSE r
RECURSIVE CountValues(_)
CountValues(b) == IF b = <<>> THEN 0 ELSE 1 + CountValues(Split(b).rest)

-----------------------------------------------------------------------------
\* What a value is after a round trip: an ignored field is zero and so is
\* what a nil pointer comes to point to, and a pointer whose tag is "nil" is
\* nil when there is nothing in its target.
Nothing(t, v) == EncodeToBytes(v, t).b \in {<<StringTag>>, <<ListTag>>}
RECURSIVE KeptRLP(_, _)
KeptField(f, v) ==
    CASE f.flag = "skip" -> Zero(f.t)
      [] f.flag = "nil" /\ f.t.k = "ptr" /\ f.t.e.k \notin {"bigint", "number"} /\ Nothing(f.t, v) -> <<>>
      [] OTHER -> KeptRLP(f.t, v)
KeptRLP(t, v) ==
    CASE t.k = "ptr" -> <<KeptRLP(t.e, IF v = <<>> THEN Zero(t.e) ELSE v[1])>>
      [] t.k = "number" -> IF v = <<>> THEN <<0>> ELSE v
      [] t.k \in {"slice", "array", "map"} -> [i \in 1 .. Len(v) |-> KeptRLP(t.e, v[i])]
      [] t.k = "struct" -> [i \in 1 .. Len(v) |-> KeptField(t.f[i], v[i])]
      [] OTHER -> v

RECURSIVE Kinds(_)
Kinds(t) == {t.k} \cup (CASE t.k \in {"ptr", "interface", "slice", "array", "map"} -> Kinds(t.e)
                          [] t.k = "struct" -> UNION {Kinds(t.f[i].t) : i \in 1 .. Len(t.f)}
                          [] OTHER -> {})

OneZero(t, v) == t.k = "array" /\ OfBytes(t) /\ v = <<0>>
Shares(t) == t.k = "map" /\ Kinds(t.e) \cap {"ptr", "slice", "bigint", "number"} # {}
NilTarget(t, v) == t.k = "ptr" /\ v = <<>> /\ t.e.k \in {"array", "struct", "raw"}
\* A nil pointer with the tag "nil" is not written.
Unwritten(f, v) == f.flag = "skip" \/ (f.flag = "nil" /\ f.t.k = "ptr" /\ f.t.e.k # "raw" /\ v = <<>>)
RECURSIVE PlainParts(_, _)
PlainParts(t, v) ==
    /\ ~OneZero(t, v) /\ ~Shares(t) /\ ~NilTarget(t, v)
    /\ CASE t.k \in {"ptr", "interface"} -> v # <<>> => PlainParts(t.e, v[1])
         [] t.k \in {"slice", "array", "map"} -> \A i \in 1 .. Len(v) : PlainParts(t.e, v[i])
         [] t.k = "struct" -> \A i \in 1 .. Len(v) : Unwritten(t.f[i], v[i]) \/ PlainParts(t.f[i].t, v[i])
         [] OTHER -> TRUE
Plain(t, v) == "interface" \notin Kinds(t) /\ PlainParts(t, v)

\* What EncodeToBytes returns DecodeBytes reads back as the same value, but
\* for ignored fields and nil pointers, unless the value has one of three
\* parts: the array of one zero byte, a map whose values share memory, and a
\* nil pointer that is written as a list without the elements its type has.
RLPRoundTrip ==
    in # <<>> =>
        LET t == Last(in).t
            w == EncodeToBytes(Last(in).v, t)
            r == DecodeBytes(w.b, t)
        IN  w.err = NoErr /\ Plain(t, Last(in).v) => r.err = NoErr /\ r.v = KeptRLP(t, Last(in).v)

\* Every value is read back as an array or an error: what decodes into an
\* interface, or piece by piece with Split, are the same strings and lists,
\* and the encReader hands out the same bytes whatever the buffer.
RECURSIVE Generic(_)
Generic(d) == IF "bytes" \in DOMAIN d THEN toBytes(encodeString(Encbuf, d.bytes))
              ELSE LET bs == [i \in 1 .. Len(d.list) |-> Generic(d.list[i])]
                   IN  puthead(ListTag, Len(Join(bs))) \o Join(bs)
RLPWellFormed ==
    in # <<>> =>
        LET w == writer(Encbuf, Last(in).v, Last(in).t, "")
            b == toBytes(w)
            r == DecodeBytes(b, [k |-> "interface"])
            s == Split(b)
        IN  EncodeToBytes(Last(in).v, Last(in).t).err = NoErr /\ b # <<>> /\ "raw" \notin Kinds(Last(in).t) =>
                /\ SizeOf(w) = Len(b)
                /\ r.err = NoErr /\ Generic(r.v) = b
                /\ s.err = NoErr /\ s.rest = <<>>
                /\ "bytes" \in DOMAIN r.v => SplitString(b).err = NoErr /\ s.content = r.v.bytes
                /\ "list" \in DOMAIN r.v => SplitList(b).err = NoErr /\ CountValues(s.content) = Len(r.v.list)
                /\ \A k \in 1 .. 3 : ReadAll(<<>>, Pieces(w), k) = b

\* A value has one encoding: bytes that DecodeBytes takes for a value are the
\* ones EncodeToBytes returns for it, whoever wrote them; and SplitString
\* takes the same bytes as a Stream does.
Inputs == UNION {[1 .. n -> InputBytes] : n \in 0 .. 3}
Array(e, n) == [k |-> "array", e |-> e, len |-> n]
Slice(e) == [k |-> "slice", e |-> e]
U8 == [k |-> "uint8"]
OneFieldOf(t) == [k |-> "struct", flag |-> "", f |-> <<[t |-> t, flag |-> ""]>>]
Canonical == {U8, [k |-> "uint"], [k |-> "int16"], [k |-> "bool"], [k |-> "string"], [k |-> "bigint"],
              [k |-> "raw"], Array(U8, 1), Array(U8, 2), Slice([k |-> "string"]), Slice(Slice(U8)),
              OneFieldOf([k |-> "uint"]), Array([k |-> "int8"], 2), [k |-> "ptr", e |-> [k |-> "uint"]]}
RLPCanonical ==
    in = <<>> =>
        \A b \in Inputs :
            LET r == DecodeBytes(b, [k |-> "string"])
                s == SplitString(b)
            IN  /\ \A t \in Canonical : LET d == DecodeBytes(b, t)
                                         IN  d.err = NoErr => EncodeToBytes(d.v, t).b = b
                /\ r.err = NoErr <=> s.err = NoErr /\ s.rest = <<>>
                /\ r.err = NoErr => r.v = s.content

\* A map comes back with the values it was written with (the assertion of
\* TestEncodeAndDecode, endecode_test.go:18).  decodeMap decodes every value into
\* the same variable, so that the values of a map[string]bn.Number, or of a
\* map of slices or pointers, share memory and the last one overwrites them.
MapsComeBack ==
    in # <<>> /\ Last(in).t.k = "map" =>
        LET w == EncodeToBytes(Last(in).v, Last(in).t)
        IN  w.err = NoErr /\ Plain(Last(in).t.e, Last(in).v[1]) =>
                DecodeBytes(w.b, Last(in).t).v = KeptRLP(Last(in).t, Last(in).v)

\* An array of bytes comes back, wherever it is ("the number of input
\* elements (or bytes) must match the array's length", the comment on
\* Decode).  For the array of one zero byte decodeByteArray ignores the
\* error of Uint, which has left the byte to be read again.
ByteArraysComeBack ==
    in # <<>> =>
        LET t == Last(in).t
            w == EncodeToBytes(Last(in).v, t)
        IN  w.err = NoErr /\ t.k = "slice" /\ t.e.k = "array" /\ OfBytes(t.e) =>
                DecodeBytes(w.b, t).err = NoErr
=============================================================================
