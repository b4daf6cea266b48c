------------------------------ MODULE WireBase ------------------------------
(***************************************************************************)
(* The integers, byte slices and times of the go-wire binary codec         *)
(* (tendermint/go-wire int.go, byteslice.go, time.go and the reader of     *)
(* wire.go).                                                               *)
(*                                                                         *)
(* A machine word is IntBytes bytes wide, 8 in the code, so that the       *)
(* limits of the varint encoding are within the integers TLC has.          *)
(***************************************************************************)
EXTENDS Integers, Sequences, SequencesExt

CONSTANTS
    IntBytes,       \* the bytes of an int and of an int64
    Milli           \* the nanoseconds in a millisecond, 1000000 in the code

NoErr == ""

\* JSON documents, for the codecs that write them.  encoding/json is external:
\* a document is the tree json.Unmarshal makes of the text, with j "null",
\* "num", "str", "bool", "arr" or "obj".
Null == [j |-> "null"]
Num(n) == [j |-> "num", v |-> n]
Str(s) == [j |-> "str", v |-> s]
Arr(a) == [j |-> "arr", v |-> a]
Tree(d) == [d |-> d, err |-> NoErr]
NoTree(e) == [d |-> Null, err |-> e]
ErrOf(ws) == FoldLeft(LAMBDA a, w : IF a = NoErr THEN w.err ELSE a, NoErr, ws)

-----------------------------------------------------------------------------
(* encoding/binary and the reader.  A reader has the bytes, how many are   *)
(* read, the error and the value read last.                                *)

BigEndian(i, w) == [k \in 1 .. w |-> (i \div (256 ^ (w - k))) % 256]
Number(b, head) == FoldLeft(LAMBDA a, x : 256 * a + x, head, Tail(b))
AsUint(b) == Number(b, b[1])
AsInt(b) == Number(b, IF b[1] < 128 THEN b[1] ELSE b[1] - 256)

Reader(b) == [b |-> b, n |-> 0, err |-> NoErr, v |-> 0]
Fail(s, e) == [s EXCEPT !.err = e]
setFirstErr(s, e) == IF s.err = NoErr THEN Fail(s, e) ELSE s
Return(s, v) == [s EXCEPT !.v = v]

ReadFull(k, s) ==
    LET got == IF s.err # NoErr THEN 0 ELSE IF Len(s.b) - s.n < k THEN Len(s.b) - s.n ELSE k
        buf == SubSeq(s.b, s.n + 1, s.n + got) \o [j \in 1 .. k - got |-> 0]
    IN  [s EXCEPT !.n = @ + got, !.v = buf,
                  !.err = IF @ = NoErr /\ got < k THEN "EOF" ELSE @]

\* ReadUint8, ReadInt16, ... : the number in the next w bytes.
ReadUint(w, s) == LET r == ReadFull(w, s) IN Return(r, AsUint(r.v))
ReadInt(w, s) == LET r == ReadFull(w, s) IN Return(r, AsInt(r.v))

-----------------------------------------------------------------------------
(* Varints: a byte with the number of bytes that follow, and 0xF0 added    *)
(* for a negative number.                                                  *)

\* Mutant: the limits between the sizes are off by one.
uvarintSize_OffByOne(i) ==
    IF i = 0 THEN 0
    ELSE CHOOSE k \in 1 .. IntBytes : /\ k = IntBytes \/ i <= 256 ^ k
                                      /\ \A j \in 1 .. k - 1 : i > 256 ^ j

uvarintSize(i) ==
    IF i = 0 THEN 0
    ELSE CHOOSE k \in 1 .. IntBytes : /\ k = IntBytes \/ i < 256 ^ k
                                      /\ \A j \in 1 .. k - 1 : i >= 256 ^ j

UvarintSize(i) == uvarintSize(i) + 1

\* -i of an int: the least int has no negation.
Negate(i) == IF i = -(2 ^ (8 * IntBytes - 1)) THEN i ELSE -i

WriteUvarint(i) ==
    LET size == uvarintSize(i) IN <<size>> \o BigEndian(i, size)

WriteVarint(i) ==
    LET size == uvarintSize(IF i < 0 THEN -i ELSE i)
    IN  <<IF i < 0 THEN size + 240 ELSE size>> \o BigEndian(IF i < 0 THEN -i ELSE i, size)

Padded(b) == [j \in 1 .. IntBytes - Len(b) |-> 0] \o b

ReadVarint(s) ==
    LET r == ReadUint(1, s)
        negate == r.v \div 16 = 15
        size == IF negate THEN r.v % 16 ELSE r.v
        d == ReadFull(size, r)
        i == AsInt(Padded(d.v))
    IN  CASE size > IntBytes -> Return(setFirstErr(r, "Varint overflow"), 0)
          [] size = 0 -> Return(IF negate THEN setFirstErr(r, "negative zero") ELSE r, 0)
          [] OTHER -> Return(d, IF negate THEN Negate(i) ELSE i)

ReadUvarint(s) ==
    LET r == ReadUint(1, s)
        d == ReadFull(r.v, r)
    IN  CASE r.v > IntBytes -> Return(setFirstErr(r, "Uvarint overflow"), 0)
          [] r.v = 0 -> r
          [] OTHER -> Return(d, AsUint(Padded(d.v)))

\* The variants that work on a caller's buffer: PutVarint wants room, and
\* GetVarint returns the number and the bytes it took.
PutVarint(room, i) ==
    IF room < Len(WriteVarint(i)) THEN [n |-> 0, b |-> <<>>, err |-> "Insufficient"]
    ELSE [n |-> Len(WriteVarint(i)), b |-> WriteVarint(i), err |-> NoErr]
PutUvarint(room, i) ==
    IF room < Len(WriteUvarint(i)) THEN [n |-> 0, b |-> <<>>, err |-> "Insufficient"]
    ELSE [n |-> Len(WriteUvarint(i)), b |-> WriteUvarint(i), err |-> NoErr]
Got(r) == IF r.err # NoErr THEN [i |-> 0, n |-> 0, err |-> r.err]
          ELSE [i |-> r.v, n |-> r.n, err |-> NoErr]
GetVarint(buf) == Got(ReadVarint(Reader(buf)))
GetUvarint(buf) == Got(ReadUvarint(Reader(buf)))

-----------------------------------------------------------------------------
(* Byte slices, strings and times.                                         *)

WriteByteSlice(bz) == WriteVarint(Len(bz)) \o bz

Larger(a, b) == IF a < b THEN b ELSE a
Beyond(lmt, n) == lmt # 0 /\ lmt < n

ReadByteSlice(lmt, s) ==
    LET r == ReadVarint(s)
    IN  CASE r.err # NoErr -> Return(r, <<>>)
          [] r.err = NoErr /\ r.v < 0 -> Return(Fail(r, "InvalidLength"), <<>>)
          [] r.err = NoErr /\ r.v >= 0 /\ Beyond(lmt, Larger(r.v, r.n + r.v)) ->
                Return(Fail(r, "Overflow"), <<>>)
          [] OTHER -> ReadFull(r.v, r)

PutByteSlice(room, bz) ==
    LET p == PutVarint(room, Len(bz))
    IN  CASE p.err # NoErr -> p
          [] p.err = NoErr /\ room - p.n < Len(bz) -> [n |-> 0, b |-> <<>>, err |-> "WriteOverflow"]
          [] OTHER -> [n |-> p.n + Len(bz), b |-> p.b \o bz, err |-> NoErr]

GetByteSlice(buf) ==
    LET g == GetVarint(buf)
    IN  CASE g.err # NoErr -> [bz |-> <<>>, n |-> 0, err |-> g.err]
          [] g.err = NoErr /\ g.i < 0 -> [bz |-> <<>>, n |-> 0, err |-> "InvalidLength"]
          [] g.err = NoErr /\ Len(buf) - g.n < g.i -> [bz |-> <<>>, n |-> 0, err |-> "Overflow"]
          [] OTHER -> [bz |-> SubSeq(buf, g.n + 1, g.n + g.i), n |-> g.n + g.i, err |-> NoErr]

ByteSliceSize(bz) == UvarintSize(Len(bz)) + Len(bz)

\* A time before 1970 panics and is no input.
WriteTime(t) == BigEndian((t \div Milli) * Milli, IntBytes)
ReadTime(s) ==
    LET r == ReadInt(IntBytes, s)
    IN  CASE r.v < 0 -> Return(Fail(r, "TimeNegative"), 0)
          [] r.v >= 0 /\ r.v % Milli # 0 -> Return(Fail(r, "TimeSubMillisecond"), 0)
          [] OTHER -> r

=============================================================================
