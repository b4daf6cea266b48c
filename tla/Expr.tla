-------------------------------- MODULE Expr --------------------------------
(***************************************************************************)
(* The expression language of go-wire (tendermint/go-wire/expr): Compile   *)
(* parses a text with a generated PEG parser and encodes what it found     *)
(* with the binary codec.                                                  *)
(*                                                                         *)
(* The grammar is data, as in the program: g of expr.go is `rules`, and    *)
(* Run is the interpreter parseExpr.  The parser state has the position,   *)
(* whether the last expression matched, its value, the labelled values of  *)
(* the rule at hand (the top of vstack) and whether an error was recorded: *)
(* an error an action returns is never taken back, even when the parser    *)
(* goes back and tries another alternative.                                *)
(***************************************************************************)
EXTENDS WireBase

CONSTANT MaxItems       \* how many items an input is built from

VARIABLE in             \* the inputs: a stack of items with their meaning

-----------------------------------------------------------------------------
(* The kinds of expressions.                                               *)

lit(str) == [x |-> "lit", str |-> str]
cls(set) == [x |-> "cls", set |-> set]
any == [x |-> "any"]
seq(es) == [x |-> "seq", es |-> es]
alt(es) == [x |-> "alt", es |-> es]
star(e) == [x |-> "star", e |-> e]
plus(e) == [x |-> "plus", e |-> e]
opt(e) == [x |-> "opt", e |-> e]
not(e) == [x |-> "not", e |-> e]
ref(r) == [x |-> "ref", r |-> r]
lab(l, e) == [x |-> "lab", l |-> l, e |-> e]
act(a, e) == [x |-> "act", a |-> a, e |-> e]

Digits == {"0", "1", "2", "3", "4", "5", "6", "7", "8", "9"}
LowerHex == {"a", "b", "c", "d", "e", "f"}
UpperHex == {"A", "B", "C", "D", "E", "F"}
\* The letters that the inputs use besides those of hexadecimal numbers.
Letters == {"g", "i", "n", "s", "t", "u", "x"} \cup LowerHex \cup UpperHex

Start == act("Start", seq(<<lab("items_", plus(ref("Item"))), ref("_"), ref("EOF")>>))

\* Mutant: a number is tried before hexadecimal bytes.
Item_NumberFirst ==
    act("Item", seq(<<ref("_"), lab("it", alt(<<ref("Array"), ref("Tuple"), ref("UntypedNumeric"),
        ref("Hex"), ref("TypedNumeric"), ref("Placeholder"), ref("String")>>))>>))

Item == act("Item", seq(<<ref("_"), lab("it", alt(<<ref("Array"), ref("Tuple"), ref("Hex"),
            ref("TypedNumeric"), ref("UntypedNumeric"), ref("Placeholder"), ref("String")>>))>>))
Array == act("Array", seq(<<lit("["), lab("items", star(ref("Item"))), ref("_"), lit("]")>>))
Tuple == act("Tuple", seq(<<lit("("), lab("items", plus(ref("Item"))), ref("_"), lit(")")>>))
UntypedNumeric == act("UntypedNumeric", lab("number", ref("Integer")))
TypedNumeric ==
    act("TypedNumeric", seq(<<lab("t", ref("Type")), lit(":"), lab("number", ref("Integer"))>>))
Hex == alt(<<ref("HexLengthPrefixed"), ref("HexRaw")>>)
HexLengthPrefixed == act("HexLengthPrefixed", seq(<<lit("0x"), lab("hexbytes", ref("HexBytes"))>>))
HexRaw == act("HexRaw", seq(<<lit("x"), lab("hexbytes", ref("HexBytes"))>>))
HexBytes == act("HexBytes", plus(cls(Digits \cup LowerHex \cup UpperHex)))
Type == act("Text", alt(<<lit("u64"), lit("i64")>>))
Integer == act("Text", seq(<<opt(lit("-")), plus(cls(Digits))>>))
Label == act("Text", plus(cls(Digits \cup Letters \cup {":"})))
Placeholder == act("Placeholder", seq(<<lit("<"), lab("label", ref("Label")), lit(">")>>))
String == act("String", seq(<<lit("\""),
              star(alt(<<seq(<<not(ref("EscapedChar")), any>>),
                         seq(<<lit("\\"), ref("EscapeSequence")>>)>>)), lit("\"")>>))
EscapedChar == cls({"\"", "\\", "\n", "\t"})
EscapeSequence == alt(<<ref("SingleCharEscape"), ref("UnicodeEscape")>>)
SingleCharEscape == cls({"\"", "\\", "/", "b", "f", "n", "r", "t"})
UnicodeEscape == seq(<<lit("u"), ref("HexDigit"), ref("HexDigit"), ref("HexDigit"), ref("HexDigit")>>)
HexDigit == cls(Digits \cup LowerHex \cup UpperHex)
Whitespace == star(cls({" ", "\n", "\t"}))
EOF == not(any)

rules ==
    ("_" :> Whitespace) @@
    [Start |-> Start, Item |-> Item, Array |-> Array, Tuple |-> Tuple,
     UntypedNumeric |-> UntypedNumeric, TypedNumeric |-> TypedNumeric, Hex |-> Hex,
     HexLengthPrefixed |-> HexLengthPrefixed, HexRaw |-> HexRaw, HexBytes |-> HexBytes,
     Type |-> Type, Integer |-> Integer, Label |-> Label, Placeholder |-> Placeholder,
     String |-> String, EscapedChar |-> EscapedChar, EscapeSequence |-> EscapeSequence,
     SingleCharEscape |-> SingleCharEscape, UnicodeEscape |-> UnicodeEscape,
     HexDigit |-> HexDigit, EOF |-> EOF]

-----------------------------------------------------------------------------
(* The actions: a value for the text matched and the labelled values.      *)

Char(t, i) == SubSeq(t, i, i)
DigitValues == <<"0", "1", "2", "3", "4", "5", "6", "7", "8", "9", "a", "b", "c", "d", "e", "f">>
Lower == [c \in UpperHex |-> CASE c = "A" -> "a" [] c = "B" -> "b" [] c = "C" -> "c"
                               [] c = "D" -> "d" [] c = "E" -> "e" [] c = "F" -> "f"]
DigitValue(c) == (CHOOSE i \in 1 .. 16 : DigitValues[i] = (IF c \in UpperHex THEN Lower[c] ELSE c)) - 1

Value(v) == [v |-> v, err |-> FALSE]
ActionFails == [v |-> <<>>, err |-> TRUE]

onHexBytes(text) ==
    IF Len(text) % 2 = 1 THEN ActionFails
    ELSE Value([i \in 1 .. Len(text) \div 2 |->
                   16 * DigitValue(Char(text, 2 * i - 1)) + DigitValue(Char(text, 2 * i))])

\* strconv.Unquote takes the escapes of Go, "\/" is none; what a character
\* is as a byte is left open: Code.
Code(c) == CASE c = "\n" -> 10 [] c = "\"" -> 34 [] OTHER -> 97
RECURSIVE Unquote(_, _, _)
Unquote(text, i, got) ==
    CASE i = Len(text) -> Value(got)
      [] i < Len(text) /\ Char(text, i) # "\\" -> Unquote(text, i + 1, Append(got, Code(Char(text, i))))
      [] i < Len(text) /\ Char(text, i) = "\\" /\ Char(text, i + 1) = "/" -> ActionFails
      [] i < Len(text) /\ Char(text, i) = "\\" /\ Char(text, i + 1) = "u" ->
            Unquote(text, i + 6, Append(got, AsUint(onHexBytes(SubSeq(text, i + 2, i + 5)).v)))
      [] OTHER -> Unquote(text, i + 2, Append(got, Code(IF Char(text, i + 1) = "n" THEN "\n"
                                                        ELSE Char(text, i + 1))))

onString(text) ==
    LET u == Unquote(text, 2, <<>>) IN [u EXCEPT !.v = [k |-> "String", text |-> @]]

onStart(items) == IF Len(items) = 1 THEN items[1] ELSE [k |-> "Tuple", items |-> items]

Action(a, text, vars) ==
    CASE a = "Start" -> Value(onStart(vars["items_"]))
      [] a = "Item" -> Value(vars["it"])
      [] a = "Array" -> Value([k |-> "Array", items |-> vars["items"]])
      [] a = "Tuple" -> Value([k |-> "Tuple", items |-> vars["items"]])
      [] a = "UntypedNumeric" -> Value([k |-> "Numeric", type |-> "i", number |-> vars["number"]])
      [] a = "TypedNumeric" ->
            Value([k |-> "Numeric", type |-> vars["t"], number |-> vars["number"]])
      [] a = "HexLengthPrefixed" ->
            Value([k |-> "Bytes", data |-> vars["hexbytes"], lengthPrefixed |-> TRUE])
      [] a = "HexRaw" -> Value([k |-> "Bytes", data |-> vars["hexbytes"], lengthPrefixed |-> FALSE])
      [] a = "HexBytes" -> onHexBytes(text)
      [] a = "Text" -> Value(text)
      [] a = "Placeholder" -> Value([k |-> "Placeholder", label |-> vars["label"]])
      [] a = "String" -> onString(text)

-----------------------------------------------------------------------------
(* The interpreter.  An expression that does not match leaves the position *)
(* where it was, and keeps the errors recorded on the way.                 *)

RECURSIVE Run(_, _, _), RunSeq(_, _, _, _), RunAlt(_, _, _, _), RunMany(_, _, _, _)

NoVars == [l \in {} |-> <<>>]
Match(s, to, v) == [s EXCEPT !.ok = TRUE, !.pos = to, !.val = v]
Miss(s, r) == [s EXCEPT !.ok = FALSE, !.err = r.err]
\* pushV and popV around an expression: labels are local to it.
Scoped(e, t, s) == [Run(e, t, [s EXCEPT !.vars = NoVars]) EXCEPT !.vars = s.vars]

parseActionExpr(e, t, s) ==
    LET r == Run(e.e, t, s)
        a == Action(e.a, SubSeq(t, s.pos, r.pos - 1), r.vars)
    IN  IF ~r.ok THEN Miss(s, r) ELSE [r EXCEPT !.val = a.v, !.err = @ \/ a.err]

parseLitMatcher(e, t, s) ==
    LET end == s.pos + Len(e.str)
    IN  IF end - 1 <= Len(t) /\ SubSeq(t, s.pos, end - 1) = e.str THEN Match(s, end, e.str)
        ELSE Miss(s, s)

parseCharClassMatcher(e, t, s) ==
    IF s.pos <= Len(t) /\ Char(t, s.pos) \in e.set THEN Match(s, s.pos + 1, Char(t, s.pos))
    ELSE Miss(s, s)

parseAnyMatcher(t, s) == IF s.pos <= Len(t) THEN Match(s, s.pos + 1, Char(t, s.pos)) ELSE Miss(s, s)

parseLabeledExpr(e, t, s) ==
    LET r == Scoped(e.e, t, s)
    IN  IF r.ok THEN [r EXCEPT !.vars = (e.l :> r.val) @@ @] ELSE Miss(s, r)

parseNotExpr(e, t, s) ==
    LET r == Scoped(e.e, t, s) IN [s EXCEPT !.ok = ~r.ok, !.err = r.err, !.val = <<>>]

\* parseSeqExpr: the i-th expression of the sequence, from `first`.
RunSeq(e, t, s, first) ==
    LET i == Len(s.val) + 1
        r == Run(e.es[i], t, s)
    IN  IF i > Len(e.es) THEN [s EXCEPT !.ok = TRUE]
        ELSE IF ~r.ok THEN Miss(first, r)
        ELSE RunSeq(e, t, [r EXCEPT !.val = Append(s.val, r.val)], first)

\* parseChoiceExpr.
RunAlt(e, t, s, i) ==
    LET r == Scoped(e.es[i], t, s)
    IN  IF i > Len(e.es) THEN [s EXCEPT !.ok = FALSE]
        ELSE IF r.ok THEN r ELSE RunAlt(e, t, Miss(s, r), i + 1)

\* parseZeroOrMoreExpr and parseOneOrMoreExpr.
RunMany(e, t, s, least) ==
    LET r == Scoped(e.e, t, s)
    IN  IF r.ok THEN RunMany(e, t, [r EXCEPT !.val = Append(s.val, r.val)], least)
        ELSE [s EXCEPT !.ok = Len(s.val) >= least, !.err = r.err]

parseZeroOrOneExpr(e, t, s) ==
    LET r == Scoped(e.e, t, s) IN IF r.ok THEN r ELSE [Miss(s, r) EXCEPT !.ok = TRUE, !.val = <<>>]

Run(e, t, s) ==
    CASE e.x = "act" -> parseActionExpr(e, t, s)
      [] e.x = "lit" -> parseLitMatcher(e, t, s)
      [] e.x = "cls" -> parseCharClassMatcher(e, t, s)
      [] e.x = "any" -> parseAnyMatcher(t, s)
      [] e.x = "lab" -> parseLabeledExpr(e, t, s)
      [] e.x = "not" -> parseNotExpr(e, t, s)
      [] e.x = "seq" -> RunSeq(e, t, [s EXCEPT !.val = <<>>], s)
      [] e.x = "alt" -> RunAlt(e, t, s, 1)
      [] e.x = "star" -> RunMany(e, t, [s EXCEPT !.val = <<>>], 0)
      [] e.x = "plus" -> RunMany(e, t, [s EXCEPT !.val = <<>>], 1)
      [] e.x = "opt" -> parseZeroOrOneExpr(e, t, s)
      [] e.x = "ref" -> Scoped(rules[e.r], t, s)

\* parse of the parser: the value of the first rule, or an error.
parse(t) ==
    LET r == Scoped(ref("Start"), t, [pos |-> 1, ok |-> TRUE, val |-> <<>>, vars |-> NoVars, err |-> FALSE])
    IN  [v |-> r.val, err |-> r.err \/ ~r.ok]

-----------------------------------------------------------------------------
(* The bytes of a parsed expression (types.go).                            *)

RECURSIVE Atoi(_, _, _), Bytes(_), Concat(_, _)

\* strconv.Atoi: the number, if it is in the range of an int.
Limit == 2 ^ (8 * IntBytes - 1)
Atoi(str, i, n) ==
    CASE i > Len(str) -> n
      [] i <= Len(str) /\ Char(str, i) = "-" -> -Atoi(str, i + 1, 0)
      [] OTHER -> IF n > Limit THEN n ELSE Atoi(str, i + 1, 10 * n + DigitValue(Char(str, i)))

NumericBytes(x) ==
    LET n == Atoi(x.number, 1, 0)
    IN  IF n \notin -Limit .. Limit - 1 THEN ActionFails
        ELSE Value(IF x.type = "i" THEN WriteVarint(n) ELSE BigEndian(n, IntBytes))

Concat(items, b) ==
    LET r == Bytes(items[1])
    IN  IF items = <<>> THEN Value(b)
        ELSE IF r.err THEN ActionFails ELSE Concat(Tail(items), b \o r.v)

Bytes(x) ==
    CASE x.k = "Numeric" -> NumericBytes(x)
      [] x.k = "Tuple" -> Concat(x.items, <<>>)
      [] x.k = "Array" -> Concat(x.items, WriteVarint(Len(x.items)))
      [] x.k = "Bytes" -> Value(IF x.lengthPrefixed THEN WriteByteSlice(x.data) ELSE x.data)
      [] x.k = "Placeholder" -> Value(<<0>>)
      [] x.k = "String" -> Value(WriteByteSlice(x.text))

Compile(t) == LET p == parse(t) IN IF p.err THEN ActionFails ELSE Bytes(p.v)

-----------------------------------------------------------------------------
(* The inputs: items written by hand with the bytes they stand for, for a  *)
(* word of two bytes, and arrays and tuples of them.                       *)

It(text, bz) == [text |-> text, bz |-> bz, bad |-> FALSE]
Bad(text) == [text |-> text, bz |-> <<>>, bad |-> TRUE]
Items ==
    {It("0", <<0>>), It("-7", <<241, 7>>), It("300", <<2, 1, 44>>), It("u64:5", <<0, 5>>),
     It("i64:-2", <<255, 254>>), It("0x0aFf", <<1, 2, 10, 255>>), It("x1b", <<27>>),
     It("<sig:1>", <<0>>), It("\"an\"", <<1, 2, 97, 97>>), It("\"\\n\\\"\"", <<1, 2, 10, 34>>),
     It("\"\\u0009\"", <<1, 1, 9>>),
     Bad("0x123"), Bad("\"\\/\""), Bad("99999"), Bad("u64:"), Bad("<>")}

Init == in = <<>>
Top(k) == SubSeq(in, Len(in) - k + 1, Len(in))
Under(k) == SubSeq(in, 1, Len(in) - k)

Joined(items, sep) ==
    FoldLeft(LAMBDA a, x : IF a = "" THEN x.text ELSE a \o sep \o x.text, "", items)
Meant(items) == FoldLeft(LAMBDA b, x : b \o x.bz, <<>>, items)
SomeBad(items) == \E i \in 1 .. Len(items) : items[i].bad

Size == FoldLeft(LAMBDA n, x : n + x.size, 0, in)
Sized(x, n) == [size |-> n] @@ x

Write == \E x \in Items : /\ Size < MaxItems
                          /\ in' = Append(in, Sized(x, 1))
Enclose(k, open, sep, close, prefix) ==
    /\ Size < MaxItems
    /\ in' = Append(Under(k),
                    [text |-> open \o Joined(Top(k), sep) \o close, bz |-> prefix \o Meant(Top(k)),
                     bad |-> SomeBad(Top(k)), size |-> FoldLeft(LAMBDA n, x : n + x.size, 1, Top(k))])
MakeArray == \E k \in 0 .. Len(in) : Enclose(k, "[", " ", " ]", IF k = 0 THEN <<0>> ELSE <<1, k>>)
MakeTuple == \E k \in 1 .. Len(in) : Enclose(k, "( ", "\n", ")", <<>>)

Next == Write \/ MakeArray \/ MakeTuple
Spec == Init /\ [][Next]_in

-----------------------------------------------------------------------------
\* A text is compiled to the bytes of its items, in order and with the
\* lengths of arrays and byte strings before them, whatever alternatives the
\* parser tried on the way; and it is refused exactly when one of its items
\* is malformed, however deep it is (expr.go, types.go, util.go Compile).
CompilesAsMeant ==
    in # <<>> =>
        LET c == Compile(Joined(in, " "))
        IN  /\ c.err <=> SomeBad(in)
            /\ ~c.err => c.v = Meant(in)

=============================================================================
