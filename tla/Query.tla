------------------------------- MODULE Query -------------------------------
(***************************************************************************)
(* tmlibs/pubsub/query: the generated PEG parser (query.peg.go), and what  *)
(* query.go makes of its tokens.  The rules are data, one definition per   *)
(* rule, and Parse interprets them as the generated closures do: a failed  *)
(* alternative restores position and tokenIndex, a rule that matches adds  *)
(* a token.  Characters are strings of length 1; Wide(c) takes two bytes,  *)
(* which matters because tokens count runes and query.go slices bytes.     *)
(***************************************************************************)
EXTENDS Integers, Sequences, SequencesExt

CONSTANT MaxConditions  \* bound: conditions of a query

VARIABLE in  \* the conditions of the query that is written and parsed

Chars(str) == [i \in 1..Len(str) |-> SubSeq(str, i, i)]
Wide == "~"
DigitSet == {"0", "1", "2", "3", "4", "5", "6", "7", "8", "9"}
Cases(str) == {<<"a", "A">>, <<"c", "C">>, <<"d", "D">>, <<"e", "E">>, <<"i", "I">>,
               <<"m", "M">>, <<"n", "N">>, <<"o", "O">>, <<"s", "S">>, <<"t", "T">>}

\* Parsing expressions.
In(set) == <<"in", set>>
Lit(str) == <<"seq", [i \in 1..Len(str) |-> In({SubSeq(str, i, i)})]>>
AnyCase(str) == <<"seq", [i \in 1..Len(str) |->
  In(UNION {{p[1], p[2]} : p \in {q \in Cases(str) : q[2] = SubSeq(str, i, i)}})]>>
Dot == <<"dot">>
All(es) == <<"seq", es>>
Alt(es) == <<"alt", es>>
Star(e) == <<"star", e>>
Plus(e) == All(<<e, Star(e)>>)
Opt(e) == Alt(<<e, All(<<>>)>>)
Not(e) == <<"not", e>>
Rule(name) == <<"rule", name>>
Text(e) == <<"text", e>>  \* < e >: adds a PegText token
Spaces == Star(Lit(" "))

-----------------------------------------------------------------------------
(* The rules.  le, ge, l, g, equal, contains, and and tag are inlined where *)
(* they are used, and still add their tokens.                              *)

e == All(<<Lit("\""), Rule("condition"),
           Star(All(<<Plus(Lit(" ")), Rule("and"), Plus(Lit(" ")), Rule("condition")>>)),
           Lit("\""), Not(Dot)>>)
tag == Text(Plus(All(<<Not(In({" ", "\t", "\n", "\r", "\\", "(", ")", "\"", "'",
                                "=", ">", "<"})), Dot>>)))
moment == Alt(<<Rule("date"), Rule("time"), Rule("number")>>)
condition_le == All(<<Rule("le"), Spaces, moment>>)
condition_ge == All(<<Rule("ge"), Spaces, moment>>)
condition_equal == All(<<Rule("equal"), Spaces, Alt(<<Rule("value"), moment>>)>>)
condition_g == All(<<Rule("g"), Spaces, moment>>)
condition_l == All(<<Rule("l"), Spaces, moment>>)
condition_contains == All(<<Rule("contains"), Spaces, Rule("value")>>)

condition == All(<<Rule("tag"), Spaces,
  Alt(<<condition_le, condition_ge, condition_equal, condition_g, condition_l,
        condition_contains>>)>>)
value == Text(All(<<Lit("'"), Star(All(<<Not(In({"\"", "'"})), Dot>>)), Lit("'")>>))

\* Mutant: a zero is not a number.
number_NoZero == Text(All(<<In(DigitSet \ {"0"}), Star(Rule("digit")),
  Opt(All(<<Lit("."), Star(Rule("digit"))>>))>>))

number == Text(Alt(<<Lit("0"),
  All(<<In(DigitSet \ {"0"}), Star(Rule("digit")),
        Opt(All(<<Lit("."), Star(Rule("digit"))>>))>>)>>))
digit == In(DigitSet)
digits2 == All(<<Rule("digit"), Rule("digit")>>)
day_of == All(<<Rule("year"), Lit("-"), Rule("month"), Lit("-"), Rule("day")>>)
time == All(<<AnyCase("TIME"), Lit(" "), Text(All(<<day_of, Lit("T"),
  digits2, Lit(":"), digits2, Lit(":"), digits2,
  Alt(<<All(<<In({"-", "+"}), digits2, Lit(":"), digits2>>), Lit("Z")>>)>>))>>)
date == All(<<AnyCase("DATE"), Lit(" "), Text(day_of)>>)
year == All(<<In({"1", "2"}), Rule("digit"), Rule("digit"), Rule("digit")>>)
month == All(<<In({"0", "1"}), Rule("digit")>>)
day == All(<<In({"0", "1", "2", "3"}), Rule("digit")>>)

rules ==
  [e |-> e, condition |-> condition, tag |-> tag, value |-> value, number |-> number,
   digit |-> digit, time |-> time, date |-> date, year |-> year, month |-> month,
   day |-> day, and |-> AnyCase("AND"), equal |-> Lit("="), le |-> Lit("<="),
   contains |-> AnyCase("CONTAINS"), ge |-> Lit(">="), l |-> Lit("<"), g |-> Lit(">")]

\* Run(x, b, s): expression x on buffer b from state s = [ok, pos, toks].
RECURSIVE Run(_, _, _), RunSeq(_, _, _, _), RunAlt(_, _, _, _)
Fail(s) == [s EXCEPT !.ok = FALSE]
add(s, rule, begin) == [s EXCEPT !.toks = Append(@, [rule |-> rule, begin |-> begin, end |-> s.pos])]
matchDot(b, s) == IF s.pos < Len(b) THEN [s EXCEPT !.pos = @ + 1] ELSE Fail(s)
RunSeq(es, i, b, s) ==
  IF i > Len(es) THEN s
  ELSE LET r == Run(es[i], b, s) IN IF r.ok THEN RunSeq(es, i + 1, b, r) ELSE Fail(s)
RunAlt(es, i, b, s) ==
  IF i > Len(es) THEN Fail(s)
  ELSE LET r == Run(es[i], b, s) IN IF r.ok THEN r ELSE RunAlt(es, i + 1, b, s)
Run(x, b, s) ==
  CASE x[1] = "in" -> IF s.pos < Len(b) /\ b[s.pos + 1] \in x[2]
                      THEN [s EXCEPT !.pos = @ + 1] ELSE Fail(s)
    [] x[1] = "dot" -> matchDot(b, s)
    [] x[1] = "seq" -> RunSeq(x[2], 1, b, s)
    [] x[1] = "alt" -> RunAlt(x[2], 1, b, s)
    [] x[1] = "star" -> LET r == Run(x[2], b, s) IN IF r.ok THEN Run(x, b, r) ELSE s
    [] x[1] = "not" -> IF Run(x[2], b, s).ok THEN Fail(s) ELSE s
    [] x[1] = "text" -> LET r == Run(x[2], b, s) IN
                        IF r.ok THEN add(r, "PegText", s.pos) ELSE Fail(s)
    [] x[1] = "rule" -> LET r == Run(rules[x[2]], b, s) IN
                        IF r.ok THEN add(r, x[2], s.pos) ELSE Fail(s)

\* Init and Parse on the query between its quotes.
Parse(q) == Run(Rule("e"), <<"\"">> \o q \o <<"\"">>, [ok |-> TRUE, pos |-> 0, toks |-> <<>>])

-----------------------------------------------------------------------------
(* query.go *)

Bytes(q) == FlattenSeq([i \in 1..Len(q) |-> IF q[i] = Wide THEN <<Wide, Wide>> ELSE <<q[i]>>])
Slice(q, begin, end) == SubSeq(Bytes(<<"\"">> \o q \o <<"\"">>), begin + 1, end)

DigitOf == [c \in DigitSet |-> CHOOSE n \in 0..9 : ToString(n) = c]
RECURSIVE Nat10(_)
Nat10(s) == IF s = <<>> THEN 0 ELSE Nat10(Front(s)) * 10 + DigitOf[Last(s)]

\* Numbers are kept in tenths, so that ParseFloat of one decimal is exact.
ParseNumber(s) ==
  LET dot == SelectInSeq(s, LAMBDA c : c = ".") IN
  IF dot = 0 THEN [kind |-> "int", v |-> 10 * Nat10(s)]
  ELSE [kind |-> "float", v |-> 10 * Nat10(SubSeq(s, 1, dot - 1)) +
         (IF dot = Len(s) THEN 0 ELSE DigitOf[s[dot + 1]])]

DaysIn(y, m) == CASE m \in {4, 6, 9, 11} -> 30 [] m # 2 -> 31
  [] OTHER -> IF y % 4 = 0 /\ (y % 100 # 0 \/ y % 400 = 0) THEN 29 ELSE 28
DayNumber(y, m, d) ==
  LET yy == IF m <= 2 THEN y - 1 ELSE y
      mm == IF m <= 2 THEN m + 9 ELSE m - 3 IN
  365 * yy + yy \div 4 - yy \div 100 + yy \div 400 + (153 * mm + 2) \div 5 + d

\* time.Parse of the two layouts: minutes and seconds, or an error.
ParseTime(s) ==
  LET n(i, k) == Nat10(SubSeq(s, i, i + k - 1))
      full == Len(s) > 10
      hh == IF full THEN n(12, 2) ELSE 0
      mi == IF full THEN n(15, 2) ELSE 0
      ss == IF full THEN n(18, 2) ELSE 0
      zone == full /\ s[20] # "Z"
      off == IF zone THEN (IF s[20] = "+" THEN 1 ELSE -1) * (n(21, 2) * 60 + n(24, 2)) ELSE 0 IN
  IF n(6, 2) \notin 1..12 \/ n(9, 2) \notin 1..DaysIn(n(1, 4), n(6, 2))
     \/ hh > 23 \/ mi > 59 \/ ss > 59
    THEN [kind |-> "error"]
    ELSE [kind |-> "time", v |-> (DayNumber(n(1, 4), n(6, 2), n(9, 2)) * 1440 + hh * 60 + mi) - off,
          sec |-> ss]

Operand(rule, s) ==
  CASE rule = "value" -> [kind |-> "string", v |-> SubSeq(s, 2, Len(s) - 1)]
    [] rule = "number" -> ParseNumber(s)
    [] rule \in {"time", "date"} -> ParseTime(s)

Ops == {"le", "ge", "l", "g", "equal", "contains"}
Operands == {"value", "number", "time", "date"}

\* The loop over the tokens that Conditions and Matches share: an operand
\* takes the text, the operator and the tag that were last set before it.
Conditions(q, toks) ==
  LET ts == SelectSeq(toks, LAMBDA t : t.rule \in {"PegText", "tag"} \cup Ops \cup Operands)
      last(k, rs) == CHOOSE j \in 1..(k - 1) : /\ ts[j].rule \in rs
                       /\ \A i \in (j + 1)..(k - 1) : ts[i].rule \notin rs
      text(k) == LET t == ts[last(k, {"PegText"})] IN Slice(q, t.begin, t.end)
      at == SetToSortSeq({k \in 1..Len(ts) : ts[k].rule \in Operands}, LAMBDA i, j : i < j) IN
  [n \in 1..Len(at) |-> [tag |-> text(last(at[n], {"tag"})), op |-> ts[last(at[n], Ops)].rule,
                          operand |-> Operand(ts[at[n]].rule, text(at[n]))]]

HasSubstring(s, sub) == \E i \in 0..(Len(s) - Len(sub)) : SubSeq(s, i + 1, i + Len(sub)) = sub
Rel(op, c) == CASE op = "le" -> c <= 0 [] op = "ge" -> c >= 0 [] op = "l" -> c < 0
                [] op = "g" -> c > 0 [] op = "equal" -> c = 0 [] OTHER -> FALSE
Cmp(a, b) == a - b

\* match: the value of the tag against the operand, converted to its type;
\* a float is truncated when the operand is an int.
match(c, tags) ==
  LET value_ == tags[c.tag]
      o == c.operand IN
  IF c.tag \notin DOMAIN tags THEN "no"
  ELSE CASE o.kind = "error" -> "panic"
    [] o.kind = "time" -> IF value_.kind # "time" THEN "no"
         ELSE IF Rel(c.op, IF value_.v = o.v THEN Cmp(value_.sec, o.sec) ELSE Cmp(value_.v, o.v))
              THEN "yes" ELSE "no"
    [] o.kind = "float" -> IF value_.kind \notin {"int", "float"} THEN "panic"
         ELSE IF Rel(c.op, Cmp(value_.v, o.v)) THEN "yes" ELSE "no"
    [] o.kind = "int" -> IF value_.kind \notin {"int", "float"} THEN "panic"
         ELSE IF Rel(c.op, Cmp((value_.v \div 10) * 10, o.v)) THEN "yes" ELSE "no"
    [] o.kind = "string" -> IF value_.kind # "string" THEN "no"
         ELSE IF (c.op = "equal" /\ value_.v = o.v)
                 \/ (c.op = "contains" /\ HasSubstring(value_.v, o.v)) THEN "yes" ELSE "no"

\* Matches stops at the first condition that is not met; an operand that
\* does not parse panics when it is reached, whatever the tag.
Matches(cs, tags) ==
  LET r(i) == IF cs[i].operand.kind = "error" THEN "panic" ELSE match(cs[i], tags)
      bad == {i \in 1..Len(cs) : r(i) # "yes"} IN
  IF DOMAIN tags = {} THEN "no"
  ELSE IF bad = {} THEN "yes" ELSE r(CHOOSE i \in bad : \A j \in bad : i <= j)

-----------------------------------------------------------------------------
(* Queries, written condition by condition, and what they mean. *)

Tags == {"a.b", "c~"}
Texts == {"0", "70", "7.5", "'x'", "DATE 2017-01-31", "DATE 2017-13-01",
          "time 2018-05-03T14:45:10Z", "TIME 2018-05-03T16:45:10+02:00"}
OpText == [le |-> "<=", ge |-> ">=", l |-> "<", g |-> ">", equal |-> "=", contains |-> "CONTAINS"]
Written == [tag : Tags, op : Ops, text : Texts]
Gap(c) == IF c.op \in {"le", "l", "contains"} THEN " " ELSE "   "

Init == in = <<>>
Write(c) == Len(in) < MaxConditions /\ in' = Append(in, c)
Next == \E c \in Written : Write(c)
Spec == Init /\ [][Next]_in

Show(c) == Chars(c.tag) \o Chars(Gap(c)) \o Chars(OpText[c.op]) \o Chars(Gap(c)) \o Chars(c.text)
RECURSIVE ShowAll(_)
ShowAll(cs) == IF Len(cs) = 1 THEN Show(cs[1])
               ELSE ShowAll(Front(cs)) \o Chars(" AND ") \o Show(Last(cs))

\* Which operand an operator takes.
Fits(c) == IF c.op = "contains" THEN c.text = "'x'"
           ELSE c.text = "'x'" => c.op = "equal"
Meaning(text) ==
  CASE text = "0" -> [kind |-> "int", v |-> 0] [] text = "70" -> [kind |-> "int", v |-> 700]
    [] text = "7.5" -> [kind |-> "float", v |-> 75] [] text = "'x'" -> [kind |-> "string", v |-> <<"x">>]
    [] text = "DATE 2017-01-31" -> [kind |-> "time", v |-> DayNumber(2017, 1, 31) * 1440, sec |-> 0]
    [] text = "DATE 2017-13-01" -> [kind |-> "error"]
    [] OTHER -> [kind |-> "time", v |-> DayNumber(2018, 5, 3) * 1440 + 14 * 60 + 45, sec |-> 10]
Meant(cs) == [i \in 1..Len(cs) |-> [tag |-> Chars(cs[i].tag), op |-> cs[i].op,
                                     operand |-> Meaning(cs[i].text)]]
Ascii(cs) == \A i \in 1..Len(cs) : cs[i].tag # "c~"
ValuesOf == <<[kind |-> "int", v |-> 70], [kind |-> "float", v |-> 75], [kind |-> "string", v |-> <<"x", "y">>]>>

\* A query that is written from conditions is accepted exactly when every
\* operator has an operand it takes, and then gives those conditions, in
\* their order, whatever the gaps and the spelling of TIME: alternatives
\* that were tried and given up leave no token.  Tags outside ASCII are
\* excepted, because tokens count runes and query.go slices bytes.
ParsesWhatIsWritten ==
  in # <<>> =>
    LET q == ShowAll(in)
        r == Parse(q) IN
    /\ r.ok <=> \A i \in 1..Len(in) : Fits(in[i])
    /\ r.ok /\ Ascii(in) => Conditions(q, r.toks) = Meant(in)

\* A query matches a tag exactly when each of its conditions does, and a
\* query that cannot be compared panics only at a condition it reaches.
MatchesAll ==
  LET cs == Meant(in)
      tags(n) == [t \in {Chars("a.b")} |-> ValuesOf[n]] IN
  in # <<>> => \A n \in 1..Len(ValuesOf) :
    /\ Matches(cs, tags(n)) = "yes" <=> \A i \in 1..Len(cs) : match(cs[i], tags(n)) = "yes"
    /\ Matches(cs, tags(n)) = "panic" => \E i \in 1..Len(cs) :
         cs[i].operand.kind = "error" \/ (cs[i].tag = Chars("a.b") /\
            (cs[i].operand.kind \in {"int", "float"} /\ ValuesOf[n].kind = "string"))

\* "should never happen if the grammar is correct": every date or time that
\* the grammar accepts is one that time.Parse accepts.
GrammarIsCorrect ==
  in # <<>> => LET q == ShowAll(in)
                   r == Parse(q) IN
    r.ok => \A i \in 1..Len(Conditions(q, r.toks)) : Conditions(q, r.toks)[i].operand.kind # "error"
=============================================================================
