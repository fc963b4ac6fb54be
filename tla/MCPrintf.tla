------------------------------ MODULE MCPrintf ------------------------------
(* The calls for model checking: formats are put together from pieces.       *)
EXTENDS Printf

Num(n) == [kind |-> "number", num |-> n, den |-> 1]
Frac(n, d) == [kind |-> "number", num |-> n, den |-> d]

\* A field of the format: absent, a number or a '*' with its argument.
None == [chars |-> <<>>, value |-> 0, args |-> <<>>]
Const(n) == [chars |-> Reverse(Digits(n, 10, n + 1, {})), value |-> n, args |-> <<>>]
Arg(n) == [chars |-> <<"*">>, value |-> n, args |-> <<Num(n)>>]
Dot(f) == [f EXCEPT !.chars = <<".">> \o @]

Lengths == [none |-> <<>>, l |-> <<"l">>, ll |-> <<"l", "l">>, h |-> <<"h">>,
            hh |-> <<"h", "h">>, z |-> <<"z">>]

\* %[flags][width][.precision][length]specifier at a position, with the arguments it takes.
Piece(fl, w, p, len, spec) ==
  [chars |-> <<"%">> \o fl \o w.chars \o p.chars \o Lengths[len] \o spec,
   width |-> 1 + Len(fl), precision |-> 1 + Len(fl \o w.chars),
   length |-> 1 + Len(fl \o w.chars \o p.chars),
   specifier |-> 1 + Len(fl \o w.chars \o p.chars \o Lengths[len]),
   stars |-> w.args \o p.args, takes |-> spec \notin {<<>>, <<"%">>, <<"?">>}]

Place(p, n, a) ==
  [at |-> n, arg |-> a, width |-> n + p.width, precision |-> n + p.precision,
   length |-> n + p.length, specifier |-> n + p.specifier]

Args(piece, value) == piece.stars \o (IF piece.takes THEN <<value>> ELSE <<>>)

One(piece, value) ==
  [pieces |-> <<Place(piece, 1, 1)>>, format |-> piece.chars, args |-> Args(piece, value),
   fn |-> "snprintf_", null |-> TRUE, count |-> 0]

\* Two directives with an 'a' between them.
Two(p1, v1, p2, v2, name, n) ==
  LET next == 1 + Len(p1.chars)
      second == 1 + Len(Args(p1, v1))
  IN  [pieces |-> <<Place(p1, 1, 1), [at |-> next, arg |-> second], Place(p2, next + 1, second)>>,
       format |-> p1.chars \o <<"a">> \o p2.chars,
       args |-> Args(p1, v1) \o Args(p2, v2), fn |-> name, null |-> FALSE, count |-> n]

\* The flags of a directive, one of each.
FlagSeqs == {SelectSeq(FlagChars, LAMBDA c : c \in S) : S \in SUBSET {"0", "-", "+", "#"}}

IntegerCalls ==
  {One(Piece(fl, w, p, len, <<c>>), Num(n)) :
     fl \in FlagSeqs \cup {<<" ">>, <<" ", "0">>}, w \in {None, Const(2), Const(5), Const(8)},
     p \in {None, Dot(None), Dot(Const(3)), Dot(Const(7))}, len \in {"none"},
     c \in {"d", "u", "x", "o", "b"}, n \in {0, 7, 27, -7}}
  \cup
  {One(Piece(fl, w, None, len, <<c>>), Num(n)) :
     fl \in {<<>>, <<"#">>, <<"0", "#">>}, w \in {None, Const(3)}, len \in DOMAIN Lengths,
     c \in {"i", "X"}, n \in {0, 7, 63, 200, -56}}
  \cup
  {One(Piece(fl, None, None, "none", <<"p">>), Num(n)) :
     fl \in {<<>>, <<"-">>, <<"#">>}, n \in {0, 31, 200}}

Stars ==
  {One(Piece(fl, w, p, "none", <<c>>), Num(n)) :
     fl \in {<<>>, <<"-">>, <<"0">>}, w \in {Arg(4), Arg(-4), Arg(0)},
     p \in {None, Dot(Arg(3)), Dot(Arg(-3)), Dot(Arg(0))}, c \in {"d", "x"}, n \in {0, 27, -7}}

Floats ==
  {One(Piece(fl, w, p, "none", <<c>>), v) :
     fl \in {<<>>, <<"0">>, <<"-">>, <<"+">>, <<"0", "+">>}, w \in {None, Const(7), Const(12)},
     p \in {None} \cup {Dot(Const(n)) : n \in {0, 1, 3, 4}}, c \in {"f", "F"},
     v \in {Frac(n, 32) : n \in {0, 1, 2, 8, 16, 24, 31, 40, 48, -48, 80, 319, 320}}
           \cup {Frac(-19, 2), Frac(199, 2), [kind |-> "nan"], [kind |-> "inf"], [kind |-> "-inf"],
                 Num(2345678)}}
  \cup
  {One(Piece(fl, w, Dot(Const(n)), "none", <<c>>), v) :
     fl \in {<<>>, <<"-">>}, w \in {None, Const(12), Const(15)}, n \in 10 .. 15,
     c \in {"f", "e"}, v \in {Frac(-3, 4), Num(2345678)}}
  \cup
  {One(Piece(fl, w, p, "none", <<c>>), v) :
     fl \in {<<>>, <<"0">>, <<"-">>, <<"+">>}, w \in {None, Const(4), Const(9)},
     p \in {None, Dot(Const(0)), Dot(Const(1)), Dot(Const(3))}, c \in {"e", "E", "g", "G"},
     v \in {Num(0), Num(1), Num(9), Num(-12), Num(999), Num(1000), Frac(1, 8), Frac(1, 64),
            Num(2345678), [kind |-> "nan"], [kind |-> "inf"]}}
  \cup \* half-way behind nines; the double next to 9.95 is, once it is multiplied
  {One(Piece(fl, w, p, "none", <<c>>), v) :
     fl \in {<<>>, <<"0">>, <<"-">>}, w \in {None, Const(9)},
     p \in {None} \cup {Dot(Const(n)) : n \in 0 .. 3}, c \in {"f", "e", "g"},
     v \in {Frac(199, 20), Frac(-199, 2), Frac(1999, 20)}}

Strings ==
  {One(Piece(fl, w, p, "none", <<"s">>), [chars |-> s]) :
     fl \in {<<>>, <<"-">>}, w \in {None, Const(1), Const(4)},
     p \in {None, Dot(None), Dot(Const(2)), Dot(Const(9))}, s \in {<<>>, <<"a">>, <<"a", "b", "c">>}}
  \cup {One(Piece(fl, w, None, "none", <<"c">>), [chars |-> <<c>>]) :
          fl \in {<<>>, <<"-">>}, w \in {None, Const(3)}, c \in {"a", "NUL"}}

\* Several pieces, as in the kernel's own formats, into a buffer of every size.
Mixed ==
  {Two(Piece(f, None, None, "l", <<"x">>), Num(200), Piece(<<>>, w, None, "none", <<c>>), Num(n),
       name, m) :
     f \in {<<>>, <<"0", "-">>}, w \in {None, Arg(-3)}, c \in {"d", "x", "%", "?"}, n \in {0, 12, -7},
     name \in {"snprintf_", "sprintf_", "printf_", "fctprintf"}, m \in 0 .. 9}
  \cup
  {Two(Piece(<<>>, None, None, "none", <<"d">>), Num(12), Piece(fl, w, None, len, <<>>), Num(0),
       "printf_", 0) :
     fl \in {<<>>, <<"-">>}, w \in {None, Const(2)}, len \in {"none", "l"}}

MCCalls == IntegerCalls \cup Stars \cup Floats \cup Strings \cup Mixed
=============================================================================
