------------------------------- MODULE Printf -------------------------------
(***************************************************************************)
(* The formatter of delice_pxe/src/printf.cc: _vsnprintf parses a format   *)
(* field by field and converts one argument after the other; printf_,      *)
(* snprintf_ and the others differ in where the characters go.             *)
(*                                                                         *)
(* A character is a string of length 1 or "NUL".  A number with a fraction *)
(* is a numerator over a denominator, and its arithmetic is exact.  Sizes  *)
(* of types and buffers are constants: the limits of the code are reached  *)
(* with small numbers.                                                     *)
(***************************************************************************)
EXTENDS Integers, Sequences, SequencesExt

CONSTANTS Calls,        \* the calls, see Init
          NtoaSize,     \* PRINTF_NTOA_BUFFER_SIZE, 32
          FtoaSize,     \* PRINTF_FTOA_BUFFER_SIZE, 32
          DefaultPrec,  \* PRINTF_DEFAULT_FLOAT_PRECISION, 6
          MaxPrec,      \* the last index of pow10, 9
          BehindTable,  \* what a larger index reads
          MaxFloat,     \* PRINTF_MAX_FLOAT, 10^9
          CharValues, ShortValues, IntValues, LongValues,
                        \* values of the types, 2^8 to 2^64
          MemSize       \* bytes of memory from the caller's buffer on

ASSUME PrintfAssumption ==
  /\ {NtoaSize, FtoaSize, DefaultPrec, MaxPrec, MaxFloat, BehindTable, MemSize} \subseteq Nat \ {0}
  /\ {CharValues, ShortValues, IntValues, LongValues} \subseteq Nat \ {0}
  /\ DefaultPrec <= MaxPrec /\ MaxFloat >= 10 ^ 6
  /\ NtoaSize >= 5    \* more than sign and digits of an exponent

\* They are powers of two; what is needed is that Signed splits them in halves.
ASSUME TypesAssumption == \A n \in {CharValues, ShortValues, IntValues, LongValues} : n % 2 = 0

VARIABLES call,       \* the call, a record of
                      \*   format  the characters
                      \*   pieces  where its characters and directives are
                      \*   args    the arguments
                      \*   fn      the entry point, printf_, snprintf_...
                      \*   null    the buffer is a null pointer
                      \*   count   the size that snprintf_ is given
          pc,         \* the field _vsnprintf is at
          pos,        \* format, from 1
          arg,        \* va, from 1
          nth,        \* the piece of the format
          flags, width, precision,
          idx,        \* characters so far
          sent,       \* the characters themselves
          memory,     \* the caller's buffer and what follows it
          conv        \* the conversion that was done last

vars == <<call, pc, pos, arg, nth, flags, width, precision, idx, sent, memory, conv>>

fields == <<flags, width, precision>>
output == <<idx, sent, memory>>

-----------------------------------------------------------------------------
(* Characters.                                                             *)

Lower == <<"0", "1", "2", "3", "4", "5", "6", "7", "8", "9", "a", "b", "c", "d", "e", "f">>
Upper == <<"0", "1", "2", "3", "4", "5", "6", "7", "8", "9", "A", "B", "C", "D", "E", "F">>

is_digit(c) == \E i \in 1 .. 10 : Lower[i] = c

DigitValue(c) == (CHOOSE i \in 1 .. 16 : Lower[i] = c \/ Upper[i] = c) - 1

AtLeast0(n) == IF n > 0 THEN n ELSE 0

\* The powers of ten; _ftoa has a table of those up to MaxPrec.
pow10[n \in Nat] == IF n = 0 THEN 1 ELSE 10 * pow10[n - 1]

Abs(n) == IF n < 0 THEN -n ELSE n

Times(c, n) == [i \in 1 .. AtLeast0(n) |-> c]

\* Op(v), with v evaluated once.
With(v, Op(_)) == CHOOSE r \in {Op(x) : x \in {v}} : TRUE

\* buf and whatever of s there is room for.
Put(buf, s, size) ==
  With(buf \o s, LAMBDA all : SubSeq(all, 1, IF Len(all) < size THEN Len(all) ELSE size))

\* What is left of n after k divisions, up to size of them.
Quotients(n, base, size) ==
  LET q[k \in 0 .. size] == IF k = 0 THEN n ELSE q[k - 1] \div base IN q

\* The turns of the loop that divides n by the base, which ends when nothing is left
\* of n or the buffer is full.
NumDigits(n, base, size) ==
  With(Quotients(n, base, size), LAMBDA q :
    CHOOSE k \in 1 .. size : (q[k] = 0 \/ k = size) /\ (k > 1 => q[k - 1] # 0))

\* The digits of a number, the last one first.
Digits(n, base, size, fl) ==
  With(Quotients(n, base, size), LAMBDA q :
    [i \in 1 .. NumDigits(n, base, size) |->
       (IF "upper" \in fl THEN Upper ELSE Lower)[1 + (q[i - 1] % base)]])

\* The character a negative number or a flag asks for.
Sign(negative, fl) == IF negative THEN <<"-">>
                      ELSE IF "plus" \in fl THEN <<"+">>
                      ELSE IF "space" \in fl THEN <<" ">> ELSE <<>>

\* Mutant: the place of the sign is kept also when blanks are the padding.
LessSignAlways(w, negative, fl) == IF w > 0 /\ Sign(negative, fl) # <<>> THEN w - 1 ELSE w

\* Zero padding leaves a place for the sign.
LessSign(w, negative, fl) ==
  IF w > 0 /\ "zero" \in fl /\ "left" \notin fl /\ Sign(negative, fl) # <<>> THEN w - 1 ELSE w

-----------------------------------------------------------------------------
(* Conversions: what is passed to out, in order.                           *)

\* The string in reverse, with blanks before or behind.
out_rev(buf, w, fl) ==
  With(buf, LAMBDA b :
    (IF "left" \notin fl /\ "zero" \notin fl THEN Times(" ", w - Len(b)) ELSE <<>>)
    \o Reverse(b)
    \o (IF "left" \in fl THEN Times(" ", w - Len(b)) ELSE <<>>))

\* The prefix of '#': it takes the place of characters if buf fills the field.
hash(buf, base, prec, w, fl) ==
  LET n == Len(buf)
      full == "precision" \notin fl /\ n > 0 /\ (n = prec \/ n = w)
      kept == IF ~full THEN n ELSE IF n > 1 /\ base = 16 THEN n - 2 ELSE n - 1
      letter == IF base = 16 THEN <<IF "upper" \in fl THEN "X" ELSE "x">>
                ELSE IF base = 2 THEN <<"b">> ELSE <<>>
  IN  Put(Put(SubSeq(buf, 1, kept), letter, NtoaSize), <<"0">>, NtoaSize)

ntoa_format(buf, negative, base, prec, w, fl) ==
  LET w1 == LessSign(w, negative, fl)
      toPrec == IF "left" \in fl THEN buf ELSE Put(buf, Times("0", prec - Len(buf)), NtoaSize)
      toWidth == IF "left" \in fl \/ "zero" \notin fl THEN toPrec
                 ELSE Put(toPrec, Times("0", w1 - Len(toPrec)), NtoaSize)
      prefixed == IF "hash" \in fl THEN hash(toWidth, base, prec, w1, fl) ELSE toWidth
  IN  out_rev(Put(prefixed, Sign(negative, fl), NtoaSize), w1, fl)

\* _ntoa_long and _ntoa_long_long
ntoa(value, negative, base, prec, w, fl) ==
  ntoa_format(IF "precision" \notin fl \/ value # 0
              THEN Digits(value, base, NtoaSize, fl) ELSE <<>>,
              negative, base, prec, w, IF value = 0 THEN fl \ {"hash"} ELSE fl)

\* Mutant: one place of the buffer is kept.
PrecLeftOff(prec) ==
  prec - (IF prec - MaxPrec >= FtoaSize THEN FtoaSize - 1 ELSE AtLeast0(prec - MaxPrec))

\* _ftoa for a value in the range of an int: the precision that is left when the
\* zeros behind the last power of ten are written.
PrecLeft(prec) == prec - (IF prec - MaxPrec > FtoaSize THEN FtoaSize ELSE AtLeast0(prec - MaxPrec))

\* Mutant: rounding up does not carry into the whole part.
round_no_carry(a, den, pow) ==
  LET frac == ((a % den) * pow) \div den
      rest == ((a % den) * pow) % den
  IN  IF 2 * rest > den \/ (2 * rest = den /\ (frac = 0 \/ frac % 2 = 1))
      THEN <<a \div den, frac + 1>> ELSE <<a \div den, frac>>

\* Whole part and fraction, in units of 1 / pow.
round(a, den, pow) ==
  LET frac == ((a % den) * pow) \div den
      rest == ((a % den) * pow) % den
  IN  IF 2 * rest > den
      THEN IF frac + 1 >= pow THEN <<a \div den + 1, 0>> ELSE <<a \div den, frac + 1>>
      ELSE IF 2 * rest = den /\ (frac = 0 \/ frac % 2 = 1)
      THEN <<a \div den, frac + 1>>
      ELSE <<a \div den, frac>>

ftoa_fixed(v, prec, w, fl) ==
  LET a == IF v.num < 0 THEN -v.num ELSE v.num
      negative == v.num < 0
      asked == IF "precision" \in fl THEN prec ELSE DefaultPrec
      left == PrecLeft(asked)
      pow == IF left <= MaxPrec THEN pow10[left] ELSE BehindTable
      r == round(a, v.den, pow)
      even == 2 * (a - r[1] * v.den) >= v.den /\ r[1] % 2 = 1
      whole == IF left = 0 /\ even THEN r[1] + 1 ELSE r[1]
      count == left - NumDigits(r[2], 10, FtoaSize)
      zeros == Times("0", IF count < 0 THEN FtoaSize ELSE count)
      fraction == IF left = 0 THEN <<>>
                  ELSE Digits(r[2], 10, FtoaSize, fl) \o zeros \o <<".">>
      number == Put(Put(Times("0", asked - left), fraction, FtoaSize),
                    Digits(whole, 10, FtoaSize, fl), FtoaSize)
      w1 == LessSign(w, negative, fl)
      padded == IF "left" \in fl \/ "zero" \notin fl THEN number
                ELSE Put(number, Times("0", w1 - Len(number)), FtoaSize)
  IN  out_rev(Put(padded, Sign(negative, fl), FtoaSize), w1, fl)

\* Values that are no numbers, in reverse as out_rev wants them.
special(v, w, fl) == out_rev(CASE v.kind = "nan" -> <<"n", "a", "n">>
                               [] v.kind = "-inf" -> <<"f", "n", "i", "-">>
                               [] v.kind = "inf" -> <<"f", "n", "i">> \o
                                    (IF "plus" \in fl THEN <<"+">> ELSE <<>>), w, fl)

\* The digits of the largest double, and the exponent of the smallest.
MaxDigits == 309
MaxPlaces == 324

\* The decimal exponent.  The code computes it from the binary one, arrives at -308
\* for 0, and a rounding error may make it one too low for a power of ten.
Exponent(a, den, low) ==
  IF a = 0 THEN -308
  ELSE IF a >= den
  THEN LET e == NumDigits(a \div den, 10, MaxDigits) - 1
       IN  IF low /\ e > 0 /\ a = den * pow10[e] THEN e - 1 ELSE e
  ELSE -(CHOOSE k \in 1 .. MaxPlaces :
           (a * pow10[k] >= den \/ k = MaxPlaces) /\ (k > 1 => ~(a * pow10[k - 1] >= den)))

\* value / 10^e
Scaled(v, e) == IF v.num = 0 \/ e = 0 THEN v
                ELSE IF e > 0 THEN [num |-> v.num, den |-> v.den * pow10[e]]
                ELSE [num |-> v.num * pow10[-e], den |-> v.den]

etoa(v, low, prec, w, fl) ==
  LET a == IF v.num < 0 THEN -v.num ELSE v.num
      asked == IF "precision" \in fl THEN prec ELSE DefaultPrec
      e == Exponent(a, v.den, low)
      fixed == "adapt" \in fl /\ (a >= v.den \/ a * 10000 >= v.den) /\ a < v.den * 1000000
      minwidth == IF fixed THEN 0 ELSE IF e < 100 /\ e > -100 THEN 4 ELSE 5
      places == IF fixed THEN AtLeast0(asked - e - 1)
                ELSE IF "adapt" \in fl /\ asked > 0 /\ "precision" \in fl THEN asked - 1
                ELSE asked
      fwidth == IF ("left" \in fl /\ minwidth > 0) \/ w <= minwidth THEN 0 ELSE w - minwidth
      mantissa == ftoa_fixed(IF fixed THEN v ELSE Scaled(v, e), places, fwidth,
                             IF fixed THEN fl \cup {"precision"} ELSE fl)
      number == mantissa \o <<IF "upper" \in fl THEN "E" ELSE "e">>
                \o ntoa(IF e < 0 THEN -e ELSE e, e < 0, 10, 0, minwidth - 1, {"zero", "plus"})
  IN  IF fixed THEN mantissa
      ELSE number \o (IF "left" \in fl THEN Times(" ", w - Len(number)) ELSE <<>>)

ftoa(v, low, prec, w, fl) ==
  IF v.kind # "number" THEN special(v, w, fl)
  ELSE IF v.num > MaxFloat * v.den \/ -v.num > MaxFloat * v.den THEN etoa(v, low, prec, w, fl)
  ELSE ftoa_fixed(v, prec, w, fl)

\* Blanks before or behind a text, as for %c and %s.
pad(text, w, fl) == IF "left" \in fl THEN text \o Times(" ", w - Len(text))
                    ELSE Times(" ", w - Len(text)) \o text

\* Mutant: 'l' is not looked at.
ValuesInt(fl) == IF "char" \in fl THEN CharValues
                 ELSE IF "short" \in fl THEN ShortValues ELSE IntValues

\* The argument as the type of the directive.
Values(fl) == IF "long" \in fl \/ "longlong" \in fl THEN LongValues
              ELSE IF "char" \in fl THEN CharValues
              ELSE IF "short" \in fl THEN ShortValues ELSE IntValues

Signed(v, n) == IF v % n >= n \div 2 THEN (v % n) - n ELSE v % n

-----------------------------------------------------------------------------
(* Where characters go.                                                    *)

SizeMax == LongValues - 1

\* The size that printf_ and the other entry points pass on.
maxlen == IF call.fn \in {"snprintf_", "vsnprintf_"} THEN call.count ELSE SizeMax

\* The function that gets the characters: _out_buffer stores them, _out_char and
\* _out_fct hand them on, and without a buffer it is _out_null.
out == IF call.null THEN "null"
       ELSE IF call.fn \in {"sprintf_", "snprintf_", "vsnprintf_"} THEN "buffer"
       ELSE IF call.fn = "fctprintf" THEN "fct" ELSE "char"

\* Mutant: the last character may go to the place behind the buffer.
out_buffer_beyond(m, c, i) == IF i <= maxlen THEN [m EXCEPT ![i] = c] ELSE m

\* _out_buffer
out_buffer(m, c, i) == IF i < maxlen THEN [m EXCEPT ![i] = c] ELSE m

\* out(c, buffer, idx++, maxlen) for every c of text.
Emit(text) ==
  /\ idx' = idx + Len(text)
  /\ sent' = sent \o text
  /\ memory' = IF out # "buffer" THEN memory
               ELSE [i \in DOMAIN memory |->
                       IF i \in idx .. idx + Len(text) - 1
                       THEN out_buffer(memory, text[i - idx + 1], i)[i] ELSE memory[i]]

-----------------------------------------------------------------------------
(* What a format is: %[flags][width][.precision][length]specifier, and     *)
(* other characters.  A piece of it says where it starts (at) and which    *)
(* argument is its first (arg); a directive also where its fields width,   *)
(* precision, length and specifier start, each the end of the one before.  *)

FlagChars == <<"0", "-", "+", " ", "#">>
FlagNames == <<"zero", "left", "plus", "space", "hash">>

NameOf(c) == FlagNames[CHOOSE i \in 1 .. 5 : FlagChars[i] = c]

IsFlag(c) == \E i \in 1 .. 5 : FlagChars[i] = c

\* d, i, u, x, X, o and b.
Base == [d |-> 10, i |-> 10, u |-> 10, x |-> 16, X |-> 16, o |-> 8, b |-> 2]

FloatSpecs == {"f", "F", "e", "E", "g", "G"}

Specifiers == DOMAIN Base \cup FloatSpecs \cup {"c", "s", "p"}

\* format[i]
CharAt(c, i) == IF i \in 1 .. Len(c.format) THEN c.format[i] ELSE "NUL"

\* The characters of the field between two positions.
IsEmpty(from, to) == from = to

IsStar(c, from, to) == to = from + 1 /\ CharAt(c, from) = "*"

IsNumeral(c, from, to) == from < to /\ \A i \in from .. to - 1 : is_digit(CharAt(c, i))

IsLength(c, from, to) ==
  \/ to = from + 1 /\ CharAt(c, from) \in {"l", "h", "t", "j", "z"}
  \/ to = from + 2 /\ CharAt(c, from) \in {"l", "h"} /\ CharAt(c, from + 1) = CharAt(c, from)

IsDirective(c, d) == CharAt(c, d.at) = "%"

\* The argument that a precision takes, the one that is converted, and the one behind.
PrecisionArg(c, d) == d.arg + (IF IsStar(c, d.width, d.precision) THEN 1 ELSE 0)

ValueArg(c, d) ==
  PrecisionArg(c, d) + (IF IsStar(c, d.precision + 1, d.length) THEN 1 ELSE 0)

NextArg(c, d) ==
  IF ~IsDirective(c, d) THEN d.arg
  ELSE ValueArg(c, d) + (IF CharAt(c, d.specifier) \in Specifiers THEN 1 ELSE 0)

NextAt(c, d) == IF IsDirective(c, d) THEN d.specifier + 1 ELSE d.at + 1

IsSequence(s) == s \in Seq(Range(s))

\* What a specifier is passed.
ArgumentFits(spec, a) ==
  /\ spec \in DOMAIN Base \cup {"p"} => a.num \in Int
  /\ spec \in FloatSpecs => /\ a.kind \in {"number", "nan", "inf", "-inf"}
                            /\ a.kind = "number" => a.num \in Int /\ a.den \in Nat \ {0}
  /\ spec \in {"c", "s"} => IsSequence(a.chars)

\* A directive is made of its fields.  No character that may stand in a field is a
\* specifier; a format that ends inside a directive has none.
WellFormedDirective(c, d) ==
  /\ {d.width, d.precision, d.length, d.specifier} \subseteq 1 .. Len(c.format) + 1
  /\ d.at < d.width /\ \A i \in d.at + 1 .. d.width - 1 : IsFlag(CharAt(c, i))
  /\ \/ IsEmpty(d.width, d.precision) \/ IsStar(c, d.width, d.precision)
     \/ IsNumeral(c, d.width, d.precision) /\ CharAt(c, d.width) # "0"
  /\ \/ IsEmpty(d.precision, d.length)
     \/ /\ d.precision < d.length /\ CharAt(c, d.precision) = "."
        /\ \/ IsEmpty(d.precision + 1, d.length) \/ IsStar(c, d.precision + 1, d.length)
           \/ IsNumeral(c, d.precision + 1, d.length)
  /\ IsEmpty(d.length, d.specifier) \/ IsLength(c, d.length, d.specifier)
  /\ LET last == CharAt(c, d.specifier)
     IN  ~IsFlag(last) /\ ~is_digit(last) /\ last \notin {"*", ".", "l", "h", "t", "j", "z"}
  /\ \A i \in d.arg .. ValueArg(c, d) - 1 : i \in DOMAIN c.args /\ c.args[i].num \in Int
  /\ CharAt(c, d.specifier) \in Specifiers =>
       /\ ValueArg(c, d) \in DOMAIN c.args
       /\ ArgumentFits(CharAt(c, d.specifier), c.args[ValueArg(c, d)])

\* A call whose arguments are those that its format asks for.
WellFormed(c) ==
  /\ IsSequence(c.format) /\ IsSequence(c.pieces) /\ IsSequence(c.args)
  /\ "NUL" \notin Range(c.format)
  /\ c.count \in 0 .. SizeMax
  /\ IF c.pieces = <<>> THEN c.format = <<>> ELSE c.pieces[1].at = 1 /\ c.pieces[1].arg = 1
  /\ \A i \in 1 .. Len(c.pieces) :
       LET d == c.pieces[i]
       IN  /\ d.at \in 1 .. Len(c.format) /\ d.arg \in Nat \ {0}
           /\ IsDirective(c, d) => WellFormedDirective(c, d)
           /\ IF i < Len(c.pieces)
              THEN c.pieces[i + 1].at = NextAt(c, d) /\ c.pieces[i + 1].arg = NextArg(c, d)
              ELSE NextAt(c, d) > Len(c.format)

ASSUME CallsAssumption == \A c \in Calls : WellFormed(c)

-----------------------------------------------------------------------------
(* _vsnprintf                                                              *)

NoConv == [spec |-> "none"]

Init == /\ call \in Calls
        /\ pc = "text" /\ pos = 1 /\ arg = 1 /\ nth = 0
        /\ flags = {} /\ width = 0 /\ precision = 0
        /\ idx = 0 /\ sent = <<>> /\ memory = [i \in 0 .. MemSize - 1 |-> "?"]
        /\ conv = NoConv

\* *format
Ch == CharAt(call, pos)

Literal == /\ pc = "text" /\ Ch \notin {"%", "NUL"}
           /\ Emit(<<Ch>>)
           /\ pos' = pos + 1 /\ nth' = nth + 1
           /\ UNCHANGED <<call, pc, arg, fields, conv>>

\* Mutant: the flags of the directive before stay.
PercentKeeps == /\ pc = "text" /\ Ch = "%"
                /\ width' = 0 /\ precision' = 0
                /\ pc' = "flags" /\ pos' = pos + 1 /\ nth' = nth + 1
                /\ UNCHANGED <<call, arg, flags, output, conv>>

Percent == /\ pc = "text" /\ Ch = "%"
           /\ flags' = {} /\ width' = 0 /\ precision' = 0
           /\ pc' = "flags" /\ pos' = pos + 1 /\ nth' = nth + 1
           /\ UNCHANGED <<call, arg, output, conv>>

\* Mutant: '-' is taken for the end of the flags' loop and stays.
FlagStays == /\ pc = "flags"
             /\ IF IsFlag(Ch)
                THEN /\ flags' = flags \cup {NameOf(Ch)}
                     /\ pos' = IF Ch = "-" THEN pos ELSE pos + 1
                     /\ UNCHANGED pc
                ELSE pc' = "width" /\ UNCHANGED <<flags, pos>>
             /\ UNCHANGED <<call, arg, nth, width, precision, output, conv>>

\* One turn of the loop over the flags, or its end.
Flag == /\ pc = "flags"
        /\ IF IsFlag(Ch)
           THEN /\ flags' = flags \cup {NameOf(Ch)}
                /\ pos' = pos + 1
                /\ UNCHANGED pc
           ELSE pc' = "width" /\ UNCHANGED <<flags, pos>>
        /\ UNCHANGED <<call, arg, nth, width, precision, output, conv>>

\* The digits from position p on, as an unsigned int and how many they are.
DigitRun(p) == CHOOSE n \in 0 .. Len(call.format) :
                 /\ \A i \in p .. p + n - 1 : is_digit(CharAt(call, i))
                 /\ ~is_digit(CharAt(call, p + n))

atoi(p) == LET value[k \in 0 .. DigitRun(p)] ==
                 IF k = 0 THEN 0
                 ELSE (value[k - 1] * 10 + DigitValue(CharAt(call, p + k - 1))) % IntValues
           IN  value[DigitRun(p)]

\* The int that a '*' takes.
Star == Signed(call.args[arg].num, IntValues)

\* Digits, '*' with its argument (a negative one is a '-' flag), or nothing.
Width == /\ pc = "width"
         /\ \/ /\ is_digit(Ch)
               /\ width' = atoi(pos) /\ pos' = pos + DigitRun(pos)
               /\ UNCHANGED <<flags, arg>>
            \/ /\ Ch = "*"
               /\ width' = Abs(Star)
               /\ flags' = IF Star < 0 THEN flags \cup {"left"} ELSE flags
               /\ pos' = pos + 1 /\ arg' = arg + 1
            \/ ~is_digit(Ch) /\ Ch # "*" /\ UNCHANGED <<width, flags, pos, arg>>
         /\ pc' = "precision"
         /\ UNCHANGED <<call, nth, precision, output, conv>>

\* The same behind a '.'.
Precision ==
  /\ pc = "precision"
  /\ LET next == CharAt(call, pos + 1)
     IN  \/ /\ Ch = "." /\ is_digit(next)
            /\ precision' = atoi(pos + 1) /\ pos' = pos + 1 + DigitRun(pos + 1)
            /\ UNCHANGED arg
         \/ /\ Ch = "." /\ next = "*"
            /\ precision' = AtLeast0(Star)
            /\ pos' = pos + 2 /\ arg' = arg + 1
         \/ /\ Ch = "." /\ ~is_digit(next) /\ next # "*"
            /\ pos' = pos + 1
            /\ UNCHANGED <<precision, arg>>
         \/ Ch # "." /\ UNCHANGED <<precision, pos, arg>>
  /\ flags' = IF Ch = "." THEN flags \cup {"precision"} ELSE flags
  /\ pc' = "length"
  /\ UNCHANGED <<call, nth, width, output, conv>>

\* l, ll, h, hh, and t, j and z, which are as long as a long.
Length ==
  /\ pc = "length"
  /\ LET twice == CharAt(call, pos + 1) = Ch
     IN  /\ flags' = flags \cup
              CASE Ch = "l" -> IF twice THEN {"long", "longlong"} ELSE {"long"}
                [] Ch = "h" -> IF twice THEN {"short", "char"} ELSE {"short"}
                [] Ch \in {"t", "j", "z"} -> {"long"}
                [] OTHER -> {}
         /\ pos' = pos + (IF Ch \in {"l", "h"} THEN IF twice THEN 2 ELSE 1
                          ELSE IF Ch \in {"t", "j", "z"} THEN 1 ELSE 0)
  /\ pc' = "specifier"
  /\ UNCHANGED <<call, arg, nth, width, precision, output, conv>>

\* The directive is converted to text and the loop goes on behind it.
Convert(value, w, fl, conversion, args) ==
  /\ pc = "specifier"
  /\ \E text \in {conversion} :
       /\ Emit(text)
       /\ conv' = [spec |-> Ch, value |-> value, flags |-> fl, width |-> w,
                   precision |-> precision, text |-> text]
  /\ pc' = "text" /\ pos' = pos + 1 /\ arg' = arg + args
  /\ UNCHANGED <<call, nth, fields>>

IntegerFlags ==
  LET upper == IF Ch = "X" THEN {"upper"} ELSE {}
      dropped == (IF Base[Ch] = 10 THEN {"hash"} ELSE {})
                 \cup (IF Ch \in {"d", "i"} THEN {} ELSE {"plus", "space"})
                 \cup (IF "precision" \in flags THEN {"zero"} ELSE {})
  IN  (flags \cup upper) \ dropped

Integer ==
  /\ Ch \in DOMAIN Base
  /\ LET fl == IntegerFlags
         n == call.args[arg].num
         v == IF Ch \in {"d", "i"} THEN Signed(n, Values(fl)) ELSE n % Values(fl)
     IN  Convert(v, width, fl,
                 ntoa(IF v < 0 THEN -v ELSE v, v < 0, Base[Ch], precision, width, fl), 1)

Float ==
  /\ Ch \in {"f", "F"}
  /\ LET fl == IF Ch = "F" THEN flags \cup {"upper"} ELSE flags
     IN  \E low \in BOOLEAN :
           Convert(call.args[arg], width, fl, ftoa(call.args[arg], low, precision, width, fl), 1)

Exponential ==
  /\ Ch \in FloatSpecs \ {"f", "F"}
  /\ LET fl == flags \cup (IF Ch \in {"g", "G"} THEN {"adapt"} ELSE {})
                     \cup (IF Ch \in {"E", "G"} THEN {"upper"} ELSE {})
         v == call.args[arg]
     IN  \E low \in BOOLEAN :
           Convert(v, width, fl, IF v.kind = "number" THEN etoa(v, low, precision, width, fl)
                                 ELSE special(v, width, fl), 1)

Char == /\ Ch = "c"
        /\ Convert(call.args[arg].chars, width, flags, pad(call.args[arg].chars, width, flags), 1)

\* The part of a string that is printed.
Shown(s) == IF "precision" \in flags
            THEN SubSeq(s, 1, IF precision < Len(s) THEN precision ELSE Len(s)) ELSE s

String == /\ Ch = "s"
          /\ Convert(call.args[arg].chars, width, flags,
                     pad(Shown(call.args[arg].chars), width, flags), 1)

\* As %X with all digits of a pointer.
Pointer ==
  /\ Ch = "p"
  /\ LET fl == flags \cup {"zero", "upper"}
         v == call.args[arg].num % LongValues
         w == NumDigits(SizeMax, 16, LongValues)
     IN  Convert(v, w, fl, ntoa(v, FALSE, 16, precision, w, fl), 1)

\* '%' and any other character stand for themselves.
Other == /\ Ch \notin Specifiers \cup {"NUL"}
         /\ Convert(0, 1, flags, <<Ch>>, 0)

\* The format ends inside a directive: its NUL is printed, and the loop goes on
\* with what lies behind it.
Cut == /\ pc = "specifier" /\ Ch = "NUL"
       /\ Emit(<<Ch>>)
       /\ pc' = "behind" /\ pos' = pos + 1
       /\ UNCHANGED <<call, arg, nth, fields, conv>>

\* out((char)0, buffer, idx < maxlen ? idx : maxlen - 1U, maxlen)
Terminate ==
  /\ pc = "text" /\ Ch = "NUL"
  /\ pc' = "done"
  /\ LET last == IF idx < maxlen THEN idx ELSE (maxlen - 1) % LongValues
     IN  memory' = IF out = "buffer" THEN out_buffer(memory, "NUL", last) ELSE memory
  /\ UNCHANGED <<call, pos, arg, nth, fields, idx, sent, conv>>

Next == \/ Literal \/ Percent \/ Flag \/ Width \/ Precision \/ Length
        \/ Integer \/ Float \/ Exponential \/ Char \/ String \/ Pointer \/ Other
        \/ Cut \/ Terminate

Spec == Init /\ [][Next]_vars

\* The core executes.
FairSpec == Spec /\ WF_vars(Next)

-----------------------------------------------------------------------------
(* What a directive stands for.                                            *)

\* The number that digits make, or a prefix of them.
ReadDigits(s, base) ==
  LET read[k \in 0 .. Len(s)] == IF k = 0 THEN 0 ELSE read[k - 1] * base + DigitValue(s[k])
  IN  read[Len(s)]

\* The number that a field holds, as an unsigned int.
Number(c, from, to) == ReadDigits(SubSeq(c.format, from, to - 1), 10) % IntValues

StarValue(c, i) == Signed(c.args[i].num, IntValues)

WidthOf(c, d) == IF IsStar(c, d.width, d.precision) THEN Abs(StarValue(c, d.arg))
                 ELSE Number(c, d.width, d.precision)

PrecisionOf(c, d) ==
  IF IsStar(c, d.precision + 1, d.length) THEN AtLeast0(StarValue(c, PrecisionArg(c, d)))
  ELSE Number(c, d.precision + 1, d.length)

LengthFlags(c, d) ==
  CASE d.length = d.specifier -> {}
    [] d.length < d.specifier /\ CharAt(c, d.length) = "l" ->
         IF d.specifier = d.length + 2 THEN {"long", "longlong"} ELSE {"long"}
    [] d.length < d.specifier /\ CharAt(c, d.length) = "h" ->
         IF d.specifier = d.length + 2 THEN {"short", "char"} ELSE {"short"}
    [] OTHER -> {"long"}

FlagsOf(c, d) ==
  {NameOf(CharAt(c, i)) : i \in d.at + 1 .. d.width - 1}
  \cup (IF IsStar(c, d.width, d.precision) /\ StarValue(c, d.arg) < 0 THEN {"left"} ELSE {})
  \cup (IF d.precision < d.length THEN {"precision"} ELSE {})
  \cup LengthFlags(c, d)

\* _vsnprintf reads a directive as it is meant, whatever came before it: when it
\* gets to the specifier, flags, width and precision are those of the piece, and
\* between two pieces it has used up their characters and arguments, no more and
\* no less (printf.cc:602-681).
ParsesBack ==
  LET d == call.pieces[nth]
  IN  /\ pc = "specifier" =>
           /\ flags = FlagsOf(call, d) /\ width = WidthOf(call, d)
           /\ precision = PrecisionOf(call, d)
      /\ pc = "text" => IF nth = 0 THEN pos = 1 /\ arg = 1
                        ELSE pos = NextAt(call, d) /\ arg = NextArg(call, d)

-----------------------------------------------------------------------------
(* What the text of a conversion says when it is read again.               *)

\* The text without blanks and sign.
Unsigned(text) ==
  LET kept == {i \in DOMAIN text : text[i] \notin {" ", "+", "-"}}
  IN  IF kept = {} THEN <<>> ELSE SubSeq(text, Min(kept), Max(kept))

IsInteger == conv.spec \in DOMAIN Base

\* The places of the buffer that an integer needs, digits only and in all.
Numeral == NumDigits(Abs(conv.value), Base[conv.spec], NtoaSize)

Prefix == IF "hash" \notin conv.flags \/ conv.value = 0 THEN 0
          ELSE IF conv.spec = "o" THEN 1 ELSE 2

Padded == "zero" \in conv.flags /\ "left" \notin conv.flags

Places == Max({Numeral, IF "left" \in conv.flags THEN 0 ELSE conv.precision,
               IF Padded THEN conv.width ELSE 0})

\* The prefix of '#' replaces digits when the number fills the field.
PrefixEats == /\ Prefix > 0 /\ "precision" \notin conv.flags
              /\ conv.width = Max({Numeral, IF Padded THEN conv.width ELSE 0})
              /\ Numeral > conv.width - Prefix

\* The last piece was an integer directive; its argument, and how many values the
\* type has that the directive names.
Argument == call.args[arg - 1].num

TypeSize == LET f == FlagsOf(call, call.pieces[nth])
            IN  IF "long" \in f THEN LongValues ELSE IF "char" \in f THEN CharValues
                ELSE IF "short" \in f THEN ShortValues ELSE IntValues

\* The text of an integer is the argument, as the type of the directive.  There are
\* three exceptions: the number with its sign, prefix and zeros is longer than the
\* buffer (printf.cc:235-240, 299), the prefix of '#' replaces digits (246-251), and 0
\* with a precision has no digits but those the precision adds (294).
ReadsBack ==
  pc = "text" /\ IsInteger /\ IsDirective(call, call.pieces[nth]) /\ Places + Prefix + 1 <= NtoaSize
  /\ ~PrefixEats =>
    LET text == Unsigned(conv.text)
        digits == SubSeq(text, 1 + Prefix, Len(text))
        read == ReadDigits(digits, Base[conv.spec])
        value == IF Contains(conv.text, "-") THEN -read ELSE read
    IN  /\ value % TypeSize = Argument % TypeSize
        /\ IF conv.spec \in {"d", "i"} THEN 2 * value \in -TypeSize .. TypeSize - 1
           ELSE value \in 0 .. TypeSize - 1
        /\ digits = <<>> => Argument % TypeSize = 0 /\ "precision" \in conv.flags

IsFloat == conv.spec \in FloatSpecs

IsNumber == IsFloat /\ conv.value.kind = "number"

\* A conversion fills its field.  It is shorter only where zeros are to fill it and
\* the buffer is too small for them or the value is no number, and where zero padding
\* keeps a place for a sign that a full buffer leaves out.
FillsField ==
  conv # NoConv /\ Len(conv.text) < conv.width =>
    /\ Padded
    /\ \/ IsFloat /\ ~IsNumber
       \/ conv.width > (IF IsFloat THEN FtoaSize ELSE NtoaSize)

\* What a number without exponent says: its digits, how many of them are decimals, and
\* its sign.
ReadFixed(text) ==
  LET number == Unsigned(text)
      points == {i \in DOMAIN number : number[i] = "."}
      front == IF points = {} THEN number ELSE SubSeq(number, 1, Max(points) - 1)
      behind == IF points = {} THEN <<>> ELSE SubSeq(number, Max(points) + 1, Len(number))
  IN  [digits |-> ReadDigits(front, 10) * pow10[Len(behind)] + ReadDigits(behind, 10),
       decimals |-> Len(behind), minus |-> Contains(text, "-")]

ExponentMarks(text) == {i \in DOMAIN text : text[i] \in {"e", "E"}}

\* What is in front of the exponent, and the exponent.
Mantissa(text) ==
  IF ExponentMarks(text) = {} THEN text ELSE SubSeq(text, 1, Min(ExponentMarks(text)) - 1)

ReadExponent(text) ==
  LET exponent == SubSeq(text, Min(ExponentMarks(text)) + 1, Len(text))
      power == ReadDigits(Unsigned(exponent), 10)
  IN  IF ExponentMarks(text) = {} THEN 0 ELSE IF Contains(exponent, "-") THEN -power ELSE power

\* The precision that was asked for.
Asked == IF "precision" \in conv.flags THEN conv.precision ELSE DefaultPrec

\* The number that _ftoa gets, without its sign: the argument, or its mantissa.
Converted(exponent) == Scaled([num |-> Abs(conv.value.num), den |-> conv.value.den], exponent)

\* The buffer holds the number, its sign, a digit that rounding adds and padding (%g may
\* add 4 decimals to the precision).
FloatFits(v) ==
  /\ Asked + (IF "adapt" \in conv.flags THEN 4 ELSE 0)
       + NumDigits(v.num \div v.den, 10, FtoaSize) + 3 <= FtoaSize
  /\ Padded => conv.width <= FtoaSize

\* Half-way between the largest fraction of the given decimals and the next one.
TieAtNines(v, decimals) ==
  decimals > 0 /\ 2 * (v.num % v.den) * pow10[decimals] = 2 * v.den * pow10[decimals] - v.den

\* %g chooses how many decimals there are.
HalfwayBehindNines(v) ==
  \E decimals \in IF "adapt" \in conv.flags THEN 1 .. MaxPrec
                  ELSE {IF Asked > MaxPrec THEN MaxPrec ELSE Asked} : TieAtNines(v, decimals)

\* digits * 10^shift is within half a unit of the number.
Nearest(v, digits, shift, unit) ==
  IF shift >= 0
  THEN 2 * Abs(digits * pow10[shift] * v.den - v.num) <= unit * pow10[shift] * v.den
  ELSE 2 * Abs(digits * v.den - v.num * pow10[-shift]) <= unit * v.den

\* The text of a number with a fraction is within half a unit of its last decimal
\* (the last one that is computed, if more than MaxPrec are asked for) of the argument,
\* and has its sign, also when the rounding carries through to a new digit
\* (printf.cc:390-412).  The exception: a half-way case is rounded up without the
\* carry, .95 to one decimal, and what is printed is 10 with zeros.
Rounded ==
  IsNumber =>
    LET e == ReadExponent(conv.text)
        m == ReadFixed(Mantissa(conv.text))
    IN  FloatFits(Converted(e)) /\ ~HalfwayBehindNines(Converted(e)) =>
          /\ IF conv.value.num = 0 THEN m.digits = 0
             ELSE Nearest(Converted(0), m.digits, e - m.decimals,
                          pow10[AtLeast0(m.decimals - MaxPrec)])
          /\ m.minus <=> conv.value.num < 0

\* _ftoa may take a power of ten from behind its table ("limit precision to 9",
\* printf.cc:379, ends when the buffer is full), but only when every place of the buffer
\* is a zero already: the text is these zeros, with blanks around them or an exponent
\* behind them, and does not depend on it.
PowerInTable ==
  IsNumber /\ conv.spec \in {"f", "F", "e", "E"} /\ PrecLeft(Asked) > MaxPrec =>
    \E blanks \in 0 .. Len(conv.text) - FtoaSize :
      /\ \A i \in 1 .. blanks : conv.text[i] = " "
      /\ \A i \in blanks + 1 .. blanks + FtoaSize : conv.text[i] = "0"
      /\ blanks + FtoaSize < Len(conv.text) =>
           conv.text[blanks + FtoaSize + 1] \in {" ", "e", "E"}

-----------------------------------------------------------------------------
\* snprintf keeps what printf.h promises of the buffer: at most count - 1 characters and a
\* NUL are stored, the rest of memory stays as it was, and a text that fits is stored whole
\* (printf.h:75-84, printf.cc:853-857).
Contract ==
  out = "buffer" /\ pc = "done" =>
    LET last == IF idx < maxlen THEN idx ELSE maxlen - 1
    IN  \A i \in DOMAIN memory :
          memory[i] = IF i < last THEN sent[i + 1] ELSE IF i = last THEN "NUL" ELSE "?"

\* Every call returns, so that a lock that is held over it is given back, unless it
\* has left a format that ends inside a directive.
Returns == <>(pc = "done" \/ pc = "behind")
=============================================================================
