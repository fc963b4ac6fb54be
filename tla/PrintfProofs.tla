----------------------------- MODULE PrintfProofs -----------------------------
(***************************************************************************)
(* For every well-formed format with its arguments, a buffer of any size   *)
(* and types and tables of any size: _vsnprintf reads its directives as    *)
(* they are meant, every conversion fills its field, the text of an        *)
(* integer says its argument, a power of ten from behind the table is not  *)
(* seen, and snprintf keeps its contract.                                  *)
(*                                                                         *)
(* The contract needs that every conversion yields a text, so its argument *)
(* must be the one its specifier asks for: the invariant says where in the *)
(* directive the parser is and what it has read of it.  The texts of       *)
(* numbers with a fraction are reasoned about by their lengths, what a     *)
(* full buffer leaves out included; those of integers by their characters. *)
(***************************************************************************)
EXTENDS Printf, WellFoundedInduction, TLAPS

-----------------------------------------------------------------------------
(* Sequences, of whatever elements.                                        *)

\* A sequence over some set is one over its own elements.
LEMMA IsSeq == ASSUME NEW S, NEW s \in Seq(S) PROVE IsSequence(s)
  BY DEF IsSequence, Range

\* A sequence is a function on its positions.
LEMMA SeqLaws ==
  ASSUME NEW s, IsSequence(s)
  PROVE  Len(s) \in Nat /\ DOMAIN s = 1 .. Len(s)
  BY DEF IsSequence

\* A sequence is determined by its length and elements.
LEMMA SeqSame ==
  ASSUME NEW s, NEW t, IsSequence(s), IsSequence(t), Len(s) = Len(t),
         \A i \in 1 .. Len(s) : s[i] = t[i]
  PROVE  s = t
<1>1. s \in Seq(Range(s) \cup Range(t)) /\ t \in Seq(Range(s) \cup Range(t))
  BY DEF IsSequence
<1>. QED
  BY <1>1

\* Concatenation.
LEMMA Joined ==
  ASSUME NEW s, NEW t, IsSequence(s), IsSequence(t)
  PROVE  /\ IsSequence(s \o t) /\ Len(s \o t) = Len(s) + Len(t)
         /\ \A i \in 1 .. Len(s) + Len(t) :
              (s \o t)[i] = IF i <= Len(s) THEN s[i] ELSE t[i - Len(s)]
<1>. DEFINE R == Range(s) \cup Range(t)
<1>1. s \in Seq(R) /\ t \in Seq(R)
  BY DEF IsSequence
<1>. HIDE DEF R
<1>2. s \o t \in Seq(R) /\ Len(s \o t) = Len(s) + Len(t)
  BY <1>1
<1>3. ASSUME NEW i \in 1 .. Len(s) + Len(t)
      PROVE  (s \o t)[i] = IF i <= Len(s) THEN s[i] ELSE t[i - Len(s)]
  BY <1>1
<1>. QED
  BY <1>2, <1>3, IsSeq

\* A prefix.
LEMMA Prefixed ==
  ASSUME NEW s, IsSequence(s), NEW n \in 0 .. Len(s)
  PROVE  /\ IsSequence(SubSeq(s, 1, n)) /\ Len(SubSeq(s, 1, n)) = n
         /\ \A i \in 1 .. n : SubSeq(s, 1, n)[i] = s[i]
<1>. DEFINE R == Range(s)
<1>1. s \in Seq(R)
  BY DEF IsSequence
<1>. HIDE DEF R
<1>2. SubSeq(s, 1, n) \in Seq(R) /\ Len(SubSeq(s, 1, n)) = n
  BY <1>1
<1>3. ASSUME NEW i \in 1 .. n PROVE SubSeq(s, 1, n)[i] = s[i]
  BY <1>1
<1>. QED
  BY <1>2, <1>3, IsSeq

\* A sequence of one element, and none.
LEMMA Single ==
  ASSUME NEW c
  PROVE  IsSequence(<<c>>) /\ Len(<<c>>) = 1 /\ <<c>>[1] = c
<1>1. <<c>> \in Seq({c})
  OBVIOUS
<1>. QED
  BY <1>1, IsSeq

LEMMA None == IsSequence(<<>>) /\ Len(<<>>) = 0
<1>1. <<>> \in Seq({})
  OBVIOUS
<1>. QED
  BY <1>1, IsSeq

\* The same character n times.
LEMMA TimesLaws ==
  ASSUME NEW c, NEW n \in Int
  PROVE  /\ IsSequence(Times(c, n)) /\ Len(Times(c, n)) = AtLeast0(n)
         /\ AtLeast0(n) \in Nat /\ AtLeast0(n) >= n
         /\ \A i \in 1 .. AtLeast0(n) : Times(c, n)[i] = c
<1>1. AtLeast0(n) \in Nat /\ AtLeast0(n) >= n
  BY DEF AtLeast0
<1>2. Times(c, n) \in Seq({c}) /\ Len(Times(c, n)) = AtLeast0(n)
  BY <1>1 DEF Times
<1>3. \A i \in 1 .. AtLeast0(n) : Times(c, n)[i] = c
  BY <1>1 DEF Times
<1>. QED
  BY <1>1, <1>2, <1>3, IsSeq

\* Back to front.
LEMMA Reversed ==
  ASSUME NEW s, IsSequence(s)
  PROVE  /\ IsSequence(Reverse(s)) /\ Len(Reverse(s)) = Len(s)
         /\ \A i \in 1 .. Len(s) : Reverse(s)[i] = s[Len(s) - i + 1]
<1>. DEFINE R == Range(s)
<1>1. s \in Seq(R)
  BY DEF IsSequence
<1>. HIDE DEF R
<1>2. Len(s) \in Nat /\ \A i \in 1 .. Len(s) : Len(s) - i + 1 \in 1 .. Len(s)
  BY <1>1
<1>3. \A i \in 1 .. Len(s) : s[Len(s) - i + 1] \in R
  BY <1>1, <1>2
<1>4. Reverse(s) \in Seq(R) /\ Len(Reverse(s)) = Len(s)
  BY <1>2, <1>3 DEF Reverse
<1>5. \A i \in 1 .. Len(s) : Reverse(s)[i] = s[Len(s) - i + 1]
  BY <1>2 DEF Reverse
<1>. QED
  BY <1>4, <1>5, IsSeq

-----------------------------------------------------------------------------
(* The parts of a conversion.                                              *)

\* The first n characters of a text, if it has as many.
Cap(text, n) == SubSeq(text, 1, IF Len(text) < n THEN Len(text) ELSE n)

\* Put appends what there is room for.
LEMMA PutLaws ==
  ASSUME NEW b, NEW s, NEW size \in Nat, IsSequence(b), IsSequence(s)
  PROVE  /\ IsSequence(Put(b, s, size)) /\ Len(Put(b, s, size)) <= size
         /\ Len(b) + Len(s) <= size => Len(Put(b, s, size)) = Len(b) + Len(s)
         /\ Len(b) + Len(s) > size => Len(Put(b, s, size)) = size
         /\ \A i \in 1 .. Len(Put(b, s, size)) : Put(b, s, size)[i] = (b \o s)[i]
<1>1. Put(b, s, size) = CHOOSE r \in {Cap(x, size) : x \in {b \o s}} : TRUE
  BY DEF Put, With, Cap
<1>2. ASSUME NEW v PROVE Cap(v, size) = CHOOSE r \in {Cap(x, size) : x \in {v}} : TRUE
  BY Zenon
<1>3. Put(b, s, size) = Cap(b \o s, size)
  BY <1>1, <1>2, Zenon
<1>. DEFINE t == b \o s
            n == IF Len(t) < size THEN Len(t) ELSE size
<1>4. IsSequence(t) /\ Len(t) = Len(b) + Len(s) /\ Len(b) \in Nat /\ Len(s) \in Nat
  BY Joined, SeqLaws
<1>5. n \in 0 .. Len(t)
  BY <1>4
<1>6. Put(b, s, size) = SubSeq(t, 1, n)
  BY <1>3 DEF Cap
<1>7. /\ IsSequence(SubSeq(t, 1, n)) /\ Len(SubSeq(t, 1, n)) = n
      /\ \A i \in 1 .. n : SubSeq(t, 1, n)[i] = t[i]
  BY <1>4, <1>5, Prefixed
<1>. QED
  BY <1>4, <1>6, <1>7

\* Some number is the least of a set of them.
LEMMA LeastNat ==
  ASSUME NEW S, S \subseteq Nat, S # {}
  PROVE  \E k \in S : \A j \in S : j >= k
<1>. DEFINE R == OpToRel(<, Nat)
<1>1. IsWellFoundedOn(R, Nat)
  BY NatLessThanWellFounded
<1>2. \A x, y \in Nat : y < x => <<y, x>> \in R
  BY Zenon DEF OpToRel
<1>. HIDE DEF R
<1>3. PICK k \in S : \A j \in S : ~ (<<j, k>> \in R)
  BY <1>1, WFMin, Zenon
<1>4. \A j \in S : ~(j < k)
  BY <1>2, <1>3, Zenon
<1>. QED
  BY <1>4

\* Every number has some digits, in every base.
LEMMA NumDigitsIs ==
  ASSUME NEW n, NEW base, NEW size \in Nat \ {0}
  PROVE  NumDigits(n, base, size) \in 1 .. size
<1>. DEFINE q == Quotients(n, base, size)
            Large(k) == q[k] = 0 \/ k = size
            Fits(k) == (q[k] = 0 \/ k = size) /\ (k > 1 => q[k - 1] # 0)
            S == {k \in 1 .. size : Large(k)}
<1>1. NumDigits(n, base, size) = CHOOSE k \in 1 .. size : Fits(k)
  BY Zenon DEF NumDigits, With
<1>2. S \subseteq Nat /\ size \in S
  OBVIOUS
<1>3. PICK k \in S : \A j \in S : j >= k
  BY <1>2, LeastNat
<1>4. k \in 1 .. size /\ Large(k) /\ (k > 1 => ~ (k - 1 \in S))
  BY <1>2, <1>3
<1>5. k > 1 => k - 1 \in 1 .. size
  BY <1>4
<1>6. k > 1 => ~Large(k - 1)
  BY <1>4, <1>5, Zenon
<1>7. Fits(k)
  BY <1>4, <1>6, Zenon
<1>. HIDE DEF Fits
<1>. QED
  BY <1>1, <1>4, <1>7, Zenon

\* The digits of a number are a text.
LEMMA DigitsIs ==
  ASSUME NEW n, NEW base, NEW size \in Nat \ {0}, NEW fl
  PROVE  /\ IsSequence(Digits(n, base, size, fl))
         /\ Len(Digits(n, base, size, fl)) = NumDigits(n, base, size)
         /\ Len(Digits(n, base, size, fl)) <= size
<1>. DEFINE q == Quotients(n, base, size)
            D(i) == (IF "upper" \in fl THEN Upper ELSE Lower)[1 + (q[i - 1] % base)]
            N == NumDigits(n, base, size)
            S == {D(i) : i \in 1 .. N}
<1>1. Digits(n, base, size, fl) = [i \in 1 .. N |-> D(i)]
  BY Zenon DEF Digits, With
<1>2. N \in Nat /\ N <= size
  BY NumDigitsIs
<1>. HIDE DEF D, N
<1>3. [i \in 1 .. N |-> D(i)] \in Seq(S) /\ Len([i \in 1 .. N |-> D(i)]) = N
  BY <1>2
<1>. QED
  BY <1>1, <1>2, <1>3, IsSeq DEF N

\* A sign is a character or nothing.
LEMMA SignIs ==
  ASSUME NEW negative, NEW fl
  PROVE  /\ IsSequence(Sign(negative, fl)) /\ Len(Sign(negative, fl)) \in 0 .. 1
         /\ Sign(negative, fl) # <<>> => Len(Sign(negative, fl)) = 1
<1>1. (\E c : Sign(negative, fl) = <<c>>) \/ Sign(negative, fl) = <<>>
  BY Zenon DEF Sign
<1>2. ASSUME NEW c, Sign(negative, fl) = <<c>>
      PROVE  IsSequence(Sign(negative, fl)) /\ Len(Sign(negative, fl)) = 1
  BY <1>2, Single
<1>3. ASSUME Sign(negative, fl) = <<>>
      PROVE  IsSequence(Sign(negative, fl)) /\ Len(Sign(negative, fl)) = 0
  BY <1>3, None
<1>4. \/ IsSequence(Sign(negative, fl)) /\ Len(Sign(negative, fl)) = 1
      \/ IsSequence(Sign(negative, fl)) /\ Len(Sign(negative, fl)) = 0 /\ Sign(negative, fl) = <<>>
  BY <1>1, <1>2, <1>3, Zenon
<1>. QED
  BY <1>4

\* The width that is left for the number.
LEMMA LessSignIs ==
  ASSUME NEW w \in Nat, NEW negative, NEW fl
  PROVE  /\ LessSign(w, negative, fl) \in Nat /\ LessSign(w, negative, fl) <= w
         /\ "left" \in fl \/ "zero" \notin fl => LessSign(w, negative, fl) = w
         /\ w <= LessSign(w, negative, fl) + Len(Sign(negative, fl))
<1>1. Len(Sign(negative, fl)) \in 0 .. 1
      /\ (Sign(negative, fl) # <<>> => Len(Sign(negative, fl)) = 1)
  BY SignIs
<1>. QED
  BY <1>1 DEF LessSign

\* The blanks in front of a text and behind it.
InFront(b, w, fl) == IF "left" \notin fl /\ "zero" \notin fl THEN Times(" ", w - Len(b)) ELSE <<>>

Behind(b, w, fl) == IF "left" \in fl THEN Times(" ", w - Len(b)) ELSE <<>>

Aligned(b, w, fl) == InFront(b, w, fl) \o Reverse(b) \o Behind(b, w, fl)

AllBlank(t) == \A i \in 1 .. Len(t) : t[i] = " "

\* The parts of what is put out.
LEMMA AlignedIs ==
  ASSUME NEW b, NEW w \in Nat, NEW fl, IsSequence(b)
  PROVE  /\ out_rev(b, w, fl) = (InFront(b, w, fl) \o Reverse(b)) \o Behind(b, w, fl)
         /\ IsSequence(InFront(b, w, fl)) /\ IsSequence(Behind(b, w, fl))
         /\ AllBlank(InFront(b, w, fl)) /\ AllBlank(Behind(b, w, fl))
         /\ Len(InFront(b, w, fl)) \in Nat /\ Len(Behind(b, w, fl)) \in Nat
         /\ "left" \in fl \/ "zero" \notin fl =>
              Len(InFront(b, w, fl)) + Len(Behind(b, w, fl)) >= w - Len(b)
<1>1. out_rev(b, w, fl) = CHOOSE r \in {Aligned(x, w, fl) : x \in {b}} : TRUE
  BY DEF out_rev, With, Aligned, InFront, Behind
<1>2. ASSUME NEW v PROVE Aligned(v, w, fl) = CHOOSE r \in {Aligned(x, w, fl) : x \in {v}} : TRUE
  BY Zenon
<1>3. out_rev(b, w, fl) = Aligned(b, w, fl)
  BY <1>1, <1>2, Zenon
<1>. DEFINE n == w - Len(b)
            T == Times(" ", n)
            E == <<>>
<1>4. n \in Int
  BY SeqLaws
<1>5. IsSequence(T) /\ Len(T) \in Nat /\ Len(T) >= n /\ AllBlank(T)
  BY <1>4, TimesLaws DEF AllBlank
<1>6. IsSequence(E) /\ Len(E) = 0 /\ AllBlank(E)
  BY None DEF AllBlank
<1>7. InFront(b, w, fl) = IF "left" \notin fl /\ "zero" \notin fl THEN T ELSE E
  BY DEF InFront
<1>8. Behind(b, w, fl) = IF "left" \in fl THEN T ELSE E
  BY DEF Behind
<1>9. out_rev(b, w, fl) = (InFront(b, w, fl) \o Reverse(b)) \o Behind(b, w, fl)
  BY <1>3 DEF Aligned
<1>. HIDE DEF n, T, E
<1>10. IsSequence(InFront(b, w, fl)) /\ IsSequence(Behind(b, w, fl))
  BY <1>5, <1>6, <1>7, <1>8
<1>11. AllBlank(InFront(b, w, fl)) /\ AllBlank(Behind(b, w, fl))
  BY <1>5, <1>6, <1>7, <1>8
<1>12. /\ Len(InFront(b, w, fl)) \in Nat /\ Len(Behind(b, w, fl)) \in Nat
       /\ "left" \in fl \/ "zero" \notin fl =>
            Len(InFront(b, w, fl)) + Len(Behind(b, w, fl)) >= n
  <2>1. CASE "left" \in fl
    BY <1>4, <1>5, <1>6, <1>7, <1>8, <2>1
  <2>2. CASE "left" \notin fl
    BY <1>4, <1>5, <1>6, <1>7, <1>8, <2>2
  <2>. QED
    BY <2>1, <2>2
<1>. QED
  BY <1>9, <1>10, <1>11, <1>12 DEF n

\* A text is put out with all its characters, and with blanks as far as the field goes.
LEMMA OutRevIs ==
  ASSUME NEW b, NEW w \in Nat, NEW fl, IsSequence(b)
  PROVE  /\ IsSequence(out_rev(b, w, fl)) /\ Len(out_rev(b, w, fl)) >= Len(b)
         /\ "left" \in fl \/ "zero" \notin fl => Len(out_rev(b, w, fl)) >= w
<1>. DEFINE f == InFront(b, w, fl)
            k == Behind(b, w, fl)
            r == Reverse(b)
<1>1. /\ out_rev(b, w, fl) = (f \o r) \o k
      /\ IsSequence(f) /\ IsSequence(k) /\ Len(f) \in Nat /\ Len(k) \in Nat
      /\ "left" \in fl \/ "zero" \notin fl => Len(f) + Len(k) >= w - Len(b)
  BY AlignedIs
<1>2. IsSequence(r) /\ Len(r) = Len(b) /\ Len(b) \in Nat
  BY Reversed, SeqLaws
<1>. HIDE DEF f, k, r
<1>3. IsSequence(f \o r) /\ Len(f \o r) = Len(f) + Len(r)
  BY <1>1, <1>2, Joined
<1>4. IsSequence((f \o r) \o k) /\ Len((f \o r) \o k) = Len(f \o r) + Len(k)
  BY <1>1, <1>3, Joined
<1>. QED
  BY <1>1, <1>2, <1>3, <1>4

\* %c and %s fill their field.
LEMMA PadIs ==
  ASSUME NEW t, NEW w \in Nat, NEW fl, IsSequence(t)
  PROVE  IsSequence(pad(t, w, fl)) /\ Len(pad(t, w, fl)) >= w
<1>. DEFINE n == w - Len(t)
            T == Times(" ", n)
<1>1. n \in Int /\ Len(t) \in Nat
  BY SeqLaws
<1>2. IsSequence(T) /\ Len(T) \in Nat /\ Len(T) >= n
  BY <1>1, TimesLaws
<1>3. pad(t, w, fl) = t \o T \/ pad(t, w, fl) = T \o t
  BY DEF pad
<1>. HIDE DEF T
<1>4. /\ IsSequence(t \o T) /\ Len(t \o T) = Len(t) + Len(T)
      /\ IsSequence(T \o t) /\ Len(T \o t) = Len(T) + Len(t)
  BY <1>2, Joined
<1>5. /\ IsSequence(pad(t, w, fl))
      /\ Len(pad(t, w, fl)) = Len(t) + Len(T) \/ Len(pad(t, w, fl)) = Len(T) + Len(t)
  BY <1>3, <1>4, Zenon
<1>. QED
  BY <1>1, <1>2, <1>5

\* The prefix of '#' makes no text shorter, and keeps it within the buffer.
LEMMA HashIs ==
  ASSUME NEW buf, NEW base, NEW prec, NEW w, NEW fl, IsSequence(buf), Len(buf) <= NtoaSize
  PROVE  /\ IsSequence(hash(buf, base, prec, w, fl))
         /\ Len(hash(buf, base, prec, w, fl)) <= NtoaSize
         /\ Len(hash(buf, base, prec, w, fl)) >= Len(buf)
<1>. DEFINE n == Len(buf)
            full == "precision" \notin fl /\ n > 0 /\ (n = prec \/ n = w)
            kept == IF ~full THEN n ELSE IF n > 1 /\ base = 16 THEN n - 2 ELSE n - 1
            letter == IF base = 16 THEN <<IF "upper" \in fl THEN "X" ELSE "x">>
                      ELSE IF base = 2 THEN <<"b">> ELSE <<>>
            zero == <<"0">>
            cut == SubSeq(buf, 1, kept)
            one == Put(cut, letter, NtoaSize)
<1>1. hash(buf, base, prec, w, fl) = Put(one, zero, NtoaSize)
  BY DEF hash
<1>2. n \in Nat /\ NtoaSize \in Nat
  BY SeqLaws, PrintfAssumption
<1>3. /\ kept \in 0 .. n
      /\ kept >= n - 1 \/ (kept = n - 2 /\ base = 16)
  BY <1>2
<1>4. IsSequence(cut) /\ Len(cut) = kept
  BY <1>3, Prefixed
<1>5. IsSequence(zero) /\ Len(zero) = 1
  BY Single
<1>6. base = 16 => IsSequence(letter) /\ Len(letter) = 1
  BY Single
<1>7. base = 2 => IsSequence(letter) /\ Len(letter) = 1
  BY Single
<1>8. base # 16 /\ base # 2 => IsSequence(letter) /\ Len(letter) = 0
  BY None
<1>9. IsSequence(letter) /\ Len(letter) \in 0 .. 1 /\ (base = 16 => Len(letter) = 1)
  <2>. HIDE DEF letter
  <2>. QED
    BY <1>6, <1>7, <1>8
<1>. HIDE DEF kept, letter, zero, cut
<1>10. /\ IsSequence(one) /\ Len(one) <= NtoaSize
       /\ Len(cut) + Len(letter) <= NtoaSize => Len(one) = Len(cut) + Len(letter)
       /\ Len(cut) + Len(letter) > NtoaSize => Len(one) = NtoaSize
  BY <1>2, <1>4, <1>9, PutLaws
<1>. HIDE DEF one
<1>11. /\ IsSequence(Put(one, zero, NtoaSize)) /\ Len(Put(one, zero, NtoaSize)) <= NtoaSize
       /\ Len(one) + Len(zero) <= NtoaSize => Len(Put(one, zero, NtoaSize)) = Len(one) + Len(zero)
       /\ Len(one) + Len(zero) > NtoaSize => Len(Put(one, zero, NtoaSize)) = NtoaSize
  BY <1>2, <1>5, <1>10, PutLaws
<1>12. Len(one) \in Nat
  BY <1>10, SeqLaws
<1>. QED
  BY <1>1, <1>2, <1>3, <1>4, <1>5, <1>9, <1>10, <1>11, <1>12

\* What a conversion of an integer or of a fixed fraction owes: a text that fills the
\* field, unless zeros were to fill it and the buffer is too small.
Filled(text, w, fl, size) ==
  /\ IsSequence(text)
  /\ Len(text) >= w \/ ("zero" \in fl /\ "left" \notin fl /\ w > size)

\* The last steps of _ntoa_format and _ftoa: sign and reversal of a number that is as
\* long as the width that is left, or fills the buffer.
LEMMA SignedIs ==
  ASSUME NEW b, NEW w \in Nat, NEW negative, NEW fl, NEW size \in Nat,
         IsSequence(b), Len(b) <= size,
         "zero" \in fl /\ "left" \notin fl =>
           Len(b) >= LessSign(w, negative, fl) \/ Len(b) = size
  PROVE  Filled(out_rev(Put(b, Sign(negative, fl), size), LessSign(w, negative, fl), fl),
                w, fl, size)
<1>. DEFINE sign == Sign(negative, fl)
            w1 == LessSign(w, negative, fl)
            n == Put(b, sign, size)
            text == out_rev(n, w1, fl)
<1>1. IsSequence(sign) /\ Len(sign) \in Nat
  BY SignIs
<1>2. /\ w1 \in Nat /\ w1 <= w /\ w <= w1 + Len(sign)
      /\ "left" \in fl \/ "zero" \notin fl => w1 = w
  BY LessSignIs
<1>. HIDE DEF sign, w1
<1>3. /\ IsSequence(n)
      /\ Len(b) + Len(sign) <= size => Len(n) = Len(b) + Len(sign)
      /\ Len(b) + Len(sign) > size => Len(n) = size
  BY <1>1, PutLaws
<1>. HIDE DEF n
<1>4. /\ IsSequence(text) /\ Len(text) >= Len(n)
      /\ "left" \in fl \/ "zero" \notin fl => Len(text) >= w1
  BY <1>2, <1>3, OutRevIs
<1>5. Len(text) \in Nat /\ Len(n) \in Nat /\ Len(b) \in Nat
  BY <1>3, <1>4, SeqLaws
<1>. HIDE DEF text
<1>6. Len(text) >= w \/ ("zero" \in fl /\ "left" \notin fl /\ w > size)
  <2>1. CASE "left" \in fl \/ "zero" \notin fl
    BY <1>2, <1>4, <2>1
  <2>2. CASE "zero" \in fl /\ "left" \notin fl
    <3>1. Len(n) >= w \/ w > size
      BY <1>1, <1>2, <1>3, <1>5, <2>2 DEF w1
    <3>. QED
      BY <1>4, <1>5, <2>2, <3>1
  <2>. QED
    BY <2>1, <2>2
<1>7. Filled(text, w, fl, size)
  BY <1>4, <1>6 DEF Filled
<1>. QED
  BY <1>7 DEF text, n, sign, w1

\* Zeros that are put behind a number.
LEMMA ZerosIs ==
  ASSUME NEW b, NEW n \in Int, NEW size \in Nat, IsSequence(b), Len(b) <= size
  PROVE  LET t == Put(b, Times("0", n - Len(b)), size)
         IN  /\ IsSequence(t) /\ Len(t) <= size /\ Len(t) >= Len(b)
             /\ Len(t) >= n \/ Len(t) = size
<1>. DEFINE k == n - Len(b)
            z == Times("0", k)
<1>1. k \in Int /\ Len(b) \in Nat
  BY SeqLaws
<1>2. IsSequence(z) /\ Len(z) \in Nat /\ Len(z) >= k
  BY <1>1, TimesLaws
<1>. HIDE DEF z
<1>3. /\ IsSequence(Put(b, z, size)) /\ Len(Put(b, z, size)) <= size
      /\ Len(b) + Len(z) <= size => Len(Put(b, z, size)) = Len(b) + Len(z)
      /\ Len(b) + Len(z) > size => Len(Put(b, z, size)) = size
  BY <1>2, PutLaws
<1>. QED
  BY <1>1, <1>2, <1>3 DEF z

\* _ntoa_format.
LEMMA NtoaFormatIs ==
  ASSUME NEW buf, NEW negative, NEW base, NEW prec \in Int, NEW w \in Nat, NEW fl,
         IsSequence(buf), Len(buf) <= NtoaSize
  PROVE  Filled(ntoa_format(buf, negative, base, prec, w, fl), w, fl, NtoaSize)
<1>. DEFINE w1 == LessSign(w, negative, fl)
            precZeros == Put(buf, Times("0", prec - Len(buf)), NtoaSize)
            toPrec == IF "left" \in fl THEN buf ELSE precZeros
            widthZeros == Put(toPrec, Times("0", w1 - Len(toPrec)), NtoaSize)
            toWidth == IF "left" \in fl \/ "zero" \notin fl THEN toPrec ELSE widthZeros
            hashed == hash(toWidth, base, prec, w1, fl)
            prefixed == IF "hash" \in fl THEN hashed ELSE toWidth
<1>1. ntoa_format(buf, negative, base, prec, w, fl)
        = out_rev(Put(prefixed, Sign(negative, fl), NtoaSize), w1, fl)
  BY DEF ntoa_format
<1>2. NtoaSize \in Nat /\ w1 \in Nat /\ w1 \in Int
  BY PrintfAssumption, LessSignIs
<1>. HIDE DEF w1
<1>3. IsSequence(precZeros) /\ Len(precZeros) <= NtoaSize
  BY <1>2, ZerosIs
<1>. HIDE DEF precZeros
<1>4. IsSequence(toPrec) /\ Len(toPrec) <= NtoaSize
  BY <1>3
<1>. HIDE DEF toPrec
<1>5. /\ IsSequence(widthZeros) /\ Len(widthZeros) <= NtoaSize
      /\ Len(widthZeros) >= w1 \/ Len(widthZeros) = NtoaSize
  BY <1>2, <1>4, ZerosIs
<1>. HIDE DEF widthZeros
<1>6. /\ IsSequence(toWidth) /\ Len(toWidth) <= NtoaSize
      /\ "zero" \in fl /\ "left" \notin fl => Len(toWidth) >= w1 \/ Len(toWidth) = NtoaSize
  BY <1>4, <1>5
<1>. HIDE DEF toWidth
<1>7. IsSequence(hashed) /\ Len(hashed) <= NtoaSize /\ Len(hashed) >= Len(toWidth)
  BY <1>6, HashIs
<1>. HIDE DEF hashed
<1>8. Len(hashed) \in Nat /\ Len(toWidth) \in Nat
  BY <1>6, <1>7, SeqLaws
<1>9. /\ IsSequence(prefixed) /\ Len(prefixed) <= NtoaSize
      /\ "zero" \in fl /\ "left" \notin fl => Len(prefixed) >= w1 \/ Len(prefixed) = NtoaSize
  BY <1>2, <1>6, <1>7, <1>8
<1>. HIDE DEF prefixed
<1>10. Filled(out_rev(Put(prefixed, Sign(negative, fl), NtoaSize), w1, fl), w, fl, NtoaSize)
  BY <1>2, <1>9, SignedIs DEF w1
<1>. QED
  BY <1>1, <1>10

\* _ntoa_long.
LEMMA NtoaIs ==
  ASSUME NEW value, NEW negative, NEW base, NEW prec \in Int, NEW w \in Nat, NEW fl
  PROVE  Filled(ntoa(value, negative, base, prec, w, fl), w, fl, NtoaSize)
<1>. DEFINE ds == Digits(value, base, NtoaSize, fl)
            none == <<>>
            buf == IF "precision" \notin fl \/ value # 0 THEN ds ELSE none
            fl1 == IF value = 0 THEN fl \ {"hash"} ELSE fl
<1>1. ntoa(value, negative, base, prec, w, fl) = ntoa_format(buf, negative, base, prec, w, fl1)
  BY DEF ntoa
<1>2. NtoaSize \in Nat \ {0} /\ IsSequence(none) /\ Len(none) = 0
  BY PrintfAssumption, None
<1>3. IsSequence(ds) /\ Len(ds) <= NtoaSize
  BY <1>2, DigitsIs
<1>. HIDE DEF ds, none
<1>4. IsSequence(buf) /\ Len(buf) <= NtoaSize
  BY <1>2, <1>3
<1>5. ("zero" \in fl1 <=> "zero" \in fl) /\ ("left" \in fl1 <=> "left" \in fl)
  OBVIOUS
<1>. HIDE DEF buf, fl1
<1>6. Filled(ntoa_format(buf, negative, base, prec, w, fl1), w, fl1, NtoaSize)
  BY <1>4, NtoaFormatIs
<1>. QED
  BY <1>1, <1>5, <1>6 DEF Filled

\* A text that is zeros only, as many as the buffer of _ftoa holds, with blanks.
Starts(text, blanks) ==
  /\ \A i \in 1 .. blanks : text[i] = " "
  /\ \A i \in blanks + 1 .. blanks + FtoaSize : text[i] = "0"

Zeros(text) ==
  \E blanks \in 0 .. Len(text) - FtoaSize :
    /\ Starts(text, blanks)
    /\ \A i \in blanks + FtoaSize + 1 .. Len(text) : text[i] = " "

\* Nothing is put into a full buffer.
LEMMA FullIs ==
  ASSUME NEW b, NEW s, NEW size \in Nat, IsSequence(b), IsSequence(s), Len(b) = size
  PROVE  Put(b, s, size) = b
<1>1. Len(b) \in Nat /\ Len(s) \in Nat
  BY SeqLaws
<1>2. /\ IsSequence(Put(b, s, size)) /\ Len(Put(b, s, size)) = Len(b)
      /\ \A i \in 1 .. Len(b) : Put(b, s, size)[i] = (b \o s)[i]
  BY <1>1, PutLaws
<1>3. \A i \in 1 .. Len(b) : (b \o s)[i] = b[i]
  BY <1>1, Joined
<1>. QED
  BY <1>2, <1>3, SeqSame

\* Zeros between blanks.
LEMMA ZerosBetween ==
  ASSUME NEW f, NEW r, NEW k, IsSequence(f), IsSequence(r), IsSequence(k),
         AllBlank(f), AllBlank(k), Len(r) = FtoaSize, \A i \in 1 .. Len(r) : r[i] = "0"
  PROVE  Zeros((f \o r) \o k)
<1>. DEFINE fr == f \o r
            text == fr \o k
<1>1. Len(f) \in Nat /\ Len(k) \in Nat /\ Len(r) \in Nat /\ FtoaSize \in Nat
  BY SeqLaws, PrintfAssumption
<1>2. /\ IsSequence(fr) /\ Len(fr) = Len(f) + Len(r)
      /\ \A i \in 1 .. Len(f) + Len(r) : fr[i] = IF i <= Len(f) THEN f[i] ELSE r[i - Len(f)]
  BY Joined
<1>. HIDE DEF fr
<1>3. /\ Len(text) = Len(fr) + Len(k)
      /\ \A i \in 1 .. Len(fr) + Len(k) : text[i] = IF i <= Len(fr) THEN fr[i] ELSE k[i - Len(fr)]
  BY <1>2, Joined
<1>. HIDE DEF text
<1>4. Starts(text, Len(f))
  <2>1. ASSUME NEW i \in 1 .. Len(f) PROVE text[i] = " "
    <3>1. i \in 1 .. Len(f) + Len(r) /\ i \in 1 .. Len(fr) + Len(k) /\ i <= Len(fr) /\ i <= Len(f)
      BY <1>1, <1>2, <1>3
    <3>. QED
      BY <1>2, <1>3, <3>1 DEF AllBlank
  <2>2. ASSUME NEW i \in Len(f) + 1 .. Len(f) + FtoaSize PROVE text[i] = "0"
    <3>1. i - Len(f) \in 1 .. Len(r) /\ i \in 1 .. Len(f) + Len(r) /\ ~(i <= Len(f))
          /\ i \in 1 .. Len(fr) + Len(k) /\ i <= Len(fr)
      BY <1>1, <1>2, <1>3
    <3>. QED
      BY <1>2, <1>3, <3>1
  <2>. QED
    BY <2>1, <2>2 DEF Starts
<1>7. ASSUME NEW i \in Len(f) + FtoaSize + 1 .. Len(text) PROVE text[i] = " "
  <2>1. i - Len(fr) \in 1 .. Len(k) /\ i \in 1 .. Len(fr) + Len(k) /\ ~(i <= Len(fr))
    BY <1>1, <1>2, <1>3
  <2>. QED
    BY <1>3, <2>1 DEF AllBlank
<1>5. Len(f) \in 0 .. Len(text) - FtoaSize
  BY <1>1, <1>2, <1>3
<1>6. Zeros(text)
  BY <1>4, <1>5, <1>7, Zenon DEF Zeros
<1>. QED
  BY <1>6 DEF text, fr

\* A buffer full of zeros is put out as zeros.
LEMMA ZerosOut ==
  ASSUME NEW b, NEW w \in Nat, NEW fl, IsSequence(b), Len(b) = FtoaSize,
         \A i \in 1 .. Len(b) : b[i] = "0"
  PROVE  Zeros(out_rev(b, w, fl))
<1>. DEFINE f == InFront(b, w, fl)
            k == Behind(b, w, fl)
            r == Reverse(b)
<1>1. /\ out_rev(b, w, fl) = (f \o r) \o k
      /\ IsSequence(f) /\ IsSequence(k) /\ AllBlank(f) /\ AllBlank(k)
  BY AlignedIs
<1>2. IsSequence(r) /\ Len(r) = FtoaSize /\ FtoaSize \in Nat
  BY Reversed, PrintfAssumption
<1>3. \A i \in 1 .. Len(r) : r[i] = "0"
  <2>1. \A i \in 1 .. FtoaSize : FtoaSize - i + 1 \in 1 .. FtoaSize
    BY <1>2
  <2>. QED
    BY <1>2, <2>1, Reversed
<1>. HIDE DEF f, k, r
<1>4. Zeros((f \o r) \o k)
  BY <1>1, <1>2, <1>3, ZerosBetween
<1>. QED
  BY <1>1, <1>4

\* If the precision that is left has no power of ten in the table, the buffer is full.
LEMMA PrecLeftIs ==
  ASSUME NEW asked \in Nat
  PROVE  /\ PrecLeft(asked) \in Int
         /\ PrecLeft(asked) > MaxPrec => asked - PrecLeft(asked) = FtoaSize
  BY PrintfAssumption DEF PrecLeft, AtLeast0

\* The precision that a conversion of a fraction is asked for.
Wanted(prec, fl) == IF "precision" \in fl THEN prec ELSE DefaultPrec

\* The digits behind the point and the point are a text.
LEMMA FractionIs ==
  ASSUME NEW left \in Int, NEW n, NEW fl
  PROVE  LET count == left - NumDigits(n, 10, FtoaSize)
             zeros == Times("0", IF count < 0 THEN FtoaSize ELSE count)
         IN  IsSequence(IF left = 0 THEN <<>> ELSE Digits(n, 10, FtoaSize, fl) \o zeros \o <<".">>)
<1>. DEFINE count == left - NumDigits(n, 10, FtoaSize)
            m == IF count < 0 THEN FtoaSize ELSE count
            zeros == Times("0", m)
            point == <<".">>
            none == <<>>
            ds == Digits(n, 10, FtoaSize, fl)
            all == (ds \o zeros) \o point
<1>1. m \in Int
  <2>1. NumDigits(n, 10, FtoaSize) \in Int /\ FtoaSize \in Int
    BY NumDigitsIs, PrintfAssumption
  <2>. QED
    BY <2>1
<1>2. IsSequence(zeros) /\ IsSequence(point) /\ IsSequence(none) /\ IsSequence(ds)
  BY <1>1, PrintfAssumption, TimesLaws, Single, None, DigitsIs
<1>. HIDE DEF zeros, point, none, ds
<1>3. IsSequence(ds \o zeros)
  BY <1>2, Joined
<1>4. IsSequence(all)
  BY <1>2, <1>3, Joined
<1>. HIDE DEF all
<1>5. IsSequence(IF left = 0 THEN none ELSE all)
  BY <1>2, <1>4
<1>. QED
  BY <1>5 DEF all, none, point, zeros, ds

\* _ftoa for a value in the range of an int.
LEMMA FtoaFixedIs ==
  ASSUME NEW v, NEW prec \in Nat, NEW w \in Nat, NEW fl
  PROVE  /\ Filled(ftoa_fixed(v, prec, w, fl), w, fl, FtoaSize)
         /\ PrecLeft(Wanted(prec, fl)) > MaxPrec => Zeros(ftoa_fixed(v, prec, w, fl))
<1>. DEFINE a == IF v.num < 0 THEN -v.num ELSE v.num
            negative == v.num < 0
            asked == IF "precision" \in fl THEN prec ELSE DefaultPrec
            left == PrecLeft(asked)
            pow == IF left <= MaxPrec THEN pow10[left] ELSE BehindTable
            r == round(a, v.den, pow)
            even == 2 * (a - r[1] * v.den) >= v.den /\ r[1] % 2 = 1
            whole == IF left = 0 /\ even THEN r[1] + 1 ELSE r[1]
            count == left - NumDigits(r[2], 10, FtoaSize)
            zeros == Times("0", IF count < 0 THEN FtoaSize ELSE count)
            fraction == IF left = 0 THEN <<>>
                        ELSE Digits(r[2], 10, FtoaSize, fl) \o zeros \o <<".">>
            first == Times("0", asked - left)
            digits == Digits(whole, 10, FtoaSize, fl)
            behind == Put(first, fraction, FtoaSize)
            number == Put(behind, digits, FtoaSize)
            w1 == LessSign(w, negative, fl)
            widthZeros == Put(number, Times("0", w1 - Len(number)), FtoaSize)
            padded == IF "left" \in fl \/ "zero" \notin fl THEN number ELSE widthZeros
            full == Put(padded, Sign(negative, fl), FtoaSize)
<1>1. ftoa_fixed(v, prec, w, fl) = out_rev(full, w1, fl)
  BY DEF ftoa_fixed
<1>2. asked \in Nat /\ FtoaSize \in Nat /\ asked = Wanted(prec, fl)
  BY PrintfAssumption DEF Wanted
<1>3. w1 \in Nat /\ w1 \in Int /\ IsSequence(Sign(negative, fl))
  BY LessSignIs, SignIs
<1>. HIDE DEF asked, negative
<1>4. left \in Int /\ (left > MaxPrec => asked - left = FtoaSize)
  BY <1>2, PrecLeftIs
<1>. HIDE DEF left, r, w1
<1>5. IsSequence(fraction)
  BY <1>4, FractionIs
<1>6. /\ IsSequence(first) /\ IsSequence(digits)
      /\ left > MaxPrec => Len(first) = FtoaSize /\ \A i \in 1 .. Len(first) : first[i] = "0"
  <2>1. asked - left \in Int
    BY <1>2, <1>4
  <2>. HIDE DEF whole
  <2>2. IsSequence(digits)
    BY PrintfAssumption, DigitsIs
  <2>3. /\ IsSequence(first) /\ Len(first) = AtLeast0(asked - left)
        /\ \A i \in 1 .. AtLeast0(asked - left) : first[i] = "0"
    BY <2>1, TimesLaws
  <2>4. AtLeast0(FtoaSize) = FtoaSize
    BY <1>2 DEF AtLeast0
  <2>. HIDE DEF first
  <2>. QED
    BY <1>4, <2>2, <2>3, <2>4
<1>. HIDE DEF first, fraction, digits
<1>7. IsSequence(behind) /\ Len(behind) <= FtoaSize
  BY <1>2, <1>5, <1>6, PutLaws
<1>8. left > MaxPrec => behind = first
  BY <1>2, <1>5, <1>6, FullIs
<1>. HIDE DEF behind
<1>9. IsSequence(number) /\ Len(number) <= FtoaSize
  BY <1>2, <1>6, <1>7, PutLaws
<1>10. left > MaxPrec => number = first
  <2>. SUFFICES ASSUME left > MaxPrec PROVE Put(first, digits, FtoaSize) = first
    BY <1>8
  <2>. QED
    BY <1>2, <1>6, FullIs
<1>. HIDE DEF number
<1>11. /\ IsSequence(widthZeros) /\ Len(widthZeros) <= FtoaSize
       /\ Len(widthZeros) >= w1 \/ Len(widthZeros) = FtoaSize
  BY <1>2, <1>3, <1>9, ZerosIs
<1>12. left > MaxPrec => widthZeros = first
  <2>. SUFFICES ASSUME left > MaxPrec
                PROVE  Put(first, Times("0", w1 - Len(first)), FtoaSize) = first
    BY <1>10
  <2>1. w1 - Len(first) \in Int
    BY <1>2, <1>3, <1>6
  <2>2. IsSequence(Times("0", w1 - Len(first)))
    BY <2>1, TimesLaws
  <2>. QED
    BY <1>2, <1>6, <2>2, FullIs
<1>. HIDE DEF widthZeros
<1>13. /\ IsSequence(padded) /\ Len(padded) <= FtoaSize
       /\ "zero" \in fl /\ "left" \notin fl => Len(padded) >= w1 \/ Len(padded) = FtoaSize
       /\ left > MaxPrec => padded = first
  BY <1>9, <1>10, <1>11, <1>12
<1>. HIDE DEF padded
<1>14. Filled(out_rev(full, w1, fl), w, fl, FtoaSize)
  BY <1>2, <1>13, SignedIs DEF w1
<1>15. ASSUME left > MaxPrec
       PROVE  Zeros(out_rev(full, w1, fl))
  <2>1. Put(first, Sign(negative, fl), FtoaSize) = first
    BY <1>2, <1>3, <1>6, <1>15, FullIs
  <2>2. full = first
    BY <1>13, <1>15, <2>1
  <2>3. Zeros(out_rev(first, w1, fl))
    BY <1>3, <1>6, <1>15, ZerosOut
  <2>. QED
    BY <2>2, <2>3
<1>. QED
  BY <1>1, <1>2, <1>14, <1>15 DEF left

\* Values that are no numbers fill their field with blanks, if zeros are not asked for.
LEMMA SpecialIs ==
  ASSUME NEW v, NEW w \in Nat, NEW fl, v.kind \in {"nan", "inf", "-inf"}
  PROVE  /\ IsSequence(special(v, w, fl))
         /\ Len(special(v, w, fl)) >= w \/ ("zero" \in fl /\ "left" \notin fl)
<1>. DEFINE nan == <<"n", "a", "n">>
            minus == <<"f", "n", "i", "-">>
            inf == <<"f", "n", "i">>
            plus == IF "plus" \in fl THEN <<"+">> ELSE <<>>
            text == CASE v.kind = "nan" -> nan [] v.kind = "-inf" -> minus
                      [] v.kind = "inf" -> inf \o plus
<1>1. special(v, w, fl) = out_rev(text, w, fl)
  BY DEF special
<1>2. IsSequence(nan)
  <2>1. nan \in Seq({"n", "a"})
    OBVIOUS
  <2>. QED
    BY <2>1, IsSeq
<1>3. IsSequence(minus)
  <2>1. minus \in Seq({"f", "n", "i", "-"})
    OBVIOUS
  <2>. QED
    BY <2>1, IsSeq
<1>4. IsSequence(inf)
  <2>1. inf \in Seq({"f", "n", "i"})
    OBVIOUS
  <2>. QED
    BY <2>1, IsSeq
<1>5. IsSequence(plus)
  BY Single, None, Zenon
<1>. HIDE DEF nan, minus, inf, plus
<1>6. IsSequence(inf \o plus)
  BY <1>4, <1>5, Joined
<1>7. IsSequence(text)
  BY <1>2, <1>3, <1>6
<1>. HIDE DEF text
<1>8. /\ IsSequence(out_rev(text, w, fl))
      /\ "left" \in fl \/ "zero" \notin fl => Len(out_rev(text, w, fl)) >= w
  BY <1>7, OutRevIs
<1>. QED
  BY <1>1, <1>8

\* k decimals make a number below 1 have a digit in front of the point.
PlacesFit(a, den, k) ==
  (a * pow10[k] >= den \/ k = MaxPlaces) /\ (k > 1 => ~(a * pow10[k - 1] >= den))

PlacesOf(a, den) == CHOOSE k \in 1 .. MaxPlaces : PlacesFit(a, den, k)

\* There are such.
LEMMA PlacesAre ==
  ASSUME NEW a, NEW den
  PROVE  PlacesOf(a, den) \in 1 .. MaxPlaces /\ PlacesFit(a, den, PlacesOf(a, den))
<1>. DEFINE Large(k) == a * pow10[k] >= den \/ k = MaxPlaces
            S == {k \in 1 .. MaxPlaces : Large(k)}
<1>1. MaxPlaces \in Nat /\ MaxPlaces >= 1
  BY DEF MaxPlaces
<1>2. S \subseteq Nat /\ MaxPlaces \in S
  BY <1>1
<1>3. PICK k \in S : \A j \in S : j >= k
  BY <1>2, LeastNat
<1>4. k \in 1 .. MaxPlaces /\ Large(k) /\ (k > 1 => ~ (k - 1 \in S))
  BY <1>1, <1>3
<1>5. k > 1 => k - 1 \in 1 .. MaxPlaces
  BY <1>1, <1>4
<1>6. k > 1 => ~Large(k - 1)
  BY <1>4, <1>5, Zenon
<1>7. PlacesFit(a, den, k)
  BY <1>4, <1>6, Zenon DEF PlacesFit
<1>. QED
  BY <1>4, <1>7, Zenon DEF PlacesOf

\* The exponent is a number.
LEMMA ExponentIs ==
  ASSUME NEW a, NEW den, NEW low
  PROVE  Exponent(a, den, low) \in Int
<1>. DEFINE e == NumDigits(a \div den, 10, MaxDigits) - 1
            c == PlacesOf(a, den)
<1>1. \/ Exponent(a, den, low) = -308 \/ Exponent(a, den, low) = e
      \/ Exponent(a, den, low) = e - 1 \/ Exponent(a, den, low) = -c
  BY Zenon DEF Exponent, PlacesOf, PlacesFit
<1>2. NumDigits(a \div den, 10, MaxDigits) \in 1 .. MaxDigits /\ MaxDigits \in Nat
  BY NumDigitsIs, MaxDigits \in Nat \ {0} DEF MaxDigits
<1>3. e \in Int
  BY <1>2
<1>4. c \in 1 .. MaxPlaces /\ MaxPlaces \in Nat
  BY PlacesAre DEF MaxPlaces
<1>. HIDE DEF c, e
<1>. QED
  BY <1>1, <1>3, <1>4

\* What PowerInTable says of a text, and the same with something behind the zeros.
NoPower(text) ==
  \E blanks \in 0 .. Len(text) - FtoaSize :
    /\ Starts(text, blanks)
    /\ blanks + FtoaSize < Len(text) => text[blanks + FtoaSize + 1] \in {" ", "e", "E"}

Marked(text) ==
  \E blanks \in 0 .. Len(text) - FtoaSize - 1 :
    Starts(text, blanks) /\ text[blanks + FtoaSize + 1] \in {" ", "e", "E"}

LEMMA ZerosNoPower ==
  ASSUME NEW t, Zeros(t), IsSequence(t)
  PROVE  NoPower(t)
<1>1. FtoaSize \in Nat /\ Len(t) \in Nat
  BY PrintfAssumption, SeqLaws
<1>2. PICK b \in 0 .. Len(t) - FtoaSize :
        Starts(t, b) /\ \A i \in b + FtoaSize + 1 .. Len(t) : t[i] = " "
  BY DEF Zeros
<1>3. b + FtoaSize < Len(t) => b + FtoaSize + 1 \in b + FtoaSize + 1 .. Len(t)
  BY <1>1
<1>. QED
  BY <1>2, <1>3, Zenon DEF NoPower

LEMMA MarkedNoPower ==
  ASSUME NEW t, Marked(t), IsSequence(t)
  PROVE  NoPower(t)
<1>1. FtoaSize \in Nat /\ Len(t) \in Nat
  BY PrintfAssumption, SeqLaws
<1>2. PICK b \in 0 .. Len(t) - FtoaSize - 1 :
        Starts(t, b) /\ t[b + FtoaSize + 1] \in {" ", "e", "E"}
  BY DEF Marked
<1>3. b \in 0 .. Len(t) - FtoaSize
  BY <1>1
<1>. QED
  BY <1>2, <1>3 DEF NoPower

\* The start of a text stays when more is put behind it.
LEMMA StartsMore ==
  ASSUME NEW m, NEW c, IsSequence(m), IsSequence(c), NEW b \in 0 .. Len(m) - FtoaSize,
         Starts(m, b)
  PROVE  Starts(m \o c, b)
<1>1. FtoaSize \in Nat /\ Len(m) \in Nat /\ Len(c) \in Nat
  BY PrintfAssumption, SeqLaws
<1>. DEFINE t == m \o c
<1>2. \A i \in 1 .. Len(m) + Len(c) : t[i] = IF i <= Len(m) THEN m[i] ELSE c[i - Len(m)]
  BY Joined
<1>. HIDE DEF t
<1>3. \A i \in 1 .. b + FtoaSize : t[i] = m[i]
  BY <1>1, <1>2
<1>4. \A i \in 1 .. b : i \in 1 .. b + FtoaSize
  BY <1>1
<1>5. \A i \in b + 1 .. b + FtoaSize : i \in 1 .. b + FtoaSize
  BY <1>1
<1>6. Starts(t, b)
  BY <1>3, <1>4, <1>5, Zenon DEF Starts
<1>. QED
  BY <1>6 DEF t

\* Behind zeros comes the mark of an exponent, and more behind that.
LEMMA MarkedIs ==
  ASSUME NEW m, NEW c, IsSequence(m), IsSequence(c), Zeros(m), Len(c) = 1, c[1] \in {"e", "E"}
  PROVE  Marked(m \o c)
<1>1. FtoaSize \in Nat /\ Len(m) \in Nat
  BY PrintfAssumption, SeqLaws
<1>2. PICK b \in 0 .. Len(m) - FtoaSize :
        Starts(m, b) /\ \A i \in b + FtoaSize + 1 .. Len(m) : m[i] = " "
  BY DEF Zeros
<1>. DEFINE t == m \o c
<1>3. /\ Len(t) = Len(m) + 1
      /\ \A i \in 1 .. Len(m) + 1 : t[i] = IF i <= Len(m) THEN m[i] ELSE c[i - Len(m)]
  BY Joined
<1>4. Starts(t, b)
  BY <1>2, StartsMore
<1>. HIDE DEF t
<1>5. b \in 0 .. Len(t) - FtoaSize - 1
  BY <1>1, <1>3
<1>6. t[b + FtoaSize + 1] \in {" ", "e", "E"}
  <2>1. CASE b + FtoaSize < Len(m)
    <3>1. b + FtoaSize + 1 \in b + FtoaSize + 1 .. Len(m) /\ b + FtoaSize + 1 \in 1 .. Len(m) + 1
      BY <1>1, <2>1
    <3>2. t[b + FtoaSize + 1] = m[b + FtoaSize + 1]
      BY <1>1, <1>3, <3>1
    <3>. QED
      BY <1>2, <3>1, <3>2, Zenon
  <2>2. CASE b + FtoaSize = Len(m)
    <3>1. t[b + FtoaSize + 1] = c[1]
      BY <1>1, <1>3, <2>2
    <3>. QED
      BY <3>1, Zenon
  <2>3. b + FtoaSize < Len(m) \/ b + FtoaSize = Len(m)
    BY <1>1
  <2>. QED
    BY <2>1, <2>2, <2>3, Zenon
<1>7. Marked(t)
  BY <1>4, <1>5, <1>6, Zenon DEF Marked
<1>. QED
  BY <1>7 DEF t

LEMMA MarkedMore ==
  ASSUME NEW m, NEW c, IsSequence(m), IsSequence(c), Marked(m)
  PROVE  Marked(m \o c)
<1>1. FtoaSize \in Nat /\ Len(m) \in Nat /\ Len(c) \in Nat
  BY PrintfAssumption, SeqLaws
<1>2. PICK b \in 0 .. Len(m) - FtoaSize - 1 :
        Starts(m, b) /\ m[b + FtoaSize + 1] \in {" ", "e", "E"}
  BY DEF Marked
<1>. DEFINE t == m \o c
<1>3. /\ Len(t) = Len(m) + Len(c)
      /\ \A i \in 1 .. Len(m) + Len(c) : t[i] = IF i <= Len(m) THEN m[i] ELSE c[i - Len(m)]
  BY Joined
<1>4. b \in 0 .. Len(m) - FtoaSize
  BY <1>1
<1>5. Starts(t, b)
  BY <1>2, <1>4, StartsMore
<1>. HIDE DEF t
<1>6. b \in 0 .. Len(t) - FtoaSize - 1
  BY <1>1, <1>3
<1>7. t[b + FtoaSize + 1] = m[b + FtoaSize + 1]
  BY <1>1, <1>3
<1>8. Marked(t)
  BY <1>2, <1>5, <1>6, <1>7, Zenon DEF Marked
<1>. QED
  BY <1>8 DEF t

\* The exponent of _etoa: four places or five.
LEMMA ExponentText ==
  ASSUME NEW value, NEW negative, NEW w \in Nat, w <= 4
  PROVE  LET x == ntoa(value, negative, 10, 0, w, {"zero", "plus"})
         IN  IsSequence(x) /\ Len(x) >= w
<1>. DEFINE fl == {"zero", "plus"}
            x == ntoa(value, negative, 10, 0, w, fl)
<1>. HIDE DEF fl
<1>1. Filled(x, w, fl, NtoaSize)
  BY NtoaIs
<1>2. NtoaSize \in Nat /\ NtoaSize >= 4
  BY PrintfAssumption
<1>. HIDE DEF x
<1>3. IsSequence(x) /\ Len(x) >= w
  BY <1>1, <1>2 DEF Filled
<1>. QED
  BY <1>3 DEF x, fl

\* _etoa.
LEMMA EtoaIs ==
  ASSUME NEW v, NEW low, NEW prec \in Nat, NEW w \in Nat, NEW fl
  PROVE  /\ Filled(etoa(v, low, prec, w, fl), w, fl, FtoaSize)
         /\ "adapt" \notin fl /\ PrecLeft(Wanted(prec, fl)) > MaxPrec =>
              NoPower(etoa(v, low, prec, w, fl))
<1>. DEFINE a == IF v.num < 0 THEN -v.num ELSE v.num
            asked == IF "precision" \in fl THEN prec ELSE DefaultPrec
            e == Exponent(a, v.den, low)
            fixed == "adapt" \in fl /\ (a >= v.den \/ a * 10000 >= v.den) /\ a < v.den * 1000000
            minwidth == IF fixed THEN 0 ELSE IF e < 100 /\ e > -100 THEN 4 ELSE 5
            places == IF fixed THEN AtLeast0(asked - e - 1)
                      ELSE IF "adapt" \in fl /\ asked > 0 /\ "precision" \in fl THEN asked - 1
                      ELSE asked
            fwidth == IF ("left" \in fl /\ minwidth > 0) \/ w <= minwidth THEN 0 ELSE w - minwidth
            u == IF fixed THEN v ELSE Scaled(v, e)
            flm == IF fixed THEN fl \cup {"precision"} ELSE fl
            mantissa == ftoa_fixed(u, places, fwidth, flm)
            mark == <<IF "upper" \in fl THEN "E" ELSE "e">>
            m == IF e < 0 THEN -e ELSE e
            neg == e < 0
            x == ntoa(m, neg, 10, 0, minwidth - 1, {"zero", "plus"})
            number == (mantissa \o mark) \o x
            blanks == Times(" ", w - Len(number))
            tail == IF "left" \in fl THEN blanks ELSE <<>>
<1>1. etoa(v, low, prec, w, fl) = IF fixed THEN mantissa ELSE number \o tail
  BY DEF etoa
<1>2. asked \in Nat /\ asked = Wanted(prec, fl) /\ FtoaSize \in Nat /\ e \in Int
  BY PrintfAssumption, ExponentIs DEF Wanted
<1>. HIDE DEF e
<1>3. (fixed => "adapt" \in fl) /\ minwidth \in {0, 4, 5} /\ (minwidth = 0 <=> fixed)
  OBVIOUS
<1>. HIDE DEF fixed
<1>4. places \in Nat /\ ("adapt" \notin fl => places = asked)
  BY <1>2, <1>3 DEF AtLeast0
<1>5. /\ fwidth \in Nat /\ fwidth <= w
      /\ fixed => fwidth = w
      /\ "left" \notin fl => w <= fwidth + minwidth
  BY <1>3
<1>6. ("zero" \in flm <=> "zero" \in fl) /\ ("left" \in flm <=> "left" \in fl)
  OBVIOUS
<1>7. "adapt" \notin fl => Wanted(places, flm) = Wanted(prec, fl)
  BY <1>2, <1>3, <1>4 DEF Wanted
<1>. HIDE DEF minwidth, asked, places, fwidth, u, flm, m, neg
<1>8. /\ Filled(mantissa, fwidth, flm, FtoaSize)
      /\ PrecLeft(Wanted(places, flm)) > MaxPrec => Zeros(mantissa)
  BY <1>4, <1>5, FtoaFixedIs
<1>. HIDE DEF mantissa
<1>9. /\ IsSequence(mantissa)
      /\ Len(mantissa) >= fwidth \/ ("zero" \in fl /\ "left" \notin fl /\ fwidth > FtoaSize)
  BY <1>6, <1>8 DEF Filled
<1>10. "adapt" \notin fl /\ PrecLeft(Wanted(prec, fl)) > MaxPrec => Zeros(mantissa)
  BY <1>7, <1>8
<1>11. CASE fixed
  <2>1. Filled(mantissa, w, fl, FtoaSize)
    BY <1>5, <1>9, <1>11 DEF Filled
  <2>2. "adapt" \in fl
    BY <1>3, <1>11
  <2>. QED
    BY <1>1, <1>11, <2>1, <2>2
<1>12. CASE ~fixed
  <2>1. minwidth - 1 \in Nat /\ minwidth - 1 <= 4 /\ minwidth \in Nat
    BY <1>3, <1>12
  <2>2. IsSequence(x) /\ Len(x) >= minwidth - 1
    BY <2>1, ExponentText
  <2>3. IsSequence(mark) /\ Len(mark) = 1 /\ mark[1] \in {"e", "E"}
    <3>. DEFINE c == IF "upper" \in fl THEN "E" ELSE "e"
    <3>1. c \in {"e", "E"}
      OBVIOUS
    <3>. HIDE DEF c
    <3>2. IsSequence(<<c>>) /\ Len(<<c>>) = 1 /\ <<c>>[1] \in {"e", "E"}
      BY <3>1, Single
    <3>. QED
      BY <3>2 DEF c
  <2>. HIDE DEF x, mark
  <2>4. IsSequence(mantissa \o mark) /\ Len(mantissa \o mark) = Len(mantissa) + 1
    BY <1>9, <2>3, Joined
  <2>5. IsSequence(number) /\ Len(number) = Len(mantissa) + 1 + Len(x)
    BY <2>2, <2>4, Joined
  <2>6. Zeros(mantissa) => Marked(number)
    <3>1. Zeros(mantissa) => Marked(mantissa \o mark)
      BY <1>9, <2>3, MarkedIs
    <3>. QED
      BY <2>2, <2>4, <3>1, MarkedMore
  <2>. HIDE DEF number
  <2>7. w - Len(number) \in Int /\ Len(number) \in Nat /\ Len(x) \in Nat /\ Len(mantissa) \in Nat
    BY <1>9, <2>2, <2>5, SeqLaws
  <2>8. /\ IsSequence(blanks) /\ Len(blanks) \in Nat /\ Len(blanks) >= w - Len(number)
    BY <2>7, TimesLaws
  <2>. HIDE DEF blanks
  <2>9. /\ IsSequence(tail) /\ Len(tail) \in Nat
        /\ "left" \in fl => Len(tail) >= w - Len(number)
    BY <2>8, None
  <2>. HIDE DEF tail
  <2>10. IsSequence(number \o tail) /\ Len(number \o tail) = Len(number) + Len(tail)
    BY <2>5, <2>9, Joined
  <2>11. Filled(number \o tail, w, fl, FtoaSize)
    <3>1. CASE "left" \in fl
      <4>1. Len(number) + Len(tail) >= w
        BY <2>7, <2>9, <3>1
      <4>. QED
        BY <2>10, <4>1 DEF Filled
    <3>2. CASE "left" \notin fl
      <4>1. Len(number) + Len(tail) >= w \/ ("zero" \in fl /\ w > FtoaSize)
        BY <1>2, <1>5, <1>9, <2>1, <2>2, <2>5, <2>7, <2>9, <3>2
      <4>. QED
        BY <2>10, <3>2, <4>1 DEF Filled
    <3>. QED
      BY <3>1, <3>2
  <2>12. Zeros(mantissa) => NoPower(number \o tail)
    BY <2>5, <2>6, <2>9, <2>10, MarkedMore, MarkedNoPower
  <2>. QED
    BY <1>1, <1>10, <1>12, <2>11, <2>12
<1>. QED
  BY <1>11, <1>12

\* _ftoa.
LEMMA FtoaIs ==
  ASSUME NEW v, NEW low, NEW prec \in Nat, NEW w \in Nat, NEW fl, v.kind = "number"
  PROVE  /\ Filled(ftoa(v, low, prec, w, fl), w, fl, FtoaSize)
         /\ "adapt" \notin fl /\ PrecLeft(Wanted(prec, fl)) > MaxPrec =>
              NoPower(ftoa(v, low, prec, w, fl))
<1>1. \/ ftoa(v, low, prec, w, fl) = etoa(v, low, prec, w, fl)
      \/ ftoa(v, low, prec, w, fl) = ftoa_fixed(v, prec, w, fl)
  BY Zenon DEF ftoa
<1>2. /\ Filled(ftoa_fixed(v, prec, w, fl), w, fl, FtoaSize)
      /\ PrecLeft(Wanted(prec, fl)) > MaxPrec => NoPower(ftoa_fixed(v, prec, w, fl))
  BY FtoaFixedIs, ZerosNoPower DEF Filled
<1>3. /\ Filled(etoa(v, low, prec, w, fl), w, fl, FtoaSize)
      /\ "adapt" \notin fl /\ PrecLeft(Wanted(prec, fl)) > MaxPrec =>
           NoPower(etoa(v, low, prec, w, fl))
  BY EtoaIs
<1>. QED
  BY <1>1, <1>2, <1>3, Zenon

-----------------------------------------------------------------------------
(* The invariant.                                                          *)

\* The piece that is read, or was read last.
Cur == call.pieces[nth]

Reading == {"flags", "width", "precision", "length", "specifier"}

Types == /\ call \in Calls
         /\ pc \in Reading \cup {"text", "behind", "done"}
         /\ nth \in 0 .. Len(call.pieces)
         /\ pos \in Nat \ {0} /\ arg \in Nat \ {0}
         /\ width \in Nat /\ precision \in Nat

\* The flags in front of a position, and those that a '*' and a '.' set.
FlagsTo(c, d, p) == {NameOf(CharAt(c, i)) : i \in d.at + 1 .. p - 1}

StarFlag(c, d) ==
  IF IsStar(c, d.width, d.precision) /\ StarValue(c, d.arg) < 0 THEN {"left"} ELSE {}

DotFlag(d) == IF d.precision < d.length THEN {"precision"} ELSE {}

\* Where the parser is in a directive, and what it has read of it.
AtFlags(c, d) == /\ pos \in d.at + 1 .. d.width /\ arg = d.arg
                 /\ flags = FlagsTo(c, d, pos) /\ width = 0 /\ precision = 0

AtWidth(c, d) == /\ pos = d.width /\ arg = d.arg
                 /\ flags = FlagsTo(c, d, d.width) /\ width = 0 /\ precision = 0

AtPrecision(c, d) == /\ pos = d.precision /\ arg = PrecisionArg(c, d)
                     /\ flags = FlagsTo(c, d, d.width) \cup StarFlag(c, d)
                     /\ width = WidthOf(c, d) /\ precision = 0

AtLength(c, d) == /\ pos = d.length /\ arg = ValueArg(c, d)
                  /\ flags = FlagsTo(c, d, d.width) \cup StarFlag(c, d) \cup DotFlag(d)
                  /\ width = WidthOf(c, d) /\ precision = PrecisionOf(c, d)

AtSpecifier(c, d) == /\ pos = d.specifier /\ arg = ValueArg(c, d)
                     /\ flags = FlagsOf(c, d)
                     /\ width = WidthOf(c, d) /\ precision = PrecisionOf(c, d)

Inside == pc \in Reading => /\ nth # 0 /\ IsDirective(call, Cur)
                            /\ pc = "flags" => AtFlags(call, Cur)
                            /\ pc = "width" => AtWidth(call, Cur)
                            /\ pc = "precision" => AtPrecision(call, Cur)
                            /\ pc = "length" => AtLength(call, Cur)
                            /\ pc = "specifier" => AtSpecifier(call, Cur)

Outside == pc = "text" => IF nth = 0 THEN pos = 1 /\ arg = 1
                          ELSE pos = NextAt(call, Cur) /\ arg = NextArg(call, Cur)

\* What is sent, and what of it is in memory.

Sent == IsSequence(sent) /\ idx = Len(sent)

Stored == /\ memory = [i \in 0 .. MemSize - 1 |-> memory[i]]
          /\ out = "buffer" /\ pc # "done" =>
               \A i \in 0 .. MemSize - 1 :
                 memory[i] = IF i < idx /\ i < maxlen THEN sent[i + 1] ELSE "?"

FInv == Types /\ Inside /\ Outside /\ Sent /\ Stored /\ FillsField /\ PowerInTable /\ Contract

-----------------------------------------------------------------------------
(* Characters of a format.                                                 *)

LEMMA FlagIs == ASSUME NEW c PROVE IsFlag(c) <=> c \in {"0", "-", "+", " ", "#"}
<1>1. \A i : i \in 1 .. 5 <=> i = 1 \/ i = 2 \/ i = 3 \/ i = 4 \/ i = 5
  OBVIOUS
<1>2. /\ FlagChars[1] = "0" /\ FlagChars[2] = "-" /\ FlagChars[3] = "+" /\ FlagChars[4] = " "
      /\ FlagChars[5] = "#"
  BY DEF FlagChars
<1>3. IsFlag(c) <=> \/ FlagChars[1] = c \/ FlagChars[2] = c \/ FlagChars[3] = c
                    \/ FlagChars[4] = c \/ FlagChars[5] = c
  BY <1>1 DEF IsFlag
<1>. QED
  BY <1>2, <1>3

LEMMA DigitIs ==
  ASSUME NEW c
  PROVE  is_digit(c) <=> c \in {"0", "1", "2", "3", "4", "5", "6", "7", "8", "9"}
<1>1. \A i : i \in 1 .. 10 <=> \/ i = 1 \/ i = 2 \/ i = 3 \/ i = 4 \/ i = 5
                               \/ i = 6 \/ i = 7 \/ i = 8 \/ i = 9 \/ i = 10
  OBVIOUS
<1>2. /\ Lower[1] = "0" /\ Lower[2] = "1" /\ Lower[3] = "2" /\ Lower[4] = "3" /\ Lower[5] = "4"
      /\ Lower[6] = "5" /\ Lower[7] = "6" /\ Lower[8] = "7" /\ Lower[9] = "8" /\ Lower[10] = "9"
  BY DEF Lower
<1>3. is_digit(c) <=> \/ Lower[1] = c \/ Lower[2] = c \/ Lower[3] = c \/ Lower[4] = c
                      \/ Lower[5] = c \/ Lower[6] = c \/ Lower[7] = c \/ Lower[8] = c
                      \/ Lower[9] = c \/ Lower[10] = c
  BY <1>1 DEF is_digit
<1>. QED
  BY <1>2, <1>3

\* A digit has a value.
LEMMA DigitValueIs == ASSUME NEW c, is_digit(c) PROVE DigitValue(c) \in Nat
<1>1. PICK i \in 1 .. 10 : Lower[i] = c
  BY DEF is_digit
<1>2. i \in 1 .. 16
  OBVIOUS
<1>. DEFINE P(k) == Lower[k] = c \/ Upper[k] = c
            v == CHOOSE k \in 1 .. 16 : P(k)
<1>3. P(i)
  BY <1>1
<1>. HIDE DEF P
<1>4. v \in 1 .. 16
  BY <1>2, <1>3, Zenon
<1>5. DigitValue(c) = v - 1
  BY DEF DigitValue, P
<1>. HIDE DEF v
<1>. QED
  BY <1>4, <1>5

\* What may stand behind the fields of a directive, and at their starts.
Final(ch) == ~IsFlag(ch) /\ ~is_digit(ch) /\ ch \notin {"*", ".", "l", "h", "t", "j", "z"}

LengthChar(ch) == ch \in {"l", "h", "t", "j", "z"}

\* The characters at the starts of the fields.
LEMMA FieldStarts ==
  ASSUME NEW c, NEW d, WellFormedDirective(c, d)
  PROVE  /\ Final(CharAt(c, d.specifier))
         /\ d.length = d.specifier \/ LengthChar(CharAt(c, d.length))
         /\ d.precision = d.length \/ CharAt(c, d.precision) = "."
         /\ \/ d.width = d.precision \/ CharAt(c, d.width) = "*"
            \/ is_digit(CharAt(c, d.width)) /\ CharAt(c, d.width) # "0"
<1>1. /\ {d.width, d.precision, d.length, d.specifier} \subseteq 1 .. Len(c.format) + 1
      /\ \/ IsEmpty(d.width, d.precision) \/ IsStar(c, d.width, d.precision)
         \/ IsNumeral(c, d.width, d.precision) /\ CharAt(c, d.width) # "0"
      /\ \/ IsEmpty(d.precision, d.length)
         \/ d.precision < d.length /\ CharAt(c, d.precision) = "."
      /\ IsEmpty(d.length, d.specifier) \/ IsLength(c, d.length, d.specifier)
  BY Zenon DEF WellFormedDirective
<1>2. Final(CharAt(c, d.specifier))
  BY Zenon DEF WellFormedDirective, Final
<1>3. d.length = d.specifier \/ LengthChar(CharAt(c, d.length))
  BY <1>1 DEF IsEmpty, IsLength, LengthChar
<1>4. d.precision = d.length \/ CharAt(c, d.precision) = "."
  BY <1>1 DEF IsEmpty
<1>5. d.width \in Int /\ d.precision \in Int
  BY <1>1
<1>6. IsNumeral(c, d.width, d.precision) => is_digit(CharAt(c, d.width))
  BY <1>5 DEF IsNumeral
<1>7. \/ d.width = d.precision \/ CharAt(c, d.width) = "*"
      \/ is_digit(CharAt(c, d.width)) /\ CharAt(c, d.width) # "0"
  BY <1>1, <1>6 DEF IsEmpty, IsStar
<1>. QED
  BY <1>2, <1>3, <1>4, <1>7

\* What is read where a field starts: a field that is absent starts with the next one.
LEMMA Follows ==
  ASSUME NEW c, NEW d, WellFormedDirective(c, d)
  PROVE  /\ LengthChar(CharAt(c, d.length)) \/ Final(CharAt(c, d.length))
         /\ CharAt(c, d.precision) = "." \/ LengthChar(CharAt(c, d.precision))
              \/ Final(CharAt(c, d.precision))
         /\ ~IsFlag(CharAt(c, d.width))
<1>1. /\ Final(CharAt(c, d.specifier))
      /\ d.length = d.specifier \/ LengthChar(CharAt(c, d.length))
      /\ d.precision = d.length \/ CharAt(c, d.precision) = "."
      /\ \/ d.width = d.precision \/ CharAt(c, d.width) = "*"
         \/ is_digit(CharAt(c, d.width)) /\ CharAt(c, d.width) # "0"
  BY FieldStarts
<1>2. LengthChar(CharAt(c, d.length)) \/ Final(CharAt(c, d.length))
  BY <1>1, Zenon
<1>3. CharAt(c, d.precision) = "." \/ LengthChar(CharAt(c, d.precision))
        \/ Final(CharAt(c, d.precision))
  BY <1>1, <1>2, Zenon
<1>4. \A ch : ch = "." \/ ch = "*" \/ LengthChar(ch) \/ Final(ch) \/ (is_digit(ch) /\ ch # "0")
        => ~IsFlag(ch)
  BY FlagIs, DigitIs DEF LengthChar, Final
<1>5. ~IsFlag(CharAt(c, d.width))
  BY <1>1, <1>3, <1>4, Zenon
<1>. QED
  BY <1>2, <1>3, <1>5

\* Characters that are no digits, and no '*' or '.'.
LEMMA NoDigits ==
  ASSUME NEW ch
  PROVE  /\ LengthChar(ch) \/ Final(ch) => ~is_digit(ch) /\ ch # "*" /\ ch # "."
         /\ ch = "." => ~is_digit(ch) /\ ch # "*"
         /\ is_digit(ch) => ch # "*" /\ ch # "."
  BY DigitIs DEF LengthChar, Final

-----------------------------------------------------------------------------
(* Numbers.                                                                *)

\* Remainders.
LEMMA ModIs ==
  ASSUME NEW m \in Nat \ {0}, NEW n \in Nat
  PROVE  n % m \in 0 .. m - 1 /\ n \div m \in Nat /\ n = ((n \div m) * m) + (n % m)
  OBVIOUS

LEMMA ModOnly ==
  ASSUME NEW m \in Nat \ {0}, NEW n \in Nat, NEW r \in 0 .. m - 1, NEW q \in Int,
         n = (q * m) + r
  PROVE  n % m = r
  OBVIOUS

LEMMA Distributes ==
  ASSUME NEW m \in Nat, NEW q \in Nat, NEW s \in Nat, NEW p \in Nat, NEW r \in Nat, NEW v \in Nat,
         s * 10 + v = (p * m) + r
  PROVE  ((q * m) + s) * 10 + v = ((q * 10 + p) * m) + r
<1>1. (q * 10 + p) * m = (q * m) * 10 + (p * m)
  OBVIOUS
<1>2. q * m \in Nat /\ p * m \in Nat
  OBVIOUS
<1>. QED
  BY <1>1, <1>2

\* A number cut to a width on the way is the same as one cut at the end.
LEMMA ModStep ==
  ASSUME NEW m \in Nat \ {0}, NEW n \in Nat, NEW v \in Nat
  PROVE  ((n % m) * 10 + v) % m = (n * 10 + v) % m
<1>. DEFINE q == n \div m
            s == n % m
            y == s * 10 + v
            p == y \div m
            r == y % m
<1>1. s \in 0 .. m - 1 /\ q \in Nat /\ n = (q * m) + s
  BY ModIs
<1>. HIDE DEF s, q
<1>2. s \in Nat /\ s * 10 + v \in Nat
  BY <1>1
<1>3. r \in 0 .. m - 1 /\ p \in Nat /\ s * 10 + v = (p * m) + r
  BY <1>2, ModIs
<1>. HIDE DEF p, r, y
<1>4. r \in Nat
  BY <1>3
<1>5. ((q * m) + s) * 10 + v = ((q * 10 + p) * m) + r
  BY <1>1, <1>2, <1>3, <1>4, Distributes
<1>6. n * 10 + v = ((q * 10 + p) * m) + r
  BY <1>1, <1>5
<1>7. n * 10 + v \in Nat /\ q * 10 + p \in Int
  BY <1>1, <1>3
<1>8. (n * 10 + v) % m = r
  BY <1>3, <1>6, <1>7, ModOnly
<1>. QED
  BY <1>8 DEF r, y, s

\* Induction on the naturals, for a set.
LEMMA NatSet ==
  ASSUME NEW S, 0 \in S, \A n \in Nat : n \in S => n + 1 \in S
  PROVE  \A n \in Nat : n \in S
<1>. DEFINE Left == Nat \ S
<1>1. SUFFICES ASSUME Left # {} PROVE FALSE
  OBVIOUS
<1>2. Left \subseteq Nat
  OBVIOUS
<1>3. PICK k \in Left : \A j \in Left : j >= k
  BY <1>1, <1>2, LeastNat
<1>4. k \in Nat /\ k # 0 /\ k - 1 \in Nat /\ (k - 1) + 1 = k
  BY <1>3
<1>5. k - 1 \notin S
  BY <1>3, <1>4
<1>. QED
  BY <1>3, <1>4, <1>5

\* One step of reading a number, cut to a width or (m = 0) not.
Step(x, v, b, m) == IF m = 0 THEN x * b + v ELSE (x * b + v) % m

ReadsBy(f, N, w, b, m) == f = [k \in 0 .. N |-> IF k = 0 THEN 0 ELSE Step(f[k - 1], w[k], b, m)]

\* There is a function that reads N digits one after the other.
LEMMA Reads ==
  ASSUME NEW N \in Nat, NEW w, NEW b, NEW m
  PROVE  \E f : ReadsBy(f, N, w, b, m)
<1>. DEFINE Is(f, n) == f = [k \in 0 .. n |-> IF k = 0 THEN 0 ELSE Step(f[k - 1], w[k], b, m)]
            S == {n \in Nat : \E f : Is(f, n)}
<1>1. 0 \in S
  <2>. DEFINE f == [k \in 0 .. 0 |-> 0]
  <2>1. Is(f, 0)
    OBVIOUS
  <2>. QED
    BY <2>1
<1>2. ASSUME NEW n \in Nat, n \in S PROVE n + 1 \in S
  <2>1. PICK g : Is(g, n)
    BY <1>2
  <2>. DEFINE f == [k \in 0 .. n + 1 |-> IF k = n + 1 THEN Step(g[k - 1], w[k], b, m) ELSE g[k]]
  <2>2. ASSUME NEW k \in 0 .. n + 1
        PROVE  f[k] = IF k = 0 THEN 0 ELSE Step(f[k - 1], w[k], b, m)
    <3>1. CASE k = n + 1
      <4>1. f[k] = Step(g[k - 1], w[k], b, m) /\ k # 0 /\ f[k - 1] = g[k - 1]
        BY <3>1
      <4>. QED
        BY <4>1
    <3>2. CASE k # n + 1
      <4>1. k \in 0 .. n /\ f[k] = g[k]
        BY <3>2
      <4>2. k # 0 => f[k - 1] = g[k - 1]
        BY <4>1
      <4>3. g[k] = IF k = 0 THEN 0 ELSE Step(g[k - 1], w[k], b, m)
        BY <2>1, <4>1
      <4>. QED
        BY <4>1, <4>2, <4>3
    <3>. QED
      BY <3>1, <3>2
  <2>3. Is(f, n + 1)
    <3>1. f = [k \in 0 .. n + 1 |-> f[k]]
      OBVIOUS
    <3>. HIDE DEF f
    <3>. QED
      BY <2>2, <3>1
  <2>. HIDE DEF f, Is
  <2>. QED
    BY <2>3
<1>3. \A n \in Nat : n \in S
  BY <1>1, <1>2, NatSet
<1>. QED
  BY <1>3 DEF ReadsBy

\* What ReadDigits computes: the numbers of the prefixes.
LEMMA ReadDigitsIs ==
  ASSUME NEW s, IsSequence(s), NEW base
  PROVE  \E f : /\ ReadDigits(s, base) = f[Len(s)] /\ f[0] = 0
                /\ \A k \in 1 .. Len(s) : f[k] = f[k - 1] * base + DigitValue(s[k])
<1>. DEFINE Is(f) == f = [k \in 0 .. Len(s) |-> IF k = 0 THEN 0 ELSE f[k - 1] * base + DigitValue(s[k])]
            w == [k \in 1 .. Len(s) |-> DigitValue(s[k])]
            c == CHOOSE f : Is(f)
<1>1. Len(s) \in Nat
  BY SeqLaws
<1>2. PICK g : ReadsBy(g, Len(s), w, base, 0)
  <2>. HIDE DEF w
  <2>. QED
    BY <1>1, Reads, Zenon
<1>3. \A k \in 0 .. Len(s) : k # 0 =>
        Step(g[k - 1], w[k], base, 0) = g[k - 1] * base + DigitValue(s[k])
  BY <1>1 DEF Step
<1>. HIDE DEF w
<1>4. Is(g)
  BY <1>2, <1>3 DEF ReadsBy
<1>5. Is(c)
  BY <1>4, Zenon
<1>6. ReadDigits(s, base) = c[Len(s)]
  BY Zenon DEF ReadDigits
<1>. HIDE DEF c
<1>7. c[0] = 0 /\ \A k \in 1 .. Len(s) : c[k] = c[k - 1] * base + DigitValue(s[k])
  <2>1. 0 \in 0 .. Len(s) /\ \A k \in 1 .. Len(s) : k \in 0 .. Len(s) /\ k # 0
    BY <1>1
  <2>. QED
    BY <1>5, <2>1
<1>. QED
  BY <1>6, <1>7

\* What _atoi computes: the same, as an unsigned int.
LEMMA AtoiIs ==
  ASSUME NEW p, DigitRun(p) \in Nat
  PROVE  \E f : /\ atoi(p) = f[DigitRun(p)] /\ f[0] = 0
                /\ \A k \in 1 .. DigitRun(p) :
                     f[k] = (f[k - 1] * 10 + DigitValue(CharAt(call, p + k - 1))) % IntValues
<1>. DEFINE N == DigitRun(p)
            Is(f) == f = [k \in 0 .. N |->
                            IF k = 0 THEN 0
                            ELSE (f[k - 1] * 10 + DigitValue(CharAt(call, p + k - 1))) % IntValues]
            w == [k \in 1 .. N |-> DigitValue(CharAt(call, p + k - 1))]
            c == CHOOSE f : Is(f)
<1>1. atoi(p) = c[N]
  BY Zenon DEF atoi
<1>. HIDE DEF N
<1>2. N \in Nat
  BY DEF N
<1>3. PICK g : ReadsBy(g, N, w, 10, IntValues)
  <2>. HIDE DEF w
  <2>. QED
    BY <1>2, Reads, Zenon
<1>4. \A k \in 0 .. N : k # 0 =>
        Step(g[k - 1], w[k], 10, IntValues)
          = (g[k - 1] * 10 + DigitValue(CharAt(call, p + k - 1))) % IntValues
  BY <1>2, PrintfAssumption DEF Step
<1>. HIDE DEF w
<1>5. Is(g)
  BY <1>3, <1>4 DEF ReadsBy
<1>6. Is(c)
  BY <1>5, Zenon
<1>. HIDE DEF c
<1>7. c[0] = 0 /\ \A k \in 1 .. N :
        c[k] = (c[k - 1] * 10 + DigitValue(CharAt(call, p + k - 1))) % IntValues
  <2>1. 0 \in 0 .. N /\ \A k \in 1 .. N : k \in 0 .. N /\ k # 0
    BY <1>2
  <2>. QED
    BY <1>6, <2>1
<1>. QED
  BY <1>1, <1>7 DEF N

\* A numeral of the format is read as the number that its field holds.
LEMMA AtoiNumber ==
  ASSUME NEW from \in Nat \ {0}, NEW to \in Nat, IsSequence(call.format),
         to <= Len(call.format) + 1,
         IsNumeral(call, from, to), ~is_digit(CharAt(call, to))
  PROVE  /\ DigitRun(from) = to - from
         /\ atoi(from) = Number(call, from, to)
         /\ Number(call, from, to) \in Nat
<1>. DEFINE L == Len(call.format)
            n == to - from
            P(k) == /\ \A i \in from .. from + k - 1 : is_digit(CharAt(call, i))
                    /\ ~is_digit(CharAt(call, from + k))
<1>1. L \in Nat /\ from < to /\ \A i \in from .. to - 1 : is_digit(CharAt(call, i))
  BY SeqLaws DEF IsNumeral
<1>2. n \in 0 .. L /\ from + n = to /\ n \in Nat
  BY <1>1
<1>3. P(n)
  BY <1>1, <1>2
<1>4. ASSUME NEW k \in 0 .. L, P(k) PROVE k = n
  <2>1. CASE k < n
    <3>1. from + k \in from .. to - 1
      BY <1>1, <1>2, <2>1
    <3>. QED
      BY <1>1, <1>4, <3>1
  <2>2. CASE k > n
    <3>1. to \in from .. from + k - 1
      BY <1>1, <1>2, <2>2
    <3>. QED
      BY <1>4, <3>1
  <2>. QED
    BY <1>1, <1>2, <2>1, <2>2
<1>5. DigitRun(from) = CHOOSE k \in 0 .. L : P(k)
  BY DEF DigitRun
<1>. HIDE DEF P
<1>6. DigitRun(from) = n
  BY <1>2, <1>3, <1>4, <1>5, Zenon
<1>. DEFINE s == SubSeq(call.format, from, to - 1)
            ch(k) == CharAt(call, from + k - 1)
<1>. HIDE DEF n
<1>7. /\ IsSequence(s) /\ Len(s) = n
      /\ \A k \in 1 .. n : s[k] = ch(k) /\ is_digit(ch(k))
  <2>. DEFINE R == Range(call.format)
  <2>1. call.format \in Seq(R)
    BY DEF IsSequence
  <2>. HIDE DEF R
  <2>2. \A k \in 1 .. n : from + k - 1 \in 1 .. L /\ from + k - 1 \in from .. to - 1
    BY <1>1, <1>2
  <2>6. s \in Seq(R) /\ Len(s) = to - from
    BY <1>1, <1>2, <2>1
  <2>7. to - from = n
    BY DEF n
  <2>8. \A k \in 1 .. to - from : s[k] = call.format[from + k - 1]
    BY <1>1, <1>2, <2>1
  <2>3. s \in Seq(R) /\ Len(s) = n /\ \A k \in 1 .. n : s[k] = call.format[from + k - 1]
    BY <2>6, <2>7, <2>8
  <2>4. \A k \in 1 .. n : CharAt(call, from + k - 1) = call.format[from + k - 1]
    BY <2>2 DEF CharAt
  <2>5. \A k \in 1 .. n : is_digit(CharAt(call, from + k - 1))
    BY <1>1, <2>2
  <2>. QED
    BY <2>3, <2>4, <2>5, IsSeq
<1>. HIDE DEF s
<1>8. PICK f : /\ ReadDigits(s, 10) = f[n] /\ f[0] = 0
               /\ \A k \in 1 .. n : f[k] = f[k - 1] * 10 + DigitValue(s[k])
  <2>1. \E f : /\ ReadDigits(s, 10) = f[Len(s)] /\ f[0] = 0
               /\ \A k \in 1 .. Len(s) : f[k] = f[k - 1] * 10 + DigitValue(s[k])
    BY <1>7, ReadDigitsIs, Zenon
  <2>. QED
    BY <1>7, <2>1, Zenon
<1>9. PICK g : /\ atoi(from) = g[n] /\ g[0] = 0
               /\ \A k \in 1 .. n : g[k] = (g[k - 1] * 10 + DigitValue(ch(k))) % IntValues
  BY <1>2, <1>6, AtoiIs
<1>. HIDE DEF ch
<1>10. IntValues \in Nat \ {0}
  BY PrintfAssumption
<1>11. \A k \in 1 .. n : DigitValue(ch(k)) \in Nat /\ s[k] = ch(k)
  BY <1>7, DigitValueIs
<1>. DEFINE S == {k \in Nat : k <= n => f[k] \in Nat /\ g[k] = f[k] % IntValues}
<1>12. 0 \in S
  BY <1>8, <1>9, <1>10
<1>13. ASSUME NEW k \in Nat, k \in S PROVE k + 1 \in S
  <2>. SUFFICES ASSUME k + 1 <= n
                PROVE  f[k + 1] \in Nat /\ g[k + 1] = f[k + 1] % IntValues
    OBVIOUS
  <2>1. k + 1 \in 1 .. n /\ (k + 1) - 1 = k /\ f[k] \in Nat /\ g[k] = f[k] % IntValues
    BY <1>2, <1>13
  <2>. DEFINE v == DigitValue(ch(k + 1))
  <2>2. v \in Nat /\ f[k + 1] = f[k] * 10 + v /\ g[k + 1] = (g[k] * 10 + v) % IntValues
    BY <1>8, <1>9, <1>11, <2>1
  <2>. HIDE DEF v
  <2>3. ((f[k] % IntValues) * 10 + v) % IntValues = (f[k] * 10 + v) % IntValues
    BY <1>10, <2>1, <2>2, ModStep
  <2>. QED
    BY <2>1, <2>2, <2>3
<1>14. \A k \in Nat : k \in S
  BY <1>12, <1>13, NatSet
<1>15. f[n] \in Nat /\ g[n] = f[n] % IntValues
  BY <1>2, <1>14
<1>16. Number(call, from, to) = ReadDigits(s, 10) % IntValues
  BY DEF Number, s
<1>17. f[n] % IntValues \in Nat
  <2>1. \A x \in Nat : x % IntValues \in Nat
    BY <1>10, ModIs
  <2>. QED
    BY <1>15, <2>1
<1>. QED
  BY <1>6, <1>8, <1>9, <1>15, <1>16, <1>17 DEF n

\* An absent field is 0.
LEMMA NumberNone ==
  ASSUME NEW c, NEW from \in Nat \ {0}, NEW to \in Nat \ {0}, to <= from, IsSequence(c.format)
  PROVE  Number(c, from, to) = 0
<1>. DEFINE s == SubSeq(c.format, from, to - 1)
            R == Range(c.format)
<1>1. c.format \in Seq(R)
  BY DEF IsSequence
<1>. HIDE DEF R
<1>2. s \in Seq(R) /\ Len(s) = 0
  BY <1>1
<1>3. Number(c, from, to) = ReadDigits(s, 10) % IntValues
  BY DEF Number
<1>. HIDE DEF s
<1>4. ReadDigits(s, 10) = 0
  <2>1. IsSequence(s)
    BY <1>2, IsSeq
  <2>2. \E f : ReadDigits(s, 10) = f[Len(s)] /\ f[0] = 0
    BY <2>1, ReadDigitsIs, Zenon
  <2>. QED
    BY <1>2, <2>2, Zenon
<1>5. IntValues \in Nat \ {0} /\ 0 % IntValues = 0
  BY PrintfAssumption
<1>. QED
  BY <1>3, <1>4, <1>5

\* A '*' takes an int.
LEMMA SignedInt ==
  ASSUME NEW v \in Int, NEW n \in Nat \ {0}
  PROVE  Signed(v, n) \in Int
  BY DEF Signed

-----------------------------------------------------------------------------
(* Reading a directive.                                                    *)

\* What the fields of a directive are.
LEMMA Shape ==
  ASSUME NEW c, NEW d, WellFormedDirective(c, d), IsSequence(c.format)
  PROVE  /\ d.width \in Nat \ {0} /\ d.width <= Len(c.format) + 1
         /\ d.precision \in Nat \ {0} /\ d.precision <= Len(c.format) + 1
         /\ d.length \in Nat \ {0} /\ d.length <= Len(c.format) + 1
         /\ d.specifier \in Nat \ {0} /\ d.specifier <= Len(c.format) + 1
         /\ d.at < d.width /\ \A i \in d.at + 1 .. d.width - 1 : IsFlag(CharAt(c, i))
         /\ \/ d.width = d.precision \/ IsStar(c, d.width, d.precision)
            \/ IsNumeral(c, d.width, d.precision)
         /\ \/ d.precision = d.length
            \/ /\ d.precision < d.length /\ CharAt(c, d.precision) = "."
               /\ \/ d.precision + 1 = d.length \/ IsStar(c, d.precision + 1, d.length)
                  \/ IsNumeral(c, d.precision + 1, d.length)
         /\ d.length = d.specifier \/ IsLength(c, d.length, d.specifier)
<1>1. Len(c.format) \in Nat
  BY SeqLaws
<1>2. /\ {d.width, d.precision, d.length, d.specifier} \subseteq 1 .. Len(c.format) + 1
      /\ d.at < d.width /\ \A i \in d.at + 1 .. d.width - 1 : IsFlag(CharAt(c, i))
      /\ \/ IsEmpty(d.width, d.precision) \/ IsStar(c, d.width, d.precision)
         \/ IsNumeral(c, d.width, d.precision)
      /\ \/ IsEmpty(d.precision, d.length)
         \/ /\ d.precision < d.length /\ CharAt(c, d.precision) = "."
            /\ \/ IsEmpty(d.precision + 1, d.length) \/ IsStar(c, d.precision + 1, d.length)
               \/ IsNumeral(c, d.precision + 1, d.length)
      /\ IsEmpty(d.length, d.specifier) \/ IsLength(c, d.length, d.specifier)
  BY Zenon DEF WellFormedDirective
<1>3. /\ d.width \in Nat \ {0} /\ d.width <= Len(c.format) + 1
      /\ d.precision \in Nat \ {0} /\ d.precision <= Len(c.format) + 1
      /\ d.length \in Nat \ {0} /\ d.length <= Len(c.format) + 1
      /\ d.specifier \in Nat \ {0} /\ d.specifier <= Len(c.format) + 1
  BY <1>1, <1>2
<1>. QED
  BY <1>2, <1>3, Zenon DEF IsEmpty

\* The arguments of the stars are there.
LEMMA StarsIs ==
  ASSUME NEW c, NEW d, WellFormedDirective(c, d), d.arg \in Nat \ {0}
  PROVE  /\ PrecisionArg(c, d) \in Nat \ {0} /\ ValueArg(c, d) \in Nat \ {0}
         /\ IsStar(c, d.width, d.precision) =>
              PrecisionArg(c, d) = d.arg + 1 /\ StarValue(c, d.arg) \in Int
         /\ ~IsStar(c, d.width, d.precision) => PrecisionArg(c, d) = d.arg
         /\ IsStar(c, d.precision + 1, d.length) =>
              /\ ValueArg(c, d) = PrecisionArg(c, d) + 1
              /\ StarValue(c, PrecisionArg(c, d)) \in Int
         /\ ~IsStar(c, d.precision + 1, d.length) => ValueArg(c, d) = PrecisionArg(c, d)
<1>1. \A i \in d.arg .. ValueArg(c, d) - 1 : c.args[i].num \in Int
  BY Zenon DEF WellFormedDirective
<1>2. /\ PrecisionArg(c, d) \in Nat \ {0} /\ ValueArg(c, d) \in Nat \ {0}
      /\ IsStar(c, d.width, d.precision) => PrecisionArg(c, d) = d.arg + 1
      /\ ~IsStar(c, d.width, d.precision) => PrecisionArg(c, d) = d.arg
      /\ IsStar(c, d.precision + 1, d.length) => ValueArg(c, d) = PrecisionArg(c, d) + 1
      /\ ~IsStar(c, d.precision + 1, d.length) => ValueArg(c, d) = PrecisionArg(c, d)
  BY DEF PrecisionArg, ValueArg
<1>3. IsStar(c, d.width, d.precision) => d.arg \in d.arg .. ValueArg(c, d) - 1
  BY <1>2
<1>4. IsStar(c, d.precision + 1, d.length) => PrecisionArg(c, d) \in d.arg .. ValueArg(c, d) - 1
  BY <1>2
<1>5. ASSUME NEW i, c.args[i].num \in Int PROVE StarValue(c, i) \in Int
  BY <1>5, PrintfAssumption, SignedInt DEF StarValue
<1>. QED
  BY <1>1, <1>2, <1>3, <1>4, <1>5, Zenon

\* The loop over the flags gets to the end of that field.
LEMMA FlagReads ==
  ASSUME NEW d, WellFormedDirective(call, d), IsSequence(call.format), d.at \in Nat,
         AtFlags(call, d), Flag
  PROVE  \/ pc' = "flags" /\ AtFlags(call, d)'
         \/ pc' = "width" /\ AtWidth(call, d)'
<1>1. /\ pos \in d.at + 1 .. d.width /\ arg = d.arg /\ flags = FlagsTo(call, d, pos)
      /\ width = 0 /\ precision = 0
  BY DEF AtFlags
<1>2. d.width \in Nat /\ \A i \in d.at + 1 .. d.width - 1 : IsFlag(CharAt(call, i))
  BY Shape
<1>3. ~IsFlag(CharAt(call, d.width))
  BY Follows
<1>4. /\ IsFlag(Ch) => flags' = flags \cup {NameOf(Ch)} /\ pos' = pos + 1 /\ pc' = "flags"
      /\ ~IsFlag(Ch) => flags' = flags /\ pos' = pos /\ pc' = "width"
      /\ arg' = arg /\ width' = width /\ precision' = precision /\ call' = call
  BY DEF Flag, fields
<1>5. CASE pos < d.width
  <2>1. IsFlag(Ch) /\ pos + 1 \in d.at + 1 .. d.width
    BY <1>1, <1>2, <1>5 DEF Ch
  <2>2. d.at + 1 .. (pos + 1) - 1 = (d.at + 1 .. pos - 1) \cup {pos}
    BY <1>1, <1>2
  <2>3. FlagsTo(call, d, pos + 1) = FlagsTo(call, d, pos) \cup {NameOf(Ch)}
    BY <2>2, Zenon DEF FlagsTo, Ch
  <2>. QED
    BY <1>1, <1>4, <2>1, <2>3 DEF AtFlags
<1>6. CASE pos = d.width
  <2>1. ~IsFlag(Ch)
    BY <1>3, <1>6 DEF Ch
  <2>. QED
    BY <1>1, <1>4, <1>6, <2>1 DEF AtWidth
<1>. QED
  BY <1>1, <1>2, <1>5, <1>6

\* The width is read.
LEMMA WidthReads ==
  ASSUME NEW d, WellFormedDirective(call, d), IsSequence(call.format), d.arg \in Nat \ {0},
         AtWidth(call, d), Width
  PROVE  AtPrecision(call, d)' /\ width' \in Nat
<1>1. /\ pos = d.width /\ arg = d.arg /\ flags = FlagsTo(call, d, d.width)
      /\ width = 0 /\ precision = 0
  BY DEF AtWidth
<1>2. /\ d.width \in Nat \ {0} /\ d.precision \in Nat \ {0} /\ d.precision <= Len(call.format) + 1
      /\ \/ d.width = d.precision \/ IsStar(call, d.width, d.precision)
         \/ IsNumeral(call, d.width, d.precision)
  BY Shape
<1>3. ~is_digit(CharAt(call, d.precision)) /\ CharAt(call, d.precision) # "*"
  BY Follows, NoDigits
<1>4. /\ \/ is_digit(Ch) /\ width' = atoi(pos) /\ pos' = pos + DigitRun(pos)
            /\ flags' = flags /\ arg' = arg
         \/ Ch = "*" /\ width' = Abs(Star) /\ pos' = pos + 1 /\ arg' = arg + 1
            /\ flags' = IF Star < 0 THEN flags \cup {"left"} ELSE flags
         \/ ~is_digit(Ch) /\ Ch # "*" /\ width' = width /\ flags' = flags /\ pos' = pos /\ arg' = arg
      /\ precision' = precision /\ call' = call
  BY Zenon DEF Width
<1>5. /\ IsStar(call, d.width, d.precision) =>
           PrecisionArg(call, d) = d.arg + 1 /\ StarValue(call, d.arg) \in Int
      /\ ~IsStar(call, d.width, d.precision) => PrecisionArg(call, d) = d.arg
  BY StarsIs
<1>6. SUFFICES /\ pos' = d.precision /\ arg' = PrecisionArg(call, d)
               /\ flags' = FlagsTo(call, d, d.width) \cup StarFlag(call, d)
               /\ width' = WidthOf(call, d) /\ WidthOf(call, d) \in Nat
  BY <1>1, <1>4, <1>6 DEF AtPrecision
<1>7. CASE IsStar(call, d.width, d.precision)
  <2>1. Ch = "*" /\ d.precision = d.width + 1 /\ ~is_digit(Ch)
    BY <1>1, <1>7, NoDigits DEF IsStar, Ch
  <2>2. width' = Abs(Star) /\ pos' = pos + 1 /\ arg' = arg + 1
        /\ flags' = IF Star < 0 THEN flags \cup {"left"} ELSE flags
    BY <1>4, <2>1, Zenon
  <2>3. Star = StarValue(call, d.arg) /\ Star \in Int
    BY <1>1, <1>5, <1>7 DEF Star, StarValue
  <2>4. WidthOf(call, d) = Abs(Star) /\ Abs(Star) \in Nat
    BY <1>7, <2>3 DEF WidthOf, Abs
  <2>5. flags' = FlagsTo(call, d, d.width) \cup StarFlag(call, d)
    BY <1>1, <1>7, <2>2, <2>3 DEF StarFlag
  <2>. QED
    BY <1>1, <1>5, <1>7, <2>1, <2>2, <2>4, <2>5
<1>8. CASE d.width = d.precision
  <2>1. ~is_digit(Ch) /\ Ch # "*"
    BY <1>1, <1>3, <1>8 DEF Ch
  <2>2. width' = width /\ flags' = flags /\ pos' = pos /\ arg' = arg
    BY <1>4, <2>1, Zenon
  <2>3. ~IsStar(call, d.width, d.precision)
    BY <1>2, <1>8 DEF IsStar
  <2>4. WidthOf(call, d) = 0
    BY <1>2, <1>8, <2>3, NumberNone DEF WidthOf
  <2>5. StarFlag(call, d) = {}
    BY <2>3, Zenon DEF StarFlag
  <2>. QED
    BY <1>1, <1>5, <1>8, <2>2, <2>3, <2>4, <2>5
<1>9. CASE IsNumeral(call, d.width, d.precision)
  <2>1. is_digit(Ch)
    BY <1>1, <1>2, <1>9 DEF IsNumeral, Ch
  <2>2. Ch # "*"
    BY <2>1, NoDigits
  <2>3. width' = atoi(pos) /\ pos' = pos + DigitRun(pos) /\ flags' = flags /\ arg' = arg
    BY <1>4, <2>1, <2>2, Zenon
  <2>4. ~IsStar(call, d.width, d.precision)
    BY <1>1, <2>2 DEF IsStar, Ch
  <2>5. /\ DigitRun(d.width) = d.precision - d.width
        /\ atoi(d.width) = Number(call, d.width, d.precision)
        /\ Number(call, d.width, d.precision) \in Nat
    BY <1>2, <1>3, <1>9, AtoiNumber
  <2>6. WidthOf(call, d) = Number(call, d.width, d.precision)
    BY <2>4, Zenon DEF WidthOf
  <2>7. StarFlag(call, d) = {}
    BY <2>4, Zenon DEF StarFlag
  <2>. QED
    BY <1>1, <1>2, <1>5, <2>3, <2>4, <2>5, <2>6, <2>7
<1>. QED
  BY <1>2, <1>7, <1>8, <1>9

\* The precision is read.
LEMMA PrecisionReads ==
  ASSUME NEW d, WellFormedDirective(call, d), IsSequence(call.format), d.arg \in Nat \ {0},
         AtPrecision(call, d), Precision
  PROVE  AtLength(call, d)' /\ precision' \in Nat /\ pc' = "length"
         /\ UNCHANGED <<call, nth, width>>
<1>. DEFINE p == d.precision
            next == CharAt(call, pos + 1)
            star == IsStar(call, p + 1, d.length)
<1>1. /\ pos = p /\ arg = PrecisionArg(call, d)
      /\ flags = FlagsTo(call, d, d.width) \cup StarFlag(call, d)
      /\ width = WidthOf(call, d) /\ precision = 0
  BY DEF AtPrecision
<1>2. /\ p \in Nat \ {0} /\ d.length \in Nat \ {0} /\ d.length <= Len(call.format) + 1
      /\ \/ p = d.length
         \/ /\ p < d.length /\ CharAt(call, p) = "."
            /\ p + 1 = d.length \/ star \/ IsNumeral(call, p + 1, d.length)
  BY Shape
<1>3. /\ ~is_digit(CharAt(call, d.length)) /\ CharAt(call, d.length) # "*"
      /\ CharAt(call, d.length) # "."
  BY Follows, NoDigits
<1>4. /\ \/ /\ Ch = "." /\ is_digit(next) /\ precision' = atoi(pos + 1)
            /\ pos' = pos + 1 + DigitRun(pos + 1) /\ arg' = arg
         \/ /\ Ch = "." /\ next = "*" /\ precision' = AtLeast0(Star)
            /\ pos' = pos + 2 /\ arg' = arg + 1
         \/ /\ Ch = "." /\ ~is_digit(next) /\ next # "*" /\ pos' = pos + 1
            /\ precision' = precision /\ arg' = arg
         \/ Ch # "." /\ precision' = precision /\ pos' = pos /\ arg' = arg
      /\ flags' = IF Ch = "." THEN flags \cup {"precision"} ELSE flags
      /\ pc' = "length" /\ UNCHANGED <<call, nth, width>>
  BY Zenon DEF Precision
<1>5. /\ PrecisionArg(call, d) \in Nat \ {0}
      /\ star => /\ ValueArg(call, d) = PrecisionArg(call, d) + 1
                 /\ StarValue(call, PrecisionArg(call, d)) \in Int
      /\ ~star => ValueArg(call, d) = PrecisionArg(call, d)
  BY StarsIs
<1>6. SUFFICES /\ pos' = d.length /\ arg' = ValueArg(call, d)
               /\ flags' = flags \cup DotFlag(d)
               /\ precision' = PrecisionOf(call, d) /\ PrecisionOf(call, d) \in Nat
  BY <1>1, <1>4, <1>6 DEF AtLength
<1>7. CASE p = d.length
  <2>1. Ch # "."
    BY <1>1, <1>3, <1>7 DEF Ch
  <2>2. precision' = precision /\ pos' = pos /\ arg' = arg /\ flags' = flags
    BY <1>4, <2>1, Zenon
  <2>3. ~star
    BY <1>2, <1>7 DEF IsStar
  <2>4. PrecisionOf(call, d) = 0
    BY <1>2, <1>7, <2>3, NumberNone DEF PrecisionOf
  <2>5. DotFlag(d) = {}
    BY <1>2, <1>7 DEF DotFlag
  <2>. QED
    BY <1>1, <1>5, <1>7, <2>2, <2>3, <2>4, <2>5
<1>8. CASE p < d.length
  <2>1. Ch = "." /\ p # d.length
    BY <1>1, <1>2, <1>8 DEF Ch
  <2>2. DotFlag(d) = {"precision"}
    BY <1>8, Zenon DEF DotFlag
  <2>3. flags' = flags \cup DotFlag(d)
    BY <1>4, <2>1, <2>2
  <2>4. CASE star
    <3>1. next = "*" /\ d.length = p + 2 /\ ~is_digit(next)
      BY <1>1, <1>2, <2>4, NoDigits DEF IsStar
    <3>2. precision' = AtLeast0(Star) /\ pos' = pos + 2 /\ arg' = arg + 1
      BY <1>4, <2>1, <3>1, Zenon
    <3>3. Star = StarValue(call, PrecisionArg(call, d)) /\ Star \in Int
      BY <1>1, <1>5, <2>4 DEF Star, StarValue
    <3>4. PrecisionOf(call, d) = AtLeast0(Star) /\ AtLeast0(Star) \in Nat
      BY <2>4, <3>3 DEF PrecisionOf, AtLeast0
    <3>. QED
      BY <1>1, <1>5, <2>3, <2>4, <3>1, <3>2, <3>4
  <2>5. CASE p + 1 = d.length
    <3>1. ~is_digit(next) /\ next # "*"
      BY <1>1, <1>3, <2>5
    <3>2. precision' = precision /\ pos' = pos + 1 /\ arg' = arg
      BY <1>4, <2>1, <3>1, Zenon
    <3>3. ~star
      BY <1>2, <2>5 DEF IsStar
    <3>4. PrecisionOf(call, d) = 0
      BY <1>2, <2>5, <3>3, NumberNone DEF PrecisionOf
    <3>. QED
      BY <1>1, <1>5, <2>3, <2>5, <3>2, <3>3, <3>4
  <2>6. CASE IsNumeral(call, p + 1, d.length)
    <3>1. is_digit(next)
      BY <1>1, <1>2, <2>6 DEF IsNumeral
    <3>2. next # "*"
      BY <3>1, NoDigits
    <3>3. precision' = atoi(pos + 1) /\ pos' = pos + 1 + DigitRun(pos + 1) /\ arg' = arg
      BY <1>4, <2>1, <3>1, <3>2, Zenon
    <3>4. ~star
      BY <1>1, <3>2 DEF IsStar
    <3>5. /\ DigitRun(p + 1) = d.length - (p + 1)
          /\ atoi(p + 1) = Number(call, p + 1, d.length)
          /\ Number(call, p + 1, d.length) \in Nat
      BY <1>2, <1>3, <2>6, AtoiNumber
    <3>6. PrecisionOf(call, d) = Number(call, p + 1, d.length)
      BY <3>4, Zenon DEF PrecisionOf
    <3>. QED
      BY <1>1, <1>2, <1>5, <2>3, <3>3, <3>4, <3>5, <3>6
  <2>. QED
    BY <1>2, <2>1, <2>4, <2>5, <2>6
<1>. QED
  BY <1>2, <1>7, <1>8

\* The length is read.
LEMMA LengthReads ==
  ASSUME NEW d, WellFormedDirective(call, d), IsSequence(call.format),
         AtLength(call, d), Length
  PROVE  AtSpecifier(call, d)' /\ pc' = "specifier" /\ UNCHANGED <<call, nth, width, precision>>
<1>. DEFINE twice == CharAt(call, pos + 1) = Ch
            more == CASE Ch = "l" -> IF twice THEN {"long", "longlong"} ELSE {"long"}
                      [] Ch = "h" -> IF twice THEN {"short", "char"} ELSE {"short"}
                      [] Ch \in {"t", "j", "z"} -> {"long"}
                      [] OTHER -> {}
            step == IF Ch \in {"l", "h"} THEN IF twice THEN 2 ELSE 1
                    ELSE IF Ch \in {"t", "j", "z"} THEN 1 ELSE 0
<1>1. /\ pos = d.length /\ arg = ValueArg(call, d)
      /\ flags = FlagsTo(call, d, d.width) \cup StarFlag(call, d) \cup DotFlag(d)
      /\ width = WidthOf(call, d) /\ precision = PrecisionOf(call, d)
  BY DEF AtLength
<1>2. /\ d.length \in Nat \ {0} /\ d.specifier \in Nat \ {0}
      /\ d.length = d.specifier \/ IsLength(call, d.length, d.specifier)
  BY Shape
<1>3. Final(CharAt(call, d.specifier))
  BY FieldStarts
<1>4. /\ flags' = flags \cup more /\ pos' = pos + step
      /\ pc' = "specifier" /\ UNCHANGED <<call, arg, nth, width, precision>>
  BY Zenon DEF Length
<1>5. FlagsOf(call, d) = flags \cup LengthFlags(call, d)
  BY <1>1, Zenon DEF FlagsOf, FlagsTo, StarFlag, DotFlag
<1>6. SUFFICES d.length + step = d.specifier /\ LengthFlags(call, d) = more
  BY <1>1, <1>4, <1>5, <1>6 DEF AtSpecifier
<1>7. CASE d.length = d.specifier
  <2>1. Ch \notin {"l", "h", "t", "j", "z"}
    BY <1>1, <1>3, <1>7 DEF Ch, Final
  <2>2. LengthFlags(call, d) = {}
    BY <1>2, <1>7 DEF LengthFlags
  <2>. QED
    BY <1>2, <1>7, <2>1, <2>2
<1>8. CASE d.specifier = d.length + 2 /\ Ch \in {"l", "h"} /\ twice
  <2>1. LengthFlags(call, d) = IF Ch = "l" THEN {"long", "longlong"} ELSE {"short", "char"}
    BY <1>1, <1>2, <1>8 DEF LengthFlags, Ch
  <2>. QED
    BY <1>2, <1>8, <2>1
<1>9. CASE d.specifier = d.length + 1 /\ Ch \in {"l", "h", "t", "j", "z"}
  <2>1. ~twice
    BY <1>1, <1>3, <1>9 DEF Final
  <2>2. LengthFlags(call, d) = IF Ch = "l" THEN {"long"} ELSE IF Ch = "h" THEN {"short"} ELSE {"long"}
    BY <1>1, <1>2, <1>9 DEF LengthFlags, Ch
  <2>. QED
    BY <1>2, <1>9, <2>1, <2>2
<1>. QED
  BY <1>1, <1>2, <1>7, <1>8, <1>9 DEF IsLength, Ch

-----------------------------------------------------------------------------
(* Pieces and arguments.                                                   *)

\* What a call is.
LEMMA CallIs ==
  ASSUME Types
  PROVE  /\ IsSequence(call.format) /\ IsSequence(call.pieces) /\ IsSequence(call.args)
         /\ Len(call.format) \in Nat /\ Len(call.pieces) \in Nat
         /\ maxlen \in 0 .. SizeMax /\ SizeMax \in Nat /\ LongValues = SizeMax + 1
<1>1. WellFormed(call)
  BY CallsAssumption DEF Types
<1>2. /\ IsSequence(call.format) /\ IsSequence(call.pieces) /\ IsSequence(call.args)
      /\ call.count \in 0 .. SizeMax
  BY <1>1, Zenon DEF WellFormed
<1>3. SizeMax \in Nat /\ LongValues = SizeMax + 1
  BY PrintfAssumption DEF SizeMax
<1>4. maxlen \in 0 .. SizeMax
  BY <1>2, <1>3 DEF maxlen
<1>. QED
  BY <1>2, <1>3, <1>4, SeqLaws

\* What a piece is, and where the next one starts.
LEMMA PieceIs ==
  ASSUME Types, NEW i \in 1 .. Len(call.pieces), NEW d, d = call.pieces[i]
  PROVE  /\ d.at \in 1 .. Len(call.format) /\ d.arg \in Nat \ {0}
         /\ IsDirective(call, d) => WellFormedDirective(call, d)
         /\ i < Len(call.pieces) =>
              call.pieces[i + 1].at = NextAt(call, d) /\ call.pieces[i + 1].arg = NextArg(call, d)
         /\ ~(i < Len(call.pieces)) => NextAt(call, d) > Len(call.format)
<1>1. WellFormed(call)
  BY CallsAssumption DEF Types
<1>. QED
  BY <1>1, Zenon DEF WellFormed

\* Where a format goes on there is a piece, and it is told its place and its argument.
LEMMA NextPiece ==
  ASSUME Types, Outside, pc = "text", Ch # "NUL", NEW d, d = call.pieces[nth + 1]
  PROVE  /\ nth + 1 \in 1 .. Len(call.pieces)
         /\ d.at = pos /\ d.arg = arg
<1>1. WellFormed(call)
  BY CallsAssumption DEF Types
<1>2. IF call.pieces = <<>> THEN call.format = <<>>
      ELSE call.pieces[1].at = 1 /\ call.pieces[1].arg = 1
  BY <1>1, Zenon DEF WellFormed
<1>3. /\ IsSequence(call.format) /\ IsSequence(call.pieces)
      /\ Len(call.format) \in Nat /\ Len(call.pieces) \in Nat
  BY CallIs
<1>4. pos \in 1 .. Len(call.format)
  BY DEF Ch, CharAt
<1>5. nth \in 0 .. Len(call.pieces)
  BY DEF Types
<1>6. CASE nth = 0
  <2>1. pos = 1 /\ arg = 1
    BY <1>6 DEF Outside
  <2>2. call.pieces # <<>>
    BY <1>2, <1>3, <1>4, None
  <2>3. Len(call.pieces) # 0
    BY <1>3, <2>2, None, SeqSame
  <2>. QED
    BY <1>2, <1>3, <1>6, <2>1, <2>2, <2>3
<1>7. CASE nth # 0
  <2>1. PICK c : c = Cur
    OBVIOUS
  <2>2. pos = NextAt(call, c) /\ arg = NextArg(call, c)
    BY <1>7, <2>1 DEF Outside
  <2>3. nth \in 1 .. Len(call.pieces) /\ c = call.pieces[nth]
    BY <1>3, <1>5, <1>7, <2>1 DEF Cur
  <2>4. /\ nth < Len(call.pieces) =>
             call.pieces[nth + 1].at = NextAt(call, c) /\ call.pieces[nth + 1].arg = NextArg(call, c)
        /\ ~(nth < Len(call.pieces)) => NextAt(call, c) > Len(call.format)
    BY <2>3, PieceIs
  <2>5. nth < Len(call.pieces)
    BY <1>3, <1>4, <2>2, <2>4
  <2>. QED
    BY <1>3, <2>2, <2>3, <2>4, <2>5
<1>. QED
  BY <1>6, <1>7

\* What the flag characters stand for.
LEMMA NameIs ==
  ASSUME NEW ch, IsFlag(ch)
  PROVE  NameOf(ch) \in {"zero", "left", "plus", "space", "hash"}
<1>1. (CHOOSE i \in 1 .. 5 : FlagChars[i] = ch) \in 1 .. 5
  BY Zenon DEF IsFlag
<1>2. \A i \in 1 .. 5 : FlagNames[i] \in {"zero", "left", "plus", "space", "hash"}
  <2>1. \A i : i \in 1 .. 5 => i = 1 \/ i = 2 \/ i = 3 \/ i = 4 \/ i = 5
    OBVIOUS
  <2>2. /\ FlagNames[1] = "zero" /\ FlagNames[2] = "left" /\ FlagNames[3] = "plus"
        /\ FlagNames[4] = "space" /\ FlagNames[5] = "hash"
    BY DEF FlagNames
  <2>. QED
    BY <2>1, <2>2
<1>. QED
  BY <1>1, <1>2, Zenon DEF NameOf

\* %g is no flag.
LEMMA NoAdapt ==
  ASSUME NEW c, NEW d, WellFormedDirective(c, d)
  PROVE  "adapt" \notin FlagsOf(c, d)
<1>1. \A i \in d.at + 1 .. d.width - 1 : IsFlag(CharAt(c, i))
  BY Zenon DEF WellFormedDirective
<1>4. "adapt" \notin {NameOf(CharAt(c, i)) : i \in d.at + 1 .. d.width - 1}
  <2>1. "adapt" \notin {"zero", "left", "plus", "space", "hash"}
    OBVIOUS
  <2>. QED
    BY <1>1, <2>1, NameIs, Zenon
<1>5. "adapt" \notin LengthFlags(c, d)
  <2>1. \/ LengthFlags(c, d) = {} \/ LengthFlags(c, d) = {"long", "longlong"}
        \/ LengthFlags(c, d) = {"long"} \/ LengthFlags(c, d) = {"short", "char"}
        \/ LengthFlags(c, d) = {"short"}
    BY DEF LengthFlags
  <2>. QED
    BY <2>1
<1>6. /\ "adapt" \notin (IF IsStar(c, d.width, d.precision) /\ StarValue(c, d.arg) < 0
                         THEN {"left"} ELSE {})
      /\ "adapt" \notin (IF d.precision < d.length THEN {"precision"} ELSE {})
  OBVIOUS
<1>. QED
  BY <1>4, <1>5, <1>6, Zenon DEF FlagsOf

\* Characters are sent, and those there is room for are stored.
LEMMA EmitIs ==
  ASSUME Types, Sent, Stored, pc # "done", NEW text, IsSequence(text), Emit(text),
         UNCHANGED call
  PROVE  Sent' /\ Stored' /\ out' = out /\ maxlen' = maxlen
<1>1. /\ idx' = idx + Len(text) /\ sent' = sent \o text
      /\ memory' = IF out # "buffer" THEN memory
                   ELSE [i \in DOMAIN memory |->
                           IF i \in idx .. idx + Len(text) - 1
                           THEN out_buffer(memory, text[i - idx + 1], i)[i] ELSE memory[i]]
  BY DEF Emit
<1>2. IsSequence(sent) /\ idx = Len(sent) /\ idx \in Nat /\ Len(text) \in Nat
  BY SeqLaws DEF Sent
<1>3. /\ IsSequence(sent') /\ Len(sent') = idx + Len(text)
      /\ \A i \in 1 .. idx + Len(text) :
           sent'[i] = IF i <= idx THEN sent[i] ELSE text[i - idx]
  BY <1>1, <1>2, Joined
<1>4. Sent'
  BY <1>1, <1>3 DEF Sent
<1>5. out' = out /\ maxlen' = maxlen
  BY DEF out, maxlen
<1>6. maxlen \in Int
  BY CallIs
<1>. DEFINE M == 0 .. MemSize - 1
<1>7. M \subseteq Nat
  BY PrintfAssumption
<1>8. memory = [i \in M |-> memory[i]]
  BY DEF Stored
<1>9. CASE out # "buffer"
  BY <1>1, <1>4, <1>5, <1>8, <1>9 DEF Stored
<1>10. CASE out = "buffer"
  <2>1. \A i \in M : memory[i] = IF i < idx /\ i < maxlen THEN sent[i + 1] ELSE "?"
    BY <1>10 DEF Stored
  <2>. DEFINE new(i) == IF i \in idx .. idx + Len(text) - 1
                        THEN out_buffer(memory, text[i - idx + 1], i)[i] ELSE memory[i]
  <2>2. memory' = [i \in M |-> new(i)]
    BY <1>1, <1>8, <1>10, Zenon
  <2>3. ASSUME NEW i \in M
        PROVE  new(i) = IF i < idx + Len(text) /\ i < maxlen THEN sent'[i + 1] ELSE "?"
    <3>1. i \in Nat
      BY <1>7
    <3>2. memory[i] = IF i < idx /\ i < maxlen THEN sent[i + 1] ELSE "?"
      BY <2>1
    <3>3. CASE i < idx
      <4>1. new(i) = memory[i]
        BY <1>2, <3>1, <3>3
      <4>2. sent'[i + 1] = sent[i + 1]
        BY <1>2, <1>3, <3>1, <3>3
      <4>. QED
        BY <1>2, <3>1, <3>2, <3>3, <4>1, <4>2
    <3>4. CASE i >= idx /\ i < idx + Len(text)
      <4>1. new(i) = out_buffer(memory, text[i - idx + 1], i)[i]
        BY <1>2, <3>1, <3>4
      <4>2. sent'[i + 1] = text[i - idx + 1]
        <5>1. i + 1 \in 1 .. idx + Len(text) /\ ~(i + 1 <= idx) /\ (i + 1) - idx = i - idx + 1
          BY <1>2, <3>1, <3>4
        <5>2. sent'[i + 1] = text[(i + 1) - idx]
          BY <1>3, <5>1
        <5>. QED
          BY <5>1, <5>2
      <4>3. ASSUME NEW c PROVE out_buffer(memory, c, i)[i] = IF i < maxlen THEN c ELSE memory[i]
        <5>1. i \in DOMAIN memory
          BY <1>8
        <5>. QED
          BY <5>1 DEF out_buffer
      <4>. QED
        BY <1>2, <3>1, <3>2, <3>4, <4>1, <4>2, <4>3
    <3>5. CASE i >= idx + Len(text)
      <4>1. new(i) = memory[i]
        BY <1>2, <3>1, <3>5
      <4>. QED
        BY <1>2, <3>1, <3>2, <3>5, <4>1
    <3>. QED
      BY <1>2, <3>1, <3>3, <3>4, <3>5
  <2>. HIDE DEF new
  <2>4. /\ memory' = [i \in M |-> memory'[i]]
        /\ \A i \in M : memory'[i] = IF i < idx' /\ i < maxlen' THEN sent'[i + 1] ELSE "?"
    BY <1>1, <1>5, <2>2, <2>3
  <2>. QED
    BY <1>4, <1>5, <2>4 DEF Stored
<1>. QED
  BY <1>4, <1>5, <1>9, <1>10

-----------------------------------------------------------------------------
(* The steps.                                                              *)

\* What was converted last stays.
LEMMA ConvSame ==
  ASSUME FillsField, PowerInTable, UNCHANGED conv
  PROVE  FillsField' /\ PowerInTable'
<1>1. FillsField'
  BY DEF FillsField, Padded, IsFloat, IsNumber
<1>2. PowerInTable'
  BY DEF PowerInTable, IsFloat, IsNumber, Asked
<1>. QED
  BY <1>1, <1>2

\* Nothing is sent.
LEMMA Silent ==
  ASSUME Sent, Stored, UNCHANGED <<call, output>>, pc # "done", pc' # "done"
  PROVE  Sent' /\ Stored' /\ Contract'
<1>1. idx' = idx /\ sent' = sent /\ memory' = memory
  BY DEF output
<1>2. Sent' /\ Contract'
  BY <1>1 DEF Sent, Contract
<1>3. Stored'
  BY <1>1 DEF Stored, out, maxlen
<1>. QED
  BY <1>2, <1>3

\* The directive that is read.
LEMMA CurIs ==
  ASSUME FInv, pc \in Reading, NEW d, d = Cur
  PROVE  /\ IsDirective(call, d) /\ WellFormedDirective(call, d) /\ IsSequence(call.format)
         /\ d.at \in Nat \ {0} /\ d.arg \in Nat \ {0}
         /\ nth \in 1 .. Len(call.pieces)
         /\ pc = "flags" => AtFlags(call, d)
         /\ pc = "width" => AtWidth(call, d)
         /\ pc = "precision" => AtPrecision(call, d)
         /\ pc = "length" => AtLength(call, d)
         /\ pc = "specifier" => AtSpecifier(call, d)
<1>1. Types /\ Inside
  BY DEF FInv
<1>2. IsSequence(call.format) /\ Len(call.format) \in Nat /\ Len(call.pieces) \in Nat
  BY <1>1, CallIs
<1>3. nth \in 1 .. Len(call.pieces) /\ d = call.pieces[nth]
  BY <1>1, <1>2 DEF Types, Inside, Cur
<1>4. /\ d.at \in 1 .. Len(call.format) /\ d.arg \in Nat \ {0}
      /\ IsDirective(call, d) => WellFormedDirective(call, d)
  BY <1>1, <1>3, PieceIs
<1>5. /\ IsDirective(call, d)
      /\ pc = "flags" => AtFlags(call, d)
      /\ pc = "width" => AtWidth(call, d)
      /\ pc = "precision" => AtPrecision(call, d)
      /\ pc = "length" => AtLength(call, d)
      /\ pc = "specifier" => AtSpecifier(call, d)
  BY <1>1 DEF Inside
<1>6. d.at \in Nat \ {0}
  BY <1>2, <1>4
<1>. QED
  BY <1>2, <1>3, <1>4, <1>5, <1>6

\* A field is read.
LEMMA FieldRead ==
  ASSUME FInv, pc \in Reading, NEW d, d = Cur,
         UNCHANGED <<call, nth, output, conv>>, width' \in Nat, precision' \in Nat,
         \/ pc' = "flags" /\ AtFlags(call, d)'
         \/ pc' = "width" /\ AtWidth(call, d)'
         \/ pc' = "precision" /\ AtPrecision(call, d)'
         \/ pc' = "length" /\ AtLength(call, d)'
         \/ pc' = "specifier" /\ AtSpecifier(call, d)'
  PROVE  FInv'
<1>1. /\ IsDirective(call, d) /\ WellFormedDirective(call, d) /\ IsSequence(call.format)
      /\ d.at \in Nat \ {0} /\ d.arg \in Nat \ {0} /\ nth \in 1 .. Len(call.pieces)
  BY CurIs
<1>2. /\ d.width \in Nat \ {0} /\ d.precision \in Nat \ {0} /\ d.length \in Nat \ {0}
      /\ d.specifier \in Nat \ {0}
      /\ PrecisionArg(call, d) \in Nat \ {0} /\ ValueArg(call, d) \in Nat \ {0}
  BY <1>1, Shape, StarsIs
<1>3. pc # "done" /\ pc' \in Reading /\ pc' # "done" /\ pc' # "text"
  BY DEF Reading
<1>4. call' = call /\ nth' = nth /\ Cur' = d
  BY DEF Cur
<1>5. PrecisionArg(call, d)' = PrecisionArg(call, d) /\ ValueArg(call, d)' = ValueArg(call, d)
  BY <1>4 DEF PrecisionArg, ValueArg, IsStar, CharAt
<1>6. /\ pc' = "flags" /\ AtFlags(call, d)' => pos' \in d.at + 1 .. d.width /\ arg' = d.arg
      /\ pc' = "width" /\ AtWidth(call, d)' => pos' = d.width /\ arg' = d.arg
      /\ pc' = "precision" /\ AtPrecision(call, d)' => pos' = d.precision /\ arg' = PrecisionArg(call, d)'
      /\ pc' = "length" /\ AtLength(call, d)' => pos' = d.length /\ arg' = ValueArg(call, d)'
      /\ pc' = "specifier" /\ AtSpecifier(call, d)' => pos' = d.specifier /\ arg' = ValueArg(call, d)'
  BY DEF AtFlags, AtWidth, AtPrecision, AtLength, AtSpecifier
<1>7. \A i \in d.at + 1 .. d.width : i \in Nat \ {0}
  BY <1>1, <1>2
<1>8. pos' \in Nat \ {0} /\ arg' \in Nat \ {0}
  BY <1>1, <1>2, <1>5, <1>6, <1>7, Zenon
<1>9. Types'
  BY <1>3, <1>4, <1>8 DEF FInv, Types
<1>10. Inside'
  <2>1. IsDirective(call, d)'
    BY <1>1, <1>4 DEF IsDirective, CharAt
  <2>2. /\ pc' = "flags" => AtFlags(call, d)'
        /\ pc' = "width" => AtWidth(call, d)'
        /\ pc' = "precision" => AtPrecision(call, d)'
        /\ pc' = "length" => AtLength(call, d)'
        /\ pc' = "specifier" => AtSpecifier(call, d)'
    BY Zenon
  <2>3. nth' # 0
    BY <1>1, <1>4
  <2>. QED
    BY <1>4, <2>1, <2>2, <2>3 DEF Inside
<1>11. Outside'
  BY <1>3 DEF Outside
<1>12. Sent' /\ Stored' /\ Contract'
  BY <1>3, Silent DEF FInv
<1>13. FillsField' /\ PowerInTable'
  BY ConvSame DEF FInv
<1>. QED
  BY <1>9, <1>10, <1>11, <1>12, <1>13 DEF FInv

\* A '%' starts a directive.
LEMMA PercentStep == ASSUME FInv, Percent PROVE FInv'
<1>1. /\ pc = "text" /\ Ch = "%" /\ flags' = {} /\ width' = 0 /\ precision' = 0
      /\ pc' = "flags" /\ pos' = pos + 1 /\ nth' = nth + 1
      /\ UNCHANGED <<call, arg, output, conv>>
  BY DEF Percent
<1>2. Types /\ Outside
  BY DEF FInv
<1>3. PICK d : d = call.pieces[nth + 1]
  OBVIOUS
<1>4. nth + 1 \in 1 .. Len(call.pieces) /\ d.at = pos /\ d.arg = arg
  BY <1>1, <1>2, <1>3, NextPiece
<1>5. IsDirective(call, d)
  BY <1>1, <1>4 DEF IsDirective, Ch
<1>6. WellFormedDirective(call, d)
  BY <1>2, <1>3, <1>4, <1>5, PieceIs
<1>7. IsSequence(call.format) /\ Len(call.pieces) \in Nat
  BY <1>2, CallIs
<1>8. d.at < d.width /\ d.width \in Nat
  BY <1>6, <1>7, Shape
<1>9. pos \in Nat \ {0} /\ arg \in Nat \ {0}
  BY <1>2 DEF Types
<1>10. call' = call /\ Cur' = d /\ arg' = arg
  BY <1>1, <1>3 DEF Cur
<1>11. Types'
  BY <1>1, <1>2, <1>4, <1>7, <1>9, <1>10 DEF Types, Reading
<1>12. AtFlags(call, d)'
  <2>1. FlagsTo(call, d, pos)' = {}
    <3>1. d.at + 1 .. pos' - 1 = {}
      BY <1>1, <1>4, <1>9
    <3>. QED
      BY <3>1 DEF FlagsTo
  <2>. QED
    BY <1>1, <1>4, <1>8, <1>9, <1>10, <2>1 DEF AtFlags
<1>13. Inside'
  <2>1. IsDirective(call, d)'
    BY <1>5, <1>10 DEF IsDirective, CharAt
  <2>2. nth' # 0
    BY <1>1, <1>4
  <2>. QED
    BY <1>1, <1>10, <1>12, <2>1, <2>2 DEF Inside
<1>14. Outside'
  BY <1>1 DEF Outside
<1>15. Sent' /\ Stored' /\ Contract'
  BY <1>1, Silent DEF FInv
<1>16. FillsField' /\ PowerInTable'
  BY <1>1, ConvSame DEF FInv
<1>. QED
  BY <1>11, <1>13, <1>14, <1>15, <1>16 DEF FInv

\* A flag is read.
LEMMA FlagStep == ASSUME FInv, Flag PROVE FInv'
<1>1. PICK d : d = Cur
  OBVIOUS
<1>2. pc = "flags" /\ pc \in Reading /\ UNCHANGED <<call, nth, width, precision, output, conv>>
  BY DEF Flag, Reading
<1>3. /\ WellFormedDirective(call, d) /\ IsSequence(call.format) /\ d.at \in Nat
      /\ AtFlags(call, d)
  BY <1>1, <1>2, CurIs
<1>4. (pc' = "flags" /\ AtFlags(call, d)') \/ (pc' = "width" /\ AtWidth(call, d)')
  BY <1>3, FlagReads
<1>5. width' \in Nat /\ precision' \in Nat
  BY <1>2 DEF FInv, Types
<1>. QED
  BY <1>1, <1>2, <1>4, <1>5, FieldRead

\* The width is read.
LEMMA WidthStep == ASSUME FInv, Width PROVE FInv'
<1>1. PICK d : d = Cur
  OBVIOUS
<1>2. /\ pc = "width" /\ pc \in Reading /\ pc' = "precision"
      /\ UNCHANGED <<call, nth, precision, output, conv>>
  BY DEF Width, Reading
<1>3. /\ WellFormedDirective(call, d) /\ IsSequence(call.format) /\ d.arg \in Nat \ {0}
      /\ AtWidth(call, d)
  BY <1>1, <1>2, CurIs
<1>4. AtPrecision(call, d)' /\ width' \in Nat
  BY <1>3, WidthReads
<1>5. precision' \in Nat
  BY <1>2 DEF FInv, Types
<1>. QED
  BY <1>1, <1>2, <1>4, <1>5, FieldRead

\* The precision is read.
LEMMA PrecisionStep == ASSUME FInv, Precision PROVE FInv'
<1>1. PICK d : d = Cur
  OBVIOUS
<1>2. /\ pc = "precision" /\ pc \in Reading /\ pc' = "length"
      /\ UNCHANGED <<call, nth, width, output, conv>>
  BY DEF Precision, Reading
<1>3. /\ WellFormedDirective(call, d) /\ IsSequence(call.format) /\ d.arg \in Nat \ {0}
      /\ AtPrecision(call, d)
  BY <1>1, <1>2, CurIs
<1>4. AtLength(call, d)' /\ precision' \in Nat
  BY <1>3, PrecisionReads
<1>5. width' \in Nat
  BY <1>2 DEF FInv, Types
<1>. QED
  BY <1>1, <1>2, <1>4, <1>5, FieldRead

\* The length is read.
LEMMA LengthStep == ASSUME FInv, Length PROVE FInv'
<1>1. PICK d : d = Cur
  OBVIOUS
<1>2. /\ pc = "length" /\ pc \in Reading /\ pc' = "specifier"
      /\ UNCHANGED <<call, nth, width, precision, output, conv>>
  BY DEF Length, Reading
<1>3. WellFormedDirective(call, d) /\ IsSequence(call.format) /\ AtLength(call, d)
  BY <1>1, <1>2, CurIs
<1>4. AtSpecifier(call, d)'
  BY <1>3, LengthReads
<1>5. width' \in Nat /\ precision' \in Nat
  BY <1>2 DEF FInv, Types
<1>. QED
  BY <1>1, <1>2, <1>4, <1>5, FieldRead

\* A character of the format stands for itself.
LEMMA LiteralStep == ASSUME FInv, Literal PROVE FInv'
<1>. DEFINE text == <<Ch>>
<1>1. /\ pc = "text" /\ Ch \notin {"%", "NUL"} /\ Emit(text)
      /\ pos' = pos + 1 /\ nth' = nth + 1
      /\ UNCHANGED <<call, pc, arg, flags, width, precision, conv>>
  BY DEF Literal, fields
<1>2. Types /\ Outside /\ Sent /\ Stored
  BY DEF FInv
<1>3. PICK d : d = call.pieces[nth + 1]
  OBVIOUS
<1>4. nth + 1 \in 1 .. Len(call.pieces) /\ d.at = pos /\ d.arg = arg
  BY <1>1, <1>2, <1>3, NextPiece
<1>5. ~IsDirective(call, d)
  BY <1>1, <1>4 DEF IsDirective, Ch
<1>6. pos \in Nat \ {0} /\ arg \in Nat \ {0} /\ Len(call.pieces) \in Nat /\ nth + 1 # 0
  BY <1>2, <1>4, CallIs DEF Types
<1>7. IsSequence(text)
  BY Single
<1>. HIDE DEF text
<1>8. Sent' /\ Stored'
  BY <1>1, <1>2, <1>7, EmitIs
<1>9. call' = call /\ Cur' = d /\ arg' = arg /\ pc' = pc
  BY <1>1, <1>3 DEF Cur
<1>10. Types'
  BY <1>1, <1>2, <1>4, <1>6, <1>9 DEF Types
<1>11. Inside' /\ Contract'
  BY <1>1, <1>9 DEF Inside, Reading, Contract
<1>12. Outside'
  <2>1. NextAt(call, d) = pos + 1 /\ NextArg(call, d) = arg
    BY <1>4, <1>5 DEF NextAt, NextArg
  <2>2. NextAt(call', d) = NextAt(call, d) /\ NextArg(call', d) = NextArg(call, d)
    BY <1>9
  <2>. QED
    BY <1>1, <1>6, <1>9, <2>1, <2>2 DEF Outside
<1>13. FillsField' /\ PowerInTable'
  BY <1>1, ConvSame DEF FInv
<1>. QED
  BY <1>8, <1>10, <1>11, <1>12, <1>13 DEF FInv

\* What a conversion owes its field, and a fraction the table of powers.
Fills(spec, value, text, w, fl) ==
  \/ spec \in FloatSpecs /\ value.kind = "number" /\ Filled(text, w, fl, FtoaSize)
  \/ /\ spec \in FloatSpecs /\ value.kind # "number" /\ IsSequence(text)
     /\ Len(text) >= w \/ ("zero" \in fl /\ "left" \notin fl)
  \/ spec \notin FloatSpecs /\ Filled(text, w, fl, NtoaSize)

Tabled(spec, value, prec, text, fl) ==
  spec \in {"f", "F", "e", "E"} /\ value.kind = "number" /\ PrecLeft(Wanted(prec, fl)) > MaxPrec
    => NoPower(text)

\* Both, for a number with a fraction and for a value that is none.
LEMMA NumberOwes ==
  ASSUME NEW spec \in FloatSpecs, NEW value, value.kind = "number", NEW text, NEW prec, NEW w,
         NEW fl, Filled(text, w, fl, FtoaSize),
         spec \in {"f", "F", "e", "E"} /\ PrecLeft(Wanted(prec, fl)) > MaxPrec => NoPower(text)
  PROVE  Fills(spec, value, text, w, fl) /\ Tabled(spec, value, prec, text, fl)
  BY Zenon DEF Fills, Tabled

LEMMA SpecialOwes ==
  ASSUME NEW spec \in FloatSpecs, NEW value, value.kind # "number", NEW text, NEW prec, NEW w,
         NEW fl, IsSequence(text), Len(text) >= w \/ ("zero" \in fl /\ "left" \notin fl)
  PROVE  Fills(spec, value, text, w, fl) /\ Tabled(spec, value, prec, text, fl)
  BY Zenon DEF Fills, Tabled

\* A directive is converted.
LEMMA ConvertStep ==
  ASSUME FInv, NEW value, NEW w \in Nat, NEW fl, NEW text, NEW n \in Nat,
         Convert(value, w, fl, text, n), n = IF Ch \in Specifiers THEN 1 ELSE 0,
         Fills(Ch, value, text, w, fl), Tabled(Ch, value, precision, text, fl)
  PROVE  FInv'
<1>1. /\ pc = "specifier" /\ Emit(text)
      /\ conv' = [spec |-> Ch, value |-> value, flags |-> fl, width |-> w,
                  precision |-> precision, text |-> text]
      /\ pc' = "text" /\ pos' = pos + 1 /\ arg' = arg + n
      /\ UNCHANGED <<call, nth, flags, width, precision>>
  BY DEF Convert, fields
<1>2. Types /\ Sent /\ Stored
  BY DEF FInv
<1>3. PICK d : d = Cur
  OBVIOUS
<1>4. /\ IsDirective(call, d) /\ WellFormedDirective(call, d) /\ AtSpecifier(call, d)
      /\ nth \in 1 .. Len(call.pieces)
  BY <1>1, <1>3, CurIs DEF Reading
<1>5. pos = d.specifier /\ arg = ValueArg(call, d)
  BY <1>4 DEF AtSpecifier
<1>6. pos \in Nat \ {0} /\ arg \in Nat \ {0}
  BY <1>2 DEF Types
<1>7. IsSequence(text)
  BY DEF Fills, Filled
<1>8. Sent' /\ Stored'
  BY <1>1, <1>2, <1>7, EmitIs
<1>9. call' = call /\ Cur' = d /\ nth' = nth /\ nth # 0
  BY <1>1, <1>3, <1>4 DEF Cur
<1>10. Types'
  BY <1>1, <1>2, <1>6, <1>9 DEF Types
<1>11. Inside' /\ Contract'
  BY <1>1 DEF Inside, Reading, Contract
<1>12. Outside'
  <2>1. NextAt(call, d) = pos + 1 /\ NextArg(call, d) = arg + n
    BY <1>4, <1>5 DEF NextAt, NextArg, Ch
  <2>2. NextAt(call', d) = NextAt(call, d) /\ NextArg(call', d) = NextArg(call, d)
    BY <1>9
  <2>. QED
    BY <1>1, <1>9, <2>1, <2>2 DEF Outside
<1>13. /\ conv'.spec = Ch /\ conv'.value = value /\ conv'.flags = fl /\ conv'.width = w
       /\ conv'.precision = precision /\ conv'.text = text
  BY <1>1
<1>14. FillsField'
  <2>1. Len(text) \in Nat /\ FtoaSize \in Nat /\ NtoaSize \in Nat
    BY <1>7, SeqLaws, PrintfAssumption
  <2>2. /\ Padded' <=> "zero" \in fl /\ "left" \notin fl
        /\ IsFloat' <=> Ch \in FloatSpecs
        /\ IsNumber' <=> Ch \in FloatSpecs /\ value.kind = "number"
    BY <1>13 DEF Padded, IsFloat, IsNumber
  <2>3. Len(conv'.text) < conv'.width =>
          /\ Padded'
          /\ \/ IsFloat' /\ ~IsNumber'
             \/ conv'.width > (IF IsFloat' THEN FtoaSize ELSE NtoaSize)
    BY <1>13, <2>1, <2>2 DEF Fills, Filled
  <2>. QED
    BY <2>3 DEF FillsField
<1>15. PowerInTable'
  <2>1. Asked' = Wanted(precision, fl)
    BY <1>13 DEF Asked, Wanted
  <2>2. IsNumber' => value.kind = "number"
    BY <1>13 DEF IsNumber
  <2>3. IsNumber' /\ conv'.spec \in {"f", "F", "e", "E"} /\ PrecLeft(Asked') > MaxPrec
          => NoPower(conv'.text)
    BY <1>13, <2>1, <2>2 DEF Tabled
  <2>. QED
    BY <2>3 DEF PowerInTable, NoPower, Starts
<1>. QED
  BY <1>8, <1>10, <1>11, <1>12, <1>14, <1>15 DEF FInv

\* The argument of a directive is the one its specifier asks for.
LEMMA ArgumentIs ==
  ASSUME FInv, pc = "specifier", NEW ch, ch = Ch
  PROVE  /\ ch \in Specifiers => ArgumentFits(ch, call.args[arg])
         /\ "adapt" \notin flags /\ width \in Nat /\ precision \in Nat
<1>1. PICK d : d = Cur
  OBVIOUS
<1>2. WellFormedDirective(call, d) /\ AtSpecifier(call, d)
  BY <1>1, CurIs DEF Reading
<1>3. pos = d.specifier /\ arg = ValueArg(call, d) /\ flags = FlagsOf(call, d)
  BY <1>2 DEF AtSpecifier
<1>4. CharAt(call, d.specifier) \in Specifiers =>
        ArgumentFits(CharAt(call, d.specifier), call.args[ValueArg(call, d)])
  BY <1>2, Zenon DEF WellFormedDirective
<1>5. ch = CharAt(call, d.specifier)
  BY <1>3 DEF Ch
<1>6. "adapt" \notin flags
  BY <1>2, <1>3, NoAdapt
<1>. QED
  BY <1>3, <1>4, <1>5, <1>6 DEF FInv, Types

\* %d, %i, %u, %x, %X, %o and %b.
LEMMA IntegerStep == ASSUME FInv, Integer PROVE FInv'
<1>. DEFINE fl == IntegerFlags
            n == call.args[arg].num
            v == IF Ch \in {"d", "i"} THEN Signed(n, Values(fl)) ELSE n % Values(fl)
            m == IF v < 0 THEN -v ELSE v
            neg == v < 0
            text == ntoa(m, neg, Base[Ch], precision, width, fl)
<1>1. Ch \in DOMAIN Base /\ Convert(v, width, fl, text, 1)
  BY Zenon DEF Integer
<1>2. pc = "specifier"
  BY <1>1 DEF Convert
<1>3. width \in Nat /\ precision \in Int
  BY <1>2 DEF FInv, Types
<1>4. Ch \in Specifiers /\ Ch \notin FloatSpecs
  BY <1>1 DEF Specifiers, FloatSpecs, Base
<1>. HIDE DEF fl, v, m, neg
<1>5. Filled(text, width, fl, NtoaSize)
  BY <1>3, NtoaIs
<1>. HIDE DEF text
<1>6. Fills(Ch, v, text, width, fl) /\ Tabled(Ch, v, precision, text, fl)
  BY <1>4, <1>5 DEF Fills, Tabled, FloatSpecs
<1>. QED
  BY <1>1, <1>3, <1>4, <1>6, ConvertStep

\* %f and %F.
LEMMA FloatStep == ASSUME FInv, Float PROVE FInv'
<1>. DEFINE fl == IF Ch = "F" THEN flags \cup {"upper"} ELSE flags
            v == call.args[arg]
<1>1. PICK low \in BOOLEAN : Convert(v, width, fl, ftoa(v, low, precision, width, fl), 1)
  BY Zenon DEF Float
<1>. DEFINE text == ftoa(v, low, precision, width, fl)
<1>2. Ch \in {"f", "F"} /\ pc = "specifier"
  BY <1>1 DEF Float, Convert
<1>3. Ch \in Specifiers /\ Ch \in FloatSpecs
  BY <1>2 DEF Specifiers, FloatSpecs
<1>4. PICK ch : ch = Ch
  OBVIOUS
<1>5. ArgumentFits(ch, v) /\ "adapt" \notin flags /\ width \in Nat /\ precision \in Nat
  BY <1>2, <1>3, <1>4, ArgumentIs
<1>6. v.kind \in {"number", "nan", "inf", "-inf"}
  BY <1>3, <1>4, <1>5 DEF ArgumentFits
<1>7. "adapt" \notin fl
  BY <1>5
<1>. HIDE DEF fl, v
<1>8. ASSUME v.kind = "number"
      PROVE  Fills(Ch, v, text, width, fl) /\ Tabled(Ch, v, precision, text, fl)
  <2>1. /\ Filled(text, width, fl, FtoaSize)
        /\ PrecLeft(Wanted(precision, fl)) > MaxPrec => NoPower(text)
    BY <1>5, <1>7, <1>8, FtoaIs
  <2>. HIDE DEF text
  <2>. QED
    BY <1>3, <1>8, <2>1, NumberOwes
<1>9. ASSUME v.kind # "number"
      PROVE  Fills(Ch, v, text, width, fl) /\ Tabled(Ch, v, precision, text, fl)
  <2>1. text = special(v, width, fl)
    BY <1>9, Zenon DEF ftoa
  <2>2. /\ IsSequence(text)
        /\ Len(text) >= width \/ ("zero" \in fl /\ "left" \notin fl)
    BY <1>5, <1>6, <1>9, <2>1, SpecialIs
  <2>. HIDE DEF text
  <2>. QED
    BY <1>3, <1>9, <2>2, SpecialOwes
<1>10. Fills(Ch, v, text, width, fl) /\ Tabled(Ch, v, precision, text, fl)
  BY <1>8, <1>9, Zenon
<1>11. Convert(v, width, fl, text, 1)
  BY <1>1, Zenon DEF fl, v
<1>. HIDE DEF text
<1>. QED
  BY <1>3, <1>5, <1>10, <1>11, ConvertStep

\* %e, %E, %g and %G.
LEMMA ExponentialStep == ASSUME FInv, Exponential PROVE FInv'
<1>. DEFINE fl == flags \cup (IF Ch \in {"g", "G"} THEN {"adapt"} ELSE {})
                        \cup (IF Ch \in {"E", "G"} THEN {"upper"} ELSE {})
            v == call.args[arg]
<1>1. /\ Ch \in FloatSpecs \ {"f", "F"}
      /\ \E low \in BOOLEAN :
           Convert(v, width, fl, IF v.kind = "number" THEN etoa(v, low, precision, width, fl)
                                 ELSE special(v, width, fl), 1)
  BY Zenon DEF Exponential
<1>2. PICK low \in BOOLEAN :
        Convert(v, width, fl, IF v.kind = "number" THEN etoa(v, low, precision, width, fl)
                              ELSE special(v, width, fl), 1)
  BY <1>1, Zenon
<1>. DEFINE text == IF v.kind = "number" THEN etoa(v, low, precision, width, fl)
                    ELSE special(v, width, fl)
<1>3. Ch \in Specifiers /\ Ch \in FloatSpecs /\ pc = "specifier"
  BY <1>1, <1>2 DEF Specifiers, Convert
<1>4. PICK ch : ch = Ch
  OBVIOUS
<1>5. ArgumentFits(ch, v) /\ "adapt" \notin flags /\ width \in Nat /\ precision \in Nat
  BY <1>3, <1>4, ArgumentIs
<1>6. v.kind \in {"number", "nan", "inf", "-inf"}
  BY <1>3, <1>4, <1>5 DEF ArgumentFits
<1>7. Ch \in {"f", "F", "e", "E"} => "adapt" \notin fl
  BY <1>1, <1>5
<1>. HIDE DEF fl, v
<1>8. ASSUME v.kind = "number"
      PROVE  Fills(Ch, v, text, width, fl) /\ Tabled(Ch, v, precision, text, fl)
  <2>1. text = etoa(v, low, precision, width, fl)
    BY <1>8, Zenon
  <2>2. /\ Filled(text, width, fl, FtoaSize)
        /\ "adapt" \notin fl /\ PrecLeft(Wanted(precision, fl)) > MaxPrec => NoPower(text)
    BY <1>5, <2>1, EtoaIs
  <2>. HIDE DEF text
  <2>. QED
    BY <1>3, <1>7, <1>8, <2>2, NumberOwes
<1>9. ASSUME v.kind # "number"
      PROVE  Fills(Ch, v, text, width, fl) /\ Tabled(Ch, v, precision, text, fl)
  <2>1. text = special(v, width, fl)
    BY <1>9, Zenon
  <2>2. /\ IsSequence(text)
        /\ Len(text) >= width \/ ("zero" \in fl /\ "left" \notin fl)
    BY <1>5, <1>6, <1>9, <2>1, SpecialIs
  <2>. HIDE DEF text
  <2>. QED
    BY <1>3, <1>9, <2>2, SpecialOwes
<1>10. Fills(Ch, v, text, width, fl) /\ Tabled(Ch, v, precision, text, fl)
  BY <1>8, <1>9, Zenon
<1>11. Convert(v, width, fl, text, 1)
  BY <1>2, Zenon
<1>. HIDE DEF text
<1>. QED
  BY <1>3, <1>5, <1>10, <1>11, ConvertStep

\* A conversion that is no fraction and fills its field.
LEMMA TextOwes ==
  ASSUME NEW spec, spec \notin FloatSpecs, NEW value, NEW text, NEW prec, NEW w, NEW fl,
         IsSequence(text), Len(text) >= w
  PROVE  Fills(spec, value, text, w, fl) /\ Tabled(spec, value, prec, text, fl)
  BY DEF Fills, Tabled, Filled, FloatSpecs

\* %c.
LEMMA CharStep == ASSUME FInv, Char PROVE FInv'
<1>. DEFINE chars == call.args[arg].chars
            text == pad(chars, width, flags)
<1>1. Ch = "c" /\ Convert(chars, width, flags, text, 1) /\ pc = "specifier"
  BY Zenon DEF Char, Convert
<1>2. Ch \in Specifiers /\ Ch \notin FloatSpecs
  BY <1>1 DEF Specifiers, FloatSpecs
<1>3. PICK ch : ch = Ch
  OBVIOUS
<1>4. ArgumentFits(ch, call.args[arg]) /\ width \in Nat
  BY <1>1, <1>2, <1>3, ArgumentIs
<1>5. IsSequence(chars)
  BY <1>1, <1>3, <1>4 DEF ArgumentFits
<1>. HIDE DEF chars
<1>6. IsSequence(text) /\ Len(text) >= width
  BY <1>4, <1>5, PadIs
<1>. HIDE DEF text
<1>7. Fills(Ch, chars, text, width, flags) /\ Tabled(Ch, chars, precision, text, flags)
  BY <1>2, <1>6, TextOwes
<1>. QED
  BY <1>1, <1>2, <1>4, <1>7, ConvertStep

\* %s.
LEMMA StringStep == ASSUME FInv, String PROVE FInv'
<1>. DEFINE chars == call.args[arg].chars
            shown == Shown(chars)
            text == pad(shown, width, flags)
<1>1. Ch = "s" /\ Convert(chars, width, flags, text, 1) /\ pc = "specifier"
  BY Zenon DEF String, Convert
<1>2. Ch \in Specifiers /\ Ch \notin FloatSpecs
  BY <1>1 DEF Specifiers, FloatSpecs
<1>3. PICK ch : ch = Ch
  OBVIOUS
<1>4. ArgumentFits(ch, call.args[arg]) /\ width \in Nat /\ precision \in Nat
  BY <1>1, <1>2, <1>3, ArgumentIs
<1>5. IsSequence(chars)
  BY <1>1, <1>3, <1>4 DEF ArgumentFits
<1>. HIDE DEF chars
<1>6. IsSequence(shown)
  <2>. DEFINE n == IF precision < Len(chars) THEN precision ELSE Len(chars)
  <2>1. n \in 0 .. Len(chars)
    BY <1>4, <1>5, SeqLaws
  <2>2. shown = SubSeq(chars, 1, n) \/ shown = chars
    BY DEF Shown
  <2>. HIDE DEF n, shown
  <2>3. IsSequence(SubSeq(chars, 1, n))
    BY <1>5, <2>1, Prefixed
  <2>. QED
    BY <1>5, <2>2, <2>3, Zenon
<1>. HIDE DEF shown
<1>7. IsSequence(text) /\ Len(text) >= width
  BY <1>4, <1>6, PadIs
<1>. HIDE DEF text
<1>8. Fills(Ch, chars, text, width, flags) /\ Tabled(Ch, chars, precision, text, flags)
  BY <1>2, <1>7, TextOwes
<1>. QED
  BY <1>1, <1>2, <1>4, <1>8, ConvertStep

\* %p.
LEMMA PointerStep == ASSUME FInv, Pointer PROVE FInv'
<1>. DEFINE fl == flags \cup {"zero", "upper"}
            v == call.args[arg].num % LongValues
            w == NumDigits(SizeMax, 16, LongValues)
            text == ntoa(v, FALSE, 16, precision, w, fl)
<1>1. Ch = "p" /\ Convert(v, w, fl, text, 1) /\ pc = "specifier"
  BY Zenon DEF Pointer, Convert
<1>2. Ch \in Specifiers /\ Ch \notin FloatSpecs
  BY <1>1 DEF Specifiers, FloatSpecs
<1>3. precision \in Int
  BY DEF FInv, Types
<1>4. w \in Nat
  BY NumDigitsIs, PrintfAssumption
<1>. HIDE DEF fl, v, w
<1>5. Filled(text, w, fl, NtoaSize)
  BY <1>3, <1>4, NtoaIs
<1>. HIDE DEF text
<1>6. Fills(Ch, v, text, w, fl) /\ Tabled(Ch, v, precision, text, fl)
  BY <1>2, <1>5 DEF Fills, Tabled, FloatSpecs
<1>. QED
  BY <1>1, <1>2, <1>4, <1>6, ConvertStep

\* A character that is no specifier.
LEMMA OtherStep == ASSUME FInv, Other PROVE FInv'
<1>. DEFINE text == <<Ch>>
<1>1. Ch \notin Specifiers /\ Convert(0, 1, flags, text, 0)
  BY Zenon DEF Other
<1>2. Ch \notin FloatSpecs
  BY <1>1 DEF Specifiers
<1>3. IsSequence(text) /\ Len(text) >= 1
  BY Single
<1>. HIDE DEF text
<1>4. Fills(Ch, 0, text, 1, flags) /\ Tabled(Ch, 0, precision, text, flags)
  BY <1>2, <1>3, TextOwes
<1>. QED
  BY <1>1, <1>4, ConvertStep

\* The format ends inside a directive.
LEMMA CutStep == ASSUME FInv, Cut PROVE FInv'
<1>. DEFINE text == <<Ch>>
<1>1. /\ pc = "specifier" /\ Emit(text) /\ pc' = "behind" /\ pos' = pos + 1
      /\ UNCHANGED <<call, arg, nth, flags, width, precision, conv>>
  BY DEF Cut, fields
<1>2. Types /\ Sent /\ Stored
  BY DEF FInv
<1>3. IsSequence(text)
  BY Single
<1>. HIDE DEF text
<1>4. Sent' /\ Stored'
  BY <1>1, <1>2, <1>3, EmitIs
<1>5. Types'
  BY <1>1, <1>2 DEF Types
<1>6. Inside' /\ Outside' /\ Contract'
  BY <1>1 DEF Inside, Outside, Reading, Contract
<1>7. FillsField' /\ PowerInTable'
  BY <1>1, ConvSame DEF FInv
<1>. QED
  BY <1>4, <1>5, <1>6, <1>7 DEF FInv

\* The NUL is stored behind the text, or at the end of the buffer.
LEMMA TerminateStep == ASSUME FInv, Terminate PROVE FInv'
<1>. DEFINE last == IF idx < maxlen THEN idx ELSE (maxlen - 1) % LongValues
            M == 0 .. MemSize - 1
<1>1. /\ pc = "text" /\ pc' = "done"
      /\ memory' = IF out = "buffer" THEN out_buffer(memory, "NUL", last) ELSE memory
      /\ UNCHANGED <<call, pos, arg, nth, flags, width, precision, idx, sent, conv>>
  BY DEF Terminate, fields
<1>2. Types /\ Sent /\ Stored
  BY DEF FInv
<1>3. Types'
  BY <1>1, <1>2 DEF Types
<1>4. Inside' /\ Outside'
  BY <1>1 DEF Inside, Outside, Reading
<1>5. Sent'
  BY <1>1, <1>2 DEF Sent
<1>6. FillsField' /\ PowerInTable'
  BY <1>1, ConvSame DEF FInv
<1>7. out' = out /\ maxlen' = maxlen
  BY <1>1 DEF out, maxlen
<1>8. memory = [i \in M |-> memory[i]] /\ DOMAIN memory = M
  BY <1>2 DEF Stored
<1>9. memory' = [i \in M |-> memory'[i]]
  BY <1>1, <1>8 DEF out_buffer
<1>10. Stored'
  BY <1>1, <1>9 DEF Stored
<1>11. ASSUME out = "buffer"
       PROVE  LET end == IF idx < maxlen THEN idx ELSE maxlen - 1
              IN  \A i \in DOMAIN memory' :
                    memory'[i] = IF i < end THEN sent[i + 1] ELSE IF i = end THEN "NUL" ELSE "?"
  <2>. DEFINE end == IF idx < maxlen THEN idx ELSE maxlen - 1
  <2>1. maxlen \in 0 .. SizeMax /\ SizeMax \in Nat /\ LongValues = SizeMax + 1
    BY <1>2, CallIs
  <2>2. idx \in Nat
    BY <1>2, SeqLaws DEF Sent
  <2>3. \A i \in M : memory[i] = IF i < idx /\ i < maxlen THEN sent[i + 1] ELSE "?"
    BY <1>1, <1>2, <1>11 DEF Stored
  <2>4. DOMAIN memory' = M /\ M \subseteq Nat
    BY <1>9, PrintfAssumption
  <2>5. CASE maxlen = 0
    <3>1. (maxlen - 1) % LongValues = SizeMax
      BY <2>1, <2>5
    <3>2. last = SizeMax /\ ~(last < maxlen) /\ end = -1
      BY <2>1, <2>2, <2>5, <3>1
    <3>3. memory' = memory
      BY <1>1, <3>2 DEF out_buffer
    <3>. QED
      BY <2>2, <2>3, <2>4, <2>5, <3>2, <3>3
  <2>6. CASE maxlen # 0
    <3>1. (maxlen - 1) % LongValues = maxlen - 1
      BY <2>1, <2>6
    <3>2. last = end /\ last < maxlen /\ end \in Nat
      BY <2>1, <2>2, <2>6, <3>1
    <3>. HIDE DEF last
    <3>3. memory' = [memory EXCEPT ![end] = "NUL"]
      BY <1>1, <1>11, <3>2 DEF out_buffer
    <3>4. \A i \in M : memory'[i] = IF i = end THEN "NUL" ELSE memory[i]
      BY <1>8, <3>3
    <3>5. \A i \in M : i # end => (i < idx /\ i < maxlen <=> i < end)
      BY <2>1, <2>2, <2>4, <2>6
    <3>6. ~(end < end)
      BY <3>2
    <3>. HIDE DEF end, M
    <3>7. \A i \in M : memory'[i] = IF i < end THEN sent[i + 1] ELSE IF i = end THEN "NUL" ELSE "?"
      BY <2>3, <3>4, <3>5, <3>6
    <3>. QED
      BY <2>4, <3>7 DEF end
  <2>. QED
    BY <2>5, <2>6
<1>12. Contract'
  BY <1>1, <1>7, <1>11 DEF Contract
<1>. QED
  BY <1>3, <1>4, <1>5, <1>6, <1>10, <1>12 DEF FInv

-----------------------------------------------------------------------------
(* What the text of an integer says.                                       *)

Bases == {2, 8, 10, 16}

Blanks == {" ", "+", "-"}

\* A number is the digit that is cut off and what is left.
LEMMA CutOff ==
  ASSUME NEW n \in Nat, NEW base \in Bases
  PROVE  n \div base \in Nat /\ n % base \in 0 .. base - 1 /\ n = (n \div base) * base + (n % base)
<1>1. CASE base = 2
  BY <1>1
<1>2. CASE base = 8
  BY <1>2
<1>3. CASE base = 10
  BY <1>3
<1>4. CASE base = 16
  BY <1>4
<1>. QED
  BY <1>1, <1>2, <1>3, <1>4 DEF Bases

DividedBy(f, n, base, N) == f = [k \in 0 .. N |-> IF k = 0 THEN n ELSE f[k - 1] \div base]

\* There is a function that divides N times.
LEMMA Divides ==
  ASSUME NEW n, NEW base, NEW N \in Nat
  PROVE  \E f : DividedBy(f, n, base, N)
<1>. DEFINE Is(f, m) == f = [k \in 0 .. m |-> IF k = 0 THEN n ELSE f[k - 1] \div base]
            S == {m \in Nat : \E f : Is(f, m)}
<1>1. 0 \in S
  <2>. DEFINE f == [k \in 0 .. 0 |-> n]
  <2>1. Is(f, 0)
    OBVIOUS
  <2>. QED
    BY <2>1
<1>2. ASSUME NEW m \in Nat, m \in S PROVE m + 1 \in S
  <2>1. PICK g : Is(g, m)
    BY <1>2
  <2>. DEFINE f == [k \in 0 .. m + 1 |-> IF k = m + 1 THEN g[k - 1] \div base ELSE g[k]]
  <2>2. ASSUME NEW k \in 0 .. m + 1
        PROVE  f[k] = IF k = 0 THEN n ELSE f[k - 1] \div base
    <3>1. CASE k = m + 1
      <4>1. f[k] = g[k - 1] \div base /\ k # 0 /\ f[k - 1] = g[k - 1]
        BY <3>1
      <4>. QED
        BY <4>1
    <3>2. CASE k # m + 1
      <4>1. k \in 0 .. m /\ f[k] = g[k]
        BY <3>2
      <4>2. k # 0 => f[k - 1] = g[k - 1]
        BY <4>1
      <4>3. g[k] = IF k = 0 THEN n ELSE g[k - 1] \div base
        BY <2>1, <4>1
      <4>. QED
        BY <4>1, <4>2, <4>3
    <3>. QED
      BY <3>1, <3>2
  <2>3. Is(f, m + 1)
    <3>1. f = [k \in 0 .. m + 1 |-> f[k]]
      OBVIOUS
    <3>. HIDE DEF f
    <3>. QED
      BY <2>2, <3>1
  <2>. HIDE DEF f, Is
  <2>. QED
    BY <2>3
<1>3. \A m \in Nat : m \in S
  BY <1>1, <1>2, NatSet
<1>. QED
  BY <1>3 DEF DividedBy

\* What the divisions leave of a number.
LEMMA QuotientsAre ==
  ASSUME NEW n \in Nat, NEW base \in Bases, NEW size \in Nat, NEW q, q = Quotients(n, base, size)
  PROVE  /\ q[0] = n
         /\ \A k \in 1 .. size : q[k] = q[k - 1] \div base
         /\ \A k \in 0 .. size : q[k] \in Nat
<1>. DEFINE Is(f) == f = [k \in 0 .. size |-> IF k = 0 THEN n ELSE f[k - 1] \div base]
            c == CHOOSE f : Is(f)
<1>1. PICK g : DividedBy(g, n, base, size)
  BY Divides, Zenon
<1>2. Is(c)
  BY <1>1, Zenon DEF DividedBy
<1>3. q = c
  BY Zenon DEF Quotients
<1>. HIDE DEF c
<1>4. q[0] = n /\ \A k \in 1 .. size : q[k] = q[k - 1] \div base
  <2>1. 0 \in 0 .. size /\ \A k \in 1 .. size : k \in 0 .. size /\ k # 0
    OBVIOUS
  <2>. QED
    BY <1>2, <1>3, <2>1
<1>5. \A k \in 0 .. size : q[k] \in Nat
  <2>. DEFINE S == {k \in Nat : k <= size => q[k] \in Nat}
  <2>1. 0 \in S
    BY <1>4
  <2>2. ASSUME NEW k \in Nat, k \in S PROVE k + 1 \in S
    <3>. SUFFICES ASSUME k + 1 <= size PROVE q[k + 1] \in Nat
      OBVIOUS
    <3>1. q[k] \in Nat /\ k + 1 \in 1 .. size /\ (k + 1) - 1 = k
      BY <2>2
    <3>2. q[k + 1] = q[k] \div base
      BY <1>4, <3>1
    <3>. QED
      BY <3>1, <3>2, CutOff
  <2>3. \A k \in Nat : k \in S
    BY <2>1, <2>2, NatSet
  <2>. QED
    BY <2>3
<1>. QED
  BY <1>4, <1>5

\* The characters of the digits.
LEMMA DigitChar ==
  ASSUME NEW v \in 0 .. 15, NEW c, c = Lower[1 + v] \/ c = Upper[1 + v]
  PROVE  DigitValue(c) = v /\ c \notin Blanks
<1>. DEFINE P(k) == Lower[k] = c \/ Upper[k] = c
            x == CHOOSE k \in 1 .. 16 : P(k)
<1>1. 1 + v \in 1 .. 16 /\ P(1 + v)
  OBVIOUS
<1>2. \A k \in 1 .. 16 : P(k) => k = 1 + v
  BY DEF Lower, Upper
<1>3. c \notin Blanks
  <2>1. /\ Lower[1] = "0" /\ Lower[2] = "1" /\ Lower[3] = "2" /\ Lower[4] = "3"
        /\ Lower[5] = "4" /\ Lower[6] = "5" /\ Lower[7] = "6" /\ Lower[8] = "7"
        /\ Lower[9] = "8" /\ Lower[10] = "9" /\ Lower[11] = "a" /\ Lower[12] = "b"
        /\ Lower[13] = "c" /\ Lower[14] = "d" /\ Lower[15] = "e" /\ Lower[16] = "f"
    BY DEF Lower
  <2>2. /\ Upper[1] = "0" /\ Upper[2] = "1" /\ Upper[3] = "2" /\ Upper[4] = "3"
        /\ Upper[5] = "4" /\ Upper[6] = "5" /\ Upper[7] = "6" /\ Upper[8] = "7"
        /\ Upper[9] = "8" /\ Upper[10] = "9" /\ Upper[11] = "A" /\ Upper[12] = "B"
        /\ Upper[13] = "C" /\ Upper[14] = "D" /\ Upper[15] = "E" /\ Upper[16] = "F"
    BY DEF Upper
  <2>3. PICK k \in 1 .. 16 : c = Lower[k] \/ c = Upper[k]
    BY <1>1
  <2>4. \/ k = 1 \/ k = 2 \/ k = 3 \/ k = 4 \/ k = 5 \/ k = 6 \/ k = 7 \/ k = 8
        \/ k = 9 \/ k = 10 \/ k = 11 \/ k = 12 \/ k = 13 \/ k = 14 \/ k = 15 \/ k = 16
    OBVIOUS
  <2>5. Lower[k] \notin Blanks
    BY <2>1, <2>4 DEF Blanks
  <2>6. Upper[k] \notin Blanks
    BY <2>2, <2>4 DEF Blanks
  <2>. QED
    BY <2>3, <2>5, <2>6
<1>4. DigitValue(c) = x - 1
  BY DEF DigitValue
<1>. HIDE DEF P
<1>5. x \in 1 .. 16 /\ P(x)
  BY <1>1, Zenon
<1>6. x = 1 + v
  BY <1>2, <1>5, Zenon
<1>. HIDE DEF x
<1>. QED
  BY <1>3, <1>4, <1>6

\* A text that is a number, the last digit first.
Says(d, n, base) ==
  /\ IsSequence(d)
  /\ \A i \in 1 .. Len(d) : d[i] \notin Blanks
  /\ \E q : /\ q[0] = n /\ q[Len(d)] = 0
            /\ \A k \in 0 .. Len(d) : q[k] \in Nat
            /\ \A k \in 1 .. Len(d) : q[k - 1] = q[k] * base + DigitValue(d[k])

\* The digits of a number are the number, if the buffer is not full of them.
LEMMA DigitsSay ==
  ASSUME NEW n \in Nat, NEW base \in Bases, NEW size \in Nat \ {0}, NEW fl,
         NumDigits(n, base, size) < size
  PROVE  Says(Digits(n, base, size, fl), n, base)
<1>. DEFINE q == Quotients(n, base, size)
            D(i) == (IF "upper" \in fl THEN Upper ELSE Lower)[1 + (q[i - 1] % base)]
            N == NumDigits(n, base, size)
            d == Digits(n, base, size, fl)
            Fits(k) == (q[k] = 0 \/ k = size) /\ (k > 1 => q[k - 1] # 0)
<1>1. d = [i \in 1 .. N |-> D(i)]
  BY Zenon DEF Digits, With
<1>2. N = CHOOSE k \in 1 .. size : Fits(k)
  BY Zenon DEF NumDigits, With
<1>3. N \in 1 .. size - 1
  BY NumDigitsIs
<1>4. IsSequence(d) /\ Len(d) = N
  BY DigitsIs
<1>5. /\ q[0] = n /\ \A k \in 1 .. size : q[k] = q[k - 1] \div base
      /\ \A k \in 0 .. size : q[k] \in Nat
  BY QuotientsAre
<1>6. q[N] = 0
  <2>. DEFINE Large(k) == q[k] = 0 \/ k = size
              S == {k \in 1 .. size : Large(k)}
  <2>1. S \subseteq Nat /\ size \in S
    OBVIOUS
  <2>2. PICK k \in S : \A j \in S : j >= k
    BY <2>1, LeastNat
  <2>3. k \in 1 .. size /\ Large(k) /\ (k > 1 => ~ (k - 1 \in S))
    BY <2>1, <2>2
  <2>4. k > 1 => k - 1 \in 1 .. size
    BY <2>3
  <2>5. k > 1 => ~Large(k - 1)
    BY <2>3, <2>4, Zenon
  <2>6. Fits(k)
    BY <2>3, <2>5, Zenon
  <2>. HIDE DEF Fits, N
  <2>7. Fits(N)
    BY <1>2, <2>3, <2>6, Zenon
  <2>. QED
    BY <1>3, <2>7 DEF Fits
<1>. HIDE DEF q, N, d, Fits
<1>7. ASSUME NEW k \in 1 .. N
      PROVE  /\ d[k] \notin Blanks
             /\ q[k - 1] = q[k] * base + DigitValue(d[k])
  <2>1. k \in 1 .. size /\ k - 1 \in 0 .. size
    BY <1>3
  <2>2. q[k - 1] \in Nat /\ q[k] = q[k - 1] \div base
    BY <1>5, <2>1
  <2>3. /\ q[k - 1] % base \in 0 .. base - 1
        /\ q[k - 1] = q[k] * base + (q[k - 1] % base)
    BY <2>2, CutOff
  <2>4. q[k - 1] % base \in 0 .. 15
    BY <2>3 DEF Bases
  <2>5. d[k] = Lower[1 + (q[k - 1] % base)] \/ d[k] = Upper[1 + (q[k - 1] % base)]
    BY <1>1
  <2>6. DigitValue(d[k]) = q[k - 1] % base /\ d[k] \notin Blanks
    BY <2>4, <2>5, DigitChar
  <2>. QED
    BY <2>3, <2>6
<1>8. \A k \in 0 .. N : q[k] \in Nat
  BY <1>3, <1>5
<1>9. Says(d, n, base)
  BY <1>4, <1>5, <1>6, <1>7, <1>8 DEF Says
<1>. QED
  BY <1>9 DEF d

\* No digits are a 0.
LEMMA NoneSays ==
  ASSUME NEW base
  PROVE  Says(<<>>, 0, base)
<1>. DEFINE none == <<>>
            q == [k \in {0} |-> 0]
<1>1. IsSequence(none) /\ Len(none) = 0
  BY None
<1>. HIDE DEF none
<1>2. q[0] = 0
  OBVIOUS
<1>. HIDE DEF q
<1>3. Says(none, 0, base)
  BY <1>1, <1>2 DEF Says
<1>. QED
  BY <1>3 DEF none

\* Zeros and digits, the last one last, are read as the number.
LEMMA ReadsAs ==
  ASSUME NEW d, NEW n, NEW base \in Bases, Says(d, n, base), NEW s, NEW z \in Nat,
         IsSequence(s), Len(s) = z + Len(d),
         \A j \in 1 .. z : s[j] = "0",
         \A j \in 1 .. Len(d) : s[z + j] = d[Len(d) - j + 1]
  PROVE  ReadDigits(s, base) = n
<1>. DEFINE N == Len(d)
<1>1. PICK q : /\ q[0] = n /\ q[N] = 0
               /\ \A k \in 0 .. N : q[k] \in Nat
               /\ \A k \in 1 .. N : q[k - 1] = q[k] * base + DigitValue(d[k])
  BY DEF Says
<1>2. N \in Nat /\ base \in Nat
  BY SeqLaws DEF Says, Bases
<1>3. PICK f : /\ ReadDigits(s, base) = f[Len(s)] /\ f[0] = 0
               /\ \A k \in 1 .. Len(s) : f[k] = f[k - 1] * base + DigitValue(s[k])
  BY ReadDigitsIs
<1>. HIDE DEF N
<1>4. DigitValue("0") = 0
  <2>1. "0" = Lower[1 + 0] /\ 0 \in 0 .. 15
    BY DEF Lower
  <2>. QED
    BY <2>1, DigitChar
<1>5. f[z] = 0
  <2>. DEFINE S == {k \in Nat : k <= z => f[k] = 0}
  <2>1. 0 \in S
    BY <1>3
  <2>2. ASSUME NEW k \in Nat, k \in S PROVE k + 1 \in S
    <3>. SUFFICES ASSUME k + 1 <= z PROVE f[k + 1] = 0
      OBVIOUS
    <3>1. k + 1 \in 1 .. z /\ k + 1 \in 1 .. Len(s) /\ (k + 1) - 1 = k /\ k <= z
      BY <1>2 DEF N
    <3>0. f[k] = 0
      BY <2>2, <3>1
    <3>2. f[k + 1] = f[k] * base + DigitValue(s[k + 1]) /\ s[k + 1] = "0"
      BY <1>3, <3>1
    <3>. QED
      BY <1>2, <1>4, <3>0, <3>1, <3>2
  <2>3. \A k \in Nat : k \in S
    BY <2>1, <2>2, NatSet
  <2>. QED
    BY <2>3
<1>6. f[z + N] = q[N - N]
  <2>. DEFINE S == {k \in Nat : k <= N => f[z + k] = q[N - k]}
  <2>1. 0 \in S
    <3>1. z + 0 = z /\ N - 0 = N
      BY <1>2
    <3>. QED
      BY <1>1, <1>5, <3>1
  <2>2. ASSUME NEW k \in Nat, k \in S PROVE k + 1 \in S
    <3>. SUFFICES ASSUME k + 1 <= N PROVE f[z + (k + 1)] = q[N - (k + 1)]
      OBVIOUS
    <3>0. f[z + k] = q[N - k]
      <4>1. k <= N
        BY <1>2
      <4>. QED
        BY <2>2, <4>1
    <3>1. /\ k + 1 \in 1 .. N
          /\ z + (k + 1) \in 1 .. Len(s) /\ (z + (k + 1)) - 1 = z + k
          /\ N - k \in 1 .. N /\ (N - k) - 1 = N - (k + 1) /\ N - (k + 1) + 1 = N - k
      BY <1>2 DEF N
    <3>2. f[z + (k + 1)] = f[z + k] * base + DigitValue(s[z + (k + 1)])
      BY <1>3, <3>1
    <3>3. s[z + (k + 1)] = d[N - k]
      BY <3>1 DEF N
    <3>4. q[(N - k) - 1] = q[N - k] * base + DigitValue(d[N - k])
      BY <1>1, <3>1
    <3>. QED
      BY <3>0, <3>1, <3>2, <3>3, <3>4
  <2>3. \A k \in Nat : k \in S
    BY <2>1, <2>2, NatSet
  <2>. QED
    BY <1>2, <2>3
<1>. QED
  BY <1>1, <1>2, <1>3, <1>6 DEF N

\* A part of a sequence.
LEMMA Sliced ==
  ASSUME NEW s, IsSequence(s), NEW lo \in Nat \ {0}, NEW hi \in Nat, lo <= hi + 1, hi <= Len(s)
  PROVE  /\ IsSequence(SubSeq(s, lo, hi)) /\ Len(SubSeq(s, lo, hi)) = hi - lo + 1
         /\ \A j \in 1 .. hi - lo + 1 : SubSeq(s, lo, hi)[j] = s[lo + j - 1]
<1>. DEFINE R == Range(s)
<1>1. s \in Seq(R)
  BY DEF IsSequence
<1>. HIDE DEF R
<1>2. SubSeq(s, lo, hi) \in Seq(R) /\ Len(SubSeq(s, lo, hi)) = hi - lo + 1
  BY <1>1
<1>3. ASSUME NEW j \in 1 .. hi - lo + 1 PROVE SubSeq(s, lo, hi)[j] = s[lo + j - 1]
  BY <1>1
<1>. QED
  BY <1>2, <1>3, IsSeq

\* A text between blanks, with a sign in front of it, and what is left without them.
Framed(text, f, b, sign, k) ==
  /\ IsSequence(b) /\ IsSequence(sign) /\ IsSequence(f) /\ IsSequence(k)
  /\ AllBlank(f) /\ AllBlank(k)
  /\ \A i \in 1 .. Len(b) : b[i] \notin Blanks
  /\ \A i \in 1 .. Len(sign) : sign[i] \in Blanks
  /\ text = (f \o Reverse(b \o sign)) \o k

Stripped(text, b, sign) ==
  /\ IsSequence(Unsigned(text)) /\ Len(Unsigned(text)) = Len(b)
  /\ \A j \in 1 .. Len(b) : Unsigned(text)[j] = b[Len(b) - j + 1]
  /\ Contains(text, "-") <=> \E i \in 1 .. Len(sign) : sign[i] = "-"

LEMMA UnsignedIs ==
  ASSUME NEW b, NEW sign, NEW f, NEW k, NEW text, Framed(text, f, b, sign, k)
  PROVE  Stripped(text, b, sign)
<1>0. /\ IsSequence(b) /\ IsSequence(sign) /\ IsSequence(f) /\ IsSequence(k)
      /\ AllBlank(f) /\ AllBlank(k)
      /\ \A i \in 1 .. Len(b) : b[i] \notin Blanks
      /\ \A i \in 1 .. Len(sign) : sign[i] \in Blanks
      /\ text = (f \o Reverse(b \o sign)) \o k
  BY DEF Framed
<1>a. PICK F \in Nat, S \in Nat, L \in Nat, K \in Nat :
            F = Len(f) /\ S = Len(sign) /\ L = Len(b) /\ K = Len(k)
  BY <1>0, SeqLaws
<1>1. F \in Nat /\ S \in Nat /\ L \in Nat /\ K \in Nat
  OBVIOUS
<1>t. PICK t : t = b \o sign
  OBVIOUS
<1>r. PICK r : r = Reverse(t)
  OBVIOUS
<1>f. PICK fr : fr = f \o r
  OBVIOUS
<1>2. /\ IsSequence(t) /\ Len(t) = L + S
      /\ \A i \in 1 .. L + S : t[i] = IF i <= L THEN b[i] ELSE sign[i - L]
  <2>1. /\ IsSequence(b \o sign) /\ Len(b \o sign) = Len(b) + Len(sign)
        /\ \A i \in 1 .. Len(b) + Len(sign) :
             (b \o sign)[i] = IF i <= Len(b) THEN b[i] ELSE sign[i - Len(b)]
    BY <1>0, Joined, Zenon
  <2>. QED
    BY <1>a, <1>t, <2>1
<1>3. /\ IsSequence(r) /\ Len(r) = L + S
      /\ \A i \in 1 .. L + S : r[i] = t[L + S - i + 1]
  <2>1. /\ IsSequence(r) /\ Len(r) = Len(t)
        /\ \A i \in 1 .. Len(t) : r[i] = t[Len(t) - i + 1]
    BY <1>2, <1>r, Reversed, Zenon
  <2>. QED
    BY <1>2, <2>1
<1>4. /\ IsSequence(fr) /\ Len(fr) = F + (L + S)
      /\ \A i \in 1 .. F + (L + S) : fr[i] = IF i <= F THEN f[i] ELSE r[i - F]
  <2>1. /\ IsSequence(f \o r) /\ Len(f \o r) = Len(f) + Len(r)
        /\ \A i \in 1 .. Len(f) + Len(r) :
             (f \o r)[i] = IF i <= Len(f) THEN f[i] ELSE r[i - Len(f)]
    BY <1>0, <1>3, Joined, Zenon
  <2>. QED
    BY <1>a, <1>3, <1>f, <2>1
<1>5. /\ IsSequence(text) /\ Len(text) = F + (L + S) + K
      /\ \A i \in 1 .. F + (L + S) + K : text[i] = IF i <= F + (L + S) THEN fr[i] ELSE k[i - (F + (L + S))]
  <2>1. text = fr \o k
    BY <1>0, <1>t, <1>r, <1>f, Zenon
  <2>2. /\ IsSequence(fr \o k) /\ Len(fr \o k) = Len(fr) + Len(k)
        /\ \A i \in 1 .. Len(fr) + Len(k) :
             (fr \o k)[i] = IF i <= Len(fr) THEN fr[i] ELSE k[i - Len(fr)]
    BY <1>0, <1>4, Joined, Zenon
  <2>. QED
    BY <1>a, <1>4, <2>1, <2>2
<1>6. ASSUME NEW i \in 1 .. F PROVE text[i] = " "
  <2>1. i \in 1 .. F + (L + S) + K /\ i \in 1 .. F + (L + S) /\ i <= F + (L + S)
    BY <1>1
  <2>2. text[i] = f[i]
    BY <1>4, <1>5, <2>1
  <2>. QED
    BY <1>0, <2>2, <1>a DEF AllBlank
<1>7. ASSUME NEW i \in 1 .. S PROVE text[F + i] = sign[S - i + 1]
  <2>1. /\ F + i \in 1 .. F + (L + S) + K /\ F + i \in 1 .. F + (L + S) /\ F + i <= F + (L + S)
        /\ ~(F + i <= F) /\ (F + i) - F = i /\ i \in 1 .. L + S
        /\ L + S - i + 1 \in 1 .. L + S /\ ~(L + S - i + 1 <= L) /\ (L + S - i + 1) - L = S - i + 1
    BY <1>1
  <2>2. text[F + i] = r[i]
    BY <1>4, <1>5, <2>1
  <2>3. r[i] = t[L + S - i + 1]
    BY <1>3, <2>1
  <2>. QED
    BY <1>2, <2>1, <2>2, <2>3
<1>8. ASSUME NEW i \in 1 .. L PROVE text[F + S + i] = b[L - i + 1]
  <2>1. /\ F + S + i \in 1 .. F + (L + S) + K /\ F + S + i \in 1 .. F + (L + S)
        /\ F + S + i <= F + (L + S) /\ ~(F + S + i <= F) /\ (F + S + i) - F = S + i
        /\ S + i \in 1 .. L + S /\ L + S - (S + i) + 1 = L - i + 1
        /\ L - i + 1 \in 1 .. L + S /\ L - i + 1 <= L
    BY <1>1
  <2>2. text[F + S + i] = r[S + i]
    BY <1>4, <1>5, <2>1
  <2>3. r[S + i] = t[L - i + 1]
    BY <1>3, <2>1
  <2>. QED
    BY <1>2, <2>1, <2>2, <2>3
<1>9. ASSUME NEW i \in 1 .. K PROVE text[F + S + L + i] = " "
  <2>1. /\ F + S + L + i \in 1 .. F + (L + S) + K /\ ~(F + S + L + i <= F + (L + S))
        /\ (F + S + L + i) - (F + (L + S)) = i
    BY <1>1
  <2>2. text[F + S + L + i] = k[i]
    BY <1>5, <2>1
  <2>. QED
    BY <1>0, <2>2, <1>a DEF AllBlank
<1>10. ASSUME NEW i \in DOMAIN text
       PROVE  \/ i \in 1 .. F
              \/ \E j \in 1 .. S : i = F + j
              \/ \E j \in 1 .. L : i = F + S + j
              \/ \E j \in 1 .. K : i = F + S + L + j
  <2>1. i \in 1 .. F + (L + S) + K
    BY <1>5, SeqLaws
  <2>2. CASE i <= F
    BY <1>1, <2>1, <2>2
  <2>3. CASE i > F /\ i <= F + S
    <3>1. i - F \in 1 .. S /\ i = F + (i - F)
      BY <1>1, <2>1, <2>3
    <3>. QED
      BY <3>1
  <2>4. CASE i > F + S /\ i <= F + S + L
    <3>1. i - (F + S) \in 1 .. L /\ i = F + S + (i - (F + S))
      BY <1>1, <2>1, <2>4
    <3>. QED
      BY <3>1
  <2>5. CASE i > F + S + L
    <3>1. i - (F + S + L) \in 1 .. K /\ i = F + S + L + (i - (F + S + L))
      BY <1>1, <2>1, <2>5
    <3>. QED
      BY <3>1
  <2>. QED
    BY <1>1, <2>1, <2>2, <2>3, <2>4, <2>5
<1>11. /\ \A i \in 1 .. S : S - i + 1 \in 1 .. S
       /\ \A i \in 1 .. L : L - i + 1 \in 1 .. L
  BY <1>1
<1>12. \A i \in 1 .. L : text[F + S + i] \notin Blanks /\ F + S + i \in DOMAIN text
  <2>. SUFFICES ASSUME NEW i \in 1 .. L
                PROVE  text[F + S + i] \notin Blanks /\ F + S + i \in DOMAIN text
    OBVIOUS
  <2>1. text[F + S + i] = b[L - i + 1] /\ L - i + 1 \in 1 .. L
    BY <1>8, <1>11
  <2>2. F + S + i \in 1 .. F + (L + S) + K
    BY <1>1
  <2>. QED
    BY <1>0, <1>a, <1>5, <2>1, <2>2, SeqLaws
<1>13. \A i \in DOMAIN text : text[i] \notin Blanks => \E j \in 1 .. L : i = F + S + j
  <2>. SUFFICES ASSUME NEW i \in DOMAIN text, text[i] \notin Blanks
                PROVE  \E j \in 1 .. L : i = F + S + j
    OBVIOUS
  <2>1. ~(i \in 1 .. F)
    BY <1>6 DEF Blanks
  <2>2. ~(\E j \in 1 .. S : i = F + j)
    <3>. SUFFICES ASSUME NEW j \in 1 .. S, i = F + j PROVE FALSE
      OBVIOUS
    <3>1. text[i] = sign[S - j + 1] /\ S - j + 1 \in 1 .. Len(sign)
      BY <1>a, <1>7, <1>11
    <3>. QED
      BY <1>0, <3>1
  <2>3. ~(\E j \in 1 .. K : i = F + S + L + j)
    BY <1>9 DEF Blanks
  <2>. QED
    BY <1>10, <2>1, <2>2, <2>3
<1>c. \A j \in 1 .. L : F + S + j \in F + S + 1 .. F + S + L
  BY <1>1
<1>. DEFINE kept == {i \in DOMAIN text : text[i] \notin {" ", "+", "-"}}
<1>14. kept = {i \in DOMAIN text : text[i] \notin Blanks}
  BY DEF Blanks
<1>15. /\ \A i \in kept : i \in F + S + 1 .. F + S + L
       /\ \A i \in F + S + 1 .. F + S + L : i \in kept
  <2>1. ASSUME NEW i \in kept PROVE i \in F + S + 1 .. F + S + L
    <3>1. PICK j \in 1 .. L : i = F + S + j
      BY <1>13, <1>14
    <3>. QED
      BY <1>c, <3>1
  <2>2. ASSUME NEW i \in F + S + 1 .. F + S + L PROVE i \in kept
    <3>1. i - (F + S) \in 1 .. L /\ i = F + S + (i - (F + S))
      BY <1>1
    <3>. QED
      BY <1>12, <1>14, <3>1
  <2>. QED
    BY <2>1, <2>2, Zenon
<1>16. Unsigned(text) = IF kept = {} THEN <<>> ELSE SubSeq(text, Min(kept), Max(kept))
  BY DEF Unsigned
<1>. HIDE DEF kept
<1>17. /\ IsSequence(Unsigned(text)) /\ Len(Unsigned(text)) = L
       /\ \A j \in 1 .. L : Unsigned(text)[j] = b[L - j + 1]
  <2>1. CASE L = 0
    <3>1. kept = {}
      BY <1>1, <1>15, <2>1
    <3>2. Unsigned(text) = <<>>
      BY <1>16, <3>1
    <3>3. \A j \in 1 .. L : FALSE
      BY <2>1
    <3>. QED
      BY <2>1, <3>2, <3>3, None
  <2>2. CASE L # 0
    <3>. DEFINE lo == F + S + 1
                hi == F + S + L
    <3>1. lo \in Nat \ {0} /\ hi \in Nat /\ lo <= hi + 1 /\ hi <= Len(text) /\ hi - lo + 1 = L
          /\ lo \in lo .. hi /\ hi \in lo .. hi
      BY <1>1, <1>5, <2>2
    <3>. HIDE DEF lo, hi
    <3>2. (\A i \in kept : i \in lo .. hi) /\ lo \in kept /\ hi \in kept
      BY <1>15, <3>1 DEF lo, hi
    <3>3. Min(kept) = lo
      <4>. DEFINE x == CHOOSE x \in kept : \A y \in kept : x =< y
      <4>1. \A y \in kept : lo =< y
        BY <3>1, <3>2
      <4>2. x \in kept /\ \A y \in kept : x =< y
        BY <3>2, <4>1
      <4>3. Min(kept) = x
        BY DEF Min
      <4>. HIDE DEF x
      <4>4. x =< lo /\ x \in lo .. hi
        BY <3>2, <4>2
      <4>. QED
        BY <3>1, <4>3, <4>4
    <3>4. Max(kept) = hi
      <4>. DEFINE x == CHOOSE x \in kept : \A y \in kept : x >= y
      <4>1. \A y \in kept : hi >= y
        BY <3>1, <3>2
      <4>2. x \in kept /\ \A y \in kept : x >= y
        BY <3>2, <4>1
      <4>3. Max(kept) = x
        BY DEF Max
      <4>. HIDE DEF x
      <4>4. x >= hi /\ x \in lo .. hi
        BY <3>2, <4>2
      <4>. QED
        BY <3>1, <4>3, <4>4
    <3>5. Unsigned(text) = SubSeq(text, lo, hi)
      BY <1>16, <3>2, <3>3, <3>4
    <3>6. /\ IsSequence(SubSeq(text, lo, hi)) /\ Len(SubSeq(text, lo, hi)) = L
          /\ \A j \in 1 .. L : SubSeq(text, lo, hi)[j] = text[lo + j - 1]
      <4>1. lo <= hi + 1 /\ hi <= Len(text) /\ lo \in Nat \ {0} /\ hi \in Nat /\ IsSequence(text)
        BY <1>5, <3>1
      <4>2. /\ IsSequence(SubSeq(text, lo, hi)) /\ Len(SubSeq(text, lo, hi)) = hi - lo + 1
            /\ \A j \in 1 .. hi - lo + 1 : SubSeq(text, lo, hi)[j] = text[lo + j - 1]
        BY <4>1, Sliced, Zenon
      <4>. QED
        BY <3>1, <4>2
    <3>7. \A j \in 1 .. L : lo + j - 1 = F + S + j
      BY <1>1 DEF lo
    <3>. QED
      <4>1. ASSUME NEW j \in 1 .. L PROVE SubSeq(text, lo, hi)[j] = b[L - j + 1]
        <5>1. SubSeq(text, lo, hi)[j] = text[F + S + j]
          BY <3>6, <3>7
        <5>. QED
          BY <1>8, <5>1
      <4>. QED
        BY <3>5, <3>6, <4>1, Zenon
  <2>. QED
    BY <2>1, <2>2
<1>18. Contains(text, "-") <=> \E i \in 1 .. S : sign[i] = "-"
  <2>1. ASSUME NEW i \in 1 .. Len(text), text[i] = "-"
        PROVE  \E j \in 1 .. S : sign[j] = "-"
    <3>1. i \in DOMAIN text
      BY <1>5, SeqLaws
    <3>2. ~(i \in 1 .. F)
      BY <1>6, <2>1
    <3>3. ~(\E j \in 1 .. L : i = F + S + j)
      BY <1>12, <2>1 DEF Blanks
    <3>4. ~(\E j \in 1 .. K : i = F + S + L + j)
      BY <1>9, <2>1
    <3>5. PICK j \in 1 .. S : i = F + j
      BY <1>10, <3>1, <3>2, <3>3, <3>4
    <3>. QED
      BY <1>7, <1>11, <2>1, <3>5
  <2>2. ASSUME NEW i \in 1 .. S, sign[i] = "-"
        PROVE  \E j \in 1 .. Len(text) : text[j] = "-"
    <3>1. S - i + 1 \in 1 .. S /\ S - (S - i + 1) + 1 = i /\ F + (S - i + 1) \in 1 .. F + (L + S) + K
      BY <1>1
    <3>2. text[F + (S - i + 1)] = "-"
      BY <1>7, <2>2, <3>1
    <3>. QED
      BY <1>5, <3>1, <3>2
  <2>. QED
    BY <2>1, <2>2 DEF Contains
<1>. QED
  BY <1>a, <1>17, <1>18 DEF Stripped

\* What there is room for is appended.
LEMMA PutAll ==
  ASSUME NEW b, NEW s, NEW size \in Nat, IsSequence(b), IsSequence(s), Len(b) + Len(s) <= size
  PROVE  Put(b, s, size) = b \o s
<1>1. /\ IsSequence(Put(b, s, size)) /\ Len(Put(b, s, size)) = Len(b) + Len(s)
      /\ \A i \in 1 .. Len(Put(b, s, size)) : Put(b, s, size)[i] = (b \o s)[i]
  BY PutLaws
<1>2. IsSequence(b \o s) /\ Len(b \o s) = Len(b) + Len(s)
  BY Joined
<1>. QED
  BY <1>1, <1>2, SeqSame

\* The digits of a number with zeros in front of it, and the prefix of '#' in front of
\* these.  The last character comes first.
Trailed(b, d, P) ==
  /\ IsSequence(b) /\ Len(d) + P <= Len(b)
  /\ \A i \in 1 .. Len(d) : b[i] = d[i]
  /\ \A i \in Len(d) + 1 .. Len(b) - P : b[i] = "0"
  /\ \A i \in 1 .. Len(b) : b[i] \notin Blanks

\* Digits are such a text.
LEMMA DigitsTrail ==
  ASSUME NEW d, NEW n, NEW base, Says(d, n, base)
  PROVE  Trailed(d, d, 0)
<1>1. IsSequence(d) /\ Len(d) \in Nat /\ \A i \in 1 .. Len(d) : d[i] \notin Blanks
  BY SeqLaws DEF Says
<1>. QED
  BY <1>1 DEF Trailed

Larger(m, n) == IF m > n THEN m ELSE n

\* More zeros make another one.
LEMMA ZerosTrail ==
  ASSUME NEW b, NEW d, Trailed(b, d, 0), IsSequence(d), NEW n \in Int, NEW size \in Nat,
         Len(b) <= size, n <= size, NEW t, t = Put(b, Times("0", n - Len(b)), size)
  PROVE  Trailed(t, d, 0) /\ Len(t) = Larger(n, Len(b))
<1>. DEFINE z == Times("0", n - Len(b))
<1>1. IsSequence(b) /\ Len(b) \in Nat /\ Len(d) \in Nat /\ Len(d) <= Len(b)
  BY SeqLaws DEF Trailed
<1>2. /\ IsSequence(z) /\ Len(z) = AtLeast0(n - Len(b)) /\ Len(z) \in Nat
      /\ \A i \in 1 .. Len(z) : z[i] = "0"
  BY <1>1, TimesLaws DEF AtLeast0
<1>. HIDE DEF z
<1>3. Len(b) + Len(z) <= size /\ Len(b) + Len(z) = IF n > Len(b) THEN n ELSE Len(b)
  BY <1>1, <1>2 DEF AtLeast0
<1>4. t = b \o z
  BY <1>1, <1>2, <1>3, PutAll DEF z
<1>5. /\ IsSequence(b \o z) /\ Len(b \o z) = Len(b) + Len(z)
      /\ \A i \in 1 .. Len(b) + Len(z) :
           (b \o z)[i] = IF i <= Len(b) THEN b[i] ELSE z[i - Len(b)]
  BY <1>1, <1>2, Joined, Zenon
<1>6. PICK B \in Nat, Z \in Nat, D \in Nat : B = Len(b) /\ Z = Len(z) /\ D = Len(d)
  BY <1>1, <1>2
<1>7. /\ IsSequence(t) /\ Len(t) = B + Z
      /\ \A i \in 1 .. B + Z : t[i] = IF i <= B THEN b[i] ELSE z[i - B]
  BY <1>4, <1>5, <1>6
<1>8. ASSUME NEW i \in 1 .. D PROVE t[i] = d[i]
  <2>1. i \in 1 .. B + Z /\ i <= B
    BY <1>1, <1>6
  <2>. QED
    BY <1>6, <1>7, <2>1 DEF Trailed
<1>9. ASSUME NEW i \in D + 1 .. B + Z PROVE t[i] = "0"
  <2>1. CASE i <= B
    <3>1. i \in 1 .. B + Z /\ i \in D + 1 .. B - 0
      BY <1>1, <1>6, <2>1
    <3>. QED
      BY <1>6, <1>7, <2>1, <3>1 DEF Trailed
  <2>2. CASE ~(i <= B)
    <3>1. i \in 1 .. B + Z /\ i - B \in 1 .. Z
      BY <1>1, <1>6, <2>2
    <3>. QED
      BY <1>2, <1>6, <1>7, <2>2, <3>1
  <2>. QED
    BY <2>1, <2>2
<1>10. ASSUME NEW i \in 1 .. B + Z PROVE t[i] \notin Blanks
  <2>1. CASE i <= B
    <3>1. i \in 1 .. B
      BY <1>1, <1>6, <2>1
    <3>. QED
      BY <1>6, <1>7, <2>1, <3>1 DEF Trailed
  <2>2. CASE ~(i <= B)
    <3>1. i \in D + 1 .. B + Z
      BY <1>1, <1>6, <2>2
    <3>. QED
      BY <1>9, <3>1 DEF Blanks
  <2>. QED
    BY <2>1, <2>2
<1>11. D + 0 <= B + Z /\ B + Z - 0 = B + Z
  BY <1>1, <1>6
<1>12. Trailed(t, d, 0)
  BY <1>6, <1>7, <1>8, <1>9, <1>10, <1>11 DEF Trailed
<1>. QED
  BY <1>3, <1>6, <1>7, <1>12 DEF Larger

\* What '#' puts in front of a number.
Marks(base) == IF base = 8 THEN 1 ELSE 2

\* The prefix of '#' replaces zeros only, or nothing.
LEMMA HashTrails ==
  ASSUME NEW b, NEW d, Trailed(b, d, 0), IsSequence(d), NEW base \in {2, 8, 16}, NEW prec, NEW w,
         NEW fl, "precision" \notin fl => prec = 0,
         "precision" \notin fl /\ Len(b) = w => Len(d) + Marks(base) <= w,
         Len(b) + Marks(base) <= NtoaSize, NEW h, h = hash(b, base, prec, w, fl)
  PROVE  Trailed(h, d, Marks(base)) /\ Len(h) <= Len(b) + Marks(base)
<1>. DEFINE n == Len(b)
            full == "precision" \notin fl /\ n > 0 /\ (n = prec \/ n = w)
            kept == IF ~full THEN n ELSE IF n > 1 /\ base = 16 THEN n - 2 ELSE n - 1
            letter == IF base = 16 THEN <<IF "upper" \in fl THEN "X" ELSE "x">>
                      ELSE IF base = 2 THEN <<"b">> ELSE <<>>
            zero == <<"0">>
            cut == SubSeq(b, 1, kept)
<1>1. h = Put(Put(cut, letter, NtoaSize), zero, NtoaSize)
  BY DEF hash
<1>2. /\ IsSequence(b) /\ Len(b) \in Nat /\ Len(d) \in Nat /\ Len(d) <= Len(b)
      /\ NtoaSize \in Nat
  BY SeqLaws, PrintfAssumption DEF Trailed
<1>3. Marks(base) \in 1 .. 2 /\ (base = 8 => Marks(base) = 1)
  BY DEF Marks
<1>4. kept \in 0 .. n /\ Len(d) <= kept
  <2>1. CASE ~full
    BY <1>2, <2>1
  <2>2. CASE full
    <3>1. n > 0 /\ n = w /\ Len(d) + Marks(base) <= n
      BY <2>2
    <3>2. CASE base = 8
      BY <1>2, <1>3, <2>2, <3>1, <3>2
    <3>3. CASE base # 8
      <4>1. Marks(base) = 2
        BY <3>3 DEF Marks
      <4>. QED
        BY <1>2, <2>2, <3>1, <4>1
    <3>. QED
      BY <3>2, <3>3
  <2>. QED
    BY <2>1, <2>2
<1>5. /\ IsSequence(cut) /\ Len(cut) = kept
      /\ \A i \in 1 .. kept : cut[i] = b[i]
  BY <1>2, <1>4, Prefixed
<1>6. IsSequence(zero) /\ Len(zero) = 1 /\ zero[1] = "0"
  BY Single
<1>7. /\ IsSequence(letter) /\ Len(letter) = Marks(base) - 1
      /\ \A i \in 1 .. Len(letter) : letter[i] \notin Blanks
  <2>1. CASE base = 16
    <3>1. PICK c : c = IF "upper" \in fl THEN "X" ELSE "x"
      OBVIOUS
    <3>2. letter = <<c>> /\ c \notin Blanks
      BY <2>1, <3>1 DEF Blanks
    <3>3. IsSequence(<<c>>) /\ Len(<<c>>) = 1 /\ <<c>>[1] = c
      BY Single
    <3>. HIDE DEF letter
    <3>. QED
      BY <2>1, <3>2, <3>3 DEF Marks
  <2>2. CASE base = 2
    <3>1. PICK c : c = "b"
      OBVIOUS
    <3>2. letter = <<c>> /\ c \notin Blanks
      BY <2>2, <3>1 DEF Blanks
    <3>3. IsSequence(<<c>>) /\ Len(<<c>>) = 1 /\ <<c>>[1] = c
      BY Single
    <3>. HIDE DEF letter
    <3>. QED
      BY <2>2, <3>2, <3>3 DEF Marks
  <2>3. CASE base = 8
    <3>1. letter = <<>>
      BY <2>3
    <3>. HIDE DEF letter
    <3>. QED
      BY <2>3, <3>1, None DEF Marks
  <2>. QED
    BY <2>1, <2>2, <2>3
<1>. HIDE DEF kept, letter, zero, cut
<1>8. PICK N \in Nat, K \in Nat, L \in Nat, D \in Nat :
             N = Len(b) /\ K = kept /\ L = Len(letter) /\ D = Len(d)
  <2>1. kept \in Nat
    BY <1>2, <1>4
  <2>2. Len(letter) \in Nat
    BY <1>3, <1>7
  <2>. QED
    BY <1>2, <2>1, <2>2
<1>9. Marks(base) = L + 1 /\ K <= N /\ D <= K /\ N + (L + 1) <= NtoaSize
  BY <1>2, <1>3, <1>4, <1>7, <1>8
<1>10. PICK one : one = cut \o letter
  OBVIOUS
<1>11. /\ IsSequence(one) /\ Len(one) = K + L
       /\ \A i \in 1 .. K + L : one[i] = IF i <= K THEN cut[i] ELSE letter[i - K]
  <2>1. /\ IsSequence(cut \o letter) /\ Len(cut \o letter) = Len(cut) + Len(letter)
        /\ \A i \in 1 .. Len(cut) + Len(letter) :
             (cut \o letter)[i] = IF i <= Len(cut) THEN cut[i] ELSE letter[i - Len(cut)]
    BY <1>5, <1>7, Joined, Zenon
  <2>. QED
    BY <1>5, <1>8, <1>10, <2>1
<1>12. Put(cut, letter, NtoaSize) = one
  <2>1. Len(cut) + Len(letter) <= NtoaSize
    BY <1>2, <1>5, <1>8, <1>9
  <2>. QED
    BY <1>2, <1>5, <1>7, <1>10, <2>1, PutAll
<1>13. h = one \o zero
  <2>1. Len(one) + Len(zero) <= NtoaSize
    BY <1>2, <1>6, <1>9, <1>11
  <2>. QED
    BY <1>1, <1>2, <1>6, <1>11, <1>12, <2>1, PutAll
<1>14. /\ IsSequence(h) /\ Len(h) = K + L + 1
       /\ \A i \in 1 .. K + L + 1 : h[i] = IF i <= K + L THEN one[i] ELSE zero[i - (K + L)]
  <2>1. /\ IsSequence(one \o zero) /\ Len(one \o zero) = Len(one) + Len(zero)
        /\ \A i \in 1 .. Len(one) + Len(zero) :
             (one \o zero)[i] = IF i <= Len(one) THEN one[i] ELSE zero[i - Len(one)]
    BY <1>6, <1>11, Joined, Zenon
  <2>. QED
    BY <1>6, <1>11, <1>13, <2>1
<1>15. ASSUME NEW i \in 1 .. K PROVE h[i] = b[i]
  <2>1. i \in 1 .. K + L + 1 /\ i \in 1 .. K + L /\ i <= K /\ i <= K + L
    OBVIOUS
  <2>. QED
    BY <1>5, <1>8, <1>11, <1>14, <2>1
<1>16. /\ \A i \in 1 .. D : b[i] = d[i]
       /\ \A i \in D + 1 .. N : b[i] = "0"
       /\ \A i \in 1 .. N : b[i] \notin Blanks
  <2>1. N - 0 = N
    OBVIOUS
  <2>. QED
    BY <1>8, <2>1 DEF Trailed
<1>17. /\ \A i \in 1 .. D : i \in 1 .. K
       /\ \A i \in D + 1 .. K : i \in 1 .. K /\ i \in D + 1 .. N
       /\ \A i \in 1 .. K : i \in 1 .. N
  BY <1>9
<1>18. ASSUME NEW i \in 1 .. K + L + 1 PROVE h[i] \notin Blanks
  <2>1. CASE i <= K
    <3>1. i \in 1 .. K
      BY <2>1
    <3>. QED
      BY <1>15, <1>16, <1>17, <3>1
  <2>2. CASE ~(i <= K) /\ i <= K + L
    <3>1. i \in 1 .. K + L /\ i - K \in 1 .. L
      BY <2>2
    <3>. QED
      BY <1>7, <1>8, <1>11, <1>14, <2>2, <3>1
  <2>3. CASE ~(i <= K + L)
    <3>1. i - (K + L) = 1
      BY <2>3
    <3>. QED
      BY <1>6, <1>14, <2>3, <3>1 DEF Blanks
  <2>. QED
    BY <2>1, <2>2, <2>3
<1>19. D + (L + 1) <= K + L + 1 /\ (K + L + 1) - (L + 1) = K /\ K + L + 1 <= N + (L + 1)
  BY <1>9
<1>20. /\ \A i \in 1 .. D : h[i] = d[i]
       /\ \A i \in D + 1 .. K : h[i] = "0"
  BY <1>15, <1>16, <1>17
<1>21. Trailed(h, d, L + 1)
  BY <1>8, <1>14, <1>18, <1>19, <1>20 DEF Trailed
<1>. QED
  BY <1>8, <1>9, <1>14, <1>19, <1>21

\* The number that a text says behind its prefix.
ReadsNumber(text, P, base, n, d, sign) ==
  LET digits == SubSeq(Unsigned(text), 1 + P, Len(Unsigned(text)))
  IN  /\ ReadDigits(digits, base) = n
      /\ digits = <<>> => d = <<>>
      /\ Contains(text, "-") <=> \E i \in 1 .. Len(sign) : sign[i] = "-"

\* A number between blanks, with a sign and a prefix, is read as the number.
LEMMA TextReads ==
  ASSUME NEW b, NEW d, NEW n \in Nat, NEW base \in Bases, NEW P \in Nat, Says(d, n, base),
         Trailed(b, d, P), NEW sign, IsSequence(sign), \A i \in 1 .. Len(sign) : sign[i] \in Blanks,
         NEW w \in Nat, NEW fl
  PROVE  ReadsNumber(out_rev(b \o sign, w, fl), P, base, n, d, sign)
<1>t. PICK text : text = out_rev(b \o sign, w, fl)
  OBVIOUS
<1>d. PICK digits : digits = SubSeq(Unsigned(text), 1 + P, Len(Unsigned(text)))
  OBVIOUS
<1>. DEFINE all == b \o sign
            f == InFront(all, w, fl)
            k == Behind(all, w, fl)
<1>1. IsSequence(b) /\ IsSequence(d) /\ Len(d) + P <= Len(b) /\ IsSequence(all)
  BY Joined DEF Trailed, Says
<1>2. /\ text = (f \o Reverse(all)) \o k
      /\ IsSequence(f) /\ IsSequence(k) /\ AllBlank(f) /\ AllBlank(k)
  BY <1>t, <1>1, AlignedIs
<1>. HIDE DEF f, k
<1>3. \A i \in 1 .. Len(b) : b[i] \notin Blanks
  BY DEF Trailed
<1>4. PICK u : u = Unsigned(text)
  OBVIOUS
<1>5. /\ IsSequence(u) /\ Len(u) = Len(b)
      /\ \A j \in 1 .. Len(b) : u[j] = b[Len(b) - j + 1]
      /\ Contains(text, "-") <=> \E i \in 1 .. Len(sign) : sign[i] = "-"
  <2>1. Framed(text, f, b, sign, k)
    BY <1>1, <1>2, <1>3 DEF Framed
  <2>2. Stripped(text, b, sign)
    BY <2>1, UnsignedIs
  <2>. QED
    BY <1>4, <2>2 DEF Stripped
<1>6. PICK B \in Nat, D \in Nat : B = Len(b) /\ D = Len(d)
  BY <1>1, SeqLaws
<1>7. D + P <= B /\ (B - P) - D \in Nat
  BY <1>1, <1>6
<1>8. PICK z \in Nat : z = (B - P) - D
  BY <1>7
<1>9. /\ IsSequence(digits) /\ Len(digits) = z + D
      /\ \A j \in 1 .. z + D : digits[j] = u[P + j]
  <2>1. /\ 1 + P \in Nat \ {0} /\ B \in Nat /\ 1 + P <= B + 1 /\ B - (1 + P) + 1 = z + D
        /\ \A j \in 1 .. z + D : (1 + P) + j - 1 = P + j
    BY <1>7, <1>8
  <2>2. digits = SubSeq(u, 1 + P, B) /\ Len(u) = B
    BY <1>d, <1>4, <1>5, <1>6
  <2>3. /\ IsSequence(SubSeq(u, 1 + P, B)) /\ Len(SubSeq(u, 1 + P, B)) = B - (1 + P) + 1
        /\ \A j \in 1 .. B - (1 + P) + 1 : SubSeq(u, 1 + P, B)[j] = u[(1 + P) + j - 1]
    <3>1. B <= Len(u)
      BY <2>2
    <3>. QED
      <4>1. 1 + P \in Nat \ {0} /\ B \in Nat /\ 1 + P <= B + 1 /\ B <= Len(u) /\ IsSequence(u)
        BY <1>5, <2>1, <3>1
      <4>. QED
        BY <4>1, Sliced
  <2>. QED
    BY <2>1, <2>2, <2>3
<1>10. ASSUME NEW j \in 1 .. z PROVE digits[j] = "0"
  <2>1. /\ j \in 1 .. z + D /\ P + j \in 1 .. B
        /\ B - (P + j) + 1 \in D + 1 .. B - P
    BY <1>7, <1>8
  <2>2. digits[j] = b[B - (P + j) + 1]
    BY <1>5, <1>6, <1>9, <2>1
  <2>. QED
    BY <1>6, <2>1, <2>2 DEF Trailed
<1>11. ASSUME NEW j \in 1 .. D PROVE digits[z + j] = d[D - j + 1]
  <2>1. /\ z + j \in 1 .. z + D /\ P + (z + j) \in 1 .. B
        /\ B - (P + (z + j)) + 1 = D - j + 1 /\ D - j + 1 \in 1 .. D
    BY <1>7, <1>8
  <2>2. digits[z + j] = b[D - j + 1]
    BY <1>5, <1>6, <1>9, <2>1
  <2>. QED
    BY <1>6, <2>1, <2>2 DEF Trailed
<1>12. ReadDigits(digits, base) = n
  BY <1>6, <1>9, <1>10, <1>11, ReadsAs
<1>13. digits = <<>> => d = <<>>
  <2>. SUFFICES ASSUME digits = <<>> PROVE d = <<>>
    OBVIOUS
  <2>1. Len(digits) = 0
    BY None
  <2>2. Len(d) = 0
    BY <1>6, <1>9, <2>1
  <2>. QED
    BY <1>1, <2>2, None, SeqSame
<1>. QED
  BY <1>t, <1>d, <1>5, <1>12, <1>13, Zenon DEF ReadsNumber

\* A sign is one of the characters that Unsigned leaves out, and '-' that of a negative number.
LEMMA SignChars ==
  ASSUME NEW negative \in BOOLEAN, NEW fl, NEW sign, sign = Sign(negative, fl)
  PROVE  /\ \A i \in 1 .. Len(sign) : sign[i] \in Blanks
         /\ negative <=> \E i \in 1 .. Len(sign) : sign[i] = "-"
<1>1. ASSUME NEW c, sign = <<c>>, c \in Blanks, negative <=> c = "-"
      PROVE  /\ \A i \in 1 .. Len(sign) : sign[i] \in Blanks
             /\ negative <=> \E i \in 1 .. Len(sign) : sign[i] = "-"
  <2>1. Len(sign) = 1 /\ sign[1] = c
    BY <1>1, Single
  <2>2. \A i \in 1 .. Len(sign) : i = 1
    BY <2>1
  <2>3. 1 \in 1 .. Len(sign)
    BY <2>1
  <2>. QED
    BY <1>1, <2>1, <2>2, <2>3, Zenon
<1>2. CASE sign = <<>> /\ ~negative
  <2>1. \A i \in 1 .. Len(sign) : FALSE
    BY <1>2, None
  <2>. QED
    BY <1>2, <2>1
<1>3. \/ negative /\ sign = <<"-">>
      \/ ~negative /\ sign = <<"+">>
      \/ ~negative /\ sign = <<" ">>
      \/ ~negative /\ sign = <<>>
  BY Zenon DEF Sign
<1>4. /\ "-" \in Blanks /\ "+" \in Blanks /\ " " \in Blanks
      /\ "+" # "-" /\ " " # "-"
  BY DEF Blanks
<1>5. \/ sign = <<>> /\ ~negative
      \/ \E c : sign = <<c>> /\ c \in Blanks /\ (negative <=> c = "-")
  BY <1>3, <1>4, Zenon
<1>. QED
  BY <1>1, <1>2, <1>5, Zenon

\* What fits with a prefix and a sign fits.
LEMMA Room ==
  ASSUME NEW x \in Nat, NEW y \in Nat, NEW p \in Nat, NEW s \in Nat, x <= y, y + p + 1 <= s
  PROVE  x + p + 1 <= s /\ x <= s /\ y <= s
  OBVIOUS

\* What _ntoa_long is given so that nothing is cut off: M digits and a prefix of P.
NtoaFits(M, P, prec, w, fl) ==
  /\ M + P + 1 <= NtoaSize
  /\ "left" \notin fl => prec + P + 1 <= NtoaSize
  /\ "zero" \in fl /\ "left" \notin fl => w + P + 1 <= NtoaSize
  /\ /\ P > 0 /\ "precision" \notin fl
     /\ IF "zero" \in fl /\ "left" \notin fl THEN M <= w ELSE M = w
     => M + P <= w

MarksOf(base, value, fl) == IF "hash" \notin fl \/ value = 0 THEN 0 ELSE Marks(base)

\* A text says an integer.
SaysInteger(text, P, base, value, negative, fl) ==
  LET digits == SubSeq(Unsigned(text), 1 + P, Len(Unsigned(text)))
  IN  /\ ReadDigits(digits, base) = value
      /\ digits = <<>> => value = 0 /\ "precision" \in fl
      /\ Contains(text, "-") <=> negative

\* The text of an integer that fits says the integer.
LEMMA NtoaReads ==
  ASSUME NEW value \in Nat, NEW negative \in BOOLEAN, NEW base \in Bases, NEW prec \in Nat,
         NEW w \in Nat, NEW fl, "precision" \notin fl => prec = 0,
         "hash" \in fl => base # 10 /\ Sign(negative, fl) = <<>>,
         NEW M \in Nat, M = NumDigits(value, base, NtoaSize),
         NEW P \in Nat, P = MarksOf(base, value, fl), NtoaFits(M, P, prec, w, fl)
  PROVE  SaysInteger(ntoa(value, negative, base, prec, w, fl), P, base, value, negative, fl)
<1>t. PICK text : text = ntoa(value, negative, base, prec, w, fl)
  OBVIOUS
<1>1. NtoaSize \in Nat \ {0} /\ M \in 1 .. NtoaSize /\ P \in 0 .. 2
  <2>1. NtoaSize \in Nat \ {0}
    BY PrintfAssumption
  <2>2. M \in 1 .. NtoaSize
    BY <2>1, NumDigitsIs
  <2>3. P = 0 \/ P = 1 \/ P = 2
    BY DEF Marks, MarksOf
  <2>. QED
    BY <2>1, <2>2, <2>3
<1>2. M < NtoaSize /\ P \in Nat /\ M \in Nat
  <2>1. M + P + 1 <= NtoaSize
    BY DEF NtoaFits
  <2>. QED
    BY <1>1, <2>1
<1>3. PICK ds : ds = Digits(value, base, NtoaSize, fl)
  OBVIOUS
<1>4. IsSequence(ds) /\ Len(ds) = M /\ Says(ds, value, base)
  BY <1>1, <1>2, <1>3, DigitsIs, DigitsSay
<1>5. PICK none : none = <<>>
  OBVIOUS
<1>6. IsSequence(none) /\ Len(none) = 0 /\ (value = 0 => Says(none, value, base))
  BY <1>5, None, NoneSays
<1>7. PICK d : d = IF "precision" \notin fl \/ value # 0 THEN ds ELSE none
  OBVIOUS
<1>8. /\ IsSequence(d) /\ Says(d, value, base) /\ Len(d) \in Nat /\ Len(d) <= M
      /\ value # 0 => Len(d) = M
      /\ d = <<>> => value = 0 /\ "precision" \in fl
  <2>1. CASE "precision" \notin fl \/ value # 0
    <3>1. d = ds
      BY <1>7, <2>1
    <3>2. d # <<>>
      BY <1>1, <1>4, <1>5, <1>6, <3>1
    <3>. QED
      BY <1>1, <1>2, <1>4, <3>1, <3>2
  <2>2. CASE "precision" \in fl /\ value = 0
    <3>1. d = none
      BY <1>7, <2>2
    <3>. QED
      BY <1>1, <1>2, <1>6, <2>2, <3>1
  <2>. QED
    BY <2>1, <2>2
<1>9. PICK fl1 : fl1 = IF value = 0 THEN fl \ {"hash"} ELSE fl
  OBVIOUS
<1>10. /\ \A x \in {"left", "zero", "precision", "plus", "space"} : x \in fl1 <=> x \in fl
       /\ "hash" \in fl1 <=> "hash" \in fl /\ value # 0
  BY <1>9
<1>11. PICK sign : sign = Sign(negative, fl1)
  OBVIOUS
<1>12. /\ IsSequence(sign) /\ Len(sign) \in 0 .. 1
       /\ \A i \in 1 .. Len(sign) : sign[i] \in Blanks
       /\ negative <=> \E i \in 1 .. Len(sign) : sign[i] = "-"
  BY <1>11, SignIs, SignChars
<1>13. PICK w1 : w1 = LessSign(w, negative, fl1)
  OBVIOUS
<1>14. w1 \in Nat /\ w1 <= w
  BY <1>13, LessSignIs
<1>15. "hash" \in fl1 => w1 = w /\ base \in {2, 8, 16} /\ P = Marks(base) /\ value # 0 /\ P > 0
  <2>. SUFFICES ASSUME "hash" \in fl1
                PROVE  w1 = w /\ base \in {2, 8, 16} /\ P = Marks(base) /\ value # 0 /\ P > 0
    OBVIOUS
  <2>1. "hash" \in fl /\ value # 0 /\ fl1 = fl
    BY <1>9, <1>10
  <2>2. w1 = w
    BY <1>13, <2>1 DEF LessSign
  <2>3. base \in {2, 8, 16} /\ P = Marks(base)
    BY <2>1 DEF Bases, MarksOf
  <2>4. P > 0
    BY <2>3 DEF Marks
  <2>. QED
    BY <2>1, <2>2, <2>3, <2>4
<1>16. "hash" \notin fl1 => P = 0
  BY <1>10 DEF MarksOf
<1>17. PICK toPrec : toPrec = IF "left" \in fl1 THEN d
                              ELSE Put(d, Times("0", prec - Len(d)), NtoaSize)
  OBVIOUS
<1>18. /\ Trailed(toPrec, d, 0) /\ Len(toPrec) \in Nat /\ Len(toPrec) + P + 1 <= NtoaSize
       /\ "precision" \notin fl => Len(toPrec) = Len(d)
  <2>1. Trailed(d, d, 0) /\ Len(d) + P + 1 <= NtoaSize
    <3>1. Trailed(d, d, 0)
      BY <1>8, DigitsTrail
    <3>2. M + P + 1 <= NtoaSize
      BY DEF NtoaFits
    <3>3. NtoaSize \in Nat
      BY <1>1
    <3>. QED
      BY <1>2, <1>8, <3>1, <3>2, <3>3, Room
  <2>2. CASE "left" \in fl1
    BY <1>8, <1>17, <2>1, <2>2
  <2>3. CASE "left" \notin fl1
    <3>1. prec + P + 1 <= NtoaSize
      BY <1>10, <2>3 DEF NtoaFits
    <3>2. prec \in Int /\ NtoaSize \in Nat /\ Len(d) <= NtoaSize /\ prec <= NtoaSize
      <4>1. NtoaSize \in Nat /\ P \in Nat /\ Len(d) \in Nat
        BY <1>1, <1>2, <1>8
      <4>2. \A x, y, s \in Nat : x + y + 1 <= s => x <= s
        OBVIOUS
      <4>3. Len(d) <= NtoaSize /\ prec <= NtoaSize
        BY <2>1, <3>1, <4>1, <4>2
      <4>. QED
        BY <4>1, <4>3
    <3>3. toPrec = Put(d, Times("0", prec - Len(d)), NtoaSize)
      BY <1>17, <2>3
    <3>4. Trailed(toPrec, d, 0) /\ Len(toPrec) = Larger(prec, Len(d))
      BY <1>8, <2>1, <3>2, <3>3, ZerosTrail
    <3>. QED
      BY <1>8, <2>1, <3>1, <3>4 DEF Larger
  <2>. QED
    BY <2>2, <2>3
<1>19. PICK toWidth : toWidth = IF "left" \in fl1 \/ "zero" \notin fl1 THEN toPrec
                                ELSE Put(toPrec, Times("0", w1 - Len(toPrec)), NtoaSize)
  OBVIOUS
<1>20. /\ Trailed(toWidth, d, 0) /\ Len(toWidth) \in Nat /\ Len(toWidth) + P + 1 <= NtoaSize
       /\ Len(toWidth) = IF "left" \notin fl1 /\ "zero" \in fl1 /\ w1 > Len(toPrec)
                         THEN w1 ELSE Len(toPrec)
  <2>1. CASE "left" \in fl1 \/ "zero" \notin fl1
    BY <1>18, <1>19, <2>1
  <2>2. CASE "left" \notin fl1 /\ "zero" \in fl1
    <3>1. w + P + 1 <= NtoaSize
      BY <1>10, <2>2 DEF NtoaFits
    <3>a. NtoaSize \in Nat /\ P \in Nat /\ w1 \in Nat /\ w1 <= w /\ Len(toPrec) \in Nat
          /\ Len(toPrec) + P + 1 <= NtoaSize
      BY <1>1, <1>2, <1>14, <1>18
    <3>2. w1 \in Int /\ NtoaSize \in Nat /\ Len(toPrec) <= NtoaSize /\ w1 <= NtoaSize
          /\ w1 + P + 1 <= NtoaSize
      <4>1. Len(toPrec) <= NtoaSize
        BY <3>a, Room
      <4>2. w1 <= NtoaSize /\ w1 + P + 1 <= NtoaSize
        BY <3>1, <3>a, Room
      <4>. QED
        BY <3>a, <4>1, <4>2
    <3>3. toWidth = Put(toPrec, Times("0", w1 - Len(toPrec)), NtoaSize)
      BY <1>19, <2>2
    <3>4. Trailed(toWidth, d, 0) /\ Len(toWidth) = Larger(w1, Len(toPrec))
      BY <1>8, <1>18, <3>2, <3>3, ZerosTrail
    <3>. QED
      BY <1>14, <1>18, <2>2, <3>2, <3>4 DEF Larger
  <2>. QED
    BY <2>1, <2>2
<1>21. PICK prefixed : prefixed = IF "hash" \in fl1 THEN hash(toWidth, base, prec, w1, fl1)
                                  ELSE toWidth
  OBVIOUS
<1>22. Trailed(prefixed, d, P) /\ Len(prefixed) \in Nat /\ Len(prefixed) + 1 <= NtoaSize
  <2>1. CASE "hash" \notin fl1
    BY <1>16, <1>20, <1>21, <2>1
  <2>2. CASE "hash" \in fl1
    <3>1. w1 = w /\ base \in {2, 8, 16} /\ P = Marks(base) /\ value # 0 /\ P > 0
      BY <1>15, <2>2
    <3>2. "precision" \notin fl1 => prec = 0
      BY <1>10
    <3>3. "precision" \notin fl1 /\ Len(toWidth) = w1 => Len(d) + Marks(base) <= w1
      <4>. SUFFICES ASSUME "precision" \notin fl, Len(toWidth) = w PROVE M + P <= w
        BY <1>8, <1>10, <3>1
      <4>1. Len(toPrec) = M
        BY <1>8, <1>18, <3>1
      <4>2. IF "zero" \in fl /\ "left" \notin fl THEN M <= w ELSE M = w
        BY <1>2, <1>10, <1>20, <3>1, <4>1
      <4>. QED
        BY <3>1, <4>2 DEF NtoaFits
    <3>4. Len(toWidth) + Marks(base) <= NtoaSize
      BY <1>1, <1>20, <3>1
    <3>5. prefixed = hash(toWidth, base, prec, w1, fl1)
      BY <1>21, <2>2
    <3>6. Trailed(prefixed, d, Marks(base)) /\ Len(prefixed) <= Len(toWidth) + Marks(base)
      BY <1>8, <1>20, <3>1, <3>2, <3>3, <3>4, <3>5, HashTrails
    <3>7. Len(prefixed) \in Nat
      BY <3>6, SeqLaws DEF Trailed
    <3>8. Len(toWidth) + P + 1 <= NtoaSize /\ Len(prefixed) <= Len(toWidth) + P
      BY <1>20, <3>1, <3>6
    <3>9. \A x, y, s \in Nat : y + P + 1 <= s /\ x <= y + P => x + 1 <= s
      BY <1>2
    <3>10. Len(prefixed) + 1 <= NtoaSize
      BY <1>1, <1>20, <3>7, <3>8, <3>9
    <3>. QED
      BY <3>1, <3>6, <3>7, <3>10
  <2>. QED
    BY <2>1, <2>2
<1>23. text = out_rev(Put(prefixed, sign, NtoaSize), w1, fl1)
  <2>1. text = ntoa_format(d, negative, base, prec, w, fl1)
    BY <1>t, <1>3, <1>5, <1>7, <1>9 DEF ntoa
  <2>. QED
    BY <1>11, <1>13, <1>17, <1>19, <1>21, <2>1 DEF ntoa_format
<1>24. Put(prefixed, sign, NtoaSize) = prefixed \o sign
  <2>1. IsSequence(prefixed)
    BY <1>22 DEF Trailed
  <2>2. Len(prefixed) + Len(sign) <= NtoaSize
    <3>1. \A x, s \in Nat, y \in 0 .. 1 : x + 1 <= s => x + y <= s
      OBVIOUS
    <3>. QED
      BY <1>1, <1>12, <1>22, <3>1
  <2>. QED
    BY <1>1, <1>12, <2>1, <2>2, PutAll
<1>25. text = out_rev(prefixed \o sign, w1, fl1)
  BY <1>23, <1>24
<1>26. ReadsNumber(text, P, base, value, d, sign)
  BY <1>2, <1>8, <1>12, <1>14, <1>22, <1>25, TextReads
<1>. QED
  BY <1>t, <1>8, <1>12, <1>26, Zenon DEF ReadsNumber, SaysInteger

-----------------------------------------------------------------------------
(* Types and flags of an integer directive.                                *)

\* An argument as a type of T values, unsigned and signed.
LEMMA ModInt ==
  ASSUME NEW T \in Nat \ {0}, NEW n \in Int
  PROVE  /\ n % T \in 0 .. T - 1 /\ (n % T) % T = n % T
         /\ ((n % T) - T) % T = n % T
<1>1. n % T \in 0 .. T - 1
  OBVIOUS
<1>2. ASSUME NEW r \in 0 .. T - 1 PROVE r % T = r /\ (r - T) % T = r
  OBVIOUS
<1>. QED
  BY <1>1, <1>2

LEMMA SignedReads ==
  ASSUME NEW T \in Nat \ {0}, T % 2 = 0, NEW n \in Int
  PROVE  /\ Signed(n, T) \in Int /\ Signed(n, T) % T = n % T
         /\ 2 * Signed(n, T) \in -T .. T - 1
<1>. DEFINE r == n % T
<1>1. r \in 0 .. T - 1 /\ r % T = r /\ (r - T) % T = r
  BY ModInt
<1>2. PICK h \in Nat : T = 2 * h /\ T \div 2 = h
  <2>1. T \div 2 \in Nat /\ T = 2 * (T \div 2)
    OBVIOUS
  <2>. QED
    BY <2>1
<1>3. Signed(n, T) = IF r >= h THEN r - T ELSE r
  BY <1>2 DEF Signed
<1>. HIDE DEF r
<1>4. CASE r >= h
  BY <1>1, <1>2, <1>3, <1>4 DEF r
<1>5. CASE ~(r >= h)
  BY <1>1, <1>2, <1>3, <1>5 DEF r
<1>. QED
  BY <1>4, <1>5

\* The greatest of some numbers.
LEMMA MaxIs ==
  ASSUME NEW S, NEW m \in S, m \in Int, \A x \in S : x \in Int /\ x <= m
  PROVE  Max(S) = m
<1>. DEFINE x == CHOOSE x \in S : \A y \in S : x >= y
<1>1. \A y \in S : m >= y
  OBVIOUS
<1>2. x \in S /\ \A y \in S : x >= y
  BY <1>1
<1>3. Max(S) = x
  BY DEF Max
<1>. HIDE DEF x
<1>. QED
  BY <1>2, <1>3

LEMMA MaxOfTwo ==
  ASSUME NEW a \in Int, NEW b \in Int
  PROVE  Max({a, b}) = Larger(a, b)
<1>1. CASE a > b
  BY <1>1, MaxIs DEF Larger
<1>2. CASE ~(a > b)
  BY <1>2, MaxIs DEF Larger
<1>. QED
  BY <1>1, <1>2

LEMMA MaxOfThree ==
  ASSUME NEW a \in Int, NEW b \in Int, NEW c \in Int
  PROVE  /\ Max({a, b, c}) \in Int
         /\ a <= Max({a, b, c}) /\ b <= Max({a, b, c}) /\ c <= Max({a, b, c})
<1>1. CASE a >= b /\ a >= c
  BY <1>1, MaxIs
<1>2. CASE b >= a /\ b >= c
  BY <1>2, MaxIs
<1>3. CASE c >= a /\ c >= b
  BY <1>3, MaxIs
<1>. QED
  BY <1>1, <1>2, <1>3

\* A 'll' is an 'l' too.
LEMMA LongLong ==
  ASSUME NEW c, NEW d, WellFormedDirective(c, d), "longlong" \in FlagsOf(c, d)
  PROVE  "long" \in FlagsOf(c, d)
<1>1. \A i \in d.at + 1 .. d.width - 1 : IsFlag(CharAt(c, i))
  BY Zenon DEF WellFormedDirective
<1>2. "longlong" \notin {NameOf(CharAt(c, i)) : i \in d.at + 1 .. d.width - 1}
  <2>1. "longlong" \notin {"zero", "left", "plus", "space", "hash"}
    OBVIOUS
  <2>. QED
    BY <1>1, <2>1, NameIs, Zenon
<1>3. /\ "longlong" \notin (IF IsStar(c, d.width, d.precision) /\ StarValue(c, d.arg) < 0
                            THEN {"left"} ELSE {})
      /\ "longlong" \notin (IF d.precision < d.length THEN {"precision"} ELSE {})
  OBVIOUS
<1>4. "longlong" \in LengthFlags(c, d)
  BY <1>2, <1>3, Zenon DEF FlagsOf
<1>5. \/ LengthFlags(c, d) = {} \/ LengthFlags(c, d) = {"long", "longlong"}
      \/ LengthFlags(c, d) = {"long"} \/ LengthFlags(c, d) = {"short", "char"}
      \/ LengthFlags(c, d) = {"short"}
  BY DEF LengthFlags
<1>6. "long" \in LengthFlags(c, d)
  BY <1>4, <1>5
<1>. QED
  BY <1>6, Zenon DEF FlagsOf

\* Without a '.' the precision is 0.
LEMMA NoPrecision ==
  ASSUME NEW c, NEW d, WellFormedDirective(c, d), IsSequence(c.format),
         "precision" \notin FlagsOf(c, d)
  PROVE  PrecisionOf(c, d) = 0
<1>1. ~(d.precision < d.length)
  BY DEF FlagsOf
<1>2. d.precision = d.length /\ d.length \in Nat \ {0}
  BY <1>1, Shape
<1>3. ~IsStar(c, d.precision + 1, d.length)
  BY <1>2 DEF IsStar
<1>4. Number(c, d.precision + 1, d.length) = 0
  BY <1>2, NumberNone
<1>. QED
  BY <1>3, <1>4 DEF PrecisionOf

\* The bases of the specifiers.
LEMMA BaseIs ==
  ASSUME NEW ch \in DOMAIN Base
  PROVE  /\ Base[ch] \in Bases /\ (Base[ch] = 8 <=> ch = "o")
         /\ (Base[ch] = 10 <=> ch \in {"d", "i", "u"})
<1>1. ch \in {"d", "i", "u", "x", "X", "o", "b"}
  BY DEF Base
<1>2. /\ Base["d"] = 10 /\ Base["i"] = 10 /\ Base["u"] = 10 /\ Base["x"] = 16
      /\ Base["X"] = 16 /\ Base["o"] = 8 /\ Base["b"] = 2
  BY DEF Base
<1>. QED
  BY <1>1, <1>2 DEF Bases

\* What becomes of the flags.
LEMMA IntegerFlagsIs ==
  ASSUME NEW fl, fl = IntegerFlags
  PROVE  /\ \A x \in {"long", "longlong", "char", "short", "precision", "left"} : x \in fl <=> x \in flags
         /\ "hash" \in fl => Base[Ch] # 10
         /\ Ch \notin {"d", "i"} => "plus" \notin fl /\ "space" \notin fl
  BY DEF IntegerFlags

\* The value that an integer directive converts.
IntegerValue(ch, n, T) == IF ch \in {"d", "i"} THEN Signed(n, T) ELSE n % T

\* How many values the type of a directive has.
SizeOf(f) == IF "long" \in f THEN LongValues ELSE IF "char" \in f THEN CharValues
             ELSE IF "short" \in f THEN ShortValues ELSE IntValues

\* The argument, as its type.
LEMMA ValueIs ==
  ASSUME NEW n \in Int, NEW T \in {CharValues, ShortValues, IntValues, LongValues}, NEW ch,
         NEW v, v = IntegerValue(ch, n, T)
  PROVE  /\ v \in Int /\ v % T = n % T
         /\ IF ch \in {"d", "i"} THEN 2 * v \in -T .. T - 1 ELSE v \in 0 .. T - 1
         /\ v = 0 => n % T = 0
<1>1. T \in Nat \ {0} /\ T % 2 = 0
  BY PrintfAssumption, TypesAssumption
<1>2. CASE ch \in {"d", "i"}
  <2>1. v = Signed(n, T)
    BY <1>2 DEF IntegerValue
  <2>2. v \in Int /\ v % T = n % T /\ 2 * v \in -T .. T - 1
    BY <1>1, <2>1, SignedReads
  <2>3. v = 0 => n % T = 0
    BY <1>1, <2>1, ModInt DEF Signed
  <2>. QED
    BY <1>2, <2>2, <2>3
<1>3. CASE ch \notin {"d", "i"}
  <2>1. v = n % T
    BY <1>3 DEF IntegerValue
  <2>. QED
    <3>1. n % T \in 0 .. T - 1 /\ (n % T) % T = n % T
      BY <1>1, ModInt
    <3>2. v \in 0 .. T - 1 /\ v % T = n % T
      BY <2>1, <3>1
    <3>3. v \in Int
      BY <1>1, <3>2
    <3>. QED
      BY <1>3, <2>1, <3>2, <3>3, Zenon
<1>. QED
  BY <1>2, <1>3

\* An integer directive is converted to a text that says its argument.
LEMMA IntegerReads == ASSUME FInv, Integer PROVE ReadsBack'
<1>ch. PICK ch : ch = Ch
  OBVIOUS
<1>fl. PICK fl : fl = IntegerFlags
  OBVIOUS
<1>n. PICK n : n = call.args[arg].num
  OBVIOUS
<1>T. PICK T : T = Values(fl)
  OBVIOUS
<1>v. PICK v : v = IntegerValue(ch, n, T)
  OBVIOUS
<1>m. PICK m : m = IF v < 0 THEN -v ELSE v
  OBVIOUS
<1>t. PICK text : text = ntoa(m, v < 0, Base[ch], precision, width, fl)
  OBVIOUS
<1>1. ch \in DOMAIN Base /\ Convert(v, width, fl, text, 1)
  BY <1>ch, <1>fl, <1>n, <1>T, <1>v, <1>m, <1>t, Zenon DEF Integer, IntegerValue
<1>2. /\ pc = "specifier" /\ pc' = "text" /\ arg' = arg + 1 /\ call' = call /\ nth' = nth
      /\ conv' = [spec |-> Ch, value |-> v, flags |-> fl, width |-> width,
                  precision |-> precision, text |-> text]
  BY <1>1 DEF Convert
<1>3. /\ conv'.spec = ch /\ conv'.value = v /\ conv'.flags = fl /\ conv'.width = width
      /\ conv'.precision = precision /\ conv'.text = text
  BY <1>2, <1>ch
<1>4. width \in Nat /\ precision \in Nat /\ arg \in Nat
  BY DEF FInv, Types
<1>5. PICK d : d = Cur
  OBVIOUS
<1>6. /\ WellFormedDirective(call, d) /\ AtSpecifier(call, d) /\ IsSequence(call.format)
  BY <1>2, <1>5, CurIs DEF Reading
<1>7. flags = FlagsOf(call, d) /\ precision = PrecisionOf(call, d)
  BY <1>6 DEF AtSpecifier
<1>8. n \in Int
  <2>1. ch \in Specifiers
    BY <1>1, Zenon DEF Specifiers
  <2>2. ArgumentFits(ch, call.args[arg])
    BY <1>ch, <1>2, <2>1, ArgumentIs
  <2>. QED
    BY <1>1, <1>n, <2>2, Zenon DEF ArgumentFits
<1>9. /\ \A x \in {"long", "longlong", "char", "short", "precision", "left"} : x \in fl <=> x \in flags
      /\ "hash" \in fl => Base[ch] # 10
      /\ ch \notin {"d", "i"} => "plus" \notin fl /\ "space" \notin fl
  BY <1>fl, <1>ch, IntegerFlagsIs
<1>10. T = SizeOf(FlagsOf(call, d)) /\ T \in {CharValues, ShortValues, IntValues, LongValues}
  <2>1. "longlong" \in flags => "long" \in flags
    BY <1>6, <1>7, LongLong
  <2>2. T = SizeOf(flags)
    BY <1>9, <1>T, <2>1 DEF Values, SizeOf
  <2>. QED
    BY <1>7, <2>2 DEF SizeOf
<1>11. "precision" \notin fl => precision = 0
  BY <1>6, <1>7, <1>9, NoPrecision
<1>12. /\ v \in Int /\ v % T = n % T
       /\ IF ch \in {"d", "i"} THEN 2 * v \in -T .. T - 1 ELSE v \in 0 .. T - 1
       /\ v = 0 => n % T = 0
  BY <1>v, <1>8, <1>10, ValueIs
<1>13. m \in Nat /\ (m = 0 <=> v = 0) /\ (v < 0 => -m = v) /\ (~(v < 0) => m = v)
  BY <1>m, <1>12
<1>14. /\ Base[ch] \in Bases /\ (Base[ch] = 8 <=> ch = "o")
       /\ (Base[ch] = 10 <=> ch \in {"d", "i", "u"})
  BY <1>1, BaseIs
<1>15. "hash" \in fl => Base[ch] # 10 /\ Sign(v < 0, fl) = <<>>
  <2>. SUFFICES ASSUME "hash" \in fl PROVE Base[ch] # 10 /\ Sign(v < 0, fl) = <<>>
    OBVIOUS
  <2>1. Base[ch] # 10 /\ ch \notin {"d", "i"}
    BY <1>9, <1>14
  <2>2. v \in 0 .. T - 1 /\ "plus" \notin fl /\ "space" \notin fl
    BY <1>9, <1>12, <2>1
  <2>3. ~(v < 0)
    BY <1>12, <2>2
  <2>. QED
    BY <2>1, <2>2, <2>3 DEF Sign
<1>16. PICK M : M = NumDigits(m, Base[ch], NtoaSize)
  OBVIOUS
<1>17. PICK P : P = MarksOf(Base[ch], m, fl)
  OBVIOUS
<1>18. M \in Nat /\ P \in Nat /\ NtoaSize \in Nat
  <2>1. NtoaSize \in Nat \ {0}
    BY PrintfAssumption
  <2>2. M \in 1 .. NtoaSize
    BY <1>16, <2>1, NumDigitsIs
  <2>3. P \in {0, 1, 2}
    BY <1>17 DEF MarksOf, Marks
  <2>. QED
    BY <2>1, <2>2, <2>3
<1>19. /\ IsInteger' /\ Numeral' = M /\ Prefix' = P
       /\ Padded' <=> "zero" \in fl /\ "left" \notin fl
  <2>1. Abs(v) = m
    BY <1>m DEF Abs
  <2>2. Numeral' = M
    BY <1>3, <1>16, <2>1 DEF Numeral
  <2>3. Prefix' = P
    BY <1>3, <1>13, <1>14, <1>17 DEF Prefix, MarksOf, Marks
  <2>. QED
    BY <1>1, <1>3, <2>2, <2>3 DEF IsInteger, Padded
<1>. SUFFICES ASSUME Places' + Prefix' + 1 <= NtoaSize, ~PrefixEats'
              PROVE  ReadsBack'
  BY Zenon DEF ReadsBack
<1>20. NtoaFits(M, P, precision, width, fl)
  <2>pr. PICK pr : pr = IF "left" \in fl THEN 0 ELSE precision
    OBVIOUS
  <2>wi. PICK wi : wi = IF "zero" \in fl /\ "left" \notin fl THEN width ELSE 0
    OBVIOUS
  <2>1. pr \in Int /\ wi \in Int /\ M \in Int
    BY <1>4, <1>18, <2>pr, <2>wi
  <2>2. Places' = Max({M, pr, wi})
    BY <1>3, <1>19, <2>pr, <2>wi DEF Places
  <2>3. PrefixEats' <=> /\ P > 0 /\ "precision" \notin fl
                        /\ width = Max({M, wi}) /\ M > width - P
    BY <1>3, <1>19, <2>wi DEF PrefixEats
  <2>4. Places' \in Int /\ M <= Places' /\ pr <= Places' /\ wi <= Places'
    BY <2>1, <2>2, MaxOfThree, Zenon
  <2>5. Max({M, wi}) = Larger(M, wi)
    BY <2>1, MaxOfTwo, Zenon
  <2>6. M + P + 1 <= NtoaSize /\ pr + P + 1 <= NtoaSize /\ wi + P + 1 <= NtoaSize
    <3>1. Places' + P + 1 <= NtoaSize
      BY <1>19
    <3>2. \A p \in Int, x \in Int : p + P + 1 <= NtoaSize /\ x <= p => x + P + 1 <= NtoaSize
      BY <1>18
    <3>. QED
      BY <2>1, <2>4, <3>1, <3>2, Zenon
  <2>7. /\ "left" \notin fl => precision + P + 1 <= NtoaSize
        /\ "zero" \in fl /\ "left" \notin fl => width + P + 1 <= NtoaSize
    BY <2>6, <2>pr, <2>wi
  <2>8. ASSUME P > 0, "precision" \notin fl,
               IF "zero" \in fl /\ "left" \notin fl THEN M <= width ELSE M = width
        PROVE  M + P <= width
    <3>1. width = Larger(M, wi)
      BY <1>4, <1>18, <2>8, <2>wi DEF Larger
    <3>2. ~(M > width - P)
      BY <2>3, <2>5, <2>8, <3>1
    <3>. QED
      BY <1>4, <1>18, <3>2
  <2>. QED
    BY <2>6, <2>7, <2>8, Zenon DEF NtoaFits
<1>21. SaysInteger(text, P, Base[ch], m, v < 0, fl)
  <2>1. (v < 0) \in BOOLEAN
    OBVIOUS
  <2>. QED
    BY <1>t, <1>4, <1>11, <1>13, <1>14, <1>15, <1>16, <1>17, <1>18, <1>20, <2>1, NtoaReads
<1>22. Argument' = n /\ TypeSize' = T
  <2>1. arg' - 1 = arg
    BY <1>2, <1>4
  <2>2. Argument' = n
    BY <1>n, <1>2, <2>1 DEF Argument
  <2>3. call.pieces[nth] = d
    BY <1>5 DEF Cur
  <2>4. TypeSize' = T
    BY <1>2, <1>10, <2>3 DEF TypeSize, SizeOf
  <2>. QED
    BY <2>2, <2>4
<1>. DEFINE digits == SubSeq(Unsigned(text), 1 + P, Len(Unsigned(text)))
            read == ReadDigits(digits, Base[ch])
            value == IF Contains(text, "-") THEN -read ELSE read
<1>23. /\ read = m /\ (digits = <<>> => m = 0 /\ "precision" \in fl)
       /\ (Contains(text, "-") <=> v < 0)
  BY <1>21, Zenon DEF SaysInteger
<1>. HIDE DEF digits, read
<1>24. value = v
  BY <1>13, <1>23
<1>. HIDE DEF value
<1>25. /\ value % T = n % T
       /\ IF ch \in {"d", "i"} THEN 2 * value \in -T .. T - 1 ELSE value \in 0 .. T - 1
       /\ digits = <<>> => n % T = 0 /\ "precision" \in fl
  BY <1>12, <1>13, <1>23, <1>24
<1>. QED
  BY <1>3, <1>19, <1>22, <1>25 DEF ReadsBack, digits, read, value

\* A conversion of another kind is no integer.
LEMMA OtherReads ==
  ASSUME Float \/ Exponential \/ Char \/ String \/ Pointer \/ Other
  PROVE  ReadsBack'
<1>1. PICK value, w, fl, text, n : Convert(value, w, fl, text, n)
  <2>1. Float => \E value, w, fl, text, n : Convert(value, w, fl, text, n)
    BY Zenon DEF Float
  <2>2. Exponential => \E value, w, fl, text, n : Convert(value, w, fl, text, n)
    BY Zenon DEF Exponential
  <2>3. Char \/ String => \E value, w, fl, text, n : Convert(value, w, fl, text, n)
    BY Zenon DEF Char, String
  <2>4. Pointer \/ Other => \E value, w, fl, text, n : Convert(value, w, fl, text, n)
    BY Zenon DEF Pointer, Other
  <2>. QED
    BY <2>1, <2>2, <2>3, <2>4, Zenon
<1>2. conv' = [spec |-> Ch, value |-> value, flags |-> fl, width |-> w,
               precision |-> precision, text |-> text]
  BY <1>1 DEF Convert
<1>3. Ch \notin DOMAIN Base
  <2>1. DOMAIN Base = {"d", "i", "u", "x", "X", "o", "b"}
    BY DEF Base
  <2>2. Float \/ Exponential \/ Char \/ String \/ Pointer => Ch \in FloatSpecs \cup {"c", "s", "p"}
    BY DEF Float, Exponential, Char, String, Pointer, FloatSpecs
  <2>3. Other => Ch \notin DOMAIN Base
    BY DEF Other, Specifiers
  <2>. QED
    BY <2>1, <2>2, <2>3 DEF FloatSpecs
<1>. QED
  BY <1>2, <1>3 DEF ReadsBack, IsInteger

\* Behind another piece nothing is claimed.
LEMMA QuietReads ==
  ASSUME FInv, Literal \/ Percent \/ Flag \/ Width \/ Precision \/ Length \/ Cut \/ Terminate
  PROVE  ReadsBack'
<1>1. CASE Literal
  <2>1. pc = "text" /\ Ch # "NUL" /\ Ch # "%" /\ nth' = nth + 1 /\ call' = call
    BY <1>1 DEF Literal
  <2>2. PICK d : d = call.pieces[nth + 1]
    OBVIOUS
  <2>3. d.at = pos
    BY <2>1, <2>2, NextPiece DEF FInv
  <2>4. ~IsDirective(call, d)
    BY <2>1, <2>3 DEF IsDirective, Ch
  <2>5. call'.pieces[nth'] = d
    BY <2>1, <2>2
  <2>6. ~IsDirective(call', call'.pieces[nth'])
    BY <2>1, <2>4, <2>5
  <2>. QED
    BY <2>6, Zenon DEF ReadsBack
<1>2. CASE Percent \/ Flag \/ Width \/ Precision \/ Length \/ Cut \/ Terminate
  <2>1. pc' # "text"
    BY <1>2 DEF Percent, Flag, Width, Precision, Length, Cut, Terminate
  <2>. QED
    BY <2>1 DEF ReadsBack
<1>. QED
  BY <1>1, <1>2

-----------------------------------------------------------------------------
(* Rounding.                                                               *)

\* A remainder times the power, cut into a fraction and what is left.
LEMMA FractionOf ==
  ASSUME NEW m \in Nat, NEW den \in Nat \ {0}, NEW pow \in Nat \ {0}, m < den
  PROVE  \E frac \in 0 .. pow - 1, rest \in 0 .. den - 1 :
           /\ (m * pow) \div den = frac /\ (m * pow) % den = rest
           /\ m * pow = (frac * den) + rest
<1>. DEFINE x == m * pow
            frac == x \div den
            rest == x % den
<1>1. x \in Nat
  OBVIOUS
<1>2. rest \in 0 .. den - 1 /\ frac \in Nat /\ x = (frac * den) + rest
  <2>. HIDE DEF x
  <2>. QED
    BY <1>1, ModIs
<1>3. x < den * pow
  <2>1. \E d \in Nat : den = m + d /\ d > 0
    <3>1. den - m \in Nat /\ den = m + (den - m) /\ den - m > 0
      OBVIOUS
    <3>. QED
      BY <3>1
  <2>2. PICK d \in Nat : den = m + d /\ d > 0
    BY <2>1
  <2>3. den * pow = x + (d * pow)
    BY <2>2
  <2>4. d * pow \in Nat /\ d * pow > 0
    BY <2>2
  <2>. HIDE DEF x
  <2>. QED
    BY <1>1, <2>3, <2>4
<1>4. frac < pow
  <2>. HIDE DEF x, frac, rest
  <2>. SUFFICES ASSUME frac >= pow PROVE FALSE
    BY <1>2
  <2>1. PICK d \in Nat : frac = pow + d
    <3>1. frac - pow \in Nat /\ frac = pow + (frac - pow)
      BY <1>2
    <3>. QED
      BY <3>1
  <2>2. frac * den = (den * pow) + (d * den)
    BY <2>1
  <2>3. d * den \in Nat /\ den * pow \in Nat
    OBVIOUS
  <2>. QED
    BY <1>1, <1>2, <1>3, <2>2, <2>3
<1>. HIDE DEF x, frac, rest
<1>5. frac \in 0 .. pow - 1
  BY <1>2, <1>4
<1>. QED
  BY <1>2, <1>5 DEF x, frac, rest

\* A number of units, whole part w and fraction f, over the denominator.
LEMMA UnitsOf ==
  ASSUME NEW w \in Nat, NEW f \in Nat, NEW den \in Nat, NEW pow \in Nat
  PROVE  /\ ((w * pow) + f) * den = (w * pow) * den + (f * den)
         /\ ((w + 1) * pow) * den = (w * pow) * den + (pow * den)
         /\ (f + 1) * den = (f * den) + den
<1>1. (w + 1) * pow = (w * pow) + pow
  OBVIOUS
<1>2. w * pow \in Nat
  OBVIOUS
<1>3. \A y, z \in Nat : (y + z) * den = (y * den) + (z * den)
  OBVIOUS
<1>. QED
  BY <1>1, <1>2, <1>3

\* What _ftoa makes of a number, before it becomes text, is within half a unit of the
\* last decimal, for every number and every power of ten (printf.cc:386-403).  The
\* fraction stays below the power, but for the half-way case behind nines, which is
\* rounded up without the carry: it is the power itself then.
THEOREM RoundIsNearest ==
  ASSUME NEW a \in Nat, NEW den \in Nat \ {0}, NEW pow \in Nat \ {0}
  PROVE  LET r == round(a, den, pow)
         IN  /\ r[1] \in Nat /\ r[2] \in 0 .. pow
             /\ 2 * Abs((r[1] * pow + r[2]) * den - a * pow) <= den
             /\ r[2] = pow <=> 2 * (a % den) * pow = 2 * den * pow - den /\ (pow = 1 \/ pow % 2 = 0)
<1>. DEFINE w == a \div den
            m == a % den
<1>1. w \in Nat /\ m \in 0 .. den - 1 /\ a = (w * den) + m
  BY ModIs
<1>2. PICK frac \in 0 .. pow - 1, rest \in 0 .. den - 1 :
        /\ (m * pow) \div den = frac /\ (m * pow) % den = rest
        /\ m * pow = (frac * den) + rest
  <2>. HIDE DEF m
  <2>. QED
    BY <1>1, FractionOf
<1>. DEFINE P == (w * pow) * den
            F == frac * den
            D == pow * den
<1>3. P \in Nat /\ F \in Nat /\ D \in Nat
  <2>. HIDE DEF w, m
  <2>1. w * pow \in Nat
    BY <1>1
  <2>. QED
    BY <1>1, <1>2, <2>1
<1>4. a * pow = P + (F + rest)
  <2>. HIDE DEF w, m
  <2>1. a * pow = ((w * den) * pow) + (m * pow)
    BY <1>1
  <2>2. (w * den) * pow = P
    BY <1>1
  <2>. QED
    BY <1>2, <1>3, <2>1, <2>2
<1>5. /\ ((w * pow) + frac) * den = P + F
      /\ ((w * pow) + (frac + 1)) * den = P + (F + den)
      /\ (((w + 1) * pow) + 0) * den = P + D
  <2>. HIDE DEF w, m
  <2>1. ((w * pow) + frac) * den = P + F
    BY <1>1, <1>2, UnitsOf
  <2>2. ((w * pow) + (frac + 1)) * den = P + ((frac + 1) * den)
    BY <1>1, <1>2, UnitsOf
  <2>3. (frac + 1) * den = F + den /\ ((w + 1) * pow) * den = P + D
    BY <1>1, <1>2, UnitsOf
  <2>4. (w + 1) * pow \in Nat
    BY <1>1
  <2>. QED
    BY <2>1, <2>2, <2>3, <2>4
<1>6. frac + 1 >= pow => frac = pow - 1 /\ D = F + den
  <2>1. (frac + 1) * den = F + den
    <3>. HIDE DEF w, m
    <3>. QED
      BY <1>1, <1>2, UnitsOf
  <2>2. ASSUME frac + 1 >= pow PROVE frac + 1 = pow
    BY <1>2, <2>2
  <2>. QED
    BY <1>2, <2>1, <2>2
\* The half-way case behind nines.
<1>7. 2 * m * pow = 2 * den * pow - den <=> frac = pow - 1 /\ 2 * rest = den
  <2>. HIDE DEF w, m
  <2>1. PICK d \in Nat : pow = (frac + 1) + d
    <3>1. pow - (frac + 1) \in Nat /\ pow = (frac + 1) + (pow - (frac + 1))
      BY <1>2
    <3>. QED
      BY <3>1
  <2>2. 2 * m * pow = 2 * (F + rest)
    <3>1. \A x, y \in Nat : 2 * x * y = 2 * (x * y)
      OBVIOUS
    <3>. QED
      BY <1>1, <1>2, <3>1
  <2>3. 2 * den * pow = 2 * (F + den + (d * den))
    <3>1. \A x, y \in Nat : 2 * x * y = 2 * (y * x)
      OBVIOUS
    <3>2. D = F + den + (d * den)
      BY <1>2, <2>1
    <3>. QED
      BY <3>1, <3>2
  <2>4. d * den \in Nat /\ (d = 0 => d * den = 0) /\ (d # 0 => d * den >= den)
    <3>1. CASE d = 0
      BY <3>1
    <3>2. CASE d # 0
      <4>1. PICK k \in Nat : d = k + 1
        <5>1. d - 1 \in Nat /\ d = (d - 1) + 1
          BY <3>2
        <5>. QED
          BY <5>1
      <4>2. d * den = (k * den) + den /\ k * den \in Nat
        BY <4>1
      <4>. QED
        BY <3>2, <4>2
    <3>. QED
      BY <3>1, <3>2
  <2>. HIDE DEF F
  <2>5. d = 0 <=> frac = pow - 1
    BY <1>2, <2>1
  <2>. QED
    BY <1>2, <1>3, <2>2, <2>3, <2>4, <2>5
<1>8. round(a, den, pow) =
        IF 2 * rest > den
        THEN IF frac + 1 >= pow THEN <<w + 1, 0>> ELSE <<w, frac + 1>>
        ELSE IF 2 * rest = den /\ (frac = 0 \/ frac % 2 = 1) THEN <<w, frac + 1>> ELSE <<w, frac>>
  BY <1>2 DEF round
<1>9. frac = pow - 1 => (frac = 0 \/ frac % 2 = 1 <=> pow = 1 \/ pow % 2 = 0)
  BY <1>2
<1>. DEFINE Near(x, y) == 2 * Abs(((x * pow) + y) * den - a * pow) <= den
            Tie == 2 * m * pow = 2 * den * pow - den
            Good(r) == /\ r[1] \in Nat /\ r[2] \in 0 .. pow
                       /\ Near(r[1], r[2])
                       /\ r[2] = pow <=> Tie /\ (pow = 1 \/ pow % 2 = 0)
<1>10. Near(w + 1, 0) <=> 2 * Abs(P + D - (P + (F + rest))) <= den
  BY <1>4, <1>5
<1>11. Near(w, frac) <=> 2 * Abs(P + F - (P + (F + rest))) <= den
  BY <1>4, <1>5
<1>12. Near(w, frac + 1) <=> 2 * Abs(P + (F + den) - (P + (F + rest))) <= den
  BY <1>4, <1>5
<1>. HIDE DEF P, F, D, Near
<1>13. CASE 2 * rest > den /\ frac + 1 >= pow
  <2>1. Near(w + 1, 0)
    BY <1>2, <1>3, <1>6, <1>10, <1>13 DEF Abs
  <2>2. ~Tie
    BY <1>2, <1>7, <1>13
  <2>. HIDE DEF w, Tie
  <2>3. Good(<<w + 1, 0>>)
    BY <1>1, <2>1, <2>2
  <2>. QED
    BY <1>8, <1>13, <2>3 DEF Near, Tie
<1>14. CASE 2 * rest > den /\ frac + 1 < pow
  <2>1. Near(w, frac + 1)
    BY <1>2, <1>3, <1>12, <1>14 DEF Abs
  <2>2. ~Tie
    BY <1>2, <1>7, <1>14
  <2>. HIDE DEF w, Tie
  <2>3. Good(<<w, frac + 1>>)
    BY <1>1, <1>2, <1>14, <2>1, <2>2
  <2>. QED
    BY <1>8, <1>14, <2>3 DEF Near, Tie
<1>15. CASE 2 * rest = den /\ (frac = 0 \/ frac % 2 = 1)
  <2>1. Near(w, frac + 1)
    BY <1>2, <1>3, <1>12, <1>15 DEF Abs
  <2>2. frac + 1 = pow <=> Tie /\ (pow = 1 \/ pow % 2 = 0)
    <3>. HIDE DEF m
    <3>. QED
      BY <1>2, <1>7, <1>9, <1>15
  <2>. HIDE DEF w, Tie
  <2>3. Good(<<w, frac + 1>>)
    BY <1>1, <1>2, <2>1, <2>2
  <2>. QED
    BY <1>8, <1>15, <2>3 DEF Near, Tie
<1>16. CASE 2 * rest <= den /\ ~(2 * rest = den /\ (frac = 0 \/ frac % 2 = 1))
  <2>1. Near(w, frac)
    BY <1>2, <1>3, <1>11, <1>16 DEF Abs
  <2>2. ~(Tie /\ (pow = 1 \/ pow % 2 = 0))
    <3>. HIDE DEF m
    <3>. QED
      BY <1>2, <1>7, <1>9, <1>16
  <2>. HIDE DEF w, Tie
  <2>3. Good(<<w, frac>>)
    BY <1>1, <1>2, <2>1, <2>2
  <2>. QED
    BY <1>8, <1>16, <2>3 DEF Near, Tie
<1>. QED
  BY <1>2, <1>13, <1>14, <1>15, <1>16

-----------------------------------------------------------------------------
(* Powers of ten.                                                          *)

Tens(f, N) == f = [k \in 0 .. N |-> IF k = 0 THEN 1 ELSE 10 * f[k - 1]]

\* What Tens says of the elements.
LEMMA TensAre ==
  ASSUME NEW f, NEW N \in Nat, Tens(f, N)
  PROVE  f[0] = 1 /\ \A k \in 1 .. N : f[k] = 10 * f[k - 1]
<1>1. /\ 0 \in 0 .. N /\ \A k \in 1 .. N : k \in 0 .. N /\ k # 0
  OBVIOUS
<1>2. \A k \in 0 .. N : f[k] = IF k = 0 THEN 1 ELSE 10 * f[k - 1]
  BY Zenon DEF Tens
<1>. QED
  BY <1>1, <1>2

\* There is such a function for every length.
LEMMA TensExist ==
  ASSUME NEW N \in Nat
  PROVE  \E f : Tens(f, N)
<1>. DEFINE S == {m \in Nat : \E f : Tens(f, m)}
<1>1. 0 \in S
  <2>. DEFINE f == [k \in 0 .. 0 |-> 1]
  <2>1. Tens(f, 0)
    BY DEF Tens
  <2>. QED
    BY <2>1
<1>2. ASSUME NEW m \in Nat, m \in S PROVE m + 1 \in S
  <2>1. PICK g : Tens(g, m)
    BY <1>2
  <2>. DEFINE f == [k \in 0 .. m + 1 |-> IF k = m + 1 THEN 10 * g[k - 1] ELSE g[k]]
  <2>2. ASSUME NEW k \in 0 .. m + 1
        PROVE  f[k] = IF k = 0 THEN 1 ELSE 10 * f[k - 1]
    <3>1. CASE k = m + 1
      <4>1. f[k] = 10 * g[k - 1] /\ k # 0 /\ f[k - 1] = g[k - 1]
        BY <3>1
      <4>. QED
        BY <4>1
    <3>2. CASE k # m + 1
      <4>1. k \in 0 .. m /\ f[k] = g[k] /\ (k # 0 => f[k - 1] = g[k - 1])
        BY <3>2
      <4>2. k = 0 \/ k \in 1 .. m
        BY <4>1
      <4>3. g[0] = 1 /\ (k # 0 => g[k] = 10 * g[k - 1])
        BY <2>1, <4>2, TensAre
      <4>. QED
        BY <4>1, <4>3
    <3>. QED
      BY <3>1, <3>2
  <2>3. f = [k \in 0 .. m + 1 |-> f[k]]
    OBVIOUS
  <2>. HIDE DEF f
  <2>4. Tens(f, m + 1)
    BY <2>2, <2>3 DEF Tens
  <2>. QED
    BY <2>4
<1>3. \A m \in Nat : m \in S
  BY <1>1, <1>2, NatSet
<1>. QED
  BY <1>3

\* Two of them agree as far as both go.
LEMMA TensAgree ==
  ASSUME NEW f, NEW g, NEW M \in Nat, NEW N \in Nat, Tens(f, M), Tens(g, N)
  PROVE  \A k \in Nat : k <= M /\ k <= N => f[k] = g[k]
<1>. DEFINE S == {k \in Nat : k <= M /\ k <= N => f[k] = g[k]}
<1>1. 0 \in S
  BY TensAre
<1>2. ASSUME NEW k \in Nat, k \in S PROVE k + 1 \in S
  <2>. SUFFICES ASSUME k + 1 <= M, k + 1 <= N PROVE f[k + 1] = g[k + 1]
    OBVIOUS
  <2>1. k + 1 \in 1 .. M /\ k + 1 \in 1 .. N /\ (k + 1) - 1 = k /\ k <= M /\ k <= N
    OBVIOUS
  <2>2. f[k + 1] = 10 * f[k] /\ g[k + 1] = 10 * g[k]
    BY <2>1, TensAre
  <2>. QED
    BY <1>2, <2>1, <2>2
<1>3. \A k \in Nat : k \in S
  BY <1>1, <1>2, NatSet
<1>. QED
  BY <1>3

\* What the powers of ten are.
LEMMA Powers ==
  /\ pow10[0] = 1
  /\ \A n \in Nat : pow10[n + 1] = 10 * pow10[n]
  /\ \A n \in Nat : pow10[n] \in Nat \ {0}
<1>. DEFINE Is(f) == f = [n \in Nat |-> IF n = 0 THEN 1 ELSE 10 * f[n - 1]]
            g(n) == CHOOSE f : Tens(f, n)
            h == [n \in Nat |-> g(n)[n]]
<1>1. ASSUME NEW n \in Nat PROVE Tens(g(n), n)
  <2>1. \E f : Tens(f, n)
    BY TensExist
  <2>. QED
    BY <2>1, Zenon
<1>. HIDE DEF g
<1>2. ASSUME NEW n \in Nat PROVE h[n] = IF n = 0 THEN 1 ELSE 10 * h[n - 1]
  <2>1. CASE n = 0
    <3>1. g(n)[n] = 1
      BY <1>1, <2>1, TensAre
    <3>. QED
      BY <2>1, <3>1
  <2>2. CASE n # 0
    <3>1. n - 1 \in Nat /\ n \in 1 .. n /\ n - 1 <= n
      BY <2>2
    <3>2. Tens(g(n), n) /\ Tens(g(n - 1), n - 1)
      BY <1>1, <3>1
    <3>3. g(n)[n] = 10 * g(n)[n - 1]
      BY <3>1, <3>2, TensAre
    <3>4. g(n)[n - 1] = g(n - 1)[n - 1]
      BY <3>1, <3>2, TensAgree
    <3>5. h[n] = g(n)[n] /\ h[n - 1] = g(n - 1)[n - 1]
      BY <3>1
    <3>. QED
      BY <2>2, <3>3, <3>4, <3>5
  <2>. QED
    BY <2>1, <2>2
<1>3. h = [n \in Nat |-> h[n]]
  OBVIOUS
<1>. HIDE DEF h
<1>4. Is(h)
  BY <1>2, <1>3
<1>5. pow10 = CHOOSE f : Is(f)
  BY Zenon DEF pow10
<1>6. Is(pow10)
  BY <1>4, <1>5, Zenon
<1>7. \A n \in Nat : pow10[n] = IF n = 0 THEN 1 ELSE 10 * pow10[n - 1]
  BY <1>6, Zenon
<1>8. pow10[0] = 1
  BY <1>7
<1>9. ASSUME NEW n \in Nat PROVE pow10[n + 1] = 10 * pow10[n]
  <2>1. n + 1 \in Nat /\ n + 1 # 0 /\ (n + 1) - 1 = n
    OBVIOUS
  <2>. QED
    BY <1>7, <2>1
<1>. DEFINE S == {n \in Nat : pow10[n] \in Nat \ {0}}
<1>10. 0 \in S
  BY <1>8
<1>11. ASSUME NEW n \in Nat, n \in S PROVE n + 1 \in S
  BY <1>9, <1>11
<1>12. \A n \in Nat : n \in S
  BY <1>10, <1>11, NatSet
<1>. QED
  BY <1>8, <1>9, <1>12

\* The power of a sum.
LEMMA PowerSum ==
  ASSUME NEW m \in Nat, NEW n \in Nat
  PROVE  pow10[m + n] = pow10[m] * pow10[n]
<1>. DEFINE S == {k \in Nat : pow10[m + k] = pow10[m] * pow10[k]}
<1>1. 0 \in S
  <2>1. m + 0 = m /\ pow10[m] \in Nat /\ pow10[0] = 1
    BY Powers
  <2>. QED
    BY <2>1
<1>2. ASSUME NEW k \in Nat, k \in S PROVE k + 1 \in S
  <2>1. pow10[m + k] = pow10[m] * pow10[k]
    BY <1>2
  <2>2. m + k \in Nat /\ m + (k + 1) = (m + k) + 1
    OBVIOUS
  <2>3. pow10[m + (k + 1)] = 10 * pow10[m + k] /\ pow10[k + 1] = 10 * pow10[k]
    BY <2>2, Powers
  <2>4. \A x, y \in Nat : 10 * (x * y) = x * (10 * y)
    OBVIOUS
  <2>5. pow10[m] \in Nat /\ pow10[k] \in Nat
    BY Powers
  <2>6. pow10[m + (k + 1)] = pow10[m] * pow10[k + 1]
    BY <2>1, <2>3, <2>4, <2>5
  <2>. QED
    BY <2>6
<1>3. \A k \in Nat : k \in S
  BY <1>1, <1>2, NatSet
<1>. QED
  BY <1>3

\* Powers grow.
LEMMA PowerGrows ==
  ASSUME NEW m \in Nat, NEW n \in Nat, m <= n
  PROVE  pow10[m] <= pow10[n]
<1>1. PICK k \in Nat : n = m + k
  <2>1. n - m \in Nat /\ n = m + (n - m)
    OBVIOUS
  <2>. QED
    BY <2>1
<1>2. pow10[n] = pow10[m] * pow10[k] /\ pow10[m] \in Nat /\ pow10[k] \in Nat \ {0}
  BY <1>1, PowerSum, Powers
<1>3. \A x \in Nat, y \in Nat \ {0} : x <= x * y
  OBVIOUS
<1>. QED
  BY <1>2, <1>3

\* The small ones.
LEMMA SmallPowers ==
  pow10[0] = 1 /\ pow10[1] = 10 /\ pow10[2] = 100 /\ pow10[3] = 1000 /\ pow10[4] = 10000
<1>1. /\ pow10[0] = 1 /\ pow10[0 + 1] = 10 * pow10[0] /\ pow10[1 + 1] = 10 * pow10[1]
      /\ pow10[2 + 1] = 10 * pow10[2] /\ pow10[3 + 1] = 10 * pow10[3]
  BY Powers
<1>2. 0 + 1 = 1 /\ 1 + 1 = 2 /\ 2 + 1 = 3 /\ 3 + 1 = 4
  OBVIOUS
<1>. QED
  BY <1>1, <1>2

-----------------------------------------------------------------------------
(* How many digits a number has.                                           *)

\* Where the loop over the digits ends.
LEMMA DigitsEnd ==
  ASSUME NEW n, NEW base, NEW size \in Nat \ {0}
  PROVE  LET q == Quotients(n, base, size)
             N == NumDigits(n, base, size)
         IN  N \in 1 .. size /\ (q[N] = 0 \/ N = size) /\ (N > 1 => q[N - 1] # 0)
<1>. DEFINE q == Quotients(n, base, size)
            N == NumDigits(n, base, size)
            Large(k) == q[k] = 0 \/ k = size
            Fits(k) == (q[k] = 0 \/ k = size) /\ (k > 1 => q[k - 1] # 0)
            S == {k \in 1 .. size : Large(k)}
<1>1. N = CHOOSE k \in 1 .. size : Fits(k)
  BY Zenon DEF NumDigits, With
<1>2. S \subseteq Nat /\ size \in S
  OBVIOUS
<1>3. PICK k \in S : \A j \in S : j >= k
  BY <1>2, LeastNat
<1>4. k \in 1 .. size /\ Large(k) /\ (k > 1 => ~ (k - 1 \in S))
  BY <1>2, <1>3
<1>5. k > 1 => k - 1 \in 1 .. size
  BY <1>4
<1>6. k > 1 => ~Large(k - 1)
  BY <1>4, <1>5, Zenon
<1>7. Fits(k)
  BY <1>4, <1>6, Zenon
<1>. HIDE DEF Fits, N
<1>8. N \in 1 .. size /\ Fits(N)
  BY <1>1, <1>4, <1>7, Zenon
<1>. QED
  BY <1>8 DEF Fits, N

\* A number below a power of ten has at most so many digits.
LEMMA FewDigits ==
  ASSUME NEW n \in Nat, NEW k \in Nat \ {0}, NEW size \in Nat \ {0}, k <= size, n < pow10[k]
  PROVE  NumDigits(n, 10, size) <= k
<1>q. PICK q : q = Quotients(n, 10, size)
  OBVIOUS
<1>N. PICK N : N = NumDigits(n, 10, size)
  OBVIOUS
<1>1. N \in 1 .. size /\ (N > 1 => q[N - 1] # 0)
  BY <1>q, <1>N, DigitsEnd
<1>2. /\ q[0] = n /\ \A i \in 1 .. size : q[i] = q[i - 1] \div 10
      /\ \A i \in 0 .. size : q[i] \in Nat
  <2>1. 10 \in Bases
    BY DEF Bases
  <2>. QED
    BY ONLY <1>q, <2>1, n \in Nat, size \in Nat \ {0}, QuotientsAre, SMTT(30)
<1>3. \A x \in Nat : x \div 10 \in Nat /\ x % 10 \in 0 .. 9 /\ x = (x \div 10) * 10 + (x % 10)
  OBVIOUS
<1>4. \A i \in Nat : pow10[i] \in Nat /\ pow10[i + 1] = 10 * pow10[i]
  BY Powers
<1>. DEFINE S == {i \in Nat : i <= k => q[i] < pow10[k - i]}
<1>5. 0 \in S
  BY <1>2
<1>6. ASSUME NEW i \in Nat, i \in S PROVE i + 1 \in S
  <2>. SUFFICES ASSUME i + 1 <= k PROVE q[i + 1] < pow10[k - (i + 1)]
    OBVIOUS
  <2>1. i + 1 \in 1 .. size /\ (i + 1) - 1 = i /\ i \in 0 .. size /\ i <= k
    OBVIOUS
  <2>2. q[i + 1] = q[i] \div 10 /\ q[i] \in Nat /\ q[i] < pow10[k - i]
    BY <1>2, <1>6, <2>1
  <2>3. PICK j \in Nat : j = k - (i + 1) /\ j + 1 = k - i
    <3>1. k - (i + 1) \in Nat /\ (k - (i + 1)) + 1 = k - i
      OBVIOUS
    <3>. QED
      BY <3>1
  <2>4. pow10[k - i] = 10 * pow10[j] /\ pow10[j] \in Nat
    BY <1>4, <2>3
  <2>. QED
    BY <1>3, <2>2, <2>3, <2>4
<1>7. \A i \in Nat : i \in S
  BY <1>5, <1>6, NatSet
<1>8. q[k] = 0
  <2>1. q[k] < pow10[k - k] /\ k - k = 0 /\ q[k] \in Nat
    BY <1>2, <1>7
  <2>. QED
    BY <2>1, Powers
<1>. HIDE DEF S
<1>. DEFINE Z == {i \in Nat : k + i <= size => q[k + i] = 0}
<1>9. 0 \in Z
  BY <1>8
<1>10. ASSUME NEW i \in Nat, i \in Z PROVE i + 1 \in Z
  <2>. SUFFICES ASSUME k + (i + 1) <= size PROVE q[k + (i + 1)] = 0
    OBVIOUS
  <2>1. k + (i + 1) \in 1 .. size /\ (k + (i + 1)) - 1 = k + i /\ k + i <= size
    OBVIOUS
  <2>2. q[k + i] = 0 /\ q[k + (i + 1)] = q[k + i] \div 10
    BY <1>2, <1>10, <2>1
  <2>. QED
    BY <2>2
<1>11. \A i \in Nat : i \in Z
  BY <1>9, <1>10, NatSet
<1>12. ~(N > k)
  <2>. SUFFICES ASSUME N > k PROVE FALSE
    OBVIOUS
  <2>1. PICK i \in Nat : i = N - 1 - k /\ k + i = N - 1 /\ k + i <= size /\ N > 1
    <3>1. N - 1 - k \in Nat /\ k + (N - 1 - k) = N - 1 /\ N - 1 <= size /\ N > 1
      BY <1>1
    <3>. QED
      BY <3>1
  <2>2. q[N - 1] = 0
    BY <1>11, <2>1
  <2>. QED
    BY <1>1, <2>1, <2>2
<1>. QED
  BY <1>1, <1>N, <1>12

\* A number is below the power of ten that its digits say.
LEMMA BelowPower ==
  ASSUME NEW n \in Nat, NEW size \in Nat \ {0}, NEW N, N = NumDigits(n, 10, size), N < size
  PROVE  n < pow10[N]
<1>q. PICK q : q = Quotients(n, 10, size)
  OBVIOUS
<1>1. N \in 1 .. size /\ (q[N] = 0 \/ N = size)
  BY <1>q, DigitsEnd
<1>2. /\ q[0] = n /\ \A i \in 1 .. size : q[i] = q[i - 1] \div 10
      /\ \A i \in 0 .. size : q[i] \in Nat
  <2>1. 10 \in Bases
    BY DEF Bases
  <2>. QED
    BY ONLY <1>q, <2>1, n \in Nat, size \in Nat \ {0}, QuotientsAre, SMTT(30)
<1>3. \A x \in Nat : x \div 10 \in Nat /\ x % 10 \in 0 .. 9 /\ x = (x \div 10) * 10 + (x % 10)
  OBVIOUS
<1>4. \A i \in Nat : pow10[i] \in Nat \ {0} /\ pow10[i + 1] = 10 * pow10[i]
  BY Powers
<1>. DEFINE S == {i \in Nat : i <= N => q[N - i] < pow10[i]}
<1>5. 0 \in S
  <2>1. q[N - 0] = 0 /\ pow10[0] = 1
    BY <1>1, Powers
  <2>. QED
    BY <2>1
<1>6. ASSUME NEW i \in Nat, i \in S PROVE i + 1 \in S
  <2>. SUFFICES ASSUME i + 1 <= N PROVE q[N - (i + 1)] < pow10[i + 1]
    OBVIOUS
  <2>1. N - i \in 1 .. size /\ N - (i + 1) \in 0 .. size /\ (N - i) - 1 = N - (i + 1) /\ i <= N
    BY <1>1
  <2>2. q[N - i] = q[N - (i + 1)] \div 10 /\ q[N - (i + 1)] \in Nat /\ q[N - i] < pow10[i]
    BY <1>2, <1>6, <2>1
  <2>3. pow10[i + 1] = 10 * pow10[i] /\ pow10[i] \in Nat
    BY <1>4
  <2>. QED
    BY <1>3, <2>2, <2>3
<1>7. \A i \in Nat : i \in S
  BY <1>5, <1>6, NatSet
<1>8. N \in Nat /\ N - N = 0
  BY <1>1
<1>9. q[N - N] < pow10[N]
  BY <1>7, <1>8
<1>. QED
  BY <1>2, <1>8, <1>9

\* One more than a number has at most one more digit.
LEMMA OneMoreDigit ==
  ASSUME NEW n \in Nat, NEW size \in Nat \ {0}, NEW N, N = NumDigits(n, 10, size), N + 1 <= size,
         NEW m \in {n, n + 1}
  PROVE  NumDigits(m, 10, size) <= N + 1
<1>1. N \in 1 .. size
  BY NumDigitsIs
<1>2. n < pow10[N]
  BY <1>1, BelowPower
<1>3. pow10[N + 1] = 10 * pow10[N] /\ pow10[N] \in Nat \ {0}
  BY <1>1, Powers
<1>4. m \in Nat /\ m < pow10[N + 1]
  BY <1>2, <1>3
<1>. QED
  BY <1>1, <1>4, FewDigits

Decimals == {"0", "1", "2", "3", "4", "5", "6", "7", "8", "9"}

\* The digits of a decimal number.
LEMMA DecimalDigits ==
  ASSUME NEW n \in Nat, NEW size \in Nat \ {0}, NEW fl
  PROVE  \A i \in 1 .. Len(Digits(n, 10, size, fl)) : Digits(n, 10, size, fl)[i] \in Decimals
<1>. DEFINE q == Quotients(n, 10, size)
            D(i) == (IF "upper" \in fl THEN Upper ELSE Lower)[1 + (q[i - 1] % 10)]
            N == NumDigits(n, 10, size)
            d == Digits(n, 10, size, fl)
<1>1. d = [i \in 1 .. N |-> D(i)]
  BY Zenon DEF Digits, With
<1>2. Len(d) = N /\ N \in 1 .. size
  BY DigitsIs, NumDigitsIs
<1>3. \A k \in 0 .. size : q[k] \in Nat
  BY QuotientsAre, 10 \in Bases DEF Bases
<1>4. \A v \in 0 .. 9 : Lower[1 + v] \in Decimals /\ Upper[1 + v] \in Decimals
  <2>1. \A v \in 0 .. 9 : \/ v = 0 \/ v = 1 \/ v = 2 \/ v = 3 \/ v = 4
                          \/ v = 5 \/ v = 6 \/ v = 7 \/ v = 8 \/ v = 9
    OBVIOUS
  <2>2. /\ Lower[1] \in Decimals /\ Lower[2] \in Decimals /\ Lower[3] \in Decimals
        /\ Lower[4] \in Decimals /\ Lower[5] \in Decimals /\ Lower[6] \in Decimals
        /\ Lower[7] \in Decimals /\ Lower[8] \in Decimals /\ Lower[9] \in Decimals
        /\ Lower[10] \in Decimals
    BY DEF Lower, Decimals
  <2>3. /\ Upper[1] \in Decimals /\ Upper[2] \in Decimals /\ Upper[3] \in Decimals
        /\ Upper[4] \in Decimals /\ Upper[5] \in Decimals /\ Upper[6] \in Decimals
        /\ Upper[7] \in Decimals /\ Upper[8] \in Decimals /\ Upper[9] \in Decimals
        /\ Upper[10] \in Decimals
    BY DEF Upper, Decimals
  <2>. QED
    BY <2>1, <2>2, <2>3
<1>. HIDE DEF q, N, d
<1>5. ASSUME NEW i \in 1 .. N PROVE d[i] \in Decimals
  <2>1. i - 1 \in 0 .. size
    BY <1>2
  <2>2. q[i - 1] % 10 \in 0 .. 9
    BY <1>3, <2>1
  <2>3. d[i] = Lower[1 + (q[i - 1] % 10)] \/ d[i] = Upper[1 + (q[i - 1] % 10)]
    BY <1>1
  <2>. QED
    BY <1>4, <2>2, <2>3
<1>. QED
  BY <1>2, <1>5 DEF d

-----------------------------------------------------------------------------
(* Reading a number with a fraction.                                       *)

LEMMA ZeroValue == DigitValue("0") = 0
<1>1. "0" = Lower[1 + 0] /\ 0 \in 0 .. 15
  BY DEF Lower
<1>. QED
  BY <1>1, DigitChar

\* s has the digits d, the last one first, between z and t zeros.
Spread(s, d, z, D, t) ==
  /\ D = Len(d) /\ IsSequence(s) /\ Len(s) = z + D + t
  /\ \A j \in 1 .. z : s[j] = "0"
  /\ \A j \in 1 .. D : s[z + j] = d[D - j + 1]
  /\ \A j \in 1 .. t : s[z + D + j] = "0"

\* The number before some zeros, times their power of ten.
LEMMA ReadsScaled ==
  ASSUME NEW d, NEW n \in Nat, Says(d, n, 10), NEW s, NEW z \in Nat, NEW t \in Nat, NEW D \in Nat,
         Spread(s, d, z, D, t)
  PROVE  ReadDigits(s, 10) = n * pow10[t]
<1>0. /\ D = Len(d) /\ IsSequence(s) /\ Len(s) = z + D + t
      /\ \A j \in 1 .. z : s[j] = "0"
      /\ \A j \in 1 .. D : s[z + j] = d[D - j + 1]
      /\ \A j \in 1 .. t : s[z + D + j] = "0"
  BY DEF Spread
<1>H. PICK H \in Nat : H = z + D
  OBVIOUS
<1>u. PICK u : u = SubSeq(s, 1, H)
  OBVIOUS
<1>1. IsSequence(u) /\ Len(u) = H /\ \A j \in 1 .. H : u[j] = s[j]
  <2>1. /\ 1 \in Nat \ {0} /\ 1 <= H + 1 /\ H <= Len(s) /\ H - 1 + 1 = H
        /\ \A j \in 1 .. H : 1 + j - 1 = j
    BY <1>0, <1>H
  <2>2. /\ IsSequence(SubSeq(s, 1, H)) /\ Len(SubSeq(s, 1, H)) = H - 1 + 1
        /\ \A j \in 1 .. H - 1 + 1 : SubSeq(s, 1, H)[j] = s[1 + j - 1]
    BY <1>0, <2>1, Sliced
  <2>. QED
    BY <1>u, <2>1, <2>2
<1>2. ReadDigits(u, 10) = n
  <2>1. 10 \in Bases
    BY DEF Bases
  <2>2. \A j \in 1 .. z : j \in 1 .. H
    BY <1>H
  <2>3. \A j \in 1 .. D : z + j \in 1 .. H
    BY <1>H
  <2>4. Len(u) = z + D /\ (\A j \in 1 .. z : u[j] = "0") /\ \A j \in 1 .. D : u[z + j] = d[D - j + 1]
    BY <1>0, <1>H, <1>1, <2>2, <2>3
  <2>. QED
    BY <1>0, <1>1, <2>1, <2>4, ReadsAs
<1>3. PICK f : /\ ReadDigits(s, 10) = f[Len(s)] /\ f[0] = 0
               /\ \A k \in 1 .. Len(s) : f[k] = f[k - 1] * 10 + DigitValue(s[k])
  <2>1. IsSequence(s)
    BY <1>0
  <2>. QED
    BY ONLY <2>1, ReadDigitsIs, SMTT(30)
<1>4. PICK g : /\ ReadDigits(u, 10) = g[Len(u)] /\ g[0] = 0
               /\ \A k \in 1 .. Len(u) : g[k] = g[k - 1] * 10 + DigitValue(u[k])
  <2>1. IsSequence(u)
    BY <1>1
  <2>. QED
    BY ONLY <2>1, ReadDigitsIs, SMTT(30)
<1>5. f[H] = n
  <2>. DEFINE S == {k \in Nat : k <= H => f[k] = g[k]}
  <2>1. 0 \in S
    BY <1>3, <1>4
  <2>2. ASSUME NEW k \in Nat, k \in S PROVE k + 1 \in S
    <3>. SUFFICES ASSUME k + 1 <= H PROVE f[k + 1] = g[k + 1]
      OBVIOUS
    <3>1. k + 1 \in 1 .. H /\ k + 1 \in 1 .. Len(s) /\ (k + 1) - 1 = k /\ k <= H
      BY <1>0, <1>H
    <3>2. f[k] = g[k] /\ u[k + 1] = s[k + 1]
      BY <1>1, <2>2, <3>1
    <3>3. f[k + 1] = f[k] * 10 + DigitValue(s[k + 1])
      BY <1>3, <3>1
    <3>4. g[k + 1] = g[k] * 10 + DigitValue(u[k + 1])
      BY <1>1, <1>4, <3>1
    <3>. QED
      BY <3>2, <3>3, <3>4
  <2>3. \A k \in Nat : k \in S
    BY <2>1, <2>2, NatSet
  <2>4. f[H] = g[H]
    BY <2>3
  <2>. QED
    BY <1>1, <1>2, <1>4, <2>4
<1>6. \A k \in Nat : pow10[k] \in Nat /\ pow10[k + 1] = 10 * pow10[k]
  BY Powers
<1>7. f[H + t] = n * pow10[t]
  <2>. DEFINE S == {k \in Nat : k <= t => f[H + k] = n * pow10[k]}
  <2>1. 0 \in S
    <3>1. H + 0 = H /\ pow10[0] = 1
      BY Powers
    <3>. QED
      BY <1>5, <3>1
  <2>2. ASSUME NEW k \in Nat, k \in S PROVE k + 1 \in S
    <3>. SUFFICES ASSUME k + 1 <= t PROVE f[H + (k + 1)] = n * pow10[k + 1]
      OBVIOUS
    <3>1. /\ k + 1 \in 1 .. t /\ H + (k + 1) \in 1 .. Len(s)
          /\ (H + (k + 1)) - 1 = H + k /\ k <= t /\ H + (k + 1) = z + D + (k + 1)
      BY <1>0, <1>H
    <3>2. f[H + k] = n * pow10[k] /\ s[H + (k + 1)] = "0"
      BY <1>0, <2>2, <3>1
    <3>3. f[H + (k + 1)] = f[H + k] * 10 + 0
      BY <1>3, <3>1, <3>2, ZeroValue
    <3>4. \A x, y \in Nat : (x * y) * 10 + 0 = x * (10 * y)
      OBVIOUS
    <3>5. (n * pow10[k]) * 10 + 0 = n * (10 * pow10[k])
      BY <1>6, <3>4
    <3>. QED
      BY <1>6, <3>2, <3>3, <3>5
  <2>3. \A k \in Nat : k \in S
    BY <2>1, <2>2, NatSet
  <2>. QED
    BY <2>3
<1>. QED
  BY <1>0, <1>3, <1>7, <1>H

\* The first and the last of some positions.
LEMMA Ends ==
  ASSUME NEW L \in Nat, NEW S, S \subseteq 1 .. L, S # {}
  PROVE  /\ Min(S) \in S /\ \A i \in S : Min(S) <= i
         /\ Max(S) \in S /\ \A i \in S : Max(S) >= i
<1>. DEFINE Least(x) == \A y \in S : x <= y
            Most(x) == \A y \in S : x >= y
<1>1. Min(S) = (CHOOSE x \in S : Least(x)) /\ Max(S) = (CHOOSE x \in S : Most(x))
  BY Zenon DEF Min, Max
<1>2. \E x \in S : Least(x)
  <2>1. S \subseteq Nat
    OBVIOUS
  <2>2. PICK x \in S : \A y \in S : y >= x
    BY <2>1, LeastNat
  <2>. QED
    BY <2>1, <2>2
<1>3. \E x \in S : Most(x)
  <2>. DEFINE R == {L - i : i \in S}
  <2>1. R \subseteq Nat /\ R # {}
    <3>1. \A i \in S : i \in 1 .. L /\ L - i \in Nat
      OBVIOUS
    <3>2. PICK i \in S : TRUE
      OBVIOUS
    <3>3. L - i \in R
      OBVIOUS
    <3>. QED
      BY <3>1, <3>3
  <2>2. PICK k \in R : \A j \in R : j >= k
    BY <2>1, LeastNat
  <2>3. PICK x \in S : k = L - x
    BY <2>2
  <2>4. ASSUME NEW y \in S PROVE x >= y
    <3>1. L - y \in R
      OBVIOUS
    <3>2. L - y >= k
      BY <2>2, <3>1
    <3>. QED
      BY <2>3, <3>2
  <2>. QED
    BY <2>4
<1>. HIDE DEF Least, Most
<1>4. Min(S) \in S /\ Least(Min(S)) /\ Max(S) \in S /\ Most(Max(S))
  BY <1>1, <1>2, <1>3, Zenon
<1>. QED
  BY <1>4 DEF Least, Most

\* Blanks behind a text are not read.
LEMMA BlanksBehind ==
  ASSUME NEW s, NEW k, IsSequence(s), IsSequence(k), AllBlank(k)
  PROVE  Unsigned(s \o k) = Unsigned(s) /\ (Contains(s \o k, "-") <=> Contains(s, "-"))
<1>t. PICK t : t = s \o k
  OBVIOUS
<1>L. PICK L \in Nat, K \in Nat : L = Len(s) /\ K = Len(k)
  BY SeqLaws
<1>1. /\ IsSequence(t) /\ Len(t) = L + K
      /\ \A i \in 1 .. L + K : t[i] = IF i <= L THEN s[i] ELSE k[i - L]
  BY <1>t, <1>L, Joined, Zenon
<1>2. DOMAIN s = 1 .. L /\ DOMAIN t = 1 .. L + K
  BY <1>1, <1>L, SeqLaws
<1>3. ASSUME NEW i \in 1 .. L PROVE i \in 1 .. L + K /\ t[i] = s[i]
  BY <1>1
<1>4. ASSUME NEW i \in 1 .. L + K, ~(i \in 1 .. L) PROVE t[i] = " "
  <2>1. ~(i <= L) /\ i - L \in 1 .. K
    BY <1>4
  <2>2. t[i] = k[i - L]
    BY <1>1, <2>1
  <2>. QED
    BY <1>L, <2>1, <2>2 DEF AllBlank
<1>5. PICK kept : kept = {i \in DOMAIN s : s[i] \notin {" ", "+", "-"}}
  OBVIOUS
<1>6. kept = {i \in DOMAIN t : t[i] \notin {" ", "+", "-"}}
  BY <1>2, <1>3, <1>4, <1>5
<1>7. Unsigned(s) = IF kept = {} THEN <<>> ELSE SubSeq(s, Min(kept), Max(kept))
  BY <1>5 DEF Unsigned
<1>8. Unsigned(t) = IF kept = {} THEN <<>> ELSE SubSeq(t, Min(kept), Max(kept))
  BY <1>6 DEF Unsigned
<1>9. kept # {} => SubSeq(t, Min(kept), Max(kept)) = SubSeq(s, Min(kept), Max(kept))
  <2>. SUFFICES ASSUME kept # {} PROVE SubSeq(t, Min(kept), Max(kept)) = SubSeq(s, Min(kept), Max(kept))
    OBVIOUS
  <2>1. kept \subseteq 1 .. L
    BY <1>2, <1>5
  <2>2. /\ Min(kept) \in kept /\ Max(kept) \in kept /\ Min(kept) <= Max(kept)
    <3>1. /\ Min(kept) \in kept /\ \A i \in kept : Min(kept) <= i
          /\ Max(kept) \in kept
      BY <2>1, Ends
    <3>. QED
      BY <3>1
  <2>3. PICK lo \in Nat \ {0}, hi \in Nat : lo = Min(kept) /\ hi = Max(kept) /\ lo <= hi + 1 /\ hi <= L
    <3>1. \A i \in kept : i \in 1 .. L
      BY <2>1
    <3>2. PICK lo \in 1 .. L, hi \in 1 .. L : lo = Min(kept) /\ hi = Max(kept)
      BY <2>2, <3>1
    <3>3. lo \in Nat \ {0} /\ hi \in Nat /\ lo <= hi + 1 /\ hi <= L
      BY <2>2, <3>2
    <3>. QED
      BY <3>2, <3>3
  <2>4. /\ IsSequence(SubSeq(s, lo, hi)) /\ Len(SubSeq(s, lo, hi)) = hi - lo + 1
        /\ \A j \in 1 .. hi - lo + 1 : SubSeq(s, lo, hi)[j] = s[lo + j - 1]
    BY ONLY <1>L, <2>3, IsSequence(s), Sliced, SMTT(30)
  <2>5. hi <= Len(t)
    BY <1>1, <2>3
  <2>6. /\ IsSequence(SubSeq(t, lo, hi)) /\ Len(SubSeq(t, lo, hi)) = hi - lo + 1
        /\ \A j \in 1 .. hi - lo + 1 : SubSeq(t, lo, hi)[j] = t[lo + j - 1]
    BY ONLY <1>1, <2>3, <2>5, Sliced, SMTT(30)
  <2>7. \A j \in 1 .. hi - lo + 1 : lo + j - 1 \in 1 .. L
    BY <2>3
  <2>8. \A j \in 1 .. hi - lo + 1 : SubSeq(t, lo, hi)[j] = SubSeq(s, lo, hi)[j]
    BY <1>3, <2>4, <2>6, <2>7
  <2>9. SubSeq(t, lo, hi) = SubSeq(s, lo, hi)
    BY <2>4, <2>6, <2>8, SeqSame
  <2>. QED
    BY <2>3, <2>9
<1>10. Contains(t, "-") <=> Contains(s, "-")
  <2>1. Contains(s, "-") <=> \E i \in 1 .. L : s[i] = "-"
    BY <1>L DEF Contains
  <2>2. Contains(t, "-") <=> \E i \in 1 .. L + K : t[i] = "-"
    BY <1>1 DEF Contains
  <2>. QED
    BY <1>3, <1>4, <2>1, <2>2
<1>. QED
  BY <1>t, <1>7, <1>8, <1>9, <1>10

-----------------------------------------------------------------------------
(* The characters of a number with a fraction, the last one first.         *)

AllIn(s, X) == IsSequence(s) /\ \A i \in 1 .. Len(s) : s[i] \in X

LEMMA JoinedIn ==
  ASSUME NEW X, NEW s, NEW t, AllIn(s, X), AllIn(t, X)
  PROVE  AllIn(s \o t, X)
<1>1. IsSequence(s) /\ IsSequence(t) /\ Len(s) \in Nat /\ Len(t) \in Nat
  BY SeqLaws DEF AllIn
<1>2. /\ IsSequence(s \o t) /\ Len(s \o t) = Len(s) + Len(t)
      /\ \A i \in 1 .. Len(s) + Len(t) : (s \o t)[i] = IF i <= Len(s) THEN s[i] ELSE t[i - Len(s)]
  BY <1>1, Joined, Zenon
<1>3. ASSUME NEW i \in 1 .. Len(s) + Len(t) PROVE (s \o t)[i] \in X
  <2>1. CASE i <= Len(s)
    <3>1. i \in 1 .. Len(s) /\ (s \o t)[i] = s[i]
      BY <1>1, <1>2, <2>1
    <3>. QED
      BY <3>1 DEF AllIn
  <2>2. CASE ~(i <= Len(s))
    <3>1. i - Len(s) \in 1 .. Len(t) /\ (s \o t)[i] = t[i - Len(s)]
      BY <1>1, <1>2, <2>2
    <3>. QED
      BY <3>1 DEF AllIn
  <2>. QED
    BY <2>1, <2>2
<1>. QED
  BY <1>2, <1>3 DEF AllIn

LEMMA ReversedIn ==
  ASSUME NEW X, NEW s, AllIn(s, X)
  PROVE  AllIn(Reverse(s), X)
<1>1. IsSequence(s) /\ Len(s) \in Nat
  BY SeqLaws DEF AllIn
<1>2. /\ IsSequence(Reverse(s)) /\ Len(Reverse(s)) = Len(s)
      /\ \A i \in 1 .. Len(s) : Reverse(s)[i] = s[Len(s) - i + 1]
  BY <1>1, Reversed, Zenon
<1>3. \A i \in 1 .. Len(s) : Len(s) - i + 1 \in 1 .. Len(s)
  BY <1>1
<1>. QED
  BY <1>2, <1>3 DEF AllIn

\* A number with zeros in front of it that has something behind it.
Placed(b, p, w) ==
  /\ IsSequence(b) /\ Len(p) + Len(w) <= Len(b)
  /\ \A i \in 1 .. Len(p) : b[i] = p[i]
  /\ \A i \in 1 .. Len(w) : b[Len(p) + i] = w[i]
  /\ \A i \in Len(p) + Len(w) + 1 .. Len(b) : b[i] = "0"

LEMMA PlacedJoin ==
  ASSUME NEW p, NEW w, IsSequence(p), IsSequence(w)
  PROVE  Placed(p \o w, p, w)
<1>1. PICK P \in Nat, W \in Nat : P = Len(p) /\ W = Len(w)
  BY SeqLaws
<1>2. /\ IsSequence(p \o w) /\ Len(p \o w) = P + W
      /\ \A i \in 1 .. P + W : (p \o w)[i] = IF i <= P THEN p[i] ELSE w[i - P]
  BY <1>1, Joined, Zenon
<1>3. ASSUME NEW i \in 1 .. P PROVE (p \o w)[i] = p[i]
  BY <1>2
<1>4. ASSUME NEW i \in 1 .. W PROVE (p \o w)[P + i] = w[i]
  <2>1. P + i \in 1 .. P + W /\ ~(P + i <= P) /\ (P + i) - P = i
    OBVIOUS
  <2>. QED
    BY <1>2, <2>1
<1>. QED
  BY <1>1, <1>2, <1>3, <1>4 DEF Placed

\* t is b with zeros up to n characters, which there is room for.
PaddedTo(t, b, n, size) ==
  /\ n \in Int /\ size \in Nat /\ Len(b) <= size /\ n <= size
  /\ t = Put(b, Times("0", n - Len(b)), size)

LEMMA PlacedPad ==
  ASSUME NEW b, NEW p, NEW w, Placed(b, p, w), IsSequence(p), IsSequence(w), NEW n, NEW size,
         NEW t, PaddedTo(t, b, n, size)
  PROVE  Placed(t, p, w) /\ Len(t) = Larger(n, Len(b))
<1>0. /\ n \in Int /\ size \in Nat /\ Len(b) <= size /\ n <= size
      /\ t = Put(b, Times("0", n - Len(b)), size)
  BY DEF PaddedTo
<1>. DEFINE z == Times("0", n - Len(b))
<1>1. IsSequence(b) /\ Len(b) \in Nat
  BY SeqLaws DEF Placed
<1>2. /\ IsSequence(z) /\ Len(z) = AtLeast0(n - Len(b)) /\ Len(z) \in Nat
      /\ \A i \in 1 .. Len(z) : z[i] = "0"
  BY <1>0, <1>1, TimesLaws DEF AtLeast0
<1>. HIDE DEF z
<1>3. Len(b) + Len(z) <= size /\ Len(b) + Len(z) = IF n > Len(b) THEN n ELSE Len(b)
  BY <1>0, <1>1, <1>2 DEF AtLeast0
<1>4. t = b \o z
  BY <1>0, <1>1, <1>2, <1>3, PutAll DEF z
<1>5. /\ IsSequence(b \o z) /\ Len(b \o z) = Len(b) + Len(z)
      /\ \A i \in 1 .. Len(b) + Len(z) :
           (b \o z)[i] = IF i <= Len(b) THEN b[i] ELSE z[i - Len(b)]
  BY <1>1, <1>2, Joined, Zenon
<1>6. PICK B \in Nat, Z \in Nat, P \in Nat, W \in Nat :
        B = Len(b) /\ Z = Len(z) /\ P = Len(p) /\ W = Len(w)
  BY <1>1, <1>2, SeqLaws
<1>7. /\ IsSequence(t) /\ Len(t) = B + Z
      /\ \A i \in 1 .. B + Z : t[i] = IF i <= B THEN b[i] ELSE z[i - B]
  BY <1>4, <1>5, <1>6
<1>8. /\ P + W <= B
      /\ \A i \in 1 .. P : b[i] = p[i]
      /\ \A i \in 1 .. W : b[P + i] = w[i]
      /\ \A i \in P + W + 1 .. B : b[i] = "0"
  BY <1>6 DEF Placed
<1>9. ASSUME NEW i \in 1 .. P PROVE t[i] = p[i]
  <2>1. i \in 1 .. B + Z /\ i <= B
    BY <1>8
  <2>. QED
    BY <1>7, <1>8, <2>1
<1>10. ASSUME NEW i \in 1 .. W PROVE t[P + i] = w[i]
  <2>1. P + i \in 1 .. B + Z /\ P + i <= B
    BY <1>8
  <2>. QED
    BY <1>7, <1>8, <2>1
<1>11. ASSUME NEW i \in P + W + 1 .. B + Z PROVE t[i] = "0"
  <2>1. CASE i <= B
    <3>1. i \in 1 .. B + Z /\ i \in P + W + 1 .. B
      BY <1>8, <2>1
    <3>. QED
      BY <1>7, <1>8, <2>1, <3>1
  <2>2. CASE ~(i <= B)
    <3>1. i \in 1 .. B + Z /\ i - B \in 1 .. Z
      BY <1>8, <2>2
    <3>. QED
      BY <1>2, <1>6, <1>7, <2>2, <3>1
  <2>. QED
    BY <2>1, <2>2
<1>12. P + W <= B + Z
  BY <1>8
<1>13. Placed(t, p, w)
  BY <1>6, <1>7, <1>9, <1>10, <1>11, <1>12 DEF Placed
<1>. QED
  BY <1>3, <1>6, <1>7, <1>13 DEF Larger

\* The decimals and the point: q zeros, the digits d, and zeros in front of them.
Fraction(p, asked, q, d) ==
  /\ IsSequence(p)
  /\ asked = 0 => Len(p) = 0
  /\ asked # 0 =>
       /\ Len(p) = asked + 1 /\ p[asked + 1] = "." /\ q + Len(d) <= asked
       /\ \A i \in 1 .. q : p[i] = "0"
       /\ \A i \in 1 .. Len(d) : p[q + i] = d[i]
       /\ \A i \in q + Len(d) + 1 .. asked : p[i] = "0"

\* What _ftoa puts in front of the whole part, in the order of its buffer.
LEMMA FractionText ==
  ASSUME NEW q \in Nat, NEW left \in Nat \ {0}, NEW d, IsSequence(d), Len(d) <= left,
         NEW p, p = Times("0", q) \o ((d \o Times("0", left - Len(d))) \o <<".">>)
  PROVE  Fraction(p, q + left, q, d)
<1>D. PICK D \in Nat : D = Len(d)
  BY SeqLaws
<1>f. PICK f : f = Times("0", q)
  OBVIOUS
<1>z. PICK z : z = Times("0", left - D)
  OBVIOUS
<1>r. PICK r : r = d \o z
  OBVIOUS
<1>t. PICK t : t = <<".">>
  OBVIOUS
<1>s. PICK s : s = r \o t
  OBVIOUS
<1>p. p = f \o s
  BY <1>D, <1>f, <1>z, <1>r, <1>t, <1>s, Zenon
<1>1. IsSequence(f) /\ Len(f) = q /\ \A i \in 1 .. q : f[i] = "0"
  <2>1. AtLeast0(q) = q /\ q \in Int
    BY DEF AtLeast0
  <2>. QED
    BY <1>f, <2>1, TimesLaws
<1>2. IsSequence(z) /\ Len(z) = left - D /\ \A i \in 1 .. left - D : z[i] = "0"
  <2>1. AtLeast0(left - D) = left - D /\ left - D \in Int
    BY <1>D DEF AtLeast0
  <2>. QED
    BY <1>z, <2>1, TimesLaws
<1>3. IsSequence(t) /\ Len(t) = 1 /\ t[1] = "."
  BY <1>t, Single
<1>4. /\ IsSequence(r) /\ Len(r) = left
      /\ \A i \in 1 .. left : r[i] = IF i <= D THEN d[i] ELSE z[i - D]
  <2>1. /\ IsSequence(d \o z) /\ Len(d \o z) = Len(d) + Len(z)
        /\ \A i \in 1 .. Len(d) + Len(z) : (d \o z)[i] = IF i <= Len(d) THEN d[i] ELSE z[i - Len(d)]
    BY <1>2, Joined, Zenon
  <2>2. Len(d) + Len(z) = left
    BY <1>D, <1>2
  <2>. QED
    BY <1>D, <1>r, <2>1, <2>2
<1>5. /\ IsSequence(s) /\ Len(s) = left + 1
      /\ \A i \in 1 .. left + 1 : s[i] = IF i <= left THEN r[i] ELSE t[i - left]
  <2>1. /\ IsSequence(r \o t) /\ Len(r \o t) = Len(r) + Len(t)
        /\ \A i \in 1 .. Len(r) + Len(t) : (r \o t)[i] = IF i <= Len(r) THEN r[i] ELSE t[i - Len(r)]
    BY <1>3, <1>4, Joined, Zenon
  <2>. QED
    BY <1>3, <1>4, <1>s, <2>1
<1>6. /\ IsSequence(p) /\ Len(p) = q + (left + 1)
      /\ \A i \in 1 .. q + (left + 1) : p[i] = IF i <= q THEN f[i] ELSE s[i - q]
  <2>1. /\ IsSequence(f \o s) /\ Len(f \o s) = Len(f) + Len(s)
        /\ \A i \in 1 .. Len(f) + Len(s) : (f \o s)[i] = IF i <= Len(f) THEN f[i] ELSE s[i - Len(f)]
    BY <1>1, <1>5, Joined, Zenon
  <2>. QED
    BY <1>1, <1>5, <1>p, <2>1
<1>7. p[(q + left) + 1] = "."
  <2>1. /\ (q + left) + 1 \in 1 .. q + (left + 1) /\ ~((q + left) + 1 <= q)
        /\ ((q + left) + 1) - q = left + 1 /\ left + 1 \in 1 .. left + 1
        /\ ~(left + 1 <= left) /\ (left + 1) - left = 1
    OBVIOUS
  <2>2. p[(q + left) + 1] = s[left + 1]
    BY <1>6, <2>1
  <2>3. s[left + 1] = t[1]
    BY <1>5, <2>1
  <2>. QED
    BY <1>3, <2>2, <2>3
<1>8. ASSUME NEW i \in 1 .. q PROVE p[i] = "0"
  <2>1. i \in 1 .. q + (left + 1) /\ i <= q
    OBVIOUS
  <2>. QED
    BY <1>1, <1>6, <2>1
<1>9. ASSUME NEW i \in 1 .. left PROVE p[q + i] = r[i]
  <2>1. q + i \in 1 .. q + (left + 1) /\ ~(q + i <= q) /\ (q + i) - q = i /\ i \in 1 .. left + 1 /\ i <= left
    OBVIOUS
  <2>2. p[q + i] = s[i]
    BY <1>6, <2>1
  <2>. QED
    BY <1>5, <2>1, <2>2
<1>10. ASSUME NEW i \in 1 .. D PROVE p[q + i] = d[i]
  <2>1. i \in 1 .. left /\ i <= D
    BY <1>D
  <2>. QED
    BY <1>4, <1>9, <2>1
<1>11. ASSUME NEW i \in q + D + 1 .. q + left PROVE p[i] = "0"
  <2>1. PICK j \in 1 .. left : j = i - q /\ q + j = i /\ ~(j <= D) /\ j - D \in 1 .. left - D
    <3>1. i - q \in 1 .. left /\ q + (i - q) = i /\ ~(i - q <= D) /\ (i - q) - D \in 1 .. left - D
      OBVIOUS
    <3>. QED
      BY <3>1
  <2>2. p[i] = r[j]
    BY <1>9, <2>1
  <2>3. r[j] = z[j - D]
    BY <1>4, <2>1
  <2>. QED
    BY <1>2, <2>1, <2>2, <2>3
<1>12. q + (left + 1) = (q + left) + 1 /\ q + D <= q + left /\ q + left # 0
  BY <1>D
<1>. QED
  BY <1>D, <1>6, <1>7, <1>8, <1>10, <1>11, <1>12 DEF Fraction

\* The number has one point, behind its decimals, and digits else.
LEMMA PlacedChars ==
  ASSUME NEW asked \in Nat, NEW q \in Nat, NEW d, NEW w, NEW p, NEW b, Fraction(p, asked, q, d),
         Placed(b, p, w), AllIn(d, Decimals), AllIn(w, Decimals)
  PROVE  /\ \A i \in 1 .. Len(b) : b[i] \in Decimals \/ (asked # 0 /\ i = asked + 1 /\ b[i] = ".")
         /\ asked # 0 => asked + 1 <= Len(b) /\ b[asked + 1] = "."
<1>1. PICK P \in Nat, W \in Nat, D \in Nat, B \in Nat :
        P = Len(p) /\ W = Len(w) /\ D = Len(d) /\ B = Len(b)
  BY SeqLaws DEF AllIn, Fraction, Placed
<1>2. /\ P + W <= B
      /\ \A i \in 1 .. P : b[i] = p[i]
      /\ \A i \in 1 .. W : b[P + i] = w[i]
      /\ \A i \in P + W + 1 .. B : b[i] = "0"
  BY <1>1 DEF Placed
<1>3. "0" \in Decimals
  BY DEF Decimals
<1>4. ASSUME NEW i \in 1 .. P
      PROVE  p[i] \in Decimals \/ (asked # 0 /\ i = asked + 1 /\ p[i] = ".")
  <2>1. asked # 0 /\ P = asked + 1
    BY <1>1, <1>4 DEF Fraction
  <2>2. /\ p[asked + 1] = "." /\ q + D <= asked
        /\ \A j \in 1 .. q : p[j] = "0"
        /\ \A j \in 1 .. D : p[q + j] = d[j]
        /\ \A j \in q + D + 1 .. asked : p[j] = "0"
    BY <1>1, <2>1 DEF Fraction
  <2>3. CASE i \in 1 .. q
    BY <1>3, <2>2, <2>3
  <2>4. CASE i \in q + 1 .. q + D
    <3>1. i - q \in 1 .. D /\ q + (i - q) = i
      BY <2>4
    <3>2. p[i] = d[i - q]
      BY <2>2, <3>1
    <3>. QED
      BY <1>1, <3>1, <3>2 DEF AllIn
  <2>5. CASE i \in q + D + 1 .. asked
    BY <1>3, <2>2, <2>5
  <2>6. CASE i = asked + 1
    BY <2>1, <2>2, <2>6
  <2>. QED
    BY <2>1, <2>2, <2>3, <2>4, <2>5, <2>6
<1>5. ASSUME NEW i \in 1 .. B
      PROVE  b[i] \in Decimals \/ (asked # 0 /\ i = asked + 1 /\ b[i] = ".")
  <2>1. CASE i \in 1 .. P
    BY <1>2, <1>4, <2>1
  <2>2. CASE i \in P + 1 .. P + W
    <3>1. i - P \in 1 .. W /\ P + (i - P) = i
      BY <2>2
    <3>2. b[i] = w[i - P]
      BY <1>2, <3>1
    <3>. QED
      BY <1>1, <3>1, <3>2 DEF AllIn
  <2>3. CASE i \in P + W + 1 .. B
    BY <1>2, <1>3, <2>3
  <2>. QED
    BY <1>2, <2>1, <2>2, <2>3
<1>6. asked # 0 => asked + 1 <= B /\ b[asked + 1] = "."
  <2>. SUFFICES ASSUME asked # 0 PROVE asked + 1 <= B /\ b[asked + 1] = "."
    OBVIOUS
  <2>1. P = asked + 1 /\ p[asked + 1] = "."
    BY <1>1 DEF Fraction
  <2>. QED
    BY <1>2, <2>1
<1>. QED
  BY <1>1, <1>5, <1>6

\* What ReadFixed reads.
FixedIs(text, digits, decimals, minus) ==
  /\ ReadFixed(text).digits = digits /\ ReadFixed(text).decimals = decimals
  /\ ReadFixed(text).minus <=> minus

FixedReads(text, W, F, asked, q, sign) ==
  FixedIs(text, W * pow10[asked] + (IF asked = 0 THEN 0 ELSE F * pow10[q]), asked,
          \E i \in 1 .. Len(sign) : sign[i] = "-")

\* No digits are read as 0.
LEMMA ReadNone == ReadDigits(<<>>, 10) = 0
<1>. DEFINE none == <<>>
<1>1. IsSequence(none) /\ Len(none) = 0
  BY None
<1>. HIDE DEF none
<1>2. \E f : ReadDigits(none, 10) = f[Len(none)] /\ f[0] = 0
  BY <1>1, ReadDigitsIs, Zenon
<1>. QED
  BY <1>1, <1>2, Zenon DEF none

\* A number that is put out as digits, a point and decimals is read as the number.
LEMMA FixedSays ==
  ASSUME NEW asked \in Nat, NEW q \in Nat, NEW F \in Nat, NEW W \in Nat, NEW d, NEW w, NEW p, NEW b,
         Fraction(p, asked, q, d), Placed(b, p, w), Says(d, F, 10), Says(w, W, 10),
         AllIn(d, Decimals), AllIn(w, Decimals), NEW text, NEW f, NEW k, NEW sign,
         Framed(text, f, b, sign, k)
  PROVE  FixedReads(text, W, F, asked, q, sign)
<1>u. PICK u : u = Unsigned(text)
  OBVIOUS
<1>1. PICK N \in Nat, D \in Nat, B \in Nat : N = Len(w) /\ D = Len(d) /\ B = Len(b)
  BY SeqLaws DEF AllIn, Placed
<1>2. /\ IsSequence(u) /\ Len(u) = B /\ \A j \in 1 .. B : u[j] = b[B - j + 1]
      /\ Contains(text, "-") <=> \E i \in 1 .. Len(sign) : sign[i] = "-"
  <2>1. Stripped(text, b, sign)
    BY UnsignedIs, Zenon
  <2>. QED
    BY ONLY <1>u, <1>1, <2>1 DEF Stripped
<1>3. PICK points : points = {i \in DOMAIN u : u[i] = "."}
  OBVIOUS
<1>4. PICK front : front = IF points = {} THEN u ELSE SubSeq(u, 1, Max(points) - 1)
  OBVIOUS
<1>5. PICK behind : behind = IF points = {} THEN <<>> ELSE SubSeq(u, Max(points) + 1, Len(u))
  OBVIOUS
<1>6. ReadFixed(text) =
        [digits |-> ReadDigits(front, 10) * pow10[Len(behind)] + ReadDigits(behind, 10),
         decimals |-> Len(behind), minus |-> Contains(text, "-")]
  BY <1>u, <1>3, <1>4, <1>5, Zenon DEF ReadFixed
<1>7. DOMAIN u = 1 .. B
  BY <1>2, SeqLaws
<1>8. /\ \A i \in 1 .. B : b[i] \in Decimals \/ (asked # 0 /\ i = asked + 1 /\ b[i] = ".")
      /\ asked # 0 => asked + 1 <= B /\ b[asked + 1] = "."
  BY <1>1, PlacedChars
<1>9. "." \notin Decimals
  BY DEF Decimals
<1>10. 10 \in Bases
  BY DEF Bases
<1>11. \A i \in 1 .. B : B - i + 1 \in 1 .. B
  OBVIOUS
<1>12. CASE asked = 0
  <2>1. points = {}
    <3>1. ASSUME NEW j \in 1 .. B PROVE u[j] # "."
      <4>1. u[j] = b[B - j + 1] /\ B - j + 1 \in 1 .. B
        BY <1>2, <1>11
      <4>2. b[B - j + 1] \in Decimals
        BY <1>8, <1>12, <4>1
      <4>. QED
        BY <1>9, <4>1, <4>2
    <3>. QED
      BY <1>3, <1>7, <3>1
  <2>2. front = u /\ behind = <<>>
    BY <1>4, <1>5, <2>1
  <2>3. Len(behind) = 0 /\ ReadDigits(behind, 10) = 0
    BY <2>2, None, ReadNone
  <2>4. /\ N <= B
        /\ \A i \in 1 .. N : b[i] = w[i]
        /\ \A i \in N + 1 .. B : b[i] = "0"
    <3>1. Len(p) = 0 /\ 0 + N = N /\ \A i \in 1 .. N : 0 + i = i
      BY <1>12 DEF Fraction
    <3>. QED
      BY <1>1, <3>1 DEF Placed
  <2>5. PICK z \in Nat : z = B - N /\ B = z + N
    <3>1. B - N \in Nat /\ B = (B - N) + N
      BY <2>4
    <3>. QED
      BY <3>1
  <2>6. ASSUME NEW j \in 1 .. z PROVE u[j] = "0"
    <3>1. j \in 1 .. B /\ B - j + 1 \in N + 1 .. B
      BY <2>5
    <3>. QED
      BY <1>2, <2>4, <3>1
  <2>7. ASSUME NEW j \in 1 .. N PROVE u[z + j] = w[N - j + 1]
    <3>1. z + j \in 1 .. B /\ B - (z + j) + 1 = N - j + 1 /\ N - j + 1 \in 1 .. N
      BY <2>5
    <3>. QED
      BY <1>2, <2>4, <3>1
  <2>8. ReadDigits(u, 10) = W
    <3>1. Len(u) = z + N
      BY <1>2, <2>5
    <3>. QED
      BY <1>1, <1>2, <1>10, <2>6, <2>7, <3>1, ReadsAs
  <2>9. W * pow10[0] + 0 = W
    BY Powers
  <2>10. ReadFixed(text).digits = W * pow10[asked] + 0
    BY <1>6, <1>12, <2>2, <2>3, <2>8
  <2>. QED
    BY <1>2, <1>6, <1>12, <2>3, <2>10 DEF FixedIs, FixedReads
<1>13. CASE asked # 0
  <2>1. PICK m \in Nat : m = B - asked /\ B = m + asked /\ m # 0
    <3>1. B - asked \in Nat /\ B = (B - asked) + asked /\ B - asked # 0
      BY <1>8, <1>13
    <3>. QED
      BY <3>1
  <2>2. m \in 1 .. B /\ B - m + 1 = asked + 1 /\ \A i \in 1 .. B : B - i + 1 = asked + 1 => i = m
    BY <2>1
  <2>3. points = {m}
    <3>1. u[m] = "."
      BY <1>2, <1>8, <1>13, <2>2
    <3>2. ASSUME NEW i \in 1 .. B, u[i] = "." PROVE i = m
      <4>1. b[B - i + 1] = "." /\ B - i + 1 \in 1 .. B
        BY <1>2, <1>11, <3>2
      <4>2. B - i + 1 = asked + 1
        BY <1>8, <1>9, <4>1
      <4>. QED
        BY <2>2, <4>2
    <3>. QED
      BY <1>3, <1>7, <2>2, <3>1, <3>2
  <2>4. Max(points) = m /\ points # {}
    <3>1. points \subseteq 1 .. B /\ points # {}
      BY <2>2, <2>3
    <3>2. Max(points) \in points
      BY <3>1, Ends
    <3>. QED
      BY <2>3, <3>1, <3>2
  <2>5. front = SubSeq(u, 1, m - 1) /\ behind = SubSeq(u, m + 1, B)
    BY <1>2, <1>4, <1>5, <2>4
  <2>6. /\ IsSequence(front) /\ Len(front) = m - 1 /\ \A j \in 1 .. m - 1 : front[j] = u[j]
    <3>0. m - 1 \in Nat /\ 1 <= (m - 1) + 1 /\ m - 1 <= B
      BY <2>1
    <3>1. /\ 1 \in Nat \ {0} /\ m - 1 \in Nat /\ 1 <= (m - 1) + 1 /\ m - 1 <= Len(u)
          /\ (m - 1) - 1 + 1 = m - 1 /\ \A j \in 1 .. m - 1 : 1 + j - 1 = j
      BY <1>2, <3>0
    <3>2. /\ IsSequence(SubSeq(u, 1, m - 1)) /\ Len(SubSeq(u, 1, m - 1)) = (m - 1) - 1 + 1
          /\ \A j \in 1 .. (m - 1) - 1 + 1 : SubSeq(u, 1, m - 1)[j] = u[1 + j - 1]
      BY <1>2, <3>1, Sliced
    <3>. QED
      BY <2>5, <3>1, <3>2
  <2>7. /\ IsSequence(behind) /\ Len(behind) = asked /\ \A j \in 1 .. asked : behind[j] = u[m + j]
    <3>1. /\ m + 1 \in Nat \ {0} /\ B \in Nat /\ m + 1 <= B + 1 /\ B <= Len(u)
          /\ B - (m + 1) + 1 = asked /\ \A j \in 1 .. asked : (m + 1) + j - 1 = m + j
      BY <1>2, <2>1
    <3>2. /\ IsSequence(SubSeq(u, m + 1, B)) /\ Len(SubSeq(u, m + 1, B)) = B - (m + 1) + 1
          /\ \A j \in 1 .. B - (m + 1) + 1 : SubSeq(u, m + 1, B)[j] = u[(m + 1) + j - 1]
      BY <1>2, <3>1, Sliced
    <3>. QED
      BY <2>5, <3>1, <3>2
  <2>8. /\ (asked + 1) + N <= B
        /\ \A i \in 1 .. asked + 1 : b[i] = p[i]
        /\ \A i \in 1 .. N : b[(asked + 1) + i] = w[i]
        /\ \A i \in (asked + 1) + N + 1 .. B : b[i] = "0"
    <3>1. Len(p) = asked + 1
      BY <1>13 DEF Fraction
    <3>. QED
      BY <1>1, <3>1 DEF Placed
  <2>9. /\ q + D <= asked
        /\ \A i \in 1 .. q : p[i] = "0"
        /\ \A i \in 1 .. D : p[q + i] = d[i]
        /\ \A i \in q + D + 1 .. asked : p[i] = "0"
    BY <1>1, <1>13 DEF Fraction
  <2>10. ReadDigits(front, 10) = W
    <3>1. PICK z \in Nat : z = (m - 1) - N /\ m - 1 = z + N
      <4>1. (m - 1) - N \in Nat /\ m - 1 = ((m - 1) - N) + N
        BY <2>1, <2>8
      <4>. QED
        BY <4>1
    <3>2. ASSUME NEW j \in 1 .. z PROVE front[j] = "0"
      <4>1. j \in 1 .. m - 1 /\ j \in 1 .. B /\ B - j + 1 \in (asked + 1) + N + 1 .. B
        BY <2>1, <3>1
      <4>. QED
        BY <1>2, <2>6, <2>8, <4>1
    <3>3. ASSUME NEW j \in 1 .. N PROVE front[z + j] = w[N - j + 1]
      <4>1. /\ z + j \in 1 .. m - 1 /\ z + j \in 1 .. B
            /\ B - (z + j) + 1 = (asked + 1) + (N - j + 1) /\ N - j + 1 \in 1 .. N
        BY <2>1, <3>1
      <4>2. front[z + j] = b[(asked + 1) + (N - j + 1)]
        BY <1>2, <2>6, <4>1
      <4>. QED
        BY <2>8, <4>1, <4>2
    <3>4. /\ Len(front) = z + Len(w)
          /\ \A j \in 1 .. Len(w) : front[z + j] = w[Len(w) - j + 1]
      BY <1>1, <2>6, <3>1, <3>3
    <3>5. IsSequence(front) /\ \A j \in 1 .. z : front[j] = "0"
      BY <2>6, <3>2
    <3>. QED
      BY <1>10, <3>4, <3>5, ReadsAs
  <2>11. \A j \in 1 .. asked : behind[j] = p[asked - j + 1]
    <3>. SUFFICES ASSUME NEW j \in 1 .. asked PROVE behind[j] = p[asked - j + 1]
      OBVIOUS
    <3>1. m + j \in 1 .. B /\ B - (m + j) + 1 = asked - j + 1 /\ asked - j + 1 \in 1 .. asked + 1
      BY <2>1
    <3>. QED
      BY <1>2, <2>7, <2>8, <3>1
  <2>12. ReadDigits(behind, 10) = F * pow10[q]
    <3>1. PICK z \in Nat : z = asked - q - D /\ asked = z + D + q
      <4>1. asked - q - D \in Nat /\ asked = (asked - q - D) + D + q
        BY <2>9
      <4>. QED
        BY <4>1
    <3>2. ASSUME NEW j \in 1 .. z PROVE behind[j] = "0"
      <4>1. j \in 1 .. asked /\ asked - j + 1 \in q + D + 1 .. asked
        BY <3>1
      <4>. QED
        BY <2>9, <2>11, <4>1
    <3>3. ASSUME NEW j \in 1 .. D PROVE behind[z + j] = d[D - j + 1]
      <4>1. /\ z + j \in 1 .. asked /\ asked - (z + j) + 1 = q + (D - j + 1)
            /\ D - j + 1 \in 1 .. D
        BY <3>1
      <4>2. behind[z + j] = p[q + (D - j + 1)]
        BY <2>11, <4>1
      <4>. QED
        BY <2>9, <4>1, <4>2
    <3>4. ASSUME NEW j \in 1 .. q PROVE behind[z + D + j] = "0"
      <4>1. z + D + j \in 1 .. asked /\ asked - (z + D + j) + 1 \in 1 .. q
        BY <3>1
      <4>. QED
        BY <2>9, <2>11, <4>1
    <3>5. D = Len(d) /\ Len(behind) = z + D + q /\ IsSequence(behind)
      BY <1>1, <2>7, <3>1
    <3>6. Spread(behind, d, z, D, q)
      BY <3>2, <3>3, <3>4, <3>5, Zenon DEF Spread
    <3>. QED
      BY <3>6, ReadsScaled
  <2>13. ReadFixed(text).digits = W * pow10[asked] + F * pow10[q]
    BY <1>6, <2>7, <2>10, <2>12
  <2>14. ReadFixed(text).decimals = asked /\ (ReadFixed(text).minus <=> Contains(text, "-"))
    BY <1>6, <2>7
  <2>. QED
    BY <1>2, <1>13, <2>13, <2>14 DEF FixedIs, FixedReads
<1>. QED
  BY <1>12, <1>13 DEF FixedReads

-----------------------------------------------------------------------------
(* The number that _ftoa puts out.                                         *)

\* Whole part and fraction of a / den with so many decimals.
RoundTo(a, den, left) == round(a, den, IF left <= MaxPrec THEN pow10[left] ELSE BehindTable)

WholeTo(a, den, left) ==
  LET r == RoundTo(a, den, left)
  IN  IF left = 0 /\ (2 * (a - r[1] * den) >= den /\ r[1] % 2 = 1) THEN r[1] + 1 ELSE r[1]

\* Both as one number of units.
UnitsTo(a, den, left) ==
  WholeTo(a, den, left) * pow10[left] + (IF left = 0 THEN 0 ELSE RoundTo(a, den, left)[2])

\* Without decimals the whole part alone is rounded, half-way cases to an even number.
LEMMA WholeRounds ==
  ASSUME NEW a \in Nat, NEW den \in Nat \ {0}
  PROVE  /\ WholeTo(a, den, 0) \in {a \div den, a \div den + 1}
         /\ 2 * Abs(WholeTo(a, den, 0) * den - a) <= den
         /\ a = 0 => WholeTo(a, den, 0) = 0
<1>1. PICK w \in Nat, m \in 0 .. den - 1 : w = a \div den /\ m = a % den /\ a = (w * den) + m
  BY ModIs
<1>2. PICK r : r = RoundTo(a, den, 0)
  OBVIOUS
<1>3. (m * 1) \div den = 0 /\ (m * 1) % den = m
  <2>1. PICK f \in 0 .. 1 - 1, s \in 0 .. den - 1 :
          (m * 1) \div den = f /\ (m * 1) % den = s /\ m * 1 = (f * den) + s
    BY <1>1, 1 \in Nat \ {0}, FractionOf
  <2>2. f = 0
    BY <2>1
  <2>3. f * den = 0
    BY <2>2
  <2>. QED
    BY <2>1, <2>2, <2>3
<1>4. r = round(a, den, 1)
  <2>1. MaxPrec \in Nat /\ pow10[0] = 1
    BY PrintfAssumption, Powers
  <2>. QED
    BY <1>2, <2>1 DEF RoundTo
<1>5. r[1] \in {w, w + 1} /\ (r[1] = w + 1 <=> 2 * m > den)
  <2>1. r = IF 2 * m > den THEN IF 0 + 1 >= 1 THEN <<w + 1, 0>> ELSE <<w, 0 + 1>>
            ELSE IF 2 * m = den /\ (0 = 0 \/ 0 % 2 = 1) THEN <<w, 0 + 1>> ELSE <<w, 0>>
    BY <1>1, <1>3, <1>4 DEF round
  <2>2. CASE 2 * m > den
    BY <2>1, <2>2
  <2>3. CASE ~ (2 * m > den)
    BY <2>1, <2>3
  <2>. QED
    BY <2>2, <2>3
<1>6. PICK D \in Nat : D = w * den
  OBVIOUS
<1>7. (w + 1) * den = D + den
  BY <1>6
<1>8. PICK x : x = WholeTo(a, den, 0)
  OBVIOUS
<1>9. x = IF 2 * (a - r[1] * den) >= den /\ r[1] % 2 = 1 THEN r[1] + 1 ELSE r[1]
  BY <1>2, <1>8 DEF WholeTo
<1>10. \/ x = w /\ 2 * m <= den
       \/ x = w + 1 /\ 2 * m >= den
  <2>1. CASE 2 * m > den
    <3>1. r[1] = w + 1 /\ r[1] * den = D + den
      BY <1>5, <1>7, <2>1
    <3>2. ~ (2 * (a - r[1] * den) >= den)
      BY <1>1, <1>6, <3>1
    <3>. QED
      BY <1>9, <2>1, <3>1, <3>2
  <2>2. CASE ~ (2 * m > den)
    <3>1. r[1] = w /\ r[1] * den = D
      BY <1>5, <1>6, <2>2
    <3>2. a - r[1] * den = m
      BY <1>1, <1>6, <3>1
    <3>. QED
      BY <1>1, <1>9, <2>2, <3>1, <3>2
  <2>. QED
    BY <2>1, <2>2
<1>11. 2 * Abs(x * den - a) <= den
  <2>1. CASE x = w /\ 2 * m <= den
    <3>1. x * den - a = -m
      BY <1>1, <1>6, <2>1
    <3>. QED
      BY <1>1, <2>1, <3>1 DEF Abs
  <2>2. CASE x = w + 1 /\ 2 * m >= den
    <3>1. x * den - a = den - m
      BY <1>1, <1>6, <1>7, <2>2
    <3>. QED
      BY <1>1, <2>2, <3>1 DEF Abs
  <2>. QED
    BY <1>10, <2>1, <2>2
<1>12. a = 0 => x = 0
  <2>. SUFFICES ASSUME a = 0 PROVE x = 0
    OBVIOUS
  <2>1. D = 0 /\ m = 0
    BY <1>1, <1>6
  <2>2. x = w
    BY <1>1, <1>10, <2>1
  <2>3. w # 0 => D > 0
    BY <1>6
  <2>. QED
    BY <2>1, <2>2, <2>3
<1>. QED
  BY <1>1, <1>8, <1>10, <1>11, <1>12

\* With decimals the fraction is rounded and carries into the whole part.
LEMMA FractionRounds ==
  ASSUME NEW a \in Nat, NEW den \in Nat \ {0}, NEW left \in 1 .. MaxPrec,
         2 * (a % den) * pow10[left] # 2 * den * pow10[left] - den
  PROVE  /\ WholeTo(a, den, left) \in {a \div den, a \div den + 1}
         /\ RoundTo(a, den, left)[2] \in 0 .. pow10[left] - 1
         /\ 2 * Abs(UnitsTo(a, den, left) * den - a * pow10[left]) <= den
         /\ a = 0 => UnitsTo(a, den, left) = 0
<1>1. PICK w \in Nat, m \in 0 .. den - 1 : w = a \div den /\ m = a % den /\ a = (w * den) + m
  BY ModIs
<1>2. PICK r : r = RoundTo(a, den, left)
  OBVIOUS
<1>3. left \in Nat \ {0} /\ left <= MaxPrec
  BY PrintfAssumption
<1>4. PICK pow \in Nat \ {0} : pow = pow10[left]
  BY <1>3, Powers
<1>5. r = round(a, den, pow)
  BY <1>2, <1>3, <1>4 DEF RoundTo
<1>6. /\ r[1] \in Nat /\ r[2] \in 0 .. pow
      /\ 2 * Abs((r[1] * pow + r[2]) * den - a * pow) <= den
      /\ r[2] = pow => 2 * (a % den) * pow = 2 * den * pow - den
  BY <1>5, RoundIsNearest
<1>7. r[2] \in 0 .. pow - 1
  <2>1. r[2] # pow
    BY <1>4, <1>6
  <2>2. \A x \in 0 .. pow : x # pow => x \in 0 .. pow - 1
    OBVIOUS
  <2>3. r[2] \in 0 .. pow
    BY <1>6
  <2>. QED
    BY <2>1, <2>2, <2>3
<1>8. WholeTo(a, den, left) = r[1]
  BY <1>2, <1>3 DEF WholeTo
<1>9. UnitsTo(a, den, left) = r[1] * pow + r[2]
  BY <1>2, <1>3, <1>4, <1>8 DEF UnitsTo
<1>10. r[1] \in {w, w + 1}
  <2>1. PICK frac, rest : frac = ((a % den) * pow) \div den /\ rest = ((a % den) * pow) % den
    OBVIOUS
  <2>2. r = IF 2 * rest > den
            THEN IF frac + 1 >= pow THEN <<w + 1, 0>> ELSE <<w, frac + 1>>
            ELSE IF 2 * rest = den /\ (frac = 0 \/ frac % 2 = 1) THEN <<w, frac + 1>>
            ELSE <<w, frac>>
    BY <1>1, <1>5, <2>1 DEF round
  <2>3. r[1] = w + 1 \/ r[1] = w
    BY <2>2
  <2>. QED
    BY <2>3
<1>11. a = 0 => UnitsTo(a, den, left) = 0
  <2>. SUFFICES ASSUME a = 0 PROVE UnitsTo(a, den, left) = 0
    OBVIOUS
  <2>1. PICK x \in Nat : x = r[1] * pow + r[2]
    BY <1>6
  <2>2. a * pow = 0 /\ 2 * Abs(x * den) <= den
    <3>1. a * pow = 0
      OBVIOUS
    <3>2. x * den - 0 = x * den
      OBVIOUS
    <3>. QED
      BY <1>6, <2>1, <3>1, <3>2
  <2>3. x * den \in Nat /\ Abs(x * den) = x * den
    BY DEF Abs
  <2>4. x # 0 => x * den >= den
    <3>. SUFFICES ASSUME x # 0 PROVE x * den >= den
      OBVIOUS
    <3>1. PICK y \in Nat : x = y + 1
      <4>1. x - 1 \in Nat /\ x = (x - 1) + 1
        OBVIOUS
      <4>. QED
        BY <4>1
    <3>2. x * den = y * den + den /\ y * den \in Nat
      BY <3>1
    <3>. QED
      BY <3>2
  <2>. QED
    BY <1>9, <2>1, <2>2, <2>3, <2>4
<1>. QED
  BY <1>1, <1>2, <1>4, <1>6, <1>7, <1>8, <1>9, <1>10, <1>11

\* A text that is the fraction of a number: F, a number of units, and q more zeros.
FractionSays(p, asked, q, F) ==
  /\ IsSequence(p) /\ Len(p) <= asked + 1
  /\ \E d : Fraction(p, asked, q, d) /\ Says(d, F, 10) /\ AllIn(d, Decimals)

\* The decimals that _ftoa computes.
Computed(asked) == IF asked > MaxPrec THEN MaxPrec ELSE asked

LEMMA PrecLeftFits ==
  ASSUME NEW asked \in Nat, asked <= FtoaSize
  PROVE  /\ PrecLeft(asked) = Computed(asked) /\ Computed(asked) \in 0 .. MaxPrec
         /\ asked - Computed(asked) \in Nat /\ (Computed(asked) = 0 <=> asked = 0)
<1>1. MaxPrec \in Nat \ {0} /\ FtoaSize \in Nat
  BY PrintfAssumption
<1>2. CASE asked > MaxPrec
  <2>1. ~(asked - MaxPrec > FtoaSize) /\ AtLeast0(asked - MaxPrec) = asked - MaxPrec
    BY <1>1, <1>2 DEF AtLeast0
  <2>. QED
    BY <1>1, <1>2, <2>1 DEF PrecLeft, Computed
<1>3. CASE ~(asked > MaxPrec)
  <2>1. ~(asked - MaxPrec > FtoaSize) /\ AtLeast0(asked - MaxPrec) = 0
    BY <1>1, <1>3 DEF AtLeast0
  <2>. QED
    BY <1>1, <1>3, <2>1 DEF PrecLeft, Computed
<1>. QED
  BY <1>2, <1>3

\* What is written of the fraction before the whole part.
FractionPart(F, left, fl) ==
  LET count == left - NumDigits(F, 10, FtoaSize)
      zeros == Times("0", IF count < 0 THEN FtoaSize ELSE count)
  IN  IF left = 0 THEN <<>> ELSE Digits(F, 10, FtoaSize, fl) \o zeros \o <<".">>

LEMMA FractionPut ==
  ASSUME NEW asked \in Nat, asked + 1 <= FtoaSize, NEW left \in Nat, left = Computed(asked),
         NEW F, left # 0 => F \in 0 .. pow10[left] - 1, NEW fl,
         NEW p, p = Put(Times("0", asked - left), FractionPart(F, left, fl), FtoaSize)
  PROVE  FractionSays(p, asked, asked - left, IF left = 0 THEN 0 ELSE F)
<1>1. FtoaSize \in Nat \ {0} /\ asked <= FtoaSize
  BY PrintfAssumption
<1>2. asked - left \in Nat /\ left <= asked /\ (left = 0 <=> asked = 0)
  BY <1>1, PrecLeftFits
<1>3. PICK q \in Nat : q = asked - left /\ asked = q + left
  BY <1>2
<1>4. PICK z : z = Times("0", q)
  OBVIOUS
<1>5. IsSequence(z) /\ Len(z) = q
  <2>1. AtLeast0(q) = q /\ q \in Int
    BY DEF AtLeast0
  <2>. QED
    BY <1>4, <2>1, TimesLaws
<1>6. PICK none : none = <<>>
  OBVIOUS
<1>7. IsSequence(none) /\ Len(none) = 0 /\ Says(none, 0, 10)
  BY <1>6, None, NoneSays, 10 \in Bases DEF Bases
<1>8. CASE left = 0
  <2>1. q = 0 /\ asked = 0
    BY <1>2, <1>3, <1>8
  <2>2. p = Put(z, none, FtoaSize)
    BY <1>3, <1>4, <1>6, <1>8 DEF FractionPart
  <2>3. p = z \o none /\ IsSequence(z \o none) /\ Len(z \o none) = Len(z) + Len(none)
    <3>1. Len(z) + Len(none) <= FtoaSize /\ FtoaSize \in Nat
      BY <1>1, <1>5, <1>7, <2>1
    <3>2. p = z \o none
      BY <1>5, <1>7, <2>2, <3>1, PutAll
    <3>3. IsSequence(z \o none) /\ Len(z \o none) = Len(z) + Len(none)
      BY <1>5, <1>7, Joined
    <3>. QED
      BY <3>2, <3>3
  <2>4. IsSequence(p) /\ Len(p) = 0
    BY <1>5, <1>7, <2>1, <2>3
  <2>5. Fraction(p, asked, q, none)
    BY <2>1, <2>4 DEF Fraction
  <2>6. AllIn(none, Decimals)
    BY <1>7 DEF AllIn
  <2>7. FractionSays(p, asked, q, 0)
    BY <1>7, <2>1, <2>4, <2>5, <2>6 DEF FractionSays
  <2>. QED
    BY <1>3, <1>8, <2>7
<1>9. CASE left # 0
  <2>1. PICK f \in Nat : f = F /\ f < pow10[left]
    <3>1. pow10[left] \in Nat
      BY Powers
    <3>. QED
      BY <1>9, <3>1
  <2>2. left \in Nat \ {0} /\ left <= FtoaSize /\ left < FtoaSize
    BY <1>1, <1>2, <1>9
  <2>3. PICK N \in 1 .. FtoaSize : N = NumDigits(f, 10, FtoaSize) /\ N <= left
    BY <1>1, <2>1, <2>2, FewDigits, NumDigitsIs
  <2>4. PICK d : d = Digits(f, 10, FtoaSize, fl)
    OBVIOUS
  <2>5. IsSequence(d) /\ Len(d) = N /\ Says(d, f, 10)
    <3>1. NumDigits(f, 10, FtoaSize) < FtoaSize
      BY <1>1, <2>2, <2>3
    <3>. QED
      BY <1>1, <2>3, <2>4, <3>1, DigitsIs, DigitsSay, 10 \in Bases DEF Bases
  <2>6. AllIn(d, Decimals)
    BY <1>1, <2>4, <2>5, DecimalDigits DEF AllIn
  <2>7. PICK r : r = (d \o Times("0", left - N)) \o <<".">>
    OBVIOUS
  <2>8. FractionPart(F, left, fl) = r
    <3>1. ~(left - N < 0)
      BY <2>2, <2>3
    <3>. QED
      BY <1>9, <2>1, <2>3, <2>4, <2>7, <3>1 DEF FractionPart
  <2>9. IsSequence(r) /\ Len(r) = left + 1
    <3>1. left - N \in Int /\ AtLeast0(left - N) = left - N
      BY <2>2, <2>3 DEF AtLeast0
    <3>2. PICK t : t = Times("0", left - N)
      OBVIOUS
    <3>3. IsSequence(t) /\ Len(t) = left - N
      BY <3>1, <3>2, TimesLaws
    <3>4. PICK c : c = <<".">>
      OBVIOUS
    <3>5. IsSequence(c) /\ Len(c) = 1
      BY <3>4, Single
    <3>6. IsSequence(d \o t) /\ Len(d \o t) = Len(d) + Len(t)
      BY <2>5, <3>3, Joined
    <3>7. IsSequence((d \o t) \o c) /\ Len((d \o t) \o c) = Len(d \o t) + Len(c)
      BY <3>5, <3>6, Joined
    <3>8. Len((d \o t) \o c) = (N + (left - N)) + 1 /\ (N + (left - N)) + 1 = left + 1
      BY <2>2, <2>3, <2>5, <3>3, <3>5, <3>6, <3>7
    <3>. QED
      BY <2>7, <3>2, <3>4, <3>7, <3>8
  <2>10. p = z \o r /\ IsSequence(p) /\ Len(p) = asked + 1
    <3>0. q + (left + 1) = asked + 1 /\ q + (left + 1) <= FtoaSize
      BY <1>1, <1>3
    <3>1. Len(z) + Len(r) <= FtoaSize /\ q + (left + 1) = asked + 1
      BY <1>5, <2>9, <3>0
    <3>2. p = Put(z, r, FtoaSize)
      BY <1>3, <1>4, <2>8
    <3>3. p = z \o r
      BY <1>1, <1>5, <2>9, <3>1, <3>2, PutAll
    <3>4. IsSequence(z \o r) /\ Len(z \o r) = Len(z) + Len(r)
      BY <1>5, <2>9, Joined
    <3>. QED
      BY <1>5, <2>9, <3>1, <3>3, <3>4
  <2>11. p = Times("0", q) \o ((d \o Times("0", left - Len(d))) \o <<".">>)
    BY <1>4, <2>5, <2>7, <2>10
  <2>12. Fraction(p, q + left, q, d)
    BY <2>2, <2>3, <2>5, <2>11, FractionText
  <2>13. FractionSays(p, asked, q, f)
    <3>1. Fraction(p, asked, q, d) /\ Len(p) <= asked + 1
      BY ONLY <1>1, <1>3, <2>10, <2>12, asked \in Nat
    <3>. QED
      BY <2>5, <2>6, <2>10, <3>1 DEF FractionSays
  <2>. QED
    BY <1>3, <1>9, <2>1, <2>13
<1>. QED
  BY <1>8, <1>9

\* A text that is x, a number of units, with left decimals and zeros up to those that are
\* asked for.
SaysFixed(text, x, asked, left, minus) ==
  FixedIs(text, x * pow10[asked - left], asked, minus)

\* The sign of a number, and the width that it leaves.
SignOf(num, fl) == Sign(num < 0, fl)

WidthLess(w, num, fl) == LessSign(w, num < 0, fl)

\* A number with its fraction, zeros and sign between blanks.
LEMMA FramedSays ==
  ASSUME NEW asked \in Nat, NEW left \in Nat, left = Computed(asked), left <= asked,
         left = 0 <=> asked = 0, NEW F \in Nat, NEW W \in Nat, NEW p, NEW ds, NEW b,
         FractionSays(p, asked, asked - left, F), Placed(b, p, ds), Says(ds, W, 10),
         AllIn(ds, Decimals), NEW num \in Int, NEW fl, NEW sign,
         sign = SignOf(num, fl), NEW w \in Nat, NEW text, text = out_rev(b \o sign, w, fl)
  PROVE  SaysFixed(text, W * pow10[left] + (IF left = 0 THEN 0 ELSE F), asked, left, num < 0)
<1>1. PICK q \in Nat : q = asked - left /\ asked = left + q
  <2>1. asked - left \in Nat /\ asked = left + (asked - left)
    OBVIOUS
  <2>. QED
    BY <2>1
<1>2. PICK d : Fraction(p, asked, q, d) /\ Says(d, F, 10) /\ AllIn(d, Decimals)
  BY <1>1 DEF FractionSays
<1>3. /\ IsSequence(sign) /\ \A i \in 1 .. Len(sign) : sign[i] \in Blanks
      /\ num < 0 <=> \E i \in 1 .. Len(sign) : sign[i] = "-"
  <2>1. (num < 0) \in BOOLEAN
    OBVIOUS
  <2>. QED
    BY <2>1, SignIs, SignChars, Zenon DEF SignOf
<1>4. IsSequence(b)
  BY DEF Placed
<1>5. PICK all : all = b \o sign
  OBVIOUS
<1>6. IsSequence(all)
  BY <1>3, <1>4, <1>5, Joined
<1>7. PICK f, k : f = InFront(all, w, fl) /\ k = Behind(all, w, fl)
  OBVIOUS
<1>8. /\ text = (f \o Reverse(all)) \o k
      /\ IsSequence(f) /\ IsSequence(k) /\ AllBlank(f) /\ AllBlank(k)
  BY ONLY <1>5, <1>6, <1>7, w \in Nat, text = out_rev(b \o sign, w, fl), AlignedIs
<1>9. \A i \in 1 .. Len(b) : b[i] \in Decimals \/ b[i] = "."
  BY <1>2, PlacedChars
<1>10. \A c : c \in Decimals \/ c = "." => c \notin Blanks
  BY DEF Decimals, Blanks
<1>11. Framed(text, f, b, sign, k)
  BY <1>3, <1>4, <1>5, <1>8, <1>9, <1>10 DEF Framed
<1>12. FixedIs(text, W * pow10[asked] + (IF asked = 0 THEN 0 ELSE F * pow10[q]), asked,
               \E i \in 1 .. Len(sign) : sign[i] = "-")
  <2>1. /\ Fraction(p, asked, q, d) /\ Placed(b, p, ds) /\ Says(d, F, 10) /\ Says(ds, W, 10)
        /\ AllIn(d, Decimals) /\ AllIn(ds, Decimals) /\ Framed(text, f, b, sign, k)
    BY <1>2, <1>11
  <2>2. FixedReads(text, W, F, asked, q, sign)
    BY <2>1, FixedSays, asked \in Nat, q \in Nat, F \in Nat, W \in Nat, Zenon
  <2>. QED
    BY <2>2 DEF FixedReads
<1>13. W * pow10[asked] + (IF asked = 0 THEN 0 ELSE F * pow10[q])
         = (W * pow10[left] + (IF left = 0 THEN 0 ELSE F)) * pow10[asked - left]
  <2>1. pow10[left + q] = pow10[left] * pow10[q]
    BY PowerSum
  <2>2. PICK x \in Nat, y \in Nat : x = pow10[left] /\ y = pow10[q]
    BY Powers
  <2>3. \A u, s \in Nat : u * (x * y) + s * y = (u * x + s) * y
    BY <2>2
  <2>4. W * (x * y) + F * y = (W * x + F) * y
    BY <2>3
  <2>5. W * (x * y) + 0 * y = (W * x + 0) * y
    BY <2>3
  <2>6. 0 * y = 0
    BY <2>2
  <2>. QED
    BY <1>1, <2>1, <2>2, <2>4, <2>5, <2>6
<1>14. FixedIs(text, (W * pow10[left] + (IF left = 0 THEN 0 ELSE F)) * pow10[asked - left],
               asked, num < 0)
  <2>1. (\E i \in 1 .. Len(sign) : sign[i] = "-") <=> num < 0
    BY <1>3
  <2>. QED
    BY <1>12, <1>13, <2>1, Zenon DEF FixedIs
<1>. QED
  BY <1>14 DEF SaysFixed

\* Zeros and a sign of s characters have room behind n characters.
SignFits(n, w, w1, s, fl) ==
  /\ w1 \in Nat /\ s \in 0 .. 1 /\ n + s <= FtoaSize
  /\ "zero" \in fl /\ "left" \notin fl /\ w <= FtoaSize =>
       w1 <= FtoaSize /\ Larger(w1, n) + s <= FtoaSize

LEMMA RoomForSign ==
  ASSUME NEW n \in Nat, n + 1 <= FtoaSize, NEW w \in Nat, NEW num \in Int, NEW fl
  PROVE  SignFits(n, w, WidthLess(w, num, fl), Len(SignOf(num, fl)), fl)
<1>s. PICK w1, s : w1 = WidthLess(w, num, fl) /\ s = Len(SignOf(num, fl))
  OBVIOUS
<1>1. /\ s \in 0 .. 1 /\ (SignOf(num, fl) # <<>> => s = 1)
      /\ (SignOf(num, fl) = <<>> => s = 0)
  BY <1>s, SignIs, None, Zenon DEF SignOf
<1>2. w1 \in Nat /\ w1 <= w
  BY <1>s, LessSignIs, Zenon DEF WidthLess
<1>3. FtoaSize \in Nat \ {0}
  BY PrintfAssumption
<1>4. "zero" \in fl /\ "left" \notin fl => w1 = IF w > 0 /\ s = 1 THEN w - 1 ELSE w
  <2>1. (SignOf(num, fl) # <<>>) <=> s = 1
    BY <1>1
  <2>. QED
    BY <1>s, <2>1, Zenon DEF WidthLess, LessSign, SignOf
<1>5. n + s <= FtoaSize
  BY <1>1, <1>3
<1>6. ASSUME "zero" \in fl, "left" \notin fl, w <= FtoaSize
      PROVE  w1 <= FtoaSize /\ Larger(w1, n) + s <= FtoaSize
  <2>1. w1 <= FtoaSize
    BY <1>2, <1>3, <1>6
  <2>2. CASE w1 > n
    <3>1. w > 0
      BY <1>2, <2>2
    <3>2. w1 + s <= FtoaSize
      <4>1. CASE s = 1
        <5>1. w1 = w - 1
          BY <1>4, <1>6, <3>1, <4>1
        <5>. QED
          BY <1>3, <1>6, <4>1, <5>1
      <4>2. CASE s = 0
        BY <1>2, <1>3, <1>6, <4>2
      <4>. QED
        BY <1>1, <4>1, <4>2
    <3>. QED
      BY <2>1, <2>2, <3>2 DEF Larger
  <2>3. CASE ~(w1 > n)
    BY <1>5, <2>1, <2>3 DEF Larger
  <2>. QED
    BY <2>2, <2>3
<1>. QED
  BY <1>1, <1>2, <1>5, <1>6, <1>s DEF SignFits

\* The text of _ftoa, in these terms.
FixedOf(num, den, a, asked, left, w, fl) ==
  LET number == Put(Put(Times("0", asked - left), FractionPart(RoundTo(a, den, left)[2], left, fl),
                        FtoaSize),
                    Digits(WholeTo(a, den, left), 10, FtoaSize, fl), FtoaSize)
      w1 == WidthLess(w, num, fl)
      padded == IF "left" \in fl \/ "zero" \notin fl THEN number
                ELSE Put(number, Times("0", w1 - Len(number)), FtoaSize)
  IN  out_rev(Put(padded, SignOf(num, fl), FtoaSize), w1, fl)

LEMMA FtoaIsFixedOf ==
  ASSUME NEW v, NEW prec, NEW w, NEW fl
  PROVE  ftoa_fixed(v, prec, w, fl)
           = FixedOf(v.num, v.den, Abs(v.num), Wanted(prec, fl), PrecLeft(Wanted(prec, fl)), w, fl)
  BY Zenon DEF ftoa_fixed, FixedOf, FractionPart, WholeTo, RoundTo, WidthLess, SignOf, Abs, Wanted

\* The text of _ftoa is the rounded number, if it fits.
LEMMA FtoaSays ==
  ASSUME NEW v, v.num \in Int, v.den \in Nat \ {0}, NEW a \in Nat, a = Abs(v.num),
         NEW prec \in Nat, NEW w \in Nat, NEW fl, NEW asked \in Nat, asked = Wanted(prec, fl),
         NEW left \in Nat, left = Computed(asked), NEW N, N = NumDigits(a \div v.den, 10, FtoaSize),
         asked + N + 3 <= FtoaSize, "zero" \in fl /\ "left" \notin fl => w <= FtoaSize,
         left # 0 => 2 * (a % v.den) * pow10[left] # 2 * v.den * pow10[left] - v.den,
         NEW text, text = ftoa_fixed(v, prec, w, fl)
  PROVE  SaysFixed(text, UnitsTo(a, v.den, left), asked, left, v.num < 0)
<1>1. FtoaSize \in Nat \ {0}
  BY PrintfAssumption
<1>2. PICK den \in Nat \ {0} : den = v.den
  OBVIOUS
<1>3. PICK whole \in Nat : whole = a \div den
  BY <1>2, ModIs
<1>4. N \in 1 .. FtoaSize /\ N = NumDigits(whole, 10, FtoaSize)
  BY <1>1, <1>2, <1>3, NumDigitsIs
<1>5. /\ asked <= FtoaSize /\ asked + 1 <= FtoaSize /\ N + 1 < FtoaSize
      /\ (asked + 1) + (N + 1) + 1 <= FtoaSize
  BY <1>1, <1>4
<1>6. /\ PrecLeft(asked) = left /\ left \in 0 .. MaxPrec /\ left <= asked
      /\ left = 0 <=> asked = 0
  BY <1>5, PrecLeftFits
<1>7. PICK W, F : W = WholeTo(a, den, left) /\ F = RoundTo(a, den, left)[2]
  OBVIOUS
<1>8. W \in {whole, whole + 1} /\ W \in Nat /\ (left # 0 => F \in 0 .. pow10[left] - 1)
  <2>1. CASE left = 0
    <3>1. W = WholeTo(a, den, 0)
      BY <1>7, <2>1
    <3>2. WholeTo(a, den, 0) \in {a \div den, a \div den + 1}
      BY WholeRounds
    <3>. QED
      BY <1>3, <2>1, <3>1, <3>2
  <2>2. CASE left # 0
    <3>1. left \in 1 .. MaxPrec
      BY <1>6, <2>2
    <3>2. 2 * (a % den) * pow10[left] # 2 * den * pow10[left] - den
      BY <1>2, <2>2
    <3>3. /\ WholeTo(a, den, left) \in {a \div den, a \div den + 1}
          /\ RoundTo(a, den, left)[2] \in 0 .. pow10[left] - 1
      BY <3>1, <3>2, FractionRounds
    <3>. QED
      BY <1>3, <1>7, <3>3
  <2>. QED
    BY <2>1, <2>2
<1>9. PICK p : p = Put(Times("0", asked - left), FractionPart(F, left, fl), FtoaSize)
  OBVIOUS
<1>10. PICK F0 \in Nat : F0 = IF left = 0 THEN 0 ELSE F
  <2>1. (IF left = 0 THEN 0 ELSE F) \in Nat
    <3>1. \A n \in Nat : \A x \in 0 .. n - 1 : x \in Nat
      OBVIOUS
    <3>2. pow10[left] \in Nat
      BY Powers
    <3>. QED
      BY <1>8, <3>1, <3>2
  <2>. QED
    BY <2>1
<1>11. FractionSays(p, asked, asked - left, F0)
  BY <1>5, <1>8, <1>9, <1>10, FractionPut
<1>12. IsSequence(p) /\ Len(p) \in Nat /\ Len(p) <= asked + 1
  BY <1>11, SeqLaws DEF FractionSays
<1>13. PICK ds : ds = Digits(W, 10, FtoaSize, fl)
  OBVIOUS
<1>14. IsSequence(ds) /\ Len(ds) \in Nat /\ Len(ds) <= N + 1 /\ Says(ds, W, 10) /\ AllIn(ds, Decimals)
  <2>1. NumDigits(W, 10, FtoaSize) <= N + 1
    BY <1>1, <1>4, <1>5, <1>8, OneMoreDigit
  <2>2. NumDigits(W, 10, FtoaSize) \in Nat /\ NumDigits(W, 10, FtoaSize) < FtoaSize
    BY <1>1, <1>4, <1>5, <2>1, NumDigitsIs
  <2>3. IsSequence(ds) /\ Len(ds) = NumDigits(W, 10, FtoaSize)
    BY <1>1, <1>13, DigitsIs
  <2>4. Says(ds, W, 10)
    BY <1>1, <1>8, <1>13, <2>2, DigitsSay, 10 \in Bases DEF Bases
  <2>5. AllIn(ds, Decimals)
    BY <1>1, <1>8, <1>13, <2>3, DecimalDigits DEF AllIn
  <2>. QED
    BY <2>1, <2>2, <2>3, <2>4, <2>5
<1>15. PICK number : number = Put(p, ds, FtoaSize)
  OBVIOUS
<1>16. /\ Placed(number, p, ds) /\ IsSequence(number) /\ Len(number) \in Nat
       /\ Len(number) + 1 <= FtoaSize
  <2>1. Len(p) + Len(ds) \in Nat /\ Len(p) + Len(ds) + 1 <= FtoaSize /\ Len(p) + Len(ds) <= FtoaSize
    <3>1. \A x, y \in Nat : x <= asked + 1 /\ y <= N + 1 =>
            x + y \in Nat /\ x + y + 1 <= FtoaSize /\ x + y <= FtoaSize
      BY <1>1, <1>4, <1>5
    <3>. QED
      BY <1>12, <1>14, <3>1
  <2>2. number = p \o ds
    BY <1>1, <1>12, <1>14, <1>15, <2>1, PutAll
  <2>3. IsSequence(p \o ds) /\ Len(p \o ds) = Len(p) + Len(ds)
    BY <1>12, <1>14, Joined
  <2>. QED
    BY <1>12, <1>14, <2>1, <2>2, <2>3, PlacedJoin
<1>18. PICK sign : sign = SignOf(v.num, fl)
  OBVIOUS
<1>19. PICK w1 : w1 = WidthLess(w, v.num, fl)
  OBVIOUS
<1>20. /\ w1 \in Nat /\ Len(sign) \in 0 .. 1 /\ Len(number) + Len(sign) <= FtoaSize
       /\ "zero" \in fl /\ "left" \notin fl =>
            w1 <= FtoaSize /\ Larger(w1, Len(number)) + Len(sign) <= FtoaSize
  <2>1. PICK n \in Nat : n = Len(number) /\ n + 1 <= FtoaSize
    BY <1>16
  <2>. QED
    <3>1. SignFits(n, w, WidthLess(w, v.num, fl), Len(SignOf(v.num, fl)), fl)
      BY <2>1, RoomForSign
    <3>. QED
      BY <1>18, <1>19, <2>1, <3>1 DEF SignFits
<1>21. PICK padded : padded = IF "left" \in fl \/ "zero" \notin fl THEN number
                              ELSE Put(number, Times("0", w1 - Len(number)), FtoaSize)
  OBVIOUS
<1>22. /\ Placed(padded, p, ds) /\ IsSequence(padded) /\ Len(padded) + Len(sign) <= FtoaSize
  <2>1. CASE "left" \in fl \/ "zero" \notin fl
    BY <1>16, <1>20, <1>21, <2>1
  <2>2. CASE "left" \notin fl /\ "zero" \in fl
    <3>1. padded = Put(number, Times("0", w1 - Len(number)), FtoaSize)
      BY <1>21, <2>2
    <3>2. w1 \in Int /\ w1 <= FtoaSize /\ Len(number) <= FtoaSize /\ FtoaSize \in Nat
      BY <1>1, <1>16, <1>20, <2>2
    <3>3. Placed(padded, p, ds) /\ Len(padded) = Larger(w1, Len(number))
      <4>1. PaddedTo(padded, number, w1, FtoaSize)
        BY <3>1, <3>2 DEF PaddedTo
      <4>. QED
        BY <1>12, <1>14, <1>16, <4>1, PlacedPad
    <3>. QED
      BY <1>20, <2>2, <3>3 DEF Placed
  <2>. QED
    BY <2>1, <2>2
<1>23. text = out_rev(padded \o sign, w1, fl)
  <2>1. IsSequence(sign)
    BY <1>18, SignIs, Zenon DEF SignOf
  <2>2. Put(padded, sign, FtoaSize) = padded \o sign
    BY <1>1, <1>22, <2>1, PutAll
  <2>3. text = out_rev(Put(padded, sign, FtoaSize), w1, fl)
    <3>1. text = FixedOf(v.num, den, a, asked, left, w, fl)
      BY <1>2, <1>6, FtoaIsFixedOf
    <3>. QED
      BY ONLY <1>7, <1>9, <1>13, <1>15, <1>18, <1>19, <1>21, <3>1, Zenon DEF FixedOf
  <2>. QED
    BY <2>2, <2>3
<1>24. SaysFixed(text, W * pow10[left] + (IF left = 0 THEN 0 ELSE F0), asked, left, v.num < 0)
  BY ONLY <1>6, <1>8, <1>10, <1>11, <1>14, <1>18, <1>20, <1>22, <1>23, asked \in Nat, left \in Nat,
          left = Computed(asked), v.num \in Int, SMTT(30), FramedSays
<1>25. UnitsTo(a, den, left) = W * pow10[left] + (IF left = 0 THEN 0 ELSE F0)
  BY <1>7, <1>10 DEF UnitsTo
<1>. QED
  BY <1>2, <1>24, <1>25

\* The characters of a number without exponent.
FixedChars == Decimals \cup {".", " ", "+", "-"}

LEMMA PutIn ==
  ASSUME NEW X, NEW b, NEW s, AllIn(b, X), AllIn(s, X), NEW size \in Nat
  PROVE  AllIn(Put(b, s, size), X)
<1>1. IsSequence(b) /\ IsSequence(s) /\ Len(b) \in Nat /\ Len(s) \in Nat
  BY SeqLaws DEF AllIn
<1>2. /\ IsSequence(b \o s) /\ Len(b \o s) = Len(b) + Len(s) /\ AllIn(b \o s, X)
  BY <1>1, Joined, JoinedIn
<1>3. PICK t : t = Put(b, s, size)
  OBVIOUS
<1>4. /\ IsSequence(t) /\ Len(t) <= size
      /\ Len(b) + Len(s) <= size => Len(t) = Len(b) + Len(s)
      /\ Len(b) + Len(s) > size => Len(t) = size
      /\ \A i \in 1 .. Len(t) : t[i] = (b \o s)[i]
  BY <1>1, <1>3, PutLaws
<1>5. Len(t) <= Len(b) + Len(s)
  BY <1>1, <1>4
<1>6. ASSUME NEW i \in 1 .. Len(t) PROVE t[i] \in X
  <2>1. i \in 1 .. Len(b \o s)
    BY <1>1, <1>2, <1>4, <1>5, SeqLaws
  <2>. QED
    BY <1>2, <1>4, <2>1 DEF AllIn
<1>. QED
  BY <1>3, <1>4, <1>6 DEF AllIn

LEMMA TimesIn ==
  ASSUME NEW X, NEW c \in X, NEW n \in Int
  PROVE  AllIn(Times(c, n), X)
<1>1. /\ IsSequence(Times(c, n)) /\ Len(Times(c, n)) = AtLeast0(n)
      /\ \A i \in 1 .. AtLeast0(n) : Times(c, n)[i] = c
  BY TimesLaws
<1>. QED
  BY <1>1 DEF AllIn

LEMMA SingleIn ==
  ASSUME NEW X, NEW c \in X
  PROVE  AllIn(<<c>>, X)
<1>1. PICK s : s = <<c>>
  OBVIOUS
<1>2. IsSequence(s) /\ Len(s) = 1 /\ s[1] = c
  BY <1>1, Single
<1>3. \A i \in 1 .. Len(s) : i = 1
  BY <1>2
<1>4. AllIn(s, X)
  BY <1>2, <1>3 DEF AllIn
<1>. QED
  BY <1>1, <1>4

LEMMA NoneIn == ASSUME NEW X PROVE AllIn(<<>>, X)
<1>1. PICK s : s = <<>>
  OBVIOUS
<1>2. IsSequence(s) /\ Len(s) = 0
  BY <1>1, None
<1>3. AllIn(s, X)
  BY <1>2 DEF AllIn
<1>. QED
  BY <1>1, <1>3

LEMMA DigitsIn ==
  ASSUME NEW n \in Nat, NEW fl
  PROVE  AllIn(Digits(n, 10, FtoaSize, fl), FixedChars)
<1>1. FtoaSize \in Nat \ {0}
  BY PrintfAssumption
<1>2. PICK d : d = Digits(n, 10, FtoaSize, fl)
  OBVIOUS
<1>3. IsSequence(d) /\ \A i \in 1 .. Len(d) : d[i] \in Decimals
  BY <1>1, <1>2, DigitsIs, DecimalDigits
<1>. QED
  BY <1>2, <1>3 DEF AllIn, FixedChars

LEMMA BlanksIn ==
  ASSUME NEW t, IsSequence(t), AllBlank(t)
  PROVE  AllIn(t, FixedChars)
<1>1. " " \in FixedChars
  BY DEF FixedChars
<1>. QED
  BY <1>1 DEF AllIn, AllBlank

LEMMA SignIn ==
  ASSUME NEW num \in Int, NEW fl
  PROVE  AllIn(SignOf(num, fl), FixedChars)
<1>1. PICK sign : sign = SignOf(num, fl)
  OBVIOUS
<1>2. (num < 0) \in BOOLEAN
  OBVIOUS
<1>3. IsSequence(sign) /\ \A i \in 1 .. Len(sign) : sign[i] \in Blanks
  BY <1>1, <1>2, SignIs, SignChars, Zenon DEF SignOf
<1>4. \A c \in Blanks : c \in FixedChars
  BY DEF Blanks, FixedChars
<1>5. AllIn(sign, FixedChars)
  BY <1>3, <1>4 DEF AllIn
<1>. QED
  BY <1>1, <1>5

\* What _ftoa rounds to are natural numbers, whatever it takes for a power of ten.
LEMMA RoundNat ==
  ASSUME NEW a \in Nat, NEW den \in Nat \ {0}, NEW left \in Nat
  PROVE  WholeTo(a, den, left) \in Nat /\ RoundTo(a, den, left)[2] \in Nat
<1>1. PICK pow \in Nat \ {0} : pow = IF left <= MaxPrec THEN pow10[left] ELSE BehindTable
  <2>1. pow10[left] \in Nat \ {0} /\ BehindTable \in Nat \ {0}
    BY Powers, PrintfAssumption
  <2>. QED
    BY <2>1
<1>2. PICK r : r = round(a, den, pow)
  OBVIOUS
<1>3. r[1] \in Nat /\ r[2] \in 0 .. pow
  BY <1>2, RoundIsNearest
<1>4. r[2] \in Nat
  BY <1>3
<1>5. RoundTo(a, den, left) = r
  BY <1>1, <1>2 DEF RoundTo
<1>6. WholeTo(a, den, left) = r[1] \/ WholeTo(a, den, left) = r[1] + 1
  BY <1>5, Zenon DEF WholeTo
<1>. QED
  BY <1>3, <1>4, <1>5, <1>6

\* _ftoa writes digits, a point, a sign and blanks.
LEMMA FtoaChars ==
  ASSUME NEW v, v.num \in Int, v.den \in Nat \ {0}, NEW prec \in Nat, NEW w \in Nat, NEW fl
  PROVE  AllIn(ftoa_fixed(v, prec, w, fl), FixedChars)
<1>1. PICK a \in Nat : a = Abs(v.num)
  <2>1. Abs(v.num) \in Nat
    BY DEF Abs
  <2>. QED
    BY <2>1
<1>2. PICK den \in Nat \ {0}, num \in Int : den = v.den /\ num = v.num
  OBVIOUS
<1>3. PICK asked \in Nat : asked = Wanted(prec, fl)
  <2>1. Wanted(prec, fl) \in Nat
    BY PrintfAssumption DEF Wanted
  <2>. QED
    BY <2>1
<1>4. FtoaSize \in Nat /\ FtoaSize \in Nat \ {0}
  BY PrintfAssumption
<1>5. PICK left \in Nat : left = PrecLeft(asked)
  <2>1. PrecLeft(asked) \in Nat
    BY PrintfAssumption DEF PrecLeft, AtLeast0
  <2>. QED
    BY <2>1
<1>6. PICK text : text = FixedOf(num, den, a, asked, left, w, fl)
  OBVIOUS
<1>7. ftoa_fixed(v, prec, w, fl) = text
  BY <1>1, <1>2, <1>3, <1>5, <1>6, FtoaIsFixedOf
<1>8. PICK W \in Nat, F \in Nat : W = WholeTo(a, den, left) /\ F = RoundTo(a, den, left)[2]
  BY RoundNat
<1>9. "0" \in FixedChars /\ "." \in FixedChars
  BY DEF FixedChars, Decimals
<1>10. AllIn(FractionPart(F, left, fl), FixedChars)
  <2>1. PICK N \in Int : N = NumDigits(F, 10, FtoaSize)
    <3>1. NumDigits(F, 10, FtoaSize) \in Int
      BY <1>4, NumDigitsIs
    <3>. QED
      BY <3>1
  <2>2. PICK m \in Int : m = IF left - N < 0 THEN FtoaSize ELSE left - N
    <3>1. (IF left - N < 0 THEN FtoaSize ELSE left - N) \in Int
      BY <1>4
    <3>. QED
      BY <3>1
  <2>3. AllIn((Digits(F, 10, FtoaSize, fl) \o Times("0", m)) \o <<".">>, FixedChars)
    BY <1>9, DigitsIn, TimesIn, SingleIn, JoinedIn
  <2>4. AllIn(<<>>, FixedChars)
    BY NoneIn
  <2>. QED
    BY <2>1, <2>2, <2>3, <2>4 DEF FractionPart
<1>11. PICK number : number = Put(Put(Times("0", asked - left), FractionPart(F, left, fl), FtoaSize),
                                  Digits(W, 10, FtoaSize, fl), FtoaSize)
  OBVIOUS
<1>12. AllIn(number, FixedChars)
  <2>1. AllIn(Times("0", asked - left), FixedChars)
    BY <1>9, TimesIn, asked - left \in Int
  <2>. QED
    BY <1>4, <1>10, <1>11, <2>1, DigitsIn, PutIn
<1>13. PICK w1 \in Nat : w1 = WidthLess(w, num, fl)
  <2>1. WidthLess(w, num, fl) \in Nat
    BY LessSignIs, Zenon DEF WidthLess
  <2>. QED
    BY <2>1
<1>14. PICK padded : padded = IF "left" \in fl \/ "zero" \notin fl THEN number
                              ELSE Put(number, Times("0", w1 - Len(number)), FtoaSize)
  OBVIOUS
<1>15. AllIn(padded, FixedChars)
  <2>1. w1 - Len(number) \in Int
    BY <1>12, SeqLaws DEF AllIn
  <2>2. AllIn(Times("0", w1 - Len(number)), FixedChars)
    BY <1>9, <2>1, TimesIn
  <2>3. AllIn(Put(number, Times("0", w1 - Len(number)), FtoaSize), FixedChars)
    BY <1>4, <1>12, <2>2, PutIn
  <2>. QED
    BY <1>12, <1>14, <2>3
<1>16. PICK all : all = Put(padded, SignOf(num, fl), FtoaSize)
  OBVIOUS
<1>17. AllIn(all, FixedChars) /\ IsSequence(all)
  <2>1. AllIn(SignOf(num, fl), FixedChars)
    BY SignIn
  <2>2. AllIn(all, FixedChars)
    BY <1>4, <1>15, <1>16, <2>1, PutIn
  <2>. QED
    BY <2>2 DEF AllIn
<1>18. text = out_rev(all, w1, fl)
  BY <1>6, <1>8, <1>11, <1>13, <1>14, <1>16, Zenon DEF FixedOf
<1>19. PICK f, k : f = InFront(all, w1, fl) /\ k = Behind(all, w1, fl)
  OBVIOUS
<1>20. /\ text = (f \o Reverse(all)) \o k
       /\ IsSequence(f) /\ IsSequence(k) /\ AllBlank(f) /\ AllBlank(k)
  BY <1>17, <1>18, <1>19, AlignedIs
<1>21. AllIn(f, FixedChars) /\ AllIn(k, FixedChars) /\ AllIn(Reverse(all), FixedChars)
  BY <1>17, <1>20, BlanksIn, ReversedIn
<1>22. AllIn(f \o Reverse(all), FixedChars)
  BY <1>21, JoinedIn
<1>23. AllIn(text, FixedChars)
  BY <1>20, <1>21, <1>22, JoinedIn
<1>. QED
  BY <1>7, <1>23

-----------------------------------------------------------------------------
(* Mantissa and exponent.                                                  *)

LEMMA NotMarks == "e" \notin FixedChars /\ "E" \notin FixedChars
  BY DEF FixedChars, Decimals

\* A number without exponent has no mark.
LEMMA NoMark ==
  ASSUME NEW text, AllIn(text, FixedChars)
  PROVE  Mantissa(text) = text /\ ReadExponent(text) = 0
<1>1. DOMAIN text = 1 .. Len(text)
  BY SeqLaws DEF AllIn
<1>2. ExponentMarks(text) = {}
  BY <1>1, NotMarks DEF AllIn, ExponentMarks
<1>. QED
  BY <1>2, Zenon DEF Mantissa, ReadExponent

\* The number that is read behind the mark.
PowerOf(rest) ==
  IF Contains(rest, "-") THEN -ReadDigits(Unsigned(rest), 10) ELSE ReadDigits(Unsigned(rest), 10)

\* A mark behind a number without one separates it from what comes then.
LEMMA MarkSplits ==
  ASSUME NEW m, AllIn(m, FixedChars), NEW c \in {"e", "E"}, NEW rest, IsSequence(rest),
         NEW text, text = (m \o <<c>>) \o rest
  PROVE  Mantissa(text) = m /\ ReadExponent(text) = PowerOf(rest)
<1>1. IsSequence(m)
  BY DEF AllIn
<1>2. PICK mark : mark = <<c>>
  OBVIOUS
<1>3. IsSequence(mark) /\ Len(mark) = 1 /\ mark[1] = c
  BY <1>2, Single
<1>4. PICK M \in Nat, R \in Nat : M = Len(m) /\ R = Len(rest)
  BY <1>1, SeqLaws
<1>5. PICK s : s = m \o mark
  OBVIOUS
<1>6. /\ IsSequence(s) /\ Len(s) = M + 1
      /\ \A i \in 1 .. M + 1 : s[i] = IF i <= M THEN m[i] ELSE mark[i - M]
  <2>1. /\ IsSequence(m \o mark) /\ Len(m \o mark) = Len(m) + Len(mark)
        /\ \A i \in 1 .. Len(m) + Len(mark) :
             (m \o mark)[i] = IF i <= Len(m) THEN m[i] ELSE mark[i - Len(m)]
    BY <1>1, <1>3, Joined, Zenon
  <2>. QED
    BY <1>3, <1>4, <1>5, <2>1
<1>7. /\ IsSequence(text) /\ Len(text) = (M + 1) + R
      /\ \A i \in 1 .. (M + 1) + R : text[i] = IF i <= M + 1 THEN s[i] ELSE rest[i - (M + 1)]
  <2>1. /\ IsSequence(s \o rest) /\ Len(s \o rest) = Len(s) + Len(rest)
        /\ \A i \in 1 .. Len(s) + Len(rest) :
             (s \o rest)[i] = IF i <= Len(s) THEN s[i] ELSE rest[i - Len(s)]
    BY <1>6, Joined, Zenon
  <2>. QED
    BY <1>2, <1>4, <1>5, <1>6, <2>1
<1>t. IsSequence(text) /\ Len(text) = (M + 1) + R
  BY <1>7
<1>8. ASSUME NEW i \in 1 .. M PROVE text[i] = m[i] /\ text[i] \notin {"e", "E"}
  <2>1. i \in 1 .. (M + 1) + R /\ i \in 1 .. M + 1 /\ i <= M + 1 /\ i <= M
    OBVIOUS
  <2>2. text[i] = s[i]
    BY <1>7, <2>1
  <2>3. s[i] = m[i]
    BY <1>6, <2>1
  <2>4. m[i] \in FixedChars
    BY <1>4 DEF AllIn
  <2>. QED
    BY <2>2, <2>3, <2>4, NotMarks
<1>9. text[M + 1] = c
  <2>1. M + 1 \in 1 .. (M + 1) + R /\ M + 1 \in 1 .. M + 1 /\ ~(M + 1 <= M) /\ (M + 1) - M = 1
    OBVIOUS
  <2>2. text[M + 1] = s[M + 1]
    BY <1>7, <2>1
  <2>3. s[M + 1] = mark[1]
    BY <1>6, <2>1
  <2>. QED
    BY <1>3, <2>2, <2>3
<1>10. ASSUME NEW i \in 1 .. R PROVE text[(M + 1) + i] = rest[i]
  <2>1. (M + 1) + i \in 1 .. (M + 1) + R /\ ~((M + 1) + i <= M + 1) /\ ((M + 1) + i) - (M + 1) = i
    OBVIOUS
  <2>. QED
    BY <1>7, <2>1
<1>11. PICK marks : marks = ExponentMarks(text)
  OBVIOUS
<1>12. DOMAIN text = 1 .. (M + 1) + R
  BY <1>7, SeqLaws
<1>13. marks \subseteq 1 .. (M + 1) + R /\ M + 1 \in marks /\ \A i \in marks : ~(i \in 1 .. M)
  BY <1>8, <1>9, <1>11, <1>12 DEF ExponentMarks
<1>14. Min(marks) = M + 1
  <2>1. (M + 1) + R \in Nat /\ marks # {}
    BY <1>13
  <2>2. Min(marks) \in marks /\ \A i \in marks : Min(marks) <= i
    BY <1>13, <2>1, Ends
  <2>3. Min(marks) \in 1 .. (M + 1) + R /\ ~(Min(marks) \in 1 .. M) /\ Min(marks) <= M + 1
    BY <1>13, <2>2
  <2>. QED
    BY <2>3
<1>15. SubSeq(text, 1, (M + 1) - 1) = m
  <2>1. /\ 1 \in Nat \ {0} /\ M \in Nat /\ 1 <= M + 1 /\ M <= Len(text) /\ M - 1 + 1 = M
        /\ (M + 1) - 1 = M /\ \A i \in 1 .. M : 1 + i - 1 = i
    BY <1>t
  <2>2. /\ IsSequence(SubSeq(text, 1, M)) /\ Len(SubSeq(text, 1, M)) = M - 1 + 1
        /\ \A i \in 1 .. M - 1 + 1 : SubSeq(text, 1, M)[i] = text[1 + i - 1]
    BY ONLY <1>t, <2>1, Sliced
  <2>3. /\ IsSequence(SubSeq(text, 1, M)) /\ Len(SubSeq(text, 1, M)) = Len(m)
        /\ \A i \in 1 .. Len(m) : SubSeq(text, 1, M)[i] = m[i]
    BY <1>4, <1>8, <2>1, <2>2
  <2>. QED
    BY <1>1, <2>1, <2>3, SeqSame
<1>16. SubSeq(text, (M + 1) + 1, Len(text)) = rest
  <2>1. PICK L \in Nat : L = Len(text) /\ L = (M + 1) + R
    BY <1>7
  <2>2. /\ (M + 1) + 1 \in Nat \ {0} /\ (M + 1) + 1 <= L + 1 /\ L <= Len(text)
        /\ L - ((M + 1) + 1) + 1 = R /\ \A i \in 1 .. R : ((M + 1) + 1) + i - 1 = (M + 1) + i
    BY <2>1
  <2>3. PICK t : t = SubSeq(text, (M + 1) + 1, L)
    OBVIOUS
  <2>4. /\ IsSequence(t) /\ Len(t) = L - ((M + 1) + 1) + 1
        /\ \A i \in 1 .. L - ((M + 1) + 1) + 1 : t[i] = text[((M + 1) + 1) + i - 1]
    <3>1. PICK lo \in Nat \ {0} : lo = (M + 1) + 1 /\ lo <= L + 1 /\ L <= Len(text)
      BY <2>2
    <3>. QED
      BY ONLY <1>t, <2>3, <3>1, L \in Nat, lo \in Nat \ {0}, Sliced
  <2>5. /\ IsSequence(t) /\ Len(t) = Len(rest)
        /\ \A i \in 1 .. Len(rest) : t[i] = rest[i]
    <3>1. Len(t) = R /\ \A i \in 1 .. R : t[i] = text[((M + 1) + 1) + i - 1]
      BY ONLY <2>2, <2>4
    <3>2. \A i \in 1 .. R : t[i] = rest[i]
      BY <1>10, <2>2, <3>1
    <3>. QED
      BY <1>4, <2>4, <3>1, <3>2
  <2>6. t = rest
    BY <2>5, SeqSame
  <2>. QED
    BY <2>1, <2>3, <2>6
<1>17. ExponentMarks(text) # {}
  BY <1>11, <1>13
<1>. QED
  BY <1>11, <1>14, <1>15, <1>16, <1>17, Zenon DEF Mantissa, ReadExponent, PowerOf

\* What is left of a text without blanks and sign is a text.
LEMMA UnsignedSeq ==
  ASSUME NEW text, IsSequence(text)
  PROVE  IsSequence(Unsigned(text))
<1>1. PICK L \in Nat : L = Len(text)
  BY SeqLaws
<1>2. PICK kept : kept = {i \in DOMAIN text : text[i] \notin {" ", "+", "-"}}
  OBVIOUS
<1>3. kept \subseteq 1 .. L
  BY <1>1, <1>2, SeqLaws
<1>4. CASE kept = {}
  BY <1>2, <1>4, None DEF Unsigned
<1>5. CASE kept # {}
  <2>1. /\ Min(kept) \in kept /\ \A i \in kept : Min(kept) <= i
        /\ Max(kept) \in kept /\ \A i \in kept : Max(kept) >= i
    BY <1>3, <1>5, Ends
  <2>2. PICK lo \in 1 .. L, hi \in 1 .. L : lo = Min(kept) /\ hi = Max(kept) /\ lo <= hi
    BY <1>3, <2>1
  <2>3. lo \in Nat \ {0} /\ hi \in Nat /\ lo <= hi + 1 /\ hi <= Len(text)
    BY <1>1, <2>2
  <2>4. IsSequence(SubSeq(text, lo, hi))
    BY <2>3, Sliced
  <2>5. Unsigned(text) = SubSeq(text, lo, hi)
    BY <1>2, <1>5, <2>2, Zenon DEF Unsigned
  <2>. QED
    BY <2>4, <2>5
<1>. QED
  BY <1>4, <1>5

\* All of a text.
LEMMA WholeText ==
  ASSUME NEW s, IsSequence(s)
  PROVE  SubSeq(s, 1, Len(s)) = s
<1>1. PICK L \in Nat : L = Len(s)
  BY SeqLaws
<1>2. /\ 1 \in Nat \ {0} /\ 1 <= L + 1 /\ L <= Len(s) /\ L - 1 + 1 = L
      /\ \A i \in 1 .. L : 1 + i - 1 = i
  BY <1>1
<1>3. PICK t : t = SubSeq(s, 1, L)
  OBVIOUS
<1>4. /\ IsSequence(t) /\ Len(t) = L - 1 + 1
      /\ \A i \in 1 .. L - 1 + 1 : t[i] = s[1 + i - 1]
  BY <1>2, <1>3, Sliced
<1>5. IsSequence(t) /\ Len(t) = Len(s) /\ \A i \in 1 .. Len(s) : t[i] = s[i]
  BY <1>1, <1>2, <1>4
<1>. QED
  BY <1>1, <1>3, <1>5, SeqSame

\* An exponent of up to three digits is read as the exponent, whatever blanks follow.
LEMMA ExponentReads ==
  ASSUME NEW e \in Int, NEW n \in Nat, n = Abs(e), n < 1000, NEW w \in 3 .. 4,
         NEW x, x = ntoa(n, e < 0, 10, 0, w, {"zero", "plus"}), NEW k, IsSequence(k), AllBlank(k)
  PROVE  IsSequence(x) /\ PowerOf(x \o k) = e
<1>1. PICK fl : fl = {"zero", "plus"}
  OBVIOUS
<1>2. "zero" \in fl /\ "left" \notin fl /\ "hash" \notin fl /\ "precision" \notin fl
  BY <1>1
<1>3. (e < 0) \in BOOLEAN
  OBVIOUS
<1>4. NtoaSize \in Nat \ {0} /\ NtoaSize >= 5
  BY PrintfAssumption
<1>5. PICK M \in Nat : M = NumDigits(n, 10, NtoaSize) /\ M <= 3
  <2>1. 3 <= NtoaSize /\ 3 \in Nat \ {0} /\ n < pow10[3]
    BY <1>4, SmallPowers
  <2>2. NumDigits(n, 10, NtoaSize) <= 3
    BY <1>4, <2>1, FewDigits
  <2>3. NumDigits(n, 10, NtoaSize) \in Nat
    BY <1>4, NumDigitsIs
  <2>. QED
    BY <2>2, <2>3
<1>6. 0 = MarksOf(10, n, fl)
  BY <1>2 DEF MarksOf
<1>7. NtoaFits(M, 0, 0, w, fl)
  BY <1>2, <1>4, <1>5 DEF NtoaFits
<1>8. SaysInteger(ntoa(n, e < 0, 10, 0, w, fl), 0, 10, n, e < 0, fl)
  <2>1. 10 \in Bases
    BY DEF Bases
  <2>2. w \in Nat
    OBVIOUS
  <2>3. PICK neg \in BOOLEAN : neg = (e < 0)
    BY <1>3, Zenon
  <2>4. SaysInteger(ntoa(n, neg, 10, 0, w, fl), 0, 10, n, neg, fl)
    BY ONLY <1>2, <1>5, <1>6, <1>7, <2>1, <2>2, NtoaReads, 0 \in Nat, n \in Nat, neg \in BOOLEAN
  <2>. QED
    BY <2>3, <2>4, Zenon
<1>9. SaysInteger(x, 0, 10, n, e < 0, fl)
  BY <1>1, <1>8, Zenon
<1>10. IsSequence(x)
  <2>1. w \in Nat /\ w <= 4
    OBVIOUS
  <2>. QED
    BY <2>1, ExponentText
<1>11. PICK u : u = Unsigned(x)
  OBVIOUS
<1>12. IsSequence(u) /\ SubSeq(u, 1 + 0, Len(u)) = u
  <2>1. 1 + 0 = 1
    OBVIOUS
  <2>. QED
    BY <1>10, <1>11, <2>1, UnsignedSeq, WholeText
<1>13. ReadDigits(u, 10) = n /\ (Contains(x, "-") <=> e < 0)
  BY ONLY <1>9, <1>11, <1>12, Zenon DEF SaysInteger
<1>14. Unsigned(x \o k) = u /\ (Contains(x \o k, "-") <=> Contains(x, "-"))
  BY <1>10, <1>11, BlanksBehind
<1>15. PowerOf(x \o k) = IF e < 0 THEN -n ELSE n
  BY ONLY <1>13, <1>14, Zenon DEF PowerOf
<1>16. (IF e < 0 THEN -n ELSE n) = e
  BY DEF Abs
<1>. QED
  BY <1>10, <1>15, <1>16

-----------------------------------------------------------------------------
(* Half a unit, whatever the power of ten.                                 *)

LEMMA HalfTimes ==
  ASSUME NEW y \in Int, NEW z \in Nat, NEW p \in Nat, 2 * Abs(y) <= z
  PROVE  2 * Abs(y * p) <= z * p
<1>1. PICK d \in Nat : z = 2 * Abs(y) + d
  <2>1. z - 2 * Abs(y) \in Nat /\ z = 2 * Abs(y) + (z - 2 * Abs(y))
    BY DEF Abs
  <2>. QED
    BY <2>1
<1>2. CASE y >= 0
  <2>1. y * p >= 0 /\ y * p \in Int
    BY <1>2
  <2>2. z * p = 2 * (y * p) + d * p /\ d * p \in Nat
    BY <1>1, <1>2 DEF Abs
  <2>. QED
    BY <2>1, <2>2 DEF Abs
<1>3. CASE y < 0
  <2>1. PICK x \in Nat : y = -x /\ x > 0
    <3>1. -y \in Nat /\ y = -(-y) /\ -y > 0
      BY <1>3
    <3>. QED
      BY <3>1
  <2>2. z = 2 * x + d
    BY <1>1, <1>3, <2>1 DEF Abs
  <2>3. z * p = 2 * (x * p) + d * p /\ d * p \in Nat /\ x * p \in Nat /\ y * p = -(x * p)
    BY <2>1, <2>2
  <2>. QED
    BY <2>3 DEF Abs
<1>. QED
  BY <1>2, <1>3

LEMMA HalfOf ==
  ASSUME NEW y \in Int, NEW z \in Nat, NEW p \in Nat \ {0}, 2 * Abs(y * p) <= z * p
  PROVE  2 * Abs(y) <= z
<1>. SUFFICES ASSUME 2 * Abs(y) > z PROVE FALSE
  BY DEF Abs
<1>1. PICK d \in Nat : 2 * Abs(y) = (z + 1) + d
  <2>1. 2 * Abs(y) - (z + 1) \in Nat /\ 2 * Abs(y) = (z + 1) + (2 * Abs(y) - (z + 1))
    BY DEF Abs
  <2>. QED
    BY <2>1
<1>2. Abs(y * p) = Abs(y) * p
  <2>1. CASE y >= 0
    <3>1. y * p >= 0
      BY <2>1
    <3>. QED
      BY <2>1, <3>1 DEF Abs
  <2>2. CASE y < 0
    <3>1. PICK x \in Nat : y = -x /\ x > 0
      <4>1. -y \in Nat /\ y = -(-y) /\ -y > 0
        BY <2>2
      <4>. QED
        BY <4>1
    <3>2. y * p = -(x * p) /\ x * p \in Nat
      BY <3>1
    <3>3. Abs(y) = x
      BY <3>1 DEF Abs
    <3>. QED
      BY <3>2, <3>3 DEF Abs
  <2>. QED
    BY <2>1, <2>2
<1>3. PICK b \in Nat : b = Abs(y)
  <2>1. Abs(y) \in Nat
    BY DEF Abs
  <2>. QED
    BY <2>1
<1>4. 2 * (b * p) = z * p + p + d * p
  <2>1. (2 * b) * p = ((z + 1) + d) * p
    BY <1>1, <1>3
  <2>2. (2 * b) * p = 2 * (b * p)
    BY <1>3
  <2>3. ((z + 1) + d) * p = z * p + p + d * p
    BY <1>1
  <2>. QED
    BY <2>1, <2>2, <2>3
<1>5. z * p \in Nat /\ d * p \in Nat /\ b * p \in Nat
  OBVIOUS
<1>6. 2 * (b * p) <= z * p
  BY <1>2, <1>3
<1>. QED
  BY <1>4, <1>5, <1>6

\* u is v / 10^e.
ScaledBy(num, den, a, b, e) ==
  IF e >= 0 THEN num = a /\ den = b * pow10[e] ELSE num = a * pow10[-e] /\ den = b

\* What is nearest to the mantissa is nearest to the number.
LEMMA MantissaNearest ==
  ASSUME NEW a \in Nat, NEW b \in Nat \ {0}, NEW e \in Int, NEW num \in Nat, NEW den \in Nat \ {0},
         ScaledBy(num, den, a, b, e), NEW x \in Nat, NEW left \in Nat, NEW q \in Nat,
         2 * Abs(x * den - num * pow10[left]) <= den, NEW v, v.num = a, v.den = b
  PROVE  Nearest(v, x * pow10[q], e - (left + q), pow10[q])
<1>1. PICK L \in Nat \ {0}, Q \in Nat \ {0} : L = pow10[left] /\ Q = pow10[q]
  BY Powers
<1>2. PICK s \in Int : s = e - (left + q)
  OBVIOUS
<1>3. x * den - num * L \in Int /\ 2 * Abs(x * den - num * L) <= den
  BY <1>1
<1>4. 2 * Abs((x * den - num * L) * Q) <= den * Q
  BY <1>1, <1>3, HalfTimes
<1>5. CASE e >= 0 /\ s >= 0
  <2>1. PICK r \in Nat : r = e - left /\ r = q + s /\ e = left + r /\ e \in Nat
    <3>1. e - left \in Nat /\ e - left = q + s /\ e = left + (e - left) /\ e \in Nat
      BY <1>2, <1>5
    <3>. QED
      BY <3>1
  <2>s. s \in Nat
    BY <1>5
  <2>2. PICK R \in Nat \ {0}, S \in Nat \ {0} : R = pow10[r] /\ S = pow10[s]
    BY ONLY r \in Nat, <2>s, Powers
  <2>3. pow10[e] = L * R /\ R = Q * S
    <3>1. pow10[left + r] = pow10[left] * pow10[r] /\ pow10[q + s] = pow10[q] * pow10[s]
      BY ONLY r \in Nat, left \in Nat, q \in Nat, <2>s, PowerSum
    <3>. QED
      BY ONLY <1>1, <2>1, <2>2, <3>1
  <2>4. num = a /\ den = b * (L * R)
    BY <1>5, <2>3 DEF ScaledBy
  <2>5. \A y \in Nat : y * (b * (L * R)) - a * L = ((y * R) * b - a) * L
    BY <1>1, <2>2
  <2>6. x * den - num * L = ((x * R) * b - a) * L /\ (x * R) * b - a \in Int
    BY <2>2, <2>4, <2>5
  <2>7. den = (R * b) * L /\ R * b \in Nat
    BY <1>1, <2>2, <2>4
  <2>8. 2 * Abs((x * R) * b - a) <= R * b
    BY <1>1, <1>3, <2>6, <2>7, HalfOf
  <2>9. x * R = (x * Q) * S
    BY <1>1, <2>2, <2>3
  <2>10. 2 * Abs(((x * Q) * S) * b - a) <= (Q * S) * b
    BY <2>3, <2>8, <2>9
  <2>. QED
    BY <1>1, <1>2, <1>5, <2>2, <2>10 DEF Nearest
<1>6. CASE e >= 0 /\ s < 0
  <2>1. PICK t \in Nat : t = -s /\ left + q = e + t /\ e \in Nat
    <3>1. -s \in Nat /\ left + q = e + (-s) /\ e \in Nat
      BY <1>2, <1>6
    <3>. QED
      BY <3>1
  <2>2. PICK E \in Nat \ {0}, T \in Nat \ {0} : E = pow10[e] /\ T = pow10[t]
    BY <1>6, <2>1, Powers
  <2>3. L * Q = E * T
    <3>1. pow10[left + q] = L * Q /\ pow10[e + t] = E * T
      BY <1>1, <2>1, <2>2, PowerSum
    <3>. QED
      BY <2>1, <3>1
  <2>4. num = a /\ den = b * E
    BY <1>6, <2>2 DEF ScaledBy
  <2>5. (x * den - num * L) * Q = ((x * Q) * b - a * T) * E
    <3>1. (x * (b * E) - a * L) * Q = ((x * Q) * b) * E - a * (L * Q)
      BY <1>1, <2>2
    <3>2. ((x * Q) * b - a * T) * E = ((x * Q) * b) * E - a * (E * T)
      BY <1>1, <2>2
    <3>. QED
      BY <2>3, <2>4, <3>1, <3>2
  <2>6. den * Q = (Q * b) * E /\ Q * b \in Nat /\ (x * Q) * b - a * T \in Int
    BY <1>1, <2>2, <2>4
  <2>7. 2 * Abs((x * Q) * b - a * T) <= Q * b
    BY <1>4, <2>2, <2>5, <2>6, HalfOf
  <2>. QED
    BY <1>1, <1>2, <1>6, <2>1, <2>2, <2>7 DEF Nearest
<1>7. CASE e < 0
  <2>1. PICK t \in Nat : t = -e
    <3>1. -e \in Nat
      BY <1>7
    <3>. QED
      BY <3>1
  <2>2. s < 0 /\ -s = t + (left + q) /\ left + q \in Nat
    BY <1>2, <1>7, <2>1
  <2>3. PICK T \in Nat \ {0} : T = pow10[t]
    BY <2>1, Powers
  <2>4. pow10[-s] = T * (L * Q)
    <3>1. pow10[left + q] = pow10[left] * pow10[q] /\ pow10[t + (left + q)] = pow10[t] * pow10[left + q]
      BY ONLY t \in Nat, left \in Nat, q \in Nat, <2>2, PowerSum
    <3>. QED
      BY ONLY <1>1, <2>2, <2>3, <3>1
  <2>5. num = a * T /\ den = b
    BY <1>7, <2>1, <2>3 DEF ScaledBy
  <2>6. (x * den - num * L) * Q = (x * Q) * b - a * (T * (L * Q))
    <3>1. (x * b - (a * T) * L) * Q = (x * Q) * b - a * (T * (L * Q))
      BY <1>1, <2>3
    <3>. QED
      BY <2>5, <3>1
  <2>7. 2 * Abs((x * Q) * b - a * (T * (L * Q))) <= Q * b
    <3>1. den * Q = Q * b
      BY <1>1, <2>5
    <3>. QED
      BY <1>4, <2>6, <3>1
  <2>. QED
    BY <1>1, <1>2, <2>2, <2>4, <2>7 DEF Nearest
<1>. QED
  BY <1>2, <1>5, <1>6, <1>7

-----------------------------------------------------------------------------
(* The exponent that _etoa takes.                                          *)

\* It has three digits, and is not below -4 for a number of at least .0001.
LEMMA ExponentRange ==
  ASSUME NEW a \in Nat, NEW den \in Nat \ {0}, NEW low, NEW e, e = Exponent(a, den, low)
  PROVE  e \in Int /\ e <= 999 /\ -999 <= e /\ (a * 10000 >= den => e >= -4)
<1>. DEFINE N == NumDigits(a \div den, 10, MaxDigits)
            c == PlacesOf(a, den)
<1>1. CASE a = 0
  <2>1. e = -308
    BY <1>1 DEF Exponent
  <2>. QED
    BY <1>1, <2>1
<1>2. CASE a # 0 /\ a >= den
  <2>1. N \in 1 .. MaxDigits
    BY NumDigitsIs, MaxDigits \in Nat \ {0} DEF MaxDigits
  <2>2. e = N - 1 \/ (e = N - 2 /\ N - 1 > 0)
    <3>1. e = N - 1 \/ (e = (N - 1) - 1 /\ N - 1 > 0)
      BY <1>2, Zenon DEF Exponent
    <3>. HIDE DEF N
    <3>. QED
      BY <2>1, <3>1 DEF MaxDigits
  <2>. HIDE DEF N
  <2>. QED
    BY <2>1, <2>2 DEF MaxDigits
<1>3. CASE a # 0 /\ ~(a >= den)
  <2>1. e = -c
    BY <1>3, Zenon DEF Exponent, PlacesOf, PlacesFit
  <2>2. c \in 1 .. MaxPlaces /\ PlacesFit(a, den, c)
    BY PlacesAre
  <2>. HIDE DEF c
  <2>3. c \in Nat /\ c <= 324
    BY <2>2 DEF MaxPlaces
  <2>4. ASSUME a * 10000 >= den, c > 4 PROVE FALSE
    <3>1. PICK k \in Nat : k = c - 1 /\ 4 <= k
      <4>1. c - 1 \in Nat /\ 4 <= c - 1
        BY <2>3, <2>4
      <4>. QED
        BY <4>1
    <3>2. PICK p \in Nat : p = pow10[k] /\ 10000 <= p
      <4>1. pow10[k] \in Nat /\ pow10[4] <= pow10[k]
        BY ONLY <3>1, 4 \in Nat, Powers, PowerGrows
      <4>. QED
        BY <4>1, SmallPowers
    <3>3. ~(a * p >= den)
      BY <2>2, <2>4, <3>1, <3>2 DEF PlacesFit
    <3>4. PICK d \in Nat : p = 10000 + d
      <4>1. p - 10000 \in Nat /\ p = 10000 + (p - 10000)
        BY <3>2
      <4>. QED
        BY <4>1
    <3>5. a * p = a * 10000 + a * d /\ a * d \in Nat
      BY <3>4
    <3>. QED
      BY <2>4, <3>3, <3>5
  <2>. QED
    BY <2>1, <2>3, <2>4
<1>. QED
  BY <1>1, <1>2, <1>3

-----------------------------------------------------------------------------
(* The number that _etoa passes to _ftoa.                                  *)

\* u is a number, and v / 10^e.
IsScaled(u, v, e) ==
  /\ u.num \in Int /\ u.den \in Nat \ {0}
  /\ (u.num < 0 <=> v.num < 0) /\ (u.num = 0 <=> v.num = 0)
  /\ v.num # 0 => ScaledBy(Abs(u.num), u.den, Abs(v.num), v.den, e)

\* A number and its absolute value are scaled alike.
LEMMA ScaledIs ==
  ASSUME NEW v, v.num \in Int, v.den \in Nat \ {0}, NEW e \in Int,
         NEW r, r = [num |-> Abs(v.num), den |-> v.den]
  PROVE  /\ IsScaled(Scaled(v, e), v, e)
         /\ Scaled(r, e).num = Abs(Scaled(v, e).num) /\ Scaled(r, e).den = Scaled(v, e).den
<1>1. r.num = Abs(v.num) /\ r.den = v.den /\ (r.num = 0 <=> v.num = 0)
  BY DEF Abs
<1>2. CASE v.num = 0 \/ e = 0
  <2>1. Scaled(v, e) = v /\ Scaled(r, e) = r
    BY <1>1, <1>2 DEF Scaled
  <2>2. v.num # 0 => v.den * pow10[e] = v.den /\ e = 0
    BY <1>2, Powers
  <2>. QED
    BY <1>1, <2>1, <2>2 DEF IsScaled, ScaledBy
<1>3. CASE v.num # 0 /\ e > 0
  <2>1. PICK p \in Nat \ {0} : p = pow10[e]
    BY <1>3, Powers
  <2>2. /\ Scaled(v, e).num = v.num /\ Scaled(v, e).den = v.den * p
        /\ Scaled(r, e).num = r.num /\ Scaled(r, e).den = r.den * p
    BY <1>1, <1>3, <2>1 DEF Scaled
  <2>3. v.den * p \in Nat \ {0}
    OBVIOUS
  <2>. QED
    BY <1>1, <1>3, <2>1, <2>2, <2>3 DEF IsScaled, ScaledBy
<1>4. CASE v.num # 0 /\ e < 0
  <2>1. PICK p \in Nat \ {0} : p = pow10[-e]
    <3>1. -e \in Nat
      BY <1>4
    <3>. QED
      BY ONLY <3>1, Powers
  <2>2. /\ Scaled(v, e).num = v.num * p /\ Scaled(v, e).den = v.den
        /\ Scaled(r, e).num = r.num * p /\ Scaled(r, e).den = r.den
    BY <1>1, <1>4, <2>1 DEF Scaled
  <2>3. /\ v.num * p \in Int /\ (v.num * p < 0 <=> v.num < 0) /\ v.num * p # 0
        /\ Abs(v.num * p) = Abs(v.num) * p
    <3>1. CASE v.num > 0
      <4>1. v.num * p > 0 /\ v.num * p \in Int
        BY <3>1
      <4>. QED
        BY <3>1, <4>1 DEF Abs
    <3>2. CASE v.num < 0
      <4>1. PICK x \in Nat \ {0} : v.num = -x
        <5>1. -v.num \in Nat \ {0} /\ v.num = -(-v.num)
          BY <3>2
        <5>. QED
          BY <5>1
      <4>2. v.num * p = -(x * p) /\ x * p \in Nat \ {0}
        BY <4>1
      <4>. QED
        BY <3>2, <4>1, <4>2 DEF Abs
    <3>. QED
      BY <1>4, <3>1, <3>2
  <2>. QED
    BY <1>1, <1>4, <2>1, <2>2, <2>3 DEF IsScaled, ScaledBy
<1>. QED
  BY <1>2, <1>3, <1>4

-----------------------------------------------------------------------------
(* What Rounded says, of a text and what it was made from.                 *)

Positive(v) == [num |-> Abs(v.num), den |-> v.den]

\* The buffer holds u, asked decimals, a sign and padding to w.
Fitting(u, asked, w, fl) ==
  /\ asked + (IF "adapt" \in fl THEN 4 ELSE 0) + NumDigits(u.num \div u.den, 10, FtoaSize) + 3
       <= FtoaSize
  /\ "zero" \in fl /\ "left" \notin fl => w <= FtoaSize

Halfway(u, asked, fl) ==
  \E decimals \in IF "adapt" \in fl THEN 1 .. MaxPrec ELSE {Computed(asked)} :
    TieAtNines(u, decimals)

\* m, what was read in front of the exponent e, is v.
IsNearest(m, v, e) ==
  /\ IF v.num = 0 THEN m.digits = 0
     ELSE Nearest(Scaled(Positive(v), 0), m.digits, e - m.decimals,
                  pow10[AtLeast0(m.decimals - MaxPrec)])
  /\ m.minus <=> v.num < 0

SaysNumber(text, v, prec, w, fl) ==
  LET e == ReadExponent(text)
      u == Scaled(Positive(v), e)
  IN  Fitting(u, Wanted(prec, fl), w, fl) /\ ~Halfway(u, Wanted(prec, fl), fl) =>
        IsNearest(ReadFixed(Mantissa(text)), v, e)

\* What _ftoa rounds to, in units of its last decimal.
LEMMA UnitsNearest ==
  ASSUME NEW a \in Nat, NEW den \in Nat \ {0}, NEW left \in 0 .. MaxPrec,
         left # 0 => 2 * (a % den) * pow10[left] # 2 * den * pow10[left] - den
  PROVE  /\ UnitsTo(a, den, left) \in Nat
         /\ 2 * Abs(UnitsTo(a, den, left) * den - a * pow10[left]) <= den
         /\ a = 0 => UnitsTo(a, den, left) = 0
<1>1. left \in Nat /\ pow10[left] \in Nat
  BY PrintfAssumption, Powers
<1>2. WholeTo(a, den, left) \in Nat /\ RoundTo(a, den, left)[2] \in Nat
  BY <1>1, RoundNat
<1>3. CASE left = 0
  <2>1. pow10[left] = 1
    BY <1>3, Powers
  <2>2. UnitsTo(a, den, left) = WholeTo(a, den, left)
    BY <1>2, <1>3, <2>1 DEF UnitsTo
  <2>3. a * pow10[left] = a
    BY <2>1
  <2>. QED
    BY <1>2, <1>3, <2>2, <2>3, WholeRounds
<1>4. CASE left # 0
  <2>1. left \in 1 .. MaxPrec
    BY <1>4, PrintfAssumption
  <2>2. UnitsTo(a, den, left) \in Nat
    <3>1. \A x \in Nat, y \in Nat, z \in Nat : x * y + z \in Nat
      OBVIOUS
    <3>. QED
      BY <1>1, <1>2, <1>4, <3>1 DEF UnitsTo
  <2>. QED
    BY <1>4, <2>1, <2>2, FractionRounds
<1>. QED
  BY <1>3, <1>4

\* The decimals of |u| are no half-way case behind nines.
NoTie(u, left) ==
  left # 0 => 2 * (Abs(u.num) % u.den) * pow10[left] # 2 * u.den * pow10[left] - u.den

\* What is read of the text of _ftoa is the number that its argument is the mantissa of.
LEMMA FixedNearest ==
  ASSUME NEW v, v.num \in Int, v.den \in Nat \ {0}, NEW e \in Int, NEW u, IsScaled(u, v, e),
         NEW prec \in Nat, NEW w \in Nat, NEW fl, NEW asked \in Nat, asked = Wanted(prec, fl),
         asked + NumDigits(Abs(u.num) \div u.den, 10, FtoaSize) + 3 <= FtoaSize,
         "zero" \in fl /\ "left" \notin fl => w <= FtoaSize, NoTie(u, Computed(asked)),
         NEW text, text = ftoa_fixed(u, prec, w, fl)
  PROVE  IsNearest(ReadFixed(text), v, e)
<1>1. PICK a \in Nat, num \in Nat, den \in Nat \ {0}, b \in Nat \ {0} :
        a = Abs(v.num) /\ num = Abs(u.num) /\ den = u.den /\ b = v.den
  <2>1. Abs(v.num) \in Nat /\ Abs(u.num) \in Nat /\ u.den \in Nat \ {0}
    BY DEF IsScaled, Abs
  <2>. QED
    BY <2>1
<1>2. PICK N \in Nat : N = NumDigits(num \div den, 10, FtoaSize)
  BY PrintfAssumption, NumDigitsIs
<1>3. asked + N + 3 <= FtoaSize /\ FtoaSize \in Nat
  BY <1>1, <1>2, PrintfAssumption
<1>4. PICK left \in 0 .. MaxPrec : left = Computed(asked)
  BY PrintfAssumption DEF Computed
<1>5. left \in Nat /\ MaxPrec \in Nat /\ left <= asked /\ (asked > MaxPrec => left = MaxPrec)
      /\ (asked <= MaxPrec => left = asked)
  BY <1>4, PrintfAssumption DEF Computed
<1>6. PICK q \in Nat : q = asked - left /\ left + q = asked /\ q = AtLeast0(asked - MaxPrec)
  <2>1. asked - left \in Nat /\ left + (asked - left) = asked
        /\ asked - left = AtLeast0(asked - MaxPrec)
    BY <1>5 DEF AtLeast0
  <2>. QED
    BY <2>1
<1>7. left # 0 => 2 * (num % den) * pow10[left] # 2 * den * pow10[left] - den
  BY <1>1, <1>4 DEF NoTie
<1>8. PICK x \in Nat : /\ x = UnitsTo(num, den, left)
                       /\ 2 * Abs(x * den - num * pow10[left]) <= den
                       /\ num = 0 => x = 0
  BY <1>7, UnitsNearest
<1>9. u.num \in Int
  BY DEF IsScaled
<1>10. SaysFixed(text, x, asked, left, u.num < 0)
  BY <1>1, <1>2, <1>3, <1>4, <1>5, <1>7, <1>8, <1>9, FtoaSays
<1>. DEFINE m == ReadFixed(text)
<1>11. m.digits = x * pow10[q] /\ m.decimals = asked /\ (m.minus <=> u.num < 0)
  BY <1>6, <1>10 DEF SaysFixed, FixedIs
<1>. HIDE DEF m
<1>12. (u.num < 0 <=> v.num < 0) /\ (u.num = 0 <=> v.num = 0)
  BY DEF IsScaled
<1>13. CASE v.num = 0
  <2>1. num = 0
    BY <1>1, <1>12, <1>13 DEF Abs
  <2>2. x * pow10[q] = 0
    <3>1. PICK p \in Nat : p = pow10[q]
      BY ONLY q \in Nat, Powers
    <3>2. 0 * p = 0
      OBVIOUS
    <3>. QED
      BY <1>8, <2>1, <3>1, <3>2
  <2>. QED
    BY <1>11, <1>12, <1>13, <2>2 DEF IsNearest, m
<1>14. CASE v.num # 0
  <2>1. ScaledBy(num, den, a, b, e)
    BY <1>1, <1>14 DEF IsScaled
  <2>. DEFINE r == Positive(v)
  <2>2. r.num = a /\ r.den = b /\ Scaled(r, 0) = r
    BY <1>1 DEF Positive, Scaled
  <2>. HIDE DEF r
  <2>3. Nearest(r, x * pow10[q], e - (left + q), pow10[q])
    BY <1>5, <1>8, <2>1, <2>2, MantissaNearest
  <2>4. Nearest(Scaled(r, 0), m.digits, e - m.decimals, pow10[AtLeast0(m.decimals - MaxPrec)])
    BY <1>6, <1>11, <2>2, <2>3
  <2>. QED
    BY <1>11, <1>12, <1>14, <2>4 DEF IsNearest, r, m
<1>. QED
  BY <1>13, <1>14

\* Concatenation is associative.
LEMMA JoinedTwice ==
  ASSUME NEW s, NEW t, NEW k, IsSequence(s), IsSequence(t), IsSequence(k)
  PROVE  (s \o t) \o k = s \o (t \o k) /\ IsSequence(t \o k)
<1>1. /\ IsSequence(s \o t) /\ Len(s \o t) = Len(s) + Len(t)
      /\ \A i \in 1 .. Len(s) + Len(t) :
           (s \o t)[i] = IF i <= Len(s) THEN s[i] ELSE t[i - Len(s)]
  BY Joined, Zenon
<1>2. /\ IsSequence(t \o k) /\ Len(t \o k) = Len(t) + Len(k)
      /\ \A i \in 1 .. Len(t) + Len(k) :
           (t \o k)[i] = IF i <= Len(t) THEN t[i] ELSE k[i - Len(t)]
  BY Joined, Zenon
<1>3. Len(s) \in Nat /\ Len(t) \in Nat /\ Len(k) \in Nat
  BY SeqLaws
<1>. DEFINE st == s \o t
            tk == t \o k
<1>. HIDE DEF st, tk
<1>4. /\ IsSequence(st \o k) /\ Len(st \o k) = Len(st) + Len(k)
      /\ \A i \in 1 .. Len(st) + Len(k) :
           (st \o k)[i] = IF i <= Len(st) THEN st[i] ELSE k[i - Len(st)]
  <2>1. IsSequence(st)
    BY <1>1 DEF st
  <2>. QED
    BY <2>1, Joined, Zenon
<1>5. /\ IsSequence(s \o tk) /\ Len(s \o tk) = Len(s) + Len(tk)
      /\ \A i \in 1 .. Len(s) + Len(tk) :
           (s \o tk)[i] = IF i <= Len(s) THEN s[i] ELSE tk[i - Len(s)]
  <2>1. IsSequence(tk)
    BY <1>2 DEF tk
  <2>. QED
    BY <2>1, Joined, Zenon
<1>6. /\ Len(st) = Len(s) + Len(t)
      /\ \A i \in 1 .. Len(s) + Len(t) : st[i] = IF i <= Len(s) THEN s[i] ELSE t[i - Len(s)]
  BY <1>1 DEF st
<1>7. /\ Len(tk) = Len(t) + Len(k)
      /\ \A i \in 1 .. Len(t) + Len(k) : tk[i] = IF i <= Len(t) THEN t[i] ELSE k[i - Len(t)]
  BY <1>2 DEF tk
<1>8. ASSUME NEW i \in 1 .. Len(st \o k) PROVE (st \o k)[i] = (s \o tk)[i]
  <2>1. i \in Nat /\ 1 <= i /\ i <= Len(s) + Len(t) + Len(k)
    BY <1>3, <1>4, <1>6
  <2>2. (st \o k)[i] = IF i <= Len(st) THEN st[i] ELSE k[i - Len(st)]
    BY <1>3, <1>4, <1>6, <2>1
  <2>3. (s \o tk)[i] = IF i <= Len(s) THEN s[i] ELSE tk[i - Len(s)]
    BY <1>3, <1>5, <1>7, <2>1
  <2>4. CASE i <= Len(s)
    BY <1>3, <1>6, <2>1, <2>2, <2>3, <2>4
  <2>5. CASE i > Len(s)
    <3>1. tk[i - Len(s)] = IF i - Len(s) <= Len(t) THEN t[i - Len(s)] ELSE k[i - Len(s) - Len(t)]
      BY <1>3, <1>7, <2>1, <2>5
    <3>2. CASE i <= Len(s) + Len(t)
      BY <1>3, <1>6, <2>1, <2>2, <2>3, <2>5, <3>1, <3>2
    <3>3. CASE i > Len(s) + Len(t)
      <4>1. i - Len(st) = i - Len(s) - Len(t)
        BY <1>3, <1>6, <2>1
      <4>. QED
        BY <1>3, <1>6, <2>1, <2>2, <2>3, <2>5, <3>1, <3>3, <4>1
    <3>4. i <= Len(s) + Len(t) \/ i > Len(s) + Len(t)
      BY <1>3, <2>1
    <3>. QED
      BY <3>2, <3>3, <3>4, Zenon
  <2>6. i <= Len(s) \/ i > Len(s)
    BY <1>3, <2>1
  <2>. QED
    BY <2>4, <2>5, <2>6, Zenon
<1>9. Len(st \o k) = Len(s \o tk)
  BY <1>3, <1>4, <1>5, <1>6, <1>7
<1>10. st \o k = s \o tk
  BY <1>4, <1>5, <1>8, <1>9, SeqSame
<1>. QED
  BY <1>2, <1>10 DEF st, tk

\* What is asked for fits and is no tie, and so is what _ftoa is asked for: k decimals.
LEMMA MantissaSays ==
  ASSUME NEW v, v.num \in Int, v.den \in Nat \ {0}, NEW e \in Int, NEW asked \in Nat,
         NEW w \in Nat, NEW fl, Fitting(Scaled(Positive(v), e), asked, w, fl),
         ~Halfway(Scaled(Positive(v), e), asked, fl),
         NEW places \in Nat, NEW flm, NEW k \in Nat, k = Wanted(places, flm), k <= asked + 4,
         "adapt" \notin fl => k = asked, k <= asked \/ "adapt" \in fl,
         "zero" \in flm <=> "zero" \in fl, "left" \in flm <=> "left" \in fl,
         NEW wm \in Nat, wm <= w, NEW text, text = ftoa_fixed(Scaled(v, e), places, wm, flm)
  PROVE  IsNearest(ReadFixed(text), v, e)
<1>. DEFINE u == Scaled(v, e)
            r == Scaled(Positive(v), e)
<1>1. IsScaled(u, v, e) /\ r.num = Abs(u.num) /\ r.den = u.den
  BY ScaledIs DEF Positive
<1>. HIDE DEF u, r
<1>2. Abs(u.num) \in Nat /\ u.den \in Nat \ {0}
  BY <1>1 DEF IsScaled, Abs
<1>3. PICK N \in Nat : N = NumDigits(Abs(u.num) \div u.den, 10, FtoaSize)
  BY PrintfAssumption, NumDigitsIs
<1>4. N = NumDigits(r.num \div r.den, 10, FtoaSize)
  BY <1>1, <1>3
<1>5. /\ asked + (IF "adapt" \in fl THEN 4 ELSE 0) + N + 3 <= FtoaSize
      /\ "zero" \in fl /\ "left" \notin fl => w <= FtoaSize
  BY <1>4 DEF Fitting, r
<1>6. k + N + 3 <= FtoaSize
  BY <1>5, PrintfAssumption
<1>7. "zero" \in flm /\ "left" \notin flm => wm <= FtoaSize
  BY <1>5, PrintfAssumption
<1>8. NoTie(u, Computed(k))
  <2>. SUFFICES ASSUME Computed(k) # 0, ~NoTie(u, Computed(k)) PROVE FALSE
    BY DEF NoTie
  <2>1. PICK d \in Nat : d = Computed(k) /\ d \in 1 .. MaxPrec
    BY PrintfAssumption DEF Computed
  <2>2. 2 * (Abs(u.num) % u.den) * pow10[d] = 2 * u.den * pow10[d] - u.den
    BY <2>1 DEF NoTie
  <2>3. TieAtNines(r, d)
    BY <1>1, <2>1, <2>2 DEF TieAtNines
  <2>4. d \in IF "adapt" \in fl THEN 1 .. MaxPrec ELSE {Computed(asked)}
    BY <2>1
  <2>5. Halfway(r, asked, fl)
    BY <2>3, <2>4, Zenon DEF Halfway
  <2>. QED
    BY <2>5 DEF r
<1>9. text = ftoa_fixed(u, places, wm, flm)
  BY DEF u
<1>10. k + NumDigits(Abs(u.num) \div u.den, 10, FtoaSize) + 3 <= FtoaSize
  BY <1>3, <1>6
<1>. QED
  BY <1>1, <1>7, <1>8, <1>9, <1>10, FixedNearest

\* The text of _ftoa is read as its argument.
LEMMA FixedNumber ==
  ASSUME NEW v, v.num \in Int, v.den \in Nat \ {0}, NEW prec \in Nat, NEW w \in Nat, NEW fl,
         NEW text, NEW places \in Nat, NEW flm, text = ftoa_fixed(v, places, w, flm),
         NEW k \in Nat, k = Wanted(places, flm), NEW asked \in Nat, asked = Wanted(prec, fl),
         k <= asked + 4, "adapt" \notin fl => k = asked, k <= asked \/ "adapt" \in fl,
         "zero" \in flm <=> "zero" \in fl, "left" \in flm <=> "left" \in fl
  PROVE  SaysNumber(text, v, prec, w, fl)
<1>1. AllIn(text, FixedChars)
  BY FtoaChars
<1>2. Mantissa(text) = text /\ ReadExponent(text) = 0
  BY <1>1, NoMark
<1>3. Scaled(v, 0) = v
  BY DEF Scaled
<1>4. ASSUME Fitting(Scaled(Positive(v), 0), asked, w, fl), ~Halfway(Scaled(Positive(v), 0), asked, fl)
      PROVE  IsNearest(ReadFixed(text), v, 0)
  BY <1>3, <1>4, MantissaSays
<1>. QED
  BY <1>2, <1>4, Zenon DEF SaysNumber

\* So is the text of _etoa with an exponent.
LEMMA MarkedNumber ==
  ASSUME NEW v, v.num \in Int, v.den \in Nat \ {0}, NEW prec \in Nat, NEW w \in Nat, NEW fl,
         NEW e \in Int, NEW places \in Nat, NEW wm \in Nat, wm <= w, NEW mantissa,
         mantissa = ftoa_fixed(Scaled(v, e), places, wm, fl),
         NEW k \in Nat, k = Wanted(places, fl), NEW asked \in Nat, asked = Wanted(prec, fl),
         k <= asked, "adapt" \notin fl => k = asked, NEW c \in {"e", "E"}, NEW x,
         IsSequence(x), NEW tail, IsSequence(tail), PowerOf(x \o tail) = e, NEW text,
         text = ((mantissa \o <<c>>) \o x) \o tail
  PROVE  SaysNumber(text, v, prec, w, fl)
<1>. DEFINE u == Scaled(v, e)
<1>1. u.num \in Int /\ u.den \in Nat \ {0}
  BY ScaledIs DEF IsScaled
<1>. HIDE DEF u
<1>2. mantissa = ftoa_fixed(u, places, wm, fl)
  BY DEF u
<1>3. AllIn(mantissa, FixedChars)
  BY <1>1, <1>2, FtoaChars
<1>5. IsSequence(x) /\ PowerOf(x \o tail) = e
  OBVIOUS
<1>6. IsSequence(mantissa) /\ IsSequence(<<c>>)
  BY <1>3, Single DEF AllIn
<1>7. IsSequence(mantissa \o <<c>>)
  BY <1>6, Joined, Zenon
<1>8. text = (mantissa \o <<c>>) \o (x \o tail) /\ IsSequence(x \o tail)
  <2>. DEFINE s == mantissa \o <<c>>
  <2>. HIDE DEF s
  <2>1. IsSequence(s)
    BY <1>7 DEF s
  <2>2. text = (s \o x) \o tail
    BY DEF s
  <2>3. (s \o x) \o tail = s \o (x \o tail) /\ IsSequence(x \o tail)
    <3>1. IsSequence(x)
      BY <1>5
    <3>. QED
      BY ONLY <2>1, <3>1, IsSequence(tail), JoinedTwice, Zenon
  <2>. QED
    BY <2>2, <2>3 DEF s
<1>9. Mantissa(text) = mantissa /\ ReadExponent(text) = e
  <2>. DEFINE rest == x \o tail
  <2>. HIDE DEF rest
  <2>1. IsSequence(rest) /\ text = (mantissa \o <<c>>) \o rest
    BY <1>8 DEF rest
  <2>2. Mantissa(text) = mantissa /\ ReadExponent(text) = PowerOf(rest)
    BY ONLY <1>3, <2>1, c \in {"e", "E"}, MarkSplits
  <2>. QED
    BY <1>5, <2>2 DEF rest
<1>10. ASSUME Fitting(Scaled(Positive(v), e), asked, w, fl), ~Halfway(Scaled(Positive(v), e), asked, fl)
       PROVE  IsNearest(ReadFixed(mantissa), v, e)
  <2>1. k <= asked + 4 /\ (k <= asked \/ "adapt" \in fl)
    BY ONLY k \in Nat, asked \in Nat, k <= asked
  <2>. QED
    BY ONLY <1>10, <2>1, MantissaSays, v.num \in Int, v.den \in Nat \ {0}, e \in Int, asked \in Nat,
            w \in Nat, places \in Nat, k \in Nat, k = Wanted(places, fl), wm \in Nat, wm <= w,
            "adapt" \notin fl => k = asked, mantissa = ftoa_fixed(Scaled(v, e), places, wm, fl)
<1>. QED
  BY ONLY <1>9, <1>10, asked = Wanted(prec, fl), Zenon DEF SaysNumber

\* What _etoa writes is read as the argument, with an exponent and without.
LEMMA EtoaNumber ==
  ASSUME NEW v, v.num \in Int, v.den \in Nat \ {0}, NEW low, NEW prec \in Nat, NEW w \in Nat, NEW fl
  PROVE  SaysNumber(etoa(v, low, prec, w, fl), v, prec, w, fl)
<1>. DEFINE a == IF v.num < 0 THEN -v.num ELSE v.num
            asked == IF "precision" \in fl THEN prec ELSE DefaultPrec
            e == Exponent(a, v.den, low)
            fixed == "adapt" \in fl /\ (a >= v.den \/ a * 10000 >= v.den) /\ a < v.den * 1000000
            minwidth == IF fixed THEN 0 ELSE IF e < 100 /\ e > -100 THEN 4 ELSE 5
            places == IF fixed THEN AtLeast0(asked - e - 1)
                      ELSE IF "adapt" \in fl /\ asked > 0 /\ "precision" \in fl THEN asked - 1
                      ELSE asked
            fwidth == IF ("left" \in fl /\ minwidth > 0) \/ w <= minwidth THEN 0 ELSE w - minwidth
            flm == IF fixed THEN fl \cup {"precision"} ELSE fl
            mantissa == ftoa_fixed(IF fixed THEN v ELSE Scaled(v, e), places, fwidth, flm)
            c == IF "upper" \in fl THEN "E" ELSE "e"
            n == IF e < 0 THEN -e ELSE e
            x == ntoa(n, e < 0, 10, 0, minwidth - 1, {"zero", "plus"})
            number == (mantissa \o <<c>>) \o x
            tail == IF "left" \in fl THEN Times(" ", w - Len(number)) ELSE <<>>
            text == etoa(v, low, prec, w, fl)
<1>1. text = IF fixed THEN mantissa ELSE number \o tail
  BY DEF etoa
<1>2. asked \in Nat /\ asked = Wanted(prec, fl)
  BY PrintfAssumption DEF Wanted
<1>3. a \in Nat
  OBVIOUS
<1>4. e \in Int /\ e <= 999 /\ -999 <= e /\ (a * 10000 >= v.den => e >= -4)
  <2>1. PICK b \in Nat, d \in Nat \ {0} : b = a /\ d = v.den
    BY <1>3
  <2>f. PICK f : f = Exponent(b, d, low)
    OBVIOUS
  <2>2. f \in Int /\ f <= 999 /\ -999 <= f /\ (b * 10000 >= d => f >= -4)
    BY ONLY <2>f, b \in Nat, d \in Nat \ {0}, ExponentRange
  <2>. HIDE DEF a
  <2>. QED
    BY <2>1, <2>f, <2>2
<1>5. fixed => "adapt" \in fl /\ a * 10000 >= v.den
  <2>. HIDE DEF a
  <2>. QED
    BY <1>3
<1>. HIDE DEF e, text, a
<1>6. e \in Int /\ n \in Nat /\ n = Abs(e)
  BY <1>4 DEF Abs
<1>7. minwidth \in {0, 4, 5} /\ (minwidth = 0 <=> fixed) /\ c \in {"e", "E"}
  <2>. HIDE DEF fixed
  <2>. QED
    OBVIOUS
<1>. HIDE DEF fixed, c
<1>8. fwidth \in Nat /\ fwidth <= w /\ (fixed => fwidth = w)
  <2>1. minwidth \in Nat /\ (fixed => minwidth = 0)
    BY <1>7
  <2>. HIDE DEF minwidth
  <2>. QED
    BY <2>1
<1>9. CASE fixed
  <2>1. places = AtLeast0(asked - e - 1) /\ e >= -4
    BY <1>4, <1>5, <1>9
  <2>2. places \in Nat /\ places <= asked + 4
    BY <1>2, <1>6, <2>1 DEF AtLeast0
  <2>. HIDE DEF places
  <2>3. text = ftoa_fixed(v, places, w, fl \cup {"precision"})
    BY <1>1, <1>8, <1>9
  <2>4. Wanted(places, fl \cup {"precision"}) = places
    BY DEF Wanted
  <2>5. "adapt" \in fl
    BY <1>5, <1>9
  <2>. HIDE DEF asked
  <2>6. "zero" \in fl \cup {"precision"} <=> "zero" \in fl
    OBVIOUS
  <2>7. "left" \in fl \cup {"precision"} <=> "left" \in fl
    OBVIOUS
  <2>8. SaysNumber(text, v, prec, w, fl)
    BY <1>2, <2>2, <2>3, <2>4, <2>5, <2>6, <2>7, FixedNumber
  <2>. QED
    BY <2>8 DEF text
<1>10. CASE ~fixed
  <2>1. places \in Nat /\ places <= asked /\ ("adapt" \notin fl => places = asked)
        /\ ("precision" \notin fl => places = asked)
    <3>1. \/ places = asked
          \/ "adapt" \in fl /\ asked > 0 /\ "precision" \in fl /\ places = asked - 1
      BY <1>10, Zenon
    <3>. HIDE DEF asked, places
    <3>. QED
      BY <1>2, <3>1
  <2>. DEFINE k == Wanted(places, fl)
  <2>2. k \in Nat /\ k <= asked /\ ("adapt" \notin fl => k = asked)
    BY <2>1, PrintfAssumption DEF Wanted
  <2>. HIDE DEF places, asked, k
  <2>3. mantissa = ftoa_fixed(Scaled(v, e), places, fwidth, fl)
    BY <1>10
  <2>. DEFINE we == minwidth - 1
  <2>4. we \in 3 .. 4
    BY <1>7, <1>10
  <2>5. x = ntoa(n, e < 0, 10, 0, we, {"zero", "plus"})
    OBVIOUS
  <2>6. text = ((mantissa \o <<c>>) \o x) \o tail
    BY <1>1, <1>10
  <2>. HIDE DEF fwidth, minwidth, we, n, mantissa, x
  <2>7. IsSequence(x)
    <3>1. IsSequence(<<>>) /\ AllBlank(<<>>)
      BY None DEF AllBlank
    <3>2. n < 1000
      BY <1>4, <1>6 DEF Abs
    <3>. QED
      BY ONLY <1>6, <2>4, <2>5, <3>1, <3>2, ExponentReads
  <2>8. AllIn(mantissa, FixedChars)
    <3>1. Scaled(v, e).num \in Int /\ Scaled(v, e).den \in Nat \ {0}
      BY <1>6, ScaledIs DEF IsScaled
    <3>. QED
      BY <1>8, <2>1, <2>3, <3>1, FtoaChars
  <2>9. IsSequence(number)
    <3>1. IsSequence(mantissa) /\ IsSequence(<<c>>)
      BY <2>8, Single DEF AllIn
    <3>2. IsSequence(mantissa \o <<c>>)
      BY <3>1, Joined, Zenon
    <3>. QED
      BY <2>7, <3>2, Joined, Zenon
  <2>10. IsSequence(tail) /\ AllBlank(tail)
    <3>1. Len(number) \in Nat
      BY <2>9, SeqLaws
    <3>. HIDE DEF number
    <3>2. w - Len(number) \in Int
      BY <3>1
    <3>. DEFINE t == Times(" ", w - Len(number))
    <3>3. IsSequence(t) /\ AllBlank(t)
      BY <3>2, TimesLaws DEF AllBlank
    <3>4. IsSequence(<<>>) /\ AllBlank(<<>>)
      BY None DEF AllBlank
    <3>. HIDE DEF t
    <3>5. tail = t \/ tail = <<>>
      BY DEF t
    <3>. QED
      BY <3>3, <3>4, <3>5
  <2>. HIDE DEF tail
  <2>11. k = Wanted(places, fl)
    BY DEF k
  <2>12. PowerOf(x \o tail) = e
    <3>1. n < 1000
      BY <1>4, <1>6 DEF Abs
    <3>. QED
      BY ONLY <1>6, <2>4, <2>5, <2>10, <3>1, ExponentReads
  <2>13. SaysNumber(text, v, prec, w, fl)
    BY ONLY <1>2, <1>6, <1>7, <1>8, <2>1, <2>2, <2>3, <2>6, <2>7, <2>10, <2>11, <2>12,
            v.num \in Int, v.den \in Nat \ {0}, prec \in Nat, w \in Nat, MarkedNumber
  <2>. QED
    BY <2>13 DEF text
<1>. QED
  BY <1>9, <1>10

\* What _ftoa writes is read as the argument.
LEMMA FtoaNumber ==
  ASSUME NEW v, v.kind = "number", v.num \in Int, v.den \in Nat \ {0}, NEW low, NEW prec \in Nat,
         NEW w \in Nat, NEW fl
  PROVE  SaysNumber(ftoa(v, low, prec, w, fl), v, prec, w, fl)
<1>1. \/ ftoa(v, low, prec, w, fl) = etoa(v, low, prec, w, fl)
      \/ ftoa(v, low, prec, w, fl) = ftoa_fixed(v, prec, w, fl)
  BY Zenon DEF ftoa
<1>2. SaysNumber(etoa(v, low, prec, w, fl), v, prec, w, fl)
  BY EtoaNumber
<1>3. SaysNumber(ftoa_fixed(v, prec, w, fl), v, prec, w, fl)
  <2>. DEFINE asked == Wanted(prec, fl)
              text == ftoa_fixed(v, prec, w, fl)
  <2>1. asked \in Nat /\ asked <= asked + 4
    BY PrintfAssumption DEF Wanted
  <2>2. asked = Wanted(prec, fl) /\ text = ftoa_fixed(v, prec, w, fl)
    OBVIOUS
  <2>. HIDE DEF asked, text
  <2>3. SaysNumber(text, v, prec, w, fl)
    BY <2>1, <2>2, FixedNumber
  <2>. QED
    BY <2>3 DEF text
<1>. QED
  BY <1>1, <1>2, <1>3, Zenon

\* A number with a fraction is converted.
LEMMA RoundedStep ==
  ASSUME NEW value, NEW w, NEW fl, NEW text, NEW n, Convert(value, w, fl, text, n),
         Ch \in FloatSpecs /\ value.kind = "number" => SaysNumber(text, value, precision, w, fl)
  PROVE  Rounded'
<1>1. /\ conv'.spec = Ch /\ conv'.value = value /\ conv'.flags = fl /\ conv'.width = w
      /\ conv'.precision = precision /\ conv'.text = text
  <2>1. conv' = [spec |-> Ch, value |-> value, flags |-> fl, width |-> w,
                 precision |-> precision, text |-> text]
    BY DEF Convert
  <2>. QED
    BY <2>1
<1>. SUFFICES ASSUME IsNumber' PROVE Rounded'
  BY Zenon DEF Rounded
<1>2. SaysNumber(text, value, precision, w, fl)
  BY <1>1 DEF IsNumber, IsFloat
<1>3. Asked' = Wanted(precision, fl)
  BY <1>1 DEF Asked, Wanted
<1>. DEFINE asked == Wanted(precision, fl)
            e == ReadExponent(text)
            u == Scaled(Positive(value), e)
            m == ReadFixed(Mantissa(text))
<1>4. Converted(e)' = u /\ Converted(0)' = Scaled(Positive(value), 0)
  BY <1>1 DEF Converted, Positive
<1>. HIDE DEF asked, u
<1>5. FloatFits(u)' => Fitting(u, asked, w, fl)
  BY <1>1, <1>3 DEF FloatFits, Fitting, Padded, asked
<1>6. Halfway(u, asked, fl) => HalfwayBehindNines(u)'
  BY <1>1, <1>3 DEF Halfway, HalfwayBehindNines, Computed, asked
<1>7. FloatFits(u)' /\ ~HalfwayBehindNines(u)' => IsNearest(m, value, e)
  BY <1>2, <1>5, <1>6, Zenon DEF SaysNumber, asked, u
<1>. HIDE DEF e, m
<1>8. ReadExponent(conv.text)' = e /\ ReadFixed(Mantissa(conv.text))' = m
  BY <1>1 DEF e, m
<1>. QED
  BY <1>1, <1>4, <1>7, <1>8 DEF Rounded, IsNearest

\* %f and %F.
LEMMA FloatRounds == ASSUME FInv, Float PROVE Rounded'
<1>ch. PICK ch : ch = Ch
  OBVIOUS
<1>v. PICK v : v = call.args[arg]
  OBVIOUS
<1>fl. PICK fl : fl = IF ch = "F" THEN flags \cup {"upper"} ELSE flags
  OBVIOUS
<1>1. PICK low \in BOOLEAN : Convert(v, width, fl, ftoa(v, low, precision, width, fl), 1)
  BY <1>ch, <1>v, <1>fl, Zenon DEF Float
<1>2. ch \in {"f", "F"} /\ pc = "specifier"
  BY <1>1, <1>ch DEF Float, Convert
<1>3. ch \in Specifiers /\ ch \in FloatSpecs
  BY <1>2 DEF Specifiers, FloatSpecs
<1>4. ArgumentFits(ch, v) /\ width \in Nat /\ precision \in Nat
  BY <1>2, <1>3, <1>ch, <1>v, ArgumentIs
<1>5. v.kind = "number" => v.num \in Int /\ v.den \in Nat \ {0}
  BY <1>3, <1>4 DEF ArgumentFits
<1>6. v.kind = "number" =>
        SaysNumber(ftoa(v, low, precision, width, fl), v, precision, width, fl)
  BY <1>4, <1>5, FtoaNumber
<1>. QED
  BY <1>1, <1>6, RoundedStep

\* %e, %E, %g and %G.
LEMMA ExponentialRounds == ASSUME FInv, Exponential PROVE Rounded'
<1>ch. PICK ch : ch = Ch
  OBVIOUS
<1>v. PICK v : v = call.args[arg]
  OBVIOUS
<1>fl. PICK fl : fl = flags \cup (IF ch \in {"g", "G"} THEN {"adapt"} ELSE {})
                           \cup (IF ch \in {"E", "G"} THEN {"upper"} ELSE {})
  OBVIOUS
<1>1. /\ ch \in FloatSpecs
      /\ \E low \in BOOLEAN :
           Convert(v, width, fl, IF v.kind = "number" THEN etoa(v, low, precision, width, fl)
                                 ELSE special(v, width, fl), 1)
  BY <1>ch, <1>v, <1>fl, Zenon DEF Exponential
<1>2. PICK low \in BOOLEAN :
        Convert(v, width, fl, IF v.kind = "number" THEN etoa(v, low, precision, width, fl)
                              ELSE special(v, width, fl), 1)
  BY <1>1, Zenon
<1>3. ch \in Specifiers /\ pc = "specifier"
  BY <1>1, <1>2 DEF Specifiers, Convert
<1>4. ArgumentFits(ch, v) /\ width \in Nat /\ precision \in Nat
  BY <1>3, <1>ch, <1>v, ArgumentIs
<1>5. v.kind = "number" => v.num \in Int /\ v.den \in Nat \ {0}
  BY <1>1, <1>4 DEF ArgumentFits
<1>6. PICK text : text = IF v.kind = "number" THEN etoa(v, low, precision, width, fl)
                         ELSE special(v, width, fl)
  OBVIOUS
<1>7. v.kind = "number" => SaysNumber(text, v, precision, width, fl)
  <2>. SUFFICES ASSUME v.kind = "number" PROVE SaysNumber(text, v, precision, width, fl)
    OBVIOUS
  <2>1. text = etoa(v, low, precision, width, fl)
    BY <1>6, Zenon
  <2>2. SaysNumber(etoa(v, low, precision, width, fl), v, precision, width, fl)
    BY <1>4, <1>5, EtoaNumber
  <2>. QED
    BY <2>1, <2>2, Zenon
<1>8. Convert(v, width, fl, text, 1)
  BY <1>2, <1>6, Zenon
<1>. QED
  BY <1>7, <1>8, RoundedStep

\* A conversion of another kind has no fraction.
LEMMA OtherRounds ==
  ASSUME Integer \/ Char \/ String \/ Pointer \/ Other
  PROVE  Rounded'
<1>1. PICK value, w, fl, text, n : Convert(value, w, fl, text, n)
  <2>1. Integer => \E value, w, fl, text, n : Convert(value, w, fl, text, n)
    BY Zenon DEF Integer
  <2>2. Char \/ String => \E value, w, fl, text, n : Convert(value, w, fl, text, n)
    BY Zenon DEF Char, String
  <2>3. Pointer \/ Other => \E value, w, fl, text, n : Convert(value, w, fl, text, n)
    BY Zenon DEF Pointer, Other
  <2>. QED
    BY <2>1, <2>2, <2>3, Zenon
<1>2. Ch \notin FloatSpecs
  <2>1. DOMAIN Base = {"d", "i", "u", "x", "X", "o", "b"}
    BY DEF Base
  <2>2. Integer \/ Char \/ String \/ Pointer => Ch \in DOMAIN Base \cup {"c", "s", "p"}
    BY DEF Integer, Char, String, Pointer
  <2>3. Other => Ch \notin FloatSpecs
    BY DEF Other, Specifiers
  <2>. QED
    BY <2>1, <2>2, <2>3 DEF FloatSpecs
<1>. QED
  BY <1>1, <1>2, RoundedStep

-----------------------------------------------------------------------------
(* What holds of every call.                                               *)

\* At the start nothing is read, sent or converted.
LEMMA FInvInit == ASSUME Init PROVE FInv
<1>1. /\ call \in Calls /\ pc = "text" /\ pos = 1 /\ arg = 1 /\ nth = 0
      /\ width = 0 /\ precision = 0
      /\ idx = 0 /\ sent = <<>> /\ memory = [i \in 0 .. MemSize - 1 |-> "?"] /\ conv = NoConv
  BY DEF Init
<1>2. Len(call.pieces) \in Nat
  BY <1>1, CallsAssumption, SeqLaws DEF WellFormed
<1>3. Types /\ Inside /\ Outside /\ Contract
  BY <1>1, <1>2 DEF Types, Inside, Outside, Contract, Reading
<1>4. Sent
  BY <1>1, None DEF Sent
<1>5. Stored
  <2>1. \A i \in 0 .. MemSize - 1 : memory[i] = "?" /\ ~(i < idx)
    BY <1>1, PrintfAssumption
  <2>. QED
    BY <1>1, <2>1 DEF Stored
<1>6. FillsField
  BY <1>1 DEF FillsField
<1>7. PowerInTable
  <2>1. conv.spec = "none"
    BY <1>1 DEF NoConv
  <2>. QED
    BY <2>1 DEF PowerInTable
<1>. QED
  BY <1>3, <1>4, <1>5, <1>6, <1>7 DEF FInv

\* Every step of _vsnprintf keeps the invariant.
LEMMA FInvNext == ASSUME FInv, [Next]_vars PROVE FInv'
<1>1. CASE Next
  <2>1. ASSUME Literal \/ Percent PROVE FInv'
    BY <2>1, LiteralStep, PercentStep
  <2>2. ASSUME Flag \/ Width \/ Precision \/ Length PROVE FInv'
    BY <2>2, FlagStep, WidthStep, PrecisionStep, LengthStep
  <2>3. ASSUME Integer \/ Float \/ Exponential \/ Char \/ String \/ Pointer \/ Other PROVE FInv'
    BY <2>3, IntegerStep, FloatStep, ExponentialStep, CharStep, StringStep, PointerStep, OtherStep
  <2>4. ASSUME Cut \/ Terminate PROVE FInv'
    BY <2>4, CutStep, TerminateStep
  <2>. QED
    BY <1>1, <2>1, <2>2, <2>3, <2>4 DEF Next
<1>2. CASE UNCHANGED vars
  <2>1. UNCHANGED <<call, pc, pos, arg, nth, flags, width, precision, idx, sent, memory, conv>>
    BY <1>2 DEF vars
  <2>2. Types' /\ Sent'
    BY <2>1 DEF FInv, Types, Sent
  <2>3. Inside'
    BY <2>1 DEF FInv, Inside, Cur, IsDirective, CharAt, AtFlags, AtWidth, AtPrecision, AtLength,
                AtSpecifier
  <2>4. Outside'
    BY <2>1 DEF FInv, Outside, Cur
  <2>5. Stored' /\ Contract'
    BY <2>1 DEF FInv, Stored, Contract, out, maxlen
  <2>6. FillsField' /\ PowerInTable'
    BY <2>1, ConvSame DEF FInv
  <2>. QED
    BY <2>2, <2>3, <2>4, <2>5, <2>6 DEF FInv
<1>. QED
  BY <1>1, <1>2

\* The parser knows its place in the format, and what it knows implies the properties.
THEOREM Invariant == Spec => []FInv
<1>1. Init => FInv
  BY FInvInit
<1>2. FInv /\ [Next]_vars => FInv'
  BY FInvNext
<1>. QED
  BY <1>1, <1>2, PTL DEF Spec

\* _vsnprintf reads every directive as it is meant, with whatever flags, '*' and length
\* it is written and whatever stands before it: at the specifier flags, width and
\* precision are those of the directive, numbers as wide as an unsigned int, and behind
\* it its characters and arguments are used up (printf.cc:602-681).
THEOREM ParsesBackHolds == Spec => []ParsesBack
<1>1. FInv => ParsesBack
  <2>. SUFFICES ASSUME FInv PROVE ParsesBack
    OBVIOUS
  <2>1. Inside /\ Outside
    BY DEF FInv
  <2>2. pc = "specifier" => /\ flags = FlagsOf(call, Cur) /\ width = WidthOf(call, Cur)
                            /\ precision = PrecisionOf(call, Cur)
    BY <2>1 DEF Inside, Reading, AtSpecifier
  <2>3. pc = "text" => IF nth = 0 THEN pos = 1 /\ arg = 1
                       ELSE pos = NextAt(call, Cur) /\ arg = NextArg(call, Cur)
    BY <2>1 DEF Outside
  <2>. QED
    BY <2>2, <2>3 DEF ParsesBack, Cur
<1>. QED
  BY <1>1, Invariant, PTL

\* The text of an integer is its argument, for every argument, width, precision and set of
\* flags: as a signed or unsigned number of the type the directive names, in its base,
\* with the sign, zeros, blanks and prefix around it.  What is left out are texts longer
\* than the buffer and those of which the prefix of '#' replaces digits (printf.cc:218-340).
THEOREM ReadsBackHolds == Spec => []ReadsBack
<1>1. Init => ReadsBack
  <2>. SUFFICES ASSUME Init PROVE ReadsBack
    OBVIOUS
  <2>1. conv.spec = "none"
    BY DEF Init, NoConv
  <2>2. ~IsInteger
    BY <2>1 DEF IsInteger, Base
  <2>. QED
    BY <2>2, Zenon DEF ReadsBack
<1>2. FInv /\ ReadsBack /\ [Next]_vars => ReadsBack'
  <2>. SUFFICES ASSUME FInv, ReadsBack, [Next]_vars PROVE ReadsBack'
    OBVIOUS
  <2>1. CASE Next
    BY <2>1, IntegerReads, OtherReads, QuietReads, Zenon DEF Next
  <2>2. CASE UNCHANGED vars
    <3>1. call' = call /\ pc' = pc /\ arg' = arg /\ nth' = nth /\ conv' = conv
      BY <2>2 DEF vars
    <3>. QED
      BY <3>1 DEF ReadsBack, IsInteger, Places, Prefix, PrefixEats, Numeral, Padded, Argument, TypeSize
  <2>. QED
    BY <2>1, <2>2
<1>. QED
  BY <1>1, <1>2, Invariant, PTL DEF Spec

\* The text of a number with a fraction is the number nearest to the argument, for every
\* argument, width, precision and set of flags, with an exponent and without: within half
\* a unit of the last decimal that is computed, also when the rounding carries through to
\* a new digit, and with its sign.  What is left out are texts longer than the buffer, and
\* half-way cases behind nines (printf.cc:345-585).
THEOREM RoundedHolds == Spec => []Rounded
<1>1. Init => Rounded
  <2>. SUFFICES ASSUME Init PROVE Rounded
    OBVIOUS
  <2>1. conv.spec = "none"
    BY DEF Init, NoConv
  <2>2. ~IsNumber
    BY <2>1 DEF IsNumber, IsFloat, FloatSpecs
  <2>. QED
    BY <2>2, Zenon DEF Rounded
<1>2. FInv /\ Rounded /\ [Next]_vars => Rounded'
  <2>. SUFFICES ASSUME FInv, Rounded, [Next]_vars PROVE Rounded'
    OBVIOUS
  <2>1. CASE Integer \/ Float \/ Exponential \/ Char \/ String \/ Pointer \/ Other
    BY <2>1, FloatRounds, ExponentialRounds, OtherRounds, Zenon
  <2>2. CASE UNCHANGED conv
    <3>1. conv' = conv
      BY <2>2
    <3>. QED
      BY <3>1 DEF Rounded, IsNumber, IsFloat, FloatFits, HalfwayBehindNines, Converted, Asked, Padded
  <2>3. \/ UNCHANGED conv
        \/ Integer \/ Float \/ Exponential \/ Char \/ String \/ Pointer \/ Other
    BY DEF Next, vars, Literal, Percent, Flag, Width, Precision, Length, Cut, Terminate
  <2>. QED
    BY <2>1, <2>2, <2>3, Zenon
<1>. QED
  BY <1>1, <1>2, Invariant, PTL DEF Spec

\* Every conversion fills its field, for every value, width and precision and every size
\* of the buffers, up to the padding with zeros that a small buffer cuts short
\* (printf.cc:150-180, 218-272).
THEOREM FillsFieldHolds == Spec => []FillsField
  BY Invariant, PTL DEF FInv

\* A power of ten from behind the table of _ftoa is never seen in the text (printf.cc:379).
THEOREM PowerInTableHolds == Spec => []PowerInTable
  BY Invariant, PTL DEF FInv

\* snprintf stores what fits and one NUL, for every size it is given, 0 included, and
\* leaves the rest of memory as it was (printf.h:75-84, printf.cc:853-857).
THEOREM ContractHolds == Spec => []Contract
  BY Invariant, PTL DEF FInv
=============================================================================
