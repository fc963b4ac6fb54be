----------------------------- MODULE AcpiProofs -----------------------------
(***************************************************************************)
(* Apic::init records what the first RSDP lists, for MADTs of any entries, *)
(* any bytes behind them, any number of tables and ranges of any size.     *)
(*                                                                         *)
(* The walk knows nothing of entries: it adds a byte to an address.  That  *)
(* the address is that of an entry follows from what the bytes of a MADT   *)
(* are, which is defined by recursion over its entries.  The facts about   *)
(* it are proved by induction on a set of naturals (NatSet).               *)
(***************************************************************************)
EXTENDS Acpi, WellFoundedInduction, TLAPS

\* Where the entries of a MADT end: Ends(m)[k] bytes hold the first k.
Ends(m) == LET end[k \in 0 .. Len(m)] == IF k = 0 THEN 0 ELSE end[k - 1] + Len(m[k])
           IN  end

Tables == Madts \cup {<<>>}

\* What the firmware left.
Firmware == /\ place \in (-1 .. Paragraphs[1] - 1) \X (-1 .. Paragraphs[2] - 1)
            /\ rsdt \in [1 .. 2 -> Seq(Tables)]
            /\ \A r \in 1 .. 2 : place[r] = -1 => rsdt[r] = <<>>
            /\ behind \in Behind

Types == /\ pc \in {"scan", "rsdt", "walk", "done"} /\ range \in 1 .. 2
         /\ para \in Nat /\ table \in Nat \ {0} /\ pos \in Nat

\* The search has passed no RSDP, and nothing is recorded before it has found one.
Searching == pc = "scan" =>
  /\ nodes = {} /\ table = 1 /\ para <= Paragraphs[range]
  /\ place[range] = -1 \/ para <= place[range]
  /\ range = 2 => place[1] = -1

\* Behind it, the range is the one that counts, or there is no RSDP at all.
Found == pc # "scan" =>
  \/ pc = "done" /\ place[1] = -1 /\ place[2] = -1
  \/ /\ range = Used /\ table <= Len(rsdt[range]) + 1
     /\ pc = "walk" => table <= Len(rsdt[range]) /\ rsdt[range][table] # <<>>
     /\ pc = "done" => table = Len(rsdt[range]) + 1

\* The UIDs of the local APICs that the tables of a range list.
Uids(r) == {Uid(e) : e \in LocalApics(r)}

\* Those of the local APICs among the first k entries of m.
IdsUpTo(m, k) == {m[j][3] : j \in {i \in 1 .. k : m[i][1] = 0}}

\* The MADTs before this one are recorded.
Passed == \A t \in 1 .. table - 1 :
            t \in DOMAIN rsdt[range] =>
              IdsUpTo(rsdt[range][t], Len(rsdt[range][t])) \subseteq nodes

\* The walk is at the start of an entry and has recorded those before it, or it is
\* behind the MADT.
Walking == pc = "walk" =>
  LET m == rsdt[range][table]
  IN  \/ \E k \in 0 .. Len(m) - 1 : pos = Ends(m)[k] /\ IdsUpTo(m, k) \subseteq nodes
      \/ pos >= Size /\ IdsUpTo(m, Len(m)) \subseteq nodes

\* What is recorded is listed or lies behind a MADT.
Recorded == nodes \subseteq Uids(Used) \cup {behind[i] : i \in 3 .. 10}

AInv == Firmware /\ Types /\ Searching /\ Found /\ Passed /\ Walking /\ Recorded

-----------------------------------------------------------------------------
(* What flattening a MADT does.                                            *)

\* Induction on the naturals, for a set.
LEMMA NatSet ==
  ASSUME NEW S, 0 \in S, \A n \in Nat : n \in S => n + 1 \in S
  PROVE  \A n \in Nat : n \in S
<1>. DEFINE R == OpToRel(<, Nat)
            Left == Nat \ S
<1>1. IsWellFoundedOn(R, Nat)
  BY NatLessThanWellFounded
<1>2. \A x, y \in Nat : y < x => <<y, x>> \in R
  BY Zenon DEF OpToRel
<1>. HIDE DEF R
<1>3. SUFFICES ASSUME Left # {} PROVE FALSE
  OBVIOUS
<1>4. Left \subseteq Nat
  OBVIOUS
<1>5. PICK x \in Left : \A y \in Left : ~ (<<y, x>> \in R)
  BY <1>1, <1>3, <1>4, WFMin, Zenon
<1>6. x \in Nat /\ x # 0
  BY <1>5
<1>7. x - 1 \in Nat /\ x - 1 < x /\ (x - 1) + 1 = x
  BY <1>6
<1>8. x - 1 \in S
  BY <1>2, <1>5, <1>6, <1>7
<1>. QED
  BY <1>5, <1>7, <1>8

\* Flattening is joining one sequence after the other.
LEMMA FlattenIs ==
  ASSUME NEW m, Len(m) \in Nat \ {0}
  PROVE  \E f : /\ FlattenSeq(m) = f[Len(m)]
                /\ f = [i \in 1 .. Len(m) |-> IF i = 1 THEN m[i] ELSE f[i - 1] \o m[i]]
<1>. DEFINE Joins(f, k) == f = [i \in 1 .. k |-> IF i = 1 THEN m[i] ELSE f[i - 1] \o m[i]]
            S == {k \in Nat : \E f : Joins(f, k)}
<1>1. 0 \in S
  <2>. DEFINE f == [i \in 1 .. 0 |-> 0]
  <2>1. Joins(f, 0)
    OBVIOUS
  <2>. QED
    BY <2>1
<1>2. ASSUME NEW k \in Nat, k \in S PROVE k + 1 \in S
  <2>1. PICK g : Joins(g, k)
    BY <1>2
  <2>. DEFINE f == [i \in 1 .. k + 1 |->
                      IF i = k + 1 THEN IF i = 1 THEN m[i] ELSE g[i - 1] \o m[i] ELSE g[i]]
  <2>2. ASSUME NEW i \in 1 .. k + 1
        PROVE  f[i] = IF i = 1 THEN m[i] ELSE f[i - 1] \o m[i]
    <3>1. CASE i = k + 1
      <4>1. f[i] = IF i = 1 THEN m[i] ELSE g[i - 1] \o m[i]
        BY <3>1
      <4>2. i # 1 => f[i - 1] = g[i - 1]
        BY <3>1
      <4>. QED
        BY <4>1, <4>2
    <3>2. CASE i # k + 1
      <4>1. i \in 1 .. k /\ f[i] = g[i]
        BY <3>2
      <4>2. i # 1 => f[i - 1] = g[i - 1]
        BY <4>1
      <4>3. g[i] = IF i = 1 THEN m[i] ELSE g[i - 1] \o m[i]
        BY <2>1, <4>1
      <4>. QED
        BY <4>1, <4>2, <4>3
    <3>. QED
      BY <3>1, <3>2
  <2>3. Joins(f, k + 1)
    <3>1. f = [i \in 1 .. k + 1 |-> f[i]]
      OBVIOUS
    <3>. HIDE DEF f
    <3>. QED
      BY <2>2, <3>1
  <2>. HIDE DEF f, Joins
  <2>. QED
    BY <2>3
<1>3. \A k \in Nat : k \in S
  BY <1>1, <1>2, NatSet
<1>4. \E f : Joins(f, Len(m))
  BY <1>3
<1>5. Joins(CHOOSE f : Joins(f, Len(m)), Len(m))
  BY <1>4
<1>. QED
  BY <1>5 DEF FlattenSeq

\* Every entry ends behind the one before it.
LEMMA EndsIs ==
  ASSUME NEW m, Len(m) \in Nat
  PROVE  Ends(m) = [k \in 0 .. Len(m) |-> IF k = 0 THEN 0 ELSE Ends(m)[k - 1] + Len(m[k])]
<1>. DEFINE Adds(f, n) == f = [k \in 0 .. n |-> IF k = 0 THEN 0 ELSE f[k - 1] + Len(m[k])]
            S == {n \in Nat : \E f : Adds(f, n)}
<1>1. 0 \in S
  <2>. DEFINE f == [k \in 0 .. 0 |-> 0]
  <2>1. Adds(f, 0)
    OBVIOUS
  <2>. QED
    BY <2>1
<1>2. ASSUME NEW n \in Nat, n \in S PROVE n + 1 \in S
  <2>1. PICK g : Adds(g, n)
    BY <1>2
  <2>. DEFINE f == [k \in 0 .. n + 1 |-> IF k = n + 1 THEN g[k - 1] + Len(m[k]) ELSE g[k]]
  <2>2. ASSUME NEW k \in 0 .. n + 1
        PROVE  f[k] = IF k = 0 THEN 0 ELSE f[k - 1] + Len(m[k])
    <3>1. CASE k = n + 1
      <4>1. f[k] = g[k - 1] + Len(m[k]) /\ k # 0 /\ f[k - 1] = g[k - 1]
        BY <3>1
      <4>. QED
        BY <4>1
    <3>2. CASE k # n + 1
      <4>1. k \in 0 .. n /\ f[k] = g[k]
        BY <3>2
      <4>2. k # 0 => f[k - 1] = g[k - 1]
        BY <4>1
      <4>3. g[k] = IF k = 0 THEN 0 ELSE g[k - 1] + Len(m[k])
        BY <2>1, <4>1
      <4>. QED
        BY <4>1, <4>2, <4>3
    <3>. QED
      BY <3>1, <3>2
  <2>3. Adds(f, n + 1)
    <3>1. f = [k \in 0 .. n + 1 |-> f[k]]
      OBVIOUS
    <3>. HIDE DEF f
    <3>. QED
      BY <2>2, <3>1
  <2>. HIDE DEF f, Adds
  <2>. QED
    BY <2>3
<1>3. \A n \in Nat : n \in S
  BY <1>1, <1>2, NatSet
<1>4. \E f : Adds(f, Len(m))
  BY <1>3
<1>5. Adds(CHOOSE f : Adds(f, Len(m)), Len(m))
  BY <1>4
<1>. QED
  BY <1>5 DEF Ends

\* The ends are in order, and the last entry ends where the MADT does.
LEMMA EndsOrdered ==
  ASSUME NEW B, NEW m \in Seq(Seq(B))
  PROVE  /\ Ends(m) \in [0 .. Len(m) -> Nat] /\ Ends(m)[0] = 0
         /\ \A k \in 1 .. Len(m) : Ends(m)[k] = Ends(m)[k - 1] + Len(m[k])
         /\ \A k \in 0 .. Len(m) : \A j \in 0 .. k : Ends(m)[j] <= Ends(m)[k]
<1>. DEFINE e == Ends(m)
            n == Len(m)
            S == {k \in Nat : k <= n => \A j \in 0 .. k : e[j] \in Nat /\ e[j] <= e[k]}
<1>1. n \in Nat /\ \A k \in 1 .. n : Len(m[k]) \in Nat
  OBVIOUS
<1>2. e = [k \in 0 .. n |-> IF k = 0 THEN 0 ELSE e[k - 1] + Len(m[k])]
  BY <1>1, EndsIs
<1>. HIDE DEF e, n
<1>3. e[0] = 0 /\ \A k \in 1 .. n : e[k] = e[k - 1] + Len(m[k])
  <2>1. 0 \in 0 .. n
    BY <1>1
  <2>2. ASSUME NEW k \in 1 .. n PROVE e[k] = e[k - 1] + Len(m[k])
    <3>1. k \in 0 .. n /\ k # 0
      BY <1>1
    <3>. QED
      BY <1>2, <3>1
  <2>. QED
    BY <1>2, <2>1, <2>2
<1>4. 0 \in S
  BY <1>3
<1>5. ASSUME NEW k \in Nat, k \in S PROVE k + 1 \in S
  <2>1. SUFFICES ASSUME k + 1 <= n
                 PROVE  \A j \in 0 .. k + 1 : e[j] \in Nat /\ e[j] <= e[k + 1]
    OBVIOUS
  <2>2. e[k] \in Nat /\ \A j \in 0 .. k : e[j] \in Nat /\ e[j] <= e[k]
    BY <1>1, <1>5, <2>1
  <2>3. e[k + 1] = e[k] + Len(m[k + 1]) /\ Len(m[k + 1]) \in Nat
    BY <1>1, <1>3, <2>1
  <2>4. \A j \in 0 .. k + 1 : j \in 0 .. k \/ j = k + 1
    OBVIOUS
  <2>. QED
    BY <2>2, <2>3, <2>4
<1>6. \A k \in Nat : k \in S
  BY <1>4, <1>5, NatSet
<1>7. \A k \in 0 .. n : e[k] \in Nat /\ \A j \in 0 .. k : e[j] <= e[k]
  BY <1>1, <1>6
<1>8. e \in [0 .. n -> Nat]
  BY <1>2, <1>7
<1>. QED
  BY <1>3, <1>7, <1>8 DEF e, n

\* Two sequences one behind the other.
LEMMA Joined ==
  ASSUME NEW B, NEW s \in Seq(B), NEW t \in Seq(B)
  PROVE  /\ s \o t \in Seq(B) /\ Len(s \o t) = Len(s) + Len(t)
         /\ \A i \in 1 .. Len(s) : (s \o t)[i] = s[i]
         /\ \A i \in 1 .. Len(t) : (s \o t)[Len(s) + i] = t[i]
OBVIOUS

\* The bytes of a MADT: entry j follows the j - 1 before it.
LEMMA BytesAre ==
  ASSUME NEW B, NEW m \in Seq(Seq(B))
  PROVE  /\ Bytes(m) \in Seq(B) /\ Len(Bytes(m)) = Ends(m)[Len(m)]
         /\ \A j \in 1 .. Len(m) : \A i \in 1 .. Len(m[j]) :
              Bytes(m)[Ends(m)[j - 1] + i] = m[j][i]
<1>. DEFINE e == Ends(m)
            n == Len(m)
<1>1. n \in Nat /\ \A k \in 1 .. n : m[k] \in Seq(B) /\ Len(m[k]) \in Nat
  OBVIOUS
<1>2. /\ e \in [0 .. n -> Nat] /\ e[0] = 0
      /\ \A k \in 1 .. n : e[k] = e[k - 1] + Len(m[k])
      /\ \A k \in 0 .. n : \A j \in 0 .. k : e[j] <= e[k]
  BY EndsOrdered
<1>3. CASE n = 0
  <2>1. m = <<>> /\ Bytes(m) = <<>>
    BY <1>3 DEF Bytes, FlattenSeq
  <2>. QED
    BY <1>2, <1>3, <2>1
<1>4. CASE n # 0
  <2>1. PICK f : /\ Bytes(m) = f[n]
                 /\ f = [i \in 1 .. n |-> IF i = 1 THEN m[i] ELSE f[i - 1] \o m[i]]
    BY <1>1, <1>4, FlattenIs DEF Bytes
  <2>2. f[1] = m[1] /\ \A k \in 1 .. n : k + 1 <= n => f[k + 1] = f[k] \o m[k + 1]
    <3>1. 1 \in 1 .. n
      BY <1>1, <1>4
    <3>2. ASSUME NEW k \in 1 .. n, k + 1 <= n PROVE f[k + 1] = f[k] \o m[k + 1]
      <4>1. k + 1 \in 1 .. n /\ k + 1 # 1 /\ (k + 1) - 1 = k
        BY <1>1, <3>2
      <4>. QED
        BY <2>1, <4>1
    <3>. QED
      BY <2>1, <3>1, <3>2
  <2>. DEFINE Holds(k) == /\ f[k] \in Seq(B) /\ Len(f[k]) = e[k]
                          /\ \A j \in 1 .. k : \A i \in 1 .. Len(m[j]) :
                               f[k][e[j - 1] + i] = m[j][i]
              S == {k \in Nat : k + 1 <= n => Holds(k + 1)}
  <2>. HIDE DEF e, n
  <2>3. 0 \in S
    <3>1. 1 \in 1 .. n /\ 1 - 1 = 0
      BY <1>1, <1>4
    <3>2. Holds(1)
      BY <1>1, <1>2, <2>2, <3>1
    <3>. QED
      BY <3>2
  <2>4. ASSUME NEW k \in Nat, k \in S PROVE k + 1 \in S
    <3>1. SUFFICES ASSUME k + 2 <= n PROVE Holds(k + 2)
      OBVIOUS
    <3>. DEFINE p == k + 1
    <3>2. p \in 1 .. n /\ p + 1 \in 1 .. n /\ p + 1 = k + 2 /\ Holds(p)
      BY <1>1, <2>4, <3>1
    <3>. HIDE DEF p
    <3>3. /\ f[p] \in Seq(B) /\ m[p + 1] \in Seq(B) /\ f[p + 1] = f[p] \o m[p + 1]
          /\ Len(f[p]) = e[p] /\ p \in Nat
      <4>1. p \in Nat /\ p + 1 <= n
        BY <1>1, <3>2
      <4>2. f[p + 1] = f[p] \o m[p + 1]
        BY <2>2, <3>2, <4>1
      <4>3. f[p] \in Seq(B) /\ Len(f[p]) = e[p]
        BY <3>2
      <4>4. m[p + 1] \in Seq(B)
        BY <1>1, <3>2
      <4>. QED
        BY <4>1, <4>2, <4>3, <4>4
    <3>4. /\ f[p + 1] \in Seq(B) /\ Len(f[p + 1]) = e[p] + Len(m[p + 1])
          /\ \A i \in 1 .. e[p] : f[p + 1][i] = f[p][i]
          /\ \A i \in 1 .. Len(m[p + 1]) : f[p + 1][e[p] + i] = m[p + 1][i]
      <4>. DEFINE g == f[p]
                  h == m[p + 1]
      <4>1. g \in Seq(B) /\ h \in Seq(B)
        BY <3>3
      <4>. HIDE DEF g, h
      <4>2. /\ g \o h \in Seq(B) /\ Len(g \o h) = Len(g) + Len(h)
            /\ \A i \in 1 .. Len(g) : (g \o h)[i] = g[i]
            /\ \A i \in 1 .. Len(h) : (g \o h)[Len(g) + i] = h[i]
        BY <4>1, Joined
      <4>3. f[p + 1] = g \o h /\ Len(g) = e[p] /\ g = f[p] /\ h = m[p + 1]
        BY <3>3 DEF g, h
      <4>. QED
        BY <4>2, <4>3, Zenon
    <3>5. (p + 1) - 1 = p /\ e[p + 1] = e[p] + Len(m[p + 1])
      BY <1>2, <3>2, <3>3
    <3>6. ASSUME NEW j \in 1 .. p + 1, NEW i \in 1 .. Len(m[j])
          PROVE  f[p + 1][e[j - 1] + i] = m[j][i]
      <4>1. CASE j = p + 1
        BY <3>4, <3>5, <3>6, <4>1
      <4>2. CASE j # p + 1
        <5>1. j \in 1 .. p /\ j \in 1 .. n /\ j - 1 \in 0 .. n /\ j \in 0 .. p /\ p \in 0 .. n
          BY <1>1, <3>2, <3>3, <4>2
        <5>2. /\ e[j - 1] \in Nat /\ e[j] = e[j - 1] + Len(m[j]) /\ e[j] <= e[p] /\ e[p] \in Nat
              /\ Len(m[j]) \in Nat
          BY <1>1, <1>2, <5>1
        <5>3. e[j - 1] + i \in 1 .. e[p]
          <6>1. i \in Nat /\ i >= 1 /\ i <= Len(m[j])
            BY <5>2
          <6>2. e[j - 1] + i <= e[j - 1] + Len(m[j])
            BY <5>2, <6>1
          <6>3. e[j - 1] + i >= 1 /\ e[j - 1] + i \in Nat
            BY <5>2, <6>1
          <6>4. e[j - 1] + i <= e[j]
            BY <5>2, <6>2, Zenon
          <6>5. e[j] \in Nat
            BY <5>2
          <6>. QED
            BY <5>2, <6>3, <6>4, <6>5
        <5>. QED
          BY <3>2, <3>4, <5>1, <5>3
      <4>. QED
        BY <4>1, <4>2
    <3>7. Holds(p + 1)
      BY <3>4, <3>5, <3>6
    <3>. QED
      BY <3>2, <3>7
  <2>5. \A k \in Nat : k \in S
    BY <2>3, <2>4, NatSet
  <2>6. n - 1 \in Nat /\ (n - 1) + 1 = n
    BY <1>1, <1>4
  <2>7. Holds(n)
    <3>. HIDE DEF Holds
    <3>1. n - 1 \in S
      BY <2>5, <2>6, Zenon
    <3>2. Holds((n - 1) + 1)
      BY <1>1, <2>6, <3>1
    <3>. QED
      BY <2>6, <3>2, Zenon
  <2>. QED
    BY <2>1, <2>7 DEF e, n
<1>. QED
  BY <1>3, <1>4

-----------------------------------------------------------------------------
(* What the properties are made of.                                        *)

\* A MADT in memory, and what follows it.
LEMMA MadtBytes ==
  ASSUME NEW m \in Madts, NEW a \in Behind
  PROVE  LET e == Ends(m)
             b == Bytes(m)
         IN  /\ e \in [0 .. Len(m) -> Nat] /\ Len(m) \in Nat
             /\ Len(b) = e[Len(m)] /\ Len(b) \in Nat
             /\ \A k \in 1 .. Len(m) : /\ e[k] = e[k - 1] + Len(m[k]) /\ e[k] <= Len(b)
                                       /\ m[k][2] = Len(m[k]) /\ Len(m[k]) \in Nat
                                       /\ Len(m[k]) >= 3
             /\ \A k \in 1 .. Len(m) : \A i \in 1 .. 3 : (b \o a)[e[k - 1] + i] = m[k][i]
             /\ \A i \in 1 .. 10 : (b \o a)[Len(b) + i] = a[i] /\ a[i] \in Byte
<1>. DEFINE b == Bytes(m)
            e == Ends(m)
<1>1. /\ m \in Seq(Seq(Byte)) /\ a \in Seq(Byte) /\ Len(a) >= 10
      /\ \A k \in DOMAIN m : Len(m[k]) >= 3 /\ m[k][2] = Len(m[k])
  BY AcpiAssumption, Zenon
<1>2. /\ DOMAIN m = 1 .. Len(m) /\ Len(m) \in Nat /\ Len(a) \in Nat
      /\ \A k \in 1 .. Len(m) : Len(m[k]) \in Nat
  BY <1>1
<1>3. /\ b \in Seq(Byte) /\ Len(b) = e[Len(m)]
      /\ \A j \in 1 .. Len(m) : \A i \in 1 .. Len(m[j]) : b[e[j - 1] + i] = m[j][i]
  <2>1. \A B, x : x \in Seq(Seq(B)) =>
          /\ Bytes(x) \in Seq(B) /\ Len(Bytes(x)) = Ends(x)[Len(x)]
          /\ \A j \in 1 .. Len(x) : \A i \in 1 .. Len(x[j]) :
               Bytes(x)[Ends(x)[j - 1] + i] = x[j][i]
    BY BytesAre, Zenon
  <2>2. m \in Seq(Seq(Byte))
    BY <1>1
  <2>. QED
    BY <2>1, <2>2
<1>4. /\ e \in [0 .. Len(m) -> Nat]
      /\ \A k \in 1 .. Len(m) : e[k] = e[k - 1] + Len(m[k])
      /\ \A k \in 0 .. Len(m) : \A j \in 0 .. k : e[j] <= e[k]
  BY <1>1, EndsOrdered, Zenon
<1>. HIDE DEF b, e
<1>5. /\ \A i \in 1 .. Len(b) : (b \o a)[i] = b[i]
      /\ \A i \in 1 .. Len(a) : (b \o a)[Len(b) + i] = a[i]
  <2>1. b \in Seq(Byte) /\ a \in Seq(Byte)
    BY <1>1, <1>3
  <2>. QED
    BY <2>1, Joined
<1>6. Len(b) \in Nat /\ \A i \in 1 .. Len(a) : a[i] \in Byte
  BY <1>1, <1>3
<1>7. ASSUME NEW k \in 1 .. Len(m)
      PROVE  /\ e[k - 1] \in Nat /\ e[k] \in Nat /\ e[k] = e[k - 1] + Len(m[k])
             /\ e[k] <= Len(b)
  <2>1. k - 1 \in 0 .. Len(m) /\ Len(m) \in 0 .. Len(m) /\ k \in 0 .. Len(m)
    BY <1>2
  <2>. QED
    BY <1>3, <1>4, <2>1
<1>8. ASSUME NEW k \in 1 .. Len(m), NEW i \in 1 .. 3 PROVE (b \o a)[e[k - 1] + i] = m[k][i]
  <2>1. Len(m[k]) \in Nat /\ Len(m[k]) >= 3
    BY <1>1, <1>2
  <2>2. i \in 1 .. Len(m[k]) /\ e[k - 1] + i \in 1 .. Len(b)
    <3>1. i \in 1 .. Len(m[k])
      BY <2>1
    <3>2. e[k - 1] + i >= 1 /\ e[k - 1] + i <= e[k - 1] + Len(m[k]) /\ e[k - 1] + i \in Int
      BY <1>7, <2>1
    <3>. QED
      <4>1. e[k - 1] + Len(m[k]) <= Len(b)
        BY <1>7
      <4>2. e[k - 1] + Len(m[k]) \in Int
        BY <1>7, <2>1
      <4>. QED
        BY <1>6, <3>1, <3>2, <4>1, <4>2
  <2>. QED
    BY <1>3, <1>5, <2>2
<1>9. \A i \in 1 .. 10 : i \in 1 .. Len(a)
  BY <1>1, <1>2
<1>10. \A k \in 1 .. Len(m) : /\ e[k] = e[k - 1] + Len(m[k]) /\ e[k] <= Len(b)
                             /\ m[k][2] = Len(m[k]) /\ Len(m[k]) \in Nat
                             /\ Len(m[k]) >= 3
  BY <1>1, <1>2, <1>7
<1>11. \A i \in 1 .. 10 : (b \o a)[Len(b) + i] = a[i] /\ a[i] \in Byte
  BY <1>5, <1>6, <1>9
<1>. QED
  BY <1>2, <1>3, <1>4, <1>6, <1>8, <1>10, <1>11, Zenon DEF b, e

\* The table the walk is in.
LEMMA TableIs ==
  ASSUME Firmware, Types, table <= Len(rsdt[range]), rsdt[range][table] # <<>>
  PROVE  /\ rsdt[range][table] \in Madts /\ behind \in Behind
         /\ Size = Len(Bytes(rsdt[range][table]))
         /\ Memory = Bytes(rsdt[range][table]) \o behind
<1>1. rsdt[range] \in Seq(Tables) /\ table \in 1 .. Len(rsdt[range])
  BY DEF Firmware, Types
<1>2. rsdt[range][table] \in Tables
  BY <1>1
<1>. QED
  BY <1>2 DEF Firmware, Tables, Size, Memory

\* The UIDs that the tables of a range list, table by table.
LEMMA UidsAre ==
  ASSUME NEW r \in 1 .. 2, rsdt \in [1 .. 2 -> Seq(Tables)]
  PROVE  /\ \A t \in 1 .. Len(rsdt[r]) : \A k \in 1 .. Len(rsdt[r][t]) :
              rsdt[r][t][k][1] = 0 => rsdt[r][t][k][3] \in Uids(r)
         /\ \A x \in Uids(r) : \E t \in 1 .. Len(rsdt[r]) :
              x \in IdsUpTo(rsdt[r][t], Len(rsdt[r][t]))
<1>. DEFINE s == rsdt[r]
<1>1. /\ s \in Seq(Tables) /\ DOMAIN s = 1 .. Len(s)
      /\ \A t \in 1 .. Len(s) : s[t] \in Tables
  OBVIOUS
<1>2. \A m \in Tables : DOMAIN m = 1 .. Len(m)
  BY AcpiAssumption DEF Tables
<1>3. Uids(r) = {e[3] : e \in {x \in UNION {Range(m) : m \in Range(s)} : x[1] = 0}}
  BY DEF Uids, LocalApics, Uid
<1>. HIDE DEF s
<1>4. ASSUME NEW t \in 1 .. Len(s), NEW k \in 1 .. Len(s[t]), s[t][k][1] = 0
      PROVE  s[t][k][3] \in Uids(r)
  <2>1. s[t] \in Range(s)
    BY <1>1 DEF Range
  <2>2. s[t][k] \in Range(s[t])
    BY <1>1, <1>2 DEF Range
  <2>. QED
    BY <1>3, <1>4, <2>1, <2>2
<1>5. ASSUME NEW x \in Uids(r)
      PROVE  \E t \in 1 .. Len(s) : x \in IdsUpTo(s[t], Len(s[t]))
  <2>1. PICK m \in Range(s) : \E e \in Range(m) : e[1] = 0 /\ x = e[3]
    BY <1>3
  <2>2. PICK t \in 1 .. Len(s) : m = s[t]
    BY <1>1, <2>1 DEF Range
  <2>3. PICK k \in 1 .. Len(m) : m[k][1] = 0 /\ x = m[k][3]
    BY <1>1, <1>2, <2>1, <2>2 DEF Range
  <2>4. x \in IdsUpTo(m, Len(m))
    BY <2>3 DEF IdsUpTo
  <2>. QED
    BY <2>2, <2>4
<1>. QED
  BY <1>4, <1>5 DEF s

-----------------------------------------------------------------------------
(* The steps.                                                              *)

\* The sequences of at most n elements are sequences.
LEMMA BoundedIsSeq ==
  ASSUME NEW S, NEW n \in Nat, NEW s \in BoundedSeq(S, n)
  PROVE  s \in Seq(S)
<1>1. PICK k \in 0 .. n : s \in [1 .. k -> S]
  BY DEF BoundedSeq, SeqOf
<1>. QED
  BY <1>1

\* The ranges that check_rsdt looks through are not empty.
LEMMA Ranges ==
  ASSUME NEW r \in 1 .. 2, Firmware
  PROVE  /\ Paragraphs[r] \in Nat \ {0} /\ place[r] \in Int
         /\ place[r] >= -1 /\ place[r] < Paragraphs[r]
  BY AcpiAssumption DEF Firmware

\* init starts at the first paragraph of the EBDA.
LEMMA AStarts == Init => AInv
<1>. SUFFICES ASSUME Init PROVE AInv
  OBVIOUS
<1>1. Firmware
  <2>1. rsdt \in [1 .. 2 -> Seq(Tables)]
    <3>1. rsdt \in [1 .. 2 -> BoundedSeq(Tables, MaxTables)] /\ MaxTables \in Nat
      BY AcpiAssumption DEF Init, Tables
    <3>2. \A r \in 1 .. 2 : rsdt[r] \in Seq(Tables)
      BY <3>1, BoundedIsSeq
    <3>. QED
      BY <3>1, <3>2
  <2>. QED
    BY <2>1 DEF Init, Firmware
<1>2. pc = "scan" /\ range = 1 /\ para = 0 /\ table = 1 /\ pos = 0 /\ nodes = {}
  BY DEF Init
<1>3. Paragraphs[1] \in Nat /\ place[1] \in Int /\ place[1] >= -1
  BY <1>1, Ranges
<1>4. Types /\ Searching
  BY <1>2, <1>3 DEF Types, Searching
<1>5. Found /\ Passed /\ Walking /\ Recorded
  BY <1>2 DEF Found, Passed, Walking, Recorded
<1>. QED
  BY <1>1, <1>4, <1>5 DEF AInv

\* check_rsdt passes a paragraph that has no RSDP and stops at one that has.
LEMMA ScanStep == AInv /\ Scan => AInv'
<1>. SUFFICES ASSUME AInv, Scan PROVE AInv'
  OBVIOUS
<1>1. /\ pc = "scan" /\ para < Paragraphs[range] /\ UNCHANGED <<firmware, range, table, pos, nodes>>
      /\ place' = place /\ rsdt' = rsdt /\ behind' = behind /\ range' = range
      /\ table' = table /\ pos' = pos /\ nodes' = nodes
  BY DEF Scan, firmware
<1>2. /\ Firmware /\ range \in 1 .. 2 /\ para \in Nat /\ pos \in Nat
      /\ nodes = {} /\ table = 1
      /\ place[range] = -1 \/ para <= place[range]
      /\ range = 2 => place[1] = -1
  BY <1>1 DEF AInv, Types, Searching
<1>3. /\ Paragraphs[range] \in Nat \ {0} /\ place[range] \in Int /\ place[range] >= -1
  BY <1>2, Ranges
<1>4. Firmware'
  BY <1>1, <1>2 DEF Firmware
<1>5. Recorded' /\ Passed'
  BY <1>1, <1>2 DEF Recorded, Passed
<1>6. CASE place[range] = para
  <2>1. pc' = "rsdt" /\ para' = para
    BY <1>6 DEF Scan
  <2>2. Used' = Used /\ range = Used
    BY <1>1, <1>2, <1>6 DEF Used
  <2>3. Len(rsdt[range]) \in Nat
    BY <1>2 DEF Firmware
  <2>4. Types' /\ Searching' /\ Walking'
    BY <1>1, <1>2, <2>1 DEF Types, Searching, Walking
  <2>5. Found'
    BY <1>1, <1>2, <2>1, <2>2, <2>3 DEF Found
  <2>. QED
    BY <1>4, <1>5, <2>4, <2>5 DEF AInv
<1>7. CASE place[range] # para
  <2>1. pc' = pc /\ para' = para + 1
    BY <1>7 DEF Scan
  <2>2. Types' /\ Found' /\ Walking'
    BY <1>1, <1>2, <2>1 DEF Types, Found, Walking
  <2>3. Searching'
    BY <1>1, <1>2, <1>3, <1>7, <2>1 DEF Searching
  <2>. QED
    BY <1>4, <1>5, <2>2, <2>3 DEF AInv
<1>. QED
  BY <1>6, <1>7

\* A range that was looked through to its end has no RSDP.
LEMMA ScanEndStep == AInv /\ ScanEnd => AInv'
<1>. SUFFICES ASSUME AInv, ScanEnd PROVE AInv'
  OBVIOUS
<1>1. /\ pc = "scan" /\ para = Paragraphs[range]
      /\ place' = place /\ rsdt' = rsdt /\ behind' = behind
      /\ table' = table /\ pos' = pos /\ nodes' = nodes
  BY DEF ScanEnd, firmware
<1>2. /\ Firmware /\ range \in 1 .. 2 /\ para \in Nat /\ pos \in Nat
      /\ nodes = {} /\ table = 1
      /\ place[range] = -1 \/ para <= place[range]
      /\ range = 2 => place[1] = -1
  BY <1>1 DEF AInv, Types, Searching
<1>3. place[range] = -1
  <2>1. /\ Paragraphs[range] \in Nat \ {0} /\ place[range] \in Int
        /\ place[range] < Paragraphs[range]
    BY <1>2, Ranges
  <2>. QED
    BY <1>1, <1>2, <2>1
<1>4. Firmware'
  BY <1>1, <1>2 DEF Firmware
<1>5. Recorded' /\ Passed'
  BY <1>1, <1>2 DEF Recorded, Passed
<1>6. CASE range = 1
  <2>1. pc' = pc /\ range' = 2 /\ para' = 0
    BY <1>6 DEF ScanEnd
  <2>2. Paragraphs[2] \in Nat /\ place[2] \in Int /\ place[2] >= -1
    BY <1>2, Ranges
  <2>3. Types' /\ Found' /\ Walking'
    BY <1>1, <1>2, <2>1 DEF Types, Found, Walking
  <2>4. Searching'
    BY <1>1, <1>2, <1>3, <1>6, <2>1, <2>2 DEF Searching
  <2>. QED
    BY <1>4, <1>5, <2>3, <2>4 DEF AInv
<1>7. CASE range # 1
  <2>1. pc' = "done" /\ range' = range /\ para' = para /\ range = 2
    BY <1>2, <1>7 DEF ScanEnd
  <2>2. Types' /\ Searching' /\ Walking'
    BY <1>1, <1>2, <2>1 DEF Types, Searching, Walking
  <2>3. Found'
    BY <1>1, <1>2, <1>3, <2>1 DEF Found
  <2>. QED
    BY <1>4, <1>5, <2>2, <2>3 DEF AInv
<1>. QED
  BY <1>6, <1>7

\* What is known of the RSDT while its tables are looked at.
LEMMA AtTables ==
  ASSUME AInv, pc \in {"rsdt", "walk"}
  PROVE  /\ Firmware /\ Types /\ range \in 1 .. 2 /\ range = Used /\ table \in Nat \ {0}
         /\ pos \in Nat
         /\ rsdt[range] \in Seq(Tables) /\ Len(rsdt[range]) \in Nat
         /\ table <= Len(rsdt[range]) + 1
         /\ pc = "walk" => table <= Len(rsdt[range]) /\ rsdt[range][table] # <<>>
<1>1. Firmware /\ Types /\ Found
  BY DEF AInv
<1>2. rsdt[range] \in Seq(Tables)
  BY <1>1 DEF Firmware, Types
<1>. QED
  BY <1>1, <1>2 DEF Found, Types

\* A MADT is entered at its first entry, and another table is passed.
LEMMA NextTableStep == AInv /\ NextTable => AInv'
<1>. SUFFICES ASSUME AInv, NextTable PROVE AInv'
  OBVIOUS
<1>1. /\ pc = "rsdt" /\ table <= Len(rsdt[range])
      /\ place' = place /\ rsdt' = rsdt /\ behind' = behind
      /\ range' = range /\ para' = para /\ nodes' = nodes
  BY DEF NextTable, firmware
<1>2. /\ Firmware /\ Types /\ range \in 1 .. 2 /\ range = Used /\ table \in Nat \ {0} /\ pos \in Nat
      /\ rsdt[range] \in Seq(Tables) /\ Len(rsdt[range]) \in Nat
  BY <1>1, AtTables
<1>3. Firmware' /\ Recorded' /\ Used' = Used
  BY <1>1 DEF AInv, Firmware, Recorded, Uids, LocalApics, Used
<1>4. CASE rsdt[range][table] = <<>>
  <2>1. table' = table + 1 /\ pc' = pc /\ pos' = pos
    BY <1>4 DEF NextTable
  <2>2. Types' /\ Searching' /\ Walking'
    BY <1>1, <1>2, <2>1 DEF Types, Searching, Walking
  <2>3. Found'
    BY <1>1, <1>2, <1>3, <2>1 DEF Found
  <2>4. ASSUME NEW t \in 1 .. table, t \in DOMAIN rsdt[range]
        PROVE  IdsUpTo(rsdt[range][t], Len(rsdt[range][t])) \subseteq nodes
    <3>1. CASE t = table
      BY <1>4, <3>1 DEF IdsUpTo
    <3>2. CASE t # table
      <4>1. t \in 1 .. table - 1
        BY <1>2, <3>2
      <4>. QED
        BY <2>4, <4>1 DEF AInv, Passed
    <3>. QED
      BY <3>1, <3>2
  <2>5. (table + 1) - 1 = table
    BY <1>2
  <2>6. Passed'
    BY <1>1, <2>1, <2>4, <2>5 DEF Passed
  <2>. QED
    BY <1>3, <2>2, <2>3, <2>6 DEF AInv
<1>5. CASE rsdt[range][table] # <<>>
  <2>1. table' = table /\ pc' = "walk" /\ pos' = 0
    BY <1>5 DEF NextTable
  <2>2. Types' /\ Searching'
    BY <1>1, <1>2, <2>1 DEF Types, Searching
  <2>3. Found'
    BY <1>1, <1>2, <1>3, <1>5, <2>1 DEF Found
  <2>4. Passed'
    BY <1>1, <2>1 DEF AInv, Passed
  <2>. DEFINE m == rsdt[range][table]
  <2>5. m \in Madts
    BY <1>1, <1>2, <1>5, TableIs
  <2>6. m \in Seq(Seq(Byte)) /\ m # <<>>
    BY <1>5, <2>5, AcpiAssumption
  <2>. HIDE DEF m
  <2>7. Ends(m)[0] = 0
    BY <2>6, EndsOrdered
  <2>8. 0 \in 0 .. Len(m) - 1
    BY <2>6
  <2>9. IdsUpTo(m, 0) = {}
    BY DEF IdsUpTo
  <2>10. Walking'
    BY <1>1, <2>1, <2>7, <2>8, <2>9 DEF Walking, m
  <2>. QED
    BY <1>3, <2>2, <2>3, <2>4, <2>10 DEF AInv
<1>. QED
  BY <1>4, <1>5

\* init returns behind the last table.
LEMMA RsdtEndStep == AInv /\ RsdtEnd => AInv'
<1>. SUFFICES ASSUME AInv, RsdtEnd PROVE AInv'
  OBVIOUS
<1>1. /\ pc = "rsdt" /\ table > Len(rsdt[range]) /\ pc' = "done"
      /\ place' = place /\ rsdt' = rsdt /\ behind' = behind
      /\ range' = range /\ para' = para /\ table' = table /\ pos' = pos /\ nodes' = nodes
  BY DEF RsdtEnd, firmware
<1>2. /\ Types /\ range = Used /\ table \in Nat \ {0} /\ Len(rsdt[range]) \in Nat
      /\ table <= Len(rsdt[range]) + 1
  BY <1>1, AtTables
<1>3. /\ Firmware' /\ Recorded' /\ Passed' /\ Types' /\ Searching' /\ Walking' /\ Used' = Used
  <2>1. Firmware' /\ Used' = Used
    BY <1>1 DEF AInv, Firmware, Used
  <2>2. Recorded' /\ Passed'
    BY <1>1, <2>1 DEF AInv, Recorded, Uids, LocalApics, Passed
  <2>3. Types' /\ Searching' /\ Walking'
    BY <1>1, <1>2 DEF Types, Searching, Walking
  <2>. QED
    BY <2>1, <2>2, <2>3
<1>4. Found'
  BY <1>1, <1>2, <1>3 DEF Found
<1>. QED
  BY <1>3, <1>4 DEF AInv

\* The ids of one more entry.
LEMMA OneMore ==
  ASSUME NEW m, NEW k \in Nat
  PROVE  IdsUpTo(m, k + 1) =
           IdsUpTo(m, k) \cup (IF m[k + 1][1] = 0 THEN {m[k + 1][3]} ELSE {})
<1>1. \A i : i \in 1 .. k + 1 <=> i \in 1 .. k \/ i = k + 1
  OBVIOUS
<1>. QED
  BY <1>1, Zenon DEF IdsUpTo

\* The walk leaves a MADT that it has recorded.
LEMMA WalkEndStep == AInv /\ WalkEnd => AInv'
<1>. SUFFICES ASSUME AInv, WalkEnd PROVE AInv'
  OBVIOUS
<1>1. /\ pc = "walk" /\ pos >= Size + 8 /\ pc' = "rsdt" /\ table' = table + 1
      /\ place' = place /\ rsdt' = rsdt /\ behind' = behind
      /\ range' = range /\ para' = para /\ pos' = pos /\ nodes' = nodes
  BY DEF WalkEnd, firmware
<1>2. /\ Firmware /\ Types /\ range = Used /\ table \in Nat \ {0} /\ Len(rsdt[range]) \in Nat
      /\ table <= Len(rsdt[range]) /\ rsdt[range][table] # <<>> /\ pos \in Nat
  BY <1>1, AtTables
<1>3. /\ Firmware' /\ Recorded' /\ Types' /\ Searching' /\ Walking' /\ Used' = Used
  <2>1. Firmware' /\ Used' = Used
    BY <1>1 DEF AInv, Firmware, Used
  <2>2. Recorded'
    BY <1>1, <2>1 DEF AInv, Recorded, Uids, LocalApics
  <2>3. Types' /\ Searching' /\ Walking'
    BY <1>1, <1>2 DEF Types, Searching, Walking
  <2>. QED
    BY <2>1, <2>2, <2>3
<1>4. Found'
  BY <1>1, <1>2, <1>3 DEF Found
<1>. DEFINE m == rsdt[range][table]
<1>5. IdsUpTo(m, Len(m)) \subseteq nodes
  <2>1. m \in Madts /\ behind \in Behind /\ Size = Len(Bytes(m))
    BY <1>2, TableIs
  <2>. HIDE DEF m
  <2>2. /\ Len(m) \in Nat /\ Size \in Nat
        /\ \A k \in 1 .. Len(m) : Ends(m)[k] <= Size
        /\ Ends(m) \in [0 .. Len(m) -> Nat] /\ Ends(m)[0] = 0
    <3>1. m \in Seq(Seq(Byte))
      BY <2>1, AcpiAssumption
    <3>. QED
      BY <2>1, <3>1, MadtBytes, EndsOrdered
  <2>3. \A k \in 0 .. Len(m) - 1 : Ends(m)[k] \in Nat /\ Ends(m)[k] <= Size
    <3>. TAKE k \in 0 .. Len(m) - 1
    <3>1. k = 0 \/ k \in 1 .. Len(m)
      BY <2>2
    <3>2. k \in 0 .. Len(m)
      BY <2>2
    <3>. QED
      BY <2>2, <3>1, <3>2
  <2>4. \A k \in 0 .. Len(m) - 1 : pos # Ends(m)[k]
    BY <1>1, <1>2, <2>2, <2>3
  <2>5. \/ \E k \in 0 .. Len(m) - 1 : pos = Ends(m)[k] /\ IdsUpTo(m, k) \subseteq nodes
        \/ pos >= Size /\ IdsUpTo(m, Len(m)) \subseteq nodes
    BY <1>1 DEF AInv, Walking, m
  <2>. QED
    BY <2>4, <2>5
<1>6. ASSUME NEW t \in 1 .. table, t \in DOMAIN rsdt[range]
      PROVE  IdsUpTo(rsdt[range][t], Len(rsdt[range][t])) \subseteq nodes
  <2>1. CASE t = table
    BY <1>5, <2>1
  <2>2. CASE t # table
    <3>1. t \in 1 .. table - 1
      BY <1>2, <2>2
    <3>. QED
      BY <1>6, <3>1 DEF AInv, Passed
  <2>. QED
    BY <2>1, <2>2
<1>7. (table + 1) - 1 = table
  BY <1>2
<1>8. Passed'
  BY <1>1, <1>6, <1>7 DEF Passed
<1>. QED
  BY <1>3, <1>4, <1>8 DEF AInv

\* The walk records an entry and goes to the next, or looks at what follows the MADT.
LEMMA WalkStep == AInv /\ Walk => AInv'
<1>. SUFFICES ASSUME AInv, Walk PROVE AInv'
  OBVIOUS
<1>1. /\ pc = "walk" /\ pos < Size + 8 /\ pc' = pc /\ table' = table
      /\ place' = place /\ rsdt' = rsdt /\ behind' = behind
      /\ range' = range /\ para' = para
      /\ nodes' = (IF Memory[pos + 1] = 0 THEN nodes \cup {Memory[pos + 3]} ELSE nodes)
      /\ pos' = pos + Memory[pos + 2]
  BY DEF Walk, firmware
<1>2. /\ Firmware /\ Types /\ range \in 1 .. 2 /\ range = Used /\ table \in Nat \ {0}
      /\ rsdt[range] \in Seq(Tables) /\ Len(rsdt[range]) \in Nat
      /\ table <= Len(rsdt[range]) /\ rsdt[range][table] # <<>> /\ pos \in Nat
  BY <1>1, AtTables
<1>3. Firmware' /\ Searching' /\ Found' /\ Uids(Used)' = Uids(Used) /\ Size' = Size
  BY <1>1 DEF AInv, Firmware, Searching, Found, Uids, LocalApics, Used, Size
<1>4. nodes \subseteq nodes'
  BY <1>1
<1>5. Passed'
  BY <1>1, <1>4 DEF AInv, Passed
<1>. DEFINE m == rsdt[range][table]
            e == Ends(m)
<1>6. m \in Madts /\ behind \in Behind /\ Size = Len(Bytes(m)) /\ Memory = Bytes(m) \o behind
  BY <1>2, TableIs
<1>7. /\ \/ \E k \in 0 .. Len(m) - 1 : pos = e[k] /\ IdsUpTo(m, k) \subseteq nodes
         \/ pos >= Size /\ IdsUpTo(m, Len(m)) \subseteq nodes
  BY <1>1 DEF AInv, Walking
<1>8. /\ \A t \in 1 .. Len(rsdt[range]) : \A j \in 1 .. Len(rsdt[range][t]) :
           rsdt[range][t][j][1] = 0 => rsdt[range][t][j][3] \in Uids(range)
  BY <1>2, UidsAre DEF Firmware
<1>9. \A j \in 1 .. Len(m) : m[j][1] = 0 => m[j][3] \in Uids(Used)
  <2>1. table \in 1 .. Len(rsdt[range])
    BY <1>2
  <2>. QED
    BY <1>2, <1>8, <2>1
<1>10. /\ pos' \in Nat
       /\ \/ \E k \in 0 .. Len(m) - 1 : pos' = e[k] /\ IdsUpTo(m, k) \subseteq nodes'
          \/ pos' >= Size /\ IdsUpTo(m, Len(m)) \subseteq nodes'
       /\ nodes' \subseteq Uids(Used) \cup {behind[i] : i \in 3 .. 10}
   => AInv'
  <2>1. SUFFICES ASSUME /\ pos' \in Nat
                        /\ \/ \E k \in 0 .. Len(m) - 1 : pos' = e[k] /\ IdsUpTo(m, k) \subseteq nodes'
                           \/ pos' >= Size /\ IdsUpTo(m, Len(m)) \subseteq nodes'
                        /\ nodes' \subseteq Uids(Used) \cup {behind[i] : i \in 3 .. 10}
                 PROVE  AInv'
    OBVIOUS
  <2>2. Types'
    BY <1>1, <1>2, <2>1 DEF Types
  <2>3. Walking'
    BY <1>1, <1>3, <2>1 DEF Walking
  <2>4. Recorded'
    BY <1>1, <1>3, <2>1 DEF Recorded
  <2>. QED
    BY <1>3, <1>5, <2>2, <2>3, <2>4 DEF AInv
<1>11. nodes \subseteq Uids(Used) \cup {behind[i] : i \in 3 .. 10}
  BY DEF AInv, Recorded
<1>12. /\ e \in [0 .. Len(m) -> Nat] /\ Len(m) \in Nat /\ Size \in Nat /\ Size = e[Len(m)]
       /\ \A k \in 1 .. Len(m) : e[k] = e[k - 1] + Len(m[k]) /\ m[k][2] = Len(m[k])
       /\ \A k \in 1 .. Len(m) : \A i \in 1 .. 3 : Memory[e[k - 1] + i] = m[k][i]
       /\ \A i \in 1 .. 10 : Memory[Size + i] = behind[i] /\ behind[i] \in Byte
  <2>. HIDE DEF m
  <2>. QED
    BY <1>6, MadtBytes
<1>. HIDE DEF m, e
<1>13. Len(m) \in Nat /\ Size \in Nat /\ pos \in Nat /\ pos < Size + 8
  BY <1>1, <1>2, <1>12
<1>14. CASE \E k \in 0 .. Len(m) - 1 : pos = e[k] /\ IdsUpTo(m, k) \subseteq nodes
  <2>1. PICK k \in 0 .. Len(m) - 1 : pos = e[k] /\ IdsUpTo(m, k) \subseteq nodes
    BY <1>14
  <2>2. k \in Nat /\ k + 1 \in 1 .. Len(m) /\ k + 1 \in 0 .. Len(m) /\ (k + 1) - 1 = k
    BY <1>13
  <2>3. /\ e[k + 1] = e[k] + Len(m[k + 1]) /\ m[k + 1][2] = Len(m[k + 1]) /\ e[k + 1] \in Nat
        /\ Memory[e[k] + 1] = m[k + 1][1] /\ Memory[e[k] + 2] = m[k + 1][2]
        /\ Memory[e[k] + 3] = m[k + 1][3]
    <3>1. /\ e[k + 1] = e[k] + Len(m[k + 1]) /\ m[k + 1][2] = Len(m[k + 1]) /\ e[k + 1] \in Nat
      BY <1>12, <2>2
    <3>2. \A i \in 1 .. 3 : Memory[e[(k + 1) - 1] + i] = m[k + 1][i]
      BY <1>12, <2>2, Zenon
    <3>3. \A i \in 1 .. 3 : Memory[e[k] + i] = m[k + 1][i]
      BY <2>2, <3>2, Zenon
    <3>. QED
      BY <3>1, <3>3
  <2>4. /\ pos' = e[k + 1] /\ pos' \in Nat
        /\ nodes' = nodes \cup (IF m[k + 1][1] = 0 THEN {m[k + 1][3]} ELSE {})
    BY <1>1, <2>1, <2>3
  <2>5. IdsUpTo(m, k + 1) \subseteq nodes'
    <3>1. IdsUpTo(m, k + 1) =
            IdsUpTo(m, k) \cup (IF m[k + 1][1] = 0 THEN {m[k + 1][3]} ELSE {})
      BY <2>2, OneMore
    <3>. QED
      BY <2>1, <2>4, <3>1
  <2>6. nodes' \subseteq Uids(Used) \cup {behind[i] : i \in 3 .. 10}
    BY <1>9, <1>11, <2>2, <2>4
  <2>7. CASE k + 1 = Len(m)
    <3>1. pos' = Size
      BY <1>12, <2>4, <2>7, Zenon
    <3>2. pos' >= Size
      BY <1>13, <3>1
    <3>. QED
      BY <1>10, <2>4, <2>5, <2>6, <2>7, <3>2
  <2>8. CASE k + 1 # Len(m)
    <3>1. k + 1 \in 0 .. Len(m) - 1
      BY <1>12, <2>2, <2>8
    <3>. QED
      BY <1>10, <2>4, <2>5, <2>6, <3>1
  <2>. QED
    BY <2>7, <2>8
<1>15. CASE pos >= Size /\ IdsUpTo(m, Len(m)) \subseteq nodes
  <2>. DEFINE q == pos - Size
  <2>1. /\ q + 1 \in 1 .. 10 /\ q + 2 \in 1 .. 10 /\ q + 3 \in 3 .. 10 /\ q + 3 \in 1 .. 10
        /\ Size + (q + 1) = pos + 1 /\ Size + (q + 2) = pos + 2 /\ Size + (q + 3) = pos + 3
    BY <1>13, <1>15
  <2>. HIDE DEF q
  <2>2. /\ Memory[Size + (q + 2)] \in Byte /\ Memory[Size + (q + 3)] = behind[q + 3]
    BY <1>12, <2>1
  <2>3. Memory[pos + 2] \in Nat /\ Memory[pos + 3] = behind[q + 3]
    BY <2>1, <2>2 DEF Byte
  <2>4. pos' \in Nat /\ pos' >= Size
    <3>1. pos' = pos + Memory[pos + 2]
      BY <1>1
    <3>. QED
      BY <1>13, <1>15, <2>3, <3>1
  <2>5. IdsUpTo(m, Len(m)) \subseteq nodes'
    BY <1>4, <1>15
  <2>6. nodes' \subseteq Uids(Used) \cup {behind[i] : i \in 3 .. 10}
    BY <1>1, <1>11, <2>1, <2>3
  <2>. QED
    BY <1>10, <2>4, <2>5, <2>6
<1>. QED
  BY <1>7, <1>14, <1>15

\* AInv is an invariant.
LEMMA AInvariant == Spec => []AInv
<1>1. AInv /\ UNCHANGED vars => AInv'
  <2>. SUFFICES ASSUME AInv, UNCHANGED vars PROVE AInv'
    OBVIOUS
  <2>1. /\ place' = place /\ rsdt' = rsdt /\ behind' = behind /\ pc' = pc /\ range' = range
        /\ para' = para /\ table' = table /\ pos' = pos /\ nodes' = nodes
    BY DEF vars
  <2>2. Firmware' /\ Types' /\ Used' = Used /\ Size' = Size
    BY <2>1 DEF AInv, Firmware, Types, Used, Size
  <2>3. Searching' /\ Passed'
    BY <2>1 DEF AInv, Searching, Passed
  <2>4. Found' /\ Recorded'
    BY <2>1, <2>2 DEF AInv, Found, Recorded, Uids, LocalApics
  <2>5. Walking'
    BY <2>1, <2>2 DEF AInv, Walking
  <2>. QED
    BY <2>2, <2>3, <2>4, <2>5 DEF AInv
<1>2. AInv /\ [Next]_vars => AInv'
  BY <1>1, ScanStep, ScanEndStep, NextTableStep, RsdtEndStep, WalkStep, WalkEndStep DEF Next
<1>. QED
  BY <1>2, AStarts, PTL DEF Spec

\* Whatever MADTs there are and whatever lies behind them, init records every local
\* APIC of the RSDP it finds first, by its UID (which is its APIC id only if the firmware
\* gives both the same value), and nothing else than what it reads in the 10 bytes behind
\* a MADT (apic.cc:75-119).
THEOREM RecordsFirstRsdpHolds == Spec => []RecordsFirstRsdp
<1>1. AInv => RecordsFirstRsdp
  <2>. SUFFICES ASSUME AInv PROVE RecordsFirstRsdp
    OBVIOUS
  <2>1. Firmware /\ Found /\ Passed /\ Recorded /\ Types
    BY DEF AInv
  <2>2. ASSUME pc = "done" PROVE Uids(Used) \subseteq nodes
    <3>1. Used \in 1 .. 2 /\ rsdt \in [1 .. 2 -> Seq(Tables)]
      BY <2>1 DEF Used, Firmware
    <3>2. CASE place[1] = -1 /\ place[2] = -1
      <4>1. rsdt[Used] = <<>>
        BY <2>1, <3>1, <3>2 DEF Firmware, Used
      <4>2. \A x \in Uids(Used) : \E t \in 1 .. Len(rsdt[Used]) :
              x \in IdsUpTo(rsdt[Used][t], Len(rsdt[Used][t]))
        BY <3>1, UidsAre
      <4>. QED
        BY <4>1, <4>2
    <3>3. CASE range = Used /\ table = Len(rsdt[range]) + 1
      <4>1. Len(rsdt[Used]) \in Nat /\ DOMAIN rsdt[Used] = 1 .. Len(rsdt[Used])
        BY <3>1
      <4>2. 1 .. table - 1 = 1 .. Len(rsdt[Used])
        BY <3>3, <4>1
      <4>3. \A t \in 1 .. Len(rsdt[Used]) :
              IdsUpTo(rsdt[Used][t], Len(rsdt[Used][t])) \subseteq nodes
        BY <2>1, <3>3, <4>1, <4>2 DEF Passed
      <4>4. \A x \in Uids(Used) : \E t \in 1 .. Len(rsdt[Used]) :
              x \in IdsUpTo(rsdt[Used][t], Len(rsdt[Used][t]))
        BY <3>1, UidsAre
      <4>. QED
        BY <4>3, <4>4
    <3>. QED
      BY <2>1, <2>2, <3>2, <3>3 DEF Found
  <2>3. pc = "done" => \A e \in LocalApics(Used) : Uid(e) \in nodes
    BY <2>2 DEF Uids
  <2>4. \A n \in nodes :
          (\E e \in LocalApics(Used) : n = Uid(e)) \/ (\E i \in 3 .. 10 : n = behind[i])
    BY <2>1 DEF Recorded, Uids
  <2>5. pc = "done" => \A e \in LocalApics(Used) :
                         Uid(e) \in nodes /\ (ApicId(e) \in nodes \/ ApicId(e) # Uid(e))
    BY <2>3
  <2>. QED
    BY <2>4, <2>5, Zenon DEF RecordsFirstRsdp
<1>. QED
  BY <1>1, AInvariant, PTL
=============================================================================
