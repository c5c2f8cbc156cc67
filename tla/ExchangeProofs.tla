--------------------------- MODULE ExchangeProofs ----------------------------
(***************************************************************************)
(* Proofs about Exchange, for any commands, strings and limits: parse_req  *)
(* accepts exactly what send_req packs, and on_response reads every reply  *)
(* to its end.                                                             *)
(***************************************************************************)
EXTENDS Exchange, KeyspaceProofs

\* Where the arguments of a request end, as parse_req finds them: the end of
\* one, from the end of the one before.
NextEnd(cells, len, pos) ==
  IF pos + 1 > len \/ pos + cells[pos + 1] > len THEN len + 1
  ELSE pos + 1 + cells[pos + 1]

Ends(cells, len) ==
  CHOOSE end : end = [i \in 0 .. cells[1] |->
                        IF i = 0 THEN 1
                        ELSE LET pos == end[i - 1]
                             IN IF pos + 1 > len \/ pos + cells[pos + 1] > len THEN len + 1
                                ELSE pos + 1 + cells[pos + 1]]

LEMMA ParseByEnds ==
  ASSUME NEW cells, NEW len
  PROVE  parse_req(cells, len) =
           IF cells[1] > MaxArgs \/ Ends(cells, len)[cells[1]] # len THEN {}
           ELSE {[i \in 1 .. cells[1] |->
                    SubSeq(cells, Ends(cells, len)[i - 1] + 2, Ends(cells, len)[i])]}
  BY Zenon DEF parse_req, Ends

LEMMA EndsDef ==
  ASSUME NEW cells, NEW len, cells[1] \in Nat
  PROVE  Ends(cells, len) =
           [i \in 0 .. cells[1] |->
              IF i = 0 THEN 1 ELSE NextEnd(cells, len, Ends(cells, len)[i - 1])]
<1> DEFINE e(h, i) == IF i = 0 THEN 1 ELSE NextEnd(cells, len, h[i - 1])
           Grows(f, k) == f = [i \in 0 .. k |-> e(f, i)]
           T == {k \in Nat : \E f : Grows(f, k)}
<1>1. \A h, g, i : (i # 0 => h[i - 1] = g[i - 1]) => e(h, i) = e(g, i)
  OBVIOUS
<1> HIDE DEF e
<1>2. 0 \in T
  <2> DEFINE f == [i \in 0 .. 0 |-> e(<<>>, i)]
  <2>1. \A i \in 0 .. 0 : e(f, i) = e(<<>>, i)
    <3>1. \A i \in 0 .. 0 : i = 0
      OBVIOUS
    <3> QED
      BY <1>1, <3>1
  <2>2. Grows(f, 0)
    BY <2>1
  <2> HIDE DEF f, Grows
  <2> QED
    BY <2>2
<1>3. ASSUME NEW k \in Nat, k \in T PROVE k + 1 \in T
  <2>1. PICK f : Grows(f, k)
    BY <1>3
  <2> DEFINE g == [i \in 0 .. k + 1 |-> e(f, i)]
  <2>2. \A i \in 0 .. k : g[i] = f[i]
    BY <2>1
  <2>3. \A i \in 0 .. k + 1 : i # 0 => g[i - 1] = f[i - 1]
    <3>1. \A i \in 0 .. k + 1 : i # 0 => i - 1 \in 0 .. k
      OBVIOUS
    <3> HIDE DEF g, Grows
    <3> QED
      BY <2>2, <3>1
  <2>4. \A i \in 0 .. k + 1 : e(f, i) = e(g, i)
    <3> HIDE DEF g, Grows
    <3> QED
      BY <1>1, <2>3
  <2>5. Grows(g, k + 1)
    BY <2>4
  <2> HIDE DEF g, Grows
  <2> QED
    BY <2>5
<1>4. cells[1] \in T
  <2> HIDE DEF T
  <2> QED
    BY <1>2, <1>3, SetInduction
<1>5. \E f : Grows(f, cells[1])
  BY <1>4
<1> QED
  BY <1>5, Zenon DEF Ends, e, NextEnd

LEMMA EndsStep ==
  ASSUME NEW cells, NEW len, cells[1] \in Nat
  PROVE  /\ Ends(cells, len)[0] = 1
         /\ \A k \in 0 .. cells[1] - 1 :
              Ends(cells, len)[k + 1] = NextEnd(cells, len, Ends(cells, len)[k])
<1> DEFINE e == Ends(cells, len)
<1>1. e = [i \in 0 .. cells[1] |-> IF i = 0 THEN 1 ELSE NextEnd(cells, len, e[i - 1])]
  BY EndsDef
<1> HIDE DEF e
<1>2. e[0] = 1
  BY <1>1
<1>3. ASSUME NEW k \in 0 .. cells[1] - 1 PROVE e[k + 1] = NextEnd(cells, len, e[k])
  <2>1. k + 1 \in 0 .. cells[1] /\ k + 1 # 0 /\ (k + 1) - 1 = k
    OBVIOUS
  <2> QED
    BY <1>1, <2>1
<1> QED
  BY <1>2, <1>3 DEF e

\* Once past the end, always past the end: if the last argument ends where
\* the request does, each starts and ends in it.
LEMMA EndsInside ==
  ASSUME NEW cells \in Seq(Nat), NEW len \in 0 .. Len(cells), cells # <<>>,
         Ends(cells, len)[cells[1]] = len
  PROVE  /\ Ends(cells, len) \in [0 .. cells[1] -> 1 .. len]
         /\ \A k \in 0 .. cells[1] - 1 :
              /\ Ends(cells, len)[k] < len
              /\ Ends(cells, len)[k + 1] = Ends(cells, len)[k] + 1 + cells[Ends(cells, len)[k] + 1]
<1> DEFINE e == Ends(cells, len)
           n == cells[1]
           U == {k \in Nat : k <= n => e[k] \in 1 .. len + 1}
           D == {k \in Nat : k <= n => e[n - k] \in 1 .. len}
<1>1. n \in Nat /\ Len(cells) \in Nat
  OBVIOUS
<1>2. e[0] = 1 /\ \A k \in 0 .. n - 1 : e[k + 1] = NextEnd(cells, len, e[k])
  BY <1>1, EndsStep
<1>3. DOMAIN e = 0 .. n /\ e = [k \in 0 .. n |-> e[k]]
  BY <1>1, EndsDef
<1>4. e[n] = len
  OBVIOUS
<1> HIDE DEF e, n
<1>5. ASSUME NEW pos \in 1 .. len
      PROVE  /\ NextEnd(cells, len, pos) \in 1 .. len + 1
             /\ \/ NextEnd(cells, len, pos) = len + 1
                \/ pos < len /\ NextEnd(cells, len, pos) = pos + 1 + cells[pos + 1]
  <2>1. pos < len => cells[pos + 1] \in Nat
    OBVIOUS
  <2>2. len \in Nat /\ pos \in 1 .. len
    OBVIOUS
  <2>3. CASE pos + 1 > len \/ pos + cells[pos + 1] > len
    <3>1. NextEnd(cells, len, pos) = len + 1
      BY ONLY <2>3 DEF NextEnd
    <3> QED
      BY ONLY <2>2, <3>1
  <2>4. CASE ~ (pos + 1 > len \/ pos + cells[pos + 1] > len)
    <3>1. PICK y : y = cells[pos + 1]
      OBVIOUS
    <3>2. NextEnd(cells, len, pos) = pos + 1 + y
      BY ONLY <2>4, <3>1 DEF NextEnd
    <3>3. pos < len /\ y \in Nat /\ pos + 1 + y \in 1 .. len + 1
      BY ONLY <2>1, <2>2, <2>4, <3>1
    <3> QED
      BY ONLY <3>1, <3>2, <3>3
  <2> QED
    BY ONLY <2>3, <2>4
<1>6. NextEnd(cells, len, len + 1) = len + 1
  BY DEF NextEnd
<1>7. Nat \subseteq U
  <2>1. 0 \in U
    BY <1>2
  <2>2. ASSUME NEW k \in Nat, k \in U PROVE k + 1 \in U
    <3>1. CASE k + 1 <= n
      <4>1. k \in 0 .. n - 1 /\ e[k] \in 1 .. len + 1
        BY <1>1, <2>2, <3>1
      <4>2. e[k] \in 1 .. len \/ e[k] = len + 1
        BY <4>1
      <4>3. e[k + 1] \in 1 .. len + 1
        BY <1>2, <1>5, <1>6, <4>1, <4>2
      <4> QED
        BY <4>3
    <3> QED
      BY <3>1
  <2> HIDE DEF U
  <2> QED
    BY <2>1, <2>2, SetInduction
<1>8. Nat \subseteq D
  <2>1. 0 \in D
    <3>1. n - 0 = n /\ e[n] \in 1 .. len + 1
      BY <1>1, <1>7
    <3> QED
      BY <1>4, <3>1
  <2>2. ASSUME NEW k \in Nat, k \in D PROVE k + 1 \in D
    <3>1. CASE k + 1 <= n
      <4>1. n - (k + 1) \in 0 .. n - 1 /\ (n - (k + 1)) + 1 = n - k
        BY <1>1, <3>1
      <4>2. e[n - (k + 1)] \in 1 .. len + 1
        BY <1>1, <1>7, <4>1
      <4>3. e[n - k] \in 1 .. len
        BY <1>1, <2>2, <3>1
      <4>4. e[n - k] = NextEnd(cells, len, e[n - (k + 1)])
        BY <1>2, <4>1
      <4>5. e[n - (k + 1)] # len + 1
        BY <1>6, <4>3, <4>4
      <4>6. e[n - (k + 1)] \in 1 .. len
        BY <4>2, <4>5
      <4> QED
        BY <4>6
    <3> QED
      BY <3>1
  <2> HIDE DEF D
  <2> QED
    BY <2>1, <2>2, SetInduction
<1>9. ASSUME NEW k \in 0 .. n PROVE e[k] \in 1 .. len
  <2>1. n - k \in Nat /\ n - k <= n /\ n - (n - k) = k
    BY <1>1
  <2>2. n - k \in D
    BY <1>8, <2>1
  <2> QED
    BY <2>1, <2>2
<1>10. e \in [0 .. n -> 1 .. len]
  BY <1>3, <1>9
<1>11. ASSUME NEW k \in 0 .. n - 1
       PROVE  e[k] < len /\ e[k + 1] = e[k] + 1 + cells[e[k] + 1]
  <2>1. k \in 0 .. n /\ k + 1 \in 0 .. n
    BY <1>1
  <2>2. e[k] \in 1 .. len /\ e[k + 1] \in 1 .. len
    BY <1>9, <2>1
  <2>3. \/ e[k + 1] = len + 1
        \/ e[k] < len /\ e[k + 1] = e[k] + 1 + cells[e[k] + 1]
    BY <1>2, <1>5, <2>2
  <2>4. e[k + 1] # len + 1
    BY ONLY <2>2, len \in 0 .. Len(cells), <1>1
  <2> QED
    BY ONLY <2>3, <2>4
<1> QED
  BY <1>10, <1>11 DEF e, n

\* What parse_req takes is a request that ends where its arguments do.
LEMMA ParseTakes ==
  ASSUME NEW f \in Seq(Nat), NEW rest \in Seq(Nat), rest # <<>>,
         NEW cmd \in parse_req(f \o rest, Len(f))
  PROVE  cmd \in Command /\ Len(cmd) <= MaxArgs /\ IsBody(f)
<1> DEFINE cells == f \o rest
           len == Len(f)
           e == Ends(cells, len)
           n == cells[1]
<1>1. /\ cells \in Seq(Nat) /\ cells # <<>> /\ len \in 0 .. Len(cells) /\ len \in Nat
      /\ n \in Nat /\ \A i \in 1 .. len : cells[i] = f[i]
  <2>1. Len(rest) \in Nat \ {0} /\ Len(f) \in Nat /\ Len(cells) = Len(f) + Len(rest)
    OBVIOUS
  <2> QED
    BY <2>1
<1> HIDE DEF cells
<1>2. /\ ~ n > MaxArgs /\ e[n] = len
      /\ cmd = [i \in 1 .. n |-> SubSeq(cells, e[i - 1] + 2, e[i])]
  <2>1. cmd \in parse_req(cells, len)
    BY DEF cells
  <2> HIDE DEF len, e, n
  <2> QED
    BY <2>1, ParseByEnds DEF len, e, n
<1>3. /\ e \in [0 .. n -> 1 .. len]
      /\ \A k \in 0 .. n - 1 : e[k] < len /\ e[k + 1] = e[k] + 1 + cells[e[k] + 1]
  BY <1>1, <1>2, EndsInside
<1>4. e[0] = 1
  BY <1>1, EndsStep
<1> HIDE DEF e, n, len
<1>5. ASSUME NEW i \in 1 .. n PROVE SubSeq(cells, e[i - 1] + 2, e[i]) \in Seq(Nat)
  <2>1. i - 1 \in 0 .. n /\ i \in 0 .. n
    BY <1>1
  <2>2. e[i - 1] \in 1 .. len /\ e[i] \in 1 .. len
    BY <1>3, <2>1
  <2>3. \A j \in e[i - 1] + 2 .. e[i] : cells[j] \in Nat
    <3>1. \A j \in e[i - 1] + 2 .. e[i] : j \in 1 .. Len(cells)
      <4>1. len \in 0 .. Len(cells) /\ Len(cells) \in Nat
        BY <1>1
      <4> QED
        BY ONLY <2>2, <4>1
    <3>2. \A j \in 1 .. Len(cells) : cells[j] \in Nat
      BY <1>1
    <3> QED
      BY ONLY <3>1, <3>2
  <2>4. e[i - 1] + 2 \in Int /\ e[i] \in Int
    BY <2>2
  <2> QED
    BY <2>3, <2>4, SubSeqProperties
<1>6. cmd \in Command /\ Len(cmd) = n
  <2> DEFINE g(i) == SubSeq(cells, e[i - 1] + 2, e[i])
  <2>1. cmd = [i \in 1 .. n |-> g(i)] /\ \A i \in 1 .. n : g(i) \in Seq(Nat)
    BY <1>2, <1>5
  <2> HIDE DEF g
  <2>2. cmd \in [1 .. n -> Seq(Nat)]
    BY <2>1
  <2> QED
    BY <1>1, <2>1, <2>2 DEF Command
<1>7. IsBody(f)
  <2>1. 0 \in 0 .. n
    BY <1>1
  <2>2. 1 \in 1 .. len
    BY <1>1, <1>3, <2>1
  <2>3. f[1] = n /\ f # <<>>
    BY <1>1, <2>2 DEF len, n
  <2>4. ASSUME NEW i \in 1 .. n
        PROVE  e[i - 1] < len /\ e[i] = e[i - 1] + 1 + f[e[i - 1] + 1]
    <3>1. i - 1 \in 0 .. n - 1 /\ (i - 1) + 1 = i /\ i - 1 \in 0 .. n
      BY <1>1
    <3>2. e[i - 1] < len /\ e[i] = e[i - 1] + 1 + cells[e[i - 1] + 1]
      BY <1>3, <3>1
    <3>3. e[i - 1] \in 1 .. len
      BY <1>3, <3>1
    <3>4. e[i - 1] + 1 \in 1 .. len
      <4>1. len \in Nat /\ e[i - 1] \in 1 .. len /\ e[i - 1] < len
        BY <1>1, <3>2, <3>3
      <4> QED
        BY ONLY <4>1
    <3>5. cells[e[i - 1] + 1] = f[e[i - 1] + 1]
      BY <1>1, <3>4
    <3> QED
      BY ONLY <3>2, <3>5
  <2> QED
    BY <1>2, <1>3, <1>4, <2>3, <2>4 DEF IsBody, len
<1> QED
  BY <1>1, <1>2, <1>6, <1>7, ProtocolAssumption

\* y is a cell and a string.
Headed(y, x, b) ==
  Len(y) = 1 + Len(b) /\ y[1] = x /\ \A i \in 1 .. Len(b) : y[1 + i] = b[i]

\* A cell and a string in the middle.
LEMMA Inner ==
  ASSUME NEW S, NEW a \in Seq(S), NEW x \in S, NEW b \in Seq(S), NEW t \in Seq(S),
         NEW y \in Seq(S), Headed(y, x, b)
  PROVE  /\ Cat(a, Cat(y, t))[Len(a) + 1] = x
         /\ SubSeq(Cat(a, Cat(y, t)), Len(a) + 2, Len(a) + 1 + Len(b)) = b
<1>1. Len(a) \in Nat /\ Len(b) \in Nat /\ Len(t) \in Nat
  OBVIOUS
<1> DEFINE w == Cat(a, Cat(y, t))
<1>2. w \in Seq(S) /\ Len(w) = Len(a) + Len(y) + Len(t)
  <2>1. w \in Seq(S)
    BY CatMiddle
  <2>2. Len(w) = Len(a) + Len(y) + Len(t)
    BY CatMiddle
  <2> QED
    BY <2>1, <2>2
<1>3. \A i \in 1 .. Len(y) : w[Len(a) + i] = y[i]
  <2>1. a \in Seq(S) /\ y \in Seq(S) /\ t \in Seq(S)
    OBVIOUS
  <2> QED
    BY ONLY <2>1, CatMiddle
<1> HIDE DEF w
<1>4. 1 \in 1 .. Len(y) /\ \A i \in 1 .. Len(b) : 1 + i \in 1 .. Len(y)
  <2>1. Len(y) = 1 + Len(b)
    BY DEF Headed
  <2> QED
    BY ONLY <1>1, <2>1
<1>5. w[Len(a) + 1] = x
  BY <1>3, <1>4 DEF Headed
<1>6. \A i \in 1 .. Len(b) : w[Len(a) + 1 + i] = b[i]
  <2>1. ASSUME NEW i \in 1 .. Len(b) PROVE w[Len(a) + 1 + i] = b[i]
    <3>1. Len(a) + (1 + i) = Len(a) + 1 + i /\ y[1 + i] = b[i]
      BY <1>1 DEF Headed
    <3> QED
      BY <1>3, <1>4, <3>1
  <2> QED
    BY <2>1
<1>7. SubSeq(w, Len(a) + 2, Len(a) + 1 + Len(b)) = b
  <2> DEFINE p == Len(a) + 1
  <2>1. p \in Int /\ p + 1 = Len(a) + 2
    BY <1>1
  <2> HIDE DEF p
  <2>2. \A i \in 1 .. Len(b) : w[p + i] = b[i]
    BY <1>6 DEF p
  <2>3. SubSeq(w, p + 1, p + Len(b)) = b
    BY <2>1, <2>2, SubSeqIs
  <2> QED
    BY <2>1, <2>3 DEF p
<1> QED
  BY <1>5, <1>7 DEF w

\* The strings of a request, each after its length, and where they end.
Packed(cmd) == [i \in DOMAIN cmd |-> <<Len(cmd[i])>> \o cmd[i]]
EndOf(cmd, k) == 1 + Len(FlattenSeq(Upto(Packed(cmd), k)))

LEMMA PackedType ==
  ASSUME NEW cmd \in Command
  PROVE  /\ Packed(cmd) \in Seq(Seq(Nat)) /\ Len(Packed(cmd)) = Len(cmd)
         /\ \A i \in 1 .. Len(cmd) : Packed(cmd)[i] = Cat(<<Len(cmd[i])>>, cmd[i])
<1>1. Len(cmd) \in Nat /\ DOMAIN cmd = 1 .. Len(cmd) /\ \A i \in 1 .. Len(cmd) : cmd[i] \in Seq(Nat)
  BY DEF Command
<1> DEFINE g(i) == <<Len(cmd[i])>> \o cmd[i]
<1>2. \A i \in 1 .. Len(cmd) : g(i) \in Seq(Nat)
  BY <1>1
<1>3. Packed(cmd) = [i \in 1 .. Len(cmd) |-> g(i)]
  BY <1>1 DEF Packed
<1>4. \A i \in 1 .. Len(cmd) : g(i) = Cat(<<Len(cmd[i])>>, cmd[i])
  BY DEF Cat
<1> HIDE DEF g
<1>5. Packed(cmd) \in [1 .. Len(cmd) -> Seq(Nat)]
  BY <1>2, <1>3
<1>6. Packed(cmd) \in Seq(Seq(Nat)) /\ Len(Packed(cmd)) = Len(cmd)
  BY <1>1, <1>5
<1>7. \A i \in 1 .. Len(cmd) : Packed(cmd)[i] = g(i)
  BY <1>3
<1> QED
  BY <1>4, <1>6, <1>7

LEMMA BodyType ==
  ASSUME NEW cmd \in Command
  PROVE  /\ Body(cmd) \in Seq(Nat) /\ Body(cmd) # <<>> /\ Body(cmd)[1] = Len(cmd)
         /\ FlattenSeq(Packed(cmd)) \in Seq(Nat)
         /\ Body(cmd) = Cat(<<Len(cmd)>>, FlattenSeq(Packed(cmd)))
<1>1. FlattenSeq(Packed(cmd)) \in Seq(Nat)
  BY PackedType, FlattenType
<1>2. Body(cmd) = <<Len(cmd)>> \o FlattenSeq(Packed(cmd)) /\ Len(cmd) \in Nat
  BY DEF Body, Packed, Command
<1> DEFINE f == FlattenSeq(Packed(cmd))
<1> HIDE DEF f
<1>3. <<Len(cmd)>> \o f \in Seq(Nat) /\ <<Len(cmd)>> \o f # <<>> /\ (<<Len(cmd)>> \o f)[1] = Len(cmd)
  BY <1>1, <1>2 DEF f
<1> QED
  BY <1>1, <1>2, <1>3 DEF f, Cat

\* Where a string is in what has been received.
LEMMA InnerOf ==
  ASSUME NEW S, NEW n \in S, NEW a \in Seq(S), NEW x \in S, NEW b \in Seq(S),
         NEW z \in Seq(S), NEW rest \in Seq(S)
  PROVE  LET y == Cat(<<x>>, b)
             body == Cat(<<n>>, Cat(a, Cat(y, z)))
             pos == 1 + Len(a)
         IN /\ Cat(body, rest)[pos + 1] = x
            /\ SubSeq(Cat(body, rest), pos + 2, pos + 1 + Len(b)) = b
            /\ 1 + Len(Cat(a, y)) = pos + 1 + Len(b)
            /\ 1 + Len(Cat(a, y)) <= Len(body)
<1> DEFINE nn == <<n>>
           xx == <<x>>
           y == Cat(xx, b)
           body == Cat(nn, Cat(a, Cat(y, z)))
           p == Cat(nn, a)
           t == Cat(z, rest)
<1>1. /\ nn \in Seq(S) /\ xx \in Seq(S) /\ Len(nn) = 1 /\ Len(xx) = 1
      /\ Len(a) \in Nat /\ Len(b) \in Nat /\ Len(z) \in Nat
  OBVIOUS
<1> HIDE DEF nn, xx
<1>2. y \in Seq(S) /\ p \in Seq(S) /\ t \in Seq(S)
  <2>1. nn \in Seq(S) /\ xx \in Seq(S)
    BY <1>1
  <2> QED
    BY <2>1, CatType
<1>3. Len(y) = 1 + Len(b) /\ Len(p) = 1 + Len(a)
  <2>1. nn \in Seq(S) /\ xx \in Seq(S)
    BY <1>1
  <2>2. Len(y) = Len(xx) + Len(b) /\ Len(p) = Len(nn) + Len(a)
    BY <2>1, CatType
  <2> QED
    BY <1>1, <2>2
<1> HIDE DEF y
<1>4. /\ Cat(y, z) \in Seq(S) /\ Len(Cat(y, z)) = Len(y) + Len(z)
      /\ Len(Cat(a, y)) = Len(a) + Len(y)
  BY <1>2, CatType
<1>5. body = Cat(p, Cat(y, z))
  <2>1. nn \in Seq(S) /\ Cat(y, z) \in Seq(S)
    BY <1>1, <1>4
  <2> QED
    BY <2>1, CatAssociative
<1> HIDE DEF p, body
<1>6. Cat(body, rest) = Cat(p, Cat(y, t))
  <2>1. Cat(Cat(p, Cat(y, z)), rest) = Cat(p, Cat(Cat(y, z), rest))
    BY <1>2, <1>4, CatAssociative
  <2>2. Cat(Cat(y, z), rest) = Cat(y, t)
    BY <1>2, CatAssociative
  <2> QED
    BY <1>5, <2>1, <2>2
<1> HIDE DEF t
<1>7. /\ Cat(body, rest)[Len(p) + 1] = x
      /\ SubSeq(Cat(body, rest), Len(p) + 2, Len(p) + 1 + Len(b)) = b
  <2>1. Headed(y, x, b)
    <3>1. Len(y) = 1 + Len(b) /\ y[1] = x /\ \A i \in 1 .. Len(b) : y[1 + i] = b[i]
      BY <1>3 DEF y, xx, Cat
    <3> QED
      BY <3>1 DEF Headed
  <2>2. /\ Cat(p, Cat(y, t))[Len(p) + 1] = x
        /\ SubSeq(Cat(p, Cat(y, t)), Len(p) + 2, Len(p) + 1 + Len(b)) = b
    BY <1>2, <2>1, Inner
  <2> QED
    BY <1>6, <2>2
<1>8. Len(body) = Len(p) + Len(Cat(y, z))
  BY <1>2, <1>4, <1>5, CatType
<1> QED
  <2> DEFINE pos == 1 + Len(a)
  <2>1. Len(p) = pos
    BY <1>3
  <2>2. 1 + Len(Cat(a, y)) = pos + 1 + Len(b)
    BY <1>1, <1>3, <1>4
  <2>3. 1 + Len(Cat(a, y)) <= Len(body)
    BY <1>1, <1>3, <1>4, <1>8
  <2> HIDE DEF pos
  <2>4. Cat(body, rest)[pos + 1] = x /\ SubSeq(Cat(body, rest), pos + 2, pos + 1 + Len(b)) = b
    BY <1>7, <2>1
  <2> QED
    BY <2>2, <2>3, <2>4, Zenon DEF pos, y, body, nn, xx

LEMMA BodyAt ==
  ASSUME NEW cmd \in Command, NEW rest \in Seq(Nat), NEW k \in 0 .. Len(cmd) - 1
  PROVE  LET cells == Cat(Body(cmd), rest)
             pos == EndOf(cmd, k)
         IN /\ pos \in Nat \ {0} /\ cells[pos + 1] = Len(cmd[k + 1])
            /\ SubSeq(cells, pos + 2, pos + 1 + Len(cmd[k + 1])) = cmd[k + 1]
            /\ EndOf(cmd, k + 1) = pos + 1 + Len(cmd[k + 1])
            /\ EndOf(cmd, k + 1) <= Len(Body(cmd))
<1> DEFINE n == Len(cmd)
           ss == Packed(cmd)
           a == FlattenSeq(Upto(ss, k))
           c == cmd[k + 1]
           z == FlattenSeq(Rest(ss, k + 1))
           y == Cat(<<Len(c)>>, c)
<1>0. n \in Nat /\ Len(c) \in Nat /\ c \in Seq(Nat) /\ k + 1 \in 1 .. n
  BY DEF Command
<1>1. ss \in Seq(Seq(Nat)) /\ Len(ss) = n /\ ss[k + 1] = y
  BY <1>0, PackedType
<1> HIDE DEF ss, y
<1>2. /\ a \in Seq(Nat) /\ z \in Seq(Nat)
      /\ FlattenSeq(ss) = Cat(a, Cat(y, z))
      /\ FlattenSeq(Upto(ss, k + 1)) = Cat(a, y)
  <2>1. k \in 0 .. Len(ss) - 1
    BY <1>1
  <2>2. ss \in Seq(Seq(Nat))
    BY <1>1
  <2> HIDE DEF n
  <2>3. /\ a \in Seq(Nat) /\ z \in Seq(Nat)
        /\ FlattenSeq(ss) = Cat(a, Cat(ss[k + 1], z))
        /\ FlattenSeq(Upto(ss, k + 1)) = Cat(a, ss[k + 1])
    BY <2>1, <2>2, FlattenNext
  <2> HIDE DEF a, z
  <2> QED
    BY <1>1, <2>3
<1>3. Body(cmd) = Cat(<<n>>, Cat(a, Cat(y, z)))
  BY <1>2, BodyType DEF ss
<1>4. EndOf(cmd, k) = 1 + Len(a) /\ EndOf(cmd, k + 1) = 1 + Len(Cat(a, y)) /\ Len(a) \in Nat
  <2>1. EndOf(cmd, k) = 1 + Len(a) /\ EndOf(cmd, k + 1) = 1 + Len(FlattenSeq(Upto(ss, k + 1)))
    BY DEF EndOf, ss
  <2> HIDE DEF a
  <2> QED
    BY <1>2, <2>1
<1> HIDE DEF a, z, n, c
<1> DEFINE body == Cat(<<n>>, Cat(a, Cat(Cat(<<Len(c)>>, c), z)))
<1>5. /\ Cat(body, rest)[1 + Len(a) + 1] = Len(c)
      /\ SubSeq(Cat(body, rest), 1 + Len(a) + 2, 1 + Len(a) + 1 + Len(c)) = c
      /\ 1 + Len(Cat(a, Cat(<<Len(c)>>, c))) = 1 + Len(a) + 1 + Len(c)
      /\ 1 + Len(Cat(a, Cat(<<Len(c)>>, c))) <= Len(body)
  <2>1. n \in Nat /\ a \in Seq(Nat) /\ Len(c) \in Nat /\ c \in Seq(Nat) /\ z \in Seq(Nat)
    BY <1>0, <1>2
  <2> HIDE DEF body
  <2> QED
    BY <2>1, InnerOf DEF body
<1>6. body = Body(cmd)
  BY <1>3 DEF y
<1> HIDE DEF body
<1> DEFINE pos == 1 + Len(a)
<1>7. /\ pos \in Nat \ {0} /\ Cat(Body(cmd), rest)[pos + 1] = Len(c)
      /\ SubSeq(Cat(Body(cmd), rest), pos + 2, pos + 1 + Len(c)) = c
      /\ EndOf(cmd, k + 1) = pos + 1 + Len(c)
      /\ EndOf(cmd, k + 1) <= Len(Body(cmd))
  <2>1. pos \in Nat \ {0}
    BY <1>4
  <2>2. EndOf(cmd, k + 1) = 1 + Len(Cat(a, Cat(<<Len(c)>>, c)))
    BY <1>4 DEF y
  <2> QED
    BY <1>5, <1>6, <2>1, <2>2
<1> HIDE DEF pos
<1>8. EndOf(cmd, k) = pos
  BY <1>4 DEF pos
<1> QED
  BY <1>7, <1>8, Zenon DEF c

\* parse_req makes of what send_req packs the arguments it was packed from.
LEMMA ParsePacked ==
  ASSUME NEW cmd \in Command, NEW rest \in Seq(Nat)
  PROVE  parse_req(Body(cmd) \o rest, Len(Body(cmd))) = IF Len(cmd) > MaxArgs THEN {} ELSE {cmd}
<1> DEFINE f == Body(cmd)
           cells == Cat(f, rest)
           len == Len(f)
           n == cells[1]
           e == Ends(cells, len)
           T == {k \in Nat : k <= n => e[k] = EndOf(cmd, k)}
<1>1. f \in Seq(Nat) /\ f # <<>> /\ f[1] = Len(cmd) /\ Len(cmd) \in Nat
  <2>1. Len(cmd) \in Nat
    BY DEF Command
  <2> QED
    BY <2>1, BodyType
<1>2. len \in Nat /\ n = Len(cmd) /\ n \in Nat
  <2>1. 1 \in 1 .. Len(f)
    BY <1>1
  <2>3. f \in Seq(Nat) /\ rest \in Seq(Nat)
    BY <1>1
  <2> HIDE DEF f
  <2>4. \A i \in 1 .. Len(f) : Cat(f, rest)[i] = f[i]
    BY ONLY <2>3, CatAt
  <2>2. cells[1] = f[1]
    BY ONLY <2>1, <2>4 DEF cells
  <2> QED
    BY <1>1, <2>2 DEF f
<1>3. e[0] = 1 /\ \A k \in 0 .. n - 1 : e[k + 1] = NextEnd(cells, len, e[k])
  BY <1>2, EndsStep
<1> HIDE DEF e
<1>4. ASSUME NEW k \in 0 .. n - 1
      PROVE  /\ EndOf(cmd, k) \in Nat \ {0}
             /\ cells[EndOf(cmd, k) + 1] = Len(cmd[k + 1]) /\ Len(cmd[k + 1]) \in Nat
             /\ SubSeq(cells, EndOf(cmd, k) + 2, EndOf(cmd, k + 1)) = cmd[k + 1]
             /\ EndOf(cmd, k + 1) = EndOf(cmd, k) + 1 + Len(cmd[k + 1])
             /\ EndOf(cmd, k + 1) <= len
  <2>1. k \in 0 .. Len(cmd) - 1
    BY <1>2
  <2> HIDE DEF n, len
  <2> DEFINE pos == EndOf(cmd, k)
  <2>2. /\ pos \in Nat \ {0} /\ cells[pos + 1] = Len(cmd[k + 1])
        /\ SubSeq(cells, pos + 2, pos + 1 + Len(cmd[k + 1])) = cmd[k + 1]
        /\ EndOf(cmd, k + 1) = pos + 1 + Len(cmd[k + 1])
        /\ EndOf(cmd, k + 1) <= len
    BY <2>1, BodyAt, Zenon DEF len
  <2>3. Len(cmd[k + 1]) \in Nat
    BY <1>2, <2>1 DEF Command
  <2> HIDE DEF cells, pos
  <2>4. SubSeq(cells, pos + 2, EndOf(cmd, k + 1)) = cmd[k + 1]
    BY <2>2
  <2> QED
    BY <2>2, <2>3, <2>4 DEF pos
<1>5. EndOf(cmd, 0) = 1 /\ EndOf(cmd, n) = len
  <2>1. Upto(Packed(cmd), 0) = <<>>
    BY PackedType DEF Upto
  <2>2. EndOf(cmd, 0) = 1
    BY <2>1, FlattenEmpty DEF EndOf
  <2>3. Upto(Packed(cmd), n) = Packed(cmd)
    BY <1>2, PackedType DEF Upto
  <2>4. len = 1 + Len(FlattenSeq(Packed(cmd)))
    <3> DEFINE g == FlattenSeq(Packed(cmd))
               h == <<Len(cmd)>>
    <3>1. g \in Seq(Nat) /\ f = Cat(h, g) /\ h \in Seq(Nat) /\ Len(h) = 1
      BY <1>1, BodyType
    <3> HIDE DEF g, h, f
    <3>2. Len(Cat(h, g)) = Len(h) + Len(g)
      BY <3>1, CatType
    <3> QED
      BY <3>1, <3>2 DEF g
  <2> QED
    BY <2>2, <2>3, <2>4 DEF EndOf
<1> HIDE DEF cells, n, len, f
<1>6. Nat \subseteq T
  <2>1. 0 \in T
    BY <1>3, <1>5
  <2>2. ASSUME NEW k \in Nat, k \in T PROVE k + 1 \in T
    <3>1. CASE k + 1 <= n
      <4> DEFINE pos == EndOf(cmd, k)
                 size == Len(cmd[k + 1])
      <4>1. k \in 0 .. n - 1 /\ e[k] = pos
        BY <1>2, <2>2, <3>1
      <4>2. /\ pos \in Nat \ {0} /\ cells[pos + 1] = size /\ size \in Nat
            /\ EndOf(cmd, k + 1) = pos + 1 + size /\ EndOf(cmd, k + 1) <= len
        BY <1>4, <4>1
      <4>3. e[k + 1] = NextEnd(cells, len, pos)
        BY <1>3, <4>1
      <4> HIDE DEF pos, size
      <4>4. NextEnd(cells, len, pos) = pos + 1 + size
        BY <1>2, <4>2 DEF NextEnd
      <4>5. e[k + 1] = EndOf(cmd, k + 1)
        BY <4>2, <4>3, <4>4
      <4> QED
        BY <4>5
    <3> QED
      BY <3>1
  <2> HIDE DEF T
  <2> QED
    BY <2>1, <2>2, SetInduction
<1>7. \A k \in 0 .. n : e[k] = EndOf(cmd, k)
  BY <1>2, <1>6
<1>8. [i \in 1 .. n |-> SubSeq(cells, e[i - 1] + 2, e[i])] = cmd
  <2>1. ASSUME NEW i \in 1 .. n PROVE SubSeq(cells, e[i - 1] + 2, e[i]) = cmd[i]
    <3>1. i - 1 \in 0 .. n - 1 /\ i - 1 \in 0 .. n /\ i \in 0 .. n /\ (i - 1) + 1 = i
      BY <1>2
    <3>2. SubSeq(cells, EndOf(cmd, i - 1) + 2, EndOf(cmd, i)) = cmd[i]
      BY <1>4, <3>1
    <3> QED
      BY <1>7, <3>1, <3>2
  <2>2. cmd = [i \in 1 .. n |-> cmd[i]]
    BY <1>2 DEF Command
  <2> QED
    BY <2>1, <2>2
<1>9. e[n] = len
  BY <1>2, <1>5, <1>7
<1>10. parse_req(cells, len) = IF n > MaxArgs THEN {} ELSE {cmd}
  <2>1. parse_req(cells, len) =
          IF n > MaxArgs \/ e[n] # len THEN {}
          ELSE {[i \in 1 .. n |-> SubSeq(cells, e[i - 1] + 2, e[i])]}
    BY ParseByEnds DEF n, e
  <2> QED
    BY <1>8, <1>9, <2>1
<1> QED
  BY <1>2, <1>10 DEF cells, len, f, Cat

\* c is how a value is written, and v how it is printed, whatever follows.
Prints(c, v) ==
  /\ c \in Cells
  /\ \A post \in Seq(Int) : Value(Cat(c, post)) = Read(Len(c), 0, <<v>>)

\* What on_response sees of what was written.
LEMMA Seen ==
  ASSUME NEW c \in Cells, NEW post \in Seq(Int)
  PROVE  /\ Cat(c, post) \in Seq(Int) /\ Len(Cat(c, post)) >= Len(c) /\ Len(Cat(c, post)) \in Nat
         /\ Len(c) \in Nat /\ Len(c) >= 1
         /\ \A i \in 1 .. Len(c) : Cat(c, post)[i] = c[i]
<1>1. c \in Seq(Int) /\ Len(c) \in Nat /\ Len(c) >= 1 /\ Len(post) \in Nat
  BY DEF Cells
<1>2. c \in Seq(Int)
  BY <1>1
<1>3. Cat(c, post) \in Seq(Int) /\ Len(Cat(c, post)) = Len(c) + Len(post)
  BY <1>2, CatAt
<1>4. \A i \in 1 .. Len(c) : Cat(c, post)[i] = c[i]
  BY <1>2, CatAt
<1> QED
  BY <1>1, <1>3, <1>4

LEMMA NilPrints == Prints(out_nil, <<"nil">>)
<1> DEFINE c == out_nil
<1>1. c \in Cells
  BY OutCells
<1>2. ASSUME NEW post \in Seq(Int) PROVE Value(Cat(c, post)) = Read(Len(c), 0, <<<<"nil">>>>)
  <2>1. Len(c) = 1 /\ c[1] = SER_NIL
    BY DEF out_nil
  <2> HIDE DEF c
  <2> DEFINE w == Cat(c, post)
  <2>2. Len(w) >= 1 /\ Len(w) \in Nat /\ w[1] = SER_NIL
    BY <1>1, <2>1, Seen
  <2> HIDE DEF w
  <2>3. Value(w) = Read(1, 0, <<<<"nil">>>>)
    BY <2>2 DEF Value, SER_NIL, SER_ERR, SER_STR, SER_INT, SER_DBL, SER_ARR
  <2> QED
    BY <2>1, <2>3 DEF w
<1> QED
  BY <1>1, <1>2 DEF Prints

\* A tag and a number.
LEMMA ReadPair ==
  ASSUME NEW c \in Cells, NEW post \in Seq(Int), Len(c) = 2,
         c[1] \in {SER_INT, SER_DBL, SER_ARR}
  PROVE  Value(Cat(c, post)) =
           CASE c[1] = SER_INT -> Read(2, 0, <<<<"int", c[2]>>>>)
             [] c[1] = SER_DBL -> Read(2, 0, <<<<"dbl", c[2]>>>>)
             [] c[1] = SER_ARR -> Read(2, c[2], <<<<"arr", c[2]>>>>)
<1> DEFINE w == Cat(c, post)
<1>1. Len(w) >= 2 /\ Len(w) \in Nat /\ w[1] = c[1] /\ w[2] = c[2]
  BY Seen
<1> HIDE DEF w
<1>2. Value(w) = CASE c[1] = SER_INT -> Read(2, 0, <<<<"int", c[2]>>>>)
                   [] c[1] = SER_DBL -> Read(2, 0, <<<<"dbl", c[2]>>>>)
                   [] c[1] = SER_ARR -> Read(2, c[2], <<<<"arr", c[2]>>>>)
  BY <1>1 DEF Value, SER_NIL, SER_ERR, SER_STR, SER_INT, SER_DBL, SER_ARR
<1> QED
  BY <1>2 DEF w

LEMMA NumberPrints ==
  ASSUME NEW n \in Int
  PROVE  /\ Prints(out_int(n), <<"int", n>>) /\ Prints(out_dbl(n), <<"dbl", n>>)
         /\ out_arr(n) \in Cells
         /\ \A post \in Seq(Int) :
              Value(Cat(out_arr(n), post)) = Read(2, n, <<<<"arr", n>>>>)
<1>1. out_int(n) \in Cells /\ out_dbl(n) \in Cells /\ out_arr(n) \in Cells
  BY OutCells
<1>2. /\ Len(out_int(n)) = 2 /\ out_int(n)[1] = SER_INT /\ out_int(n)[2] = n
      /\ Len(out_dbl(n)) = 2 /\ out_dbl(n)[1] = SER_DBL /\ out_dbl(n)[2] = n
      /\ Len(out_arr(n)) = 2 /\ out_arr(n)[1] = SER_ARR /\ out_arr(n)[2] = n
  BY DEF out_int, out_dbl, out_arr
<1>3. ASSUME NEW post \in Seq(Int)
      PROVE  /\ Value(Cat(out_int(n), post)) = Read(2, 0, <<<<"int", n>>>>)
             /\ Value(Cat(out_dbl(n), post)) = Read(2, 0, <<<<"dbl", n>>>>)
             /\ Value(Cat(out_arr(n), post)) = Read(2, n, <<<<"arr", n>>>>)
  <2>1. ASSUME NEW c \in Cells, Len(c) = 2, c[2] = n
        PROVE  /\ c[1] = SER_INT => Value(Cat(c, post)) = Read(2, 0, <<<<"int", n>>>>)
               /\ c[1] = SER_DBL => Value(Cat(c, post)) = Read(2, 0, <<<<"dbl", n>>>>)
               /\ c[1] = SER_ARR => Value(Cat(c, post)) = Read(2, n, <<<<"arr", n>>>>)
    BY <2>1, ReadPair DEF SER_INT, SER_DBL, SER_ARR
  <2> QED
    BY <1>1, <1>2, <2>1
<1> QED
  BY <1>1, <1>2, <1>3 DEF Prints

\* A string of some length, behind what comes before it.
LEMMA StringAt ==
  ASSUME NEW h \in Seq(Int), NEW s \in Seq(Int), NEW post \in Seq(Int)
  PROVE  SubSeq(Cat(Cat(h, s), post), Len(h) + 1, Len(h) + Len(s)) = s
<1> DEFINE w == Cat(h, Cat(s, post))
<1>1. w \in Seq(Int) /\ Len(w) = Len(h) + Len(s) + Len(post)
  BY CatMiddle
<1>2. \A i \in 1 .. Len(s) : w[Len(h) + i] = s[i]
  BY CatMiddle
<1>3. Len(h) \in Nat /\ Len(s) \in Nat /\ Len(post) \in Nat
  OBVIOUS
<1>4. Cat(Cat(h, s), post) = w
  BY CatAssociative
<1> HIDE DEF w
<1>5. SubSeq(w, Len(h) + 1, Len(h) + Len(s)) = s
  <2> DEFINE p == Len(h)
  <2>1. p \in Int
    BY <1>3
  <2>2. \A i \in 1 .. Len(s) : w[p + i] = s[i]
    BY <1>2
  <2> HIDE DEF p
  <2>3. SubSeq(w, p + 1, p + Len(s)) = s
    BY <2>1, <2>2, SubSeqIs
  <2> QED
    BY <2>3 DEF p
<1> QED
  BY <1>4, <1>5

LEMMA StringPrints ==
  ASSUME NEW s \in Seq(Nat)
  PROVE  Prints(out_str(s), <<"str", s>>)
<1> DEFINE h == <<SER_STR, Len(s)>>
           c == out_str(s)
<1>1. c \in Cells /\ s \in Seq(Int) /\ h \in Seq(Int) /\ Len(h) = 2 /\ Len(s) \in Nat
  <2>1. c \in Cells /\ s \in Seq(Int) /\ Len(s) \in Nat
    BY OutCells
  <2> QED
    BY <2>1 DEF SER_STR
<1>2. Len(c) = 2 + Len(s) /\ c[1] = SER_STR /\ c[2] = Len(s)
  BY DEF out_str
<1>3. c = Cat(h, s)
  BY DEF out_str, Cat
<1> HIDE DEF h, c
<1>4. ASSUME NEW post \in Seq(Int)
      PROVE  Value(Cat(c, post)) = Read(Len(c), 0, <<<<"str", s>>>>)
  <2> DEFINE w == Cat(c, post)
  <2>1. Len(w) >= 2 + Len(s) /\ Len(w) \in Nat /\ w[1] = SER_STR /\ w[2] = Len(s)
    <3>1. 1 \in 1 .. Len(c) /\ 2 \in 1 .. Len(c)
      BY <1>1, <1>2
    <3>2. Len(w) >= Len(c) /\ Len(w) \in Nat /\ w[1] = c[1] /\ w[2] = c[2]
      BY <1>1, <3>1, Seen
    <3> QED
      BY <1>2, <3>2
  <2>2. SubSeq(w, Len(h) + 1, Len(h) + Len(s)) = s
    BY <1>1, <1>3, StringAt
  <2> HIDE DEF w
  <2> DEFINE size == Len(s)
  <2>3. SubSeq(w, 3, 2 + size) = s
    BY <1>1, <2>2
  <2>4. Len(w) >= 2 + size /\ Len(w) \in Nat /\ w[1] = SER_STR /\ w[2] = size /\ size \in Nat
    BY <1>1, <2>1
  <2> HIDE DEF size
  <2>5. Value(w) = Read(2 + size, 0, <<<<"str", SubSeq(w, 3, 2 + size)>>>>)
    BY <2>4 DEF Value, SER_NIL, SER_ERR, SER_STR, SER_INT, SER_DBL, SER_ARR
  <2> QED
    BY <1>2, <2>3, <2>5 DEF w, size
<1> QED
  BY <1>1, <1>4 DEF Prints, c

LEMMA ErrorPrints ==
  ASSUME NEW code \in ERR_UNKNOWN .. ERR_ARG
  PROVE  Prints(out_err(code), <<"err", code>>)
<1> DEFINE s == ErrText[code]
           c == out_err(code)
<1>1. c \in Cells /\ Len(s) \in Nat /\ code \in Int
  <2>1. s \in Seq(Nat)
    BY ProtocolAssumption
  <2> QED
    BY <2>1, OutCells DEF ERR_UNKNOWN, ERR_ARG
<1>2. Len(c) = 3 + Len(s) /\ c[1] = SER_ERR /\ c[2] = code /\ c[3] = Len(s)
  <2>1. s \in Seq(Nat)
    BY ProtocolAssumption
  <2> QED
    BY <2>1 DEF out_err
<1> HIDE DEF s, c
<1>3. ASSUME NEW post \in Seq(Int)
      PROVE  Value(Cat(c, post)) = Read(Len(c), 0, <<<<"err", code>>>>)
  <2> DEFINE w == Cat(c, post)
  <2>1. /\ Len(w) >= 3 + Len(s) /\ Len(w) \in Nat
        /\ w[1] = SER_ERR /\ w[2] = code /\ w[3] = Len(s)
    <3>1. 1 \in 1 .. Len(c) /\ 2 \in 1 .. Len(c) /\ 3 \in 1 .. Len(c)
      BY ONLY <1>1, <1>2
    <3>2. Len(w) >= Len(c) /\ Len(w) \in Nat /\ w[1] = c[1] /\ w[2] = c[2] /\ w[3] = c[3]
      BY <1>1, <3>1, Seen
    <3> QED
      BY ONLY <1>2, <3>2
  <2> HIDE DEF w
  <2>2. Value(w) = Read(3 + Len(s), 0, <<<<"err", code>>>>)
    BY <1>1, <2>1 DEF Value, SER_NIL, SER_ERR, SER_STR, SER_INT, SER_DBL, SER_ARR
  <2> QED
    BY <1>2, <2>2 DEF w
<1> QED
  BY <1>1, <1>3 DEF Prints, c

\* What the calls of on_response have read, call by call.
Reads(cells) ==
  CHOOSE after : after = [k \in 0 .. Len(cells) + 1 |->
                            IF k = 0 THEN Read(0, 1, <<>>)
                            ELSE CHOOSE r \in {Call(cells, s) : s \in {after[k - 1]}} : TRUE]

LEMMA ReadsDef ==
  ASSUME NEW cells, Len(cells) \in Nat
  PROVE  Reads(cells) =
           [k \in 0 .. Len(cells) + 1 |->
              IF k = 0 THEN Read(0, 1, <<>>)
              ELSE CHOOSE r \in {Call(cells, s) : s \in {Reads(cells)[k - 1]}} : TRUE]
<1> DEFINE e(h, k) == IF k = 0 THEN Read(0, 1, <<>>)
                      ELSE CHOOSE r \in {Call(cells, s) : s \in {h[k - 1]}} : TRUE
           Grows(f, k) == f = [i \in 0 .. k |-> e(f, i)]
           T == {k \in Nat : \E f : Grows(f, k)}
<1>1. \A h, g, i : (i # 0 => h[i - 1] = g[i - 1]) => e(h, i) = e(g, i)
  OBVIOUS
<1> HIDE DEF e
<1>2. 0 \in T
  <2> DEFINE f == [i \in 0 .. 0 |-> e(<<>>, i)]
  <2>1. \A i \in 0 .. 0 : e(f, i) = e(<<>>, i)
    <3>1. \A i \in 0 .. 0 : i = 0
      OBVIOUS
    <3> QED
      BY <1>1, <3>1
  <2>2. Grows(f, 0)
    BY <2>1
  <2> HIDE DEF f, Grows
  <2> QED
    BY <2>2
<1>3. ASSUME NEW k \in Nat, k \in T PROVE k + 1 \in T
  <2>1. PICK f : Grows(f, k)
    BY <1>3
  <2> DEFINE g == [i \in 0 .. k + 1 |-> e(f, i)]
  <2>2. \A i \in 0 .. k : g[i] = f[i]
    BY <2>1
  <2>3. \A i \in 0 .. k + 1 : i # 0 => g[i - 1] = f[i - 1]
    <3>1. \A i \in 0 .. k + 1 : i # 0 => i - 1 \in 0 .. k
      OBVIOUS
    <3> HIDE DEF g, Grows
    <3> QED
      BY <2>2, <3>1
  <2>4. \A i \in 0 .. k + 1 : e(f, i) = e(g, i)
    <3> HIDE DEF g, Grows
    <3> QED
      BY <1>1, <2>3
  <2>5. Grows(g, k + 1)
    BY <2>4
  <2> HIDE DEF g, Grows
  <2> QED
    BY <2>5
<1>4. Len(cells) + 1 \in T
  <2> HIDE DEF T
  <2> QED
    BY <1>2, <1>3, SetInduction
<1>5. \E f : Grows(f, Len(cells) + 1)
  BY <1>4
<1> QED
  BY <1>5, Zenon DEF Reads, e

LEMMA ReadsStep ==
  ASSUME NEW cells, Len(cells) \in Nat
  PROVE  /\ Reads(cells)[0] = Read(0, 1, <<>>)
         /\ \A k \in 0 .. Len(cells) : Reads(cells)[k + 1] = Call(cells, Reads(cells)[k])
         /\ on_response(cells) = Reads(cells)[Len(cells) + 1]
<1> DEFINE f == Reads(cells)
<1>1. f = [k \in 0 .. Len(cells) + 1 |->
              IF k = 0 THEN Read(0, 1, <<>>)
              ELSE CHOOSE r \in {Call(cells, s) : s \in {f[k - 1]}} : TRUE]
  BY ReadsDef
<1>2. on_response(cells) = f[Len(cells) + 1]
  BY Zenon DEF on_response, Reads
<1> HIDE DEF f
<1>3. f[0] = Read(0, 1, <<>>)
  BY <1>1
<1>4. ASSUME NEW k \in 0 .. Len(cells) PROVE f[k + 1] = Call(cells, f[k])
  <2>1. k + 1 \in 0 .. Len(cells) + 1 /\ k + 1 # 0 /\ (k + 1) - 1 = k
    OBVIOUS
  <2>2. f[k + 1] = CHOOSE r \in {Call(cells, s) : s \in {f[k]}} : TRUE
    BY <1>1, <2>1
  <2>3. {Call(cells, s) : s \in {f[k]}} = {Call(cells, f[k])}
    BY Zenon
  <2> QED
    BY <2>2, <2>3
<1> QED
  BY <1>2, <1>3, <1>4 DEF f

\* Once no call is to come, none does.
LEMMA ReadsStay ==
  ASSUME NEW cells, Len(cells) \in Nat, NEW n \in 0 .. Len(cells) + 1,
         Reads(cells)[n].calls = 0
  PROVE  on_response(cells) = Reads(cells)[n]
<1> DEFINE f == Reads(cells)
           size == Len(cells)
           T == {k \in Nat : n + k <= size + 1 => f[n + k] = f[n]}
<1>1. /\ \A k \in 0 .. size : f[k + 1] = Call(cells, f[k])
      /\ on_response(cells) = f[size + 1]
  BY ReadsStep
<1>2. Call(cells, f[n]) = f[n]
  BY DEF Call
<1>3. n \in Nat /\ n <= size + 1 /\ size \in Nat
  OBVIOUS
<1> HIDE DEF f, size
<1>4. Nat \subseteq T
  <2>1. 0 \in T
    BY <1>3
  <2>2. ASSUME NEW k \in Nat, k \in T PROVE k + 1 \in T
    <3>1. CASE n + (k + 1) <= size + 1
      <4>1. n + k \in 0 .. size /\ (n + k) + 1 = n + (k + 1) /\ f[n + k] = f[n]
        BY <1>3, <2>2, <3>1
      <4>2. f[n + (k + 1)] = f[n]
        BY <1>1, <1>2, <4>1
      <4> QED
        BY <4>2
    <3> QED
      BY <3>1
  <2> HIDE DEF T
  <2> QED
    BY <2>1, <2>2, SetInduction
<1>5. (size + 1) - n \in Nat /\ n + ((size + 1) - n) = size + 1
  BY <1>3
<1>6. f[size + 1] = f[n]
  BY <1>4, <1>5
<1> QED
  BY <1>1, <1>6 DEF f

\* A call that reads a value.
LEMMA CallReads ==
  ASSUME NEW cells, NEW n \in Nat, NEW calls \in Nat \ {0}, NEW values,
         NEW m \in Nat, NEW more, NEW new, Value(Rest(cells, n)) = Read(m, more, new)
  PROVE  Call(cells, Read(n, calls, values)) = Read(n + m, calls - 1 + more, Cat(values, new))
<1> DEFINE s == Read(n, calls, values)
           one == Value(Rest(cells, n))
<1>1. s.rv = n /\ s.calls = calls /\ s.seen = values
  BY DEF Read
<1>2. one.rv = m /\ one.calls = more /\ one.seen = new
  BY DEF Read
<1>3. one = Value(SubSeq(cells, s.rv + 1, Len(cells)))
  BY <1>1 DEF Rest
<1> HIDE DEF s, one
<1>4. Call(cells, s) = IF s.calls = 0 \/ s.rv < 0 THEN s
                       ELSE Read(IF one.rv < 0 THEN one.rv ELSE s.rv + one.rv,
                                 s.calls - 1 + one.calls, s.seen \o one.seen)
  BY <1>3, Zenon DEF Call
<1>5. Call(cells, s) = Read(IF m < 0 THEN m ELSE n + m, calls - 1 + more, values \o new)
  BY <1>1, <1>2, <1>4
<1>6. (IF m < 0 THEN m ELSE n + m) = n + m
  OBVIOUS
<1> QED
  BY <1>5, <1>6 DEF s, Cat

\* A value alone is read to its end.
LEMMA ReadsOne ==
  ASSUME NEW c, NEW v, Prints(c, v)
  PROVE  on_response(c) = Read(Len(c), 0, <<v>>)
<1>1. c \in Seq(Int) /\ Len(c) \in Nat /\ Len(c) >= 1
  BY DEF Prints, Cells
<1>2. Value(c) = Read(Len(c), 0, <<v>>)
  <2>1. PICK post \in Seq(Int) : post = <<>>
    <3>1. <<>> \in Seq(Int)
      OBVIOUS
    <3> QED
      BY <3>1, Zenon
  <2>2. Value(Cat(c, post)) = Read(Len(c), 0, <<v>>)
    BY DEF Prints
  <2>3. Cat(c, post) = c
    BY <1>1, <2>1, ConcatEmptySeq DEF Cat
  <2> QED
    BY <2>2, <2>3
<1>3. Rest(c, 0) = c
  BY <1>1 DEF Rest
<1>4. Reads(c)[0] = Read(0, 1, <<>>) /\ Reads(c)[0 + 1] = Call(c, Reads(c)[0])
  BY <1>1, ReadsStep
<1>5. Call(c, Read(0, 1, <<>>)) = Read(Len(c), 0, <<v>>)
  <2>1. Call(c, Read(0, 1, <<>>)) = Read(0 + Len(c), 1 - 1 + 0, Cat(<<>>, <<v>>))
    BY <1>1, <1>2, <1>3, CallReads
  <2>2. Cat(<<>>, <<v>>) = <<v>>
    BY DEF Cat
  <2> QED
    BY <1>1, <2>1, <2>2
<1>6. Reads(c)[1] = Read(Len(c), 0, <<v>>)
  BY <1>4, <1>5
<1>7. Reads(c)[1].calls = 0 /\ 1 \in 0 .. Len(c) + 1
  BY <1>1, <1>6 DEF Read
<1> QED
  BY <1>1, <1>6, <1>7, ReadsStay

\* The elements of an array, one after another: what is behind the first k
\* is the next, and then the others.
LEMMA ElementAt ==
  ASSUME NEW n \in Int, NEW f \in Seq(Seq(Int)), NEW k \in 0 .. Len(f) - 1
  PROVE  LET cells == Cat(out_arr(n), FlattenSeq(f))
             at == 2 + Len(FlattenSeq(Upto(f, k)))
         IN /\ cells \in Seq(Int) /\ at \in Nat
            /\ FlattenSeq(Rest(f, k + 1)) \in Seq(Int)
            /\ Rest(cells, at) = Cat(f[k + 1], FlattenSeq(Rest(f, k + 1)))
            /\ 2 + Len(FlattenSeq(Upto(f, k + 1))) = at + Len(f[k + 1])
            /\ at + Len(f[k + 1]) <= Len(cells)
<1> DEFINE h == out_arr(n)
           a == FlattenSeq(Upto(f, k))
           b == f[k + 1]
           z == FlattenSeq(Rest(f, k + 1))
           p == Cat(h, a)
           cells == Cat(h, FlattenSeq(f))
<1>1. h \in Seq(Int) /\ Len(h) = 2 /\ b \in Seq(Int)
  <2>1. h \in Seq(Int)
    BY OutCells DEF Cells
  <2>2. Len(h) = 2
    BY DEF out_arr
  <2>3. b \in Seq(Int)
    OBVIOUS
  <2> QED
    BY <2>1, <2>2, <2>3
<1>2. /\ a \in Seq(Int) /\ z \in Seq(Int)
      /\ FlattenSeq(f) = Cat(a, Cat(b, z))
      /\ FlattenSeq(Upto(f, k + 1)) = Cat(a, b)
  BY FlattenNext
<1> HIDE DEF h, a, b, z
<1>3. h \in Seq(Int) /\ a \in Seq(Int) /\ b \in Seq(Int) /\ z \in Seq(Int)
  BY <1>1, <1>2
<1>4. /\ p \in Seq(Int) /\ Len(p) = Len(h) + Len(a)
      /\ Cat(b, z) \in Seq(Int) /\ Len(Cat(b, z)) = Len(b) + Len(z)
      /\ Len(Cat(a, b)) = Len(a) + Len(b)
  BY <1>3, CatType
<1>5. cells = Cat(p, Cat(b, z))
  BY <1>2, <1>3, <1>4, CatAssociative
<1> HIDE DEF p, cells
<1>6. p \in Seq(Int) /\ Cat(b, z) \in Seq(Int)
  BY <1>4
<1>7. cells \in Seq(Int) /\ Len(cells) = Len(p) + Len(Cat(b, z))
  BY <1>5, <1>6, CatType
<1>8. Rest(cells, Len(p)) = Cat(b, z)
  BY <1>5, <1>6, RestOfCat
<1>9. Len(a) \in Nat /\ Len(b) \in Nat /\ Len(z) \in Nat
  BY <1>3
<1> DEFINE at == 2 + Len(a)
<1>10. at \in Nat /\ Len(p) = at
  BY <1>1, <1>4, <1>9
<1>11. 2 + Len(FlattenSeq(Upto(f, k + 1))) = at + Len(b)
  BY <1>2, <1>4, <1>9
<1>12. at + Len(b) <= Len(cells)
  BY <1>4, <1>7, <1>9, <1>10
<1> HIDE DEF at
<1>13. Rest(cells, at) = Cat(b, z)
  BY <1>8, <1>10
<1> QED
  BY <1>2, <1>7, <1>10, <1>11, <1>12, <1>13, Zenon DEF at, a, b, z, cells, h

\* An array is read to its end, with as many elements as it announces.
LEMMA ReadsArray ==
  ASSUME NEW n \in Nat, NEW f \in Seq(Seq(Int)), Len(f) = n,
         NEW V, NEW v \in Seq(V), Len(v) = n, <<"arr", n>> \in V,
         \A i \in 1 .. n : Prints(f[i], v[i])
  PROVE  LET cells == Cat(out_arr(n), FlattenSeq(f))
         IN on_response(cells) = Read(Len(cells), 0, Cat(<<<<"arr", n>>>>, v))
<1> DEFINE cells == Cat(out_arr(n), FlattenSeq(f))
           at(k) == 2 + Len(FlattenSeq(Upto(f, k)))
           r == Reads(cells)
           arr == <<<<"arr", n>>>>
           T == {k \in Nat : k <= n =>
                   /\ at(k) \in Nat /\ at(k) >= 2 + k /\ at(k) <= Len(cells)
                   /\ r[k + 1] = Read(at(k), n - k, Cat(arr, Upto(v, k)))}
<1>1. FlattenSeq(f) \in Seq(Int)
  BY FlattenType
<1>2. cells \in Seq(Int) /\ Len(cells) = 2 + Len(FlattenSeq(f)) /\ Len(cells) \in Nat
  <2> DEFINE h == out_arr(n)
             z == FlattenSeq(f)
  <2>1. h \in Seq(Int) /\ z \in Seq(Int)
    <3>1. n \in Int
      OBVIOUS
    <3>2. h \in Cells
      BY <3>1, NumberPrints
    <3> QED
      BY <1>1, <3>2 DEF Cells
  <2>2. Len(h) = 2
    BY DEF out_arr
  <2> HIDE DEF h, z
  <2>3. Cat(h, z) \in Seq(Int) /\ Len(Cat(h, z)) = Len(h) + Len(z)
    BY <2>1, CatType
  <2>4. cells = Cat(h, z) /\ Len(z) = Len(FlattenSeq(f))
    BY DEF h, z
  <2> HIDE DEF cells
  <2>5. Len(z) \in Nat
    BY <2>1
  <2> QED
    BY <2>2, <2>3, <2>4, <2>5
<1>3. /\ r[0] = Read(0, 1, <<>>)
      /\ \A k \in 0 .. Len(cells) : r[k + 1] = Call(cells, r[k])
  BY <1>2, ReadsStep
<1>4. arr \in Seq(V)
  OBVIOUS
<1>5. ASSUME NEW k \in 0 .. n - 1
      PROVE  /\ at(k) \in Nat
             /\ Value(Rest(cells, at(k))) = Read(Len(f[k + 1]), 0, <<v[k + 1]>>)
             /\ Len(f[k + 1]) \in Nat \ {0}
             /\ at(k + 1) = at(k) + Len(f[k + 1]) /\ at(k + 1) <= Len(cells)
  <2> DEFINE b == f[k + 1]
             z == FlattenSeq(Rest(f, k + 1))
  <2>1. /\ at(k) \in Nat /\ z \in Seq(Int) /\ Rest(cells, at(k)) = Cat(b, z)
        /\ at(k + 1) = at(k) + Len(b) /\ at(k + 1) <= Len(cells)
    <3>1. k \in 0 .. Len(f) - 1 /\ n \in Int
      OBVIOUS
    <3>2. /\ at(k) \in Nat /\ z \in Seq(Int) /\ Rest(cells, at(k)) = Cat(b, z)
          /\ at(k + 1) = at(k) + Len(b) /\ at(k) + Len(b) <= Len(cells)
      BY <3>1, ElementAt, Zenon
    <3> HIDE DEF at, b, cells
    <3> QED
      BY <3>2
  <2>2. Prints(b, v[k + 1])
    OBVIOUS
  <2> HIDE DEF b, z, at, cells
  <2>3. Value(Cat(b, z)) = Read(Len(b), 0, <<v[k + 1]>>) /\ Len(b) \in Nat \ {0}
    <3> DEFINE x == v[k + 1]
    <3> HIDE DEF x
    <3>1. Prints(b, x) /\ z \in Seq(Int)
      BY <2>1, <2>2 DEF x
    <3>2. Value(Cat(b, z)) = Read(Len(b), 0, <<x>>) /\ b \in Cells
      BY <3>1, Zenon DEF Prints
    <3>3. Len(b) \in Nat \ {0}
      BY <3>2 DEF Cells
    <3> QED
      BY <3>2, <3>3 DEF x
  <2> QED
    BY <2>1, <2>3 DEF b
<1>6. Upto(v, 0) = <<>> /\ at(0) = 2 /\ Upto(v, n) = v /\ at(n) = Len(cells)
  <2>1. Upto(v, 0) = <<>> /\ Upto(f, 0) = <<>> /\ Upto(v, n) = v /\ Upto(f, n) = f
    BY DEF Upto
  <2>2. at(0) = 2
    BY <2>1, FlattenEmpty
  <2> HIDE DEF cells
  <2> QED
    BY <1>2, <2>1, <2>2
<1>7. Value(cells) = Read(2, n, arr)
  <2>1. n \in Int
    OBVIOUS
  <2> QED
    BY <1>1, <2>1, NumberPrints, Zenon
<1> HIDE DEF cells, r, at, arr
<1>8. 0 \in T
  <2>1. 0 \in 0 .. Len(cells) /\ Rest(cells, 0) = cells
    BY <1>2 DEF Rest
  <2>2. r[0 + 1] = Call(cells, Read(0, 1, <<>>))
    BY <1>3, <2>1
  <2>3. Call(cells, Read(0, 1, <<>>)) = Read(0 + 2, 1 - 1 + n, Cat(<<>>, arr))
    BY <1>7, <2>1, CallReads
  <2>4. Cat(<<>>, arr) = arr /\ Cat(arr, <<>>) = arr
    BY <1>4, ConcatEmptySeq DEF Cat
  <2>5. 0 + 2 = 2 /\ 1 - 1 + n = n /\ n - 0 = n
    OBVIOUS
  <2>6. r[0 + 1] = Read(at(0), n - 0, Cat(arr, Upto(v, 0)))
    BY <1>6, <2>2, <2>3, <2>4, <2>5
  <2>7. at(0) \in Nat /\ at(0) >= 2 + 0 /\ at(0) <= Len(cells)
    <3>1. Len(FlattenSeq(f)) \in Nat
      BY <1>1
    <3> QED
      BY <1>2, <1>6, <3>1
  <2> QED
    BY <2>6, <2>7
<1>9. ASSUME NEW k \in Nat, k \in T PROVE k + 1 \in T
  <2>1. CASE k + 1 <= n
    <3> DEFINE size == Len(f[k + 1])
               x == v[k + 1]
               u == Upto(v, k)
    <3>1. k \in 0 .. n - 1 /\ k + 1 \in 1 .. n /\ k <= n
      BY <2>1
    <3>2. /\ at(k) \in Nat /\ at(k) >= 2 + k
          /\ r[k + 1] = Read(at(k), n - k, Cat(arr, u))
      BY <1>9, <3>1
    <3>3. /\ Value(Rest(cells, at(k))) = Read(size, 0, <<x>>) /\ size \in Nat \ {0}
          /\ at(k + 1) = at(k) + size /\ at(k + 1) <= Len(cells)
      BY <1>5, <3>1
    <3>4. u \in Seq(V) /\ x \in V /\ Upto(v, k + 1) = Append(u, x)
      BY <3>1 DEF Upto
    <3> HIDE DEF size, x, u
    <3>5. k + 1 \in 0 .. Len(cells)
      BY <1>2, <3>1, <3>2, <3>3
    <3>6. r[(k + 1) + 1] = Call(cells, r[k + 1])
      BY <1>3, <3>5
    <3>7. Call(cells, Read(at(k), n - k, Cat(arr, u)))
            = Read(at(k) + size, (n - k) - 1 + 0, Cat(Cat(arr, u), <<x>>))
      <4>1. n - k \in Nat \ {0} /\ size \in Nat
        BY <3>1, <3>3
      <4> QED
        BY <3>2, <3>3, <4>1, CallReads
    <3>8. (n - k) - 1 + 0 = n - (k + 1)
      BY <3>1
    <3>9. Cat(Cat(arr, u), <<x>>) = Cat(arr, Upto(v, k + 1))
      <4> DEFINE xx == <<x>>
      <4>1. xx \in Seq(V) /\ Cat(u, xx) = Append(u, x)
        BY <3>4 DEF Cat
      <4> HIDE DEF xx
      <4>2. Cat(Cat(arr, u), xx) = Cat(arr, Cat(u, xx))
        <5>1. arr \in Seq(V) /\ u \in Seq(V) /\ xx \in Seq(V)
          BY <1>4, <3>4, <4>1
        <5> QED
          BY <5>1, CatAssociative
      <4> QED
        BY <3>4, <4>1, <4>2 DEF xx
    <3>10. r[(k + 1) + 1] = Read(at(k + 1), n - (k + 1), Cat(arr, Upto(v, k + 1)))
      BY <3>2, <3>3, <3>6, <3>7, <3>8, <3>9
    <3>11. at(k + 1) \in Nat /\ at(k + 1) >= 2 + (k + 1)
      BY <3>2, <3>3
    <3> QED
      BY <3>3, <3>10, <3>11
  <2> QED
    BY <2>1
<1>10. Nat \subseteq T
  <2> HIDE DEF T
  <2> QED
    BY <1>8, <1>9, SetInduction
<1>11. r[n + 1] = Read(Len(cells), 0, Cat(arr, v)) /\ n + 1 \in 0 .. Len(cells) + 1
  <2>1. n - n = 0
    OBVIOUS
  <2> QED
    BY <1>2, <1>6, <1>10, <2>1
<1>12. r[n + 1].calls = 0
  BY <1>11 DEF Read
<1>13. on_response(cells) = r[n + 1]
  BY <1>2, <1>11, <1>12, ReadsStay DEF r
<1> QED
  BY <1>11, <1>13 DEF cells, arr

\* The partial sums of some sizes.
Sums(sizes) ==
  CHOOSE sum : sum = [i \in 0 .. Len(sizes) |-> IF i = 0 THEN 0 ELSE sum[i - 1] + sizes[i]]

LEMMA SumsDef ==
  ASSUME NEW sizes, Len(sizes) \in Nat
  PROVE  Sums(sizes) =
           [i \in 0 .. Len(sizes) |-> IF i = 0 THEN 0 ELSE Sums(sizes)[i - 1] + sizes[i]]
<1> DEFINE e(h, i) == IF i = 0 THEN 0 ELSE h[i - 1] + sizes[i]
           Grows(f, k) == f = [i \in 0 .. k |-> e(f, i)]
           T == {k \in Nat : \E f : Grows(f, k)}
<1>1. \A h, g, i : (i # 0 => h[i - 1] = g[i - 1]) => e(h, i) = e(g, i)
  OBVIOUS
<1> HIDE DEF e
<1>2. 0 \in T
  <2> DEFINE f == [i \in 0 .. 0 |-> e(<<>>, i)]
  <2>1. \A i \in 0 .. 0 : e(f, i) = e(<<>>, i)
    <3>1. \A i \in 0 .. 0 : i = 0
      OBVIOUS
    <3> QED
      BY <1>1, <3>1
  <2>2. Grows(f, 0)
    BY <2>1
  <2> HIDE DEF f, Grows
  <2> QED
    BY <2>2
<1>3. ASSUME NEW k \in Nat, k \in T PROVE k + 1 \in T
  <2>1. PICK f : Grows(f, k)
    BY <1>3
  <2> DEFINE g == [i \in 0 .. k + 1 |-> e(f, i)]
  <2>2. \A i \in 0 .. k : g[i] = f[i]
    BY <2>1
  <2>3. \A i \in 0 .. k + 1 : i # 0 => g[i - 1] = f[i - 1]
    <3>1. \A i \in 0 .. k + 1 : i # 0 => i - 1 \in 0 .. k
      OBVIOUS
    <3> HIDE DEF g, Grows
    <3> QED
      BY <2>2, <3>1
  <2>4. \A i \in 0 .. k + 1 : e(f, i) = e(g, i)
    <3> HIDE DEF g, Grows
    <3> QED
      BY <1>1, <2>3
  <2>5. Grows(g, k + 1)
    BY <2>4
  <2> HIDE DEF g, Grows
  <2> QED
    BY <2>5
<1>4. Len(sizes) \in T
  <2> HIDE DEF T
  <2> QED
    BY <1>2, <1>3, SetInduction
<1>5. \E f : Grows(f, Len(sizes))
  BY <1>4
<1> QED
  BY <1>5, Zenon DEF Sums, e

LEMMA SumsStep ==
  ASSUME NEW sizes, Len(sizes) \in Nat
  PROVE  /\ Sums(sizes)[0] = 0
         /\ \A k \in 0 .. Len(sizes) - 1 : Sums(sizes)[k + 1] = Sums(sizes)[k] + sizes[k + 1]
         /\ Total(sizes) = Sums(sizes)[Len(sizes)]
<1> DEFINE f == Sums(sizes)
<1>1. f = [i \in 0 .. Len(sizes) |-> IF i = 0 THEN 0 ELSE f[i - 1] + sizes[i]]
  BY SumsDef
<1>2. Total(sizes) = f[Len(sizes)]
  BY Zenon DEF Total, Sums
<1> HIDE DEF f
<1>3. f[0] = 0
  BY <1>1
<1>4. ASSUME NEW k \in 0 .. Len(sizes) - 1 PROVE f[k + 1] = f[k] + sizes[k + 1]
  <2>1. k + 1 \in 0 .. Len(sizes) /\ k + 1 # 0 /\ (k + 1) - 1 = k
    OBVIOUS
  <2> QED
    BY <1>1, <2>1
<1> QED
  BY <1>2, <1>3, <1>4 DEF f

\* The lengths of some sequences add up to that of all of them together.
LEMMA TotalOfLengths ==
  ASSUME NEW S, NEW f \in Seq(Seq(S)), NEW sizes, Len(sizes) = Len(f),
         \A i \in 1 .. Len(f) : sizes[i] = Len(f[i])
  PROVE  Total(sizes) = Len(FlattenSeq(f))
<1> DEFINE sum == Sums(sizes)
           n == Len(f)
           T == {k \in Nat : k <= n => sum[k] = Len(FlattenSeq(Upto(f, k)))}
<1>1. n \in Nat /\ Len(sizes) = n
  OBVIOUS
<1>2. /\ sum[0] = 0 /\ \A k \in 0 .. n - 1 : sum[k + 1] = sum[k] + sizes[k + 1]
      /\ Total(sizes) = sum[n]
  <2> HIDE DEF n
  <2>1. Len(sizes) \in Nat
    BY <1>1
  <2> QED
    BY <1>1, <2>1, SumsStep
<1> HIDE DEF sum
<1>3. 0 \in T
  <2>1. Upto(f, 0) = <<>> /\ Len(<<>>) = 0
    BY DEF Upto
  <2> QED
    BY <1>2, <2>1, FlattenEmpty
<1>4. ASSUME NEW k \in Nat, k \in T PROVE k + 1 \in T
  <2>1. CASE k + 1 <= n
    <3> DEFINE a == FlattenSeq(Upto(f, k))
               b == f[k + 1]
    <3>1. k \in 0 .. Len(f) - 1 /\ k + 1 \in 1 .. Len(f)
      BY <1>1, <2>1
    <3>2. FlattenSeq(Upto(f, k + 1)) = Cat(a, b) /\ a \in Seq(S)
      BY <3>1, FlattenNext
    <3>3. b \in Seq(S) /\ sizes[k + 1] = Len(b)
      BY <3>1
    <3>4. sum[k] = Len(a)
      BY <1>4, <3>1
    <3> HIDE DEF a, b
    <3>5. Len(Cat(a, b)) = Len(a) + Len(b)
      <4>1. a \in Seq(S) /\ b \in Seq(S)
        BY <3>2, <3>3
      <4> QED
        BY <4>1, CatType
    <3>6. sum[k + 1] = Len(Cat(a, b))
      BY <1>2, <3>1, <3>3, <3>4, <3>5
    <3> QED
      BY <3>2, <3>6
  <2> QED
    BY <2>1
<1>5. Nat \subseteq T
  <2> HIDE DEF T
  <2> QED
    BY <1>3, <1>4, SetInduction
<1>6. sum[n] = Len(FlattenSeq(Upto(f, n)))
  BY <1>1, <1>5
<1>7. Upto(f, n) = f
  BY DEF Upto
<1> QED
  BY <1>2, <1>6, <1>7

\* c is a reply that says vs: it is read whole, and is as long as they are.
Written(c, vs) ==
  /\ c \in Cells
  /\ on_response(c) = Read(Len(c), 0, vs)
  /\ Total([i \in DOMAIN vs |-> Size(vs[i])]) = Len(c)

\* A value that is read whatever follows, and is as long as it is.
Says(c, v) == Prints(c, v) /\ Size(v) = Len(c)

LEMMA ValuesSaid ==
  /\ Says(out_nil, <<"nil">>)
  /\ \A n \in Int : Says(out_int(n), <<"int", n>>) /\ Says(out_dbl(n), <<"dbl", n>>)
  /\ \A s \in Seq(Nat) : Says(out_str(s), <<"str", s>>)
  /\ \A code \in ERR_UNKNOWN .. ERR_ARG : Says(out_err(code), <<"err", code>>)
<1>1. Says(out_nil, <<"nil">>)
  <2>1. Size(<<"nil">>) = 1 /\ Len(out_nil) = 1
    BY DEF Size, out_nil
  <2> QED
    BY <2>1, NilPrints DEF Says
<1>2. ASSUME NEW n \in Int PROVE Says(out_int(n), <<"int", n>>) /\ Says(out_dbl(n), <<"dbl", n>>)
  <2>1. /\ Size(<<"int", n>>) = 2 /\ Len(out_int(n)) = 2
        /\ Size(<<"dbl", n>>) = 2 /\ Len(out_dbl(n)) = 2
    BY DEF Size, out_int, out_dbl
  <2> QED
    BY <2>1, NumberPrints DEF Says
<1>3. ASSUME NEW s \in Seq(Nat) PROVE Says(out_str(s), <<"str", s>>)
  <2>1. Len(out_str(s)) = 2 + Len(s)
    BY DEF out_str
  <2>2. Size(<<"str", s>>) = 2 + Len(s)
    BY DEF Size
  <2> QED
    BY <2>1, <2>2, StringPrints DEF Says
<1>4. ASSUME NEW code \in ERR_UNKNOWN .. ERR_ARG PROVE Says(out_err(code), <<"err", code>>)
  <2>1. Len(out_err(code)) = 3 + Len(ErrText[code])
    <3>1. ErrText[code] \in Seq(Nat)
      BY ProtocolAssumption
    <3> QED
      BY <3>1 DEF out_err
  <2>2. Size(<<"err", code>>) = 3 + Len(ErrText[code])
    BY DEF Size
  <2> QED
    BY <2>1, <2>2, ErrorPrints DEF Says
<1> QED
  BY <1>1, <1>2, <1>3, <1>4

LEMMA OneWritten ==
  ASSUME NEW c, NEW v, Says(c, v)
  PROVE  Written(c, <<v>>)
<1>1. c \in Seq(Int) /\ c \in Cells
  BY DEF Says, Prints, Cells
<1> DEFINE sizes == [i \in DOMAIN <<v>> |-> Size(<<v>>[i])]
           f == <<c>>
<1>2. sizes = <<Len(c)>>
  BY DEF Says
<1>3. f \in Seq(Seq(Int)) /\ Len(f) = 1 /\ f[1] = c /\ Len(sizes) = 1 /\ sizes[1] = Len(c)
  BY <1>1, <1>2
<1>4. FlattenSeq(f) = c
  BY <1>1, FlattenOne
<1> HIDE DEF sizes, f
<1>5. Total(sizes) = Len(FlattenSeq(f))
  <2>1. Len(sizes) = Len(f) /\ \A i \in 1 .. Len(f) : sizes[i] = Len(f[i])
    BY <1>3
  <2> QED
    BY <1>3, <2>1, TotalOfLengths
<1>6. on_response(c) = Read(Len(c), 0, <<v>>)
  BY ReadsOne DEF Says
<1> QED
  BY <1>1, <1>4, <1>5, <1>6 DEF Written, sizes

LEMMA ArrayWritten ==
  ASSUME NEW n \in Nat, NEW f \in Seq(Seq(Int)), Len(f) = n,
         NEW U, NEW v \in Seq(U), Len(v) = n, \A i \in 1 .. n : Says(f[i], v[i])
  PROVE  Written(out_arr(n) \o FlattenSeq(f), <<<<"arr", n>>>> \o v)
<1> DEFINE h == out_arr(n)
           arr == <<"arr", n>>
           V == {arr} \cup U
           c == Cat(h, FlattenSeq(f))
           vs == Cat(<<arr>>, v)
<1>1. v \in Seq(V) /\ Len(v) = n /\ arr \in V
  <2> HIDE DEF arr
  <2> QED
    OBVIOUS
<1>2. \A i \in 1 .. n : Prints(f[i], v[i]) /\ Size(v[i]) = Len(f[i])
  BY DEF Says
<1> HIDE DEF V
<1>3. on_response(c) = Read(Len(c), 0, vs)
  BY <1>1, <1>2, ReadsArray
<1>4. h \in Seq(Int) /\ h \in Cells /\ Len(h) = 2 /\ FlattenSeq(f) \in Seq(Int)
  <2>1. n \in Int
    OBVIOUS
  <2>2. h \in Cells
    BY <2>1, OutCells
  <2>3. Len(h) = 2
    BY DEF out_arr
  <2>4. FlattenSeq(f) \in Seq(Int)
    BY FlattenType
  <2> HIDE DEF h
  <2> QED
    BY <2>2, <2>3, <2>4 DEF Cells
<1>5. c \in Cells
  BY <1>4, HeadFirst DEF Cat
<1> DEFINE g == <<h>> \o f
           sizes == [i \in DOMAIN vs |-> Size(vs[i])]
<1>6. /\ g \in Seq(Seq(Int)) /\ Len(g) = 1 + n /\ g[1] = h
      /\ \A i \in 1 .. n : g[1 + i] = f[i]
  <2> HIDE DEF h
  <2>1. <<h>> \in Seq(Seq(Int)) /\ f \in Seq(Seq(Int))
    BY <1>4
  <2> QED
    BY <2>1
<1>7. /\ vs \in Seq(V) /\ Len(vs) = 1 + n /\ vs[1] = arr
      /\ \A i \in 1 .. n : vs[1 + i] = v[i]
  <2> HIDE DEF arr
  <2> DEFINE a == <<arr>>
  <2>1. a \in Seq(V) /\ v \in Seq(V) /\ Len(a) = 1 /\ a[1] = arr /\ 1 \in 1 .. Len(a)
    BY <1>1
  <2> HIDE DEF a
  <2>2. PICK w : w = v
    OBVIOUS
  <2>3. a \in Seq(V) /\ w \in Seq(V)
    BY <2>1, <2>2
  <2>4. /\ Cat(a, w) \in Seq(V) /\ Len(Cat(a, w)) = Len(a) + Len(w)
        /\ \A i \in 1 .. Len(a) : Cat(a, w)[i] = a[i]
        /\ \A i \in 1 .. Len(w) : Cat(a, w)[Len(a) + i] = w[i]
    <3>1. Cat(a, w) \in Seq(V) /\ Len(Cat(a, w)) = Len(a) + Len(w)
      BY <2>3, CatAt
    <3>2. \A i \in 1 .. Len(a) : Cat(a, w)[i] = a[i]
      BY <2>3, CatAt
    <3>3. \A i \in 1 .. Len(w) : Cat(a, w)[Len(a) + i] = w[i]
      BY <2>3, CatAt
    <3> QED
      BY <3>1, <3>2, <3>3
  <2>5. vs = Cat(a, w)
    BY <2>2 DEF a
  <2> HIDE DEF vs
  <2> QED
    BY <1>1, <2>1, <2>2, <2>4, <2>5
<1>8. FlattenSeq(g) = c
  <2> DEFINE one == <<h>>
  <2>1. one \in Seq(Seq(Int)) /\ FlattenSeq(one) = h
    BY <1>4, FlattenOne
  <2> HIDE DEF one, h
  <2>2. FlattenSeq(one \o f) = Cat(FlattenSeq(one), FlattenSeq(f))
    BY <2>1, FlattenCat
  <2> QED
    BY <2>1, <2>2 DEF one
<1>9. Size(arr) = 2
  BY DEF Size
<1> HIDE DEF c, vs, g, h, arr
<1>10. Len(sizes) = Len(g) /\ \A i \in 1 .. Len(g) : sizes[i] = Len(g[i])
  <2>1. sizes = [i \in 1 .. 1 + n |-> Size(vs[i])] /\ Len(sizes) = 1 + n
    BY <1>7
  <2>2. ASSUME NEW i \in 1 .. 1 + n PROVE Size(vs[i]) = Len(g[i])
    <3>1. CASE i = 1
      BY <3>1, <1>4, <1>6, <1>7, <1>9
    <3>2. CASE i # 1
      <4>1. i - 1 \in 1 .. n /\ 1 + (i - 1) = i
        BY <3>2
      <4>2. Size(v[i - 1]) = Len(f[i - 1])
        BY <1>2, <4>1
      <4> QED
        BY <1>6, <1>7, <4>1, <4>2
    <3> QED
      BY <3>1, <3>2
  <2> QED
    BY <1>6, <2>1, <2>2
<1> HIDE DEF sizes
<1>11. Total(sizes) = Len(FlattenSeq(g))
  <2>1. g \in Seq(Seq(Int))
    BY <1>6
  <2> QED
    BY <2>1, <1>10, TotalOfLengths
<1>12. Written(c, vs)
  BY <1>3, <1>5, <1>8, <1>11 DEF Written, sizes
<1> QED
  BY <1>12 DEF c, vs, arr, h, Cat

\* What a ZQUERY replies is what is printed: the tuples it lists, each a name
\* and a score, behind a count of twice as many.
LEMMA ListingWritten ==
  ASSUME NEW z, z \in [DOMAIN z -> Int], DOMAIN z \subseteq Seq(Nat),
         NEW k \in Nat, NEW names \in [1 .. k -> DOMAIN z]
  PROVE  Written(Listing(z, names),
                 <<<<"arr", 2 * k>>>>
                   \o FlattenSeq([i \in 1 .. k |-> <<<<"str", names[i]>>,
                                                     <<"dbl", z[names[i]]>>>>]))
<1> DEFINE x == [i \in 1 .. k |-> out_str(names[i])]
           y == [i \in 1 .. k |-> out_dbl(z[names[i]])]
           u == [i \in 1 .. k |-> <<"str", names[i]>>]
           w == [i \in 1 .. k |-> <<"dbl", z[names[i]]>>]
           V == {u[i] : i \in 1 .. k} \cup {w[i] : i \in 1 .. k}
           f == InTurn(k, x, y)
           v == InTurn(k, u, w)
           n == 2 * k
<1>1. ASSUME NEW i \in 1 .. k
      PROVE  /\ x[i] \in Seq(Int) /\ y[i] \in Seq(Int)
             /\ Says(x[i], u[i]) /\ Says(y[i], w[i])
  <2>1. names[i] \in Seq(Nat) /\ z[names[i]] \in Int
    OBVIOUS
  <2>2. Says(out_str(names[i]), <<"str", names[i]>>) /\ Says(out_dbl(z[names[i]]), <<"dbl", z[names[i]]>>)
    BY <2>1, ValuesSaid
  <2>3. out_str(names[i]) \in Seq(Int) /\ out_dbl(z[names[i]]) \in Seq(Int)
    BY <2>1, OutCells DEF Cells
  <2> QED
    BY <2>2, <2>3
<1>2. x \in [1 .. k -> Seq(Int)] /\ y \in [1 .. k -> Seq(Int)]
  BY <1>1
<1>3. u \in [1 .. k -> V] /\ w \in [1 .. k -> V]
  OBVIOUS
<1>4. DOMAIN names = 1 .. k /\ Len(names) = k
  OBVIOUS
<1>5. Listing(z, names) = out_arr(n) \o FlattenSeq([i \in 1 .. k |-> Cat(x[i], y[i])])
  <2>1. [i \in DOMAIN names |-> out_str(names[i]) \o out_dbl(z[names[i]])]
          = [i \in 1 .. k |-> Cat(x[i], y[i])]
    BY <1>4 DEF Cat
  <2> QED
    BY <1>4, <2>1 DEF Listing
<1>6. FlattenSeq([i \in 1 .. k |-> <<<<"str", names[i]>>, <<"dbl", z[names[i]]>>>>]) = v
  <2>1. [i \in 1 .. k |-> <<<<"str", names[i]>>, <<"dbl", z[names[i]]>>>>]
          = [i \in 1 .. k |-> <<u[i], w[i]>>]
    OBVIOUS
  <2> HIDE DEF u, w, V
  <2>2. FlattenSeq([i \in 1 .. k |-> <<u[i], w[i]>>]) = v
    BY ONLY <1>3, k \in Nat, FlattenPairs DEF v
  <2> HIDE DEF v
  <2> QED
    BY <2>1, <2>2
<1> HIDE DEF x, y, u, w, V
<1>7. FlattenSeq([i \in 1 .. k |-> Cat(x[i], y[i])]) = FlattenSeq(f)
  <2>1. ASSUME NEW S, NEW a \in [1 .. k -> Seq(S)], NEW b \in [1 .. k -> Seq(S)]
        PROVE  FlattenSeq([i \in 1 .. k |-> Cat(a[i], b[i])]) = FlattenSeq(InTurn(k, a, b))
    BY ONLY k \in Nat, FlattenInTurn
  <2>2. x \in [1 .. k -> Seq(Int)]
    BY <1>2
  <2>3. y \in [1 .. k -> Seq(Int)]
    BY <1>2
  <2> DEFINE S == Int
  <2> HIDE DEF S
  <2>4. x \in [1 .. k -> Seq(S)] /\ y \in [1 .. k -> Seq(S)]
    BY <2>2, <2>3 DEF S
  <2> QED
    BY <2>1, <2>4
<1>8. f \in Seq(Seq(Int)) /\ Len(f) = n
  BY <1>2, InTurnType
<1>9. v \in Seq(V) /\ Len(v) = n
  BY <1>3, InTurnType
<1>10. ASSUME NEW j \in 1 .. n PROVE Says(f[j], v[j])
  <2>1. CASE j % 2 = 1
    <3>1. (j + 1) \div 2 \in 1 .. k
      BY <2>1
    <3>2. f[j] = x[(j + 1) \div 2] /\ v[j] = u[(j + 1) \div 2]
      BY <2>1 DEF InTurn
    <3> QED
      BY <1>1, <3>1, <3>2
  <2>2. CASE j % 2 # 1
    <3>1. j \div 2 \in 1 .. k
      BY <2>2
    <3>2. f[j] = y[j \div 2] /\ v[j] = w[j \div 2]
      BY <2>2 DEF InTurn
    <3> QED
      BY <1>1, <3>1, <3>2
  <2> QED
    BY <2>1, <2>2
<1>11. Written(out_arr(n) \o FlattenSeq(f), <<<<"arr", n>>>> \o v)
  <2>1. n \in Nat
    OBVIOUS
  <2>2. f \in Seq(Seq(Int))
    BY <1>8
  <2>3. v \in Seq(V)
    BY <1>9
  <2>4. Len(f) = n /\ Len(v) = n
    BY <1>8, <1>9
  <2> HIDE DEF f, v, n
  <2> QED
    BY <1>10, <2>1, <2>2, <2>3, <2>4, ArrayWritten
<1> QED
  BY <1>5, <1>6, <1>7, <1>11

\* What a KEYS replies is what is printed: how many, and each key.
LEMMA KeysWritten ==
  ASSUME NEW k \in Nat, NEW order \in [1 .. k -> Seq(Nat)]
  PROVE  Written(out_arr(k) \o FlattenSeq([i \in DOMAIN order |-> out_str(order[i])]),
                 <<<<"arr", k>>>> \o [i \in DOMAIN order |-> <<"str", order[i]>>])
<1> DEFINE f == [i \in 1 .. k |-> out_str(order[i])]
           v == [i \in 1 .. k |-> <<"str", order[i]>>]
           V == {v[i] : i \in 1 .. k}
<1>1. \A i \in 1 .. k : f[i] \in Seq(Int) /\ Says(f[i], v[i])
  BY ValuesSaid, OutCells DEF Cells
<1>2. f \in Seq(Seq(Int)) /\ Len(f) = k
  <2> DEFINE g(i) == out_str(order[i])
  <2>1. \A i \in 1 .. k : g(i) \in Seq(Int)
    BY <1>1
  <2> HIDE DEF g
  <2>2. [i \in 1 .. k |-> g(i)] \in Seq(Seq(Int)) /\ Len([i \in 1 .. k |-> g(i)]) = k
    BY <2>1
  <2> QED
    BY <2>2 DEF g
<1>3. v \in Seq(V) /\ Len(v) = k
  <2> DEFINE g(i) == <<"str", order[i]>>
             W == {g(i) : i \in 1 .. k}
  <2> HIDE DEF g
  <2>1. [i \in 1 .. k |-> g(i)] \in Seq(W) /\ Len([i \in 1 .. k |-> g(i)]) = k
    <3>1. \A i \in 1 .. k : g(i) \in W
      OBVIOUS
    <3> HIDE DEF W
    <3> QED
      BY <3>1
  <2>2. v = [i \in 1 .. k |-> g(i)] /\ V = W
    BY DEF g
  <2> HIDE DEF v, V, W
  <2> QED
    BY <2>1, <2>2
<1>4. DOMAIN order = 1 .. k
  OBVIOUS
<1>5. Written(out_arr(k) \o FlattenSeq(f), <<<<"arr", k>>>> \o v)
  <2>1. f \in Seq(Seq(Int))
    BY <1>2
  <2>2. v \in Seq(V)
    BY <1>3
  <2>3. Len(f) = k /\ Len(v) = k /\ \A i \in 1 .. k : Says(f[i], v[i])
    BY <1>1, <1>2, <1>3
  <2> HIDE DEF f, v, V
  <2> QED
    BY <2>1, <2>2, <2>3, ArrayWritten
<1> QED
  BY <1>4, <1>5

LEMMA KeysReplyWritten ==
  ASSUME DataInv, IsFiniteSet(DOMAIN db), NEW order \in SetToSeqs(DOMAIN db)
  PROVE  Written(out_arr(Cardinality(DOMAIN db))
                   \o FlattenSeq([i \in DOMAIN order |-> out_str(order[i])]),
                 <<<<"arr", Cardinality(DOMAIN db)>>>>
                   \o [i \in DOMAIN order |-> <<"str", order[i]>>])
<1> DEFINE n == Cardinality(DOMAIN db)
<1>1. n \in Nat
  BY FS_CardinalityType
<1>2. order \in [1 .. n -> DOMAIN db]
  BY DEF SetToSeqs
<1>3. DOMAIN db \subseteq Seq(Nat)
  BY DEF DataInv, DataOK
<1> HIDE DEF n
<1>4. order \in [1 .. n -> Seq(Nat)]
  BY <1>2, <1>3
<1>5. Written(out_arr(n) \o FlattenSeq([i \in DOMAIN order |-> out_str(order[i])]),
              <<<<"arr", n>>>> \o [i \in DOMAIN order |-> <<"str", order[i]>>])
  BY <1>1, <1>4, KeysWritten
<1> QED
  BY <1>5 DEF n

\* The replies of one value.
Plain ==
  {out_nil} \cup {out_int(n) : n \in Int} \cup {out_dbl(n) : n \in Int}
    \cup {out_str(s) : s \in Seq(Nat)} \cup {out_err(code) : code \in ERR_UNKNOWN .. ERR_ARG}

LEMMA PlainWritten ==
  ASSUME NEW c \in Plain
  PROVE  \E vs : Written(c, vs)
<1>1. ASSUME NEW v, Says(c, v) PROVE \E vs : Written(c, vs)
  BY <1>1, OneWritten
<1>2. \E v : Says(c, v)
  <2>1. CASE c = out_nil
    BY <2>1, ValuesSaid
  <2>2. ASSUME NEW n \in Int, c = out_int(n) \/ c = out_dbl(n) PROVE \E v : Says(c, v)
    BY <2>2, ValuesSaid
  <2>3. ASSUME NEW s \in Seq(Nat), c = out_str(s) PROVE \E v : Says(c, v)
    BY <2>3, ValuesSaid
  <2>4. ASSUME NEW code \in ERR_UNKNOWN .. ERR_ARG, c = out_err(code) PROVE \E v : Says(c, v)
    BY <2>4, ValuesSaid
  <2> QED
    BY <2>1, <2>2, <2>3, <2>4 DEF Plain
<1> QED
  BY <1>1, <1>2

LEMMA EmptyArrayWritten == Written(out_arr(0), <<<<"arr", 0>>>>)
<1>1. PICK f \in Seq(Seq(Int)) : f = <<>>
  <2>1. <<>> \in Seq(Seq(Int))
    OBVIOUS
  <2> QED
    BY <2>1, Zenon
<1>2. PICK v \in Seq({}) : v = <<>>
  <2>1. <<>> \in Seq({})
    OBVIOUS
  <2> QED
    BY <2>1, Zenon
<1>3. Len(f) = 0 /\ Len(v) = 0 /\ \A i \in 1 .. 0 : Says(f[i], v[i])
  BY <1>1, <1>2
<1>4. 0 \in Nat
  OBVIOUS
<1>5. Written(out_arr(0) \o FlattenSeq(f), <<<<"arr", 0>>>> \o v)
  BY <1>3, <1>4, ArrayWritten
<1>6. out_arr(0) \o FlattenSeq(f) = out_arr(0)
  <2>1. out_arr(0) \in Seq(Int)
    BY OutCells DEF Cells
  <2>2. FlattenSeq(f) = <<>>
    BY <1>1, FlattenEmpty
  <2> QED
    BY <2>1, <2>2, ConcatEmptySeq
<1>7. <<<<"arr", 0>>>> \o v = <<<<"arr", 0>>>>
  BY <1>2
<1> QED
  BY <1>5, <1>6, <1>7

\* Whatever a command replies, the client reads it to its end.
LEMMA RequestWritten ==
  ASSUME DataInv, IsFiniteSet(DOMAIN db), NEW cmd \in Command, do_request(cmd)
  PROVE  \E vs : Written(out', vs)
<1>1. CASE do_keys(cmd)
  BY <1>1, KeysReplyWritten DEF do_keys, Reply
<1>2. CASE do_zquery(cmd)
  <2> DEFINE z == zsets[db[cmd[2]].zset]
  <2>1. CASE \E from, offset, limit :
               ZSetAt(cmd[2]) /\ \E names \in Listed(z, from, offset, limit) :
                                   out' = Listing(z, names)
    <3>1. PICK from, offset, limit :
            \E names \in Listed(z, from, offset, limit) : out' = Listing(z, names)
      BY <2>1
    <3>2. PICK names \in Listed(z, from, offset, limit) : out' = Listing(z, names)
      BY <3>1
    <3>3. PICK k \in Nat : names \in [1 .. k -> DOMAIN z]
      BY <3>2 DEF Listed
    <3>4. z \in [DOMAIN z -> Int] /\ DOMAIN z \subseteq Seq(Nat)
      BY <2>1, ZSetOf
    <3> HIDE DEF z
    <3> QED
      BY <3>2, <3>3, <3>4, ListingWritten
  <2>2. CASE out' \in {out_err(ERR_ARG), out_err(ERR_TYPE)}
    <3>1. out' \in Plain
      BY <2>2 DEF Plain, ERR_UNKNOWN, ERR_ARG, ERR_TYPE
    <3> QED
      BY <3>1, PlainWritten
  <2>3. CASE out' = out_arr(0)
    BY <2>3, EmptyArrayWritten
  <2> QED
    BY <1>2, <2>1, <2>2, <2>3, Zenon DEF do_zquery, NoZSet, Reply
<1>3. CASE \/ do_get(cmd) \/ do_zscore(cmd) \/ do_set(cmd) \/ do_del(cmd) \/ do_zadd(cmd)
           \/ do_zrem(cmd) \/ Reply(out_err(ERR_UNKNOWN))
  <2>1. /\ \A code \in {ERR_ARG, ERR_TYPE, ERR_UNKNOWN} : out_err(code) \in Plain
        /\ out_nil \in Plain /\ out_int(0) \in Plain /\ out_int(1) \in Plain
        /\ \A s \in Seq(Nat) : out_str(s) \in Plain
        /\ \A n \in Int : out_dbl(n) \in Plain
    BY DEF Plain, ERR_UNKNOWN, ERR_ARG, ERR_TYPE
  <2>2. CASE do_get(cmd)
    <3>1. cmd[2] \in DOMAIN db => db[cmd[2]].val \in Seq(Nat)
      BY DEF DataInv, DataOK, Entry
    <3> QED
      BY <2>1, <2>2, <3>1, PlainWritten DEF do_get, Reply
  <2>3. CASE do_zscore(cmd)
    <3> DEFINE z == zsets[db[cmd[2]].zset]
    <3>1. ZSetAt(cmd[2]) /\ cmd[3] \in DOMAIN z => z[cmd[3]] \in Int
      BY ZSetOf
    <3>2. \/ out' \in {out_err(ERR_TYPE), out_nil}
          \/ ZSetAt(cmd[2]) /\ cmd[3] \in DOMAIN z /\ out' = out_dbl(z[cmd[3]])
      BY <2>3 DEF do_zscore, NoZSet, Reply
    <3> QED
      BY <2>1, <3>1, <3>2, PlainWritten
  <2>4. CASE do_set(cmd) \/ do_del(cmd) \/ do_zadd(cmd) \/ do_zrem(cmd)
             \/ Reply(out_err(ERR_UNKNOWN))
    <3>1. out' \in {out_nil, out_int(0), out_int(1), out_err(ERR_ARG), out_err(ERR_TYPE),
                    out_err(ERR_UNKNOWN)}
      BY <2>4 DEF do_set, do_del, do_zadd, do_zrem, zset_add, NoZSet, Reply
    <3> QED
      BY <2>1, <3>1, PlainWritten
  <2> QED
    BY <1>3, <2>2, <2>3, <2>4
<1> QED
  BY <1>1, <1>2, <1>3 DEF do_request
-----------------------------------------------------------------------------
\* The inductive invariant.  Exchange sends one message at a time: it begins
\* with the number of the cells that follow, and so does its reply.
WireOK ==
  /\ phase \in {"idle", "sent", "served"}
  /\ argv \in Argv \cup {NULL}
  /\ out \in Seq(Int)
  /\ msg \in Seq(Nat) /\ (msg # <<>> => msg[1] = Len(msg) - 1)
  /\ \/ reply = <<>>
     \/ \E c, vs : Written(c, vs) /\ reply = Framed(c) /\ 1 + Len(c) <= MaxMsg

EInv == DataInv /\ IsFiniteSet(DOMAIN db) /\ WireOK

\* The error that takes the place of a reply fits.
LEMMA BigWritten ==
  /\ Written(out_err(ERR_2BIG), <<<<"err", ERR_2BIG>>>>)
  /\ 1 + Len(out_err(ERR_2BIG)) <= MaxMsg
<1>1. Says(out_err(ERR_2BIG), <<"err", ERR_2BIG>>)
  BY ValuesSaid DEF ERR_UNKNOWN, ERR_2BIG, ERR_ARG
<1>2. Written(out_err(ERR_2BIG), <<<<"err", ERR_2BIG>>>>)
  BY <1>1, OneWritten
<1>3. 1 + Len(out_err(ERR_2BIG)) <= MaxMsg
  <2>1. ErrText[ERR_2BIG] \in Seq(Nat)
    BY ProtocolAssumption DEF ERR_UNKNOWN, ERR_2BIG, ERR_ARG
  <2>2. Len(out_err(ERR_2BIG)) = 3 + Len(ErrText[ERR_2BIG])
    BY <2>1 DEF out_err
  <2> QED
    BY <2>1, <2>2, ExchangeAssumption, ProtocolAssumption
<1> QED
  BY <1>2, <1>3

LEMMA FittedWritten ==
  ASSUME NEW c, NEW vs, Written(c, vs)
  PROVE  \E d, ws : Written(d, ws) /\ Fitted(c) = d /\ 1 + Len(d) <= MaxMsg
<1>1. CASE 1 + Len(c) <= MaxMsg
  <2>1. Fitted(c) = c
    <3>1. Len(c) \in Nat
      BY DEF Written, Cells
    <3> QED
      BY <1>1, <3>1, ProtocolAssumption DEF Fitted
  <2> QED
    BY <1>1, <2>1
<1>2. CASE ~ (1 + Len(c) <= MaxMsg)
  <2>1. Fitted(c) = out_err(ERR_2BIG)
    <3>1. Len(c) \in Nat
      BY DEF Written, Cells
    <3> QED
      BY <1>2, <3>1, ProtocolAssumption DEF Fitted
  <2> QED
    BY <2>1, BigWritten
<1> QED
  BY <1>1, <1>2

\* What parse_req takes are commands, whatever was sent.
LEMMA ParsedCommands ==
  ASSUME WireOK, NEW cmd \in Parsed(msg)
  PROVE  cmd \in Command /\ msg # <<>> /\ IsBody(Tail(msg)) /\ Len(cmd) <= MaxArgs
<1> DEFINE f == Tail(msg)
<1>1. msg # <<>> /\ \E rest \in Beyond : cmd \in parse_req(f \o rest, msg[1])
  BY DEF Parsed
<1>2. PICK rest \in Beyond : cmd \in parse_req(f \o rest, msg[1])
  BY <1>1
<1>3. f \in Seq(Nat) /\ msg[1] = Len(f)
  BY <1>1 DEF WireOK
<1>4. rest \in Seq(Nat) /\ rest # <<>>
  BY ExchangeAssumption
<1> HIDE DEF f
<1>5. cmd \in parse_req(f \o rest, Len(f))
  BY <1>2, <1>3
<1>6. cmd \in Command /\ Len(cmd) <= MaxArgs /\ IsBody(f)
  BY <1>3, <1>4, <1>5, ParseTakes
<1> QED
  BY <1>1, <1>6 DEF f

LEMMA InitE == Init => EInv
<1> SUFFICES ASSUME Init PROVE EInv
  OBVIOUS
<1>1. DataInv
  BY InitData DEF Init
<1>2. IsFiniteSet(DOMAIN db)
  <2>1. DOMAIN db = {}
    BY DEF Init, DataInit
  <2> QED
    BY <2>1, FS_EmptySet
<1>3. WireOK
  BY DEF Init, DataInit, WireOK
<1> QED
  BY <1>1, <1>2, <1>3 DEF EInv

\* A message has its length before it.
LEMMA FramedRequest ==
  ASSUME NEW body \in Seq(Nat)
  PROVE  /\ Framed(body) \in Seq(Nat) /\ Framed(body) # <<>>
         /\ Framed(body)[1] = Len(Framed(body)) - 1 /\ Framed(body)[1] = Len(body)
         /\ Tail(Framed(body)) = body
<1> DEFINE h == <<Len(body)>>
<1>1. h \in Seq(Nat) /\ Len(h) = 1 /\ h[1] = Len(body) /\ Len(body) \in Nat
  OBVIOUS
<1>2. Framed(body) = h \o body
  BY DEF Framed
<1>3. h \o body \in Seq(Nat) /\ Len(h \o body) = 1 + Len(body) /\ (h \o body)[1] = Len(body)
  <2>1. h \in Seq(Nat) /\ 1 \in 1 .. Len(h)
    BY <1>1
  <2> HIDE DEF h
  <2>2. Cat(h, body) \in Seq(Nat) /\ Len(Cat(h, body)) = Len(h) + Len(body)
    BY <2>1, CatAt
  <2>3. Cat(h, body)[1] = h[1]
    BY <2>1, CatAt
  <2> QED
    BY <1>1, <2>2, <2>3 DEF Cat
<1>4. Tail(h \o body) = body
  OBVIOUS
<1> HIDE DEF h
<1> QED
  BY <1>1, <1>2, <1>3, <1>4

LEMMA SendE ==
  ASSUME EInv, NEW args \in Argv, Send(args)
  PROVE  EInv'
<1>1. UNCHANGED <<data, out, reply>> /\ phase' = "sent" /\ argv' = args
  BY DEF Send
<1>2. DataInv' /\ IsFiniteSet(DOMAIN db)'
  BY <1>1, SameData DEF EInv, data
<1>3. args \in Command
  BY ExchangeAssumption DEF Command
<1>4. msg' = <<>> \/ msg' = Framed(Body(args))
  BY DEF Send, send_req
<1>5. msg' \in Seq(Nat) /\ (msg' # <<>> => msg'[1] = Len(msg') - 1)
  <2>1. CASE msg' = <<>>
    BY <2>1
  <2>2. CASE msg' = Framed(Body(args))
    <3>1. Body(args) \in Seq(Nat)
      BY <1>3, BodyType
    <3> QED
      BY <2>2, <3>1, FramedRequest
  <2> QED
    BY <1>4, <2>1, <2>2
<1>6. WireOK'
  BY <1>1, <1>5 DEF EInv, WireOK
<1> QED
  BY <1>2, <1>6 DEF EInv

LEMMA SendGarbageE ==
  ASSUME EInv, NEW body \in Garbage, SendGarbage(body)
  PROVE  EInv'
<1>1. UNCHANGED <<data, out, reply>> /\ phase' = "sent" /\ argv' = NULL /\ msg' = Framed(body)
  BY DEF SendGarbage
<1>2. DataInv' /\ IsFiniteSet(DOMAIN db)'
  BY <1>1, SameData DEF EInv, data
<1>3. msg' \in Seq(Nat) /\ (msg' # <<>> => msg'[1] = Len(msg') - 1)
  <2>1. body \in Seq(Nat)
    BY ExchangeAssumption
  <2> QED
    BY <1>1, <2>1, FramedRequest
<1>4. WireOK'
  BY <1>1, <1>3 DEF EInv, WireOK
<1> QED
  BY <1>2, <1>4 DEF EInv

LEMMA ServeE ==
  ASSUME EInv, Serve
  PROVE  EInv'
<1>1. PICK cmd \in Parsed(msg) : do_request(cmd) /\ reply' = Framed(Fitted(out'))
  BY DEF Serve
<1>2. cmd \in Command
  BY ParsedCommands DEF EInv
<1>3. DataInv'
  BY <1>1, <1>2, RequestData DEF EInv
<1>4. IsFiniteSet(DOMAIN db')
  BY <1>1, RequestKeys DEF EInv
<1>5. PICK vs : Written(out', vs)
  BY <1>1, <1>2, RequestWritten DEF EInv
<1>6. out' \in Seq(Int)
  BY <1>5 DEF Written, Cells
<1>7. \E c, ws : Written(c, ws) /\ reply' = Framed(c) /\ 1 + Len(c) <= MaxMsg
  <2>1. PICK d, ws : Written(d, ws) /\ Fitted(out') = d /\ 1 + Len(d) <= MaxMsg
    BY <1>5, FittedWritten
  <2> QED
    BY <1>1, <2>1
<1>8. phase' = "served" /\ argv' = argv /\ msg' = msg
  BY DEF Serve
<1>9. WireOK'
  BY <1>6, <1>7, <1>8 DEF EInv, WireOK
<1> QED
  BY <1>3, <1>4, <1>9 DEF EInv

LEMMA CloseE ==
  ASSUME EInv, Close
  PROVE  EInv'
<1>1. UNCHANGED <<data, out, argv, msg>> /\ phase' = "served" /\ reply' = <<>>
  BY DEF Close
<1>2. DataInv' /\ IsFiniteSet(DOMAIN db)'
  BY <1>1, SameData DEF EInv, data
<1> QED
  BY <1>1, <1>2 DEF EInv, WireOK

LEMMA ExitE ==
  ASSUME EInv, Exit
  PROVE  EInv'
<1>1. /\ UNCHANGED data /\ phase' = "idle" /\ argv' = NULL
      /\ out' = <<>> /\ msg' = <<>> /\ reply' = <<>>
  BY DEF Exit
<1>2. DataInv' /\ IsFiniteSet(DOMAIN db)'
  BY <1>1, SameData DEF EInv, data
<1> QED
  BY <1>1, <1>2 DEF EInv, WireOK

LEMMA NextE ==
  ASSUME EInv, [Next]_vars
  PROVE  EInv'
<1>1. CASE UNCHANGED vars
  <2>1. UNCHANGED <<data, db, out, phase, argv, msg, reply>>
    BY <1>1 DEF vars, data
  <2>2. DataInv' /\ IsFiniteSet(DOMAIN db)'
    BY <2>1, SameData DEF EInv
  <2> QED
    BY <2>1, <2>2 DEF EInv, WireOK
<1> QED
  BY <1>1, SendE, SendGarbageE, ServeE, CloseE, ExitE DEF Next

\* What a server has sent is read whole.
LEMMA ReadsFramed ==
  ASSUME NEW c, NEW vs, Written(c, vs), 1 + Len(c) <= MaxMsg
  PROVE  /\ Framed(c) \in Cells /\ Len(Framed(c)) = 1 + Len(c) /\ Tail(Framed(c)) = c
         /\ on_response(c).rv = Len(c)
         /\ read_res(Framed(c)) = [seen |-> vs, err |-> 0]
<1>1. c \in Cells /\ on_response(c) = Read(Len(c), 0, vs)
  BY DEF Written
<1>2. /\ Framed(c) \in Cells /\ Len(Framed(c)) = Len(c) + 1
      /\ Framed(c)[1] = Len(c) /\ Tail(Framed(c)) = c
  BY <1>1, MessageCells
<1>3. on_response(c).rv = Len(c) /\ on_response(c).seen = vs /\ Len(c) \in Nat
  BY <1>1 DEF Read, Cells
<1>4. read_res(Framed(c)) = [seen |-> vs, err |-> 0]
  <2> DEFINE m == Framed(c)
  <2>1. Tail(m) = c /\ m[1] = Len(c)
    BY <1>2
  <2> HIDE DEF m
  <2>2. ~ (m[1] > MaxMsg)
    BY <1>3, <2>1, ProtocolAssumption
  <2>3. read_res(m) = [seen |-> vs, err |-> 0]
    BY <1>3, <2>1, <2>2 DEF read_res
  <2> QED
    BY <2>3 DEF m
<1> QED
  BY <1>1, <1>2, <1>3, <1>4

LEMMA InvE == EInv => TypeOK /\ ReplyWhole /\ ZSetsOwned
<1> SUFFICES ASSUME EInv PROVE TypeOK /\ ReplyWhole /\ ZSetsOwned
  OBVIOUS
<1>1. CASE reply = <<>>
  BY <1>1 DEF EInv, WireOK, TypeOK, ReplyWhole, DataInv
<1>2. CASE reply # <<>>
  <2>1. PICK c, vs : Written(c, vs) /\ reply = Framed(c) /\ 1 + Len(c) <= MaxMsg
    BY <1>2 DEF EInv, WireOK
  <2>2. /\ reply \in Cells /\ Len(reply) = 1 + Len(c) /\ Tail(reply) = c
        /\ on_response(c).rv = Len(c)
        /\ read_res(reply) = [seen |-> vs, err |-> 0]
    BY <2>1, ReadsFramed
  <2>3. reply \in Seq(Int) /\ read_res(reply).err = 0 /\ Len(c) \in Nat
    BY <2>1, <2>2 DEF Cells, Written
  <2>4. on_response(Tail(reply)).rv = Len(reply) - 1 /\ Len(reply) <= MaxMsg
    <3> DEFINE n == Len(c)
               m == Len(reply)
    <3>1. n \in Nat /\ m = 1 + n /\ 1 + n <= MaxMsg /\ on_response(Tail(reply)).rv = n
      BY <2>1, <2>2, <2>3
    <3> HIDE DEF n, m
    <3>2. m - 1 = n /\ m <= MaxMsg
      BY <3>1
    <3> QED
      BY <3>1, <3>2 DEF m
  <2> QED
    BY <2>3, <2>4 DEF EInv, WireOK, TypeOK, ReplyWhole, DataInv
<1> QED
  BY <1>1, <1>2

\* The type of each variable, and each ZSet owned by one entry, whatever the
\* requests: those of clients and those of other programs (server.cpp:335-450).
THEOREM ExchangeTypes == Spec => [](TypeOK /\ ZSetsOwned)
<1>1. Init => EInv
  BY InitE
<1>2. EInv /\ [Next]_vars => EInv'
  BY NextE
<1>3. EInv => TypeOK /\ ZSetsOwned
  BY InvE
<1> QED
  BY <1>1, <1>2, <1>3, PTL DEF Spec

\* Whatever is asked, a client reads the reply to its last cell and takes it
\* for a good one, and the reply fits (server.cpp:464, 545-593,
\* client.cpp:173-262): for any store, any limits, and arrays of any length.
THEOREM ReplyWholeHolds == Spec => []ReplyWhole
<1>1. Init => EInv
  BY InitE
<1>2. EInv /\ [Next]_vars => EInv'
  BY NextE
<1>3. EInv => ReplyWhole
  BY InvE
<1> QED
  BY <1>1, <1>2, <1>3, PTL DEF Spec
-----------------------------------------------------------------------------
\* What can be sent is what send_req packs and parse_req takes.
LEMMA SendableIs ==
  ASSUME NEW args \in Command, args # NULL
  PROVE  Sendable(args) <=> Len(args) <= MaxArgs /\ ~ (Len(Body(args)) > MaxMsg)
<1> DEFINE sizes == [i \in DOMAIN args |-> 1 + Len(args[i])]
           f == Packed(args)
           flat == FlattenSeq(f)
<1>1. /\ f \in Seq(Seq(Nat)) /\ Len(f) = Len(args)
      /\ \A i \in 1 .. Len(args) : f[i] = Cat(<<Len(args[i])>>, args[i])
  BY PackedType
<1>2. Len(args) \in Nat /\ DOMAIN args = 1 .. Len(args) /\ Len(sizes) = Len(args)
  BY DEF Command
<1>3. ASSUME NEW i \in 1 .. Len(args) PROVE sizes[i] = Len(f[i])
  <2> DEFINE h == <<Len(args[i])>>
             c == args[i]
  <2>1. h \in Seq(Nat) /\ Len(h) = 1 /\ c \in Seq(Nat)
    BY Arguments
  <2>2. sizes[i] = 1 + Len(c)
    BY <1>2
  <2>3. f[i] = Cat(h, c)
    BY <1>1
  <2> HIDE DEF h, c, f, sizes
  <2>4. Len(Cat(h, c)) = Len(h) + Len(c)
    BY <2>1, CatType
  <2> QED
    BY <2>1, <2>2, <2>3, <2>4
<1> HIDE DEF f, sizes
<1>4. Total(sizes) = Len(flat)
  <2>1. f \in Seq(Seq(Nat))
    BY <1>1
  <2>2. Len(sizes) = Len(f) /\ \A i \in 1 .. Len(f) : sizes[i] = Len(f[i])
    BY <1>1, <1>2, <1>3
  <2> QED
    BY <2>1, <2>2, TotalOfLengths
<1>5. flat \in Seq(Nat) /\ Len(Body(args)) = 1 + Len(flat)
  <2> DEFINE h == <<Len(args)>>
  <2>1. h \in Seq(Nat) /\ Len(h) = 1
    BY <1>2
  <2>2. flat \in Seq(Nat) /\ Body(args) = Cat(h, flat)
    BY BodyType DEF f
  <2> HIDE DEF h, flat
  <2>3. Len(Cat(h, flat)) = Len(h) + Len(flat)
    BY <2>1, <2>2, CatType
  <2> QED
    BY <2>1, <2>2, <2>3
<1>6. Len(flat) \in Nat
  BY <1>5
<1>7. Sendable(args) <=> Len(args) <= MaxArgs /\ 1 + Total(sizes) <= MaxMsg
  BY DEF Sendable, sizes
<1> HIDE DEF flat
<1>8. 1 + Total(sizes) <= MaxMsg <=> ~ (Len(Body(args)) > MaxMsg)
  <2> DEFINE n == Len(flat)
  <2>1. n \in Nat /\ Total(sizes) = n /\ Len(Body(args)) = 1 + n
    BY <1>4, <1>5, <1>6
  <2> HIDE DEF n
  <2> QED
    BY <2>1, ProtocolAssumption
<1> QED
  BY <1>7, <1>8

\* What is on its way is what was asked for.
Asked ==
  /\ phase = "idle" => argv = NULL /\ reply = <<>>
  /\ phase = "sent" =>
       \/ argv = NULL /\ \E f \in Garbage : msg = Framed(f)
       \/ argv \in Argv
          /\ msg = IF Len(Body(argv)) > MaxMsg THEN <<>> ELSE Framed(Body(argv))

LEMMA AskedHolds ==
  ASSUME Asked, [Next]_vars
  PROVE  Asked'
<1>1. CASE UNCHANGED vars
  BY <1>1 DEF vars, Asked
<1>2. ASSUME NEW args \in Argv, Send(args) PROVE Asked'
  <2>1. phase' = "sent" /\ argv' = args
    BY <1>2 DEF Send
  <2>2. msg' = IF Len(Body(args)) > MaxMsg THEN <<>> ELSE Framed(Body(args))
    BY <1>2 DEF Send, send_req
  <2> QED
    BY <2>1, <2>2 DEF Asked
<1>3. ASSUME NEW body \in Garbage, SendGarbage(body) PROVE Asked'
  BY <1>3 DEF SendGarbage, Asked
<1>4. CASE Serve
  BY <1>4 DEF Serve, Asked
<1>5. CASE Close
  BY <1>5 DEF Close, Asked
<1>6. CASE Exit
  BY <1>6 DEF Exit, Asked
<1> QED
  BY <1>1, <1>2, <1>3, <1>4, <1>5, <1>6 DEF Next

\* The server runs what was asked for, if it can be sent, and else nothing.
LEMMA ParsedIsAsked ==
  ASSUME WireOK, Asked, phase = "sent"
  PROVE  Parsed(msg) = IF Sendable(argv) THEN {argv} ELSE {}
<1>1. CASE argv = NULL
  <2>1. ~ Sendable(argv)
    BY <1>1 DEF Sendable
  <2>2. PICK f \in Garbage : msg = Framed(f)
    BY <1>1, ExchangeAssumption DEF Asked
  <2>3. f \in Seq(Nat) /\ ~ IsBody(f)
    BY ExchangeAssumption
  <2>4. Tail(msg) = f
    BY <2>2, <2>3, FramedRequest
  <2>5. \A cmd \in Parsed(msg) : IsBody(Tail(msg))
    BY ParsedCommands
  <2> QED
    BY <2>1, <2>3, <2>4, <2>5
<1>2. CASE argv # NULL /\ Len(Body(argv)) > MaxMsg
  <2>1. argv \in Argv /\ msg = <<>>
    BY <1>2 DEF Asked
  <2>2. argv \in Command
    BY <2>1, ExchangeAssumption DEF Command
  <2>3. ~ Sendable(argv)
    BY <1>2, <2>2, SendableIs
  <2> QED
    BY <2>1, <2>3 DEF Parsed
<1>3. CASE argv # NULL /\ ~ (Len(Body(argv)) > MaxMsg)
  <2>1. argv \in Argv /\ msg = Framed(Body(argv))
    BY <1>3 DEF Asked
  <2>2. argv \in Command
    BY <2>1, ExchangeAssumption DEF Command
  <2> DEFINE f == Body(argv)
  <2>3. f \in Seq(Nat)
    BY <2>2, BodyType
  <2>4. msg # <<>> /\ msg[1] = Len(f) /\ Tail(msg) = f
    BY <2>1, <2>3, FramedRequest
  <2>5. \A rest \in Beyond :
          parse_req(f \o rest, Len(f)) = IF Len(argv) > MaxArgs THEN {} ELSE {argv}
    <3>1. ASSUME NEW rest \in Beyond
          PROVE  parse_req(f \o rest, Len(f)) = IF Len(argv) > MaxArgs THEN {} ELSE {argv}
      <4>1. rest \in Seq(Nat)
        BY ExchangeAssumption
      <4> QED
        BY <2>2, <4>1, ParsePacked
    <3> QED
      BY <3>1
  <2> HIDE DEF f
  <2>6. Parsed(msg) = UNION {parse_req(f \o rest, Len(f)) : rest \in Beyond}
    BY <1>3, <2>4 DEF Parsed, f
  <2>7. Parsed(msg) = IF Len(argv) > MaxArgs THEN {} ELSE {argv}
    <3>1. Beyond # {}
      BY ExchangeAssumption
    <3> QED
      BY <2>5, <2>6, <3>1
  <2>8. Sendable(argv) <=> Len(argv) <= MaxArgs
    BY <1>3, <2>2, SendableIs
  <2>9. Len(argv) \in Nat
    BY <2>2 DEF Command
  <2> QED
    BY <2>7, <2>8, <2>9, ProtocolAssumption
<1> QED
  BY <1>1, <1>2, <1>3

\* The store that the entries and the ZSet objects stand for, and what has
\* been printed.
Stored(entry, heap) ==
  [type |-> entry.type, val |-> entry.val,
   members |-> IF entry.zset = NULL THEN [n \in {} |-> 0] ELSE heap[entry.zset]]
StoreOf(entries, heap) == [k \in DOMAIN entries |-> Stored(entries[k], heap)]
Shown(ph, r) == IF ph = "sent" \/ r = <<>> THEN <<>> ELSE read_res(r).seen

TooBig == <<"err", 2>>

\* A command is served with the reply in out'.
Serving == phase' = "served" /\ reply' = Framed(Fitted(out'))

LEMMA AnswerAbs ==
  ASSUME Serving, NEW vs, Written(out', vs)
  PROVE  Abs!Answer(vs)
<1> PICK c : c = out'
  OBVIOUS
<1>1. Written(c, vs) /\ reply' = Framed(Fitted(c))
  BY DEF Serving
<1>2. FitsReply(vs) <=> 1 + Len(c) <= MaxMsg
  BY <1>1 DEF FitsReply, Written
<1>3. \A d, ws : Written(d, ws) /\ 1 + Len(d) <= MaxMsg
        => Shown("served", Framed(d)) = ws
  <2>1. ASSUME NEW d, NEW ws, Written(d, ws), 1 + Len(d) <= MaxMsg
        PROVE  Shown("served", Framed(d)) = ws
    <3>1. Framed(d) \in Cells /\ read_res(Framed(d)) = [seen |-> ws, err |-> 0]
      BY <2>1, ReadsFramed
    <3>2. Framed(d) # <<>>
      BY <3>1 DEF Cells
    <3> QED
      BY <3>1, <3>2 DEF Shown
  <2> QED
    BY <2>1
<1>4. Shown("served", reply') = IF FitsReply(vs) THEN vs ELSE <<TooBig>>
  <2>1. Len(c) \in Nat
    BY <1>1 DEF Written, Cells
  <2>2. CASE 1 + Len(c) <= MaxMsg
    <3>1. Fitted(c) = c
      BY <2>1, <2>2, ProtocolAssumption DEF Fitted
    <3> QED
      BY <1>1, <1>2, <1>3, <2>2, <3>1
  <2>3. CASE ~ (1 + Len(c) <= MaxMsg)
    <3> DEFINE d == out_err(ERR_2BIG)
    <3>1. Fitted(c) = d
      BY <2>1, <2>3, ProtocolAssumption DEF Fitted
    <3>2. Written(d, <<TooBig>>) /\ 1 + Len(d) <= MaxMsg
      BY BigWritten DEF TooBig, ERR_2BIG
    <3> HIDE DEF d
    <3> QED
      BY <1>1, <1>2, <1>3, <2>3, <3>1, <3>2
  <2> QED
    BY <2>2, <2>3
<1> QED
  BY <1>4 DEF Abs!Answer, Abs!TooBig, Shown, TooBig, Serving

LEMMA OnlyAbs ==
  ASSUME Serving, NEW vs, Written(out', vs), UNCHANGED data
  PROVE  Abs!Only(vs)
  BY AnswerAbs DEF Abs!Only, data

LEMMA PutAbs ==
  ASSUME NEW key, NEW value,
         StoreOf(db', zsets') =
           [k \in DOMAIN db \cup {key} |-> IF k = key THEN value ELSE StoreOf(db, zsets)[k]]
  PROVE  Abs!Put(key, value)
  BY DEF Abs!Put, Abs!Keys, StoreOf, Stored

\* A command has one meaning.
LEMMA MeaningIs ==
  ASSUME NEW cmd \in Command, Sendable(cmd)
  PROVE  /\ ~ Known(cmd) => Meaning(cmd) = [verb |-> "unknown"]
         /\ Known(cmd) /\ ~ Numbers(cmd) => Meaning(cmd) = [verb |-> "badnumber"]
         /\ Numbers(cmd) =>
              /\ Is(cmd, 1, "keys") => Meaning(cmd) = [verb |-> "keys"]
              /\ Is(cmd, 2, "get") => Meaning(cmd) = [verb |-> "get", key |-> cmd[2]]
              /\ Is(cmd, 3, "set") =>
                   Meaning(cmd) = [verb |-> "set", key |-> cmd[2], val |-> cmd[3]]
              /\ Is(cmd, 2, "del") => Meaning(cmd) = [verb |-> "del", key |-> cmd[2]]
              /\ Is(cmd, 4, "zadd") =>
                   Meaning(cmd) = [verb |-> "zadd", key |-> cmd[2],
                                   score |-> Dbl[cmd[3]], name |-> cmd[4]]
              /\ Is(cmd, 3, "zrem") =>
                   Meaning(cmd) = [verb |-> "zrem", key |-> cmd[2], name |-> cmd[3]]
              /\ Is(cmd, 3, "zscore") =>
                   Meaning(cmd) = [verb |-> "zscore", key |-> cmd[2], name |-> cmd[3]]
              /\ Is(cmd, 6, "zquery") =>
                   Meaning(cmd) = [verb |-> "zquery", key |-> cmd[2], score |-> Dbl[cmd[3]],
                                   name |-> cmd[4], offset |-> Int64[cmd[5]],
                                   limit |-> Int64[cmd[6]]]
<1>1. \A v, w \in Verb : v # w => ~ (cmd[1] \in Spelling[v] /\ cmd[1] \in Spelling[w])
  BY KeyspaceAssumption
<1>2. /\ ~ (Is(cmd, 2, "get") /\ Is(cmd, 2, "del"))
      /\ ~ (Is(cmd, 3, "set") /\ Is(cmd, 3, "zrem"))
      /\ ~ (Is(cmd, 3, "set") /\ Is(cmd, 3, "zscore"))
      /\ ~ (Is(cmd, 3, "zrem") /\ Is(cmd, 3, "zscore"))
  BY <1>1 DEF Is, Verb
<1> DEFINE keys == [verb |-> "keys"]
           get == [verb |-> "get", key |-> cmd[2]]
           set == [verb |-> "set", key |-> cmd[2], val |-> cmd[3]]
           del == [verb |-> "del", key |-> cmd[2]]
           zadd == [verb |-> "zadd", key |-> cmd[2], score |-> Dbl[cmd[3]], name |-> cmd[4]]
           zrem == [verb |-> "zrem", key |-> cmd[2], name |-> cmd[3]]
           zscore == [verb |-> "zscore", key |-> cmd[2], name |-> cmd[3]]
           zquery == [verb |-> "zquery", key |-> cmd[2], score |-> Dbl[cmd[3]], name |-> cmd[4],
                      offset |-> Int64[cmd[5]], limit |-> Int64[cmd[6]]]
<1>3. Known(cmd) /\ Numbers(cmd) => Meaning(cmd) =
        CASE Is(cmd, 1, "keys") -> keys
          [] Is(cmd, 2, "get") -> get
          [] Is(cmd, 3, "set") -> set
          [] Is(cmd, 2, "del") -> del
          [] Is(cmd, 4, "zadd") -> zadd
          [] Is(cmd, 3, "zrem") -> zrem
          [] Is(cmd, 3, "zscore") -> zscore
          [] Is(cmd, 6, "zquery") -> zquery
  BY Zenon DEF Meaning
<1> HIDE DEF keys, get, set, del, zadd, zrem, zscore, zquery
<1>4. ASSUME Known(cmd), Numbers(cmd)
      PROVE  /\ Is(cmd, 1, "keys") => Meaning(cmd) = keys
             /\ Is(cmd, 2, "get") => Meaning(cmd) = get
             /\ Is(cmd, 3, "set") => Meaning(cmd) = set
             /\ Is(cmd, 2, "del") => Meaning(cmd) = del
             /\ Is(cmd, 4, "zadd") => Meaning(cmd) = zadd
             /\ Is(cmd, 3, "zrem") => Meaning(cmd) = zrem
             /\ Is(cmd, 3, "zscore") => Meaning(cmd) = zscore
             /\ Is(cmd, 6, "zquery") => Meaning(cmd) = zquery
  <2>1. Meaning(cmd) = CASE Is(cmd, 1, "keys") -> keys
                         [] Is(cmd, 2, "get") -> get
                         [] Is(cmd, 3, "set") -> set
                         [] Is(cmd, 2, "del") -> del
                         [] Is(cmd, 4, "zadd") -> zadd
                         [] Is(cmd, 3, "zrem") -> zrem
                         [] Is(cmd, 3, "zscore") -> zscore
                         [] Is(cmd, 6, "zquery") -> zquery
    BY <1>3, <1>4
  <2>2. \/ Is(cmd, 1, "keys") \/ Is(cmd, 2, "get") \/ Is(cmd, 3, "set") \/ Is(cmd, 2, "del")
        \/ Is(cmd, 4, "zadd") \/ Is(cmd, 3, "zrem") \/ Is(cmd, 3, "zscore")
        \/ Is(cmd, 6, "zquery")
    BY <1>4 DEF Known
  <2>3. CASE Len(cmd) = 1
    BY <2>1, <2>2, <2>3 DEF Is
  <2>4. CASE Len(cmd) = 2
    BY <1>2, <2>1, <2>2, <2>4 DEF Is
  <2>5. CASE Len(cmd) = 3
    BY <1>2, <2>1, <2>2, <2>5 DEF Is
  <2>6. CASE Len(cmd) = 4
    BY <2>1, <2>2, <2>6 DEF Is
  <2>7. CASE Len(cmd) = 6
    BY <2>1, <2>2, <2>7 DEF Is
  <2>8. CASE Len(cmd) \notin {1, 2, 3, 4, 6}
    BY <2>2, <2>8 DEF Is
  <2> QED
    BY <2>3, <2>4, <2>5, <2>6, <2>7, <2>8
<1>5. /\ ~ Known(cmd) => Meaning(cmd) = [verb |-> "unknown"]
      /\ Known(cmd) /\ ~ Numbers(cmd) => Meaning(cmd) = [verb |-> "badnumber"]
  BY Zenon DEF Meaning
<1>6. /\ Is(cmd, 1, "keys") => Known(cmd)
      /\ Is(cmd, 2, "get") \/ Is(cmd, 2, "del") => Known(cmd)
      /\ Is(cmd, 3, "set") \/ Is(cmd, 3, "zrem") \/ Is(cmd, 3, "zscore") => Known(cmd)
      /\ Is(cmd, 4, "zadd") \/ Is(cmd, 6, "zquery") => Known(cmd)
  BY Zenon DEF Known
<1> QED
  BY <1>4, <1>5, <1>6, Zenon DEF keys, get, set, del, zadd, zrem, zscore, zquery

LEMMA OneAbs ==
  ASSUME Serving, NEW v, Says(out', v)
  PROVE  Abs!Answer(<<v>>)
<1>1. Written(out', <<v>>)
  BY OneWritten
<1> QED
  BY <1>1, AnswerAbs

LEMMA OnlyOneAbs ==
  ASSUME Serving, NEW v, Says(out', v), UNCHANGED data
  PROVE  Abs!Only(<<v>>)
<1>1. Written(out', <<v>>)
  BY OneWritten
<1> QED
  BY <1>1, OnlyAbs

\* One value is put, the others stay what they are.
LEMMA PutStored ==
  ASSUME NEW key, NEW value, DOMAIN db' = DOMAIN db \cup {key},
         Stored(db'[key], zsets') = value,
         \A k \in DOMAIN db \ {key} : Stored(db'[k], zsets') = Stored(db[k], zsets)
  PROVE  Abs!Put(key, value)
<1>1. StoreOf(db', zsets') =
        [k \in DOMAIN db \cup {key} |-> IF k = key THEN value ELSE StoreOf(db, zsets)[k]]
  BY DEF StoreOf
<1> QED
  BY <1>1, PutAbs

\* The errors and the numbers that commands reply.
LEMMA Replies ==
  /\ Says(out_nil, Abs!Nil)
  /\ Says(out_int(1), Abs!Count(TRUE)) /\ Says(out_int(0), Abs!Count(FALSE))
  /\ Says(out_err(ERR_UNKNOWN), <<"err", 1>>) /\ Says(out_err(ERR_TYPE), <<"err", 3>>)
  /\ Says(out_err(ERR_ARG), <<"err", 4>>)
<1>1. Says(out_nil, Abs!Nil)
  BY ValuesSaid DEF Abs!Nil
<1>2. Says(out_int(1), Abs!Count(TRUE)) /\ Says(out_int(0), Abs!Count(FALSE))
  <2>1. ASSUME NEW n \in Int PROVE Says(out_int(n), <<"int", n>>)
    BY ValuesSaid
  <2>2. Says(out_int(1), <<"int", 1>>)
    BY <2>1
  <2>3. Says(out_int(0), <<"int", 0>>)
    BY <2>1
  <2> QED
    BY <2>2, <2>3 DEF Abs!Count
<1>3. /\ Says(out_err(1), <<"err", 1>>) /\ Says(out_err(3), <<"err", 3>>)
      /\ Says(out_err(4), <<"err", 4>>)
  BY ValuesSaid DEF ERR_UNKNOWN, ERR_ARG
<1> QED
  BY <1>1, <1>2, <1>3 DEF ERR_UNKNOWN, ERR_TYPE, ERR_ARG

\* Store has these operators from the modules that Exchange has them from.
LEMMA SameOperators ==
  /\ \A S : Abs!Cardinality(S) = Cardinality(S) /\ Abs!SetToSeqs(S) = SetToSeqs(S)
  /\ \A s : Abs!FlattenSeq(s) = FlattenSeq(s)
<1>1. \A S : Abs!Cardinality(S) = Cardinality(S)
  BY Zenon DEF Abs!Cardinality, Cardinality
<1>2. \A S : Abs!SetToSeqs(S) = SetToSeqs(S)
  BY <1>1, Zenon DEF Abs!SetToSeqs, SetToSeqs
<1>3. \A s : Abs!FlattenSeq(s) = FlattenSeq(s)
  BY Zenon DEF Abs!FlattenSeq, FlattenSeq
<1> QED
  BY <1>1, <1>2, <1>3

LEMMA KeysAbs ==
  ASSUME Serving, DataInv, IsFiniteSet(DOMAIN db), do_keys(argv)
  PROVE  Abs!ListKeys
<1>1. PICK order \in SetToSeqs(DOMAIN db) :
        Reply(out_arr(Cardinality(DOMAIN db))
                \o FlattenSeq([i \in DOMAIN order |-> out_str(order[i])]))
  BY DEF do_keys
<1>2. PICK n : n = Cardinality(DOMAIN db)
  OBVIOUS
<1>3. PICK vs : vs = <<<<"arr", n>>>> \o [i \in DOMAIN order |-> <<"str", order[i]>>]
  OBVIOUS
<1>4. Written(out', vs) /\ UNCHANGED data
  BY <1>1, <1>2, <1>3, KeysReplyWritten DEF Reply
<1>5. Abs!Only(vs)
  BY <1>4, OnlyAbs
<1>6. Abs!Keys = DOMAIN db
  BY DEF Abs!Keys
<1> QED
  BY <1>2, <1>3, <1>5, <1>6, SameOperators DEF Abs!ListKeys, Abs!Only, Abs!Answer

LEMMA GetAbs ==
  ASSUME Serving, DataInv, do_get(argv), Meaning(argv) = [verb |-> "get", key |-> argv[2]]
  PROVE  Abs!Get
<1> DEFINE key == argv[2]
<1>1. Meaning(argv).key = key /\ UNCHANGED data
  BY DEF do_get, Reply
<1>2. CASE key \in DOMAIN db
  <2> DEFINE val == db[key].val
  <2>1. out' = out_str(val) /\ val \in Seq(Nat)
    BY <1>2 DEF do_get, Reply, DataInv, DataOK, Entry
  <2>2. Says(out', <<"str", val>>)
    BY <2>1, ValuesSaid
  <2> HIDE DEF val
  <2>3. Abs!Only(<<<<"str", val>>>>)
    BY <1>1, <2>2, OnlyOneAbs
  <2> QED
    BY <1>1, <1>2, <2>3 DEF Abs!Get, Abs!Keys, val
<1>3. CASE key \notin DOMAIN db
  <2>1. Says(out', Abs!Nil)
    BY <1>3, Replies DEF do_get, Reply
  <2>2. Abs!Only(<<Abs!Nil>>)
    BY <1>1, <2>1, OnlyOneAbs
  <2> QED
    BY <1>1, <1>3, <2>2 DEF Abs!Get, Abs!Keys
<1> QED
  BY <1>2, <1>3

LEMMA SetFinish ==
  ASSUME NEW key \in DOMAIN db, NEW value, Meaning(argv).key = key,
         value = [Stored(db[key], zsets) EXCEPT !.val = Moved],
         Abs!Put(key, value), Abs!Answer(<<Abs!Nil>>)
  PROVE  Abs!Set
<1>1. Abs!Keys = DOMAIN db
  BY DEF Abs!Keys
<1>2. value = [StoreOf(db, zsets)[key] EXCEPT !.val = Moved]
  BY DEF StoreOf
<1>3. Moved \in {Moved} \cup UNION {{a[i] : i \in DOMAIN a} : a \in Argv}
  OBVIOUS
<1>4. StoreOf(db', zsets') = [k \in DOMAIN db \cup {key} |-> IF k = key THEN value ELSE StoreOf(db, zsets)[k]]
  BY <1>1 DEF Abs!Put, StoreOf, Stored
<1>5. Abs!Put(Meaning(argv).key, [StoreOf(db, zsets)[Meaning(argv).key] EXCEPT !.val = Moved])
  BY <1>1, <1>2, <1>4 DEF Abs!Put, StoreOf, Stored
<1> QED
  BY <1>1, <1>3, <1>5 DEF Abs!Set, Abs!Put, StoreOf, Stored

LEMMA SetAbs ==
  ASSUME Serving, DataInv, do_set(argv),
         Meaning(argv) = [verb |-> "set", key |-> argv[2], val |-> argv[3]]
  PROVE  Abs!Set
<1>1. PICK key : key = argv[2]
  OBVIOUS
<1>2. Meaning(argv).key = key /\ Meaning(argv).val = argv[3] /\ UNCHANGED zsets
  BY <1>1 DEF do_set
<1>3. Abs!Answer(<<Abs!Nil>>)
  <2>1. Says(out', Abs!Nil)
    BY Replies DEF do_set
  <2> QED
    BY <2>1, OneAbs
<1>4. CASE key \notin DOMAIN db
  <2> DEFINE entry == [type |-> "str", val |-> argv[3], zset |-> NULL]
  <2>1. PICK value : value = [type |-> "str", val |-> argv[3], members |-> [n \in {} |-> 0]]
    OBVIOUS
  <2>2. db' = With(db, key, entry)
    BY <1>1, <1>4 DEF do_set
  <2>3. DOMAIN db' = DOMAIN db \cup {key} /\ db'[key] = entry /\ \A k \in DOMAIN db : db'[k] = db[k]
    BY <1>4, <2>2 DEF With
  <2>4. Stored(entry, zsets') = value
    BY <2>1 DEF Stored
  <2> HIDE DEF entry
  <2>5. Stored(db'[key], zsets') = value
    BY <2>3, <2>4
  <2>6. \A k \in DOMAIN db \ {key} : Stored(db'[k], zsets') = Stored(db[k], zsets)
    BY <1>2, <2>3
  <2>7. Abs!Put(key, value)
    BY <2>3, <2>5, <2>6, PutStored
  <2> QED
    BY <1>2, <1>3, <1>4, <2>1, <2>7 DEF Abs!Set, Abs!Put, Abs!Keys
<1>5. CASE key \in DOMAIN db
  <2>1. PICK value : value = [Stored(db[key], zsets) EXCEPT !.val = Moved]
    OBVIOUS
  <2>2. db' = [db EXCEPT ![key].val = Moved] /\ db \in [DOMAIN db -> Entry]
    BY <1>1, <1>5 DEF do_set, DataInv, DataOK
  <2>3. DOMAIN db' = DOMAIN db \cup {key} /\ \A k \in DOMAIN db \ {key} : db'[k] = db[k]
    BY <1>5, <2>2
  <2>4. Stored(db'[key], zsets') = value
    <3>1. db'[key] = [db[key] EXCEPT !.val = Moved] /\ db[key] \in Entry
      BY <1>5, <2>2
    <3> QED
      BY <1>2, <2>1, <3>1 DEF Stored, Entry
  <2>5. \A k \in DOMAIN db \ {key} : Stored(db'[k], zsets') = Stored(db[k], zsets)
    BY <1>2, <2>3
  <2>6. Abs!Put(key, value)
    BY <2>3, <2>4, <2>5, PutStored
  <2> QED
    BY <1>2, <1>3, <1>5, <2>1, <2>6, SetFinish, Zenon DEF Moved
<1> QED
  BY <1>4, <1>5

LEMMA DelAbs ==
  ASSUME Serving, DataInv, do_del(argv), Meaning(argv) = [verb |-> "del", key |-> argv[2]]
  PROVE  Abs!Del
<1> DEFINE key == argv[2]
<1>1. Meaning(argv).key = key /\ UNCHANGED zsets /\ db' = Without(db, key)
  BY DEF do_del
<1>2. Abs!Answer(<<Abs!Count(key \in DOMAIN db)>>)
  <2>1. CASE key \in DOMAIN db
    <3>1. Says(out', Abs!Count(TRUE))
      BY <2>1, Replies DEF do_del
    <3>2. Abs!Answer(<<Abs!Count(TRUE)>>)
      BY <3>1, OneAbs
    <3> QED
      BY <2>1, <3>2 DEF Abs!Count
  <2>2. CASE key \notin DOMAIN db
    <3>1. Says(out', Abs!Count(FALSE))
      BY <2>2, Replies DEF do_del
    <3>2. Abs!Answer(<<Abs!Count(FALSE)>>)
      BY <3>1, OneAbs
    <3> QED
      BY <2>2, <3>2 DEF Abs!Count
  <2> QED
    BY <2>1, <2>2
<1>3. StoreOf(db', zsets') = [k \in DOMAIN db \ {key} |-> StoreOf(db, zsets)[k]]
  BY <1>1 DEF StoreOf, Without
<1> QED
  BY <1>1, <1>2, <1>3 DEF Abs!Del, Abs!Keys, StoreOf, Stored

\* The members of a key: those of its ZSet.
LEMMA MembersAbs ==
  ASSUME DataInv, NEW key, Meaning(argv).key = key
  PROVE  /\ Abs!Keys = DOMAIN db
         /\ ZSetAt(key) => /\ Abs!Members = zsets[db[key].zset] /\ Abs!RightType
                           /\ Stored(db[key], zsets) = [type |-> "zset", val |-> db[key].val,
                                                        members |-> zsets[db[key].zset]]
         /\ key \notin DOMAIN db => Abs!Members = [n \in {} |-> 0] /\ Abs!RightType
<1>1. Abs!Keys = DOMAIN db
  BY DEF Abs!Keys
<1>2. ASSUME ZSetAt(key)
      PROVE  key \in DOMAIN db /\ db[key].zset # NULL /\ db[key].type = "zset"
  BY <1>2 DEF ZSetAt, DataInv, ZSetsOwned
<1>3. ZSetAt(key) => Abs!Members = zsets[db[key].zset] /\ Abs!RightType
  BY <1>1, <1>2 DEF Abs!Members, Abs!RightType
<1>4. ZSetAt(key) => Stored(db[key], zsets) = [type |-> "zset", val |-> db[key].val,
                                               members |-> zsets[db[key].zset]]
  BY <1>2 DEF Stored
<1>5. key \notin DOMAIN db => Abs!Members = [n \in {} |-> 0] /\ Abs!RightType
  BY <1>1 DEF Abs!Members, Abs!RightType
<1> QED
  BY <1>1, <1>3, <1>4, <1>5

\* No ZSet: another type, or no entry.
LEMMA NoZSetAbs ==
  ASSUME Serving, DataInv, NEW key, Meaning(argv).key = key, NEW missing, NoZSet(key, missing)
  PROVE  Abs!WrongType \/ (key \notin DOMAIN db /\ out' = missing /\ UNCHANGED data)
<1>1. CASE key \in DOMAIN db
  <2>1. Says(out', <<"err", 3>>) /\ UNCHANGED data
    BY <1>1, Replies DEF NoZSet, Reply
  <2>2. Abs!Only(<<<<"err", 3>>>>)
    BY <2>1, OnlyOneAbs
  <2>3. db[key].type # "zset"
    BY <1>1 DEF NoZSet, ZSetAt
  <2> QED
    BY <1>1, <2>2, <2>3 DEF Abs!WrongType, Abs!Keys
<1>2. CASE key \notin DOMAIN db
  BY <1>2 DEF NoZSet, Reply
<1> QED
  BY <1>1, <1>2

\* Only the key that owns a ZSet has other members.
LEMMA MembersPut ==
  ASSUME DataInv, NEW key, ZSetAt(key), NEW members,
         zsets' = [zsets EXCEPT ![db[key].zset] = members], UNCHANGED db,
         NEW value, value = [type |-> "zset", val |-> db[key].val, members |-> members]
  PROVE  Abs!Put(key, value)
<1>2. /\ key \in DOMAIN db /\ db[key].zset # NULL /\ db[key].type = "zset"
      /\ db[key].zset \in DOMAIN zsets
  BY DEF ZSetAt, DataInv, ZSetsOwned
<1>3. zsets'[db[key].zset] = members
  BY <1>2
<1>4. Stored(db'[key], zsets') = value
  BY <1>2, <1>3 DEF Stored
<1>5. ASSUME NEW k \in DOMAIN db \ {key} PROVE Stored(db'[k], zsets') = Stored(db[k], zsets)
  <2>1. db[k].zset # db[key].zset
    BY <1>2 DEF DataInv, ZSetsOwned
  <2>2. db[k].zset # NULL => db[k].zset \in DOMAIN zsets
    BY DEF DataInv, ZSetsOwned
  <2>3. db[k].zset # NULL => zsets'[db[k].zset] = zsets[db[k].zset]
    BY <2>1, <2>2
  <2> QED
    BY <2>3 DEF Stored
<1> QED
  BY <1>2, <1>4, <1>5, PutStored

LEMMA CountAbs ==
  ASSUME Serving, NEW b \in BOOLEAN, out' = out_int(IF b THEN 1 ELSE 0)
  PROVE  Abs!Answer(<<Abs!Count(b)>>)
<1>1. CASE b
  <2>1. Says(out', Abs!Count(TRUE))
    BY <1>1, Replies
  <2>2. Abs!Answer(<<Abs!Count(TRUE)>>)
    BY <2>1, OneAbs
  <2> QED
    BY <1>1, <2>2
<1>2. CASE ~ b
  <2>1. Says(out', Abs!Count(FALSE))
    BY <1>2, Replies
  <2>2. Abs!Answer(<<Abs!Count(FALSE)>>)
    BY <2>1, OneAbs
  <2> QED
    BY <1>2, <2>2
<1> QED
  BY <1>1, <1>2

LEMMA ZScoreAbs ==
  ASSUME Serving, DataInv, do_zscore(argv),
         Meaning(argv) = [verb |-> "zscore", key |-> argv[2], name |-> argv[3]]
  PROVE  Abs!WrongType \/ Abs!ZScore
<1>1. PICK key, name : key = argv[2] /\ name = argv[3]
  OBVIOUS
<1>2. Meaning(argv).key = key /\ Meaning(argv).name = name
  BY <1>1
<1>3. PICK m : m = zsets[db[key].zset]
  OBVIOUS
<1>4. CASE NoZSet(key, out_nil)
  <2>1. CASE Abs!WrongType
    BY <2>1
  <2>2. CASE key \notin DOMAIN db /\ out' = out_nil /\ UNCHANGED data
    <3>1. Abs!Only(<<Abs!Nil>>)
      BY <2>2, OnlyOneAbs, Replies
    <3>2. Abs!Members = [n \in {} |-> 0] /\ Abs!RightType
      BY <1>2, <2>2, MembersAbs
    <3> QED
      BY <3>1, <3>2 DEF Abs!ZScore
  <2> QED
    BY <1>2, <1>4, <2>1, <2>2, NoZSetAbs
<1>5. CASE ZSetAt(key) /\ Reply(IF name \in DOMAIN m THEN out_dbl(m[name]) ELSE out_nil)
  <2>1. Abs!Members = m /\ Abs!RightType /\ UNCHANGED data
    BY <1>2, <1>3, <1>5, MembersAbs DEF Reply
  <2>2. CASE name \in DOMAIN m
    <3>1. PICK s : s = m[name]
      OBVIOUS
    <3>2. s \in Int
      BY <1>3, <1>5, <2>2, <3>1, ZSetOf
    <3>3. Says(out', <<"dbl", s>>)
      BY <1>5, <2>2, <3>1, <3>2, ValuesSaid DEF Reply
    <3>4. Abs!Only(<<<<"dbl", s>>>>)
      BY <2>1, <3>3, OnlyOneAbs
    <3> QED
      BY <1>2, <2>1, <2>2, <3>1, <3>4 DEF Abs!ZScore
  <2>3. CASE name \notin DOMAIN m
    <3>1. Says(out', Abs!Nil)
      BY <1>5, <2>3, Replies DEF Reply
    <3>2. Abs!Only(<<Abs!Nil>>)
      BY <2>1, <3>1, OnlyOneAbs
    <3> QED
      BY <1>2, <2>1, <2>3, <3>2 DEF Abs!ZScore
  <2> QED
    BY <2>2, <2>3
<1> QED
  BY <1>1, <1>3, <1>4, <1>5 DEF do_zscore

LEMMA ZRemAbs ==
  ASSUME Serving, DataInv, do_zrem(argv),
         Meaning(argv) = [verb |-> "zrem", key |-> argv[2], name |-> argv[3]]
  PROVE  Abs!WrongType \/ Abs!ZRem
<1>1. PICK key, name : key = argv[2] /\ name = argv[3]
  OBVIOUS
<1>2. Meaning(argv).key = key /\ Meaning(argv).name = name
  BY <1>1
<1>3. PICK m : m = zsets[db[key].zset]
  OBVIOUS
<1>4. CASE NoZSet(key, out_nil)
  <2>1. CASE Abs!WrongType
    BY <2>1
  <2>2. CASE key \notin DOMAIN db /\ out' = out_nil /\ UNCHANGED data
    <3>1. Abs!Only(<<Abs!Nil>>)
      BY <2>2, OnlyOneAbs, Replies
    <3>2. Abs!RightType /\ Abs!Keys = DOMAIN db
      BY <1>2, <2>2, MembersAbs
    <3> QED
      BY <1>2, <2>2, <3>1, <3>2 DEF Abs!ZRem
  <2> QED
    BY <1>2, <1>4, <2>1, <2>2, NoZSetAbs
<1>5. CASE /\ ZSetAt(key) /\ UNCHANGED db
           /\ zsets' = [zsets EXCEPT ![db[key].zset] = Without(@, name)]
           /\ out' = out_int(IF name \in DOMAIN m THEN 1 ELSE 0)
  <2>1. PICK less : less = Without(m, name)
    OBVIOUS
  <2>2. zsets' = [zsets EXCEPT ![db[key].zset] = less]
    BY <1>3, <1>5, <2>1
  <2>3. PICK value : value = [type |-> "zset", val |-> db[key].val, members |-> less]
    OBVIOUS
  <2>4. /\ Abs!Members = m /\ Abs!RightType /\ Abs!Keys = DOMAIN db /\ key \in DOMAIN db
        /\ Stored(db[key], zsets) = [type |-> "zset", val |-> db[key].val, members |-> m]
    BY <1>2, <1>3, <1>5, MembersAbs DEF ZSetAt
  <2>5. PICK b \in BOOLEAN : b <=> name \in DOMAIN m
    OBVIOUS
  <2>6. Abs!Answer(<<Abs!Count(b)>>)
    BY <1>5, <2>5, CountAbs
  <2>7. Abs!Put(key, value)
    BY <1>5, <2>2, <2>3, MembersPut
  <2>8. [StoreOf(db, zsets)[key] EXCEPT
           !.members = [n \in DOMAIN Abs!Members \ {name} |-> Abs!Members[n]]] = value
    BY <2>1, <2>3, <2>4 DEF StoreOf, Without
  <2>9. Abs!Put(Meaning(argv).key,
                [StoreOf(db, zsets)[Meaning(argv).key] EXCEPT
                   !.members = [n \in DOMAIN Abs!Members \ {Meaning(argv).name} |-> Abs!Members[n]]])
    BY <1>2, <2>7, <2>8 DEF Abs!Put
  <2>10. Abs!Answer(<<Abs!Count(Meaning(argv).name \in DOMAIN Abs!Members)>>)
    BY <1>2, <2>4, <2>5, <2>6 DEF Abs!Answer, Abs!Count
  <2> QED
    BY <1>2, <2>4, <2>9, <2>10, Zenon DEF Abs!ZRem, StoreOf, Stored
<1> QED
  BY <1>1, <1>3, <1>4, <1>5 DEF do_zrem

LEMMA ZAddAbs ==
  ASSUME Serving, DataInv, argv \in Command, Is(argv, 4, "zadd"), do_zadd(argv),
         argv[3] \in DOMAIN Dbl,
         Meaning(argv) = [verb |-> "zadd", key |-> argv[2], score |-> Dbl[argv[3]],
                          name |-> argv[4]]
  PROVE  Abs!WrongType \/ Abs!ZAdd
<1>1. PICK key, name, score : key = argv[2] /\ name = argv[4] /\ score = Dbl[argv[3]]
  OBVIOUS
<1>2. Meaning(argv).key = key /\ Meaning(argv).name = name /\ Meaning(argv).score = score
  BY <1>1
<1>3. PICK m : m = zsets[db[key].zset]
  OBVIOUS
<1>4. CASE key \in DOMAIN db /\ db[key].type # "zset" /\ Reply(out_err(ERR_TYPE))
  <2>1. Abs!Only(<<<<"err", 3>>>>)
    BY <1>4, OnlyOneAbs, Replies DEF Reply
  <2> QED
    BY <1>2, <1>4, <2>1 DEF Abs!WrongType, Abs!Keys
<1>5. CASE /\ ZSetAt(key) /\ UNCHANGED db
           /\ zset_add(db[key].zset, name, score)
  <2>1. PICK more : more = With(m, name, score)
    OBVIOUS
  <2>2. /\ zsets' = [zsets EXCEPT ![db[key].zset] = more]
        /\ out' = out_int(IF name \in DOMAIN m THEN 0 ELSE 1)
    BY <1>3, <1>5, <2>1 DEF zset_add
  <2>3. PICK value : value = [type |-> "zset", val |-> db[key].val, members |-> more]
    OBVIOUS
  <2>4. /\ Abs!Members = m /\ Abs!RightType /\ Abs!Keys = DOMAIN db /\ key \in DOMAIN db
        /\ Stored(db[key], zsets) = [type |-> "zset", val |-> db[key].val, members |-> m]
    BY <1>2, <1>3, <1>5, MembersAbs DEF ZSetAt
  <2>5. PICK b \in BOOLEAN : b <=> name \notin DOMAIN m
    OBVIOUS
  <2>6. Abs!Answer(<<Abs!Count(b)>>)
    BY <2>2, <2>5, CountAbs
  <2>7. Abs!Put(key, value)
    BY <1>5, <2>2, <2>3, MembersPut
  <2>8. [type |-> "zset",
         val |-> IF key \in Abs!Keys THEN StoreOf(db, zsets)[key].val ELSE <<>>,
         members |-> [n \in DOMAIN Abs!Members \cup {name} |->
                        IF n = name THEN score ELSE Abs!Members[n]]] = value
    BY <2>1, <2>3, <2>4 DEF StoreOf, With
  <2>9. Abs!Put(Meaning(argv).key,
                [type |-> "zset",
                 val |-> IF Meaning(argv).key \in Abs!Keys
                         THEN StoreOf(db, zsets)[Meaning(argv).key].val ELSE <<>>,
                 members |-> [n \in DOMAIN Abs!Members \cup {Meaning(argv).name} |->
                                IF n = Meaning(argv).name THEN Meaning(argv).score
                                ELSE Abs!Members[n]]])
    BY <1>2, <2>7, <2>8 DEF Abs!Put
  <2>10. Abs!Answer(<<Abs!Count(Meaning(argv).name \notin DOMAIN Abs!Members)>>)
    BY <1>2, <2>4, <2>5, <2>6 DEF Abs!Answer, Abs!Count
  <2> QED
    BY <2>4, <2>9, <2>10, Zenon DEF Abs!ZAdd, StoreOf, Stored
<1>6. ASSUME key \notin DOMAIN db, NEW z \in ZSetObj \ DOMAIN zsets,
             zsets' = With(zsets, z, [n \in {name} |-> score]),
             db' = With(db, key, [type |-> "zset", val |-> <<>>, zset |-> z]),
             out' = out_int(1)
      PROVE  Abs!ZAdd
  <2>1. PICK more : more = [n \in {name} |-> score]
    OBVIOUS
  <2>2. PICK entry : entry = [type |-> "zset", val |-> <<>>, zset |-> z]
    OBVIOUS
  <2>3. PICK value : value = [type |-> "zset", val |-> <<>>, members |-> more]
    OBVIOUS
  <2>4. /\ DOMAIN db' = DOMAIN db \cup {key} /\ db'[key] = entry
        /\ \A k \in DOMAIN db : db'[k] = db[k]
    BY <1>6, <2>2 DEF With
  <2>5. zsets'[z] = more /\ \A y \in DOMAIN zsets : zsets'[y] = zsets[y]
    BY <1>6, <2>1 DEF With
  <2>6. z # NULL
    BY KeyspaceAssumption
  <2>7. Stored(db'[key], zsets') = value
    BY <2>2, <2>3, <2>4, <2>5, <2>6 DEF Stored
  <2>8. ASSUME NEW k \in DOMAIN db \ {key} PROVE Stored(db'[k], zsets') = Stored(db[k], zsets)
    <3>1. db[k].zset # NULL => db[k].zset \in DOMAIN zsets
      BY DEF DataInv, ZSetsOwned
    <3>2. db[k].zset # NULL => zsets'[db[k].zset] = zsets[db[k].zset]
      BY <2>5, <3>1
    <3> QED
      BY <2>4, <3>2 DEF Stored
  <2>9. Abs!Put(key, value)
    BY <2>4, <2>7, <2>8, PutStored
  <2>10. Abs!Members = [n \in {} |-> 0] /\ Abs!RightType /\ Abs!Keys = DOMAIN db
    BY <1>2, <1>6, MembersAbs
  <2>11. Abs!Answer(<<Abs!Count(TRUE)>>)
    BY <1>6, CountAbs
  <2>12. [type |-> "zset",
          val |-> IF key \in Abs!Keys THEN StoreOf(db, zsets)[key].val ELSE <<>>,
          members |-> [n \in DOMAIN Abs!Members \cup {name} |->
                         IF n = name THEN score ELSE Abs!Members[n]]] = value
    BY <1>6, <2>1, <2>3, <2>10
  <2>13. Abs!Put(Meaning(argv).key,
                 [type |-> "zset",
                  val |-> IF Meaning(argv).key \in Abs!Keys
                          THEN StoreOf(db, zsets)[Meaning(argv).key].val ELSE <<>>,
                  members |-> [n \in DOMAIN Abs!Members \cup {Meaning(argv).name} |->
                                 IF n = Meaning(argv).name THEN Meaning(argv).score
                                 ELSE Abs!Members[n]]])
    BY <1>2, <2>9, <2>12 DEF Abs!Put
  <2>14. Abs!Answer(<<Abs!Count(Meaning(argv).name \notin DOMAIN Abs!Members)>>)
    BY <2>10, <2>11 DEF Abs!Answer, Abs!Count
  <2> QED
    BY <2>10, <2>13, <2>14, Zenon DEF Abs!ZAdd, StoreOf, Stored
<1> QED
  BY <1>1, <1>4, <1>5, <1>6 DEF do_zadd, ZSetAt

\* What zset_query looks for is what a query is to start from.
LEMMA FirstAbs ==
  ASSUME NEW m, m \in [DOMAIN m -> Int], DOMAIN m \subseteq Seq(Nat), Abs!Members = m,
         NEW n \in DOMAIN m
  PROVE  Abs!First(n) <=> n \in Sought(m, Meaning(argv).score, Meaning(argv).name)
<1>1. PICK score, name : score = Meaning(argv).score /\ name = Meaning(argv).name
  OBVIOUS
<1>2. n \in Sought(m, score, name) <=>
        /\ ~ TupleLess(m[n], n, score, name)
        /\ \A l \in DOMAIN m \ {n} :
             TupleLess(m[l], l, score, name) \/ TupleLess(m[n], n, m[l], l)
  BY SoughtIsFirst
<1> QED
  BY <1>1, <1>2, Zenon DEF Abs!First

\* A query with its answer.
LEMMA QueryAbs ==
  ASSUME Serving, Abs!RightType, UNCHANGED data, NEW m, Abs!Members = m,
         NEW limit \in Int, Meaning(argv).limit = limit,
         NEW k \in 0 .. (IF limit > 0 THEN (limit + 1) \div 2 ELSE 0),
         NEW names \in [1 .. k -> DOMAIN m],
         limit > 0 /\ Meaning(argv).offset = 0 =>
           IF names = <<>> THEN ~ \E n \in DOMAIN m : Abs!First(n) ELSE Abs!First(names[1]),
         NEW vs,
         vs = <<<<"arr", 2 * k>>>>
                \o FlattenSeq([i \in 1 .. k |-> <<<<"str", names[i]>>, <<"dbl", m[names[i]]>>>>]),
         Written(out', vs)
  PROVE  Abs!ZQuery
<1>1. Abs!Only(vs)
  BY OnlyAbs
<1>2. vs = <<<<"arr", 2 * k>>>>
             \o Abs!FlattenSeq([i \in 1 .. k |->
                  <<<<"str", names[i]>>, <<"dbl", Abs!Members[names[i]]>>>>])
  BY SameOperators
<1>3. Abs!Only(<<<<"arr", 2 * k>>>>
             \o Abs!FlattenSeq([i \in 1 .. k |->
                  <<<<"str", names[i]>>, <<"dbl", Abs!Members[names[i]]>>>>]))
  BY <1>1, <1>2 DEF Abs!Only, Abs!Answer
<1>4. /\ k \in 0 .. (IF Meaning(argv).limit > 0 THEN (Meaning(argv).limit + 1) \div 2 ELSE 0)
      /\ names \in [1 .. k -> DOMAIN Abs!Members]
      /\ Meaning(argv).limit > 0 /\ Meaning(argv).offset = 0 =>
           IF names = <<>> THEN ~ \E n \in DOMAIN Abs!Members : Abs!First(n)
           ELSE Abs!First(names[1])
  OBVIOUS
<1> QED
  BY <1>3, <1>4, Zenon DEF Abs!ZQuery

LEMMA NoTuplesAbs ==
  ASSUME Serving, Abs!RightType, UNCHANGED data, NEW m, Abs!Members = m,
         NEW limit \in Int, Meaning(argv).limit = limit,
         limit > 0 => ~ \E n \in DOMAIN m : Abs!First(n),
         out' = out_arr(0)
  PROVE  Abs!ZQuery
<1>1. PICK k, names : k = 0 /\ names = <<>>
  OBVIOUS
<1>2. k \in 0 .. (IF limit > 0 THEN (limit + 1) \div 2 ELSE 0) /\ names \in [1 .. k -> DOMAIN m]
  <2>1. limit > 0 => (limit + 1) \div 2 >= 0
    OBVIOUS
  <2>2. 0 \in 0 .. (IF limit > 0 THEN (limit + 1) \div 2 ELSE 0)
    BY <2>1
  <2>3. <<>> \in [1 .. 0 -> DOMAIN m]
    OBVIOUS
  <2> QED
    BY <1>1, <2>2, <2>3, Zenon
<1>3. PICK vs : vs = <<<<"arr", 2 * k>>>>
        \o FlattenSeq([i \in 1 .. k |-> <<<<"str", names[i]>>, <<"dbl", m[names[i]]>>>>])
  OBVIOUS
<1>4. vs = <<<<"arr", 0>>>>
  <2>1. [i \in 1 .. k |-> <<<<"str", names[i]>>, <<"dbl", m[names[i]]>>>>] = <<>>
    BY <1>1
  <2>2. FlattenSeq([i \in 1 .. k |-> <<<<"str", names[i]>>, <<"dbl", m[names[i]]>>>>]) = <<>>
    BY <2>1, FlattenEmpty, Zenon
  <2>3. 2 * k = 0 /\ <<<<"arr", 0>>>> \o <<>> = <<<<"arr", 0>>>>
    BY <1>1
  <2> QED
    BY <1>3, <2>2, <2>3
<1>5. Written(out', vs)
  BY <1>4, EmptyArrayWritten
<1>6. limit > 0 /\ Meaning(argv).offset = 0 =>
        IF names = <<>> THEN ~ \E n \in DOMAIN m : Abs!First(n) ELSE Abs!First(names[1])
  BY <1>1
<1> QED
  BY <1>2, <1>3, <1>5, <1>6, QueryAbs

LEMMA ZQueryAbs ==
  ASSUME Serving, DataInv, argv \in Command, do_zquery(argv),
         argv[3] \in DOMAIN Dbl, {argv[5], argv[6]} \subseteq DOMAIN Int64,
         Meaning(argv) = [verb |-> "zquery", key |-> argv[2], score |-> Dbl[argv[3]],
                          name |-> argv[4], offset |-> Int64[argv[5]], limit |-> Int64[argv[6]]]
  PROVE  Abs!WrongType \/ Abs!ZQuery
<1>1. PICK key, score, name, offset, limit :
        /\ key = argv[2] /\ name = argv[4] /\ score = Dbl[argv[3]]
        /\ offset = Int64[argv[5]] /\ limit = Int64[argv[6]]
  OBVIOUS
<1>2. /\ Meaning(argv).key = key /\ Meaning(argv).name = name /\ Meaning(argv).score = score
      /\ Meaning(argv).offset = offset /\ Meaning(argv).limit = limit
  BY <1>1
<1>3. PICK m : m = zsets[db[key].zset]
  OBVIOUS
<1>4. limit \in Int /\ offset \in Int
  BY <1>1, KeyspaceAssumption
<1>5. CASE NoZSet(key, out_arr(0))
  <2>1. CASE Abs!WrongType
    BY <2>1
  <2>2. CASE key \notin DOMAIN db /\ out' = out_arr(0) /\ UNCHANGED data
    <3>1. PICK none : none = [n \in {} |-> 0]
      OBVIOUS
    <3>2. Abs!Members = none /\ Abs!RightType
      BY <1>2, <2>2, <3>1, MembersAbs
    <3>3. ~ \E n \in DOMAIN none : Abs!First(n)
      BY <3>1
    <3> QED
      BY <1>2, <1>4, <2>2, <3>2, <3>3, NoTuplesAbs
  <2> QED
    BY <1>2, <1>5, <2>1, <2>2, NoZSetAbs
<1>6. CASE ZSetAt(key) /\ UNCHANGED data
  <2>1. Abs!Members = m /\ Abs!RightType
    BY <1>2, <1>3, <1>6, MembersAbs
  <2>2. m \in [DOMAIN m -> Int] /\ DOMAIN m \subseteq Seq(Nat)
    BY <1>3, <1>6, ZSetOf
  <2>3. CASE limit <= 0 /\ out' = out_arr(0)
    <3>1. ~ (limit > 0)
      BY <1>4, <2>3
    <3> QED
      BY <1>2, <1>4, <1>6, <2>1, <2>3, <3>1, NoTuplesAbs
  <2>4. ASSUME limit > 0, NEW names \in Listed(m, Sought(m, score, name), offset, limit),
               out' = Listing(m, names)
        PROVE  Abs!ZQuery
    <3>1. PICK k \in 0 .. (limit + 1) \div 2 : names \in [1 .. k -> DOMAIN m]
      BY <2>4 DEF Listed
    <3>2. /\ Sought(m, score, name) = {} => names = <<>>
          /\ offset = 0 /\ Sought(m, score, name) # {} =>
               names # <<>> /\ names[1] \in Sought(m, score, name)
      BY <2>4 DEF Listed
    <3>3. \A n \in DOMAIN m : Abs!First(n) <=> n \in Sought(m, score, name)
      BY <1>2, <2>1, <2>2, FirstAbs
    <3>4. Sought(m, score, name) \subseteq DOMAIN m
      BY DEF Sought
    <3>5. limit > 0 /\ Meaning(argv).offset = 0 =>
            IF names = <<>> THEN ~ \E n \in DOMAIN m : Abs!First(n) ELSE Abs!First(names[1])
      BY <1>2, <3>2, <3>3, <3>4
    <3>6. PICK vs : vs = <<<<"arr", 2 * k>>>>
            \o FlattenSeq([i \in 1 .. k |-> <<<<"str", names[i]>>, <<"dbl", m[names[i]]>>>>])
      OBVIOUS
    <3>7. k \in Nat
      OBVIOUS
    <3>8. Written(Listing(m, names), vs)
      BY <2>2, <3>1, <3>6, <3>7, ListingWritten
    <3>9. Written(out', vs)
      BY <2>4, <3>8
    <3>10. k \in 0 .. (IF limit > 0 THEN (limit + 1) \div 2 ELSE 0)
      BY <2>4
    <3> QED
      BY <1>2, <1>4, <1>6, <2>1, <3>1, <3>5, <3>6, <3>9, <3>10, QueryAbs
  <2>5. \/ limit <= 0 /\ out' = out_arr(0)
        \/ limit > 0 /\ \E names \in Listed(m, Sought(m, score, name), offset, limit) :
                          out' = Listing(m, names)
        \/ NoZSet(key, out_arr(0))
    BY <1>1, <1>3, Zenon DEF do_zquery, Reply
  <2> QED
    BY <1>5, <2>3, <2>4, <2>5
<1>7. NoZSet(key, out_arr(0)) \/ (ZSetAt(key) /\ UNCHANGED data)
  BY <1>1, Zenon DEF do_zquery, Reply
<1> QED
  BY <1>5, <1>6, <1>7

\* Every command that is served has the effect and the answer it is to have.
Effected ==
  \/ Meaning(argv).verb = "keys" /\ Abs!ListKeys
  \/ Meaning(argv).verb = "get" /\ Abs!Get
  \/ Meaning(argv).verb = "set" /\ Abs!Set
  \/ Meaning(argv).verb = "del" /\ Abs!Del
  \/ Meaning(argv).verb \in {"zadd", "zrem", "zscore", "zquery"} /\ Abs!WrongType
  \/ Meaning(argv).verb = "zadd" /\ Abs!ZAdd
  \/ Meaning(argv).verb = "zrem" /\ Abs!ZRem
  \/ Meaning(argv).verb = "zscore" /\ Abs!ZScore
  \/ Meaning(argv).verb = "zquery" /\ Abs!ZQuery
  \/ Meaning(argv).verb = "unknown" /\ Abs!Unknown
  \/ Meaning(argv).verb = "badnumber" /\ Abs!BadNumber

LEMMA RequestAbs ==
  ASSUME Serving, DataInv, IsFiniteSet(DOMAIN db), argv \in Command, Sendable(argv),
         do_request(argv)
  PROVE  Effected
<1>1. CASE ~ Known(argv)
  <2>1. Reply(out_err(ERR_UNKNOWN))
    BY <1>1, Zenon DEF do_request, Known
  <2>2. Abs!Only(<<<<"err", 1>>>>)
    BY <2>1, OnlyOneAbs, Replies DEF Reply
  <2>3. Meaning(argv).verb = "unknown"
    BY <1>1, MeaningIs
  <2> QED
    BY <2>2, <2>3 DEF Effected, Abs!Unknown
<1>2. CASE Known(argv) /\ ~ Numbers(argv)
  <2>1. Reply(out_err(ERR_ARG))
    <3>1. \/ Is(argv, 4, "zadd") /\ argv[3] \notin DOMAIN Dbl
          \/ /\ Is(argv, 6, "zquery")
             /\ ~ (argv[3] \in DOMAIN Dbl /\ {argv[5], argv[6]} \subseteq DOMAIN Int64)
      BY <1>2 DEF Numbers
    <3>2. CASE Is(argv, 4, "zadd") /\ argv[3] \notin DOMAIN Dbl
      <4>1. do_zadd(argv)
        BY <1>2, <3>2 DEF do_request, Is
      <4> QED
        BY <3>2, <4>1, Zenon DEF do_zadd
    <3>3. CASE /\ Is(argv, 6, "zquery")
               /\ ~ (argv[3] \in DOMAIN Dbl /\ {argv[5], argv[6]} \subseteq DOMAIN Int64)
      <4>1. do_zquery(argv)
        BY <1>2, <3>3 DEF do_request, Is
      <4> QED
        BY <3>3, <4>1, Zenon DEF do_zquery
    <3> QED
      BY <3>1, <3>2, <3>3
  <2>2. Abs!Only(<<<<"err", 4>>>>)
    BY <2>1, OnlyOneAbs, Replies DEF Reply
  <2>3. Meaning(argv).verb = "badnumber"
    BY <1>2, MeaningIs
  <2> QED
    BY <2>2, <2>3 DEF Effected, Abs!BadNumber
<1>3. CASE Known(argv) /\ Numbers(argv)
  <2>1. \/ Is(argv, 1, "keys") /\ do_keys(argv)
        \/ Is(argv, 2, "get") /\ do_get(argv)
        \/ Is(argv, 3, "set") /\ do_set(argv)
        \/ Is(argv, 2, "del") /\ do_del(argv)
        \/ Is(argv, 4, "zadd") /\ do_zadd(argv)
        \/ Is(argv, 3, "zrem") /\ do_zrem(argv)
        \/ Is(argv, 3, "zscore") /\ do_zscore(argv)
        \/ Is(argv, 6, "zquery") /\ do_zquery(argv)
    BY <1>3, Zenon DEF do_request
  <2>2. CASE Is(argv, 1, "keys") /\ do_keys(argv)
    <3>1. Meaning(argv).verb = "keys"
      BY <1>3, <2>2, MeaningIs
    <3> QED
      BY <2>2, <3>1, KeysAbs DEF Effected
  <2>3. CASE Is(argv, 2, "get") /\ do_get(argv)
    <3>1. Meaning(argv) = [verb |-> "get", key |-> argv[2]]
      BY <1>3, <2>3, MeaningIs
    <3>2. Meaning(argv).verb = "get"
      BY <3>1
    <3> QED
      BY <2>3, <3>1, <3>2, GetAbs DEF Effected
  <2>4. CASE Is(argv, 3, "set") /\ do_set(argv)
    <3>1. Meaning(argv) = [verb |-> "set", key |-> argv[2], val |-> argv[3]]
      BY <1>3, <2>4, MeaningIs
    <3>2. Meaning(argv).verb = "set"
      BY <3>1
    <3> QED
      BY <2>4, <3>1, <3>2, SetAbs DEF Effected
  <2>5. CASE Is(argv, 2, "del") /\ do_del(argv)
    <3>1. Meaning(argv) = [verb |-> "del", key |-> argv[2]]
      BY <1>3, <2>5, MeaningIs
    <3>2. Meaning(argv).verb = "del"
      BY <3>1
    <3> QED
      BY <2>5, <3>1, <3>2, DelAbs DEF Effected
  <2>6. CASE Is(argv, 4, "zadd") /\ do_zadd(argv)
    <3>1. Meaning(argv) = [verb |-> "zadd", key |-> argv[2], score |-> Dbl[argv[3]],
                           name |-> argv[4]]
      BY <1>3, <2>6, MeaningIs
    <3>2. Meaning(argv).verb = "zadd" /\ argv[3] \in DOMAIN Dbl
      BY <1>3, <2>6, <3>1 DEF Numbers
    <3> QED
      BY <2>6, <3>1, <3>2, ZAddAbs DEF Effected
  <2>7. CASE Is(argv, 3, "zrem") /\ do_zrem(argv)
    <3>1. Meaning(argv) = [verb |-> "zrem", key |-> argv[2], name |-> argv[3]]
      BY <1>3, <2>7, MeaningIs
    <3>2. Meaning(argv).verb = "zrem"
      BY <3>1
    <3> QED
      BY <2>7, <3>1, <3>2, ZRemAbs DEF Effected
  <2>8. CASE Is(argv, 3, "zscore") /\ do_zscore(argv)
    <3>1. Meaning(argv) = [verb |-> "zscore", key |-> argv[2], name |-> argv[3]]
      BY <1>3, <2>8, MeaningIs
    <3>2. Meaning(argv).verb = "zscore"
      BY <3>1
    <3> QED
      BY <2>8, <3>1, <3>2, ZScoreAbs DEF Effected
  <2>9. CASE Is(argv, 6, "zquery") /\ do_zquery(argv)
    <3>1. Meaning(argv) = [verb |-> "zquery", key |-> argv[2], score |-> Dbl[argv[3]],
                           name |-> argv[4], offset |-> Int64[argv[5]],
                           limit |-> Int64[argv[6]]]
      BY <1>3, <2>9, MeaningIs
    <3>2. /\ Meaning(argv).verb = "zquery" /\ argv[3] \in DOMAIN Dbl
          /\ {argv[5], argv[6]} \subseteq DOMAIN Int64
      BY <1>3, <2>9, <3>1 DEF Numbers
    <3> QED
      BY <2>9, <3>1, <3>2, ZQueryAbs DEF Effected
  <2> QED
    BY <2>1, <2>2, <2>3, <2>4, <2>5, <2>6, <2>7, <2>8, <2>9
<1> QED
  BY <1>1, <1>2, <1>3

LEMMA ServeAbs ==
  ASSUME EInv, Asked, Serve
  PROVE  Abs!Effect
<1>1. PICK cmd \in Parsed(msg) : do_request(cmd) /\ reply' = Framed(Fitted(out'))
  BY DEF Serve
<1>2. phase = "sent" /\ phase' = "served" /\ UNCHANGED argv
  BY DEF Serve
<1>3. cmd = argv /\ Sendable(argv)
  BY <1>2, ParsedIsAsked DEF EInv
<1>4. argv \in Command
  BY <1>3, ExchangeAssumption DEF Command, EInv, WireOK, Sendable
<1>5. Serving /\ do_request(argv)
  BY <1>1, <1>2, <1>3 DEF Serving
<1>6. Effected
  BY <1>3, <1>4, <1>5, RequestAbs DEF EInv
<1>7. Meaning(argv)' = Meaning(argv)
  BY <1>2
<1>8. /\ (CASE phase = "sent" -> "called" [] phase = "served" -> "done" [] OTHER -> phase) = "called"
      /\ (CASE phase' = "sent" -> "called" [] phase' = "served" -> "done" [] OTHER -> phase') = "done"
  BY <1>2
<1> QED
  BY <1>6, <1>7, <1>8 DEF Effected, Abs!Effect

LEMMA CloseAbs ==
  ASSUME EInv, Asked, Close
  PROVE  Abs!Effect
<1>1. /\ phase = "sent" /\ phase' = "served" /\ reply' = <<>>
      /\ UNCHANGED <<data, db, zsets, argv>> /\ Parsed(msg) = {}
  BY DEF Close, data
<1>2. ~ Sendable(argv)
  BY <1>1, ParsedIsAsked DEF EInv
<1>3. Meaning(argv) = [verb |-> "refused"]
  BY <1>2 DEF Meaning
<1>4. Meaning(argv)' = Meaning(argv)
  BY <1>1
<1> QED
  BY <1>1, <1>3, <1>4 DEF Abs!Effect

LEMMA SendAbs ==
  ASSUME NEW args \in Argv \cup {NULL}, phase = "idle", phase' = "sent", argv' = args,
         UNCHANGED data
  PROVE  Abs!Call(Meaning(args)) /\ Abs!Next
<1>1. Abs!Call(Meaning(args))
  BY DEF Abs!Call, data
<1>2. Meaning(args) \in {Meaning(a) : a \in Argv \cup {NULL}}
  OBVIOUS
<1> QED
  BY <1>1, <1>2 DEF Abs!Next, Abs!Call

LEMMA ExitAbs ==
  ASSUME Exit
  PROVE  Abs!Return
<1>1. /\ phase = "served" /\ phase' = "idle" /\ argv' = NULL /\ reply' = <<>>
      /\ UNCHANGED <<data, db, zsets>>
  BY DEF Exit, data
<1>2. Meaning(NULL) = [verb |-> "refused"]
  BY DEF Meaning, Sendable
<1>3. Meaning(argv)' = Meaning(NULL)
  BY <1>1
<1> QED
  BY <1>1, <1>2, <1>3 DEF Abs!Return

LEMMA InitAbs == Init => Abs!Init
<1> SUFFICES ASSUME Init PROVE Abs!Init
  OBVIOUS
<1>1. db = [k \in {} |-> NULL] /\ phase = "idle" /\ argv = NULL /\ reply = <<>>
  BY DEF Init, DataInit
<1>2. Meaning(argv) = [verb |-> "refused"]
  BY <1>1 DEF Meaning, Sendable
<1>3. DOMAIN db = {}
  BY <1>1
<1> QED
  BY <1>1, <1>2, <1>3 DEF Abs!Init

LEMMA StepAbs ==
  ASSUME EInv, Asked, [Next]_vars
  PROVE  [Abs!Next]_(Abs!vars)
<1>1. CASE UNCHANGED vars
  BY <1>1 DEF vars, Abs!vars
<1>2. ASSUME NEW args \in Argv, Send(args) PROVE Abs!Next
  BY <1>2, SendAbs DEF Send
<1>3. ASSUME NEW body \in Garbage, SendGarbage(body) PROVE Abs!Next
  BY <1>3, SendAbs DEF SendGarbage
<1>4. CASE Serve
  BY <1>4, ServeAbs DEF Abs!Next
<1>5. CASE Close
  BY <1>5, CloseAbs DEF Abs!Next
<1>6. CASE Exit
  BY <1>6, ExitAbs DEF Abs!Next
<1> QED
  BY <1>1, <1>2, <1>3, <1>4, <1>5, <1>6 DEF Next

\* A command does to one store of values what it says, and is answered as it
\* says, from the command line to what is printed; and bytes that no client
\* packs do nothing (client.cpp, server.cpp:125-600).
THEOREM ImplementsStoreHolds == Spec => ImplementsStore
<1>1. Init => EInv /\ Asked
  BY InitE DEF Init, Asked
<1>2. EInv /\ Asked /\ [Next]_vars => (EInv /\ Asked)'
  BY NextE, AskedHolds
<1>3. Init => Abs!Init
  BY InitAbs
<1>4. EInv /\ Asked /\ [Next]_vars => [Abs!Next]_(Abs!vars)
  BY StepAbs
<1> QED
  BY <1>1, <1>2, <1>3, <1>4, PTL DEF Spec, ImplementsStore, Abs!Spec
=============================================================================
