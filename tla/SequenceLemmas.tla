--------------------------- MODULE SequenceLemmas ----------------------------
(***************************************************************************)
(* Lemmas that the proofs about messages need: induction over the natural  *)
(* numbers, stated for sets, and what FlattenSeq makes of sequences.       *)
(***************************************************************************)
EXTENDS Integers, SequencesExt, SequenceTheorems, TLAPS

LOCAL W == INSTANCE WellFoundedInduction

\* A set of numbers that has 0, and with each number the next, has them all.
LEMMA SetInduction ==
  ASSUME NEW T, 0 \in T, \A n \in Nat : n \in T => n + 1 \in T
  PROVE  Nat \subseteq T
<1> DEFINE R == {p \in Nat \X Nat : p[1] < p[2]}
           Missing == Nat \ T
<1>1. W!IsWellFoundedOn(R, Nat)
  BY W!NatLessThanWellFounded, Zenon DEF W!OpToRel
<1>2. ASSUME Missing # {} PROVE FALSE
  <2>1. PICK x \in Missing : \A y \in Missing : <<y, x>> \notin R
    <3>1. Missing \subseteq Nat
      OBVIOUS
    <3> HIDE DEF R, Missing
    <3> QED
      BY <1>1, <1>2, <3>1, W!WFMin, Zenon
  <2>2. x \in Nat /\ x - 1 \in Nat /\ x - 1 < x /\ (x - 1) + 1 = x
    OBVIOUS
  <2>3. <<x - 1, x>> \in R
    BY <2>2
  <2>4. x - 1 \in T
    BY <2>1, <2>2, <2>3
  <2> QED
    BY <2>2, <2>4
<1> QED
  BY <1>2

\* The partial concatenations of a sequence of sequences.
Concats(ss, n) ==
  CHOOSE f : f = [i \in 1 .. n |-> IF i = 1 THEN ss[i] ELSE f[i - 1] \o ss[i]]

\* That they exist, although each is defined from the one before.
LEMMA ConcatsDef ==
  ASSUME NEW ss, NEW n \in Nat
  PROVE  Concats(ss, n) =
           [i \in 1 .. n |-> IF i = 1 THEN ss[i] ELSE Concats(ss, n)[i - 1] \o ss[i]]
<1> DEFINE Is(f, k) == f = [i \in 1 .. k |-> IF i = 1 THEN ss[i] ELSE f[i - 1] \o ss[i]]
           T == {k \in Nat : \E f : Is(f, k)}
<1>1. 0 \in T
  <2>1. Is(<<>>, 0)
    OBVIOUS
  <2> QED
    BY <2>1
<1>2. ASSUME NEW k \in Nat, k \in T PROVE k + 1 \in T
  <2>1. PICK f : Is(f, k)
    BY <1>2
  <2> DEFINE e(h, i) == IF i = 1 THEN ss[i] ELSE h[i - 1] \o ss[i]
             g == [i \in 1 .. k + 1 |-> e(f, i)]
  <2>2. f = [i \in 1 .. k |-> e(f, i)]
    BY <2>1
  <2>3. \A h, i : (i # 1 => h[i - 1] = f[i - 1]) => e(h, i) = e(f, i)
    OBVIOUS
  <2> HIDE DEF e
  <2>4. \A i \in 1 .. k : g[i] = f[i]
    BY <2>2
  <2>5. \A i \in 1 .. k + 1 : i # 1 => g[i - 1] = f[i - 1]
    BY <2>4
  <2>6. g = [i \in 1 .. k + 1 |-> e(g, i)]
    BY <2>3, <2>5
  <2>7. Is(g, k + 1)
    BY <2>6 DEF e
  <2> HIDE DEF g, Is
  <2> QED
    BY <2>7
<1>3. n \in T
  BY <1>1, <1>2, SetInduction
<1>4. \E f : Is(f, n)
  BY <1>3
<1> QED
  BY <1>4, Zenon DEF Concats

LEMMA ConcatsStep ==
  ASSUME NEW ss, NEW n \in Nat, NEW i \in 1 .. n
  PROVE  Concats(ss, n)[i] = IF i = 1 THEN ss[i] ELSE Concats(ss, n)[i - 1] \o ss[i]
<1> DEFINE p == Concats(ss, n)
<1>1. p = [j \in 1 .. n |-> IF j = 1 THEN ss[j] ELSE p[j - 1] \o ss[j]]
  BY ConcatsDef
<1> HIDE DEF p
<1>2. p[i] = IF i = 1 THEN ss[i] ELSE p[i - 1] \o ss[i]
  BY <1>1
<1> QED
  BY <1>2 DEF p

LEMMA FlattenIsConcat ==
  ASSUME NEW ss, Len(ss) # 0
  PROVE  FlattenSeq(ss) = Concats(ss, Len(ss))[Len(ss)]
  BY Zenon DEF FlattenSeq, Concats

LEMMA FlattenEmpty == FlattenSeq(<<>>) = <<>>
  BY DEF FlattenSeq

LEMMA ConcatsType ==
  ASSUME NEW S, NEW ss, NEW n \in Nat, \A i \in 1 .. n : ss[i] \in Seq(S)
  PROVE  \A i \in 1 .. n : Concats(ss, n)[i] \in Seq(S)
<1> DEFINE p == Concats(ss, n)
           T == {k \in Nat : k \in 1 .. n => p[k] \in Seq(S)}
<1>1. \A i \in 1 .. n : p[i] = IF i = 1 THEN ss[i] ELSE p[i - 1] \o ss[i]
  BY ConcatsStep
<1> HIDE DEF p
<1>2. 0 \in T
  OBVIOUS
<1>3. ASSUME NEW k \in Nat, k \in T PROVE k + 1 \in T
  <2>1. CASE k + 1 \notin 1 .. n
    BY <2>1
  <2>2. CASE k = 0 /\ 1 \in 1 .. n
    BY <2>2, <1>1
  <2>3. CASE k # 0 /\ k + 1 \in 1 .. n
    <3>1. k \in 1 .. n /\ k + 1 # 1 /\ (k + 1) - 1 = k
      BY <2>3
    <3>2. p[k + 1] = p[k] \o ss[k + 1]
      BY <2>3, <3>1, <1>1
    <3>3. p[k] \in Seq(S) /\ ss[k + 1] \in Seq(S)
      BY <1>3, <2>3, <3>1
    <3>4. p[k + 1] \in Seq(S)
      BY <3>2, <3>3, ConcatProperties
    <3> QED
      BY <3>4
  <2> QED
    BY <2>1, <2>2, <2>3
<1>4. Nat \subseteq T
  BY <1>2, <1>3, SetInduction
<1> QED
  BY <1>4 DEF p

\* FlattenSeq of sequences of some type is one.
LEMMA FlattenType ==
  ASSUME NEW S, NEW ss \in Seq(Seq(S))
  PROVE  FlattenSeq(ss) \in Seq(S)
<1>1. CASE Len(ss) = 0
  <2>1. ss = <<>>
    BY <1>1
  <2>2. <<>> \in Seq(S)
    OBVIOUS
  <2> QED
    BY <2>1, <2>2, FlattenEmpty, Zenon
<1>2. CASE Len(ss) # 0
  <2>1. Len(ss) \in Nat /\ Len(ss) \in 1 .. Len(ss) /\ \A i \in 1 .. Len(ss) : ss[i] \in Seq(S)
    BY <1>2
  <2> QED
    BY <1>2, <2>1, ConcatsType, FlattenIsConcat
<1> QED
  BY <1>1, <1>2

\* What is prefixed does not depend on what follows.
LEMMA ConcatsAgree ==
  ASSUME NEW ss, NEW tt, NEW n \in Nat, NEW m \in Nat, n <= m,
         \A i \in 1 .. n : ss[i] = tt[i]
  PROVE  \A i \in 1 .. n : Concats(ss, n)[i] = Concats(tt, m)[i]
<1> DEFINE p == Concats(ss, n)
           q == Concats(tt, m)
           T == {k \in Nat : k \in 1 .. n => p[k] = q[k]}
<1>1. \A i \in 1 .. n : p[i] = IF i = 1 THEN ss[i] ELSE p[i - 1] \o ss[i]
  BY ConcatsStep
<1>2. \A i \in 1 .. m : q[i] = IF i = 1 THEN tt[i] ELSE q[i - 1] \o tt[i]
  BY ConcatsStep
<1> HIDE DEF p, q
<1>3. 0 \in T
  OBVIOUS
<1>4. ASSUME NEW k \in Nat, k \in T PROVE k + 1 \in T
  <2>1. CASE k + 1 \notin 1 .. n
    BY <2>1
  <2>2. CASE k = 0 /\ 1 \in 1 .. n
    BY <2>2, <1>1, <1>2
  <2>3. CASE k # 0 /\ k + 1 \in 1 .. n
    <3>1. k \in 1 .. n /\ k + 1 \in 1 .. m /\ k + 1 # 1 /\ (k + 1) - 1 = k
      BY <2>3
    <3>2. p[k + 1] = p[k] \o ss[k + 1] /\ q[k + 1] = q[k] \o tt[k + 1]
      BY <2>3, <3>1, <1>1, <1>2
    <3>3. p[k] = q[k] /\ ss[k + 1] = tt[k + 1]
      BY <1>4, <2>3, <3>1
    <3>4. p[k + 1] = q[k + 1]
      BY <3>2, <3>3
    <3> QED
      BY <3>4
  <2> QED
    BY <2>1, <2>2, <2>3
<1>5. Nat \subseteq T
  BY <1>3, <1>4, SetInduction
<1> QED
  BY <1>5 DEF p, q

\* One more sequence is put at the end.
LEMMA FlattenAppend ==
  ASSUME NEW S, NEW ss \in Seq(Seq(S)), NEW s \in Seq(S)
  PROVE  FlattenSeq(Append(ss, s)) = FlattenSeq(ss) \o s
<1> DEFINE tt == Append(ss, s)
           n == Len(ss)
<1>1. /\ n \in Nat /\ Len(tt) = n + 1 /\ tt[n + 1] = s
      /\ \A i \in 1 .. n : tt[i] = ss[i]
  OBVIOUS
<1> HIDE DEF tt
<1>2. FlattenSeq(tt) = Concats(tt, n + 1)[n + 1]
  BY <1>1, FlattenIsConcat
<1>3. Concats(tt, n + 1)[n + 1] =
        IF n + 1 = 1 THEN tt[n + 1] ELSE Concats(tt, n + 1)[(n + 1) - 1] \o tt[n + 1]
  <2>1. n + 1 \in Nat /\ n + 1 \in 1 .. n + 1
    BY <1>1
  <2> QED
    BY <2>1, ConcatsStep
<1>4. CASE n = 0
  <2>1. FlattenSeq(ss) = <<>>
    BY <1>4, FlattenEmpty
  <2> QED
    BY <1>1, <1>2, <1>3, <1>4, <2>1 DEF tt
<1>5. CASE n # 0
  <2>1. n + 1 \in Nat /\ n <= n + 1 /\ n \in 1 .. n /\ n + 1 # 1 /\ (n + 1) - 1 = n
    BY <1>1, <1>5
  <2>2. \A i \in 1 .. n : ss[i] = tt[i]
    BY <1>1
  <2>3. Concats(ss, n)[n] = Concats(tt, n + 1)[n]
    <3>1. n \in Nat
      BY <1>1
    <3> HIDE DEF n
    <3>2. \A i \in 1 .. n : Concats(ss, n)[i] = Concats(tt, n + 1)[i]
      BY <2>1, <2>2, <3>1, ConcatsAgree
    <3> QED
      BY <2>1, <3>2
  <2>4. FlattenSeq(ss) = Concats(ss, n)[n]
    BY <1>5, FlattenIsConcat
  <2>5. FlattenSeq(tt) = Concats(tt, n + 1)[n] \o s
    BY <1>1, <1>2, <1>3, <2>1
  <2> QED
    BY <2>3, <2>4, <2>5 DEF tt
<1> QED
  BY <1>4, <1>5

\* s \o t under a name that proofs can leave folded: the provers then regroup
\* longer sequences by CatAssociative alone.
Cat(s, t) == s \o t

LEMMA CatType ==
  ASSUME NEW S, NEW s \in Seq(S), NEW t \in Seq(S)
  PROVE  Cat(s, t) \in Seq(S) /\ Len(Cat(s, t)) = Len(s) + Len(t)
BY ConcatProperties DEF Cat

LEMMA CatAssociative ==
  ASSUME NEW S, NEW s \in Seq(S), NEW t \in Seq(S), NEW u \in Seq(S)
  PROVE  Cat(Cat(s, t), u) = Cat(s, Cat(t, u))
BY ConcatAssociative DEF Cat

LEMMA CatFour ==
  ASSUME NEW S, NEW a \in Seq(S), NEW b \in Seq(S), NEW x \in Seq(S), NEW y \in Seq(S)
  PROVE  Cat(Cat(a, Cat(b, x)), y) = Cat(Cat(a, b), Cat(x, y))
BY CatType, CatAssociative

\* The n members of w after the first i, and all after the first i.
Part(w, i, n) == SubSeq(w, i + 1, i + n)

Rest(w, i) == SubSeq(w, i + 1, Len(w))

LEMMA CatNext ==
  ASSUME NEW S, NEW w \in Seq(S), NEW i \in 0 .. Len(w), NEW n \in Nat, i + n <= Len(w)
  PROVE  /\ Part(w, i, n) \in Seq(S) /\ Len(Part(w, i, n)) = n
         /\ Rest(w, i + n) \in Seq(S)
         /\ Cat(Part(w, i, n), Rest(w, i + n)) = Rest(w, i)
<1>1. Len(w) \in Nat /\ i + 1 \in 1 .. Len(w) + 1 /\ i + n \in (i + 1) - 1 .. Len(w)
      /\ Len(w) \in i + n .. Len(w)
  OBVIOUS
<1>2. SubSeq(w, i + 1, i + n) \o SubSeq(w, i + n + 1, Len(w)) = SubSeq(w, i + 1, Len(w))
  BY <1>1, ConcatAdjacentSubSeq
<1>3. SubSeq(w, i + 1, i + n) \in Seq(S) /\ SubSeq(w, i + n + 1, Len(w)) \in Seq(S)
  BY <1>1
<1>4. Len(SubSeq(w, i + 1, i + n)) = n
  BY <1>1
<1> QED
  BY <1>2, <1>3, <1>4 DEF Cat, Part, Rest

\* The next part of w follows what has been taken, b after a; the rest of w
\* still follows.
LEMMA TakeNext ==
  ASSUME NEW S, NEW a \in Seq(S), NEW b \in Seq(S), NEW w \in Seq(S),
         NEW i \in 0 .. Len(w), NEW n \in Nat, i + n <= Len(w)
  PROVE  Cat(Cat(a, Cat(b, Part(w, i, n))), Rest(w, i + n)) = Cat(Cat(a, b), Rest(w, i))
<1>1. /\ Part(w, i, n) \in Seq(S) /\ Rest(w, i + n) \in Seq(S)
      /\ Cat(Part(w, i, n), Rest(w, i + n)) = Rest(w, i)
  BY CatNext
<1>2. Cat(Cat(a, Cat(b, Part(w, i, n))), Rest(w, i + n))
        = Cat(Cat(a, b), Cat(Part(w, i, n), Rest(w, i + n)))
  BY <1>1, CatFour
<1> QED
  BY <1>1, <1>2

\* FlattenSeq of a sequence that is made of two.
LEMMA FlattenCat ==
  ASSUME NEW S, NEW aa \in Seq(Seq(S)), NEW bb \in Seq(Seq(S))
  PROVE  FlattenSeq(aa \o bb) = Cat(FlattenSeq(aa), FlattenSeq(bb))
<1> DEFINE T == {n \in Nat : \A b \in Seq(Seq(S)) :
                   Len(b) = n => FlattenSeq(aa \o b) = Cat(FlattenSeq(aa), FlattenSeq(b))}
<1>0. FlattenSeq(aa) \in Seq(S)
  BY FlattenType
<1>1. 0 \in T
  <2>1. ASSUME NEW b \in Seq(Seq(S)), Len(b) = 0
        PROVE  FlattenSeq(aa \o b) = Cat(FlattenSeq(aa), FlattenSeq(b))
    <3>1. b = <<>>
      BY <2>1
    <3>2. aa \o b = aa
      BY <3>1, ConcatEmptySeq
    <3>3. FlattenSeq(b) = <<>>
      BY <3>1, FlattenEmpty
    <3> QED
      BY <3>2, <3>3, <1>0, ConcatEmptySeq DEF Cat
  <2> QED
    BY <2>1
<1>2. ASSUME NEW n \in Nat, n \in T PROVE n + 1 \in T
  <2>1. ASSUME NEW b \in Seq(Seq(S)), Len(b) = n + 1
        PROVE  FlattenSeq(aa \o b) = Cat(FlattenSeq(aa), FlattenSeq(b))
    <3>1. PICK c \in Seq(Seq(S)), s \in Seq(S) : b = Append(c, s) /\ Len(c) = n
      <4>1. b # <<>>
        BY <2>1
      <4>2. PICK c \in Seq(Seq(S)), s \in Seq(S) : b = Append(c, s)
        BY <4>1, SequenceEmptyOrAppend
      <4>3. Len(c) = n
        BY <4>2, <2>1
      <4> QED
        BY <4>2, <4>3
    <3>2. FlattenSeq(aa \o c) = Cat(FlattenSeq(aa), FlattenSeq(c)) /\ aa \o c \in Seq(Seq(S))
      BY <3>1, <1>2, ConcatProperties
    <3>3. aa \o b = Append(aa \o c, s)
      BY <3>1
    <3>4. FlattenSeq(Append(aa \o c, s)) = Cat(FlattenSeq(aa \o c), s)
      BY <3>2, FlattenAppend DEF Cat
    <3>5. FlattenSeq(b) = Cat(FlattenSeq(c), s)
      BY <3>1, FlattenAppend DEF Cat
    <3>6. FlattenSeq(c) \in Seq(S)
      BY FlattenType
    <3>7. Cat(Cat(FlattenSeq(aa), FlattenSeq(c)), s) = Cat(FlattenSeq(aa), Cat(FlattenSeq(c), s))
      BY <3>6, <1>0, CatAssociative
    <3> QED
      BY <3>2, <3>3, <3>4, <3>5, <3>7
  <2> QED
    BY <2>1
<1> HIDE DEF T
<1>3. Nat \subseteq T
  BY <1>1, <1>2, SetInduction
<1>4. Len(bb) \in T
  BY <1>3
<1> QED
  BY <1>4 DEF T

LEMMA FlattenOne ==
  ASSUME NEW S, NEW s \in Seq(S)
  PROVE  FlattenSeq(<<s>>) = s
<1>1. <<>> \in Seq(Seq(S)) /\ Append(<<>>, s) = <<s>>
  OBVIOUS
<1>2. FlattenSeq(Append(<<>>, s)) = FlattenSeq(<<>>) \o s
  BY <1>1, FlattenAppend
<1> QED
  BY <1>1, <1>2, FlattenEmpty, ConcatEmptySeq

\* The first k members of w.
Upto(w, k) == SubSeq(w, 1, k)

\* The front of a sequence, member by member.
LEMMA UptoIs ==
  ASSUME NEW S, NEW w \in Seq(S), NEW k \in 0 .. Len(w)
  PROVE  /\ Upto(w, k) \in Seq(S) /\ Len(Upto(w, k)) = k
         /\ \A i \in 1 .. k : Upto(w, k)[i] = w[i]
  BY DEF Upto

\* FlattenSeq, one sequence after another: k are behind, one is next.
LEMMA FlattenNext ==
  ASSUME NEW S, NEW ss \in Seq(Seq(S)), NEW k \in 0 .. Len(ss) - 1
  PROVE  /\ FlattenSeq(Upto(ss, k)) \in Seq(S) /\ FlattenSeq(Rest(ss, k + 1)) \in Seq(S)
         /\ FlattenSeq(ss) = Cat(FlattenSeq(Upto(ss, k)),
                                 Cat(ss[k + 1], FlattenSeq(Rest(ss, k + 1))))
         /\ FlattenSeq(Upto(ss, k + 1)) = Cat(FlattenSeq(Upto(ss, k)), ss[k + 1])
<1> DEFINE a == Upto(ss, k)
           b == Rest(ss, k + 1)
           s == ss[k + 1]
<1>1. a \in Seq(Seq(S)) /\ b \in Seq(Seq(S)) /\ s \in Seq(S)
  BY DEF Upto, Rest
<1>2. Upto(ss, k + 1) = Append(a, s)
  BY DEF Upto
<1>3. ss = Append(a, s) \o b
  <2>1. /\ Len(ss) \in Nat /\ 1 \in 1 .. Len(ss) + 1 /\ k + 1 \in 1 - 1 .. Len(ss)
        /\ Len(ss) \in k + 1 .. Len(ss)
    OBVIOUS
  <2>2. SubSeq(ss, 1, k + 1) \o SubSeq(ss, k + 1 + 1, Len(ss)) = SubSeq(ss, 1, Len(ss))
    BY <2>1, ConcatAdjacentSubSeq
  <2>3. SubSeq(ss, 1, Len(ss)) = ss
    OBVIOUS
  <2> QED
    BY <2>2, <2>3, <1>2 DEF Upto, Rest
<1> HIDE DEF a, b, s
<1>4. FlattenSeq(Append(a, s)) = Cat(FlattenSeq(a), s)
  BY <1>1, FlattenAppend DEF Cat
<1>5. Append(a, s) \in Seq(Seq(S)) /\ FlattenSeq(a) \in Seq(S) /\ FlattenSeq(b) \in Seq(S)
  BY <1>1, FlattenType
<1>6. FlattenSeq(ss) = Cat(FlattenSeq(Append(a, s)), FlattenSeq(b))
  BY <1>1, <1>3, <1>5, FlattenCat
<1>7. FlattenSeq(ss) = Cat(FlattenSeq(a), Cat(s, FlattenSeq(b)))
  BY <1>1, <1>4, <1>5, <1>6, CatAssociative
<1> QED
  BY <1>2, <1>4, <1>5, <1>7 DEF a, b, s

\* What is behind t in what is put together of t and u.
LEMMA RestOfCat ==
  ASSUME NEW S, NEW t \in Seq(S), NEW u \in Seq(S)
  PROVE  Rest(Cat(t, u), Len(t)) = u /\ Upto(Cat(t, u), Len(t)) = t
<1>1. Len(t \o u) = Len(t) + Len(u) /\ Len(t) \in Nat /\ Len(u) \in Nat
  OBVIOUS
<1>2. Rest(Cat(t, u), Len(t)) = u
  BY <1>1 DEF Rest, Cat
<1>3. Upto(Cat(t, u), Len(t)) = t
  BY <1>1 DEF Upto, Cat
<1> QED
  BY <1>2, <1>3

LEMMA RestIs ==
  ASSUME NEW S, NEW w \in Seq(S), NEW i \in 0 .. Len(w)
  PROVE  /\ Rest(w, i) \in Seq(S) /\ Len(Rest(w, i)) = Len(w) - i
         /\ \A k \in 1 .. Len(w) - i : Rest(w, i)[k] = w[i + k]
  BY DEF Rest

\* The members of what is put together.
LEMMA CatAt ==
  ASSUME NEW S, NEW s \in Seq(S), NEW t \in Seq(S)
  PROVE  /\ Cat(s, t) \in Seq(S) /\ Len(Cat(s, t)) = Len(s) + Len(t)
         /\ \A i \in 1 .. Len(s) : Cat(s, t)[i] = s[i]
         /\ \A i \in 1 .. Len(t) : Cat(s, t)[Len(s) + i] = t[i]
<1>1. Len(s) \in Nat /\ Len(t) \in Nat
  OBVIOUS
<1>2. s \o t \in Seq(S) /\ Len(s \o t) = Len(s) + Len(t)
  OBVIOUS
<1>3. ASSUME NEW i \in 1 .. Len(s) PROVE (s \o t)[i] = s[i]
  OBVIOUS
<1>4. ASSUME NEW i \in 1 .. Len(t) PROVE (s \o t)[Len(s) + i] = t[i]
  <2>1. Len(s) + i \in 1 .. Len(s) + Len(t) /\ ~ Len(s) + i <= Len(s) /\ (Len(s) + i) - Len(s) = i
    BY <1>1
  <2> QED
    BY <2>1
<1> QED
  BY <1>2, <1>3, <1>4 DEF Cat

\* The front of a sequence, put behind another.
LEMMA CatUpto ==
  ASSUME NEW S, NEW s \in Seq(S), NEW w \in Seq(S), NEW k \in 0 .. Len(w)
  PROVE  LET t == Cat(s, Upto(w, k)) IN
         /\ t \in Seq(S) /\ Len(t) = Len(s) + k
         /\ \A i \in 1 .. Len(s) : t[i] = s[i]
         /\ \A i \in 1 .. k : t[Len(s) + i] = w[i]
<1>1. PICK u \in Seq(S) : u = Upto(w, k)
  BY UptoIs
<1>2. Len(u) = k /\ \A i \in 1 .. k : u[i] = w[i]
  BY <1>1, UptoIs
<1>3. /\ Cat(s, u) \in Seq(S) /\ Len(Cat(s, u)) = Len(s) + Len(u)
      /\ \A i \in 1 .. Len(s) : Cat(s, u)[i] = s[i]
      /\ \A i \in 1 .. Len(u) : Cat(s, u)[Len(s) + i] = u[i]
  <2>1. Cat(s, u) \in Seq(S)
    BY CatAt
  <2>2. Len(Cat(s, u)) = Len(s) + Len(u)
    BY CatAt
  <2>3. \A i \in 1 .. Len(s) : Cat(s, u)[i] = s[i]
    BY CatAt
  <2>4. \A i \in 1 .. Len(u) : Cat(s, u)[Len(s) + i] = u[i]
    BY CatAt
  <2> QED
    BY <2>1, <2>2, <2>3, <2>4
<1> QED
  BY <1>1, <1>2, <1>3

\* What is in the middle.
LEMMA CatMiddle ==
  ASSUME NEW S, NEW a \in Seq(S), NEW y \in Seq(S), NEW t \in Seq(S)
  PROVE  /\ Cat(a, Cat(y, t)) \in Seq(S)
         /\ Len(Cat(a, Cat(y, t))) = Len(a) + Len(y) + Len(t)
         /\ \A i \in 1 .. Len(y) : Cat(a, Cat(y, t))[Len(a) + i] = y[i]
<1> DEFINE u == Cat(y, t)
           w == Cat(a, u)
<1>1. u \in Seq(S) /\ Len(u) = Len(y) + Len(t)
  BY CatAt
<1>2. \A i \in 1 .. Len(y) : u[i] = y[i]
  BY CatAt
<1> HIDE DEF u
<1>3. u \in Seq(S)
  BY <1>1
<1>4. w \in Seq(S) /\ Len(w) = Len(a) + Len(u)
  BY <1>3, CatAt
<1>5. \A i \in 1 .. Len(u) : w[Len(a) + i] = u[i]
  BY <1>3, CatAt
<1>6. Len(a) \in Nat /\ Len(y) \in Nat /\ Len(t) \in Nat
  OBVIOUS
<1> HIDE DEF w
<1>7. \A i \in 1 .. Len(y) : i \in 1 .. Len(u)
  BY <1>1, <1>6
<1>8. \A i \in 1 .. Len(y) : w[Len(a) + i] = y[i]
  BY <1>2, <1>5, <1>7
<1>9. Len(w) = Len(a) + Len(y) + Len(t)
  BY <1>1, <1>4, <1>6
<1> QED
  BY <1>4, <1>8, <1>9 DEF w, u

\* What is after the first p, if it is known.
LEMMA SubSeqIs ==
  ASSUME NEW S, NEW w, NEW b \in Seq(S), NEW p \in Int,
         \A i \in 1 .. Len(b) : w[p + i] = b[i]
  PROVE  SubSeq(w, p + 1, p + Len(b)) = b
<1> DEFINE size == Len(b)
           m == p + 1
           n == p + size
           v == SubSeq(w, m, n)
<1>1. size \in Nat /\ \A i \in 1 .. size : b[i] \in S
  OBVIOUS
<1>2. \A i \in 1 .. size : w[p + i] = b[i]
  OBVIOUS
<1> HIDE DEF size
<1>3. m \in Int /\ n \in Int /\ n - m + 1 = size /\ (m <= n <=> size # 0)
  BY <1>1
<1>4. \A i \in m .. n : w[i] \in S
  <2>1. ASSUME NEW i \in m .. n PROVE w[i] \in S
    <3>1. i - p \in 1 .. size /\ p + (i - p) = i
      BY <1>1
    <3> QED
      BY <1>1, <1>2, <3>1
  <2> QED
    BY <2>1
<1>5. \A i \in 1 .. size : m + i - 1 = p + i
  BY <1>1
<1> HIDE DEF m, n
<1>6. v \in Seq(S) /\ Len(v) = size /\ \A i \in 1 .. size : v[i] = b[i]
  <2>1. /\ v \in Seq(S) /\ Len(v) = (IF m <= n THEN n - m + 1 ELSE 0)
        /\ \A i \in 1 .. n - m + 1 : v[i] = w[m + i - 1]
    BY <1>3, <1>4, SubSeqProperties
  <2> HIDE DEF v
  <2> QED
    BY <1>1, <1>2, <1>3, <1>5, <2>1
<1> HIDE DEF v
<1>7. v = b
  BY <1>6, SeqEqual DEF size
<1> QED
  BY <1>7 DEF v, m, n, size

\* Two sequences of the same length, their members in turn.
InTurn(k, x, y) == [j \in 1 .. 2 * k |-> IF j % 2 = 1 THEN x[(j + 1) \div 2] ELSE y[j \div 2]]

LEMMA InTurnMember ==
  ASSUME NEW k \in Nat, NEW x, NEW y, NEW m \in 0 .. k - 1
  PROVE  InTurn(k, x, y)[2 * m + 1] = x[m + 1] /\ InTurn(k, x, y)[2 * m + 2] = y[m + 1]
<1> DEFINE e(j) == IF j % 2 = 1 THEN x[(j + 1) \div 2] ELSE y[j \div 2]
<1>1. InTurn(k, x, y) = [j \in 1 .. 2 * k |-> e(j)]
  BY DEF InTurn
<1>2. e(2 * m + 1) = x[m + 1]
  <2>1. (2 * m + 1) % 2 = 1 /\ ((2 * m + 1) + 1) \div 2 = m + 1
    OBVIOUS
  <2> QED
    BY <2>1
<1>3. e(2 * m + 2) = y[m + 1]
  <2>1. (2 * m + 2) % 2 = 0 /\ (2 * m + 2) \div 2 = m + 1
    OBVIOUS
  <2> QED
    BY <2>1
<1>4. 2 * m + 1 \in 1 .. 2 * k /\ 2 * m + 2 \in 1 .. 2 * k
  OBVIOUS
<1> HIDE DEF e
<1> QED
  BY <1>1, <1>2, <1>3, <1>4

LEMMA InTurnType ==
  ASSUME NEW V, NEW k \in Nat, NEW x \in [1 .. k -> V], NEW y \in [1 .. k -> V]
  PROVE  InTurn(k, x, y) \in Seq(V) /\ Len(InTurn(k, x, y)) = 2 * k
<1> DEFINE e(j) == IF j % 2 = 1 THEN x[(j + 1) \div 2] ELSE y[j \div 2]
           n == 2 * k
           z == InTurn(k, x, y)
<1>1. z = [j \in 1 .. n |-> e(j)]
  BY DEF InTurn
<1>2. ASSUME NEW j \in 1 .. n PROVE e(j) \in V
  <2>1. CASE j % 2 = 1
    <3>1. (j + 1) \div 2 \in 1 .. k
      BY <2>1
    <3> QED
      BY <2>1, <3>1
  <2>2. CASE j % 2 # 1
    <3>1. j \div 2 \in 1 .. k
      BY <2>2
    <3> QED
      BY <2>2, <3>1
  <2> QED
    BY <2>1, <2>2
<1>3. n \in Nat
  OBVIOUS
<1> HIDE DEF e, n, z
<1>4. z \in [1 .. n -> V]
  BY <1>1, <1>2
<1>5. z \in Seq(V) /\ Len(z) = n
  BY <1>3, <1>4
<1> QED
  BY <1>5 DEF n, z

\* Pairs of sequences, flattened.
LEMMA FlattenInTurn ==
  ASSUME NEW S, NEW k \in Nat, NEW x \in [1 .. k -> Seq(S)], NEW y \in [1 .. k -> Seq(S)]
  PROVE  FlattenSeq([i \in 1 .. k |-> Cat(x[i], y[i])]) = FlattenSeq(InTurn(k, x, y))
<1>1. \A i \in 1 .. k : Cat(x[i], y[i]) \in Seq(S)
  BY CatType
<1>2. PICK p \in Seq(Seq(S)) : p = [i \in 1 .. k |-> Cat(x[i], y[i])]
  <2> DEFINE q == [i \in 1 .. k |-> Cat(x[i], y[i])]
  <2>1. q \in Seq(Seq(S))
    BY <1>1
  <2> HIDE DEF q
  <2>2. \E p \in Seq(Seq(S)) : p = q
    BY <2>1
  <2> QED
    BY <2>2 DEF q
<1>3. Len(p) = k /\ \A i \in 1 .. k : p[i] = Cat(x[i], y[i])
  BY <1>2
<1> USE <1>3
<1> DEFINE z == InTurn(k, x, y)
           T == {m \in Nat : m <= k => FlattenSeq(Upto(p, m)) = FlattenSeq(Upto(z, 2 * m))}
<1>4. /\ z \in Seq(Seq(S)) /\ Len(z) = 2 * k
      /\ \A m \in 0 .. k - 1 : z[2 * m + 1] = x[m + 1] /\ z[2 * m + 2] = y[m + 1]
  <2>0. k \in Nat /\ x \in [1 .. k -> Seq(S)] /\ y \in [1 .. k -> Seq(S)]
    OBVIOUS
  <2>1. z \in Seq(Seq(S))
    BY ONLY <2>0, InTurnType
  <2>2. Len(z) = 2 * k
    BY ONLY <2>0, InTurnType
  <2>3. \A m \in 0 .. k - 1 : z[2 * m + 1] = x[m + 1] /\ z[2 * m + 2] = y[m + 1]
    BY InTurnMember
  <2> QED
    BY <2>1, <2>2, <2>3
<1> HIDE DEF z
<1>5. 0 \in T
  <2>1. 2 * 0 = 0
    OBVIOUS
  <2>2. Upto(p, 0) = <<>> /\ Upto(z, 0) = <<>>
    BY DEF Upto
  <2> QED
    BY <2>1, <2>2
<1>6. ASSUME NEW m \in Nat, m \in T PROVE m + 1 \in T
  <2>1. CASE m + 1 <= k
    <3> DEFINE a == FlattenSeq(Upto(p, m))
               b == x[m + 1]
               c == y[m + 1]
    <3>1. /\ m \in 0 .. k - 1 /\ m \in 0 .. Len(p) - 1 /\ m + 1 \in 1 .. k
          /\ 2 * m \in 0 .. Len(z) - 1 /\ 2 * m + 1 \in 0 .. Len(z) - 1
          /\ (2 * m + 1) + 1 = 2 * m + 2 /\ 2 * (m + 1) = 2 * m + 2
      BY <1>4, <2>1
    <3>2. FlattenSeq(Upto(p, m + 1)) = Cat(a, Cat(b, c)) /\ a \in Seq(S)
      <4>1. FlattenSeq(Upto(p, m + 1)) = Cat(a, p[m + 1]) /\ a \in Seq(S)
        BY <3>1, FlattenNext
      <4>2. p[m + 1] = Cat(b, c)
        BY <3>1
      <4> QED
        BY <4>1, <4>2
    <3>3. b \in Seq(S) /\ c \in Seq(S)
      BY <3>1
    <3>4. a = FlattenSeq(Upto(z, 2 * m))
      BY <1>6, <3>1
    <3>5. z[2 * m + 1] = b /\ z[2 * m + 2] = c
      BY <1>4, <3>1
    <3>6. z \in Seq(Seq(S))
      BY <1>4
    <3> HIDE DEF a, b, c
    <3>7. FlattenSeq(Upto(z, 2 * m + 1)) = Cat(a, b)
      <4> DEFINE j == 2 * m
      <4>1. j \in 0 .. Len(z) - 1
        BY <3>1
      <4> HIDE DEF j
      <4>2. FlattenSeq(Upto(z, j + 1)) = Cat(FlattenSeq(Upto(z, j)), z[j + 1])
        BY <3>6, <4>1, FlattenNext
      <4> QED
        BY <3>4, <3>5, <4>2 DEF j
    <3>8. FlattenSeq(Upto(z, 2 * m + 2)) = Cat(Cat(a, b), c)
      <4> DEFINE j == 2 * m + 1
      <4>1. j \in 0 .. Len(z) - 1 /\ j + 1 = 2 * m + 2
        BY <3>1
      <4> HIDE DEF j
      <4>2. FlattenSeq(Upto(z, j + 1)) = Cat(FlattenSeq(Upto(z, j)), z[j + 1])
        BY <3>6, <4>1, FlattenNext
      <4>3. FlattenSeq(Upto(z, j)) = Cat(a, b)
        BY <3>7 DEF j
      <4> QED
        BY <3>5, <4>1, <4>2, <4>3
    <3>9. Cat(Cat(a, b), c) = Cat(a, Cat(b, c))
      BY <3>2, <3>3, CatAssociative
    <3> QED
      BY <3>1, <3>2, <3>8, <3>9
  <2> QED
    BY <2>1
<1>7. Nat \subseteq T
  <2> HIDE DEF T
  <2> QED
    BY <1>5, <1>6, SetInduction
<1>8. FlattenSeq(Upto(p, k)) = FlattenSeq(Upto(z, 2 * k))
  BY <1>7
<1>9. Upto(p, k) = p /\ Upto(z, 2 * k) = z
  <2>1. Upto(p, Len(p)) = p
    BY DEF Upto
  <2>2. Upto(z, Len(z)) = z
    BY <1>4 DEF Upto
  <2> QED
    BY <1>4, <2>1, <2>2
<1> QED
  BY <1>8, <1>9, <1>2 DEF z

\* Single members, flattened.
LEMMA FlattenSingles ==
  ASSUME NEW V, NEW z \in Seq(V), NEW zz \in Seq(Seq(V)), Len(zz) = Len(z),
         \A j \in 1 .. Len(z) : zz[j] = <<z[j]>>
  PROVE  FlattenSeq(zz) = z
<1> DEFINE n == Len(z)
           T == {m \in Nat : m <= n => FlattenSeq(Upto(zz, m)) = Upto(z, m)}
<1>1. n \in Nat /\ Len(zz) = n /\ Upto(z, n) = z /\ Upto(zz, n) = zz
  <2>1. Upto(zz, Len(zz)) = zz
    BY DEF Upto
  <2> QED
    BY <2>1 DEF Upto
<1>2. 0 \in T
  <2>1. Upto(z, 0) = <<>> /\ Upto(zz, 0) = <<>>
    BY DEF Upto
  <2> QED
    BY <2>1, FlattenEmpty
<1>3. ASSUME NEW m \in Nat, m \in T PROVE m + 1 \in T
  <2>1. CASE m + 1 <= n
    <3>1. m \in 0 .. Len(zz) - 1 /\ m + 1 \in 1 .. n /\ m <= n
      BY <1>1, <2>1
    <3>2. FlattenSeq(Upto(zz, m + 1)) = Cat(FlattenSeq(Upto(zz, m)), zz[m + 1])
      BY <3>1, FlattenNext
    <3>3. FlattenSeq(Upto(zz, m + 1)) = Cat(Upto(z, m), <<z[m + 1]>>)
      BY <1>3, <3>1, <3>2
    <3>4. Cat(Upto(z, m), <<z[m + 1]>>) = Upto(z, m + 1)
      BY <3>1 DEF Cat, Upto
    <3> QED
      BY <3>3, <3>4
  <2> QED
    BY <2>1
<1>4. Nat \subseteq T
  <2> HIDE DEF T
  <2> QED
    BY <1>2, <1>3, SetInduction
<1>5. FlattenSeq(Upto(zz, n)) = Upto(z, n)
  BY <1>1, <1>4
<1> QED
  BY <1>1, <1>5

\* Pairs, flattened.
LEMMA FlattenPairs ==
  ASSUME NEW V, NEW k \in Nat, NEW x \in [1 .. k -> V], NEW y \in [1 .. k -> V]
  PROVE  FlattenSeq([i \in 1 .. k |-> <<x[i], y[i]>>]) = InTurn(k, x, y)
<1> DEFINE xx == [i \in 1 .. k |-> <<x[i]>>]
           yy == [i \in 1 .. k |-> <<y[i]>>]
           p == [i \in 1 .. k |-> <<x[i], y[i]>>]
           z == InTurn(k, x, y)
           zz == InTurn(k, xx, yy)
<1>1. xx \in [1 .. k -> Seq(V)] /\ yy \in [1 .. k -> Seq(V)]
  OBVIOUS
<1>2. p \in Seq(Seq(V)) /\ Len(p) = k /\ \A i \in 1 .. k : p[i] = Cat(xx[i], yy[i])
  BY DEF Cat
<1>3. /\ z \in Seq(V) /\ Len(z) = 2 * k
      /\ zz \in Seq(Seq(V)) /\ Len(zz) = 2 * k
  <2> HIDE DEF xx, yy
  <2>1. z \in Seq(V) /\ Len(z) = 2 * k
    BY InTurnType
  <2>2. zz \in Seq(Seq(V)) /\ Len(zz) = 2 * k
    BY <1>1, InTurnType
  <2> QED
    BY <2>1, <2>2
<1>4. ASSUME NEW j \in 1 .. 2 * k PROVE zz[j] = <<z[j]>>
  <2>1. CASE j % 2 = 1
    <3>1. (j + 1) \div 2 \in 1 .. k
      BY <2>1
    <3> QED
      BY <2>1, <3>1 DEF InTurn
  <2>2. CASE j % 2 # 1
    <3>1. j \div 2 \in 1 .. k
      BY <2>2
    <3> QED
      BY <2>2, <3>1 DEF InTurn
  <2> QED
    BY <2>1, <2>2
<1>5. FlattenSeq(p) = FlattenSeq(zz)
  <2>1. p = [i \in 1 .. k |-> Cat(xx[i], yy[i])]
    BY DEF Cat
  <2> HIDE DEF xx, yy, p
  <2>2. FlattenSeq([i \in 1 .. k |-> Cat(xx[i], yy[i])]) = FlattenSeq(zz)
    BY <1>1, FlattenInTurn
  <2> QED
    BY <2>1, <2>2
<1>6. FlattenSeq(zz) = z
  <2> HIDE DEF z, zz
  <2>1. Len(zz) = Len(z) /\ \A j \in 1 .. Len(z) : zz[j] = <<z[j]>>
    BY <1>3, <1>4
  <2> QED
    BY <1>3, <2>1, FlattenSingles
<1> QED
  BY <1>5, <1>6
=============================================================================
