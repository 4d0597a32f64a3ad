---------------------------- MODULE SequenceLemmas ----------------------------
(***************************************************************************)
(* FlattenSeq, with which the modules insert into sequences and delete     *)
(* from them: what holds of the parts holds of the whole.                  *)
(*                                                                         *)
(* It is a recursive function, and what is said of it is proved by         *)
(* induction over a set of numbers.  And concatenations of three parts,    *)
(* which replace a piece of a sequence, element by element.                *)
(***************************************************************************)
EXTENDS Integers, Sequences, SequencesExt, SequenceTheorems, WellFoundedInduction, TLAPS

\* Induction over a set: no number is the least one that is missing from it.
LEMMA SetInduction ==
  ASSUME NEW T, 0 \in T, \A n \in Nat : n \in T => n + 1 \in T
  PROVE  Nat \subseteq T
<1> SUFFICES ASSUME Nat \ T # {} PROVE FALSE
  OBVIOUS
<1>1. PICK x \in Nat \ T : \A y \in Nat \ T : <<y, x>> \notin OpToRel(<, Nat)
  BY NatLessThanWellFounded, WFMin, Zenon
<1>2. x # 0 /\ x - 1 \in Nat /\ x - 1 < x
  OBVIOUS
<1>3. <<x - 1, x>> \in OpToRel(<, Nat)
  BY <1>2 DEF OpToRel
<1>4. x - 1 \in T
  BY <1>1, <1>2, <1>3
<1> QED
  BY <1>2, <1>4

\* A set of numbers that is not empty has a least one.
LEMMA LeastElement ==
  ASSUME NEW T \in SUBSET Nat, T # {}
  PROVE  \E n \in T : \A m \in T : n <= m
<1>1. PICK x \in T : \A y \in T : <<y, x>> \notin OpToRel(<, Nat)
  BY NatLessThanWellFounded, WFMin, Zenon
<1>2. ASSUME NEW m \in T PROVE x <= m
  <2>1. m \in Nat /\ x \in Nat
    OBVIOUS
  <2>2. ASSUME m < x PROVE FALSE
    <3>1. <<m, x>> \in OpToRel(<, Nat)
      BY <2>1, <2>2 DEF OpToRel
    <3> QED
      BY <1>1, <3>1
  <2> QED
    BY <2>1, <2>2
<1> QED
  BY <1>2

\* The concatenations of the first parts.
Partial(seqs, n, flat) ==
  /\ DOMAIN flat = 1 .. n
  /\ \A i \in 1 .. n : flat[i] = IF i = 1 THEN seqs[i] ELSE flat[i - 1] \o seqs[i]

LEMMA PartsExist ==
  ASSUME NEW seqs, NEW n \in Nat
  PROVE  \E flat : Partial(seqs, n, flat)
<1> DEFINE T == {m \in Nat : \E flat : Partial(seqs, m, flat)}
<1>1. 0 \in T
  <2> DEFINE flat == [i \in 1 .. 0 |-> i]
  <2>1. Partial(seqs, 0, flat)
    BY DEF Partial
  <2> QED
    BY <2>1
<1>2. ASSUME NEW m \in Nat, m \in T PROVE m + 1 \in T
  <2>1. PICK flat : Partial(seqs, m, flat)
    BY <1>2
  <2> DEFINE longer ==
        [i \in 1 .. m + 1 |-> IF i \in 1 .. m THEN flat[i]
                              ELSE IF i = 1 THEN seqs[i] ELSE flat[i - 1] \o seqs[i]]
  <2>2. ASSUME NEW i \in 1 .. m + 1
        PROVE  longer[i] = IF i = 1 THEN seqs[i] ELSE longer[i - 1] \o seqs[i]
    <3>1. CASE i \in 1 .. m
      <4>1. longer[i] = flat[i] /\ (i # 1 => longer[i - 1] = flat[i - 1])
        BY <3>1
      <4> QED
        BY <2>1, <3>1, <4>1 DEF Partial
    <3>2. CASE i = m + 1
      <4>1. i # 1 => longer[i - 1] = flat[i - 1]
        BY <3>2
      <4> QED
        BY <3>2, <4>1
    <3> QED
      BY <3>1, <3>2
  <2>3. Partial(seqs, m + 1, longer)
    BY <2>2 DEF Partial
  <2> QED
    BY <2>3
<1> HIDE DEF T
<1>3. Nat \subseteq T
  BY <1>1, <1>2, SetInduction
<1> QED
  BY <1>3 DEF T

\* The flat sequence is the last of these.
LEMMA FlattenSeqParts ==
  ASSUME NEW seqs, Len(seqs) \in Nat, Len(seqs) > 0
  PROVE  \E flat : Partial(seqs, Len(seqs), flat) /\ FlattenSeq(seqs) = flat[Len(seqs)]
<1> DEFINE n == Len(seqs)
           Eq(f) == f = [i \in 1 .. n |-> IF i = 1 THEN seqs[i] ELSE f[i - 1] \o seqs[i]]
           flatten == CHOOSE f : Eq(f)
<1>1. \E f : Eq(f)
  <2>1. PICK flat : Partial(seqs, n, flat)
    BY PartsExist
  <2> DEFINE f == [i \in 1 .. n |-> flat[i]]
  <2>2. f = [i \in 1 .. n |-> IF i = 1 THEN seqs[i] ELSE f[i - 1] \o seqs[i]]
    <3>1. ASSUME NEW i \in 1 .. n
          PROVE  f[i] = IF i = 1 THEN seqs[i] ELSE f[i - 1] \o seqs[i]
      <4>1. f[i] = flat[i] /\ (i # 1 => f[i - 1] = flat[i - 1])
        OBVIOUS
      <4>2. flat[i] = IF i = 1 THEN seqs[i] ELSE flat[i - 1] \o seqs[i]
        BY <2>1 DEF Partial
      <4> QED
        BY <4>1, <4>2
    <3> QED
      BY <3>1
  <2> QED
    BY <2>2
<1>2. Eq(flatten)
  BY <1>1
<1>3. FlattenSeq(seqs) = flatten[n]
  BY DEF FlattenSeq
<1> HIDE DEF flatten
<1>4. Partial(seqs, n, flatten)
  BY <1>2 DEF Partial
<1> QED
  BY <1>3, <1>4

\* Concatenated sequences over a set are a sequence over it.
LEMMA FlattenSeqType ==
  ASSUME NEW S, NEW seqs \in Seq(Seq(S))
  PROVE  FlattenSeq(seqs) \in Seq(S)
<1>0. Len(seqs) \in Nat
  BY LenProperties
<1>1. CASE Len(seqs) = 0
  BY <1>1 DEF FlattenSeq
<1>2. CASE Len(seqs) > 0
  <2>1. PICK flat : Partial(seqs, Len(seqs), flat) /\ FlattenSeq(seqs) = flat[Len(seqs)]
    BY <1>0, <1>2, FlattenSeqParts, Zenon
  <2> DEFINE T == {m \in Nat : m \in 1 .. Len(seqs) => flat[m] \in Seq(S)}
  <2>2. 0 \in T
    OBVIOUS
  <2>3. ASSUME NEW m \in Nat, m \in T PROVE m + 1 \in T
    <3> SUFFICES ASSUME m + 1 \in 1 .. Len(seqs) PROVE flat[m + 1] \in Seq(S)
      OBVIOUS
    <3>1. seqs[m + 1] \in Seq(S)
      OBVIOUS
    <3>2. flat[m + 1] = IF m + 1 = 1 THEN seqs[m + 1] ELSE flat[m] \o seqs[m + 1]
      <4>1. (m + 1) - 1 = m
        OBVIOUS
      <4>2. flat[m + 1] = IF m + 1 = 1 THEN seqs[m + 1] ELSE flat[(m + 1) - 1] \o seqs[m + 1]
        BY <2>1, Zenon DEF Partial
      <4> QED
        BY <4>1, <4>2
    <3>3. m + 1 # 1 => flat[m] \in Seq(S)
      BY <2>3
    <3> QED
      BY <3>1, <3>2, <3>3
  <2> HIDE DEF T
  <2>4. Nat \subseteq T
    BY <2>2, <2>3, SetInduction
  <2> QED
    BY <1>2, <2>1, <2>4 DEF T
<1> QED
  BY <1>1, <1>2

-----------------------------------------------------------------------------
\* The elements of three sequences, one after the other.
LEMMA ConcatThree ==
  ASSUME NEW S, NEW x \in Seq(S), NEW y \in Seq(S), NEW z \in Seq(S)
  PROVE  /\ x \o y \o z \in Seq(S)
         /\ Len(x \o y \o z) = Len(x) + Len(y) + Len(z)
         /\ \A n \in 1 .. Len(x) + Len(y) + Len(z) :
              (x \o y \o z)[n] = IF n <= Len(x) THEN x[n]
                                 ELSE IF n <= Len(x) + Len(y) THEN y[n - Len(x)]
                                 ELSE z[n - (Len(x) + Len(y))]
<1>1. PICK xy : xy = x \o y
  OBVIOUS
<1>2. /\ xy \in Seq(S) /\ Len(xy) = Len(x) + Len(y)
      /\ \A n \in 1 .. Len(x) + Len(y) : xy[n] = IF n <= Len(x) THEN x[n] ELSE y[n - Len(x)]
  BY <1>1, ConcatProperties
<1>3. xy \in Seq(S)
  BY <1>2
<1>4. PICK xyz : xyz = xy \o z
  OBVIOUS
<1>5. /\ xyz \in Seq(S) /\ Len(xyz) = Len(xy) + Len(z)
      /\ \A n \in 1 .. Len(xy) + Len(z) :
           xyz[n] = IF n <= Len(xy) THEN xy[n] ELSE z[n - Len(xy)]
  BY <1>3, <1>4, ConcatProperties
<1>6. Len(x) \in Nat /\ Len(y) \in Nat /\ Len(z) \in Nat
  OBVIOUS
<1>7. \A n \in 1 .. Len(x) + Len(y) + Len(z) :
        xyz[n] = IF n <= Len(x) THEN x[n]
                 ELSE IF n <= Len(x) + Len(y) THEN y[n - Len(x)]
                 ELSE z[n - (Len(x) + Len(y))]
  BY <1>2, <1>5, <1>6
<1> QED
  BY <1>1, <1>2, <1>4, <1>5, <1>7

\* s with b in the place of the elements after p and up to q.
Splice(s, p, q, b) == SubSeq(s, 1, p) \o b \o SubSeq(s, q + 1, Len(s))

Spliced(t, s, p, q, b) ==
  /\ Len(t) = p + Len(b) + (Len(s) - q)
  /\ \A n \in 1 .. p + Len(b) + (Len(s) - q) :
       t[n] = IF n <= p THEN s[n] ELSE IF n <= p + Len(b) THEN b[n - p]
              ELSE s[n - (p + Len(b)) + q]

LEMMA SpliceProperties ==
  ASSUME NEW S, NEW s \in Seq(S), NEW p \in 0 .. Len(s), NEW q \in p .. Len(s), NEW b \in Seq(S)
  PROVE  /\ Splice(s, p, q, b) \in Seq(S)
         /\ Spliced(Splice(s, p, q, b), s, p, q, b)
<1> DEFINE u == SubSeq(s, 1, p)
           v == SubSeq(s, q + 1, Len(s))
<1>0. /\ u \in Seq(S) /\ Len(u) = p /\ \A n \in 1 .. p : u[n] = s[n]
      /\ v \in Seq(S) /\ Len(v) = Len(s) - q /\ \A n \in 1 .. Len(s) - q : v[n] = s[q + n]
  OBVIOUS
<1> HIDE DEF u, v
<1>1. PICK x \in Seq(S) : x = u /\ Len(x) = p /\ \A n \in 1 .. p : x[n] = s[n]
  BY <1>0
<1>2. PICK z \in Seq(S) : z = v /\ Len(z) = Len(s) - q /\ \A n \in 1 .. Len(s) - q : z[n] = s[q + n]
  BY <1>0
<1>3. PICK r : r = x \o b \o z
  OBVIOUS
<1>8. /\ r \in Seq(S) /\ Len(r) = Len(x) + Len(b) + Len(z)
      /\ \A n \in 1 .. Len(x) + Len(b) + Len(z) :
           r[n] = IF n <= Len(x) THEN x[n] ELSE IF n <= Len(x) + Len(b) THEN b[n - Len(x)]
                  ELSE z[n - (Len(x) + Len(b))]
  BY <1>3, ConcatThree
<1>4. /\ r \in Seq(S) /\ Len(r) = p + Len(b) + (Len(s) - q)
      /\ \A n \in 1 .. p + Len(b) + (Len(s) - q) :
           r[n] = IF n <= p THEN x[n] ELSE IF n <= p + Len(b) THEN b[n - p] ELSE z[n - (p + Len(b))]
  <2>1. Len(x) = p /\ Len(z) = Len(s) - q
    BY <1>1, <1>2
  <2> QED
    BY <1>8, <2>1
<1>5. Len(b) \in Nat /\ Len(s) \in Nat
  OBVIOUS
<1>6. ASSUME NEW n \in 1 .. p + Len(b) + (Len(s) - q)
      PROVE  r[n] = IF n <= p THEN s[n] ELSE IF n <= p + Len(b) THEN b[n - p]
                    ELSE s[n - (p + Len(b)) + q]
  <2>1. CASE n <= p
    BY <1>1, <1>4, <2>1
  <2>2. CASE n > p /\ n <= p + Len(b)
    BY <1>4, <2>2
  <2>3. CASE n > p + Len(b)
    <3>1. n - (p + Len(b)) \in 1 .. Len(s) - q
      BY <1>5, <2>3
    <3>2. r[n] = z[n - (p + Len(b))]
      BY <1>4, <1>5, <2>3
    <3>3. r[n] = s[q + (n - (p + Len(b)))]
      BY <1>2, <3>1, <3>2
    <3>4. q + (n - (p + Len(b))) = n - (p + Len(b)) + q
      BY <1>5
    <3>5. ~(n <= p) /\ ~(n <= p + Len(b))
      BY <1>5, <2>3
    <3> QED
      BY <3>3, <3>4, <3>5
  <2> QED
    BY <1>5, <2>1, <2>2, <2>3
<1> QED
  BY <1>1, <1>2, <1>3, <1>4, <1>6, Zenon DEF Splice, Spliced, u, v

LEMMA Singleton ==
  ASSUME NEW S, NEW e \in S
  PROVE  \E s \in Seq(S) : s = <<e>> /\ Len(s) = 1 /\ s[1] = e
<1>1. <<e>> \in Seq(S) /\ Len(<<e>>) = 1 /\ <<e>>[1] = e
  OBVIOUS
<1> QED
  BY <1>1

\* One more element at the end.
LEMMA OneMore ==
  ASSUME NEW S, NEW s \in Seq(S), NEW e \in S
  PROVE  /\ s \o <<e>> \in Seq(S) /\ Len(s \o <<e>>) = Len(s) + 1
         /\ \A j \in 1 .. Len(s) : (s \o <<e>>)[j] = s[j]
         /\ (s \o <<e>>)[Len(s) + 1] = e
<1>1. PICK u \in Seq(S) : u = <<e>> /\ Len(u) = 1 /\ u[1] = e
  BY Singleton
<1>2. /\ s \o u \in Seq(S) /\ Len(s \o u) = Len(s) + 1
      /\ \A j \in 1 .. Len(s) + 1 : (s \o u)[j] = IF j <= Len(s) THEN s[j] ELSE u[j - Len(s)]
  BY <1>1, ConcatProperties
<1>3. Len(s) \in Nat
  BY LenProperties
<1>4. (Len(s) + 1) - Len(s) = 1 /\ ~(Len(s) + 1 <= Len(s)) /\ Len(s) + 1 \in 1 .. Len(s) + 1
  BY <1>3
<1> QED
  BY <1>1, <1>2, <1>3, <1>4

\* Short sequences, concatenated.
LEMMA Triple ==
  ASSUME NEW a, NEW b, NEW c
  PROVE  <<a, b>> \o <<c>> = <<a, b, c>> /\ <<c>> \o <<a, b>> = <<c, a, b>>
<1> DEFINE S == {a, b, c}
<1>1. PICK u \in Seq(S) : u = <<a, b>> /\ Len(u) = 2 /\ u[1] = a /\ u[2] = b
  <2>1. <<a, b>> \in Seq(S)
    OBVIOUS
  <2>2. Len(<<a, b>>) = 2 /\ <<a, b>>[1] = a /\ <<a, b>>[2] = b
    OBVIOUS
  <2> QED
    BY <2>1, <2>2, Zenon
<1>2. PICK v \in Seq(S) : v = <<c>> /\ Len(v) = 1 /\ v[1] = c
  BY Singleton
<1>3. PICK x \in Seq(S) : x = <<a, b, c>> /\ Len(x) = 3 /\ x[1] = a /\ x[2] = b /\ x[3] = c
  <2>1. <<a, b, c>> \in Seq(S)
    OBVIOUS
  <2>2. Len(<<a, b, c>>) = 3 /\ <<a, b, c>>[1] = a /\ <<a, b, c>>[2] = b /\ <<a, b, c>>[3] = c
    OBVIOUS
  <2> QED
    BY <2>1, <2>2, Zenon
<1>4. PICK y \in Seq(S) : y = <<c, a, b>> /\ Len(y) = 3 /\ y[1] = c /\ y[2] = a /\ y[3] = b
  <2>1. <<c, a, b>> \in Seq(S)
    OBVIOUS
  <2>2. Len(<<c, a, b>>) = 3 /\ <<c, a, b>>[1] = c /\ <<c, a, b>>[2] = a /\ <<c, a, b>>[3] = b
    OBVIOUS
  <2> QED
    BY <2>1, <2>2, Zenon
<1> HIDE DEF S
<1> DEFINE uv == u \o v
           vu == v \o u
<1>5. /\ uv \in Seq(S) /\ Len(uv) = Len(u) + Len(v)
      /\ \A j \in 1 .. Len(u) + Len(v) : uv[j] = IF j <= Len(u) THEN u[j] ELSE v[j - Len(u)]
      /\ vu \in Seq(S) /\ Len(vu) = Len(v) + Len(u)
      /\ \A j \in 1 .. Len(v) + Len(u) : vu[j] = IF j <= Len(v) THEN v[j] ELSE u[j - Len(v)]
  BY ConcatProperties
<1> HIDE DEF uv, vu
<1>6. \A j \in 1 .. 3 : j = 1 \/ j = 2 \/ j = 3
  OBVIOUS
<1>7. uv = x
  <2>1. Len(uv) = Len(x) /\ uv[1] = a /\ uv[2] = b /\ uv[3] = c
    BY <1>1, <1>2, <1>3, <1>5
  <2>2. \A j \in 1 .. Len(uv) : uv[j] = x[j]
    BY <1>3, <1>6, <2>1
  <2> QED
    BY <1>5, <2>1, <2>2, SeqEqual
<1>8. vu = y
  <2>1. Len(vu) = Len(y) /\ vu[1] = c /\ vu[2] = a /\ vu[3] = b
    BY <1>1, <1>2, <1>4, <1>5
  <2>2. \A j \in 1 .. Len(vu) : vu[j] = y[j]
    BY <1>4, <1>6, <2>1
  <2> QED
    BY <1>5, <2>1, <2>2, SeqEqual
<1>9. <<a, b>> \o <<c>> = <<a, b, c>>
  BY <1>1, <1>2, <1>3, <1>7, Zenon DEF uv
<1>10. <<c>> \o <<a, b>> = <<c, a, b>>
  BY <1>1, <1>2, <1>4, <1>8, Zenon DEF vu
<1> QED
  BY <1>9, <1>10

\* Three and one.
LEMMA Quadruple ==
  ASSUME NEW a, NEW b, NEW c, NEW d
  PROVE  <<a, b, c>> \o <<d>> = <<a, b, c, d>>
<1> DEFINE S == {a, b, c, d}
<1>1. PICK u \in Seq(S) : u = <<a, b, c>> /\ Len(u) = 3 /\ u[1] = a /\ u[2] = b /\ u[3] = c
  <2>1. <<a, b, c>> \in Seq(S)
    OBVIOUS
  <2>2. Len(<<a, b, c>>) = 3 /\ <<a, b, c>>[1] = a /\ <<a, b, c>>[2] = b /\ <<a, b, c>>[3] = c
    OBVIOUS
  <2> QED
    BY <2>1, <2>2, Zenon
<1>2. PICK x \in Seq(S) : x = <<a, b, c, d>> /\ Len(x) = 4
                          /\ x[1] = a /\ x[2] = b /\ x[3] = c /\ x[4] = d
  <2>1. <<a, b, c, d>> \in Seq(S)
    OBVIOUS
  <2>2. /\ Len(<<a, b, c, d>>) = 4
        /\ <<a, b, c, d>>[1] = a /\ <<a, b, c, d>>[2] = b
        /\ <<a, b, c, d>>[3] = c /\ <<a, b, c, d>>[4] = d
    OBVIOUS
  <2> QED
    BY <2>1, <2>2, Zenon
<1>3. d \in S
  OBVIOUS
<1> HIDE DEF S
<1> DEFINE ud == u \o <<d>>
<1>4. /\ ud \in Seq(S) /\ Len(ud) = Len(u) + 1
      /\ \A j \in 1 .. Len(u) : ud[j] = u[j]
      /\ ud[Len(u) + 1] = d
  BY <1>3, OneMore
<1> HIDE DEF ud
<1>5. ud = x
  <2>1. Len(ud) = Len(x) /\ ud[1] = a /\ ud[2] = b /\ ud[3] = c /\ ud[4] = d
    BY <1>1, <1>2, <1>4
  <2>2. \A j \in 1 .. 4 : j = 1 \/ j = 2 \/ j = 3 \/ j = 4
    OBVIOUS
  <2>3. \A j \in 1 .. Len(ud) : ud[j] = x[j]
    BY <1>2, <2>1, <2>2
  <2> QED
    BY <1>2, <1>4, <2>1, <2>3, SeqEqual
<1> QED
  BY <1>1, <1>2, <1>5, Zenon DEF ud

\* A sequence cut at its k-th element, with another in its place at the end of
\* the first part or at the front of the second.
Before(s, k, e) == SubSeq(s, 1, k - 1) \o <<e>>
After(s, k, e)  == <<e>> \o SubSeq(s, k + 1, Len(s))

\* What each part is made of.
FirstPart(h, S, s, k, e) ==
  h \in Seq(S) /\ Len(h) = k /\ \A n \in 1 .. k : h[n] = IF n < k THEN s[n] ELSE e
LastPart(h, S, s, k, e) ==
  /\ h \in Seq(S) /\ Len(h) = Len(s) - k + 1
  /\ \A n \in 1 .. Len(s) - k + 1 : h[n] = IF n = 1 THEN e ELSE s[n - 1 + k]

LEMMA CutParts ==
  ASSUME NEW S, NEW s \in Seq(S), NEW k \in 1 .. Len(s), NEW e \in S
  PROVE  FirstPart(Before(s, k, e), S, s, k, e) /\ LastPart(After(s, k, e), S, s, k, e)
<1> DEFINE u == SubSeq(s, 1, k - 1)
           v == SubSeq(s, k + 1, Len(s))
           w == <<e>>
<1>1. /\ u \in Seq(S) /\ Len(u) = k - 1 /\ \A n \in 1 .. k - 1 : u[n] = s[n]
      /\ v \in Seq(S) /\ Len(v) = Len(s) - k /\ \A n \in 1 .. Len(s) - k : v[n] = s[k + n]
      /\ w \in Seq(S) /\ Len(w) = 1 /\ w[1] = e
  OBVIOUS
<1> HIDE DEF u, v, w
<1>2. PICK x \in Seq(S) : x = u /\ Len(x) = k - 1 /\ \A n \in 1 .. k - 1 : x[n] = s[n]
  BY <1>1
<1>3. PICK z \in Seq(S) : z = v /\ Len(z) = Len(s) - k /\ \A n \in 1 .. Len(s) - k : z[n] = s[k + n]
  BY <1>1
<1>4. PICK y \in Seq(S) : y = w /\ Len(y) = 1 /\ y[1] = e
  BY <1>1
<1>5. PICK a : a = x \o y
  OBVIOUS
<1>6. PICK b : b = y \o z
  OBVIOUS
<1>7. /\ a \in Seq(S) /\ Len(a) = Len(x) + Len(y)
      /\ \A n \in 1 .. Len(x) + Len(y) : a[n] = IF n <= Len(x) THEN x[n] ELSE y[n - Len(x)]
  BY <1>5, ConcatProperties
<1>8. /\ b \in Seq(S) /\ Len(b) = Len(y) + Len(z)
      /\ \A n \in 1 .. Len(y) + Len(z) : b[n] = IF n <= Len(y) THEN y[n] ELSE z[n - Len(y)]
  BY <1>6, ConcatProperties
<1>9. Len(a) = k /\ \A n \in 1 .. k : a[n] = IF n < k THEN s[n] ELSE e
  <2>1. PICK m \in Nat : m = Len(x) /\ k = m + 1
    BY <1>2
  <2>2. Len(a) = k /\ \A n \in 1 .. k : a[n] = IF n <= m THEN x[n] ELSE y[n - m]
    BY <1>4, <1>7, <2>1
  <2>3. ASSUME NEW n \in 1 .. k
        PROVE  a[n] = IF n < k THEN s[n] ELSE e
    <3>1. CASE n < k
      <4>1. n \in 1 .. k - 1 /\ n <= m
        BY <2>1, <3>1
      <4>2. a[n] = x[n] /\ x[n] = s[n]
        BY <1>2, <2>2, <4>1
      <4> QED
        BY <3>1, <4>2
    <3>2. CASE ~(n < k)
      <4>1. n = k /\ ~(n <= m) /\ n - m = 1
        BY <2>1, <3>2
      <4>2. a[n] = y[1]
        BY <2>2, <4>1
      <4> QED
        BY <1>4, <3>2, <4>2
    <3> QED
      BY <3>1, <3>2
  <2> QED
    BY <2>2, <2>3
<1>10. Len(b) = Len(s) - k + 1 /\ \A n \in 1 .. Len(s) - k + 1 : b[n] = IF n = 1 THEN e ELSE s[n - 1 + k]
  <2>1. Len(b) = Len(s) - k + 1 /\ Len(s) \in Nat
    BY <1>3, <1>4, <1>8
  <2>2. ASSUME NEW n \in 1 .. Len(s) - k + 1
        PROVE  b[n] = IF n = 1 THEN e ELSE s[n - 1 + k]
    <3>1. CASE n = 1
      BY <1>3, <1>4, <1>8, <3>1
    <3>2. CASE n # 1
      <4>1. b[n] = z[n - 1] /\ n - 1 \in 1 .. Len(s) - k /\ k + (n - 1) = n - 1 + k
        BY <1>3, <1>4, <1>8, <3>2
      <4> QED
        BY <1>3, <3>2, <4>1
    <3> QED
      BY <3>1, <3>2
  <2> QED
    BY <2>1, <2>2
<1>11. a = Before(s, k, e) /\ b = After(s, k, e)
  BY <1>2, <1>3, <1>4, <1>5, <1>6 DEF Before, After, u, v, w
<1>12. FirstPart(a, S, s, k, e) /\ LastPart(b, S, s, k, e)
  BY <1>7, <1>8, <1>9, <1>10 DEF FirstPart, LastPart
<1> QED
  BY <1>11, <1>12

\* A sequence with two elements put in behind its i-th.
TwoBehind(t, s, i, x, y) ==
  /\ Len(t) = Len(s) + 2
  /\ \A n \in 1 .. i : t[n] = s[n]
  /\ t[i + 1] = x /\ t[i + 2] = y
  /\ \A n \in i + 1 .. Len(s) : t[n + 2] = s[n]

LEMMA SplicePair ==
  ASSUME NEW S, NEW s \in Seq(S), NEW i \in 1 .. Len(s), NEW x \in S, NEW y \in S
  PROVE  \E t \in Seq(S) : t = Splice(s, i, i, <<x, y>>) /\ TwoBehind(t, s, i, x, y)
<1>1. PICK w \in Seq(S) : w = <<x, y>> /\ Len(w) = 2 /\ w[1] = x /\ w[2] = y
  <2>1. <<x, y>> \in Seq(S) /\ Len(<<x, y>>) = 2 /\ <<x, y>>[1] = x /\ <<x, y>>[2] = y
    OBVIOUS
  <2> QED
    BY <2>1
<1>2. PICK L \in Nat : L = Len(s) /\ i <= L
  OBVIOUS
<1>3. PICK t : t = Splice(s, i, i, w)
  OBVIOUS
<1>4. /\ t \in Seq(S) /\ Len(t) = i + Len(w) + (Len(s) - i)
      /\ \A n \in 1 .. i + Len(w) + (Len(s) - i) :
           t[n] = IF n <= i THEN s[n] ELSE IF n <= i + Len(w) THEN w[n - i]
                  ELSE s[n - (i + Len(w)) + i]
  <2>1. i \in 0 .. Len(s) /\ i \in i .. Len(s)
    BY <1>2
  <2>2. t \in Seq(S) /\ Spliced(t, s, i, i, w)
    BY <1>3, <2>1, SpliceProperties
  <2> QED
    BY <2>2, Zenon DEF Spliced
<1>5. /\ Len(t) = L + 2
      /\ \A n \in 1 .. L + 2 : t[n] = IF n <= i THEN s[n] ELSE IF n <= i + 2 THEN w[n - i]
                                      ELSE s[n - (i + 2) + i]
  BY <1>1, <1>2, <1>4
<1>6. \A n \in 1 .. i : t[n] = s[n]
  BY <1>2, <1>5
<1>7. t[i + 1] = x /\ t[i + 2] = y
  <2>1. t[i + 1] = w[(i + 1) - i] /\ t[i + 2] = w[(i + 2) - i]
    BY <1>2, <1>5
  <2>2. (i + 1) - i = 1 /\ (i + 2) - i = 2
    OBVIOUS
  <2> QED
    BY <1>1, <2>1, <2>2
<1>8. ASSUME NEW n \in i + 1 .. Len(s) PROVE t[n + 2] = s[n]
  <2>1. t[n + 2] = s[(n + 2) - (i + 2) + i]
    BY <1>2, <1>5
  <2>2. (n + 2) - (i + 2) + i = n
    OBVIOUS
  <2> QED
    BY <2>1, <2>2
<1> QED
  BY <1>1, <1>2, <1>3, <1>4, <1>5, <1>6, <1>7, <1>8 DEF TwoBehind

\* A sequence with one element replaced by several.
Replacing(r, s, i, w) ==
  /\ Len(r) = (Len(s) - 1) + Len(w)
  /\ \A n \in 1 .. i - 1 : r[n] = s[n]
  /\ \A n \in 1 .. Len(w) : r[(i - 1) + n] = w[n]
  /\ \A n \in i + 1 .. Len(s) : r[(n - 1) + Len(w)] = s[n]

LEMMA SpliceOne ==
  ASSUME NEW S, NEW s \in Seq(S), NEW i \in 1 .. Len(s), NEW w \in Seq(S)
  PROVE  \E r \in Seq(S) : r = Splice(s, i - 1, i, w) /\ Replacing(r, s, i, w)
<1>1. PICK p \in 0 .. Len(s) : p = i - 1
  OBVIOUS
<1>2. PICK q \in p .. Len(s) : q = i
  BY <1>1
<1>3. PICK r : r = Splice(s, p, q, w)
  OBVIOUS
<1>4. /\ r \in Seq(S) /\ Len(r) = p + Len(w) + (Len(s) - q)
      /\ \A n \in 1 .. p + Len(w) + (Len(s) - q) :
           r[n] = IF n <= p THEN s[n] ELSE IF n <= p + Len(w) THEN w[n - p]
                  ELSE s[n - (p + Len(w)) + q]
  <2>1. r \in Seq(S) /\ Spliced(r, s, p, q, w)
    BY <1>3, SpliceProperties
  <2> QED
    BY <2>1, Zenon DEF Spliced
<1>5. PICK L \in Nat, k \in Nat : L = Len(s) /\ k = Len(w)
  OBVIOUS
<1>6. p \in Nat /\ q = p + 1 /\ q <= L /\ i = p + 1 /\ i - 1 = p
  BY <1>1, <1>2, <1>5
<1>7. /\ Len(r) = (L - 1) + k
      /\ \A n \in 1 .. (L - 1) + k :
           r[n] = IF n <= p THEN s[n] ELSE IF n <= p + k THEN w[n - p] ELSE s[n - (p + k) + q]
  <2>1. p + k + (L - q) = (L - 1) + k
    BY <1>6
  <2> QED
    BY <1>4, <1>5, <2>1
<1>8. \A n \in 1 .. p : r[n] = s[n]
  BY <1>6, <1>7
<1>9. ASSUME NEW n \in 1 .. k PROVE r[p + n] = w[n]
  <2>1. r[p + n] = w[(p + n) - p]
    BY <1>6, <1>7
  <2>2. (p + n) - p = n
    BY <1>6
  <2> QED
    BY <2>1, <2>2
<1>10. ASSUME NEW n \in i + 1 .. L PROVE r[(n - 1) + k] = s[n]
  <2>1. r[(n - 1) + k] = s[((n - 1) + k) - (p + k) + q]
    BY <1>6, <1>7
  <2>2. ((n - 1) + k) - (p + k) + q = n
    BY <1>6
  <2> QED
    BY <2>1, <2>2
<1>11. Replacing(r, s, i, w)
  BY <1>5, <1>6, <1>7, <1>8, <1>9, <1>10, Zenon DEF Replacing
<1> QED
  BY <1>2, <1>3, <1>4, <1>6, <1>11, Zenon

\* A sequence with its p-th element replaced and two more at its end.
TwoMore(t, s, p, e, x, y) ==
  /\ Len(t) = Len(s) + 2
  /\ \A n \in 1 .. Len(s) : t[n] = IF n = p THEN e ELSE s[n]
  /\ t[Len(s) + 1] = x /\ t[Len(s) + 2] = y

LEMMA ReplaceAndExtend ==
  ASSUME NEW S, NEW s \in Seq(S), NEW p \in 1 .. Len(s), NEW e \in S, NEW x \in S, NEW y \in S
  PROVE  \E t \in Seq(S) : t = [s EXCEPT ![p] = e] \o <<x, y>> /\ TwoMore(t, s, p, e, x, y)
<1>1. PICK w \in Seq(S) : w = <<x, y>> /\ Len(w) = 2 /\ w[1] = x /\ w[2] = y
  <2>1. <<x, y>> \in Seq(S) /\ Len(<<x, y>>) = 2 /\ <<x, y>>[1] = x /\ <<x, y>>[2] = y
    OBVIOUS
  <2> QED
    BY <2>1
<1>2. PICK v \in Seq(S) : /\ v = [s EXCEPT ![p] = e] /\ Len(v) = Len(s)
                          /\ \A n \in 1 .. Len(s) : v[n] = IF n = p THEN e ELSE s[n]
  <2> DEFINE r == [s EXCEPT ![p] = e]
  <2>1. r \in Seq(S) /\ Len(r) = Len(s) /\ \A n \in 1 .. Len(s) : r[n] = IF n = p THEN e ELSE s[n]
    OBVIOUS
  <2> QED
    BY <2>1
<1>3. PICK t : t = v \o w
  OBVIOUS
<1>4. /\ t \in Seq(S) /\ Len(t) = Len(v) + Len(w)
      /\ \A n \in 1 .. Len(v) + Len(w) : t[n] = IF n <= Len(v) THEN v[n] ELSE w[n - Len(v)]
  BY <1>3, ConcatProperties
<1>5. PICK L \in Nat : L = Len(s) /\ L = Len(v)
  <2>1. Len(s) \in Nat
    OBVIOUS
  <2> QED
    BY <1>2, <2>1, Zenon
<1>6. Len(t) = L + 2 /\ \A n \in 1 .. L + 2 : t[n] = IF n <= L THEN v[n] ELSE w[n - L]
  BY <1>1, <1>4, <1>5
<1>7. t[L + 1] = x /\ t[L + 2] = y
  <2>1. (L + 1) - L = 1 /\ (L + 2) - L = 2
    OBVIOUS
  <2>2. t[L + 1] = w[(L + 1) - L] /\ t[L + 2] = w[(L + 2) - L]
    BY <1>6
  <2> QED
    BY <1>1, <2>1, <2>2
<1>8. \A n \in 1 .. L : t[n] = v[n]
  BY <1>6
<1>9. TwoMore(t, s, p, e, x, y)
  <2>1. \A n \in 1 .. Len(s) : t[n] = IF n = p THEN e ELSE s[n]
    BY <1>2, <1>5, <1>8, Zenon
  <2> QED
    BY <1>5, <1>6, <1>7, <2>1, Zenon DEF TwoMore
<1> QED
  BY <1>1, <1>2, <1>3, <1>4, <1>9, Zenon

-----------------------------------------------------------------------------
\* Concatenation is associative.
Regroups(S) == \A a, b, c \in Seq(S) : (a \o b) \o c = a \o (b \o c)

LEMMA ConcatRegroups ==
  ASSUME NEW S
  PROVE  Regroups(S)
BY ConcatAssociative DEF Regroups

\* Sequences of sequences, the second behind the first.
LEMMA FlattenSeqConcat ==
  ASSUME NEW S, NEW x \in Seq(Seq(S)), NEW y \in Seq(Seq(S))
  PROVE  FlattenSeq(x \o y) = FlattenSeq(x) \o FlattenSeq(y)
<1>0. \A a, b, c \in Seq(S) : (a \o b) \o c = a \o (b \o c)
  <2>1. Regroups(S)
    BY ConcatRegroups, Zenon
  <2> QED
    BY <2>1, Zenon DEF Regroups
<1>1. CASE x = << >>
  <2>1. FlattenSeq(x) = << >>
    BY <1>1 DEF FlattenSeq
  <2>2. x \o y = y
    BY <1>1, ConcatEmptySeq
  <2> QED
    BY <2>1, <2>2, FlattenSeqType, ConcatEmptySeq
<1>2. CASE y = << >>
  <2>1. FlattenSeq(y) = << >>
    BY <1>2 DEF FlattenSeq
  <2>2. x \o y = x
    BY <1>2, ConcatEmptySeq
  <2> QED
    BY <2>1, <2>2, FlattenSeqType, ConcatEmptySeq
<1>3. CASE x # << >> /\ y # << >>
  <2>1. PICK p \in Nat, q \in Nat : p = Len(x) /\ q = Len(y) /\ p > 0 /\ q > 0
    BY <1>3, EmptySeq
  <2>2. PICK xy \in Seq(Seq(S)) :
          /\ xy = x \o y /\ Len(xy) = p + q
          /\ \A i \in 1 .. p + q : xy[i] = IF i <= p THEN x[i] ELSE y[i - p]
    <3>1. /\ x \o y \in Seq(Seq(S)) /\ Len(x \o y) = Len(x) + Len(y)
          /\ \A i \in 1 .. Len(x) + Len(y) :
               (x \o y)[i] = IF i <= Len(x) THEN x[i] ELSE y[i - Len(x)]
      BY ConcatProperties
    <3> QED
      BY <2>1, <3>1, Zenon
  <2>3. PICK fx : Partial(x, p, fx) /\ FlattenSeq(x) = fx[p]
    BY <2>1, FlattenSeqParts
  <2>4. PICK fy : Partial(y, q, fy) /\ FlattenSeq(y) = fy[q]
    BY <2>1, FlattenSeqParts
  <2>5. PICK fxy : Partial(xy, p + q, fxy) /\ FlattenSeq(xy) = fxy[p + q]
    <3>1. Len(xy) = p + q /\ p + q \in Nat /\ p + q > 0
      BY <2>1, <2>2
    <3>2. \E fxy : Partial(xy, Len(xy), fxy) /\ FlattenSeq(xy) = fxy[Len(xy)]
      BY <3>1, FlattenSeqParts
    <3> QED
      BY <3>1, <3>2, Zenon
  <2>6. fx[p] \in Seq(S)
    BY <2>3, FlattenSeqType
  <2> DEFINE T == {m \in Nat : m \in 1 .. p => fxy[m] = fx[m]}
             Behind(m) == fy[m] \in Seq(S) /\ fxy[p + m] = fx[p] \o fy[m]
             U == {m \in Nat : m \in 1 .. q => Behind(m)}
  <2>7. Nat \subseteq T
    <3>1. 0 \in T
      OBVIOUS
    <3>2. ASSUME NEW m \in Nat, m \in T PROVE m + 1 \in T
      <4> SUFFICES ASSUME m + 1 \in 1 .. p PROVE fxy[m + 1] = fx[m + 1]
        OBVIOUS
      <4>1. (m + 1) - 1 = m /\ m + 1 <= p /\ m + 1 \in 1 .. p + q
        BY <2>1
      <4>2. fxy[m + 1] = IF m + 1 = 1 THEN xy[m + 1] ELSE fxy[m] \o xy[m + 1]
        BY <2>5, <4>1, Zenon DEF Partial
      <4>3. fx[m + 1] = IF m + 1 = 1 THEN x[m + 1] ELSE fx[m] \o x[m + 1]
        BY <2>3, <4>1, Zenon DEF Partial
      <4>4. xy[m + 1] = x[m + 1]
        BY <2>2, <4>1
      <4>5. m + 1 # 1 => fxy[m] = fx[m]
        BY <3>2, <4>1
      <4> QED
        BY <4>2, <4>3, <4>4, <4>5
    <3> HIDE DEF T
    <3> QED
      BY <3>1, <3>2, SetInduction
  <2>8. Nat \subseteq U
    <3>1. 0 \in U
      OBVIOUS
    <3>2. ASSUME NEW m \in Nat, m \in U PROVE m + 1 \in U
      <4> HIDE DEF Behind
      <4> SUFFICES ASSUME m + 1 \in 1 .. q PROVE Behind(m + 1)
        OBVIOUS
      <4>1. /\ (m + 1) - 1 = m /\ (p + (m + 1)) - 1 = p + m /\ p + (m + 1) # 1
            /\ p + (m + 1) \in 1 .. p + q /\ ~(p + (m + 1) <= p) /\ (p + (m + 1)) - p = m + 1
        BY <2>1
      <4>2. PICK e \in Seq(S) : e = y[m + 1]
        BY <2>1, ElementOfSeq
      <4>3. fxy[p + (m + 1)] = fxy[p + m] \o e
        <5>1. xy[p + (m + 1)] = e
          BY <2>2, <4>1, <4>2
        <5>2. fxy[p + (m + 1)] = fxy[p + m] \o xy[p + (m + 1)]
          BY <2>5, <4>1, Zenon DEF Partial
        <5> QED
          BY <5>1, <5>2
      <4>4. fy[m + 1] = IF m + 1 = 1 THEN e ELSE fy[m] \o e
        BY <2>4, <4>1, <4>2, Zenon DEF Partial
      <4>5. CASE m = 0
        <5>1. fxy[p + m] = fx[p]
          <6>1. p \in T /\ p + m = p /\ p \in 1 .. p
            BY <2>1, <2>7, <4>5
          <6> QED
            BY <6>1
        <5>2. fy[m + 1] = e
          BY <4>4, <4>5
        <5> QED
          BY <4>2, <4>3, <5>1, <5>2, Zenon DEF Behind
      <4>6. CASE m # 0
        <5>1. m \in 1 .. q /\ m + 1 # 1
          BY <4>6
        <5>2. fy[m] \in Seq(S) /\ fxy[p + m] = fx[p] \o fy[m]
          BY <3>2, <5>1, Zenon DEF Behind
        <5>3. fy[m + 1] = fy[m] \o e
          BY <4>4, <5>1
        <5>4. (fx[p] \o fy[m]) \o e = fx[p] \o (fy[m] \o e)
          <6>1. PICK a \in Seq(S), b \in Seq(S) : a = fx[p] /\ b = fy[m]
            BY <2>6, <5>2, Zenon
          <6>2. (a \o b) \o e = a \o (b \o e)
            BY <1>0, Zenon
          <6> QED
            BY <6>1, <6>2, Zenon
        <5>5. fy[m] \o e \in Seq(S)
          BY <5>2, ConcatProperties
        <5> QED
          BY <4>3, <5>2, <5>3, <5>4, <5>5, Zenon DEF Behind
      <4> QED
        BY <4>5, <4>6
    <3> HIDE DEF U
    <3> QED
      BY <3>1, <3>2, SetInduction
  <2>9. fxy[p + q] = fx[p] \o fy[q]
    <3>1. q \in 1 .. q
      BY <2>1
    <3>2. q \in U
      BY <2>8
    <3>3. Behind(q)
      BY <3>1, <3>2
    <3> QED
      BY <3>3
  <2> QED
    BY <2>2, <2>3, <2>4, <2>5, <2>9
<1> QED
  BY <1>1, <1>2, <1>3

\* One sequence.
LEMMA FlattenSeqOne ==
  ASSUME NEW S, NEW s \in Seq(S)
  PROVE  FlattenSeq(<<s>>) = s
<1>1. PICK q \in Seq(Seq(S)) : q = <<s>> /\ Len(q) = 1 /\ q[1] = s
  BY Singleton, Zenon
<1>2. PICK flat : Partial(q, 1, flat) /\ FlattenSeq(q) = flat[1]
  <2>1. Len(q) \in Nat /\ Len(q) > 0
    BY <1>1
  <2> QED
    BY <1>1, <2>1, FlattenSeqParts
<1>3. flat[1] = s
  <2>1. 1 \in 1 .. 1
    OBVIOUS
  <2> QED
    BY <1>1, <1>2, <2>1, Zenon DEF Partial
<1> QED
  BY <1>1, <1>2, <1>3, Zenon

\* Sequences of one element each.
LEMMA FlattenSingles ==
  ASSUME NEW S, NEW s \in Seq(S)
  PROVE  FlattenSeq([n \in DOMAIN s |-> <<s[n]>>]) = s
<1>0. PICK L \in Nat : L = Len(s) /\ DOMAIN s = 1 .. L
  BY LenProperties
<1>1. PICK q : q = [n \in 1 .. L |-> <<s[n]>>]
  OBVIOUS
<1>2. FlattenSeq([n \in DOMAIN s |-> <<s[n]>>]) = FlattenSeq(q)
  BY <1>0, <1>1
<1>3. CASE L = 0
  <2>1. q = << >> /\ s = << >>
    BY <1>0, <1>1, <1>3
  <2> QED
    BY <1>2, <2>1 DEF FlattenSeq
<1>4. CASE L > 0
  <2>1. Len(q) = L
    BY <1>1
  <2>2. PICK flat : Partial(q, L, flat) /\ FlattenSeq(q) = flat[L]
    BY <1>4, <2>1, FlattenSeqParts
  <2> DEFINE T == {m \in Nat : m \in 1 .. L => flat[m] = SubSeq(s, 1, m)}
  <2>3. Nat \subseteq T
    <3>1. 0 \in T
      OBVIOUS
    <3>2. ASSUME NEW m \in Nat, m \in T PROVE m + 1 \in T
      <4> SUFFICES ASSUME m + 1 \in 1 .. L PROVE flat[m + 1] = SubSeq(s, 1, m + 1)
        OBVIOUS
      <4>1. (m + 1) - 1 = m
        OBVIOUS
      <4>2. flat[m + 1] = IF m + 1 = 1 THEN q[m + 1] ELSE flat[m] \o q[m + 1]
        BY <2>2, <4>1, Zenon DEF Partial
      <4>3. q[m + 1] = <<s[m + 1]>>
        BY <1>1
      <4>4. SubSeq(s, 1, m + 1) = SubSeq(s, 1, (m + 1) - 1) \o <<s[m + 1]>>
        <5>1. m + 1 \in 1 .. Len(s) /\ 1 \in 1 .. Len(s)
          BY <1>0
        <5> QED
          BY <5>1, SubSeqRecursiveSecond
      <4>5. CASE m = 0
        <5>1. SubSeq(s, 1, 0) = << >>
          BY SubSeqEmpty
        <5>2. s[m + 1] \in S
          BY <1>0, ElementOfSeq
        <5>3. << >> \o <<s[m + 1]>> = <<s[m + 1]>>
          BY <5>2, Singleton, ConcatEmptySeq
        <5> QED
          BY <4>1, <4>2, <4>3, <4>4, <4>5, <5>1, <5>3
      <4>6. CASE m # 0
        <5>1. flat[m] = SubSeq(s, 1, m)
          BY <3>2, <4>6
        <5> QED
          BY <4>1, <4>2, <4>3, <4>4, <4>6, <5>1
      <4> QED
        BY <4>5, <4>6
    <3> HIDE DEF T
    <3> QED
      BY <3>1, <3>2, SetInduction
  <2>4. flat[L] = SubSeq(s, 1, L)
    <3>1. L \in T /\ L \in 1 .. L
      BY <1>4, <2>3
    <3> QED
      BY <3>1
  <2> QED
    BY <1>0, <1>2, <2>2, <2>4, SubSeqFull
<1> QED
  BY <1>3, <1>4

\* Two elements.
LEMMA Pair ==
  ASSUME NEW S, NEW a \in S, NEW b \in S
  PROVE  <<a, b>> = <<a>> \o <<b>>
<1>1. PICK u \in Seq(S) : u = <<a>> /\ Len(u) = 1 /\ u[1] = a
  BY Singleton
<1>2. PICK x \in Seq(S) : x = <<a, b>> /\ Len(x) = 2 /\ x[1] = a /\ x[2] = b
  <2>1. <<a, b>> \in Seq(S)
    OBVIOUS
  <2>2. Len(<<a, b>>) = 2 /\ <<a, b>>[1] = a /\ <<a, b>>[2] = b
    OBVIOUS
  <2> QED
    BY <2>1, <2>2, Zenon
<1>3. PICK y \in Seq(S) : y = u \o <<b>> /\ Len(y) = 2 /\ y[1] = a /\ y[2] = b
  <2>1. /\ u \o <<b>> \in Seq(S) /\ Len(u \o <<b>>) = Len(u) + 1
        /\ \A j \in 1 .. Len(u) : (u \o <<b>>)[j] = u[j]
        /\ (u \o <<b>>)[Len(u) + 1] = b
    BY OneMore
  <2>2. PICK y : y = u \o <<b>>
    OBVIOUS
  <2>3. y \in Seq(S) /\ Len(y) = 1 + 1 /\ (\A j \in 1 .. 1 : y[j] = u[j]) /\ y[1 + 1] = b
    BY <1>1, <2>1, <2>2, Zenon
  <2>4. 1 + 1 = 2 /\ 1 \in 1 .. 1
    OBVIOUS
  <2>5. Len(y) = 2 /\ y[1] = a /\ y[2] = b
    BY <1>1, <2>3, <2>4, Zenon
  <2> QED
    BY <2>2, <2>3, <2>5, Zenon
<1>4. x = y
  <2>1. \A j \in 1 .. 2 : j = 1 \/ j = 2
    OBVIOUS
  <2> QED
    BY <1>2, <1>3, <2>1, SeqEqual
<1> QED
  BY <1>1, <1>2, <1>3, <1>4, Zenon

-----------------------------------------------------------------------------
(***************************************************************************)
(* The places of the parts in the flat sequence.                           *)
(***************************************************************************)

\* The end of each part in the flat sequence s of the parts.
Ends(s, parts, b) ==
  /\ b \in [0 .. Len(parts) -> Nat]
  /\ b[0] = 0 /\ b[Len(parts)] = Len(s)
  /\ \A n \in 1 .. Len(parts) :
       /\ b[n] = b[n - 1] + Len(parts[n])
       /\ \A j \in 1 .. Len(parts[n]) : s[b[n - 1] + j] = parts[n][j]

\* The same of the first m parts.
EndAt(s, parts, b, n) ==
  /\ b[n] = b[n - 1] + Len(parts[n])
  /\ \A j \in 1 .. Len(parts[n]) : s[b[n - 1] + j] = parts[n][j]

EndsOfFirst(s, parts, m, b) ==
  /\ b \in [0 .. m -> Nat] /\ b[0] = 0 /\ b[m] = Len(s)
  /\ \A n \in 1 .. m : EndAt(s, parts, b, n)

\* The places of a part are before where later ones end.
LEMMA PlaceWithin ==
  ASSUME NEW lo \in Nat, NEW K \in Nat, NEW M \in Nat, NEW L \in Nat,
         lo + K <= M, NEW j \in 1 .. K
  PROVE  lo + j \in 1 .. M + L /\ lo + j <= M
OBVIOUS

\* With one more part there is one more end.
LEMMA OneMoreEnd ==
  ASSUME NEW S, NEW k \in Nat \ {0}, NEW N \in Nat, k + 1 \in 1 .. N,
         NEW parts, \A n \in 1 .. N : parts[n] \in Seq(S),
         NEW f \in Seq(S), NEW b, EndsOfFirst(f, parts, k, b)
  PROVE  \E c : EndsOfFirst(f \o parts[k + 1], parts, k + 1, c)
<1>1. PICK p \in Seq(S), L \in Nat : p = parts[k + 1] /\ L = Len(p)
  BY LenProperties
<1>2. PICK M \in Nat : M = Len(f) /\ b[k] = M
  BY LenProperties DEF EndsOfFirst
<1>3. PICK g \in Seq(S) : /\ g = f \o p /\ Len(g) = M + L
                          /\ \A i \in 1 .. M + L : g[i] = IF i <= M THEN f[i] ELSE p[i - M]
  <2>1. /\ f \o p \in Seq(S) /\ Len(f \o p) = Len(f) + Len(p)
        /\ \A i \in 1 .. Len(f) + Len(p) : (f \o p)[i] = IF i <= Len(f) THEN f[i] ELSE p[i - Len(f)]
    BY ConcatProperties
  <2>2. Len(f) = M /\ Len(p) = L
    BY <1>1, <1>2
  <2> QED
    BY <2>1, <2>2, Zenon
<1>4. b \in [0 .. k -> Nat] /\ b[0] = 0 /\ \A n \in 1 .. k : EndAt(f, parts, b, n)
  BY DEF EndsOfFirst
<1> DEFINE c == [n \in 0 .. k + 1 |-> IF n = k + 1 THEN M + L ELSE b[n]]
<1>5. c \in [0 .. k + 1 -> Nat] /\ c[k + 1] = M + L /\ \A n \in 0 .. k : c[n] = b[n]
  BY <1>4
<1> HIDE DEF c
<1>6. ASSUME NEW n \in 1 .. k + 1 PROVE EndAt(g, parts, c, n)
  <2>1. CASE n = k + 1
    <3>1. n - 1 = k /\ k \in 0 .. k
      BY <2>1
    <3>2. c[n - 1] = M /\ c[n] = M + L
      BY <1>2, <1>5, <2>1, <3>1
    <3>3. Len(parts[n]) = L /\ parts[n] = p
      BY <1>1, <2>1
    <3>4. ASSUME NEW j \in 1 .. L PROVE g[M + j] = p[j]
      <4>1. M + j \in 1 .. M + L /\ ~(M + j <= M) /\ (M + j) - M = j
        OBVIOUS
      <4> QED
        BY <1>3, <4>1
    <3> QED
      BY <3>2, <3>3, <3>4 DEF EndAt
  <2>2. CASE n # k + 1
    <3>1. n \in 1 .. k /\ n - 1 \in 0 .. k /\ n \in 0 .. k /\ n \in 1 .. N
      BY <2>2
    <3>2. EndAt(f, parts, b, n) /\ c[n - 1] = b[n - 1] /\ c[n] = b[n]
      BY <1>4, <1>5, <3>1
    <3>3. PICK q \in Seq(S) : q = parts[n]
      BY <3>1
    <3>4. PICK K \in Nat : K = Len(q)
      BY LenProperties
    <3>5. PICK lo \in Nat, hi \in Nat : lo = b[n - 1] /\ hi = b[n] /\ hi = lo + K
      BY <1>4, <3>1, <3>2, <3>3, <3>4 DEF EndAt
    <3>6. hi <= M
      <4> DEFINE V == {i \in Nat : \A x \in 1 .. k : x + i = k => b[x] <= M}
      <4>1. 0 \in V
        BY <1>2
      <4>2. ASSUME NEW i \in Nat, i \in V PROVE i + 1 \in V
        <5> SUFFICES ASSUME NEW x \in 1 .. k, x + (i + 1) = k PROVE b[x] <= M
          OBVIOUS
        <5>1. /\ x + 1 \in 1 .. k /\ (x + 1) + i = k /\ (x + 1) - 1 = x /\ x \in 0 .. k
              /\ x + 1 \in 0 .. k /\ x + 1 \in 1 .. N
          OBVIOUS
        <5>2. b[x + 1] <= M /\ b[x + 1] = b[x] + Len(parts[x + 1])
          BY <1>4, <4>2, <5>1 DEF EndAt
        <5>3. PICK e \in Nat : e = Len(parts[x + 1])
          BY <5>1, LenProperties
        <5>4. b[x] \in Nat
          BY <1>4, <5>1
        <5> QED
          BY <5>2, <5>3, <5>4
      <4> HIDE DEF V
      <4>3. Nat \subseteq V
        BY <4>1, <4>2, SetInduction
      <4>4. k - n \in V /\ n + (k - n) = k
        BY <4>3, <3>1
      <4> QED
        BY <3>1, <3>5, <4>4 DEF V
    <3>7. ASSUME NEW j \in 1 .. K PROVE g[lo + j] = q[j]
      <4>1. lo + j \in 1 .. M + L /\ lo + j <= M
        <5>1. lo + K <= M
          BY <3>5, <3>6, Zenon
        <5> QED
          BY <5>1, PlaceWithin, Zenon
      <4>2. f[lo + j] = q[j]
        BY <3>2, <3>3, <3>4, <3>5 DEF EndAt
      <4> QED
        BY <1>3, <4>1, <4>2
    <3> QED
      BY <3>2, <3>3, <3>4, <3>5, <3>7 DEF EndAt
  <2> QED
    BY <2>1, <2>2
<1>7. c[0] = 0
  BY <1>4, <1>5
<1>8. EndsOfFirst(g, parts, k + 1, c)
  BY <1>3, <1>5, <1>6, <1>7 DEF EndsOfFirst
<1> QED
  BY <1>1, <1>3, <1>8, Zenon

LEMMA FlattenSeqEnds ==
  ASSUME NEW S, NEW parts \in Seq(Seq(S))
  PROVE  \E b : Ends(FlattenSeq(parts), parts, b)
<1>1. PICK N \in Nat : N = Len(parts) /\ \A n \in 1 .. N : parts[n] \in Seq(S)
  BY LenProperties, ElementOfSeq
<1>2. CASE N = 0
  <2>1. parts = << >>
    BY <1>1, <1>2, EmptySeq
  <2>2. FlattenSeq(parts) = << >>
    BY <2>1 DEF FlattenSeq
  <2> DEFINE b == [n \in 0 .. 0 |-> 0]
  <2>3. b \in [0 .. N -> Nat] /\ b[0] = 0 /\ b[N] = 0 /\ 1 .. N = {}
    BY <1>2
  <2>4. Len(<< >>) = 0
    OBVIOUS
  <2> HIDE DEF b
  <2>5. Ends(FlattenSeq(parts), parts, b)
    BY <1>1, <2>2, <2>3, <2>4 DEF Ends
  <2> QED
    BY <2>5
<1>3. CASE N > 0
  <2>1. PICK flat : Partial(parts, N, flat) /\ FlattenSeq(parts) = flat[N]
    BY <1>1, <1>3, FlattenSeqParts
  <2> DEFINE Good(m) == flat[m] \in Seq(S) /\ \E b : EndsOfFirst(flat[m], parts, m, b)
             T == {m \in Nat : m \in 1 .. N => Good(m)}
  <2>2. 0 \in T
    OBVIOUS
  <2>3. ASSUME NEW m \in Nat, m \in T PROVE m + 1 \in T
    <3> SUFFICES ASSUME m + 1 \in 1 .. N PROVE Good(m + 1)
      OBVIOUS
    <3>1. CASE m = 0
      <4>1. 1 \in 1 .. N /\ m + 1 = 1
        BY <1>3, <3>1
      <4>2. flat[1] = parts[1]
        BY <2>1, <4>1, Zenon DEF Partial
      <4>3. PICK p \in Seq(S), L \in Nat : p = parts[1] /\ L = Len(p)
        BY <1>1, <4>1, LenProperties
      <4> DEFINE b == [n \in 0 .. 1 |-> IF n = 0 THEN 0 ELSE L]
      <4>4. b \in [0 .. 1 -> Nat] /\ b[0] = 0 /\ b[1] = L
        OBVIOUS
      <4> HIDE DEF b
      <4>5. ASSUME NEW n \in 1 .. 1 PROVE EndAt(p, parts, b, n)
        <5>1. n = 1 /\ n - 1 = 0 /\ (\A j \in 1 .. L : 0 + j = j) /\ 0 + L = L
          OBVIOUS
        <5>2. parts[n] = p /\ Len(parts[n]) = L /\ b[n - 1] = 0 /\ b[n] = L
          BY <4>3, <4>4, <5>1
        <5> QED
          BY <5>1, <5>2 DEF EndAt
      <4>6. EndsOfFirst(p, parts, 1, b)
        BY <4>3, <4>4, <4>5 DEF EndsOfFirst
      <4> QED
        BY <4>1, <4>2, <4>3, <4>6
    <3>2. CASE m # 0
      <4>1. m \in 1 .. N /\ m \in Nat \ {0} /\ (m + 1) - 1 = m /\ m + 1 # 1
        BY <3>2
      <4>2. PICK f, b : f \in Seq(S) /\ f = flat[m] /\ EndsOfFirst(f, parts, m, b)
        BY <2>3, <4>1
      <4>3. flat[m + 1] = f \o parts[m + 1]
        BY <2>1, <4>1, <4>2, Zenon DEF Partial
      <4>4. f \o parts[m + 1] \in Seq(S)
        BY <1>1, <4>2, ConcatProperties
      <4>5. \E c : EndsOfFirst(f \o parts[m + 1], parts, m + 1, c)
        BY <1>1, <4>1, <4>2, OneMoreEnd
      <4> QED
        BY <4>3, <4>4, <4>5
    <3> QED
      BY <3>1, <3>2
  <2> HIDE DEF T
  <2>4. Nat \subseteq T
    BY <2>2, <2>3, SetInduction
  <2>5. N \in T /\ N \in 1 .. N
    BY <1>3, <2>4
  <2>6. PICK b : EndsOfFirst(flat[N], parts, N, b)
    BY <2>5 DEF T
  <2>7. Ends(flat[N], parts, b)
    BY <1>1, <2>6 DEF Ends, EndsOfFirst, EndAt
  <2> QED
    BY <2>1, <2>7
<1> QED
  BY <1>1, <1>2, <1>3

\* Parts end in their order.
LEMMA EndsInOrder ==
  ASSUME NEW S, NEW parts \in Seq(Seq(S)), NEW s \in Seq(S), NEW b, Ends(s, parts, b)
  PROVE  /\ \A m, n \in 0 .. Len(parts) : m <= n => b[m] <= b[n]
         /\ \A n \in 0 .. Len(parts) : b[n] \in 0 .. Len(s)
<1>1. PICK N \in Nat : N = Len(parts) /\ \A n \in 1 .. N : parts[n] \in Seq(S) /\ Len(parts[n]) \in Nat
  BY LenProperties, ElementOfSeq
<1>2. b \in [0 .. N -> Nat] /\ b[N] = Len(s) /\ \A n \in 1 .. N : b[n] = b[n - 1] + Len(parts[n])
  BY <1>1 DEF Ends
<1> DEFINE V == {i \in Nat : \A m \in 0 .. N : m + i \in 0 .. N => b[m] <= b[m + i]}
<1>3. 0 \in V
  BY <1>2
<1>4. ASSUME NEW i \in Nat, i \in V PROVE i + 1 \in V
  <2> SUFFICES ASSUME NEW m \in 0 .. N, m + (i + 1) \in 0 .. N PROVE b[m] <= b[m + (i + 1)]
    OBVIOUS
  <2>1. m + i \in 0 .. N /\ m + (i + 1) \in 1 .. N /\ (m + (i + 1)) - 1 = m + i
    OBVIOUS
  <2>2. b[m] <= b[m + i] /\ b[m + (i + 1)] = b[m + i] + Len(parts[m + (i + 1)])
    BY <1>2, <1>4, <2>1
  <2>3. Len(parts[m + (i + 1)]) \in Nat /\ b[m] \in Nat /\ b[m + i] \in Nat
    BY <1>1, <1>2, <2>1
  <2> QED
    BY <2>2, <2>3
<1> HIDE DEF V
<1>5. Nat \subseteq V
  BY <1>3, <1>4, SetInduction
<1>6. ASSUME NEW m \in 0 .. N, NEW n \in 0 .. N, m <= n PROVE b[m] <= b[n]
  <2>1. n - m \in V /\ m + (n - m) = n
    BY <1>5, <1>6
  <2> QED
    BY <2>1 DEF V
<1>7. ASSUME NEW n \in 0 .. N PROVE b[n] \in 0 .. Len(s)
  <2>1. b[n] <= b[N] /\ b[n] \in Nat /\ b[N] \in Nat
    BY <1>2, <1>6
  <2> QED
    BY <1>2, <2>1
<1> QED
  BY <1>1, <1>6, <1>7

\* Sequences of the same elements.
LEMMA SequencesEqual ==
  ASSUME NEW S, NEW s \in Seq(S), NEW T, NEW t \in Seq(T), Len(s) = Len(t),
         \A n \in 1 .. Len(s) : s[n] = t[n]
  PROVE  s = t
OBVIOUS

===============================================================================
