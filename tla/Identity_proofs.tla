---------------------------- MODULE Identity_proofs ----------------------------
(***************************************************************************)
(* Which names are told apart.  Equal names are compared at the place of   *)
(* one separator: if the parts before it had different lengths, the        *)
(* separator of one name would stand where the other has a letter of its   *)
(* longer part.                                                            *)
(***************************************************************************)
EXTENDS Identity, SequenceTheorems, TLAPS

(***************************************************************************)
(* Splitting at a separator                                                *)
(***************************************************************************)
\* w is x, the separator and y, letter by letter.
IsJoin(w, x, sep, y) ==
  /\ Len(w) = Len(x) + 1 + Len(y)
  /\ \A n \in 1..Len(x) : w[n] = x[n]
  /\ w[Len(x) + 1] = sep
  /\ \A n \in 1..Len(y) : w[Len(x) + 1 + n] = y[n]

LEMMA JoinLetters ==
  ASSUME NEW Char, NEW sep \in Char, NEW x \in Seq(Char), NEW y \in Seq(Char)
  PROVE  /\ x \o <<sep>> \o y \in Seq(Char)
         /\ IsJoin(x \o <<sep>> \o y, x, sep, y)
<1> DEFINE c == <<sep>>
           xc == x \o c
           w == xc \o y
<1>0. Len(x) \in Nat /\ Len(y) \in Nat
  BY LenProperties
<1>1. c \in Seq(Char) /\ Len(c) = 1 /\ c[1] = sep
  OBVIOUS
<1> HIDE DEF c
<1>2. /\ xc \in Seq(Char)
      /\ Len(xc) = Len(x) + Len(c)
      /\ \A n \in 1..Len(x) + Len(c) :
           xc[n] = IF n <= Len(x) THEN x[n] ELSE c[n - Len(x)]
  BY <1>1, ConcatProperties
<1> HIDE DEF xc
<1>3. /\ w \in Seq(Char)
      /\ Len(w) = Len(xc) + Len(y)
      /\ \A n \in 1..Len(xc) + Len(y) :
           w[n] = IF n <= Len(xc) THEN xc[n] ELSE y[n - Len(xc)]
  <2>1. xc \in Seq(Char)
    BY <1>2
  <2> QED
    BY <2>1, ConcatProperties
<1> HIDE DEF w
<1>4. Len(xc) = Len(x) + 1
  BY <1>1, <1>2
<1>5. \A n \in 1..Len(x) : w[n] = x[n]
  BY <1>0, <1>1, <1>2, <1>3, <1>4
<1>6. w[Len(x) + 1] = sep
  BY <1>0, <1>1, <1>2, <1>3, <1>4
<1>7. \A n \in 1..Len(y) : w[Len(x) + 1 + n] = y[n]
  <2> SUFFICES ASSUME NEW n \in 1..Len(y)
               PROVE  w[Len(x) + 1 + n] = y[n]
    OBVIOUS
  <2>1. /\ Len(x) + 1 + n \in 1..Len(xc) + Len(y)
        /\ ~ Len(x) + 1 + n <= Len(xc)
        /\ Len(x) + 1 + n - Len(xc) = n
    BY <1>0, <1>4
  <2> QED
    BY <1>3, <2>1
<1>8. IsJoin(w, x, sep, y)
  BY <1>0, <1>3, <1>4, <1>5, <1>6, <1>7 DEF IsJoin
<1> QED
  BY <1>3, <1>8 DEF w, xc, c

\* If the separator stands at the same place, the parts are the same.
LEMMA SamePlace ==
  ASSUME NEW Char, NEW sep, NEW w,
         NEW x \in Seq(Char), NEW y \in Seq(Char),
         NEW u \in Seq(Char), NEW v \in Seq(Char),
         IsJoin(w, x, sep, y), IsJoin(w, u, sep, v), Len(x) = Len(u)
  PROVE  x = u /\ y = v
<1>0. Len(x) \in Nat /\ Len(y) \in Nat /\ Len(v) \in Nat
  BY LenProperties
<1>1. x = u
  <2>1. \A n \in 1..Len(x) : x[n] = u[n]
    BY DEF IsJoin
  <2> QED
    BY <2>1, SeqEqual
<1>2. y = v
  <2>1. Len(y) = Len(v)
    BY <1>0 DEF IsJoin
  <2>2. \A n \in 1..Len(y) : y[n] = v[n]
    BY <2>1 DEF IsJoin
  <2> QED
    BY <2>1, <2>2, SeqEqual
<1> QED
  BY <1>1, <1>2

\* If it does not, the longer of the first parts goes on with the separator,
\* and so does one of the second parts contain it.
LEMMA OtherPlace ==
  ASSUME NEW Char, NEW sep, NEW w,
         NEW x \in Seq(Char), NEW y \in Seq(Char),
         NEW u \in Seq(Char), NEW v \in Seq(Char),
         IsJoin(w, x, sep, y), IsJoin(w, u, sep, v), Len(x) < Len(u)
  PROVE  /\ u[Len(x) + 1] = sep
         /\ \A n \in 1..Len(x) : u[n] = x[n]
         /\ \E n \in 1..Len(y) : y[n] = sep
<1>0. Len(x) \in Nat /\ Len(y) \in Nat /\ Len(u) \in Nat /\ Len(v) \in Nat
  BY LenProperties
<1>1. u[Len(x) + 1] = sep /\ \A n \in 1..Len(x) : u[n] = x[n]
  <2>1. Len(x) + 1 \in 1..Len(u) /\ \A n \in 1..Len(x) : n \in 1..Len(u)
    BY <1>0
  <2> QED
    BY <2>1 DEF IsJoin
<1>2. \E n \in 1..Len(y) : y[n] = sep
  <2> DEFINE m == Len(u) - Len(x)
  <2>1. m \in 1..Len(y) /\ Len(x) + 1 + m = Len(u) + 1
    BY <1>0 DEF IsJoin
  <2> HIDE DEF m
  <2>2. y[m] = sep
    BY <2>1 DEF IsJoin
  <2> QED
    BY <2>1, <2>2
<1> QED
  BY <1>1, <1>2

\* What stands before the first separator is told apart.
LEMMA FirstSplit ==
  ASSUME NEW Char, NEW sep \in Char
  PROVE  \A x, u \in Seq(Char \ {sep}), y, v \in Seq(Char) :
           x \o <<sep>> \o y = u \o <<sep>> \o v => x = u /\ y = v
<1> SUFFICES ASSUME NEW x \in Seq(Char \ {sep}), NEW u \in Seq(Char \ {sep}),
                    NEW y \in Seq(Char), NEW v \in Seq(Char),
                    x \o <<sep>> \o y = u \o <<sep>> \o v
             PROVE  x = u /\ y = v
  OBVIOUS
<1> DEFINE w == x \o <<sep>> \o y
<1>0. /\ x \in Seq(Char) /\ u \in Seq(Char)
      /\ Len(x) \in Nat /\ Len(u) \in Nat
      /\ \A n \in 1..Len(x) : x[n] # sep
      /\ \A n \in 1..Len(u) : u[n] # sep
  BY SeqMonotonic, LenProperties, ElementOfSeq
<1>1. IsJoin(w, x, sep, y)
  BY <1>0, JoinLetters
<1>2. IsJoin(u \o <<sep>> \o v, u, sep, v)
  BY <1>0, JoinLetters
<1>3. IsJoin(w, u, sep, v)
  BY <1>2
<1> HIDE DEF w
<1>4. CASE Len(x) = Len(u)
  BY <1>0, <1>1, <1>3, <1>4, SamePlace
<1>5. CASE Len(x) < Len(u)
  <2>1. u[Len(x) + 1] = sep
    BY <1>0, <1>1, <1>3, <1>5, OtherPlace
  <2> QED
    BY <1>0, <1>5, <2>1
<1>6. CASE Len(u) < Len(x)
  <2>1. x[Len(u) + 1] = sep
    BY <1>0, <1>1, <1>3, <1>6, OtherPlace
  <2> QED
    BY <1>0, <1>6, <2>1
<1> QED
  BY <1>0, <1>4, <1>5, <1>6

\* What stands after the last separator is told apart.
LEMMA LastSplit ==
  ASSUME NEW Char, NEW sep \in Char
  PROVE  \A x, u \in Seq(Char), y, v \in Seq(Char \ {sep}) :
           x \o <<sep>> \o y = u \o <<sep>> \o v => x = u /\ y = v
<1> SUFFICES ASSUME NEW x \in Seq(Char), NEW u \in Seq(Char),
                    NEW y \in Seq(Char \ {sep}), NEW v \in Seq(Char \ {sep}),
                    x \o <<sep>> \o y = u \o <<sep>> \o v
             PROVE  x = u /\ y = v
  OBVIOUS
<1> DEFINE w == x \o <<sep>> \o y
<1>0. /\ y \in Seq(Char) /\ v \in Seq(Char)
      /\ Len(x) \in Nat /\ Len(u) \in Nat
      /\ \A n \in 1..Len(y) : y[n] # sep
      /\ \A n \in 1..Len(v) : v[n] # sep
  BY SeqMonotonic, LenProperties, ElementOfSeq
<1>1. IsJoin(w, x, sep, y)
  BY <1>0, JoinLetters
<1>2. IsJoin(u \o <<sep>> \o v, u, sep, v)
  BY <1>0, JoinLetters
<1>3. IsJoin(w, u, sep, v)
  BY <1>2
<1> HIDE DEF w
<1>4. CASE Len(x) = Len(u)
  BY <1>0, <1>1, <1>3, <1>4, SamePlace
<1>5. CASE Len(x) < Len(u)
  <2>1. \E n \in 1..Len(y) : y[n] = sep
    BY <1>0, <1>1, <1>3, <1>5, OtherPlace
  <2> QED
    BY <1>0, <2>1
<1>6. CASE Len(u) < Len(x)
  <2>1. \E n \in 1..Len(v) : v[n] = sep
    BY <1>0, <1>1, <1>3, <1>6, OtherPlace
  <2> QED
    BY <1>0, <2>1
<1> QED
  BY <1>0, <1>4, <1>5, <1>6

\* What is known of concatenation, for all parts at once.
LEMMA ConcatFacts ==
  ASSUME NEW Char
  PROVE  /\ \A r, s \in Seq(Char) : r \o s \in Seq(Char)
         /\ \A r, s, t \in Seq(Char) : (r \o s) \o t = r \o (s \o t)
         /\ \A r, s, t \in Seq(Char) : r \o s = r \o t => s = t
<1>1. \A r, s \in Seq(Char) : r \o s \in Seq(Char)
  BY ConcatProperties
<1>2. \A r, s, t \in Seq(Char) : (r \o s) \o t = r \o (s \o t)
  BY ConcatAssociative
<1>3. \A r, s, t \in Seq(Char) : r \o s = r \o t => s = t
  BY ConcatSimplifications
<1> QED
  BY <1>1, <1>2, <1>3

(***************************************************************************)
(* The IDs with colons                                                     *)
(***************************************************************************)
\* Three parts after a prefix p, as one concatenation and split from the left.
Flat(p, x, c, y, z) == p \o x \o c \o y \o c \o z

Nested(p, x, c, y, z) == p \o (x \o c \o (y \o c \o z))

LEMMA Regroup ==
  ASSUME NEW Char
  PROVE  \A p, x, c, y, z \in Seq(Char) :
           Flat(p, x, c, y, z) = Nested(p, x, c, y, z)
<1> SUFFICES ASSUME NEW p \in Seq(Char), NEW x \in Seq(Char), NEW c \in Seq(Char),
                    NEW y \in Seq(Char), NEW z \in Seq(Char)
             PROVE  p \o x \o c \o y \o c \o z = p \o (x \o c \o (y \o c \o z))
  BY DEF Flat, Nested
<1> DEFINE Str == Seq(Char)
           Cat(r, s) == r \o s
<1>1. /\ \A r, s \in Str : Cat(r, s) \in Str
      /\ \A r, s, t \in Str : Cat(Cat(r, s), t) = Cat(r, Cat(s, t))
  BY ConcatFacts
<1>2. p \in Str /\ x \in Str /\ c \in Str /\ y \in Str /\ z \in Str
  OBVIOUS
<1> HIDE DEF Str, Cat
<1> DEFINE px == Cat(p, x)
           pxc == Cat(px, c)
           pxcy == Cat(pxc, y)
           yc == Cat(y, c)
<1>3. px \in Str /\ pxc \in Str /\ pxcy \in Str /\ yc \in Str /\ Cat(yc, z) \in Str
  BY <1>1, <1>2
<1>9. Cat(px, c) = pxc /\ Cat(pxc, y) = pxcy /\ yc = Cat(y, c)
  OBVIOUS
<1> HIDE DEF pxcy, pxc, yc
<1>4. Cat(pxcy, c) = Cat(pxc, yc)
    BY <1>1, <1>2, <1>3, <1>9
<1>5. Cat(Cat(pxc, yc), z) = Cat(pxc, Cat(yc, z))
  BY <1>1, <1>2, <1>3
<1>6. pxc = Cat(p, Cat(x, c)) /\ Cat(x, c) \in Str
  BY <1>1, <1>2 DEF pxc
<1>7. Cat(Cat(p, Cat(x, c)), Cat(yc, z)) = Cat(p, Cat(Cat(x, c), Cat(yc, z)))
  BY <1>1, <1>2, <1>3, <1>6
<1> QED
  BY <1>4, <1>5, <1>6, <1>7 DEF Cat, pxcy, pxc, yc

LEMMA JoinedApart ==
  ASSUME NEW Char, NEW word \in Char, Colon \in Char
  PROVE  \A x, y, u, v \in Seq(Char \ {Colon}), z, t \in Seq(Char) :
           Joined(word, x, y, z) = Joined(word, u, v, t)
             => x = u /\ y = v /\ z = t
<1> DEFINE Str == Seq(Char)
           NoColon == Seq(Char \ {Colon})
           p == <<word, Colon>>
           Join(r, s) == r \o <<Colon>> \o s
           Cat(r, s) == r \o s
<1>1. p \in Str /\ <<Colon>> \in Str
  OBVIOUS
<1>2. \A r, s \in Str : Join(r, s) \in Str
  BY JoinLetters
<1>3. \A x, u \in NoColon, y, v \in Str :
        Join(x, y) = Join(u, v) => x = u /\ y = v
  BY FirstSplit
<1>4. \A r, s, t \in Str : Cat(r, s) = Cat(r, t) => s = t
  BY ConcatFacts
<1>5. ASSUME NEW x \in Str, NEW y \in Str, NEW z \in Str
      PROVE  Joined(word, x, y, z) = Cat(p, Join(x, Join(y, z)))
  <2> DEFINE c == <<Colon>>
  <2>1. Joined(word, x, y, z) = Flat(p, x, c, y, z)
    BY DEF Joined, Flat
  <2>2. Cat(p, Join(x, Join(y, z))) = Nested(p, x, c, y, z)
    BY DEF Nested
  <2>3. \A p_, x_, c_, y_, z_ \in Str :
          Flat(p_, x_, c_, y_, z_) = Nested(p_, x_, c_, y_, z_)
    BY Regroup
  <2>4. p \in Str /\ c \in Str
    BY <1>1
  <2> HIDE DEF p, c, Str, Join, Cat
  <2> QED
    BY <2>1, <2>2, <2>3, <2>4
<1>6. \A x \in NoColon : x \in Str
  BY SeqMonotonic
<1> TAKE x, y, u, v \in Seq(Char \ {Colon}), z, t \in Seq(Char)
<1> HAVE Joined(word, x, y, z) = Joined(word, u, v, t)
<1>0. /\ x \in NoColon /\ y \in NoColon /\ u \in NoColon /\ v \in NoColon
      /\ z \in Str /\ t \in Str
  OBVIOUS
<1> HIDE DEF Str, NoColon, p, Join, Cat
<1>7. x \in Str /\ y \in Str /\ u \in Str /\ v \in Str
  BY <1>0, <1>6
<1>8. Cat(p, Join(x, Join(y, z))) = Cat(p, Join(u, Join(v, t)))
  BY <1>0, <1>5, <1>7
<1>9. /\ Join(y, z) \in Str /\ Join(x, Join(y, z)) \in Str
      /\ Join(v, t) \in Str /\ Join(u, Join(v, t)) \in Str
  BY <1>0, <1>2, <1>7
<1>10. Join(x, Join(y, z)) = Join(u, Join(v, t))
  BY <1>1, <1>4, <1>8, <1>9
<1>11. x = u /\ Join(y, z) = Join(v, t)
  BY <1>0, <1>3, <1>9, <1>10
<1>12. y = v /\ z = t
  BY <1>0, <1>3, <1>11
<1> QED
  BY <1>11, <1>12

\* Two rows share a key only if they are the same row, as long as the days and
\* the team IDs have no colon; the service, which comes from the bill, may
\* have any letters (rollup.go:22-24).
THEOREM RollupKeysDiffer ==
  ASSUME NEW Char, Words \cup {Colon} \subseteq Char,
         NEW d1 \in Seq(Char \ {Colon}), NEW d2 \in Seq(Char \ {Colon}),
         NEW t1 \in Seq(Char \ {Colon}), NEW t2 \in Seq(Char \ {Colon}),
         NEW s1 \in Seq(Char), NEW s2 \in Seq(Char),
         RollupKey(d1, t1, s1) = RollupKey(d2, t2, s2)
  PROVE  d1 = d2 /\ t1 = t2 /\ s1 = s2
<1>1. "rollup" \in Char /\ Colon \in Char
  BY DEF Words
<1>2. Joined("rollup", d1, t1, s1) = Joined("rollup", d2, t2, s2)
  BY DEF RollupKey
<1> DEFINE Str == Seq(Char)
           NoColon == Seq(Char \ {Colon})
<1>3. \A x, y, u, v \in NoColon, z, w \in Str :
        Joined("rollup", x, y, z) = Joined("rollup", u, v, w) => x = u /\ y = v /\ z = w
  BY <1>1, JoinedApart
<1>4. /\ d1 \in NoColon /\ d2 \in NoColon /\ t1 \in NoColon /\ t2 \in NoColon
      /\ s1 \in Str /\ s2 \in Str
  OBVIOUS
<1> HIDE DEF Str, NoColon
<1> QED
  BY <1>2, <1>3, <1>4

\* The same for the markers of anomalies (anomaly.go:42-44): the detection of
\* one row is never taken for a duplicate of another row's.
THEOREM MarkersDiffer ==
  ASSUME NEW Char, Words \cup {Colon} \subseteq Char,
         NEW d1 \in Seq(Char \ {Colon}), NEW d2 \in Seq(Char \ {Colon}),
         NEW t1 \in Seq(Char \ {Colon}), NEW t2 \in Seq(Char \ {Colon}),
         NEW s1 \in Seq(Char), NEW s2 \in Seq(Char),
         AnomalyID(d1, t1, s1) = AnomalyID(d2, t2, s2)
  PROVE  d1 = d2 /\ t1 = t2 /\ s1 = s2
<1>1. "anomaly" \in Char /\ Colon \in Char
  BY DEF Words
<1>2. Joined("anomaly", d1, t1, s1) = Joined("anomaly", d2, t2, s2)
  BY DEF AnomalyID
<1> DEFINE Str == Seq(Char)
           NoColon == Seq(Char \ {Colon})
<1>3. \A x, y, u, v \in NoColon, z, w \in Str :
        Joined("anomaly", x, y, z) = Joined("anomaly", u, v, w) => x = u /\ y = v /\ z = w
  BY <1>1, JoinedApart
<1>4. /\ d1 \in NoColon /\ d2 \in NoColon /\ t1 \in NoColon /\ t2 \in NoColon
      /\ s1 \in Str /\ s2 \in Str
  OBVIOUS
<1> HIDE DEF Str, NoColon
<1> QED
  BY <1>2, <1>3, <1>4

(***************************************************************************)
(* The instance IDs, with dashes only                                      *)
(***************************************************************************)
\* w is four letters, then the parts x, y and z with dashes between them.
Spelt(w, x, y, z) ==
  /\ Len(w) = Len(x) + Len(y) + Len(z) + 6
  /\ \A n \in 1..Len(x) : w[4 + n] = x[n]
  /\ w[5 + Len(x)] = Dash
  /\ \A n \in 1..Len(y) : w[5 + Len(x) + n] = y[n]
  /\ w[6 + Len(x) + Len(y)] = Dash
  /\ \A n \in 1..Len(z) : w[6 + Len(x) + Len(y) + n] = z[n]

\* w is two letters, then the parts x, y and z with colons between them.
Coloned(w, x, y, z) ==
  /\ Len(w) = Len(x) + Len(y) + Len(z) + 4
  /\ \A n \in 1..Len(x) : w[2 + n] = x[n]
  /\ w[3 + Len(x)] = Colon
  /\ \A n \in 1..Len(y) : w[3 + Len(x) + n] = y[n]
  /\ w[4 + Len(x) + Len(y)] = Colon
  /\ \A n \in 1..Len(z) : w[4 + Len(x) + Len(y) + n] = z[n]

LEMMA JoinedLetters ==
  ASSUME NEW Char, NEW word \in Char, Colon \in Char,
         NEW x \in Seq(Char), NEW y \in Seq(Char), NEW z \in Seq(Char)
  PROVE  /\ Joined(word, x, y, z) \in Seq(Char)
         /\ Coloned(Joined(word, x, y, z), x, y, z)
<1> DEFINE p == <<word, Colon>>
           px == p \o x
           pxy == px \o <<Colon>> \o y
           w == pxy \o <<Colon>> \o z
<1>0. Len(x) \in Nat /\ Len(y) \in Nat /\ Len(z) \in Nat
  BY LenProperties
<1>1. w = Joined(word, x, y, z)
  BY DEF Joined
<1>2. p \in Seq(Char) /\ Len(p) = 2
  OBVIOUS
<1> HIDE DEF p
<1>3. /\ px \in Seq(Char)
      /\ Len(px) = Len(p) + Len(x)
      /\ \A n \in 1..Len(p) + Len(x) :
           px[n] = IF n <= Len(p) THEN p[n] ELSE x[n - Len(p)]
  BY <1>2, ConcatProperties
<1> HIDE DEF px
<1>4. pxy \in Seq(Char) /\ IsJoin(pxy, px, Colon, y)
  BY <1>3, JoinLetters
<1> HIDE DEF pxy
<1>5. w \in Seq(Char) /\ IsJoin(w, pxy, Colon, z)
  BY <1>4, JoinLetters
<1> HIDE DEF w
<1>6. Len(px) = 2 + Len(x) /\ Len(pxy) = 3 + Len(x) + Len(y)
  BY <1>0, <1>2, <1>3, <1>4 DEF IsJoin
<1>7. Len(w) = Len(x) + Len(y) + Len(z) + 4
  BY <1>0, <1>5, <1>6 DEF IsJoin
<1>8. \A n \in 1..Len(pxy) : w[n] = pxy[n]
  BY <1>5 DEF IsJoin
<1>9. \A n \in 1..Len(x) : w[2 + n] = x[n]
  <2> TAKE n \in 1..Len(x)
  <2>1. /\ 2 + n \in 1..Len(pxy) /\ 2 + n \in 1..Len(px)
        /\ 2 + n \in 1..Len(p) + Len(x) /\ ~ 2 + n <= Len(p) /\ 2 + n - Len(p) = n
    BY <1>0, <1>2, <1>6
  <2>2. w[2 + n] = pxy[2 + n] /\ pxy[2 + n] = px[2 + n]
    BY <1>4, <1>8, <2>1 DEF IsJoin
  <2>3. px[2 + n] = x[n]
    BY <1>3, <2>1
  <2> QED
    BY <2>2, <2>3
<1>10. w[3 + Len(x)] = Colon
  <2>1. 3 + Len(x) \in 1..Len(pxy) /\ Len(px) + 1 = 3 + Len(x)
    BY <1>0, <1>6
  <2> QED
    BY <1>4, <1>8, <2>1 DEF IsJoin
<1>11. \A n \in 1..Len(y) : w[3 + Len(x) + n] = y[n]
  <2> TAKE n \in 1..Len(y)
  <2>1. /\ 3 + Len(x) + n \in 1..Len(pxy)
        /\ Len(px) + 1 + n = 3 + Len(x) + n
    BY <1>0, <1>6
  <2>2. pxy[Len(px) + 1 + n] = y[n]
    BY <1>4 DEF IsJoin
  <2> QED
    BY <1>8, <2>1, <2>2
<1>12. w[4 + Len(x) + Len(y)] = Colon
  <2>1. Len(pxy) + 1 = 4 + Len(x) + Len(y)
    BY <1>0, <1>6
  <2> QED
    BY <1>5, <2>1 DEF IsJoin
<1>13. \A n \in 1..Len(z) : w[4 + Len(x) + Len(y) + n] = z[n]
  <2> TAKE n \in 1..Len(z)
  <2>1. Len(pxy) + 1 + n = 4 + Len(x) + Len(y) + n
    BY <1>0, <1>6
  <2> QED
    BY <1>5, <2>1 DEF IsJoin
<1> QED
  BY <1>1, <1>5, <1>7, <1>9, <1>10, <1>11, <1>12, <1>13 DEF Coloned

\* A colon becomes a dash and no other letter changes, so an instance ID has
\* the letters of parts that have no colon, two places later.
LEMMA InstanceLetters ==
  ASSUME NEW Char, NEW word \in Char, NEW front \in Char,
         Colon \in Char, Dash \in Char,
         NEW x \in Seq(Char \ {Colon}), NEW y \in Seq(Char \ {Colon}),
         NEW z \in Seq(Char \ {Colon})
  PROVE  Spelt(<<front, Dash>> \o ReplaceAll(Joined(word, x, y, z)), x, y, z)
<1> DEFINE j == Joined(word, x, y, z)
           r == ReplaceAll(j)
           f == <<front, Dash>>
           w == f \o r
<1>0. /\ x \in Seq(Char) /\ y \in Seq(Char) /\ z \in Seq(Char)
      /\ Len(x) \in Nat /\ Len(y) \in Nat /\ Len(z) \in Nat
  BY SeqMonotonic, LenProperties
<1>a. j \in Seq(Char) /\ Coloned(j, x, y, z)
  BY <1>0, JoinedLetters
<1>1. /\ Len(j) = Len(x) + Len(y) + Len(z) + 4
      /\ \A n \in 1..Len(x) : j[2 + n] = x[n]
      /\ j[3 + Len(x)] = Colon
      /\ \A n \in 1..Len(y) : j[3 + Len(x) + n] = y[n]
      /\ j[4 + Len(x) + Len(y)] = Colon
      /\ \A n \in 1..Len(z) : j[4 + Len(x) + Len(y) + n] = z[n]
  BY <1>a DEF Coloned
<1>2. /\ \A n \in 1..Len(x) : x[n] # Colon
      /\ \A n \in 1..Len(y) : y[n] # Colon
      /\ \A n \in 1..Len(z) : z[n] # Colon
  BY ElementOfSeq
<1> HIDE DEF j
<1>3. Len(j) \in Nat /\ \A n \in 1..Len(j) : j[n] \in Char
  BY <1>a, LenProperties, ElementOfSeq
<1>4. /\ r \in Seq(Char) /\ Len(r) = Len(j)
      /\ \A n \in 1..Len(j) : r[n] = IF j[n] = Colon THEN Dash ELSE j[n]
  <2>1. r = [n \in 1..Len(j) |-> IF j[n] = Colon THEN Dash ELSE j[n]]
    BY DEF ReplaceAll
  <2>2. \A n \in 1..Len(j) : (IF j[n] = Colon THEN Dash ELSE j[n]) \in Char
    BY <1>3
  <2> HIDE DEF r
  <2>3. r \in [1..Len(j) -> Char]
    BY <2>1, <2>2
  <2>4. r \in Seq(Char)
    BY <1>3, <2>3, IsASeq
  <2>5. Len(r) = Len(j)
    BY <1>3, <2>3, <2>4, LenProperties
  <2> QED
    BY <2>1, <2>4, <2>5
<1>5. f \in Seq(Char) /\ Len(f) = 2
  OBVIOUS
<1> HIDE DEF r, f
<1>6. /\ Len(w) = Len(f) + Len(r)
      /\ \A n \in 1..Len(f) + Len(r) :
           w[n] = IF n <= Len(f) THEN f[n] ELSE r[n - Len(f)]
  <2>1. f \in Seq(Char) /\ r \in Seq(Char)
    BY <1>4, <1>5
  <2> QED
    BY <2>1, ConcatProperties
<1> HIDE DEF w
<1>7. \A n \in 1..Len(j) : w[2 + n] = IF j[n] = Colon THEN Dash ELSE j[n]
  <2> TAKE n \in 1..Len(j)
  <2>1. 2 + n \in 1..Len(f) + Len(r) /\ ~ 2 + n <= Len(f) /\ 2 + n - Len(f) = n
    BY <1>3, <1>4, <1>5
  <2> QED
    BY <1>4, <1>6, <2>1
<1>8. \A n \in 1..Len(x) : w[4 + n] = x[n]
  <2> TAKE n \in 1..Len(x)
  <2>1. 2 + n \in 1..Len(j) /\ 2 + (2 + n) = 4 + n
    BY <1>0, <1>1
  <2> QED
    BY <1>1, <1>2, <1>7, <2>1
<1>9. \A n \in 1..Len(y) : w[5 + Len(x) + n] = y[n]
  <2> TAKE n \in 1..Len(y)
  <2>1. 3 + Len(x) + n \in 1..Len(j) /\ 2 + (3 + Len(x) + n) = 5 + Len(x) + n
    BY <1>0, <1>1
  <2> QED
    BY <1>1, <1>2, <1>7, <2>1
<1>10. \A n \in 1..Len(z) : w[6 + Len(x) + Len(y) + n] = z[n]
  <2> TAKE n \in 1..Len(z)
  <2>1. /\ 4 + Len(x) + Len(y) + n \in 1..Len(j)
        /\ 2 + (4 + Len(x) + Len(y) + n) = 6 + Len(x) + Len(y) + n
    BY <1>0, <1>1
  <2> QED
    BY <1>1, <1>2, <1>7, <2>1
<1>11. w[5 + Len(x)] = Dash /\ w[6 + Len(x) + Len(y)] = Dash
  <2>1. /\ 3 + Len(x) \in 1..Len(j) /\ 2 + (3 + Len(x)) = 5 + Len(x)
        /\ 4 + Len(x) + Len(y) \in 1..Len(j)
        /\ 2 + (4 + Len(x) + Len(y)) = 6 + Len(x) + Len(y)
    BY <1>0, <1>1
  <2> QED
    BY <1>1, <1>7, <2>1
<1>12. Len(w) = Len(x) + Len(y) + Len(z) + 6
  BY <1>0, <1>1, <1>4, <1>5, <1>6
<1> QED
  BY <1>8, <1>9, <1>10, <1>11, <1>12 DEF Spelt, w, f, r, j

\* If the third part ends where no dash is, it is the whole of what follows
\* the last dash.
LEMMA LastPart ==
  ASSUME NEW Char, NEW w,
         NEW x \in Seq(Char), NEW y \in Seq(Char), NEW z \in Seq(Char),
         NEW u \in Seq(Char), NEW v \in Seq(Char), NEW t \in Seq(Char),
         \A n \in 1..Len(z) : z[n] # Dash,
         \A n \in 1..Len(t) : t[n] # Dash,
         Spelt(w, x, y, z), Spelt(w, u, v, t)
  PROVE  z = t /\ Len(x) + Len(y) = Len(u) + Len(v)
<1>0. /\ Len(x) \in Nat /\ Len(y) \in Nat /\ Len(z) \in Nat
      /\ Len(u) \in Nat /\ Len(v) \in Nat /\ Len(t) \in Nat
  BY LenProperties
<1> DEFINE a == Len(x) + Len(y)
           b == Len(u) + Len(v)
<1>1. a \in Nat /\ b \in Nat /\ a + Len(z) = b + Len(t)
  <2>1. /\ Len(w) = Len(x) + Len(y) + Len(z) + 6
        /\ Len(w) = Len(u) + Len(v) + Len(t) + 6
    BY DEF Spelt
  <2> QED
    BY <1>0, <2>1
<1>2. /\ w[6 + a] = Dash /\ \A n \in 1..Len(z) : w[6 + a + n] = z[n]
      /\ w[6 + b] = Dash /\ \A n \in 1..Len(t) : w[6 + b + n] = t[n]
  <2>1. 6 + a = 6 + Len(x) + Len(y) /\ 6 + b = 6 + Len(u) + Len(v)
    BY <1>0
  <2> HIDE DEF a, b
  <2> QED
    BY <2>1 DEF Spelt
<1> HIDE DEF a, b
<1>3. ~ a < b
  <2> SUFFICES ASSUME a < b PROVE FALSE
    OBVIOUS
  <2>1. b - a \in 1..Len(z) /\ 6 + a + (b - a) = 6 + b
    BY <1>0, <1>1
  <2> QED
    BY <1>0, <1>2, <2>1
<1>4. ~ b < a
  <2> SUFFICES ASSUME b < a PROVE FALSE
    OBVIOUS
  <2>1. a - b \in 1..Len(t) /\ 6 + b + (a - b) = 6 + a
    BY <1>0, <1>1
  <2> QED
    BY <1>0, <1>2, <2>1
<1>5. a = b /\ Len(z) = Len(t)
  BY <1>0, <1>1, <1>3, <1>4
<1>6. \A n \in 1..Len(z) : z[n] = t[n]
  BY <1>2, <1>5
<1>7. z = t
  BY <1>0, <1>5, <1>6, SeqEqual
<1> QED
  BY <1>5, <1>7 DEF a, b

\* Parts of the same lengths have the same letters.
LEMMA SameLengths ==
  ASSUME NEW Char, NEW w,
         NEW x \in Seq(Char), NEW y \in Seq(Char), NEW z,
         NEW u \in Seq(Char), NEW v \in Seq(Char), NEW t,
         Spelt(w, x, y, z), Spelt(w, u, v, t),
         Len(x) = Len(u), Len(y) = Len(v)
  PROVE  x = u /\ y = v
<1>1. \A n \in 1..Len(x) : x[n] = u[n]
  BY DEF Spelt
<1>2. \A n \in 1..Len(y) : y[n] = v[n]
  BY DEF Spelt
<1> QED
  BY <1>1, <1>2, SeqEqual

\* Two anomalies get one instance ID, and the second is answered as a duplicate
\* that nobody triages, only if they are the same row: for days of one length,
\* days and teams without a colon, and services without a colon and without a
\* dash, as all of knownServices are (main.go:1272-1276, rollup-svc/main.go:30).
\* With dashes in both, "a-b" with "c" and "a" with "b-c" share an ID.
THEOREM TriageInstancesDiffer ==
  ASSUME NEW Char, Words \cup {Colon, Dash} \subseteq Char,
         NEW d1 \in Seq(Char \ {Colon}), NEW d2 \in Seq(Char \ {Colon}),
         NEW t1 \in Seq(Char \ {Colon}), NEW t2 \in Seq(Char \ {Colon}),
         NEW s1 \in Seq(Char \ {Colon, Dash}), NEW s2 \in Seq(Char \ {Colon, Dash}),
         workflowInstanceID(d1, t1, s1) = workflowInstanceID(d2, t2, s2)
  PROVE  /\ s1 = s2
         /\ Len(d1) = Len(d2) => d1 = d2 /\ t1 = t2
<1> DEFINE w == workflowInstanceID(d1, t1, s1)
<1>1. /\ "anomaly" \in Char /\ "triage" \in Char
      /\ Colon \in Char /\ Dash \in Char
  BY DEF Words
<1>2. /\ s1 \in Seq(Char \ {Colon}) /\ s2 \in Seq(Char \ {Colon})
      /\ s1 \in Seq(Char) /\ s2 \in Seq(Char)
      /\ \A n \in 1..Len(s1) : s1[n] # Dash
      /\ \A n \in 1..Len(s2) : s2[n] # Dash
      /\ d1 \in Seq(Char) /\ d2 \in Seq(Char)
      /\ t1 \in Seq(Char) /\ t2 \in Seq(Char)
  BY SeqMonotonic, ElementOfSeq
<1>3. Spelt(w, d1, t1, s1)
  BY <1>1, <1>2, InstanceLetters DEF workflowInstanceID, AnomalyID
<1>4. Spelt(workflowInstanceID(d2, t2, s2), d2, t2, s2)
  BY <1>1, <1>2, InstanceLetters DEF workflowInstanceID, AnomalyID
<1>5. Spelt(w, d2, t2, s2)
  BY <1>4
<1> HIDE DEF w
<1>6. s1 = s2 /\ Len(d1) + Len(t1) = Len(d2) + Len(t2)
  BY <1>2, <1>3, <1>5, LastPart
<1>7. ASSUME Len(d1) = Len(d2) PROVE d1 = d2 /\ t1 = t2
  <2>1. Len(d1) \in Nat /\ Len(t1) \in Nat /\ Len(t2) \in Nat
    BY <1>2, LenProperties
  <2>2. Len(t1) = Len(t2)
    BY <1>6, <1>7, <2>1
  <2> QED
    BY <1>2, <1>3, <1>5, <1>7, <2>2, SameLengths
<1> QED
  BY <1>6, <1>7

\* Two suggestions get one instance ID only if they are the same: for teams and
\* resources without a colon, actions ("delete", "downsize", "stop") without a
\* dash either, and teams of which none is another one continued by a dash
\* (main.go:1278-1283, optimisation.go:27-32).
THEOREM OptimisationInstancesDiffer ==
  ASSUME NEW Char, Words \cup {Colon, Dash} \subseteq Char,
         NEW t1 \in Seq(Char \ {Colon}), NEW t2 \in Seq(Char \ {Colon}),
         NEW r1 \in Seq(Char \ {Colon}), NEW r2 \in Seq(Char \ {Colon}),
         NEW a1 \in Seq(Char \ {Colon, Dash}), NEW a2 \in Seq(Char \ {Colon, Dash}),
         ~ Continues(t1, t2), ~ Continues(t2, t1),
         optimisationInstanceID(t1, r1, a1) = optimisationInstanceID(t2, r2, a2)
  PROVE  t1 = t2 /\ r1 = r2 /\ a1 = a2
<1> DEFINE w == optimisationInstanceID(t1, r1, a1)
<1>1. /\ "optimisation" \in Char /\ "opt" \in Char
      /\ Colon \in Char /\ Dash \in Char
  BY DEF Words
<1>2. /\ a1 \in Seq(Char \ {Colon}) /\ a2 \in Seq(Char \ {Colon})
      /\ a1 \in Seq(Char) /\ a2 \in Seq(Char)
      /\ \A n \in 1..Len(a1) : a1[n] # Dash
      /\ \A n \in 1..Len(a2) : a2[n] # Dash
      /\ t1 \in Seq(Char) /\ t2 \in Seq(Char)
      /\ r1 \in Seq(Char) /\ r2 \in Seq(Char)
  BY SeqMonotonic, ElementOfSeq
<1>3. Spelt(w, t1, r1, a1)
  BY <1>1, <1>2, InstanceLetters DEF optimisationInstanceID, IdleResourceID
<1>4. Spelt(optimisationInstanceID(t2, r2, a2), t2, r2, a2)
  BY <1>1, <1>2, InstanceLetters DEF optimisationInstanceID, IdleResourceID
<1>5. Spelt(w, t2, r2, a2)
  BY <1>4
<1> HIDE DEF w
<1>6. a1 = a2 /\ Len(t1) + Len(r1) = Len(t2) + Len(r2)
  BY <1>2, <1>3, <1>5, LastPart
<1>7. /\ Len(t1) \in Nat /\ Len(t2) \in Nat
      /\ Len(r1) \in Nat /\ Len(r2) \in Nat
  BY <1>2, LenProperties
<1>8. ~ Len(t1) < Len(t2)
  <2> SUFFICES ASSUME Len(t1) < Len(t2) PROVE FALSE
    OBVIOUS
  <2>1. Len(t1) + 1 \in 1..Len(t2) /\ 4 + (Len(t1) + 1) = 5 + Len(t1)
    BY <1>7
  <2>2. t2[Len(t1) + 1] = Dash
    BY <1>3, <1>5, <2>1 DEF Spelt
  <2>3. \A n \in 1..Len(t1) : t2[n] = t1[n]
    <3>1. \A n \in 1..Len(t1) : n \in 1..Len(t2)
      BY <1>7
    <3> QED
      BY <1>3, <1>5, <3>1 DEF Spelt
  <2> QED
    BY <2>2, <2>3 DEF Continues
<1>9. ~ Len(t2) < Len(t1)
  <2> SUFFICES ASSUME Len(t2) < Len(t1) PROVE FALSE
    OBVIOUS
  <2>1. Len(t2) + 1 \in 1..Len(t1) /\ 4 + (Len(t2) + 1) = 5 + Len(t2)
    BY <1>7
  <2>2. t1[Len(t2) + 1] = Dash
    BY <1>3, <1>5, <2>1 DEF Spelt
  <2>3. \A n \in 1..Len(t2) : t1[n] = t2[n]
    <3>1. \A n \in 1..Len(t2) : n \in 1..Len(t1)
      BY <1>7
    <3> QED
      BY <1>3, <1>5, <3>1 DEF Spelt
  <2> QED
    BY <2>2, <2>3 DEF Continues
<1>10. Len(t1) = Len(t2) /\ Len(r1) = Len(r2)
  BY <1>6, <1>7, <1>8, <1>9
<1>11. t1 = t2 /\ r1 = r2
  BY <1>2, <1>3, <1>5, <1>10, SameLengths
<1> QED
  BY <1>6, <1>11
=============================================================================
