-------------------------- MODULE PlcMessageProofs --------------------------
(***************************************************************************)
(* Proofs about PlcMessage, for values of any length: the intake stores    *)
(* exactly the messages that carry a label, with the fields of the label,  *)
(* and the worker refuses a stored message for one reason only.            *)
(*                                                                         *)
(* The argument is about the operators: Strip and the two splits are       *)
(* described by the positions they cut at, and a value has such positions  *)
(* exactly when it is a label.                                             *)
(***************************************************************************)
EXTENDS PlcMessage, TLAPS, SequenceTheorems, WellFoundedInduction

-----------------------------------------------------------------------------
(***************************************************************************)
(* The first and the last position of a kind.                              *)
(***************************************************************************)

\* The order of the numbers, as a set of pairs.
Below == {p \in Nat \X Nat : p[1] < p[2]}

\* Every set of numbers has a least one.
LEMMA BelowIsWellFounded == IsWellFoundedOn(Below, Nat)
<1>1. OpToRel(<, Nat) = Below
  BY DEF OpToRel, Below
<1> QED
  BY <1>1, NatLessThanWellFounded

\* Min is the least number of a set.
LEMMA MinIsLeast ==
    ASSUME NEW T \in SUBSET Nat, T # {}
    PROVE  Min(T) \in T /\ \A i \in T : Min(T) <= i
<1>1. PICK m \in T : \A i \in T : ~(<<i, m>> \in Below)
  BY WFMin, BelowIsWellFounded
<1>2. \A i \in T : ~(i < m)
  BY <1>1 DEF Below
<1>3. \A i \in T : m <= i
  BY <1>2
<1> QED
  BY <1>3 DEF Min

\* Max is the greatest number of a bounded set.
LEMMA MaxIsGreatest ==
    ASSUME NEW n \in Nat, NEW T \in SUBSET (1 .. n), T # {}
    PROVE  Max(T) \in T /\ \A i \in T : i <= Max(T)
<1> DEFINE D == {d \in 0 .. n : n - d \in T}
<1>1. D \in SUBSET Nat /\ D # {}
  <2>1. PICK i \in T : i \in 1 .. n
    OBVIOUS
  <2>2. n - i \in 0 .. n /\ n - (n - i) = i
    BY <2>1
  <2>3. n - i \in D
    BY <2>2
  <2>4. D \in SUBSET Nat
    OBVIOUS
  <2> HIDE DEF D
  <2> QED
    BY <2>3, <2>4
<1>2. Min(D) \in D /\ \A d \in D : Min(D) <= d
  <2> HIDE DEF D
  <2> QED  BY <1>1, MinIsLeast
<1>3. n - Min(D) \in T
  BY <1>2
<1>4. \A i \in T : n - Min(D) >= i
  <2>1. TAKE i \in T
  <2>2. n - i \in D /\ i \in 1 .. n
    OBVIOUS
  <2>3. Min(D) <= n - i /\ Min(D) \in 0 .. n
    BY <2>2, <1>2
  <2> HIDE DEF D
  <2> QED  BY <2>3, <2>2
<1> HIDE DEF D
<1> QED
  BY <1>3, <1>4 DEF Max

\* The last position of T, or 0: nothing of T comes after it.
LEMMA LastPosition ==
    ASSUME NEW n \in Nat, NEW T \in SUBSET (1 .. n),
           NEW cut, cut = IF T # {} THEN Max(T) ELSE 0
    PROVE  /\ cut \in 0 .. n
           /\ cut # 0 => cut \in T
           /\ \A k \in cut + 1 .. n : k \notin T
<1>1. CASE T = {}
  BY <1>1
<1>2. CASE T # {}
  <2>1. cut \in T /\ \A i \in T : i <= cut
    BY <1>2, MaxIsGreatest
  <2> QED
    BY <2>1
<1> QED
  BY <1>1, <1>2

\* Where the last space is.
LEMMA LastSpace ==
    ASSUME NEW b \in Seq(Tokens), NEW cut,
           cut = SelectLastInSeq(b, LAMBDA t : t = "space")
    PROVE  /\ cut \in 0 .. Len(b)
           /\ cut # 0 => b[cut] = "space"
           /\ \A k \in cut + 1 .. Len(b) : b[k] # "space"
<1> DEFINE T == {i \in 1 .. Len(b) : b[i] = "space"}
<1>1. cut = IF T # {} THEN Max(T) ELSE 0
  BY DEF SelectLastInSeq
<1>2. T \in SUBSET (1 .. Len(b)) /\ Len(b) \in Nat
  OBVIOUS
<1>3. /\ cut \in 0 .. Len(b)
      /\ cut # 0 => cut \in T
      /\ \A k \in cut + 1 .. Len(b) : k \notin T
  <2> HIDE DEF T
  <2> QED  BY <1>1, <1>2, LastPosition
<1>4. \A k \in cut + 1 .. Len(b) : k \in 1 .. Len(b)
  BY <1>2, <1>3
<1> QED
  BY <1>3, <1>4

\* Where the last model is.
LEMMA LastModel ==
    ASSUME NEW b \in Seq(Tokens), NEW cut,
           cut = SelectLastInSeq(b, LAMBDA t : t = "model")
    PROVE  /\ cut \in 0 .. Len(b)
           /\ cut # 0 => b[cut] = "model"
           /\ \A k \in cut + 1 .. Len(b) : b[k] # "model"
<1> DEFINE T == {i \in 1 .. Len(b) : b[i] = "model"}
<1>1. cut = IF T # {} THEN Max(T) ELSE 0
  BY DEF SelectLastInSeq
<1>2. T \in SUBSET (1 .. Len(b)) /\ Len(b) \in Nat
  OBVIOUS
<1>3. /\ cut \in 0 .. Len(b)
      /\ cut # 0 => cut \in T
      /\ \A k \in cut + 1 .. Len(b) : k \notin T
  <2> HIDE DEF T
  <2> QED  BY <1>1, <1>2, LastPosition
<1>4. \A k \in cut + 1 .. Len(b) : k \in 1 .. Len(b)
  BY <1>2, <1>3
<1> QED
  BY <1>3, <1>4

-----------------------------------------------------------------------------
(***************************************************************************)
(* Strip.                                                                  *)
(***************************************************************************)

\* w is what lies between the blanks around v.
Between(v, a, z) ==
    /\ a \in 1 .. Len(v) /\ z \in a .. Len(v)
    /\ NotBlank(v[a]) /\ NotBlank(v[z])
    /\ \A k \in 1 .. a - 1 : IsBlank(v[k])
    /\ \A k \in z + 1 .. Len(v) : IsBlank(v[k])

\* Strip cuts the blanks off both ends, and only them.
LEMMA StripCuts ==
    ASSUME NEW v \in Seq(Tokens)
    PROVE  \/ Strip(v) = <<>> /\ \A k \in 1 .. Len(v) : IsBlank(v[k])
           \/ \E a, z \in 1 .. Len(v) : Between(v, a, z) /\ Strip(v) = SubSeq(v, a, z)
<1> DEFINE T == {i \in 1 .. Len(v) : NotBlank(v[i])}
<1>1. SelectLastInSeq(v, NotBlank) = IF T # {} THEN Max(T) ELSE 0
  BY DEF SelectLastInSeq
<1>2. SelectInSeq(v, NotBlank) = IF T # {} THEN Min(T) ELSE 0
  BY DEF SelectInSeq
<1>3. T \in SUBSET (1 .. Len(v)) /\ T \in SUBSET Nat /\ Len(v) \in Nat
  OBVIOUS
<1>4. T # {} => /\ Max(T) \in T /\ \A i \in T : i <= Max(T)
                /\ Min(T) \in T /\ \A i \in T : Min(T) <= i
  <2> HIDE DEF T
  <2> QED  BY <1>3, MaxIsGreatest, MinIsLeast
<1>5. \A k \in 1 .. Len(v) : IsBlank(v[k]) <=> k \notin T
  BY DEF NotBlank
<1>6. Strip(v) = IF T = {} THEN <<>> ELSE SubSeq(v, Min(T), Max(T))
  <2>1. T # {} => Max(T) # 0
    BY <1>4
  <2> HIDE DEF T
  <2> QED
    BY <1>1, <1>2, <2>1, Zenon DEF Strip
<1>7. CASE T = {}
  BY <1>5, <1>6, <1>7
<1>8. CASE T # {}
  <2> DEFINE a == Min(T)
             z == Max(T)
  <2>1. a \in T /\ z \in T /\ \A i \in T : a <= i /\ i <= z
    BY <1>4, <1>8
  <2>2. a \in 1 .. Len(v) /\ z \in a .. Len(v) /\ NotBlank(v[a]) /\ NotBlank(v[z])
    <3> HIDE DEF a, z
    <3> QED  BY <2>1
  <2>3. /\ \A k \in 1 .. a - 1 : k \in 1 .. Len(v) /\ k \notin T
        /\ \A k \in z + 1 .. Len(v) : k \in 1 .. Len(v) /\ k \notin T
    <3> HIDE DEF a, z, T
    <3> QED  BY <2>1, <1>3
  <2>4. Between(v, a, z)
    <3> HIDE DEF a, z, T
    <3> QED  BY <2>2, <2>3, <1>5 DEF Between
  <2> HIDE DEF T
  <2> QED
    BY <2>4, <2>1, <1>3, <1>6, <1>8
<1> QED
  BY <1>7, <1>8

\* What the end of a stripped value is, and where the blanks were.
LEMMA StripEnds ==
    ASSUME NEW v \in Seq(Tokens)
    PROVE  /\ Strip(v) \in Seq(Tokens)
           /\ Strip(v) # <<>> => /\ Len(Strip(v)) \in Nat \ {0}
                                 /\ NotBlank(Strip(v)[1])
                                 /\ v # <<>>
                                 /\ NotBlank(Last(v)) => Last(Strip(v)) = Last(v)
<1>1. CASE Strip(v) = <<>>
  BY <1>1
<1>2. CASE Strip(v) # <<>>
  <2>1. PICK a, z \in 1 .. Len(v) : Between(v, a, z) /\ Strip(v) = SubSeq(v, a, z)
    BY <1>2, StripCuts
  <2>2. a \in Nat /\ z \in Nat /\ a <= z /\ z <= Len(v) /\ Len(v) \in Nat
    BY <2>1 DEF Between
  <2>3. \A k \in a .. z : v[k] \in Tokens
    BY <2>2
  <2>4. /\ Strip(v) \in Seq(Tokens) /\ Len(Strip(v)) = z - a + 1
        /\ \A k \in 1 .. z - a + 1 : Strip(v)[k] = v[a + k - 1]
    BY <2>1, <2>2, <2>3, SubSeqProperties
  <2>5. NotBlank(Strip(v)[1])
    BY <2>1, <2>2, <2>4 DEF Between
  <2>6. Last(Strip(v)) = v[z]
    BY <2>2, <2>4 DEF Last
  <2>7. ASSUME NotBlank(Last(v))
        PROVE  z = Len(v)
    <3>1. ~(Len(v) \in z + 1 .. Len(v))
      BY <2>1, <2>7 DEF Between, NotBlank, Last
    <3> QED
      BY <3>1, <2>2
  <2>8. v # <<>>
    BY <2>2
  <2> QED
    BY <2>2, <2>4, <2>5, <2>6, <2>7, <2>8 DEF Last
<1> QED
  BY <1>1, <1>2

\* Stripping a part of a value leaves what lies between the blanks at its ends.
LEMMA StripPart ==
    ASSUME NEW w \in Seq(Tokens), NEW m \in 1 .. Len(w), NEW n \in 0 .. Len(w)
    PROVE  \/ /\ Strip(SubSeq(w, m, n)) = <<>>
              /\ \A k \in m .. n : IsBlank(w[k])
           \/ \E a, z \in m .. n :
                 /\ a <= z /\ NotBlank(w[a]) /\ NotBlank(w[z])
                 /\ \A k \in m .. a - 1 : IsBlank(w[k])
                 /\ \A k \in z + 1 .. n : IsBlank(w[k])
                 /\ Strip(SubSeq(w, m, n)) = SubSeq(w, a, z)
<1> DEFINE s == SubSeq(w, m, n)
<1>1. /\ s \in Seq(Tokens) /\ Len(s) = (IF m <= n THEN n - m + 1 ELSE 0)
      /\ \A k \in 1 .. n - m + 1 : s[k] = w[m + k - 1]
      /\ m \in Nat \ {0} /\ n \in Nat
  <2>1. \A k \in m .. n : w[k] \in Tokens
    OBVIOUS
  <2>2. m \in Int /\ n \in Int
    OBVIOUS
  <2> QED
    BY <2>1, <2>2, SubSeqProperties
<1>2. \A k \in m .. n : k - m + 1 \in 1 .. Len(s) /\ s[k - m + 1] = w[k]
  <2>1. TAKE k \in m .. n
  <2>2. k - m + 1 \in 1 .. n - m + 1 /\ m + (k - m + 1) - 1 = k /\ Len(s) = n - m + 1
    BY <1>1
  <2> HIDE DEF s
  <2> QED
    BY <1>1, <2>2
<1>3. \/ Strip(s) = <<>> /\ \A k \in 1 .. Len(s) : IsBlank(s[k])
      \/ \E a, z \in 1 .. Len(s) : Between(s, a, z) /\ Strip(s) = SubSeq(s, a, z)
  <2> HIDE DEF s
  <2> QED
    BY <1>1, StripCuts
<1>4. CASE Strip(s) = <<>> /\ \A k \in 1 .. Len(s) : IsBlank(s[k])
  <2>1. \A k \in m .. n : IsBlank(w[k])
    <3> HIDE DEF s
    <3> QED
      BY <1>2, <1>4
  <2> QED
    BY <1>4, <2>1
<1>5. CASE \E a, z \in 1 .. Len(s) : Between(s, a, z) /\ Strip(s) = SubSeq(s, a, z)
  <2>1. PICK a, z \in 1 .. Len(s) : Between(s, a, z) /\ Strip(s) = SubSeq(s, a, z)
    BY <1>5
  <2>2. /\ m <= n /\ Len(s) = n - m + 1
        /\ a \in 1 .. n - m + 1 /\ z \in 1 .. n - m + 1 /\ a <= z
    <3> HIDE DEF s
    <3> QED
      BY <1>1, <2>1 DEF Between
  <2> DEFINE c == m + a - 1
             d == m + z - 1
  <2>3. c \in m .. n /\ d \in m .. n /\ c <= d /\ c - m + 1 = a /\ d - m + 1 = z
    BY <1>1, <2>2
  <2>4. SubSeq(s, a, z) = SubSeq(w, c, d)
    <3> DEFINE p == SubSeq(s, a, z)
               q == SubSeq(w, c, d)
    <3>1. /\ p \in Seq(Tokens) /\ Len(p) = z - a + 1
          /\ \A k \in 1 .. z - a + 1 : p[k] = s[a + k - 1]
      <4>1. \A k \in a .. z : s[k] \in Tokens
        BY <1>1, <2>2
      <4>2. a \in Int /\ z \in Int /\ a <= z
        BY <2>2
      <4> HIDE DEF s
      <4> QED
        BY <1>1, <4>1, <4>2, SubSeqProperties
    <3>2. /\ q \in Seq(Tokens) /\ Len(q) = d - c + 1
          /\ \A k \in 1 .. d - c + 1 : q[k] = w[c + k - 1]
      <4>1. \A k \in c .. d : w[k] \in Tokens
        BY <2>3, <1>1
      <4>2. c \in Int /\ d \in Int /\ c <= d
        BY <2>3
      <4> HIDE DEF c, d
      <4> QED
        BY <4>1, <4>2, SubSeqProperties
    <3>3. d - c = z - a /\ \A k \in 1 .. z - a + 1 : /\ a + k - 1 \in 1 .. n - m + 1
                                                    /\ m + (a + k - 1) - 1 = c + k - 1
      BY <1>1, <2>2
    <3> HIDE DEF p, q, c, d, s
    <3>4. \A k \in 1 .. Len(p) : p[k] = q[k]
      <4>1. TAKE k \in 1 .. Len(p)
      <4>2. k \in 1 .. z - a + 1
        BY <3>1
      <4>3. k \in 1 .. d - c + 1
        BY <3>3, <4>2
      <4>4. p[k] = s[a + k - 1] /\ q[k] = w[c + k - 1]
        BY <3>1, <3>2, <4>2, <4>3
      <4>5. s[a + k - 1] = w[m + (a + k - 1) - 1]
        BY <1>1, <3>3, <4>2
      <4> QED
        BY <3>3, <4>2, <4>4, <4>5
    <3>5. p = q
      BY <3>1, <3>2, <3>3, <3>4, SeqEqual
    <3> QED
      BY <3>5 DEF p, q
  <2> HIDE DEF c, d
  <2>5. NotBlank(w[c]) /\ NotBlank(w[d])
    <3> HIDE DEF s
    <3> QED
      BY <1>2, <2>1, <2>3 DEF Between
  <2>6. \A k \in m .. c - 1 : IsBlank(w[k])
    <3>1. \A k \in m .. c - 1 : k \in m .. n /\ k - m + 1 \in 1 .. a - 1
      BY <1>1, <2>2, <2>3
    <3> HIDE DEF s
    <3> QED
      BY <1>2, <2>1, <3>1 DEF Between
  <2>7. \A k \in d + 1 .. n : IsBlank(w[k])
    <3>1. \A k \in d + 1 .. n : k \in m .. n /\ k - m + 1 \in z + 1 .. Len(s)
      BY <1>1, <2>2, <2>3
    <3> HIDE DEF s
    <3> QED
      BY <1>2, <2>1, <3>1 DEF Between
  <2> QED
    BY <2>1, <2>3, <2>4, <2>5, <2>6, <2>7
<1> QED
  BY <1>3, <1>4, <1>5

-----------------------------------------------------------------------------
(***************************************************************************)
(* The two splits.                                                         *)
(***************************************************************************)

\* The value without its table.
LEMMA BodyOf ==
    ASSUME NEW w \in Seq(Tokens), w # <<>>
    PROVE  /\ Body(w) \in Seq(Tokens)
           /\ Len(w) \in Nat \ {0}
           /\ Len(Body(w)) = Len(w) - 1
           /\ \A k \in 1 .. Len(w) - 1 : Body(w)[k] = w[k]
<1>1. Len(w) \in Nat \ {0} /\ \A k \in 1 .. Len(w) - 1 : w[k] \in Tokens
  BY EmptySeq
<1> DEFINE n == Len(w) - 1
<1>2. n \in Nat /\ 1 \in Int /\ n \in Int /\ n - 1 + 1 = n
  BY <1>1
<1>3. Body(w) = SubSeq(w, 1, n)
  BY DEF Body, Front
<1> HIDE DEF n
<1>4. /\ SubSeq(w, 1, n) \in Seq(Tokens)
      /\ Len(SubSeq(w, 1, n)) = IF 1 <= n THEN n ELSE 0
      /\ \A k \in 1 .. n : SubSeq(w, 1, n)[k] = w[1 + k - 1]
  <2>1. \A k \in 1 .. n : w[k] \in Tokens
    BY <1>1 DEF n
  <2> QED
    BY <1>2, <2>1, SubSeqProperties
<1>5. \A k \in 1 .. n : 1 + k - 1 = k
  BY <1>2
<1> QED
  BY <1>1, <1>2, <1>3, <1>4, <1>5 DEF n

\* A part of the body is a part of the value.
LEMMA PartOfBody ==
    ASSUME NEW w \in Seq(Tokens), w # <<>>,
           NEW m \in 1 .. Len(w), NEW n \in 0 .. Len(w) - 1
    PROVE  /\ SubSeq(Body(w), m, n) = SubSeq(w, m, n)
           /\ SubSeq(w, m, n) \in Seq(Tokens)
           /\ Len(SubSeq(w, m, n)) = IF m <= n THEN n - m + 1 ELSE 0
           /\ \A k \in 1 .. n - m + 1 : SubSeq(w, m, n)[k] = w[m + k - 1]
<1>1. /\ \A k \in m .. n : w[k] \in Tokens /\ Body(w)[k] = w[k]
      /\ Body(w) \in Seq(Tokens) /\ Len(Body(w)) = Len(w) - 1
      /\ m \in Int /\ n \in Int
  BY BodyOf
<1> DEFINE p == SubSeq(Body(w), m, n)
           q == SubSeq(w, m, n)
<1>2. /\ q \in Seq(Tokens)
      /\ Len(q) = IF m <= n THEN n - m + 1 ELSE 0
      /\ \A k \in 1 .. n - m + 1 : q[k] = w[m + k - 1]
  BY <1>1, SubSeqProperties
<1>3. /\ p \in Seq(Tokens)
      /\ Len(p) = IF m <= n THEN n - m + 1 ELSE 0
      /\ \A k \in 1 .. n - m + 1 : p[k] = Body(w)[m + k - 1]
  BY <1>1, SubSeqProperties
<1>4. \A k \in 1 .. n - m + 1 : m + k - 1 \in m .. n
  BY <1>1
<1> HIDE DEF p, q
<1>5. \A k \in 1 .. Len(p) : p[k] = q[k]
  <2>1. TAKE k \in 1 .. Len(p)
  <2>2. k \in 1 .. n - m + 1
    BY <1>1, <1>3
  <2>3. m + k - 1 \in m .. n
    BY <1>4, <2>2
  <2> QED
    BY <1>1, <1>2, <1>3, <2>2, <2>3
<1>6. p = q
  BY <1>2, <1>3, <1>5, SeqEqual
<1> QED
  BY <1>2, <1>6 DEF p, q

\* Digits: a sequence of one serial token or more.
LEMMA DigitsAre ==
    ASSUME NEW s \in Seq(Tokens)
    PROVE  Digits(s) <=> Len(s) > 0 /\ \A k \in 1 .. Len(s) : s[k] = "serial"
<1>1. DOMAIN s = 1 .. Len(s) /\ Len(s) \in Nat
  BY LenProperties
<1>2. s # <<>> <=> Len(s) > 0
  BY <1>1, EmptySeq
<1>3. CASE s = <<>>
  BY <1>2, <1>3 DEF Digits
<1>4. CASE s # <<>>
  <2>1. s[1] \in ToSet(s)
    BY <1>1, <1>2, <1>4 DEF ToSet
  <2>2. ToSet(s) = {"serial"} <=> \A k \in 1 .. Len(s) : s[k] = "serial"
    BY <1>1, <2>1 DEF ToSet
  <2> QED
    BY <1>2, <1>4, <2>2 DEF Digits
<1> QED
  BY <1>3, <1>4

\* Digits that are a part of a value.
LEMMA DigitsOfPart ==
    ASSUME NEW w \in Seq(Tokens), NEW m \in 1 .. Len(w), NEW n \in 0 .. Len(w)
    PROVE  Digits(SubSeq(w, m, n)) <=> m <= n /\ \A k \in m .. n : w[k] = "serial"
<1> DEFINE s == SubSeq(w, m, n)
<1>1. /\ s \in Seq(Tokens) /\ Len(s) = (IF m <= n THEN n - m + 1 ELSE 0)
      /\ \A k \in 1 .. n - m + 1 : s[k] = w[m + k - 1]
      /\ m \in Nat \ {0} /\ n \in Nat
  <2>1. (\A k \in m .. n : w[k] \in Tokens) /\ m \in Int /\ n \in Int
    OBVIOUS
  <2> QED
    BY <2>1, SubSeqProperties
<1> HIDE DEF s
<1>2. Digits(s) <=> Len(s) > 0 /\ \A k \in 1 .. Len(s) : s[k] = "serial"
  BY <1>1, DigitsAre
<1>3. CASE m <= n
  <2>1. Len(s) = n - m + 1
    BY <1>1, <1>3
  <2>2. ASSUME \A k \in 1 .. n - m + 1 : s[k] = "serial", NEW k \in m .. n
        PROVE  w[k] = "serial"
    <3>1. k - m + 1 \in 1 .. n - m + 1 /\ m + (k - m + 1) - 1 = k
      BY <1>1
    <3> QED
      BY <1>1, <2>2, <3>1
  <2>3. ASSUME \A k \in m .. n : w[k] = "serial", NEW k \in 1 .. n - m + 1
        PROVE  s[k] = "serial"
    <3>1. m + k - 1 \in m .. n
      BY <1>1
    <3> QED
      BY <1>1, <2>3, <3>1
  <2>4. Len(s) > 0 /\ 1 .. Len(s) = 1 .. n - m + 1
    BY <1>1, <1>3, <2>1
  <2>5. Digits(s) <=> \A k \in m .. n : w[k] = "serial"
    BY <1>2, <2>2, <2>3, <2>4
  <2> QED
    BY <1>3, <2>5 DEF s
<1>4. CASE ~(m <= n)
  BY <1>1, <1>2, <1>4 DEF s
<1> QED
  BY <1>3, <1>4

\* What a value is split into depends on where its last space is, or else its last
\* model.
LEMMA FieldsAre ==
    ASSUME NEW w \in Seq(Tokens), w # <<>>
    PROVE  LET n == Len(w) - 1
           IN  \/ \E c \in 1 .. n :
                     /\ w[c] = "space" /\ \A k \in c + 1 .. n : w[k] # "space"
                     /\ Fields(Body(w)) = [model |-> Strip(SubSeq(w, 1, c - 1)),
                                           serial |-> Strip(SubSeq(w, c + 1, n))]
               \/ \E c \in 1 .. n :
                     /\ \A k \in 1 .. n : w[k] \notin {"space", "newline"}
                     /\ w[c] = "model" /\ \A k \in c + 1 .. n : w[k] # "model"
                     /\ Fields(Body(w)) = [model |-> SubSeq(w, 1, c),
                                           serial |-> SubSeq(w, c + 1, n)]
               \/ /\ \A k \in 1 .. n : w[k] # "space"
                  /\ \/ \E k \in 1 .. n : w[k] = "newline"
                     \/ \A k \in 1 .. n : w[k] # "model"
                  /\ Fields(Body(w)) = Rejected
<1> DEFINE b == Body(w)
           n == Len(w) - 1
<1>1. /\ b \in Seq(Tokens) /\ n \in Nat /\ Len(b) = n /\ Len(w) = n + 1
      /\ \A k \in 1 .. n : b[k] = w[k]
  BY BodyOf
<1>2. \A m \in 1 .. n + 1 : \A k \in 0 .. n : SubSeq(b, m, k) = SubSeq(w, m, k)
  <2>1. \A m \in 1 .. n + 1 : m \in 1 .. Len(w)
    BY <1>1
  <2> QED
    BY <2>1, PartOfBody
<1>3. /\ "space" \in ToSet(b) <=> \E k \in 1 .. n : b[k] = "space"
      /\ "newline" \in ToSet(b) <=> \E k \in 1 .. n : b[k] = "newline"
  BY <1>1, LenProperties DEF ToSet
<1> HIDE DEF b, n
<1>4. CASE "space" \in ToSet(b)
  <2> DEFINE cut == SelectLastInSeq(b, LAMBDA t : t = "space")
  <2>1. /\ cut \in 0 .. n
        /\ cut # 0 => b[cut] = "space"
        /\ \A k \in cut + 1 .. n : b[k] # "space"
    BY <1>1, LastSpace
  <2>2. Fields(b) = [model |-> Strip(SubSeq(b, 1, cut - 1)),
                     serial |-> Strip(SubSeq(b, cut + 1, Len(b)))]
    <3>1. Fields(b) = SplitSpaced(b)
      BY <1>4 DEF Fields
    <3>2. SplitSpaced(b) = [model |-> Strip(SubSeq(b, 1, cut - 1)),
                            serial |-> Strip(SubSeq(b, cut + 1, Len(b)))]
      BY Zenon DEF SplitSpaced
    <3> QED
      BY <3>1, <3>2
  <2> HIDE DEF cut
  <2>3. cut \in 1 .. n
    <3>1. PICK k \in 1 .. n : b[k] = "space"
      BY <1>3, <1>4
    <3>2. ~(k \in cut + 1 .. n)
      BY <2>1, <3>1
    <3> QED
      BY <1>1, <2>1, <3>1, <3>2
  <2>4. /\ SubSeq(b, 1, cut - 1) = SubSeq(w, 1, cut - 1)
        /\ SubSeq(b, cut + 1, n) = SubSeq(w, cut + 1, n)
    BY <1>1, <1>2, <2>3
  <2>5. w[cut] = "space" /\ \A k \in cut + 1 .. n : w[k] # "space"
    BY <1>1, <2>1, <2>3
  <2> QED
    BY <1>1, <2>2, <2>3, <2>4, <2>5 DEF b, n
<1>5. CASE "space" \notin ToSet(b)
  <2> DEFINE cut == SelectLastInSeq(b, LAMBDA t : t = "model")
  <2>1. /\ cut \in 0 .. n
        /\ cut # 0 => b[cut] = "model"
        /\ \A k \in cut + 1 .. n : b[k] # "model"
    BY <1>1, LastModel
  <2>2. Fields(b) = IF cut = 0 \/ "newline" \in ToSet(b) THEN Rejected
                    ELSE [model |-> SubSeq(b, 1, cut), serial |-> SubSeq(b, cut + 1, Len(b))]
    <3>1. Fields(b) = SplitCompact(b)
      BY <1>5 DEF Fields
    <3>2. SplitCompact(b) =
              IF cut = 0 \/ "newline" \in ToSet(b) THEN Rejected
              ELSE [model |-> SubSeq(b, 1, cut), serial |-> SubSeq(b, cut + 1, Len(b))]
      BY Zenon DEF SplitCompact
    <3> QED
      BY <3>1, <3>2
  <2> HIDE DEF cut
  <2>3. \A k \in 1 .. n : w[k] # "space"
    BY <1>1, <1>3, <1>5
  <2>4. CASE cut = 0 \/ "newline" \in ToSet(b)
    <3>1. Fields(b) = Rejected
      BY <2>2, <2>4
    <3>2. \/ \E k \in 1 .. n : w[k] = "newline"
          \/ \A k \in 1 .. n : w[k] # "model"
      BY <1>1, <1>3, <2>1, <2>4
    <3> QED
      BY <2>3, <3>1, <3>2 DEF b, n
  <2>5. CASE cut # 0 /\ "newline" \notin ToSet(b)
    <3>1. cut \in 1 .. n /\ w[cut] = "model" /\ \A k \in cut + 1 .. n : w[k] # "model"
      BY <1>1, <2>1, <2>5
    <3>2. \A k \in 1 .. n : w[k] \notin {"space", "newline"}
      BY <1>1, <1>3, <2>3, <2>5
    <3>3. /\ SubSeq(b, 1, cut) = SubSeq(w, 1, cut)
          /\ SubSeq(b, cut + 1, n) = SubSeq(w, cut + 1, n)
      BY <1>1, <1>2, <3>1
    <3>4. Fields(b) = [model |-> SubSeq(w, 1, cut), serial |-> SubSeq(w, cut + 1, n)]
      BY <1>1, <2>2, <2>5, <3>3
    <3> QED
      BY <3>1, <3>2, <3>4 DEF b, n
  <2> QED
    BY <2>4, <2>5
<1> QED
  BY <1>4, <1>5

\* The fields of a label are its model and its serial.
LEMMA LabelSplits ==
    ASSUME NEW w \in Seq(Tokens), w # <<>>, NEW i \in 0 .. Len(w), NEW j \in 0 .. Len(w),
           NEW k \in 0 .. Len(w), IsLabelAt(w, i, j, k)
    PROVE  Fields(Body(w)) = [model |-> SubSeq(w, 1, i), serial |-> SubSeq(w, j + 1, k)]
<1> DEFINE n == Len(w) - 1
<1>1. /\ i \in Nat /\ j \in Nat /\ k \in Nat /\ n \in Nat /\ Len(w) = n + 1
      /\ 1 <= i /\ i <= j /\ j < k /\ k <= n
      /\ NotBlank(w[1]) /\ NotBlank(w[i])
      /\ \A l \in i + 1 .. j : IsBlank(w[l])
      /\ \A l \in j + 1 .. k : w[l] = "serial"
      /\ \A l \in k + 1 .. n : w[l] \in {"tab", "newline"}
  BY DEF IsLabelAt
<1>2. \/ \E l \in i + 1 .. j : w[l] = "space"
      \/ /\ i = j /\ w[i] = "model" /\ k = n
         /\ \A l \in 1 .. i : w[l] \notin {"space", "newline"}
  BY DEF IsLabelAt
<1> HIDE DEF n
<1>3. \A l \in j + 1 .. n : w[l] \in {"serial", "tab", "newline"}
  <2>1. \A l \in j + 1 .. n : l \in j + 1 .. k \/ l \in k + 1 .. n
    BY <1>1
  <2> QED
    BY <1>1, <2>1
<1>4. CASE \E l \in i + 1 .. j : w[l] = "space"
  <2>1. PICK l \in i + 1 .. j : w[l] = "space"
    BY <1>4
  <2>2. l \in 1 .. n
    BY <1>1
  <2>3. PICK c \in 1 .. n :
            /\ w[c] = "space" /\ \A h \in c + 1 .. n : w[h] # "space"
            /\ Fields(Body(w)) = [model |-> Strip(SubSeq(w, 1, c - 1)),
                                  serial |-> Strip(SubSeq(w, c + 1, n))]
    BY <2>1, <2>2, FieldsAre DEF n
  <2>4. c \in i + 1 .. j
    <3>1. ~(l \in c + 1 .. n)
      BY <2>1, <2>3
    <3>2. ~(c \in j + 1 .. n)
      BY <1>3, <2>3
    <3> QED
      BY <1>1, <2>2, <3>1, <3>2
  <2>5. Strip(SubSeq(w, 1, c - 1)) = SubSeq(w, 1, i)
    <3>1. 1 \in 1 .. Len(w) /\ c - 1 \in 0 .. Len(w) /\ i \in 1 .. c - 1 /\ 1 \in 1 .. c - 1
      BY <1>1, <2>4
    <3>0. \E h \in 1 .. c - 1 : ~IsBlank(w[h])
      BY <1>1, <3>1 DEF NotBlank
    <3>2. PICK a, z \in 1 .. c - 1 :
              /\ a <= z /\ NotBlank(w[a]) /\ NotBlank(w[z])
              /\ \A h \in 1 .. a - 1 : IsBlank(w[h])
              /\ \A h \in z + 1 .. c - 1 : IsBlank(w[h])
              /\ Strip(SubSeq(w, 1, c - 1)) = SubSeq(w, a, z)
      BY <3>1, <3>0, StripPart
    <3>3. ~(1 \in 1 .. a - 1)
      BY <1>1, <3>2 DEF NotBlank
    <3>4. ~(i \in z + 1 .. c - 1)
      BY <1>1, <3>2 DEF NotBlank
    <3>5. ~(z \in i + 1 .. j)
      BY <1>1, <3>2 DEF NotBlank
    <3>6. a = 1 /\ z = i
      BY <1>1, <2>4, <3>1, <3>2, <3>3, <3>4, <3>5
    <3> QED
      BY <3>2, <3>6
  <2>6. Strip(SubSeq(w, c + 1, n)) = SubSeq(w, j + 1, k)
    <3>1. /\ c + 1 \in 1 .. Len(w) /\ n \in 0 .. Len(w)
          /\ j + 1 \in c + 1 .. n /\ k \in c + 1 .. n /\ j + 1 \in j + 1 .. k /\ k \in j + 1 .. k
      BY <1>1, <2>4
    <3>2. NotBlank(w[j + 1]) /\ NotBlank(w[k])
      BY <1>1, <3>1 DEF NotBlank, IsBlank, BlankTokens
    <3>3. PICK a, z \in c + 1 .. n :
              /\ a <= z /\ NotBlank(w[a]) /\ NotBlank(w[z])
              /\ \A h \in c + 1 .. a - 1 : IsBlank(w[h])
              /\ \A h \in z + 1 .. n : IsBlank(w[h])
              /\ Strip(SubSeq(w, c + 1, n)) = SubSeq(w, a, z)
      BY <3>1, <3>2, StripPart DEF NotBlank
    <3>4. ~(j + 1 \in c + 1 .. a - 1) /\ ~(k \in z + 1 .. n)
      BY <3>2, <3>3 DEF NotBlank
    <3>5. ~(a \in i + 1 .. j)
      BY <1>1, <3>3 DEF NotBlank
    <3>6. ~(z \in k + 1 .. n)
      BY <1>1, <3>3 DEF NotBlank, IsBlank, BlankTokens
    <3>7. a = j + 1 /\ z = k
      BY <1>1, <2>4, <3>1, <3>3, <3>4, <3>5, <3>6
    <3> QED
      BY <3>3, <3>7
  <2> QED
    BY <2>3, <2>5, <2>6
<1>5. CASE /\ i = j /\ w[i] = "model" /\ k = n
           /\ \A l \in 1 .. i : w[l] \notin {"space", "newline"}
  <2>1. \A l \in 1 .. n : w[l] \notin {"space", "newline"}
    <3>1. \A l \in 1 .. n : l \in 1 .. i \/ l \in j + 1 .. k
      BY <1>1, <1>5
    <3> QED
      BY <1>1, <1>5, <3>1
  <2>2. i \in 1 .. n /\ \A l \in i + 1 .. n : w[l] = "serial"
    BY <1>1, <1>5
  <2>3. PICK c \in 1 .. n :
            /\ w[c] = "model" /\ \A h \in c + 1 .. n : w[h] # "model"
            /\ Fields(Body(w)) = [model |-> SubSeq(w, 1, c), serial |-> SubSeq(w, c + 1, n)]
    BY <1>5, <2>1, <2>2, FieldsAre DEF n
  <2>4. ~(i \in c + 1 .. n) /\ ~(c \in i + 1 .. n)
    BY <1>5, <2>2, <2>3
  <2>5. c = i
    BY <1>1, <2>2, <2>3, <2>4
  <2> QED
    BY <1>5, <2>3, <2>5
<1> QED
  BY <1>2, <1>4, <1>5

\* A stripped value that ends with its table and splits into a model and digits is
\* a label.
LEMMA SplitIsLabel ==
    ASSUME NEW w \in Seq(Tokens), w # <<>>, NotBlank(w[1]), Last(w) = "table",
           Fields(Body(w)).model # <<>>, Digits(Fields(Body(w)).serial)
    PROVE  IsLabel(w)
<1> DEFINE n == Len(w) - 1
<1>1. n \in Nat /\ Len(w) = n + 1
  BY BodyOf
<1> HIDE DEF n
<1>2. ASSUME NEW c \in 1 .. n,
             w[c] = "space", \A h \in c + 1 .. n : w[h] # "space",
             Fields(Body(w)) = [model |-> Strip(SubSeq(w, 1, c - 1)),
                                serial |-> Strip(SubSeq(w, c + 1, n))]
      PROVE  IsLabel(w)
  <2>1. /\ Strip(SubSeq(w, 1, c - 1)) # <<>>
        /\ Digits(Strip(SubSeq(w, c + 1, n))) /\ Strip(SubSeq(w, c + 1, n)) # <<>>
    BY <1>2 DEF Digits
  <2>2. /\ 1 \in 1 .. Len(w) /\ c - 1 \in 0 .. Len(w)
        /\ c + 1 \in 1 .. Len(w) /\ n \in 0 .. Len(w)
    BY <1>1
  <2>3. PICK a, i \in 1 .. c - 1 :
            /\ a <= i /\ NotBlank(w[i])
            /\ \A h \in i + 1 .. c - 1 : IsBlank(w[h])
    BY <2>1, <2>2, StripPart
  <2>4. PICK s, k \in c + 1 .. n :
            /\ s <= k
            /\ \A h \in c + 1 .. s - 1 : IsBlank(w[h])
            /\ \A h \in k + 1 .. n : IsBlank(w[h])
            /\ Strip(SubSeq(w, c + 1, n)) = SubSeq(w, s, k)
    BY <2>1, <2>2, StripPart
  <2> DEFINE j == s - 1
  <2>5. /\ s \in 1 .. Len(w) /\ k \in 0 .. Len(w) /\ j \in 0 .. Len(w) /\ j + 1 = s
        /\ i \in 0 .. Len(w) /\ 0 < i /\ i < c /\ c <= j /\ j < k /\ k < Len(w) /\ k <= n
    BY <1>1, <2>3, <2>4
  <2> HIDE DEF j
  <2>6. \A h \in j + 1 .. k : w[h] = "serial"
    BY <2>1, <2>4, <2>5, DigitsOfPart
  <2>7. \A h \in i + 1 .. j : IsBlank(w[h])
    <3>1. \A h \in i + 1 .. j : h \in i + 1 .. c - 1 \/ h = c \/ h \in c + 1 .. s - 1
      BY <2>5
    <3>2. IsBlank(w[c])
      BY <1>2 DEF IsBlank, BlankTokens
    <3> QED
      BY <2>3, <2>4, <3>1, <3>2
  <2>8. \A h \in k + 1 .. n : w[h] \in {"tab", "newline"}
    <3>1. \A h \in k + 1 .. n : h \in c + 1 .. n
      BY <2>5
    <3> QED
      BY <1>2, <2>4, <3>1 DEF IsBlank, BlankTokens
  <2>9. c \in i + 1 .. j
    BY <2>5
  <2>10. Len(w) - 1 = n
    BY <1>1
  <2>11. IsLabelAt(w, i, j, k)
    BY <1>2, <2>3, <2>5, <2>6, <2>7, <2>8, <2>9, <2>10 DEF IsLabelAt
  <2> QED
    BY <2>5, <2>11 DEF IsLabel
<1>3. ASSUME NEW c \in 1 .. n,
             \A h \in 1 .. n : w[h] \notin {"space", "newline"}, w[c] = "model",
             Fields(Body(w)) = [model |-> SubSeq(w, 1, c), serial |-> SubSeq(w, c + 1, n)]
      PROVE  IsLabel(w)
  <2>1. c + 1 \in 1 .. Len(w) /\ n \in 0 .. Len(w) /\ c \in 0 .. Len(w) /\ Len(w) - 1 = n
    BY <1>1
  <2>2. c < n /\ \A h \in c + 1 .. n : w[h] = "serial"
    <3>1. Digits(SubSeq(w, c + 1, n))
      BY <1>3
    <3>2. c + 1 <= n /\ \A h \in c + 1 .. n : w[h] = "serial"
      BY <2>1, <3>1, DigitsOfPart
    <3> QED
      BY <1>1, <3>2
  <2>3. NotBlank(w[c])
    BY <1>3 DEF NotBlank, IsBlank, BlankTokens
  <2>4. \A h \in 1 .. c : w[h] \notin {"space", "newline"}
    BY <1>1, <1>3
  <2>5. (\A h \in c + 1 .. c : IsBlank(w[h])) /\ \A h \in n + 1 .. n : w[h] \in {"tab", "newline"}
    BY <1>1
  <2>6. 0 < c /\ c <= c /\ n < Len(w)
    BY <1>1
  <2>7. IsLabelAt(w, c, c, n)
    BY <1>3, <2>1, <2>2, <2>3, <2>4, <2>5, <2>6 DEF IsLabelAt
  <2> QED
    BY <2>1, <2>7 DEF IsLabel
<1>4. Fields(Body(w)) # Rejected
  BY DEF Rejected
<1> QED
  BY <1>2, <1>3, <1>4, FieldsAre DEF n

\* The parser accepts a value if and only if it is a label, blanks around it aside,
\* and gives back the fields of that label.
LEMMA SplitValueIsLabel ==
    ASSUME NEW v \in Seq(Tokens)
    PROVE  LET w == Strip(v)
               f == SplitValue(v)
           IN  /\ f \in [model : Seq(Tokens), serial : Seq(Tokens)]
               /\ f # Rejected <=> IsLabel(w)
               /\ f # Rejected =>
                      /\ w # <<>> /\ Last(w) = "table"
                      /\ \E i, j, k \in 0 .. Len(w) :
                            /\ IsLabelAt(w, i, j, k)
                            /\ f = [model |-> SubSeq(w, 1, i), serial |-> SubSeq(w, j + 1, k)]
<1> DEFINE w == Strip(v)
           f == Fields(Body(w))
<1>1. w \in Seq(Tokens) /\ (w # <<>> => NotBlank(w[1]) /\ Len(w) \in Nat \ {0})
  BY StripEnds
<1>2. SplitValue(v) = IF w = <<>> THEN Rejected
                      ELSE IF Last(w) # "table" \/ f.model = <<>> \/ ~Digits(f.serial)
                           THEN Rejected ELSE f
  BY DEF SplitValue
<1>3. Rejected \in [model : Seq(Tokens), serial : Seq(Tokens)]
  BY DEF Rejected
<1> HIDE DEF w, f
<1>4. ASSUME IsLabel(w)
      PROVE  /\ SplitValue(v) = f
             /\ f \in [model : Seq(Tokens), serial : Seq(Tokens)]
             /\ f # Rejected
             /\ w # <<>> /\ Last(w) = "table"
             /\ \E i, j, k \in 0 .. Len(w) :
                   /\ IsLabelAt(w, i, j, k)
                   /\ f = [model |-> SubSeq(w, 1, i), serial |-> SubSeq(w, j + 1, k)]
  <2>1. PICK i \in 0 .. Len(w), j \in 0 .. Len(w), k \in 0 .. Len(w) : IsLabelAt(w, i, j, k)
    BY <1>4 DEF IsLabel
  <2> DEFINE m == SubSeq(w, 1, i)
             s == SubSeq(w, j + 1, k)
  <2>2. /\ w # <<>> /\ Last(w) = "table"
        /\ Len(w) \in Nat /\ 1 \in 1 .. Len(w) /\ j + 1 \in 1 .. Len(w) /\ j + 1 <= k /\ 1 <= i
        /\ \A l \in j + 1 .. k : w[l] = "serial"
    BY <1>1, <2>1 DEF IsLabelAt
  <2>3. f = [model |-> m, serial |-> s]
    BY <1>1, <2>1, <2>2, LabelSplits DEF f
  <2>4. Digits(s)
    BY <1>1, <2>2, DigitsOfPart
  <2>5. m \in Seq(Tokens) /\ m # <<>> /\ s \in Seq(Tokens)
    <3>1. /\ \A l \in 1 .. i : w[l] \in Tokens
          /\ \A l \in j + 1 .. k : w[l] \in Tokens
          /\ i \in Int /\ j + 1 \in Int /\ k \in Int
      BY <1>1, <2>2
    <3>2. m \in Seq(Tokens) /\ Len(m) = i
      BY <2>2, <3>1, SubSeqProperties
    <3>3. s \in Seq(Tokens)
      BY <3>1, SubSeqProperties
    <3> QED
      BY <2>2, <3>2, <3>3
  <2> HIDE DEF m, s
  <2>6. f.model = m /\ f.serial = s
    BY <2>3
  <2>7. f # Rejected /\ f \in [model : Seq(Tokens), serial : Seq(Tokens)]
    BY <2>3, <2>5, <2>6 DEF Rejected
  <2>8. SplitValue(v) = f
    BY <1>2, <2>2, <2>4, <2>5, <2>6
  <2> QED
    BY <2>1, <2>2, <2>3, <2>7, <2>8 DEF m, s
<1>5. ASSUME SplitValue(v) # Rejected
      PROVE  IsLabel(w)
  <2>1. /\ w # <<>> /\ Last(w) = "table"
        /\ f.model # <<>> /\ Digits(f.serial)
    BY <1>2, <1>5
  <2> QED
    BY <1>1, <2>1, SplitIsLabel DEF f
<1>6. CASE IsLabel(w)
  BY <1>4, <1>6 DEF w
<1>7. CASE ~IsLabel(w)
  BY <1>3, <1>5, <1>7 DEF w
<1> QED
  BY <1>6, <1>7

-----------------------------------------------------------------------------
(***************************************************************************)
(* The specification.                                                      *)
(***************************************************************************)

Known == {"stored", "submitted", "refused"}

\* The fields kept are those of the value, and each stage was reached by the check
\* that leads to it.
IInv ==
    /\ envelope \in Envelopes
    /\ value \in Seq(Tokens) /\ Len(value) <= MaxTokens
    /\ stage \in {"arriving", "rejected"} \cup Known
    /\ stage \notin Known => parsed = Rejected
    /\ stage \in Known => Parses /\ parsed = SplitValue(value)
    /\ stage = "rejected" => ~Parses
    /\ stage = "refused" => ~Submittable

\* Nothing has been read at first.
LEMMA InitIInv == Init => IInv
<1> SUFFICES ASSUME Init
             PROVE  IInv
  OBVIOUS
<1>1. value \in Seq(Tokens) /\ Len(value) <= MaxTokens
  <2>1. CASE value \in BoundedSeq(Tokens, MaxTokens)
    <3>1. PICK m \in 0 .. MaxTokens : value \in [1 .. m -> Tokens]
      BY <2>1 DEF BoundedSeq, SeqOf
    <3> QED
      BY <3>1, MaxTokensAssumption
  <2>2. CASE value = <<>>
    BY <2>2, EmptySeq, MaxTokensAssumption
  <2> QED
    BY <2>1, <2>2 DEF Init
<1>2. /\ envelope \in Envelopes
      /\ stage = "arriving" /\ parsed = Rejected
  BY DEF Init, Envelopes
<1> QED
  BY <1>1, <1>2 DEF IInv, Known

\* Each of the two readers sees the value as it arrived.
LEMMA StepIInv == IInv /\ [Next]_vars => IInv'
<1> SUFFICES ASSUME IInv, [Next]_vars
             PROVE  IInv'
  OBVIOUS
<1>1. UNCHANGED <<envelope, value>>
  BY DEF Next, Receive, Process, vars
<1>2. Parses' = Parses /\ Submittable' = Submittable /\ SplitValue(value)' = SplitValue(value)
  BY <1>1 DEF Parses, Submittable, SplitValue, Fields, Strip
<1>3. CASE Receive
  BY <1>1, <1>2, <1>3 DEF IInv, Receive, Known
<1>4. CASE Process
  BY <1>1, <1>2, <1>4 DEF IInv, Process, Known
<1>5. CASE UNCHANGED vars
  BY <1>1, <1>2, <1>5 DEF IInv, vars, Known
<1> QED
  BY <1>3, <1>4, <1>5 DEF Next

\* The stage says what the readers found, in every reachable state.
THEOREM Invariance == Spec => []IInv
<1> QED
  BY InitIInv, StepIInv, PTL DEF Spec

\* Type correctness, and the fields are known exactly from the intake on.
THEOREM TypeCorrect == Spec => []TypeOK
<1>1. IInv => TypeOK
  <2> SUFFICES ASSUME IInv
               PROVE  TypeOK
    OBVIOUS
  <2>1. SplitValue(value) \in [model : Seq(Tokens), serial : Seq(Tokens)]
    BY SplitValueIsLabel DEF IInv
  <2>2. Rejected \in [model : Seq(Tokens), serial : Seq(Tokens)]
    BY DEF Rejected
  <2> QED
    BY <2>1, <2>2 DEF IInv, TypeOK, Parses, Known
<1> QED
  BY <1>1, Invariance, PTL

\* The intake stores exactly the labels, each with its own fields.
THEOREM IntakeStoresLabels == Spec => []StoredIsLabel
<1>1. IInv => StoredIsLabel
  BY SplitValueIsLabel DEF IInv, StoredIsLabel, Parses, Known
<1> QED
  BY <1>1, Invariance, PTL

\* A stored value the worker refuses has a blank after its table.
THEOREM OnlyTrailingBlanksAreRefused == Spec => []TrimmedIsSubmitted
<1>1. ASSUME IInv, stage = "refused"
      PROVE  IsBlank(Last(value))
  <2>1. /\ value \in Seq(Tokens) /\ envelope = "valid"
        /\ SplitValue(value) # Rejected /\ ~Submittable
    BY <1>1 DEF IInv, Parses, Known
  <2>2. Strip(value) # <<>> /\ Last(Strip(value)) = "table"
    BY <2>1, SplitValueIsLabel
  <2>3. value # <<>> /\ (NotBlank(Last(value)) => Last(value) = "table")
    BY <2>1, <2>2, StripEnds
  <2> QED
    BY <2>1, <2>3 DEF Submittable, NotBlank
<1> QED
  BY <1>1, Invariance, PTL DEF TrimmedIsSubmitted
=============================================================================
