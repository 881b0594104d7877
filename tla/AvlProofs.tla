----------------------------- MODULE AvlProofs -----------------------------
(***************************************************************************)
(* What the tree of hash_table.c rests on.  compare_hash is a total order  *)
(* on hashes, however many words they have, and the one of the numbers     *)
(* that the texts of the hashes write; a list of addresses holds each      *)
(* once; and a rotation leaves what is in the tree in its order.           *)
(***************************************************************************)
EXTENDS AvlNode, SequenceTheorems, WellFoundedInduction, TLAPS

uint16_t == {w \in Nat : w < 65536}
Hash == [1..HASH_LENGTH -> uint16_t]

\* The test of compare_hash: the first word that differs is smaller.
Smaller(h1, h2) ==
  \E i \in 1..HASH_LENGTH : h1[i] < h2[i] /\ \A j \in 1..i - 1 : h1[j] = h2[j]

\* The loop of compare_hash stops at the first word that differs.
LEMMA FirstDifference ==
  ASSUME NEW h1 \in Hash, NEW h2 \in Hash, h1 # h2
  PROVE  \E i \in 1..HASH_LENGTH : h1[i] # h2[i] /\ \A j \in 1..i - 1 : h1[j] = h2[j]
<1> DEFINE T == {i \in 1..HASH_LENGTH : h1[i] # h2[i]}
<1>1. HASH_LENGTH \in Nat
  BY HashCodecAssumption
<1>2. T \subseteq Nat /\ T # {}
  BY <1>1 DEF Hash
<1> HIDE DEF T
<1>3. \E i \in T : \A j \in T : ~(<<j, i>> \in OpToRel(<, Nat))
  BY <1>2, NatLessThanWellFounded, WFMin
<1>4. PICK i \in T : \A j \in T : ~(<<j, i>> \in OpToRel(<, Nat))
  BY <1>3
<1>5. \A j \in T : ~(j < i)
  BY <1>2, <1>4 DEF OpToRel
<1>6. i \in 1..HASH_LENGTH /\ h1[i] # h2[i]
  BY DEF T
<1>7. ASSUME NEW j \in 1..i - 1 PROVE h1[j] = h2[j]
  <2>1. j \in 1..HASH_LENGTH /\ j < i
    BY <1>1, <1>6
  <2> QED BY <1>5, <2>1 DEF T
<1> QED BY <1>6, <1>7

LEMMA CompareIs ==
  ASSUME NEW h1, NEW h2
  PROVE  compare_hash(h1, h2) = IF h1 = h2 THEN 0 ELSE IF Smaller(h1, h2) THEN -1 ELSE 1
BY DEF compare_hash, Smaller

\* Of two hashes that differ one is the smaller.
LEMMA OneIsSmaller ==
  ASSUME NEW h1 \in Hash, NEW h2 \in Hash, h1 # h2
  PROVE  Smaller(h1, h2) <=> ~Smaller(h2, h1)
<1>1. HASH_LENGTH \in Nat
  BY HashCodecAssumption
<1>2. PICK i \in 1..HASH_LENGTH : h1[i] # h2[i] /\ \A j \in 1..i - 1 : h1[j] = h2[j]
  BY FirstDifference
<1>3. h1[i] \in Nat /\ h2[i] \in Nat
  BY <1>1 DEF Hash, uint16_t
<1>4. Smaller(h1, h2) \/ Smaller(h2, h1)
  BY <1>2, <1>3 DEF Smaller
<1>5. ASSUME NEW k \in 1..HASH_LENGTH, h1[k] < h2[k], \A j \in 1..k - 1 : h1[j] = h2[j],
             NEW l \in 1..HASH_LENGTH, h2[l] < h1[l], \A j \in 1..l - 1 : h2[j] = h1[j]
      PROVE  FALSE
  <2>1. h1[k] \in Nat /\ h2[k] \in Nat /\ h1[l] \in Nat /\ h2[l] \in Nat
    BY <1>1 DEF Hash, uint16_t
  <2>2. k < l \/ l < k \/ k = l
    BY <1>1
  <2> QED BY <1>1, <1>5, <2>1, <2>2
<1> QED BY <1>4, <1>5 DEF Smaller

LEMMA SmallerIsTransitive ==
  ASSUME NEW h1 \in Hash, NEW h2 \in Hash, NEW h3 \in Hash, Smaller(h1, h2), Smaller(h2, h3)
  PROVE  Smaller(h1, h3)
<1>1. HASH_LENGTH \in Nat
  BY HashCodecAssumption
<1>2. PICK k \in 1..HASH_LENGTH : h1[k] < h2[k] /\ \A j \in 1..k - 1 : h1[j] = h2[j]
  BY DEF Smaller
<1>3. PICK l \in 1..HASH_LENGTH : h2[l] < h3[l] /\ \A j \in 1..l - 1 : h2[j] = h3[j]
  BY DEF Smaller
<1>4. \A i \in 1..HASH_LENGTH : h1[i] \in Nat /\ h2[i] \in Nat /\ h3[i] \in Nat
  BY DEF Hash, uint16_t
<1> DEFINE m == IF k < l THEN k ELSE l
<1>5. m \in 1..HASH_LENGTH /\ h1[m] < h3[m] /\ \A j \in 1..m - 1 : h1[j] = h3[j]
  BY <1>1, <1>2, <1>3, <1>4
<1> QED BY <1>5 DEF Smaller

\* Two hashes are equal exactly when compare_hash says so, which one is smaller
\* does not depend on the order of the arguments, and the order is transitive.
THEOREM CompareIsTotalOrder ==
  \A h1, h2, h3 \in Hash :
    /\ compare_hash(h1, h2) = 0 <=> h1 = h2
    /\ compare_hash(h1, h2) = -1 <=> compare_hash(h2, h1) = 1
    /\ compare_hash(h1, h2) = -1 /\ compare_hash(h2, h3) = -1 => compare_hash(h1, h3) = -1
<1> SUFFICES ASSUME NEW h1 \in Hash, NEW h2 \in Hash, NEW h3 \in Hash
    PROVE  /\ compare_hash(h1, h2) = 0 <=> h1 = h2
           /\ compare_hash(h1, h2) = -1 <=> compare_hash(h2, h1) = 1
           /\ compare_hash(h1, h2) = -1 /\ compare_hash(h2, h3) = -1 => compare_hash(h1, h3) = -1
  OBVIOUS
<1>1. \A a, b \in Hash : compare_hash(a, b) = -1 <=> a # b /\ Smaller(a, b)
  BY CompareIs
<1>2. \A a, b \in Hash : compare_hash(a, b) = 1 <=> a # b /\ ~Smaller(a, b)
  BY CompareIs
<1>3. compare_hash(h1, h2) = 0 <=> h1 = h2
  BY CompareIs
<1>4. compare_hash(h1, h2) = -1 <=> compare_hash(h2, h1) = 1
  BY <1>1, <1>2, OneIsSmaller
<1>5. ASSUME compare_hash(h1, h2) = -1, compare_hash(h2, h3) = -1 PROVE compare_hash(h1, h3) = -1
  <2>1. Smaller(h1, h3)
    BY <1>1, <1>5, SmallerIsTransitive
  <2>2. h1 # h3
    BY <1>1, <1>5, OneIsSmaller
  <2> QED BY <1>1, <2>1, <2>2
<1> QED BY <1>3, <1>4, <1>5

-----------------------------------------------------------------------------
(***************************************************************************)
(* Texts and numbers                                                       *)
(***************************************************************************)

\* Induction over the natural numbers, for the predicate "is in S".
LEMMA Induction ==
  ASSUME NEW S, 0 \in S, \A n \in Nat : n \in S => n + 1 \in S
  PROVE  \A n \in Nat : n \in S
<1> DEFINE T == {n \in Nat : n \notin S}
<1>1. SUFFICES ASSUME T # {} PROVE FALSE
  OBVIOUS
<1>2. T \subseteq Nat
  OBVIOUS
<1>3. \E n \in T : \A m \in T : ~(<<m, n>> \in OpToRel(<, Nat))
  <2> HIDE DEF T
  <2> QED BY <1>1, <1>2, NatLessThanWellFounded, WFMin
<1>4. PICK n \in T : \A m \in T : ~(<<m, n>> \in OpToRel(<, Nat))
  BY <1>3
<1>5. n # 0 /\ n - 1 \in Nat
  OBVIOUS
<1>6. n - 1 \in T
  BY <1>5
<1>7. <<n - 1, n>> \in OpToRel(<, Nat)
  BY <1>5 DEF OpToRel
<1> QED BY <1>4, <1>6, <1>7

\* f[n] is the number the first n digits write.
PrefixValues(f, digits) ==
  f = [n \in 0..Len(digits) |-> IF n = 0 THEN 0 ELSE 16 * f[n - 1] + digits[n]]

prefixes(digits) == CHOOSE f : PrefixValues(f, digits)

LEMMA StrtolIs ==
  ASSUME NEW digits
  PROVE  strtol(digits) = prefixes(digits)[Len(digits)]
BY DEF strtol, prefixes, PrefixValues

LEMMA PrefixesExist ==
  ASSUME NEW digits \in Seq(Digit)
  PROVE  PrefixValues(prefixes(digits), digits)
<1> DEFINE Upto(f, m) == f = [n \in 0..m |-> IF n = 0 THEN 0 ELSE 16 * f[n - 1] + digits[n]]
           S == {m \in Nat : \E f : Upto(f, m)}
<1>1. 0 \in S
  <2>1. Upto([n \in 0..0 |-> 0], 0)
    OBVIOUS
  <2> QED BY <2>1
<1>2. ASSUME NEW m \in Nat, m \in S PROVE m + 1 \in S
  <2>1. PICK f : Upto(f, m)
    BY <1>2
  <2> DEFINE g == [n \in 0..m + 1 |-> IF n <= m THEN f[n] ELSE 16 * f[m] + digits[m + 1]]
  <2>2. ASSUME NEW n \in 0..m + 1
        PROVE  g[n] = IF n = 0 THEN 0 ELSE 16 * g[n - 1] + digits[n]
    <3>1. CASE n = 0
      BY <2>1, <3>1
    <3>2. CASE n # 0 /\ n <= m
      BY <2>1, <3>2
    <3>3. CASE n = m + 1
      BY <2>1, <3>3
    <3> QED BY <3>1, <3>2, <3>3
  <2>3. Upto(g, m + 1)
    BY <2>2
  <2> HIDE DEF g
  <2>4. \E v : Upto(v, m + 1)
    BY <2>3
  <2> QED BY <2>4
<1>3. Len(digits) \in S
  <2>1. Len(digits) \in Nat
    OBVIOUS
  <2> HIDE DEF S
  <2> QED BY <1>1, <1>2, <2>1, Induction
<1> QED BY <1>3 DEF prefixes, PrefixValues

LEMMA PrefixesAre ==
  ASSUME NEW digits \in Seq(Digit)
  PROVE  /\ prefixes(digits)[0] = 0
         /\ \A n \in 1..Len(digits) :
              prefixes(digits)[n] = 16 * prefixes(digits)[n - 1] + digits[n]
<1>1. PrefixValues(prefixes(digits), digits)
  BY PrefixesExist
<1>2. Len(digits) \in Nat
  OBVIOUS
<1> QED BY <1>1, <1>2 DEF PrefixValues

LEMMA PrefixesAreNat ==
  ASSUME NEW digits \in Seq(Digit)
  PROVE  \A n \in 0..Len(digits) : prefixes(digits)[n] \in Nat
<1> DEFINE S == {n \in Nat : n <= Len(digits) => prefixes(digits)[n] \in Nat}
<1>1. Len(digits) \in Nat /\ \A n \in 1..Len(digits) : digits[n] \in Nat
  BY ElementOfSeq DEF Digit
<1>2. 0 \in S
  BY PrefixesAre
<1>3. ASSUME NEW n \in Nat, n \in S PROVE n + 1 \in S
  <2>1. CASE n + 1 <= Len(digits)
    <3>1. n + 1 \in 1..Len(digits) /\ prefixes(digits)[n] \in Nat
      BY <1>1, <1>3, <2>1
    <3>2. prefixes(digits)[n + 1] = 16 * prefixes(digits)[(n + 1) - 1] + digits[n + 1]
      BY <3>1, PrefixesAre
    <3> QED BY <1>1, <3>1, <3>2
  <2> QED BY <1>1, <2>1
<1>4. \A n \in Nat : n \in S
  <2> HIDE DEF S
  <2> QED BY <1>2, <1>3, Induction
<1> QED BY <1>1, <1>4

\* A text with zeros in front, as long as a hash is printed.
Padded(text) ==
  LET zeros == 4 * HASH_LENGTH - Len(text)
  IN  [k \in 1..4 * HASH_LENGTH |-> IF k <= zeros THEN 0 ELSE text[k - zeros]]

\* The number of the four digits from place 4 * i - 3 on.
Word(digits, i) ==
  4096 * digits[4 * i - 3] + 256 * digits[4 * i - 2] + 16 * digits[4 * i - 1] + digits[4 * i]

\* The texts that the code may be given.
Readable == {text \in Seq(Digit) : Len(text) <= 4 * HASH_LENGTH}
Printed == [1..4 * HASH_LENGTH -> Digit]

LEMMA PrintedAreSeq ==
  /\ HASH_LENGTH \in Nat /\ 4 * HASH_LENGTH \in Nat
  /\ \A text \in Printed : text \in Seq(Digit) /\ Len(text) = 4 * HASH_LENGTH
<1>1. HASH_LENGTH \in Nat /\ 4 * HASH_LENGTH \in Nat
  BY HashCodecAssumption
<1>2. ASSUME NEW n \in Nat, NEW text \in [1..n -> Digit]
      PROVE  text \in Seq(Digit) /\ Len(text) = n
  BY <1>2
<1> QED BY <1>1, <1>2 DEF Printed

LEMMA PaddedIsPrinted ==
  ASSUME NEW text \in Readable
  PROVE  Padded(text) \in Printed
<1>1. HASH_LENGTH \in Nat /\ Len(text) \in Nat /\ Len(text) <= 4 * HASH_LENGTH
  BY HashCodecAssumption DEF Readable
<1>2. \A i \in 1..Len(text) : text[i] \in Digit
  BY ElementOfSeq DEF Readable
<1>3. ASSUME NEW k \in 1..4 * HASH_LENGTH, ~(k <= 4 * HASH_LENGTH - Len(text))
      PROVE  k - (4 * HASH_LENGTH - Len(text)) \in 1..Len(text)
  BY <1>1, <1>3
<1> QED BY <1>2, <1>3 DEF Padded, Printed, Digit

\* Zeros in front do not change the number.
LEMMA PaddedWritesTheSame ==
  ASSUME NEW text \in Readable
  PROVE  strtol(Padded(text)) = strtol(text)
<1> DEFINE p == Padded(text)
           z == 4 * HASH_LENGTH - Len(text)
<1>1. HASH_LENGTH \in Nat /\ Len(text) \in Nat /\ z \in Nat /\ z + Len(text) = 4 * HASH_LENGTH
  BY HashCodecAssumption DEF Readable
<1>2. p \in Seq(Digit) /\ Len(p) = z + Len(text) /\ text \in Seq(Digit)
  BY <1>1, PaddedIsPrinted, PrintedAreSeq DEF Readable
<1>3. \A k \in 1..z : p[k] = 0
  BY <1>1 DEF Padded
<1>4. \A k \in 1..Len(text) : p[z + k] = text[k]
  BY <1>1 DEF Padded
<1> HIDE DEF p, z
<1> DEFINE Z == {k \in Nat : k <= z => prefixes(p)[k] = 0}
<1>5. 0 \in Z
  BY <1>2, PrefixesAre
<1>6. ASSUME NEW k \in Nat, k \in Z PROVE k + 1 \in Z
  <2>1. CASE k + 1 <= z
    <3>1. k + 1 \in 1..Len(p) /\ k + 1 \in 1..z /\ prefixes(p)[k] = 0 /\ (k + 1) - 1 = k
      BY <1>1, <1>2, <1>6, <2>1
    <3>2. prefixes(p)[k + 1] = 16 * prefixes(p)[k] + p[k + 1]
      BY <1>2, <3>1, PrefixesAre
    <3> QED BY <1>3, <3>1, <3>2
  <2> QED BY <1>1, <2>1
<1>7. prefixes(p)[z] = 0
  <2>1. \A k \in Nat : k \in Z
    <3> HIDE DEF Z
    <3> QED BY <1>5, <1>6, Induction
  <2> QED BY <1>1, <2>1
<1> DEFINE S == {k \in Nat : k <= Len(text) => prefixes(p)[z + k] = prefixes(text)[k]}
<1>8. 0 \in S
  BY <1>1, <1>2, <1>7, PrefixesAre
<1>9. ASSUME NEW k \in Nat, k \in S PROVE k + 1 \in S
  <2>1. CASE k + 1 <= Len(text)
    <3>1. k + 1 \in 1..Len(text) /\ z + (k + 1) \in 1..Len(p) /\ (z + (k + 1)) - 1 = z + k
          /\ (k + 1) - 1 = k /\ prefixes(p)[z + k] = prefixes(text)[k]
      BY <1>1, <1>2, <1>9, <2>1
    <3>2. prefixes(p)[z + (k + 1)] = 16 * prefixes(p)[z + k] + p[z + (k + 1)]
      BY <1>2, <3>1, PrefixesAre
    <3>3. prefixes(text)[k + 1] = 16 * prefixes(text)[k] + text[k + 1]
      BY <1>2, <3>1, PrefixesAre
    <3> QED BY <1>4, <3>1, <3>2, <3>3
  <2> QED BY <1>1, <2>1
<1>10. prefixes(p)[z + Len(text)] = prefixes(text)[Len(text)]
  <2>1. \A k \in Nat : k \in S
    <3> HIDE DEF S
    <3> QED BY <1>8, <1>9, Induction
  <2> QED BY <1>1, <2>1
<1> QED BY <1>2, <1>10, StrtolIs DEF p

\* What strtol makes of the pieces of a text: four digits at most.
LEMMA StrtolOfPiece ==
  ASSUME NEW d \in Seq(Digit)
  PROVE  /\ Len(d) = 1 => strtol(d) = d[1]
         /\ Len(d) = 2 => strtol(d) = 16 * d[1] + d[2]
         /\ Len(d) = 3 => strtol(d) = 256 * d[1] + 16 * d[2] + d[3]
         /\ Len(d) = 4 => strtol(d) = 4096 * d[1] + 256 * d[2] + 16 * d[3] + d[4]
<1> DEFINE f == prefixes(d)
<1>1. \A n \in 1..Len(d) : d[n] \in Nat
  BY ElementOfSeq DEF Digit
<1>2. f[0] = 0 /\ \A n \in 1..Len(d) : f[n] = 16 * f[n - 1] + d[n]
  BY PrefixesAre
<1>3. strtol(d) = f[Len(d)]
  BY StrtolIs
<1> HIDE DEF f
<1>4. ASSUME Len(d) \in 1..4 PROVE f[1] = d[1]
  BY <1>1, <1>2, <1>4
<1>5. ASSUME Len(d) \in 2..4 PROVE f[2] = 16 * d[1] + d[2]
  <2>1. f[2] = 16 * f[1] + d[2]
    BY <1>2, <1>5
  <2> QED BY <1>1, <1>4, <1>5, <2>1
<1>6. ASSUME Len(d) \in 3..4 PROVE f[3] = 256 * d[1] + 16 * d[2] + d[3]
  <2>1. f[3] = 16 * f[2] + d[3]
    BY <1>2, <1>6
  <2> QED BY <1>1, <1>5, <1>6, <2>1
<1>7. ASSUME Len(d) = 4 PROVE f[4] = 4096 * d[1] + 256 * d[2] + 16 * d[3] + d[4]
  <2>1. f[4] = 16 * f[3] + d[4]
    BY <1>2, <1>7
  <2> QED BY <1>1, <1>6, <1>7, <2>1
<1>8. Len(d) = 1 => strtol(d) = d[1]
  BY <1>3, <1>4
<1>9. Len(d) = 2 => strtol(d) = 16 * d[1] + d[2]
  BY <1>3, <1>5
<1>10. Len(d) = 3 => strtol(d) = 256 * d[1] + 16 * d[2] + d[3]
  BY <1>3, <1>6
<1>11. Len(d) = 4 => strtol(d) = 4096 * d[1] + 256 * d[2] + 16 * d[3] + d[4]
  BY <1>3, <1>7
<1> QED BY <1>8, <1>9, <1>10, <1>11

\* Wherever the text is cut, every word of the hash is made of four digits of
\* the text with zeros in front.
LEMMA ReadIs ==
  ASSUME NEW text \in Readable
  PROVE  char_to_uint16_t_hash(text) = [i \in 1..HASH_LENGTH |-> Word(Padded(text), i)]
<1> DEFINE n == Len(text)
           odd == n % 4
           words == n \div 4 + (IF odd = 0 THEN 0 ELSE 1)
           skip == HASH_LENGTH - words
           zeros == 4 * HASH_LENGTH - n
           tmp(j) == IF odd = 0 THEN SubSeq(text, 4 * j + 1, 4 * j + 4)
                     ELSE IF j = 0 THEN SubSeq(text, 1, odd)
                     ELSE SubSeq(text, odd + 4 * (j - 1) + 1, odd + 4 * j)
<1>1. HASH_LENGTH \in Nat /\ n \in Nat /\ n <= 4 * HASH_LENGTH /\ text \in Seq(Digit)
  BY HashCodecAssumption DEF Readable
<1>2. \A i \in 1..n : text[i] \in Digit
  BY <1>1, ElementOfSeq
<1>3. char_to_uint16_t_hash(text) =
        [i \in 1..HASH_LENGTH |-> IF i <= skip THEN 0 ELSE strtol(tmp(i - skip - 1))]
  BY <1>2 DEF char_to_uint16_t_hash
<1>4. odd \in 0..3 /\ n = 4 * (n \div 4) + odd /\ n \div 4 \in Nat
  BY <1>1
<1>5. \A k \in 1..4 * HASH_LENGTH :
        Padded(text)[k] = IF k <= zeros THEN 0 ELSE text[k - zeros]
  BY DEF Padded
<1>6. ASSUME NEW i \in 1..HASH_LENGTH, i <= skip PROVE Word(Padded(text), i) = 0
  <2>1. 4 * i <= zeros
    BY <1>1, <1>4, <1>6
  <2>2. \A k \in {4 * i - 3, 4 * i - 2, 4 * i - 1, 4 * i} : k \in 1..4 * HASH_LENGTH /\ k <= zeros
    BY <1>1, <2>1
  <2> HIDE DEF zeros
  <2>3. \A k \in {4 * i - 3, 4 * i - 2, 4 * i - 1, 4 * i} : Padded(text)[k] = 0
    BY <1>5, <2>2
  <2> QED BY <2>3 DEF Word
<1>7. ASSUME NEW m \in 1..n, NEW l \in m..n
      PROVE  /\ SubSeq(text, m, l) \in Seq(Digit)
             /\ Len(SubSeq(text, m, l)) = l - m + 1
             /\ \A k \in 1..l - m + 1 : SubSeq(text, m, l)[k] = text[m + k - 1]
  <2>1. m \in Int /\ l \in Int /\ m <= l /\ \A k \in m..l : text[k] \in Digit
    BY <1>1, <1>2, <1>7
  <2> QED BY <2>1, SubSeqProperties
<1>8. ASSUME NEW i \in 1..HASH_LENGTH, ~(i <= skip)
      PROVE  strtol(tmp(i - skip - 1)) = Word(Padded(text), i)
  <2> DEFINE j == i - skip - 1
  <2>1. j \in Nat /\ j < words
    BY <1>1, <1>4, <1>8
  <2>4. words \in Nat /\ (odd = 0 => words = n \div 4) /\ (odd # 0 => words = n \div 4 + 1)
    BY <1>4
  <2>2. CASE odd = 0 \/ j # 0
    <3> DEFINE m == IF odd = 0 THEN 4 * j + 1 ELSE odd + 4 * (j - 1) + 1
               piece == SubSeq(text, m, m + 3)
    <3>1. m \in 1..n /\ m + 3 \in m..n /\ m = 4 * i - 3 - zeros
      <4>1. i \in Nat /\ i <= HASH_LENGTH /\ i = j + 1 + HASH_LENGTH - words
        BY <1>1, <2>1, <2>4
      <4>2. CASE odd = 0
        BY <1>1, <1>4, <2>1, <2>4, <4>1, <4>2
      <4>3. CASE odd # 0
        <5>1. j # 0
          BY <2>2, <4>3
        <5> QED BY <1>1, <1>4, <2>1, <2>4, <4>1, <4>3, <5>1
      <4> QED BY <4>2, <4>3
    <3>2. tmp(i - skip - 1) = piece
      <4>1. CASE odd = 0
        BY <1>1, <2>1, <4>1
      <4>2. CASE odd # 0
        <5>1. j # 0
          BY <2>2, <4>2
        <5>2. m + 3 = odd + 4 * j
          BY <1>4, <2>1, <4>2
        <5> QED BY <4>2, <5>1, <5>2
      <4> QED BY <4>1, <4>2
    <3> HIDE DEF m
    <3>3. (m + 3) - m + 1 = 4 /\ m + 1 - 1 = m /\ m + 2 - 1 = m + 1 /\ m + 3 - 1 = m + 2
          /\ m + 4 - 1 = m + 3
      BY <1>1, <3>1
    <3>4. piece \in Seq(Digit) /\ Len(piece) = 4 /\ \A k \in 1..4 : piece[k] = text[m + k - 1]
      BY <1>7, <3>1, <3>3
    <3>5. piece[1] = text[m] /\ piece[2] = text[m + 1] /\ piece[3] = text[m + 2]
          /\ piece[4] = text[m + 3]
      BY <3>3, <3>4
    <3>6. \A k \in {4 * i - 3, 4 * i - 2, 4 * i - 1, 4 * i} :
            k \in 1..4 * HASH_LENGTH /\ ~(k <= zeros)
      BY <1>1, <3>1
    <3>7. /\ (4 * i - 3) - zeros = m /\ (4 * i - 2) - zeros = m + 1
          /\ (4 * i - 1) - zeros = m + 2 /\ (4 * i) - zeros = m + 3
      BY <1>1, <3>1
    <3> HIDE DEF piece, zeros
    <3>8. /\ Padded(text)[4 * i - 3] = text[m] /\ Padded(text)[4 * i - 2] = text[m + 1]
          /\ Padded(text)[4 * i - 1] = text[m + 2] /\ Padded(text)[4 * i] = text[m + 3]
      BY <1>5, <3>6, <3>7
    <3>9. strtol(piece) = Word(Padded(text), i)
      BY <3>4, <3>5, <3>8, StrtolOfPiece DEF Word
    <3> QED BY <3>2, <3>9
  <2>3. CASE odd # 0 /\ j = 0
    <3> DEFINE piece == SubSeq(text, 1, odd)
    <3>1. tmp(i - skip - 1) = piece
      BY <2>3
    <3>2. 1 \in 1..n /\ odd \in 1..n /\ zeros = 4 * i - odd
      BY <1>1, <1>4, <1>8, <2>3
    <3>3. piece \in Seq(Digit) /\ Len(piece) = odd /\ \A k \in 1..odd : piece[k] = text[k]
      BY <1>1, <1>4, <1>7, <3>2
    <3>4. \A k \in 4 * i - 3..4 * i :
            Padded(text)[k] = IF k <= zeros THEN 0 ELSE piece[k - zeros]
      BY <1>1, <1>4, <1>5, <3>2, <3>3
    <3>5. ASSUME NEW k \in 1..odd PROVE piece[k] \in Nat
      <4>1. odd \in Nat /\ odd <= n
        BY <1>1, <1>4, <3>2
      <4> HIDE DEF odd, n
      <4>2. k \in 1..n
        BY <1>1, <4>1
      <4> QED BY <1>2, <3>3, <4>2 DEF Digit
    <3> HIDE DEF piece, odd, zeros
    <3>6. strtol(piece) = Word(Padded(text), i)
      <4>1. CASE odd = 1
        BY <1>1, <3>2, <3>3, <3>4, <3>5, <4>1, StrtolOfPiece DEF Word
      <4>2. CASE odd = 2
        BY <1>1, <3>2, <3>3, <3>4, <3>5, <4>2, StrtolOfPiece DEF Word
      <4>3. CASE odd = 3
        BY <1>1, <3>2, <3>3, <3>4, <3>5, <4>3, StrtolOfPiece DEF Word
      <4> QED BY <1>4, <2>3, <4>1, <4>2, <4>3
    <3> QED BY <3>1, <3>6
  <2> QED BY <2>2, <2>3
<1> QED BY <1>3, <1>6, <1>8

LEMMA WordsAreHash ==
  ASSUME NEW p \in Printed
  PROVE  /\ [i \in 1..HASH_LENGTH |-> Word(p, i)] \in Hash
         /\ \A i \in 1..HASH_LENGTH : Word(p, i) \in uint16_t
<1>1. ASSUME NEW i \in 1..HASH_LENGTH PROVE Word(p, i) \in uint16_t
  <2>1. \A k \in {4 * i - 3, 4 * i - 2, 4 * i - 1, 4 * i} : k \in 1..4 * HASH_LENGTH
    BY HashCodecAssumption
  <2>2. \A k \in {4 * i - 3, 4 * i - 2, 4 * i - 1, 4 * i} : p[k] \in 0..15
    BY <2>1 DEF Printed, Digit
  <2> DEFINE a == p[4 * i - 3]
             b == p[4 * i - 2]
             c == p[4 * i - 1]
             d == p[4 * i]
  <2>3. Word(p, i) = 4096 * a + 256 * b + 16 * c + d
    BY DEF Word
  <2>4. a \in 0..15 /\ b \in 0..15 /\ c \in 0..15 /\ d \in 0..15
    BY <2>2
  <2> HIDE DEF a, b, c, d
  <2> QED BY <2>3, <2>4 DEF uint16_t
<1> QED BY <1>1 DEF Hash

\* What is printed of a word are its four digits.
LEMMA PrintIs ==
  ASSUME NEW p \in Printed
  PROVE  uint16_t_to_char_hash([i \in 1..HASH_LENGTH |-> Word(p, i)]) = p
<1> DEFINE h == [i \in 1..HASH_LENGTH |-> Word(p, i)]
<1>1. HASH_LENGTH \in Nat
  BY HashCodecAssumption
<1>2. \A a, b, c, d \in 0..15 :
        /\ ((4096 * a + 256 * b + 16 * c + d) \div 4096) % 16 = a
        /\ ((4096 * a + 256 * b + 16 * c + d) \div 256) % 16 = b
        /\ ((4096 * a + 256 * b + 16 * c + d) \div 16) % 16 = c
        /\ ((4096 * a + 256 * b + 16 * c + d) \div 1) % 16 = d
  OBVIOUS
<1>3. 16 ^ 0 = 1 /\ 16 ^ 1 = 16 /\ 16 ^ 2 = 256 /\ 16 ^ 3 = 4096
  OBVIOUS
<1>4. ASSUME NEW k \in 1..4 * HASH_LENGTH
      PROVE  (h[(k + 3) \div 4] \div 16 ^ ((4 * HASH_LENGTH - k) % 4)) % 16 = p[k]
  <2> DEFINE i == (k + 3) \div 4
             e == (4 * HASH_LENGTH - k) % 4
  <2>1. i \in 1..HASH_LENGTH /\ e \in 0..3 /\ k = 4 * i - e
    BY <1>1
  <2>2. h[i] = Word(p, i)
    BY <2>1
  <2>3. \A l \in {4 * i - 3, 4 * i - 2, 4 * i - 1, 4 * i} : l \in 1..4 * HASH_LENGTH
    BY <1>1, <2>1
  <2>4. \A l \in {4 * i - 3, 4 * i - 2, 4 * i - 1, 4 * i} : p[l] \in 0..15
    BY <2>3 DEF Printed, Digit
  <2> HIDE DEF i, e, h
  <2>5. /\ (Word(p, i) \div 4096) % 16 = p[4 * i - 3] /\ (Word(p, i) \div 256) % 16 = p[4 * i - 2]
        /\ (Word(p, i) \div 16) % 16 = p[4 * i - 1] /\ (Word(p, i) \div 1) % 16 = p[4 * i]
    <3> DEFINE a == p[4 * i - 3]
               b == p[4 * i - 2]
               c == p[4 * i - 1]
               d == p[4 * i]
    <3>1. Word(p, i) = 4096 * a + 256 * b + 16 * c + d
      BY DEF Word
    <3>2. a \in 0..15 /\ b \in 0..15 /\ c \in 0..15 /\ d \in 0..15
      BY <2>4
    <3> HIDE DEF a, b, c, d
    <3>3. /\ (Word(p, i) \div 4096) % 16 = a /\ (Word(p, i) \div 256) % 16 = b
          /\ (Word(p, i) \div 16) % 16 = c /\ (Word(p, i) \div 1) % 16 = d
      BY <1>2, <3>1, <3>2
    <3> QED BY <3>3 DEF a, b, c, d
  <2>6. k = 4 * i - e /\ 4 * i - 0 = 4 * i
    BY <2>1
  <2>7. (Word(p, i) \div 16 ^ e) % 16 = p[4 * i - e]
    <3>1. CASE e = 0
      BY <1>3, <2>5, <2>6, <3>1
    <3>2. CASE e = 1
      BY <1>3, <2>5, <3>2
    <3>3. CASE e = 2
      BY <1>3, <2>5, <3>3
    <3>4. CASE e = 3
      BY <1>3, <2>5, <3>4
    <3> QED BY <2>1, <3>1, <3>2, <3>3, <3>4
  <2> QED BY <2>2, <2>6, <2>7 DEF i, e
<1> HIDE DEF h
<1>5. uint16_t_to_char_hash(h) = [k \in 1..4 * HASH_LENGTH |-> p[k]]
  BY <1>4 DEF uint16_t_to_char_hash
<1> QED BY <1>5 DEF h, Printed

\* Reading appends one word after the other to the number.
LEMMA WordByWord ==
  ASSUME NEW p \in Printed, NEW i \in 1..HASH_LENGTH
  PROVE  /\ prefixes(p)[4 * (i - 1)] \in Nat /\ prefixes(p)[4 * i] \in Nat
         /\ prefixes(p)[4 * i] = 65536 * prefixes(p)[4 * (i - 1)] + Word(p, i)
<1> DEFINE f == prefixes(p)
<1>1. p \in Seq(Digit) /\ Len(p) = 4 * HASH_LENGTH /\ HASH_LENGTH \in Nat
  BY PrintedAreSeq
<1>2. \A k \in {4 * i - 3, 4 * i - 2, 4 * i - 1, 4 * i} :
        k \in 1..Len(p) /\ k - 1 \in 0..Len(p) /\ k \in 0..Len(p)
  BY <1>1
<1>3. \A k \in {4 * i - 3, 4 * i - 2, 4 * i - 1, 4 * i} :
        f[k] = 16 * f[k - 1] + p[k] /\ f[k] \in Nat /\ f[k - 1] \in Nat /\ p[k] \in 0..15
  BY <1>1, <1>2, PrefixesAre, PrefixesAreNat DEF Printed, Digit
<1>4. 4 * (i - 1) = (4 * i - 3) - 1 /\ 4 * i - 3 = (4 * i - 2) - 1 /\ 4 * i - 2 = (4 * i - 1) - 1
      /\ 4 * i - 1 = (4 * i) - 1
  OBVIOUS
<1> HIDE DEF f
<1>5. /\ f[4 * i - 3] = 16 * f[4 * (i - 1)] + p[4 * i - 3]
      /\ f[4 * i - 2] = 16 * f[4 * i - 3] + p[4 * i - 2]
      /\ f[4 * i - 1] = 16 * f[4 * i - 2] + p[4 * i - 1]
      /\ f[4 * i] = 16 * f[4 * i - 1] + p[4 * i]
  BY <1>3, <1>4
<1>6. f[4 * (i - 1)] \in Nat /\ f[4 * i] \in Nat
  BY <1>3, <1>4
<1>7. f[4 * i] = 65536 * f[4 * (i - 1)] + Word(p, i)
  <2> DEFINE a == p[4 * i - 3]
             b == p[4 * i - 2]
             c == p[4 * i - 1]
             d == p[4 * i]
  <2>1. Word(p, i) = 4096 * a + 256 * b + 16 * c + d
    BY DEF Word
  <2>2. a \in 0..15 /\ b \in 0..15 /\ c \in 0..15 /\ d \in 0..15
    BY <1>3
  <2>3. /\ f[4 * i - 3] = 16 * f[4 * (i - 1)] + a /\ f[4 * i - 2] = 16 * f[4 * i - 3] + b
        /\ f[4 * i - 1] = 16 * f[4 * i - 2] + c /\ f[4 * i] = 16 * f[4 * i - 1] + d
    BY <1>5
  <2> HIDE DEF a, b, c, d
  <2> QED BY <1>6, <2>1, <2>2, <2>3
<1> QED BY <1>6, <1>7 DEF f

\* The first word in which two texts differ decides which number is smaller.
LEMMA SmallerIsLess ==
  ASSUME NEW p \in Printed, NEW q \in Printed, NEW i \in 1..HASH_LENGTH,
         Word(p, i) < Word(q, i), \A j \in 1..i - 1 : Word(p, j) = Word(q, j)
  PROVE  strtol(p) < strtol(q)
<1> DEFINE f == prefixes(p)
           g == prefixes(q)
           S == {n \in Nat : n <= HASH_LENGTH =>
                   IF n < i THEN f[4 * n] = g[4 * n] ELSE f[4 * n] < g[4 * n]}
<1>1. /\ HASH_LENGTH \in Nat
      /\ p \in Seq(Digit) /\ Len(p) = 4 * HASH_LENGTH
      /\ q \in Seq(Digit) /\ Len(q) = 4 * HASH_LENGTH
  BY PrintedAreSeq
<1>2. 0 \in S
  <2>1. f[0] = 0 /\ g[0] = 0
    BY <1>1, PrefixesAre
  <2> HIDE DEF f, g
  <2> QED BY <2>1
<1>3. ASSUME NEW n \in Nat, n \in S PROVE n + 1 \in S
  <2>1. CASE n + 1 <= HASH_LENGTH
    <3>1. n + 1 \in 1..HASH_LENGTH /\ (n + 1) - 1 = n
      BY <1>1, <2>1
    <3>2. f[4 * n] \in Nat /\ f[4 * (n + 1)] = 65536 * f[4 * n] + Word(p, n + 1)
      BY <3>1, WordByWord
    <3>3. g[4 * n] \in Nat /\ g[4 * (n + 1)] = 65536 * g[4 * n] + Word(q, n + 1)
      BY <3>1, WordByWord
    <3>4. Word(p, n + 1) \in uint16_t /\ Word(q, n + 1) \in uint16_t
      BY <3>1, WordsAreHash
    <3>5. IF n < i THEN f[4 * n] = g[4 * n] ELSE f[4 * n] < g[4 * n]
      BY <1>1, <1>3, <2>1
    <3> HIDE DEF f, g
    <3>6. CASE n + 1 < i
      <4>1. Word(p, n + 1) = Word(q, n + 1) /\ n < i
        BY <3>6
      <4> QED BY <3>2, <3>3, <3>5, <3>6, <4>1
    <3>7. CASE n + 1 = i
      BY <3>2, <3>3, <3>4, <3>5, <3>7 DEF uint16_t
    <3>8. CASE n >= i
      BY <3>2, <3>3, <3>4, <3>5, <3>8 DEF uint16_t
    <3> QED BY <3>6, <3>7, <3>8
  <2> QED BY <1>1, <2>1
<1>4. HASH_LENGTH \in S
  <2> HIDE DEF S
  <2> QED BY <1>1, <1>2, <1>3, Induction
<1>5. f[4 * HASH_LENGTH] < g[4 * HASH_LENGTH]
  <2> HIDE DEF f, g
  <2> QED BY <1>1, <1>4
<1> QED BY <1>1, <1>5, StrtolIs

\* Two texts write the same number exactly when they have the same words, and
\* otherwise the first word that differs orders the numbers.
LEMMA WordsOrderNumbers ==
  ASSUME NEW p \in Printed, NEW q \in Printed
  PROVE  LET h1 == [i \in 1..HASH_LENGTH |-> Word(p, i)]
             h2 == [i \in 1..HASH_LENGTH |-> Word(q, i)]
         IN  /\ strtol(p) \in Nat /\ strtol(q) \in Nat
             /\ compare_hash(h1, h2) = Sign(strtol(p) - strtol(q))
<1> DEFINE h1 == [i \in 1..HASH_LENGTH |-> Word(p, i)]
           h2 == [i \in 1..HASH_LENGTH |-> Word(q, i)]
<1>1. h1 \in Hash /\ h2 \in Hash
  BY WordsAreHash
<1>2. strtol(p) \in Nat /\ strtol(q) \in Nat
  BY PrintedAreSeq, PrefixesAreNat, StrtolIs
<1> SUFFICES compare_hash(h1, h2) = Sign(strtol(p) - strtol(q))
  BY <1>2
<1>3. \A i \in 1..HASH_LENGTH : h1[i] = Word(p, i) /\ h2[i] = Word(q, i)
  OBVIOUS
<1>4. HASH_LENGTH \in Nat
  BY HashCodecAssumption
<1>5. CASE h1 = h2
  <2>1. p = q
    BY <1>5, PrintIs
  <2>2. compare_hash(h1, h2) = 0
    BY <1>5 DEF compare_hash
  <2> QED BY <1>2, <2>1, <2>2 DEF Sign
<1>6. CASE h1 # h2 /\ Smaller(h1, h2)
  <2>1. PICK i \in 1..HASH_LENGTH : h1[i] < h2[i] /\ \A j \in 1..i - 1 : h1[j] = h2[j]
    BY <1>6 DEF Smaller
  <2>2. \A j \in 1..i - 1 : j \in 1..HASH_LENGTH
    BY <1>4
  <2>3. Word(p, i) < Word(q, i) /\ \A j \in 1..i - 1 : Word(p, j) = Word(q, j)
    BY <1>3, <2>1, <2>2
  <2>4. strtol(p) < strtol(q)
    BY <2>3, SmallerIsLess
  <2>5. compare_hash(h1, h2) = -1
    BY <1>6, CompareIs
  <2> HIDE DEF h1, h2
  <2> QED BY <1>2, <2>4, <2>5 DEF Sign
<1>7. CASE h1 # h2 /\ ~Smaller(h1, h2)
  <2>1. Smaller(h2, h1)
    BY <1>1, <1>7, OneIsSmaller
  <2>2. PICK i \in 1..HASH_LENGTH : h2[i] < h1[i] /\ \A j \in 1..i - 1 : h2[j] = h1[j]
    BY <2>1 DEF Smaller
  <2>3. \A j \in 1..i - 1 : j \in 1..HASH_LENGTH
    BY <1>4
  <2>4. Word(q, i) < Word(p, i) /\ \A j \in 1..i - 1 : Word(q, j) = Word(p, j)
    BY <1>3, <2>2, <2>3
  <2>5. strtol(q) < strtol(p)
    BY <2>4, SmallerIsLess
  <2>6. compare_hash(h1, h2) = 1
    BY <1>7, CompareIs
  <2> HIDE DEF h1, h2
  <2> QED BY <1>2, <2>5, <2>6 DEF Sign
<1> QED BY <1>5, <1>6, <1>7

\* A text that is as long as a hash is printed has no zeros to be added.
LEMMA PrintedIsPadded ==
  ASSUME NEW p \in Printed
  PROVE  p \in Readable /\ Padded(p) = p
<1>1. Len(p) = 4 * HASH_LENGTH /\ p \in Seq(Digit) /\ HASH_LENGTH \in Nat
  BY PrintedAreSeq
<1>2. \A k \in 1..4 * HASH_LENGTH : ~(k <= 4 * HASH_LENGTH - Len(p))
                                    /\ k - (4 * HASH_LENGTH - Len(p)) = k
  BY <1>1
<1> QED BY <1>1, <1>2 DEF Padded, Printed, Readable

LEMMA Remainder ==
  ASSUME NEW m \in Nat, NEW q \in Nat, 16 * q <= m, m < 16 * q + 16
  PROVE  m % 16 = m - 16 * q
OBVIOUS

\* The four digits of a word.
LEMMA DigitsOfWord ==
  ASSUME NEW w \in uint16_t
  PROVE  /\ \A n \in {1, 16, 256, 4096} : (w \div n) % 16 \in Digit
         /\ 4096 * ((w \div 4096) % 16) + 256 * ((w \div 256) % 16)
              + 16 * ((w \div 16) % 16) + ((w \div 1) % 16) = w
<1>1. w \in Nat /\ w < 65536 /\ w \div 1 = w
  BY DEF uint16_t
<1>2. PICK x, y, z : x = w \div 16 /\ y = w \div 256 /\ z = w \div 4096
  OBVIOUS
<1>3. /\ x \in Nat /\ 16 * x <= w /\ w < 16 * x + 16
      /\ y \in Nat /\ 256 * y <= w /\ w < 256 * y + 256
      /\ z \in Nat /\ 4096 * z <= w /\ w < 4096 * z + 4096
  BY <1>1, <1>2
<1>4. 16 * y <= x /\ x < 16 * y + 16 /\ 16 * z <= y /\ y < 16 * z + 16 /\ z < 16
  BY <1>1, <1>3
<1>5. w % 16 = w - 16 * x /\ x % 16 = x - 16 * y /\ y % 16 = y - 16 * z
  BY <1>1, <1>3, <1>4, Remainder
<1>6. z % 16 = z
  BY <1>3, <1>4
<1>7. 4096 * (z % 16) + 256 * (y % 16) + 16 * (x % 16) + (w % 16) = w
  BY <1>1, <1>3, <1>5, <1>6
<1>8. z % 16 \in 0..15 /\ y % 16 \in 0..15 /\ x % 16 \in 0..15 /\ w % 16 \in 0..15
  BY <1>1, <1>3
<1>9. \A n \in {1, 16, 256, 4096} : (w \div n) % 16 \in Digit
  BY <1>1, <1>2, <1>8 DEF Digit
<1>10. 4096 * ((w \div 4096) % 16) + 256 * ((w \div 256) % 16)
         + 16 * ((w \div 16) % 16) + ((w \div 1) % 16) = w
  <2>1. /\ (w \div 4096) % 16 = z % 16 /\ (w \div 256) % 16 = y % 16
        /\ (w \div 16) % 16 = x % 16 /\ (w \div 1) % 16 = w % 16
    BY <1>1, <1>2
  <2> QED BY <1>7, <2>1
<1> QED BY <1>9, <1>10

\* A hash of the table, whatever its words, is printed as digits that are read as
\* the same hash again: what a server lists can be given to a client (addr_and_hash.c
\* 44, 167).
THEOREM PrintedIsRead ==
  ASSUME NEW h \in Hash
  PROVE  /\ uint16_t_to_char_hash(h) \in Printed
         /\ char_to_uint16_t_hash(uint16_t_to_char_hash(h)) = h
<1>p. PICK p : p = uint16_t_to_char_hash(h)
  OBVIOUS
<1>1. HASH_LENGTH \in Nat
  BY HashCodecAssumption
<1>2. 16 ^ 0 = 1 /\ 16 ^ 1 = 16 /\ 16 ^ 2 = 256 /\ 16 ^ 3 = 4096
  OBVIOUS
<1>3. ASSUME NEW i \in 1..HASH_LENGTH PROVE h[i] \in uint16_t
  BY DEF Hash
<1>4. ASSUME NEW i \in 1..HASH_LENGTH
      PROVE  /\ p[4 * i - 3] = (h[i] \div 4096) % 16 /\ p[4 * i - 2] = (h[i] \div 256) % 16
             /\ p[4 * i - 1] = (h[i] \div 16) % 16 /\ p[4 * i] = (h[i] \div 1) % 16
  <2>1. ASSUME NEW e \in 0..3
        PROVE  p[4 * i - e] = (h[i] \div 16 ^ e) % 16
    <3>1. 4 * i - e \in 1..4 * HASH_LENGTH
      BY <1>1
    <3>2. (4 * i - e + 3) \div 4 = i
      BY <1>1
    <3>3. (4 * HASH_LENGTH - (4 * i - e)) % 4 = e
      <4>1. \A q \in Nat : (4 * q + e) % 4 = e
        OBVIOUS
      <4>2. HASH_LENGTH - i \in Nat /\ 4 * (HASH_LENGTH - i) + e = 4 * HASH_LENGTH - (4 * i - e)
        BY <1>1
      <4> QED BY <4>1, <4>2
    <3> QED BY <1>p, <3>1, <3>2, <3>3 DEF uint16_t_to_char_hash
  <2>2. p[4 * i - 0] = (h[i] \div 16 ^ 0) % 16 /\ p[4 * i - 1] = (h[i] \div 16 ^ 1) % 16
        /\ p[4 * i - 2] = (h[i] \div 16 ^ 2) % 16 /\ p[4 * i - 3] = (h[i] \div 16 ^ 3) % 16
    BY <2>1
  <2>3. 4 * i - 0 = 4 * i
    OBVIOUS
  <2> QED BY <1>2, <2>2, <2>3
<1>5. p \in Printed
  <2>1. ASSUME NEW k \in 1..4 * HASH_LENGTH PROVE p[k] \in Digit
    <3>1. PICK i \in 1..HASH_LENGTH : k \in {4 * i - 3, 4 * i - 2, 4 * i - 1, 4 * i}
      <4>1. /\ (k + 3) \div 4 \in 1..HASH_LENGTH
            /\ k \in {4 * ((k + 3) \div 4) - 3, 4 * ((k + 3) \div 4) - 2,
                      4 * ((k + 3) \div 4) - 1, 4 * ((k + 3) \div 4)}
        BY <1>1
      <4> QED BY <4>1
    <3>2. /\ (h[i] \div 1) % 16 \in Digit /\ (h[i] \div 16) % 16 \in Digit
          /\ (h[i] \div 256) % 16 \in Digit /\ (h[i] \div 4096) % 16 \in Digit
      BY <1>3, DigitsOfWord
    <3> QED BY <1>4, <3>1, <3>2
  <2>2. p = [k \in 1..4 * HASH_LENGTH |-> p[k]]
    BY <1>p DEF uint16_t_to_char_hash
  <2> QED BY <2>1, <2>2 DEF Printed
<1>6. ASSUME NEW i \in 1..HASH_LENGTH PROVE Word(p, i) = h[i]
  <2>1. PICK a, b, c, d : /\ a = (h[i] \div 4096) % 16 /\ b = (h[i] \div 256) % 16
                          /\ c = (h[i] \div 16) % 16 /\ d = (h[i] \div 1) % 16
    OBVIOUS
  <2>2. 4096 * a + 256 * b + 16 * c + d = h[i]
    BY <1>3, <2>1, DigitsOfWord
  <2>3. p[4 * i - 3] = a /\ p[4 * i - 2] = b /\ p[4 * i - 1] = c /\ p[4 * i] = d
    BY <1>4, <2>1
  <2> QED BY <2>2, <2>3 DEF Word
<1>7. char_to_uint16_t_hash(p) = [i \in 1..HASH_LENGTH |-> Word(p, i)]
  <2>1. p \in Readable /\ Padded(p) = p
    BY <1>5, PrintedIsPadded
  <2> QED BY <2>1, ReadIs
<1>8. h = [i \in 1..HASH_LENGTH |-> h[i]]
  BY DEF Hash
<1> QED BY <1>p, <1>5, <1>6, <1>7, <1>8

\* The hash of a text is the number the text writes: for hashes of any number of
\* words and any texts that fit into them, compare_hash orders what is read as
\* the numbers, printing and reading again changes nothing, and exactly the
\* texts with another character than a digit are refused.
THEOREM HashIsNumber == OthersAreRefused /\ NumbersAreRead
<1>1. ASSUME NEW text \in Text
      PROVE  char_to_uint16_t_hash(text) # NULL <=> text \in Numerals
  <2>1. CASE \E i \in 1..Len(text) : text[i] \notin Digit
    BY <2>1 DEF char_to_uint16_t_hash, Numerals
  <2>2. CASE text \in Readable
    <3>1. char_to_uint16_t_hash(text) = [i \in 1..HASH_LENGTH |-> Word(Padded(text), i)]
      BY <2>2, ReadIs
    <3>2. [i \in 1..HASH_LENGTH |-> Word(Padded(text), i)] \in [1..HASH_LENGTH -> Nat]
      <4>1. [i \in 1..HASH_LENGTH |-> Word(Padded(text), i)] \in Hash
        BY <2>2, PaddedIsPrinted, WordsAreHash
      <4> QED BY <4>1 DEF Hash, uint16_t
    <3>3. \A i \in 1..Len(text) : text[i] \in Digit
      BY <2>2, ElementOfSeq DEF Readable
    <3> QED BY <3>1, <3>2, <3>3, HashCodecAssumption DEF Numerals
  <2>3. ASSUME \A i \in 1..Len(text) : text[i] \in Digit PROVE text \in Readable
    BY <2>3, HashCodecAssumption DEF Readable
  <2> QED BY <2>1, <2>2, <2>3
<1>2. ASSUME NEW text \in Numerals PROVE text \in Readable
  BY HashCodecAssumption DEF Readable, Numerals
<1>3. ASSUME NEW text \in Numerals
      PROVE  LET hash == char_to_uint16_t_hash(text)
                 printed == uint16_t_to_char_hash(hash)
             IN  /\ printed = Padded(text)
                 /\ strtol(printed) = strtol(text)
                 /\ char_to_uint16_t_hash(printed) = hash
  <2>1. text \in Readable /\ Padded(text) \in Printed
    BY <1>2, PaddedIsPrinted
  <2>2. char_to_uint16_t_hash(text) = [i \in 1..HASH_LENGTH |-> Word(Padded(text), i)]
    BY <2>1, ReadIs
  <2>3. uint16_t_to_char_hash(char_to_uint16_t_hash(text)) = Padded(text)
    BY <2>1, <2>2, PrintIs
  <2>4. strtol(Padded(text)) = strtol(text)
    BY <2>1, PaddedWritesTheSame
  <2>5. Padded(text) \in Readable /\ Padded(Padded(text)) = Padded(text)
    BY <2>1, PrintedIsPadded
  <2>6. char_to_uint16_t_hash(Padded(text)) = char_to_uint16_t_hash(text)
    BY <2>2, <2>5, ReadIs
  <2> QED BY <2>3, <2>4, <2>6
<1>4. ASSUME NEW text \in Numerals, NEW other \in Numerals
      PROVE  compare_hash(char_to_uint16_t_hash(text), char_to_uint16_t_hash(other))
               = Sign(strtol(text) - strtol(other))
  <2>1. /\ text \in Readable /\ Padded(text) \in Printed
        /\ other \in Readable /\ Padded(other) \in Printed
    BY <1>2, PaddedIsPrinted
  <2>2. /\ char_to_uint16_t_hash(text) = [i \in 1..HASH_LENGTH |-> Word(Padded(text), i)]
        /\ char_to_uint16_t_hash(other) = [i \in 1..HASH_LENGTH |-> Word(Padded(other), i)]
    BY <2>1, ReadIs
  <2>3. strtol(Padded(text)) = strtol(text) /\ strtol(Padded(other)) = strtol(other)
    BY <2>1, PaddedWritesTheSame
  <2> QED BY <2>1, <2>2, <2>3, WordsOrderNumbers
<1> QED BY <1>1, <1>3, <1>4 DEF OthersAreRefused, NumbersAreRead

-----------------------------------------------------------------------------
(***************************************************************************)
(* The list of addresses of a node                                         *)
(***************************************************************************)

Payload == [address_list : Seq(Addr), last_put : Nat]

\* An address that is put or shared again and again under a hash is in the list once,
\* and none that was there is lost, for lists of any length (hash_table.c 299, 683, 712).
THEOREM AddressesOnce ==
  ASSUME NEW d \in Payload, IsInjective(d.address_list), NEW ip \in Addr
  PROVE  /\ with_addr(d, ip) \in Payload
         /\ IsInjective(with_addr(d, ip).address_list)
         /\ ToSet(with_addr(d, ip).address_list) = ToSet(d.address_list) \cup {ip}
         /\ with_addr(d, ip).last_put = d.last_put
<1> DEFINE list == d.address_list
           new == <<ip>> \o list
<1>1. list \in Seq(Addr) /\ d = [address_list |-> list, last_put |-> d.last_put]
      /\ d.last_put \in Nat
  BY DEF Payload
<1>2. CASE is_in(ip, list)
  BY <1>1, <1>2 DEF with_addr, is_in, ToSet
<1>3. CASE ~is_in(ip, list)
  <2>1. /\ new \in Seq(Addr) /\ Len(list) \in Nat /\ Len(new) = Len(list) + 1
        /\ new[1] = ip /\ \A i \in 1..Len(list) : new[i + 1] = list[i]
    BY <1>1
  <2>2. \A i \in 1..Len(new) : i = 1 \/ (i - 1 \in 1..Len(list) /\ new[i] = list[i - 1])
    <3> SUFFICES ASSUME NEW i \in 1..Len(new), i # 1
                 PROVE  i - 1 \in 1..Len(list) /\ new[i] = list[i - 1]
      OBVIOUS
    <3>1. i - 1 \in 1..Len(list) /\ (i - 1) + 1 = i
      BY <2>1
    <3> QED BY <2>1, <3>1
  <2>3. /\ DOMAIN new = 1..Len(new) /\ DOMAIN list = 1..Len(list)
        /\ \A i \in 1..Len(list) : i + 1 \in 1..Len(new)
    BY <1>1, <2>1
  <2>4. \A i \in 1..Len(list) : list[i] # ip
    BY <1>3, <2>3 DEF is_in, ToSet
  <2>5. with_addr(d, ip) = [address_list |-> new, last_put |-> d.last_put]
    BY <1>1, <1>3 DEF with_addr, head_insert_list
  <2>6. IsInjective(new)
    <3> SUFFICES ASSUME NEW i \in 1..Len(new), NEW j \in 1..Len(new), new[i] = new[j]
                 PROVE  i = j
      BY <2>3 DEF IsInjective
    <3>1. \A k, l \in 1..Len(list) : list[k] = list[l] => k = l
      BY <2>3 DEF IsInjective
    <3>2. CASE i = 1 \/ j = 1
      BY <2>1, <2>2, <2>4, <3>2
    <3>3. CASE i # 1 /\ j # 1
      <4>1. i - 1 = j - 1
        BY <2>2, <3>1, <3>3
      <4> QED BY <2>1, <4>1
    <3> QED BY <3>2, <3>3
  <2>7. ToSet(new) = ToSet(list) \cup {ip}
    <3>1. ToSet(new) \subseteq ToSet(list) \cup {ip}
      BY <2>1, <2>2, <2>3 DEF ToSet
    <3>2. ip \in ToSet(new)
      BY <2>1, <2>3 DEF ToSet
    <3>3. ToSet(list) \subseteq ToSet(new)
      <4> SUFFICES ASSUME NEW i \in 1..Len(list) PROVE list[i] \in ToSet(new)
        BY <2>3 DEF ToSet
      <4>1. i + 1 \in DOMAIN new /\ new[i + 1] = list[i]
        BY <2>1, <2>3
      <4> QED BY <4>1 DEF ToSet
    <3> QED BY <3>1, <3>2, <3>3
  <2> QED BY <1>1, <2>1, <2>5, <2>6, <2>7 DEF Payload
<1> QED BY <1>2, <1>3

-----------------------------------------------------------------------------
(***************************************************************************)
(* Trees of any height, and what is in them from left to right             *)
(***************************************************************************)

Grown(T) == {NULL} \cup [hash : Hash, data : Payload, eq : Int, ll : T, rl : T]

\* The trees of at most n levels.
Level[n \in Nat] == IF n = 0 THEN {NULL} ELSE Grown(Level[n - 1])

Tree == UNION {Level[n] : n \in Nat}

entry(h, d) == [hash |-> h, data |-> d]
row(left, x, right) == left \o <<x>> \o right

inorder[a \in Tree] ==
  IF a = NULL THEN << >> ELSE row(inorder[a.ll], entry(a.hash, a.data), inorder[a.rl])

\* The pointer to nothing is not the address of a node.
NullIsNoNode ==
  \A h, d, e, l, r : NULL # [hash |-> h, data |-> d, eq |-> e, ll |-> l, rl |-> r]

LevelsUpto(f, m) ==
  f = [n \in 0..m |-> IF n = 0 THEN {NULL} ELSE Grown(f[n - 1])]

LEMMA LevelsAgree ==
  \A n, k, l \in Nat : \A f, g :
    n <= k /\ n <= l /\ LevelsUpto(f, k) /\ LevelsUpto(g, l) => f[n] = g[n]
<1> DEFINE P(n) == \A k, l \in Nat : \A f, g :
                     n <= k /\ n <= l /\ LevelsUpto(f, k) /\ LevelsUpto(g, l) => f[n] = g[n]
           S == {n \in Nat : P(n)}
<1>1. 0 \in S
  <2> SUFFICES ASSUME NEW k \in Nat, NEW l \in Nat, NEW f, NEW g,
                      LevelsUpto(f, k), LevelsUpto(g, l)
               PROVE  f[0] = g[0]
    OBVIOUS
  <2>1. f[0] = {NULL} /\ g[0] = {NULL}
    BY DEF LevelsUpto
  <2> QED BY <2>1
<1>2. ASSUME NEW n \in Nat, n \in S PROVE n + 1 \in S
  <2> SUFFICES ASSUME NEW k \in Nat, NEW l \in Nat, NEW f, NEW g, n + 1 <= k, n + 1 <= l,
                      LevelsUpto(f, k), LevelsUpto(g, l)
               PROVE  f[n + 1] = g[n + 1]
    OBVIOUS
  <2>1. f[n] = g[n]
    BY <1>2
  <2>2. n + 1 \in 0..k /\ n + 1 \in 0..l /\ n + 1 # 0 /\ (n + 1) - 1 = n
    OBVIOUS
  <2> HIDE DEF S
  <2>3. f[n + 1] = Grown(f[n]) /\ g[n + 1] = Grown(g[n])
    BY <2>2 DEF LevelsUpto
  <2> QED BY <2>1, <2>3
<1>3. \A n \in Nat : n \in S
  <2> HIDE DEF S
  <2> QED BY <1>1, <1>2, Induction
<1> QED BY <1>3

LEMMA LevelsExist ==
  \A m \in Nat : \E f : LevelsUpto(f, m)
<1> DEFINE S == {m \in Nat : \E f : LevelsUpto(f, m)}
<1>1. 0 \in S
  <2>1. LevelsUpto([n \in 0..0 |-> {NULL}], 0)
    BY DEF LevelsUpto
  <2> QED BY <2>1
<1>2. ASSUME NEW m \in Nat, m \in S PROVE m + 1 \in S
  <2>1. PICK f : LevelsUpto(f, m)
    BY <1>2
  <2> DEFINE g == [n \in 0..m + 1 |-> IF n <= m THEN f[n] ELSE Grown(f[m])]
  <2>2. ASSUME NEW n \in 0..m + 1
        PROVE  g[n] = IF n = 0 THEN {NULL} ELSE Grown(g[n - 1])
    <3>1. CASE n = 0
      BY <2>1, <3>1 DEF LevelsUpto
    <3>2. CASE n # 0 /\ n <= m
      <4>1. n \in 0..m /\ n - 1 \in 0..m + 1 /\ n - 1 <= m
        BY <3>2
      <4>2. f[n] = Grown(f[n - 1])
        BY <2>1, <3>2, <4>1 DEF LevelsUpto
      <4> QED BY <3>2, <4>1, <4>2
    <3>3. CASE n = m + 1
      <4>1. n # 0 /\ ~(n <= m) /\ n - 1 = m /\ n - 1 \in 0..m + 1 /\ n - 1 <= m
        BY <3>3
      <4>2. g[n] = Grown(f[m]) /\ g[n - 1] = f[n - 1]
        BY <4>1
      <4> QED BY <4>1, <4>2
    <3> QED BY <3>1, <3>2, <3>3
  <2>3. LevelsUpto(g, m + 1)
    BY <2>2 DEF LevelsUpto
  <2> HIDE DEF g
  <2>4. \E v : LevelsUpto(v, m + 1)
    BY <2>3
  <2> QED BY <2>4
<1>3. \A m \in Nat : m \in S
  <2> HIDE DEF S
  <2> QED BY <1>1, <1>2, Induction
<1> QED BY <1>3

LEMMA LevelIs ==
  /\ Level[0] = {NULL}
  /\ \A n \in Nat : Level[n + 1] = Grown(Level[n])
<1> DEFINE F(n) == CHOOSE f : LevelsUpto(f, n)
           h == [n \in Nat |-> F(n)[n]]
<1>1. \A n \in Nat : LevelsUpto(F(n), n)
  BY LevelsExist
<1> HIDE DEF F
<1>2. F(0)[0] = {NULL}
  BY <1>1 DEF LevelsUpto
<1>3. ASSUME NEW n \in Nat PROVE F(n + 1)[n + 1] = Grown(F(n)[n])
  <2>1. LevelsUpto(F(n + 1), n + 1) /\ LevelsUpto(F(n), n)
    BY <1>1
  <2>2. F(n + 1)[n + 1] = Grown(F(n + 1)[(n + 1) - 1])
    BY <2>1 DEF LevelsUpto
  <2>3. F(n + 1)[n] = F(n)[n]
    BY <2>1, LevelsAgree
  <2> QED BY <2>2, <2>3
<1>4. ASSUME NEW n \in Nat PROVE h[n] = IF n = 0 THEN {NULL} ELSE Grown(h[n - 1])
  <2>1. CASE n = 0
    BY <1>2, <2>1
  <2>2. CASE n # 0
    <3>1. n - 1 \in Nat /\ (n - 1) + 1 = n
      BY <2>2
    <3>2. F((n - 1) + 1)[(n - 1) + 1] = Grown(F(n - 1)[n - 1])
      BY <3>1, <1>3
    <3> QED BY <2>2, <3>1, <3>2
  <2> QED BY <2>1, <2>2
<1>5. h = [n \in Nat |-> IF n = 0 THEN {NULL} ELSE Grown(h[n - 1])]
  BY <1>4
<1>6. Level = CHOOSE f : f = [n \in Nat |-> IF n = 0 THEN {NULL} ELSE Grown(f[n - 1])]
  BY DEF Level
<1> HIDE DEF h
<1>7. Level = [n \in Nat |-> IF n = 0 THEN {NULL} ELSE Grown(Level[n - 1])]
  BY <1>5, <1>6
<1> HIDE DEF Level
<1>8. ASSUME NEW n \in Nat PROVE Level[n + 1] = Grown(Level[n])
  <2>1. n + 1 \in Nat /\ n + 1 # 0 /\ (n + 1) - 1 = n
    OBVIOUS
  <2>2. Level[n + 1] = Grown(Level[(n + 1) - 1])
    BY <1>7, <2>1
  <2> QED BY <2>1, <2>2
<1> QED BY <1>7, <1>8

\* A tree is nothing or a node whose subtrees are trees, of one level less.
LEMMA TreesAre ==
  /\ \A n \in Nat : NULL \in Level[n] /\ Level[n] \subseteq Level[n + 1]
  /\ \A n \in Nat : \A a \in Level[n] : a # NULL =>
       n # 0 /\ a \in [hash : Hash, data : Payload, eq : Int, ll : Level[n - 1], rl : Level[n - 1]]
<1>1. \A n \in Nat : NULL \in Level[n]
  <2> SUFFICES ASSUME NEW n \in Nat PROVE NULL \in Level[n]
    OBVIOUS
  <2>1. CASE n = 0
    BY <2>1, LevelIs
  <2>2. CASE n # 0
    <3>1. n - 1 \in Nat /\ (n - 1) + 1 = n
      BY <2>2
    <3>2. Level[(n - 1) + 1] = Grown(Level[n - 1])
      BY <3>1, LevelIs
    <3> QED BY <3>1, <3>2 DEF Grown
  <2> QED BY <2>1, <2>2
<1>2. \A n \in Nat : Level[n] \subseteq Level[n + 1]
  <2> DEFINE S == {n \in Nat : Level[n] \subseteq Level[n + 1]}
  <2>1. 0 \in S
    <3>1. Level[0] \subseteq Level[0 + 1]
      BY LevelIs DEF Grown
    <3> QED BY <3>1
  <2>2. ASSUME NEW n \in Nat, n \in S PROVE n + 1 \in S
    <3>1. Level[n] \subseteq Level[n + 1] /\ n + 1 \in Nat
      BY <2>2
    <3>2. Level[n + 1] = Grown(Level[n]) /\ Level[(n + 1) + 1] = Grown(Level[n + 1])
      BY <3>1, LevelIs
    <3>3. Grown(Level[n]) \subseteq Grown(Level[n + 1])
      BY <3>1 DEF Grown
    <3> QED BY <3>1, <3>2, <3>3
  <2> HIDE DEF S
  <2>3. \A n \in Nat : n \in S
    BY <2>1, <2>2, Induction
  <2> QED BY <2>3 DEF S
<1>3. ASSUME NEW n \in Nat, NEW a \in Level[n], a # NULL
      PROVE  /\ n # 0
             /\ a \in [hash : Hash, data : Payload, eq : Int, ll : Level[n - 1], rl : Level[n - 1]]
  <2>1. n # 0
    BY <1>3, LevelIs
  <2>2. n - 1 \in Nat /\ (n - 1) + 1 = n
    BY <2>1
  <2>3. Level[(n - 1) + 1] = Grown(Level[n - 1])
    BY <2>2, LevelIs
  <2> QED BY <1>3, <2>1, <2>2, <2>3 DEF Grown
<1> QED BY <1>1, <1>2, <1>3

Listed(f, a) == row(f[a.ll], entry(a.hash, a.data), f[a.rl])

ListsLevel(f, n) == f = [a \in Level[n] |-> IF a = NULL THEN << >> ELSE Listed(f, a)]

LEMMA ListsAgree ==
  \A n, k, l \in Nat : \A a \in Level[n] : \A f, g :
    a \in Level[k] /\ a \in Level[l] /\ ListsLevel(f, k) /\ ListsLevel(g, l) => f[a] = g[a]
<1> DEFINE S == {n \in Nat : \A k, l \in Nat : \A a \in Level[n] : \A f, g :
                   a \in Level[k] /\ a \in Level[l] /\ ListsLevel(f, k) /\ ListsLevel(g, l)
                     => f[a] = g[a]}
<1>n. ASSUME NEW k \in Nat, NEW f, ListsLevel(f, k) PROVE f[NULL] = << >>
  BY <1>n, TreesAre DEF ListsLevel
<1>1. 0 \in S
  <2>1. \A a \in Level[0] : a = NULL
    BY LevelIs
  <2> QED BY <2>1, <1>n
<1>2. ASSUME NEW n \in Nat, n \in S PROVE n + 1 \in S
  <2> SUFFICES ASSUME NEW k \in Nat, NEW l \in Nat, NEW a \in Level[n + 1], NEW f, NEW g,
                      a \in Level[k], a \in Level[l], ListsLevel(f, k), ListsLevel(g, l)
               PROVE  f[a] = g[a]
    OBVIOUS
  <2>1. CASE a = NULL
    BY <2>1, <1>n
  <2>2. CASE a # NULL
    <3>1. n + 1 \in Nat /\ (n + 1) - 1 = n
      OBVIOUS
    <3>2. a.ll \in Level[n] /\ a.rl \in Level[n]
      BY <2>2, <3>1, TreesAre
    <3>3. ASSUME NEW j \in Nat, a \in Level[j] PROVE a.ll \in Level[j] /\ a.rl \in Level[j]
      <4>1. j # 0 /\ a.ll \in Level[j - 1] /\ a.rl \in Level[j - 1]
        BY <2>2, <3>3, TreesAre
      <4>2. j - 1 \in Nat /\ (j - 1) + 1 = j
        BY <4>1
      <4>3. Level[j - 1] \subseteq Level[(j - 1) + 1]
        BY <4>2, TreesAre
      <4> QED BY <4>1, <4>2, <4>3
    <3>4. f[a.ll] = g[a.ll] /\ f[a.rl] = g[a.rl]
      BY <1>2, <3>2, <3>3
    <3>5. f[a] = Listed(f, a) /\ g[a] = Listed(g, a)
      BY <2>2 DEF ListsLevel
    <3> QED BY <3>4, <3>5 DEF Listed
  <2> QED BY <2>1, <2>2
<1>3. \A n \in Nat : n \in S
  <2> HIDE DEF S
  <2> QED BY <1>1, <1>2, Induction
<1> QED BY <1>3

LEMMA ListsExist ==
  \A n \in Nat : \E f : ListsLevel(f, n)
<1> DEFINE S == {n \in Nat : \E f : ListsLevel(f, n)}
<1>1. 0 \in S
  <2>1. ListsLevel([a \in Level[0] |-> << >>], 0)
    BY LevelIs DEF ListsLevel
  <2> QED BY <2>1
<1>2. ASSUME NEW n \in Nat, n \in S PROVE n + 1 \in S
  <2>1. PICK f : ListsLevel(f, n)
    BY <1>2
  <2> DEFINE g == [a \in Level[n + 1] |-> IF a = NULL THEN << >> ELSE Listed(f, a)]
  <2>2. \A a \in Level[n] : g[a] = f[a]
    BY <2>1, TreesAre DEF ListsLevel
  <2>3. ASSUME NEW a \in Level[n + 1], a # NULL PROVE Listed(f, a) = Listed(g, a)
    <3>1. n + 1 \in Nat /\ (n + 1) - 1 = n
      OBVIOUS
    <3>2. a.ll \in Level[n] /\ a.rl \in Level[n]
      BY <2>3, <3>1, TreesAre
    <3> HIDE DEF g
    <3> QED BY <2>2, <3>2 DEF Listed
  <2>4. ListsLevel(g, n + 1)
    BY <2>3 DEF ListsLevel
  <2> HIDE DEF g
  <2>5. \E v : ListsLevel(v, n + 1)
    BY <2>4
  <2> QED BY <2>5
<1>3. \A n \in Nat : n \in S
  <2> HIDE DEF S
  <2> QED BY <1>1, <1>2, Induction
<1> QED BY <1>3

LEMMA InorderIs ==
  \A a \in Tree : inorder[a] = IF a = NULL THEN << >> ELSE Listed(inorder, a)
<1> DEFINE L(a) == CHOOSE n \in Nat : a \in Level[n]
           F(n) == CHOOSE f : ListsLevel(f, n)
           h == [a \in Tree |-> F(L(a))[a]]
<1>1. \A a \in Tree : L(a) \in Nat /\ a \in Level[L(a)]
  BY DEF Tree
<1>2. \A n \in Nat : ListsLevel(F(n), n)
  BY ListsExist
<1> HIDE DEF L, F
<1>3. ASSUME NEW n \in Nat, NEW a \in Level[n] PROVE a \in Tree /\ h[a] = F(n)[a]
  <2>1. a \in Tree
    BY DEF Tree
  <2> QED BY <1>1, <1>2, <2>1, ListsAgree
<1>4. ASSUME NEW a \in Tree PROVE h[a] = IF a = NULL THEN << >> ELSE Listed(h, a)
  <2>1. PICK n \in Nat : a \in Level[n]
    BY DEF Tree
  <2>2. h[a] = F(n)[a] /\ ListsLevel(F(n), n)
    BY <1>2, <1>3, <2>1
  <2>3. CASE a = NULL
    BY <2>1, <2>2, <2>3 DEF ListsLevel
  <2>4. CASE a # NULL
    <3>1. n # 0 /\ a.ll \in Level[n - 1] /\ a.rl \in Level[n - 1]
      BY <2>1, <2>4, TreesAre
    <3>2. n - 1 \in Nat /\ (n - 1) + 1 = n
      BY <3>1
    <3>3. a.ll \in Level[n] /\ a.rl \in Level[n]
      <4>1. Level[n - 1] \subseteq Level[(n - 1) + 1]
        BY <3>2, TreesAre
      <4> QED BY <3>1, <3>2, <4>1
    <3>4. F(n)[a] = Listed(F(n), a)
      BY <2>1, <2>2, <2>4 DEF ListsLevel
    <3>5. h[a.ll] = F(n)[a.ll] /\ h[a.rl] = F(n)[a.rl]
      BY <1>3, <3>3
    <3> HIDE DEF h
    <3> QED BY <2>2, <2>4, <3>4, <3>5 DEF Listed
  <2> QED BY <2>3, <2>4
<1>5. h = [a \in Tree |-> IF a = NULL THEN << >> ELSE Listed(h, a)]
  BY <1>4
<1>6. inorder = CHOOSE f : f = [a \in Tree |-> IF a = NULL THEN << >> ELSE Listed(f, a)]
  BY DEF inorder, Listed
<1> HIDE DEF h
<1>7. inorder = [a \in Tree |-> IF a = NULL THEN << >> ELSE Listed(inorder, a)]
  BY <1>5, <1>6
<1> HIDE DEF inorder
<1> QED BY <1>7

Node(T) == [hash : Hash, data : Payload, eq : Int, ll : T, rl : T]

LEMMA LevelsGrow ==
  \A n, k \in Nat : Level[n] \subseteq Level[n + k]
<1> SUFFICES ASSUME NEW n \in Nat PROVE \A k \in Nat : Level[n] \subseteq Level[n + k]
  OBVIOUS
<1> DEFINE S == {k \in Nat : Level[n] \subseteq Level[n + k]}
<1>1. 0 \in S
  <2>1. n + 0 = n
    OBVIOUS
  <2> QED BY <2>1
<1>2. ASSUME NEW k \in Nat, k \in S PROVE k + 1 \in S
  <2>1. n + k \in Nat /\ (n + k) + 1 = n + (k + 1)
    OBVIOUS
  <2>2. Level[n + k] \subseteq Level[(n + k) + 1]
    BY <2>1, TreesAre
  <2> QED BY <1>2, <2>1, <2>2
<1>3. \A k \in Nat : k \in S
  <2> HIDE DEF S
  <2> QED BY <1>1, <1>2, Induction
<1> QED BY <1>3

\* A tree is nothing or a node over two trees.
LEMMA TreeIs ==
  Tree = {NULL} \cup Node(Tree)
<1>1. ASSUME NEW a \in Tree, a # NULL PROVE a \in Node(Tree)
  <2>1. PICK n \in Nat : a \in Level[n]
    BY DEF Tree
  <2>2. /\ n # 0
        /\ a \in [hash : Hash, data : Payload, eq : Int, ll : Level[n - 1], rl : Level[n - 1]]
    BY <1>1, <2>1, TreesAre
  <2>3. n - 1 \in Nat
    BY <2>2
  <2>4. Level[n - 1] \subseteq Tree
    BY <2>3 DEF Tree
  <2> QED BY <2>2, <2>4 DEF Node
<1>2. ASSUME NEW a \in Node(Tree) PROVE a \in Tree
  <2>1. a.ll \in Tree /\ a.rl \in Tree
    BY DEF Node
  <2>2. PICK n \in Nat, k \in Nat : a.ll \in Level[n] /\ a.rl \in Level[k]
    BY <2>1 DEF Tree
  <2>3. Level[n] \subseteq Level[n + k] /\ Level[k] \subseteq Level[k + n]
    BY LevelsGrow
  <2>4. n + k \in Nat /\ k + n = n + k
    OBVIOUS
  <2>5. a \in Grown(Level[n + k])
    BY <2>2, <2>3, <2>4 DEF Node, Grown
  <2>6. a \in Level[(n + k) + 1] /\ (n + k) + 1 \in Nat
    BY <2>4, <2>5, LevelIs
  <2> QED BY <2>6 DEF Tree
<1>3. NULL \in Tree
  BY TreesAre DEF Tree
<1> QED BY <1>1, <1>2, <1>3

Entries == Seq([hash : Hash, data : Payload])

LEMMA InorderType ==
  \A a \in Tree : inorder[a] \in Entries
<1> DEFINE S == {n \in Nat : \A a \in Level[n] : inorder[a] \in Entries}
<1>n. inorder[NULL] \in Entries
  <2>1. NULL \in Tree
    BY TreeIs
  <2>2. inorder[NULL] = << >>
    BY <2>1, InorderIs
  <2> QED BY <2>2 DEF Entries
<1>1. 0 \in S
  <2>1. \A a \in Level[0] : a = NULL
    BY LevelIs
  <2> QED BY <2>1, <1>n
<1>2. ASSUME NEW n \in Nat, n \in S PROVE n + 1 \in S
  <2> SUFFICES ASSUME NEW a \in Level[n + 1] PROVE inorder[a] \in Entries
    OBVIOUS
  <2>1. n + 1 \in Nat /\ (n + 1) - 1 = n
    OBVIOUS
  <2>2. a \in Tree
    BY <2>1 DEF Tree
  <2>3. CASE a = NULL
    BY <2>3, <1>n
  <2>4. CASE a # NULL
    <3>1. a \in [hash : Hash, data : Payload, eq : Int, ll : Level[n], rl : Level[n]]
      BY <2>1, <2>4, TreesAre
    <3>2. inorder[a.ll] \in Entries /\ inorder[a.rl] \in Entries
      BY <1>2, <3>1
    <3>3. <<entry(a.hash, a.data)>> \in Entries
      BY <3>1 DEF Entries, entry
    <3>4. Listed(inorder, a) \in Entries
      BY <3>2, <3>3 DEF Listed, Entries, row
    <3> QED BY <2>2, <2>4, <3>4, InorderIs
  <2> QED BY <2>3, <2>4
<1>3. \A n \in Nat : n \in S
  <2> HIDE DEF S
  <2> QED BY <1>1, <1>2, Induction
<1> QED BY <1>3 DEF Tree

node(h, d, e, l, r) == [hash |-> h, data |-> d, eq |-> e, ll |-> l, rl |-> r]

\* What the listing says of a node whose fields are given.
LEMMA ListedNode ==
  ASSUME NullIsNoNode, NEW h \in Hash, NEW d \in Payload, NEW e \in Int,
         NEW l \in Tree, NEW r \in Tree
  PROVE  /\ node(h, d, e, l, r) \in Tree /\ node(h, d, e, l, r) # NULL
         /\ inorder[node(h, d, e, l, r)] = row(inorder[l], entry(h, d), inorder[r])
<1> DEFINE a == node(h, d, e, l, r)
<1>1. a # NULL
  BY DEF NullIsNoNode, node
<1>2. a \in Tree
  BY TreeIs DEF Node, node
<1>3. inorder[a] = Listed(inorder, a)
  BY <1>1, <1>2, InorderIs
<1> QED BY <1>1, <1>2, <1>3 DEF Listed, node

LEMMA NodeFields ==
  ASSUME NEW a \in Tree, a # NULL
  PROVE  /\ a = node(a.hash, a.data, a.eq, a.ll, a.rl)
         /\ a.hash \in Hash /\ a.data \in Payload /\ a.eq \in Int
         /\ a.ll \in Tree /\ a.rl \in Tree
         /\ inorder[a] = row(inorder[a.ll], entry(a.hash, a.data), inorder[a.rl])
<1>1. a \in Node(Tree)
  BY TreeIs
<1>2. inorder[a] = Listed(inorder, a)
  BY InorderIs
<1> QED BY <1>1, <1>2 DEF Node, Listed, node

cat(u, v) == u \o v

LEMMA RowsOfRows ==
  ASSUME NEW p \in Entries, NEW q \in Entries, NEW r \in Entries,
         NEW x \in [hash : Hash, data : Payload], NEW y \in [hash : Hash, data : Payload]
  PROVE  row(row(p, x, q), y, r) = row(p, x, row(q, y, r))
<1>1. \A u, v, w \in Entries : cat(cat(u, v), w) = cat(u, cat(v, w)) /\ cat(u, v) \in Entries
  BY ConcatAssociative, ConcatProperties DEF Entries, cat
<1>2. <<x>> \in Entries /\ <<y>> \in Entries
  BY DEF Entries
<1>3. \A u, w : \A z : row(u, z, w) = cat(cat(u, <<z>>), w)
  BY DEF row, cat
<1>4. PICK s, t : s = <<x>> /\ t = <<y>>
  OBVIOUS
<1>5. cat(cat(cat(cat(p, s), q), t), r) = cat(cat(p, s), cat(cat(q, t), r))
  BY <1>1, <1>2, <1>4
<1> QED BY <1>3, <1>4, <1>5

LEMMA SingleRotations ==
  ASSUME NullIsNoNode, NEW a \in Tree
  PROVE  /\ avl_l_rotation(a) \in Tree /\ inorder[avl_l_rotation(a)] = inorder[a]
         /\ avl_r_rotation(a) \in Tree /\ inorder[avl_r_rotation(a)] = inorder[a]
         /\ a # NULL => avl_l_rotation(a) # NULL /\ avl_r_rotation(a) # NULL
<1>1. CASE a = NULL
  BY <1>1 DEF avl_l_rotation, avl_r_rotation
<1>2. CASE a # NULL
  <2> DEFINE E(n) == entry(n.hash, n.data)
  <2>a. /\ a = node(a.hash, a.data, a.eq, a.ll, a.rl)
        /\ a.hash \in Hash /\ a.data \in Payload /\ a.eq \in Int
        /\ a.ll \in Tree /\ a.rl \in Tree
        /\ inorder[a] = row(inorder[a.ll], E(a), inorder[a.rl])
    BY <1>2, NodeFields
  <2>1. ASSUME a.rl # NULL
        PROVE  /\ avl_l_rotation(a) \in Tree /\ inorder[avl_l_rotation(a)] = inorder[a]
               /\ avl_l_rotation(a) # NULL
    <3>1. PICK b : b = a.rl
      OBVIOUS
    <3>2. /\ b = node(b.hash, b.data, b.eq, b.ll, b.rl)
          /\ b.hash \in Hash /\ b.data \in Payload /\ b.eq \in Int
          /\ b.ll \in Tree /\ b.rl \in Tree
          /\ inorder[b] = row(inorder[b.ll], E(b), inorder[b.rl])
      BY <2>1, <2>a, <3>1, NodeFields
    <3>e. E(a) \in [hash : Hash, data : Payload] /\ E(b) \in [hash : Hash, data : Payload]
      BY <2>a, <3>2 DEF entry
    <3>3. PICK c : c = node(a.hash, a.data, a.eq, a.ll, b.ll)
      OBVIOUS
    <3>4. c \in Tree /\ inorder[c] = row(inorder[a.ll], E(a), inorder[b.ll])
      BY <2>a, <3>2, <3>3, ListedNode
    <3>5. avl_l_rotation(a) =
            node(b.hash, b.data, b.eq, c, b.rl)
      BY <1>2, <2>1, <2>a, <3>1, <3>2, <3>3 DEF avl_l_rotation, node
    <3>6. /\ avl_l_rotation(a) \in Tree /\ avl_l_rotation(a) # NULL
          /\ inorder[avl_l_rotation(a)] = row(inorder[c], E(b), inorder[b.rl])
      BY <3>2, <3>4, <3>5, ListedNode
    <3>7. row(row(inorder[a.ll], E(a), inorder[b.ll]), E(b), inorder[b.rl])
            = row(inorder[a.ll], E(a), row(inorder[b.ll], E(b), inorder[b.rl]))
      BY <2>a, <3>2, <3>e, InorderType, RowsOfRows
    <3> QED BY <2>a, <3>1, <3>2, <3>4, <3>6, <3>7
  <2>2. ASSUME a.ll # NULL
        PROVE  /\ avl_r_rotation(a) \in Tree /\ inorder[avl_r_rotation(a)] = inorder[a]
               /\ avl_r_rotation(a) # NULL
    <3>1. PICK b : b = a.ll
      OBVIOUS
    <3>2. /\ b = node(b.hash, b.data, b.eq, b.ll, b.rl)
          /\ b.hash \in Hash /\ b.data \in Payload /\ b.eq \in Int
          /\ b.ll \in Tree /\ b.rl \in Tree
          /\ inorder[b] = row(inorder[b.ll], E(b), inorder[b.rl])
      BY <2>2, <2>a, <3>1, NodeFields
    <3>e. E(a) \in [hash : Hash, data : Payload] /\ E(b) \in [hash : Hash, data : Payload]
      BY <2>a, <3>2 DEF entry
    <3>3. PICK c : c = node(a.hash, a.data, a.eq, b.rl, a.rl)
      OBVIOUS
    <3>4. c \in Tree /\ inorder[c] = row(inorder[b.rl], E(a), inorder[a.rl])
      BY <2>a, <3>2, <3>3, ListedNode
    <3>5. avl_r_rotation(a) =
            node(b.hash, b.data, b.eq, b.ll, c)
      BY <1>2, <2>2, <2>a, <3>1, <3>2, <3>3 DEF avl_r_rotation, node
    <3>6. /\ avl_r_rotation(a) \in Tree /\ avl_r_rotation(a) # NULL
          /\ inorder[avl_r_rotation(a)] = row(inorder[b.ll], E(b), inorder[c])
      BY <3>2, <3>4, <3>5, ListedNode
    <3>7. row(row(inorder[b.ll], E(b), inorder[b.rl]), E(a), inorder[a.rl])
            = row(inorder[b.ll], E(b), row(inorder[b.rl], E(a), inorder[a.rl]))
      BY <2>a, <3>2, <3>e, InorderType, RowsOfRows
    <3> QED BY <2>a, <3>1, <3>2, <3>4, <3>6, <3>7
  <2>3. /\ a.rl = NULL => avl_l_rotation(a) = a
        /\ a.ll = NULL => avl_r_rotation(a) = a
    BY DEF avl_l_rotation, avl_r_rotation
  <2> QED BY <1>2, <2>1, <2>2, <2>3
<1> QED BY <1>1, <1>2

\* Putting a subtree with the same listing in the place of another, or another balance
\* value, leaves the listing as it is.
LEMMA SameListing ==
  ASSUME NullIsNoNode, NEW a \in Tree, a # NULL
  PROVE  /\ \A t \in Tree : inorder[t] = inorder[a.ll] =>
              [a EXCEPT !.ll = t] \in Tree /\ [a EXCEPT !.ll = t] # NULL
              /\ inorder[[a EXCEPT !.ll = t]] = inorder[a]
         /\ \A t \in Tree : inorder[t] = inorder[a.rl] =>
              [a EXCEPT !.rl = t] \in Tree /\ [a EXCEPT !.rl = t] # NULL
              /\ inorder[[a EXCEPT !.rl = t]] = inorder[a]
         /\ \A e \in Int :
              [a EXCEPT !.eq = e] \in Tree /\ inorder[[a EXCEPT !.eq = e]] = inorder[a]
<1>a. /\ a = node(a.hash, a.data, a.eq, a.ll, a.rl)
      /\ a.hash \in Hash /\ a.data \in Payload /\ a.eq \in Int
      /\ a.ll \in Tree /\ a.rl \in Tree
      /\ inorder[a] = row(inorder[a.ll], entry(a.hash, a.data), inorder[a.rl])
  BY NodeFields
<1>1. ASSUME NEW t \in Tree, inorder[t] = inorder[a.ll]
      PROVE  /\ [a EXCEPT !.ll = t] \in Tree /\ [a EXCEPT !.ll = t] # NULL
             /\ inorder[[a EXCEPT !.ll = t]] = inorder[a]
  <2>1. [a EXCEPT !.ll = t] =
          node(a.hash, a.data, a.eq, t, a.rl)
    BY <1>a DEF node
  <2> QED BY <1>1, <1>a, <2>1, ListedNode
<1>2. ASSUME NEW t \in Tree, inorder[t] = inorder[a.rl]
      PROVE  /\ [a EXCEPT !.rl = t] \in Tree /\ [a EXCEPT !.rl = t] # NULL
             /\ inorder[[a EXCEPT !.rl = t]] = inorder[a]
  <2>1. [a EXCEPT !.rl = t] =
          node(a.hash, a.data, a.eq, a.ll, t)
    BY <1>a DEF node
  <2> QED BY <1>2, <1>a, <2>1, ListedNode
<1>3. ASSUME NEW e \in Int
      PROVE  [a EXCEPT !.eq = e] \in Tree /\ inorder[[a EXCEPT !.eq = e]] = inorder[a]
  <2>1. [a EXCEPT !.eq = e] =
          node(a.hash, a.data, e, a.ll, a.rl)
    BY <1>a DEF node
  <2> QED BY <1>a, <2>1, ListedNode
<1> QED BY <1>1, <1>2, <1>3

\* Whatever balance values they read, the four rotations lose no node, make none, and
\* leave the nodes in their order, in trees of any height: the balancing loop may turn
\* a tree as often as it likes (hash_table.c 482-555).
THEOREM RotationsKeepOrder ==
  ASSUME NullIsNoNode, NEW a \in Tree, a # NULL
  PROVE  \A t \in {avl_l_rotation(a), avl_r_rotation(a), avl_rl_rotation(a), avl_lr_rotation(a)} :
           t \in Tree /\ inorder[t] = inorder[a]
<1>1. a.ll \in Tree /\ a.rl \in Tree
  BY NodeFields
<1>2. /\ avl_r_rotation(a.rl) \in Tree /\ inorder[avl_r_rotation(a.rl)] = inorder[a.rl]
      /\ avl_l_rotation(a.ll) \in Tree /\ inorder[avl_l_rotation(a.ll)] = inorder[a.ll]
  BY <1>1, SingleRotations
<1>3. PICK b, c : /\ b = [a EXCEPT !.rl = avl_r_rotation(a.rl)]
                  /\ c = [a EXCEPT !.ll = avl_l_rotation(a.ll)]
  OBVIOUS
<1>4. /\ b \in Tree /\ b # NULL /\ inorder[b] = inorder[a]
      /\ c \in Tree /\ c # NULL /\ inorder[c] = inorder[a]
  BY <1>2, <1>3, SameListing
<1>5. PICK x, y : x = avl_l_rotation(b) /\ y = avl_r_rotation(c)
  OBVIOUS
<1>6. /\ x \in Tree /\ x # NULL /\ inorder[x] = inorder[a]
      /\ y \in Tree /\ y # NULL /\ inorder[y] = inorder[a]
  BY <1>4, <1>5, SingleRotations
<1>7. avl_rl_rotation(a) = [x EXCEPT !.eq = x.eq - 1]
  BY <1>3, <1>5, NodeFields DEF avl_rl_rotation, node
<1>8. avl_lr_rotation(a) = [y EXCEPT !.eq = y.eq + 1]
  BY <1>3, <1>5, NodeFields DEF avl_lr_rotation, node
<1>9. x.eq - 1 \in Int /\ y.eq + 1 \in Int
  <2>1. x.eq \in Int /\ y.eq \in Int
    BY <1>6, NodeFields
  <2> QED BY <2>1
<1> QED BY <1>6, <1>7, <1>8, <1>9, SingleRotations, SameListing
=============================================================================
