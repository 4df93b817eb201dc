-------------------------- MODULE CborTransfer_proofs -------------------------
(***************************************************************************)
(* What arrives of a 3D image, for all sizes of a byte and of a message,   *)
(* any number of images and faults: the file of an image none of whose     *)
(* frames is missing is the image; sendData tells of every refused frame.  *)
(*                                                                         *)
(* The text put together from its pieces is a recursive function on the    *)
(* pieces (FlattenSeq); LeastElement stands for the induction.             *)
(***************************************************************************)
EXTENDS CborTransfer, FiniteSetTheorems, WellFoundedInduction, TLAPS

-----------------------------------------------------------------------------
(* Arithmetic.                                                             *)

LEMMA DivMod ==
  ASSUME NEW a \in Nat, NEW d \in Nat \ {0}
  PROVE  /\ a \div d \in Nat /\ a % d \in 0 .. d - 1
         /\ (a \div d) * d + (a % d) = a
  OBVIOUS

LEMMA Less ==
  ASSUME NEW a \in Nat, NEW b \in Nat, NEW d \in Nat \ {0}
  PROVE  a < b <=> a * d < b * d
<1>1. a * d \in Nat /\ b * d \in Nat
  OBVIOUS
<1>2. CASE a < b
  <2>1. (a + 1) * d <= b * d /\ (a + 1) * d = a * d + d
    BY <1>2
  <2> QED BY <1>1, <1>2, <2>1
<1>3. CASE b <= a
  <2>1. b * d <= a * d
    BY <1>3
  <2> QED BY <1>1, <1>3, <2>1
<1> QED BY <1>2, <1>3

LEMMA Parameters ==
  /\ Ids \in Nat \ {0} /\ ByteBase \in Nat \ {0} /\ Payload \in Nat \ {0}
  /\ Lengths \subseteq Nat \ {0} /\ Images \in Nat /\ Faults \in Nat
  /\ ByteBase * ByteBase \in Nat \ {0}
  /\ \A n \in Lengths : n <= (ByteBase * ByteBase) * Payload
<1>1. /\ Ids \in Nat \ {0} /\ ByteBase \in Nat \ {0} /\ Payload \in Nat \ {0}
      /\ Lengths \subseteq Nat \ {0} /\ Images \in Nat /\ Faults \in Nat
      /\ \A n \in Lengths : n <= Payload * ByteBase * ByteBase
  BY TransferAssumption
<1>2. Payload * ByteBase * ByteBase = (ByteBase * ByteBase) * Payload
  BY <1>1
<1>3. ByteBase * ByteBase \in Nat
  BY <1>1
<1>4. 0 * ByteBase < ByteBase * ByteBase
  BY <1>1, Less
<1> QED BY <1>1, <1>2, <1>3, <1>4

(* The least element of a set of naturals, for proofs by induction.        *)
LEMMA LeastElement ==
  ASSUME NEW T \in SUBSET Nat, T # {}
  PROVE  \E x \in T : \A y \in T : x <= y
<1> DEFINE R == OpToRel(<, Nat)
<1>1. PICK x \in T : \A y \in T : <<y, x>> \notin R
  <2>1. IsWellFoundedOn(R, Nat)
    BY NatLessThanWellFounded, Zenon
  <2> HIDE DEF R
  <2> QED BY <2>1, WFMin
<1>2. ASSUME NEW y \in T PROVE x <= y
  <2>1. x \in Nat /\ y \in Nat /\ (y < x => <<y, x>> \in R)
    BY DEF OpToRel
  <2> HIDE DEF R
  <2> QED BY <1>1, <2>1
<1> QED BY <1>2

(* A sequence of sequences is flattened to whatever satisfies the          *)
(* equations of the recursion at its end.                                  *)
LEMMA Flatten ==
  ASSUME NEW seqs, Len(seqs) \in Nat \ {0},
         NEW g,
         g = [k \in 1 .. Len(seqs) |-> IF k = 1 THEN seqs[k] ELSE g[k - 1] \o seqs[k]]
  PROVE  FlattenSeq(seqs) = g[Len(seqs)]
<1> DEFINE n == Len(seqs)
           Unfolds(f) == f = [k \in 1 .. n |-> IF k = 1 THEN seqs[k] ELSE f[k - 1] \o seqs[k]]
           flatten == CHOOSE f : Unfolds(f)
<1>1. Unfolds(g) /\ n \in Nat \ {0}
  OBVIOUS
<1>2. FlattenSeq(seqs) = flatten[n]
  BY DEF FlattenSeq
<1>3. Unfolds(flatten)
  <2> HIDE DEF Unfolds
  <2> QED BY <1>1
<1> HIDE DEF flatten
<1>4. ASSUME NEW k \in 1 .. n, flatten[k] # g[k] PROVE FALSE
  <2> DEFINE T == {j \in 1 .. n : flatten[j] # g[j]}
  <2>1. T \in SUBSET Nat /\ T # {}
    <3>1. k \in T
      BY <1>4, Zenon
    <3>2. T \subseteq 1 .. n /\ 1 .. n \subseteq Nat
      OBVIOUS
    <3> QED BY <3>1, <3>2, Zenon
  <2>2. PICK j \in T : \A y \in T : j <= y
    <3> HIDE DEF T
    <3> QED BY <2>1, LeastElement
  <2>3. flatten[j] = IF j = 1 THEN seqs[j] ELSE flatten[j - 1] \o seqs[j]
    BY <1>3
  <2>4. g[j] = IF j = 1 THEN seqs[j] ELSE g[j - 1] \o seqs[j]
    BY <1>1
  <2>5. j # 1 => j - 1 \in 1 .. n /\ j - 1 \notin T
    BY <1>1, <2>2
  <2>6. j # 1 => flatten[j - 1] = g[j - 1]
    BY <2>5
  <2> QED BY <2>2, <2>3, <2>4, <2>6
<1> QED BY <1>1, <1>2, <1>4

-----------------------------------------------------------------------------
(* The messages of a text.                                                 *)

LastPlace == ByteBase * ByteBase - 1
EndOf(k, length) == IF k * Payload < length THEN k * Payload ELSE length

LEMMA MsgsOfLength ==
  ASSUME NEW length \in Nat
  PROVE  /\ NumberOfMsgs(length) \in Nat
         /\ length <= NumberOfMsgs(length) * Payload
         /\ \A k \in Nat : k < NumberOfMsgs(length) <=> k * Payload < length
<1> DEFINE c == NumberOfMsgs(length)
<1>1. Payload \in Nat \ {0} /\ length + Payload - 1 \in Nat
  BY Parameters
<1>2. c \in Nat /\ c * Payload + ((length + Payload - 1) % Payload) = length + Payload - 1
      /\ (length + Payload - 1) % Payload \in 0 .. Payload - 1
  BY <1>1, DivMod DEF NumberOfMsgs
<1> HIDE DEF c
<1>3. c * Payload \in Nat /\ length <= c * Payload
      /\ c * Payload <= length + Payload - 1
  BY <1>1, <1>2
<1>4. ASSUME NEW k \in Nat PROVE k < c <=> k * Payload < length
  <2>1. k * Payload \in Nat /\ (k + 1) * Payload = k * Payload + Payload
    BY <1>1
  <2>2. k < c => (k + 1) * Payload <= c * Payload
    <3>1. CASE k + 1 = c
      BY <3>1, <1>3
    <3>2. CASE k + 1 < c
      BY <3>2, <1>1, <1>2, Less, <1>3, <2>1
    <3> QED BY <3>1, <3>2, <1>2
  <2>3. k * Payload < c * Payload => k < c
    BY <1>1, <1>2, Less
  <2> QED BY <1>1, <1>3, <2>1, <2>2, <2>3
<1> QED BY <1>2, <1>3, <1>4 DEF c

LEMMA MsgsOfText ==
  ASSUME NEW length \in Lengths
  PROVE  /\ NumberOfMsgs(length) \in 1 .. ByteBase * ByteBase
         /\ length \in Nat \ {0}
<1>1. length \in Nat \ {0} /\ length <= (ByteBase * ByteBase) * Payload
      /\ ByteBase * ByteBase \in Nat
  BY Parameters
<1>2. 0 < NumberOfMsgs(length)
  <2>1. 0 * Payload = 0
    BY Parameters
  <2> QED BY <1>1, <2>1, MsgsOfLength
<1>3. ~(ByteBase * ByteBase < NumberOfMsgs(length))
  <2> DEFINE b == ByteBase * ByteBase
  <2>1. b \in Nat /\ length <= b * Payload /\ b * Payload \in Nat
    BY <1>1, Parameters
  <2> HIDE DEF b
  <2>2. ~(b < NumberOfMsgs(length))
    BY <1>1, <2>1, MsgsOfLength
  <2> QED BY <2>2 DEF b
<1> QED BY <1>1, <1>2, <1>3, MsgsOfLength

LEMMA LongerHasMore ==
  ASSUME NEW m \in Nat, NEW n \in Nat, m <= n
  PROVE  NumberOfMsgs(m) <= NumberOfMsgs(n)
<1> DEFINE c == NumberOfMsgs(n)
<1>1. c \in Nat /\ n <= c * Payload /\ c * Payload \in Nat
  BY MsgsOfLength, Parameters
<1>2. ~(c < NumberOfMsgs(m))
  <2> HIDE DEF c
  <2> QED BY <1>1, MsgsOfLength
<1> QED BY <1>1, <1>2, MsgsOfLength

(* Two bytes hold an index below the last one, and the last one is that of *)
(* the last message alone.                                                 *)
LEMMA IndexIsKept ==
  ASSUME NEW i \in 0 .. LastPlace
  PROVE  IndexOf(IndexBytes(i)) = i /\ (IndexBytes(i) = LastIndex => i = LastPlace)
<1> DEFINE q == i \div ByteBase
           r == i % ByteBase
<1>1. i \in Nat /\ ByteBase \in Nat \ {0} /\ i < ByteBase * ByteBase
  BY Parameters DEF LastPlace
<1>2. q \in Nat /\ r \in 0 .. ByteBase - 1 /\ q * ByteBase + r = i
  BY <1>1, DivMod
<1> HIDE DEF q, r
<1>3. q < ByteBase
  <2>1. q * ByteBase < ByteBase * ByteBase
    <3>1. q * ByteBase \in Nat /\ ByteBase * ByteBase \in Nat
      BY <1>1, <1>2
    <3> QED BY <1>1, <1>2, <3>1
  <2> QED BY <2>1, <1>1, <1>2, Less
<1>4. q % ByteBase = q
  BY <1>1, <1>2, <1>3
<1>5. IndexBytes(i) = <<r, q>>
  BY <1>4 DEF IndexBytes, q, r
<1>6. IndexOf(IndexBytes(i)) = i
  BY <1>2, <1>5 DEF IndexOf
<1>7. IndexOf(LastIndex) = LastPlace
  BY <1>1 DEF IndexOf, LastIndex, LastPlace
<1> QED BY <1>6, <1>7

LEMMA LastIsLast == IndexOf(LastIndex) = LastPlace /\ LastPlace \in Nat
  BY Parameters DEF IndexOf, LastIndex, LastPlace

-----------------------------------------------------------------------------
(* What is put together from them.                                         *)

Place(k, count) == IF k = count THEN LastPlace ELSE k - 1
Places(count) == 0 .. count - 2 \cup {LastPlace}
Piece(text, k) == SubSeq(text, (k - 1) * Payload + 1, EndOf(k, Len(text)))

LEMMA PlacesApart ==
  ASSUME NEW count \in 1 .. ByteBase * ByteBase
  PROVE  /\ \A k \in 1 .. count : Place(k, count) \in Places(count)
         /\ \A k \in 1 .. count - 1 : Place(k, count) < LastPlace
         /\ \A x \in Places(count) : \E k \in 1 .. count : x = Place(k, count)
         /\ \A k, l \in 1 .. count : Place(k, count) = Place(l, count) => k = l
<1>1. LastPlace \in Nat /\ count \in Nat \ {0} /\ count <= LastPlace + 1
  BY Parameters DEF LastPlace
<1> HIDE DEF LastPlace
<1>2. ASSUME NEW x \in Places(count) PROVE \E k \in 1 .. count : x = Place(k, count)
  <2>1. CASE x = LastPlace
    <3>1. count \in 1 .. count /\ Place(count, count) = x
      BY <1>1, <2>1 DEF Place
    <3> QED BY <3>1
  <2>2. CASE x \in 0 .. count - 2
    <3>1. x + 1 \in 1 .. count /\ Place(x + 1, count) = x
      BY <1>1, <2>2 DEF Place
    <3> QED BY <3>1
  <2> QED BY <2>1, <2>2 DEF Places
<1>3. \A k \in 1 .. count : Place(k, count) \in Places(count)
  BY <1>1 DEF Place, Places
<1>4. \A k \in 1 .. count - 1 : Place(k, count) < LastPlace
  BY <1>1 DEF Place
<1>5. \A k, l \in 1 .. count : Place(k, count) = Place(l, count) => k = l
  BY <1>1 DEF Place
<1> QED BY <1>2, <1>3, <1>4, <1>5

LEMMA PlacesInOrder ==
  ASSUME NEW count \in 1 .. ByteBase * ByteBase
  PROVE  Sorted(Places(count)) = [k \in 1 .. count |-> Place(k, count)]
<1> DEFINE S == Places(count)
           Below(x) == {j \in S : j < x}
<1>1. LastPlace \in Nat /\ count \in Nat \ {0} /\ count <= LastPlace + 1
  BY Parameters DEF LastPlace
<1>2. Cardinality(S) = count
  <2>1. LastPlace \notin 0 .. count - 2
    BY <1>1
  <2>2. IsFiniteSet(0 .. count - 2) /\ Cardinality(0 .. count - 2) = count - 1
    <3>1. 0 \in Int /\ count - 2 \in Int
      BY <1>1
    <3>2. IsFiniteSet(0 .. count - 2)
          /\ Cardinality(0 .. count - 2) = IF 0 > count - 2 THEN 0 ELSE count - 2 - 0 + 1
      BY <3>1, FS_Interval
    <3> QED BY <1>1, <3>2
  <2>3. Cardinality(0 .. count - 2 \cup {LastPlace}) = Cardinality(0 .. count - 2) + 1
    BY <2>1, <2>2, FS_AddElement
  <2> QED BY <1>1, <2>2, <2>3 DEF Places
<1>3. ASSUME NEW k \in 1 .. count PROVE Cardinality(Below(Place(k, count))) = k - 1
  <2>1. Below(Place(k, count)) = 0 .. k - 2
    <3>1. ASSUME NEW x \in Below(Place(k, count)) PROVE x \in 0 .. k - 2
      BY <1>1 DEF Place, Places
    <3>2. ASSUME NEW x \in 0 .. k - 2 PROVE x \in Below(Place(k, count))
      BY <1>1 DEF Place, Places
    <3> QED BY <3>1, <3>2
  <2>2. 0 \in Int /\ k - 2 \in Int
    OBVIOUS
  <2>3. Cardinality(0 .. k - 2) = IF 0 > k - 2 THEN 0 ELSE k - 2 - 0 + 1
    BY <2>2, FS_Interval
  <2> HIDE DEF Below
  <2> QED BY <2>1, <2>3
<1> HIDE DEF S, Below
<1>4. ASSUME NEW k \in 1 .. count
      PROVE  (CHOOSE i \in S : Cardinality(Below(i)) = k - 1) = Place(k, count)
  <2>1. Place(k, count) \in S /\ Cardinality(Below(Place(k, count))) = k - 1
    BY <1>3, PlacesApart DEF S
  <2>2. ASSUME NEW x \in S, Cardinality(Below(x)) = k - 1 PROVE x = Place(k, count)
    <3>1. PICK l \in 1 .. count : x = Place(l, count)
      BY PlacesApart DEF S
    <3>2. Cardinality(Below(x)) = l - 1
      BY <1>3, <3>1
    <3>3. k - 1 = l - 1
      BY <2>2, <3>2
    <3>4. k = l
      BY <3>3
    <3> QED BY <3>1, <3>4
  <2> QED BY <2>1, <2>2
<1>5. Sorted(S) = [k \in 1 .. count |-> CHOOSE i \in S : Cardinality(Below(i)) = k - 1]
  BY <1>2 DEF Sorted, Below
<1>6. Sorted(S) = [k \in 1 .. count |-> Place(k, count)]
  BY <1>4, <1>5
<1> QED BY <1>6 DEF S

LEMMA Joined ==
  ASSUME NEW X, NEW text \in Seq(X), NEW a \in 0 .. Len(text), NEW b \in a .. Len(text)
  PROVE  SubSeq(text, 1, a) \o SubSeq(text, a + 1, b) = SubSeq(text, 1, b)
<1> DEFINE l == SubSeq(text, 1, a)
           r == SubSeq(text, a + 1, b)
           s == SubSeq(text, 1, b)
<1>1. l \in Seq(X) /\ Len(l) = a /\ \A k \in 1 .. a : l[k] = text[k]
  OBVIOUS
<1>2. r \in Seq(X) /\ Len(r) = b - a /\ \A k \in 1 .. b - a : r[k] = text[a + k]
  OBVIOUS
<1>3. s \in Seq(X) /\ Len(s) = b /\ \A k \in 1 .. b : s[k] = text[k]
  OBVIOUS
<1> HIDE DEF l, r, s
<1>n. a \in Nat /\ b \in Nat /\ a <= b
  OBVIOUS
<1>4. l \o r \in Seq(X) /\ Len(l \o r) = b
  BY <1>1, <1>2, <1>n
<1>5. ASSUME NEW k \in 1 .. b PROVE (l \o r)[k] = s[k]
  <2>1. CASE k <= a
    BY <1>1, <1>2, <1>3, <2>1
  <2>2. CASE k > a
    <3>1. (l \o r)[k] = r[k - a] /\ k - a \in 1 .. b - a
      BY <1>1, <1>2, <2>2
    <3>2. r[k - a] = text[a + (k - a)] /\ a + (k - a) = k
      BY <1>2, <3>1
    <3> QED BY <1>3, <3>1, <3>2
  <2>3. k <= a \/ k > a
    BY <1>n
  <2> QED BY <2>1, <2>2, <2>3, Zenon
<1> QED BY <1>3, <1>4, <1>5 DEF l, r, s

LEMMA WholeText ==
  ASSUME NEW X, NEW text \in Seq(X)
  PROVE  SubSeq(text, 1, Len(text)) = text
<1> DEFINE s == SubSeq(text, 1, Len(text))
<1>1. s \in Seq(X) /\ Len(s) = Len(text) /\ \A k \in 1 .. Len(text) : s[k] = text[k]
  OBVIOUS
<1> HIDE DEF s
<1> QED BY <1>1 DEF s

LEMMA Assembled ==
  ASSUME NEW X, NEW text \in Seq(X), Len(text) \in Lengths,
         NEW payloads, DOMAIN payloads = Places(NumberOfMsgs(Len(text))),
         \A k \in 1 .. NumberOfMsgs(Len(text)) :
           payloads[Place(k, NumberOfMsgs(Len(text)))] = Piece(text, k)
  PROVE  AssembleData(payloads) = text
<1> DEFINE n == Len(text)
           c == NumberOfMsgs(n)
           seqs == [k \in 1 .. c |-> Piece(text, k)]
           g == [k \in 1 .. c |-> SubSeq(text, 1, EndOf(k, n))]
<1>1. n \in Nat \ {0} /\ c \in Nat \ {0} /\ c \in 1 .. ByteBase * ByteBase
  BY MsgsOfText, Parameters
<1>2. ASSUME NEW k \in 1 .. c
      PROVE  /\ EndOf(k, n) \in 0 .. n
             /\ k < c => EndOf(k, n) = k * Payload
             /\ k = c => EndOf(k, n) = n
  <2>1. k \in Nat /\ k * Payload \in Nat /\ (k < c <=> k * Payload < n)
    <3>1. k \in Nat
      BY <1>1
    <3>2. k \in Nat => (k < c <=> k * Payload < n)
      BY <1>1, MsgsOfLength
    <3> HIDE DEF c, n
    <3> QED BY <3>1, <3>2, Parameters
  <2> QED BY <1>1, <2>1 DEF EndOf
<1>3. AssembleData(payloads) = FlattenSeq(seqs)
  <2>1. Sorted(DOMAIN payloads) = [k \in 1 .. c |-> Place(k, c)]
    BY <1>1, PlacesInOrder
  <2> DEFINE p == [k \in 1 .. c |-> Place(k, c)]
  <2>2. [k \in DOMAIN p |-> payloads[p[k]]] = seqs
    <3>1. DOMAIN p = 1 .. c /\ \A k \in 1 .. c : payloads[p[k]] = Piece(text, k)
      OBVIOUS
    <3> HIDE DEF p
    <3> QED BY <3>1
  <2>3. AssembleData(payloads) = FlattenSeq([k \in DOMAIN p |-> payloads[p[k]]])
    <3> HIDE DEF p
    <3> QED BY <2>1 DEF AssembleData, p
  <2> QED BY <2>2, <2>3
<1>4. Len(seqs) = c
  BY <1>1
<1>5. g = [k \in 1 .. c |-> IF k = 1 THEN seqs[k] ELSE g[k - 1] \o seqs[k]]
  <2>1. ASSUME NEW k \in 1 .. c
        PROVE  SubSeq(text, 1, EndOf(k, n)) = IF k = 1 THEN seqs[k] ELSE g[k - 1] \o seqs[k]
    <3>1. seqs[k] = SubSeq(text, (k - 1) * Payload + 1, EndOf(k, n))
      BY DEF Piece
    <3>2. CASE k = 1
      <4>1. (k - 1) * Payload + 1 = 1
        BY <3>2, Parameters
      <4> QED BY <3>1, <3>2, <4>1
    <3>3. CASE k # 1
      <4>1. k - 1 \in 1 .. c /\ k - 1 < c /\ k - 1 \in Nat
        BY <1>1, <3>3
      <4>2. EndOf(k - 1, n) = (k - 1) * Payload /\ EndOf(k - 1, n) \in 0 .. n
        BY <1>2, <4>1
      <4>3. EndOf(k - 1, n) <= EndOf(k, n) /\ EndOf(k, n) \in 0 .. n
        <5>1. (k - 1) * Payload <= k * Payload /\ k * Payload \in Nat
          <6>1. k * Payload = (k - 1) * Payload + Payload /\ (k - 1) * Payload \in Nat
            BY <4>1, Parameters
          <6> QED BY <6>1, Parameters
        <5> QED BY <5>1, <4>2, <1>1, <1>2 DEF EndOf
      <4>4. g[k - 1] = SubSeq(text, 1, EndOf(k - 1, n))
        BY <4>1
      <4> DEFINE a == EndOf(k - 1, n)
                 b == EndOf(k, n)
      <4>5. a \in 0 .. Len(text) /\ b \in a .. Len(text)
        BY <4>2, <4>3
      <4> HIDE DEF a, b
      <4>6. SubSeq(text, 1, a) \o SubSeq(text, a + 1, b) = SubSeq(text, 1, b)
        BY <4>5, Joined
      <4>7. seqs[k] = SubSeq(text, a + 1, b) /\ g[k - 1] = SubSeq(text, 1, a)
        BY <3>1, <4>2, <4>4 DEF a, b
      <4> HIDE DEF g, seqs
      <4> QED BY <3>3, <4>6, <4>7 DEF b
    <3> QED BY <3>2, <3>3
  <2> DEFINE h == [k \in 1 .. c |-> IF k = 1 THEN seqs[k] ELSE g[k - 1] \o seqs[k]]
  <2>2. \A k \in 1 .. c : g[k] = h[k]
    BY <2>1
  <2>3. DOMAIN g = 1 .. c /\ DOMAIN h = 1 .. c /\ g = [k \in 1 .. c |-> g[k]]
        /\ h = [k \in 1 .. c |-> h[k]]
    <3> HIDE DEF seqs, c
    <3>1. DOMAIN g = 1 .. c /\ g = [k \in 1 .. c |-> g[k]]
      <4> HIDE DEF h
      <4> QED OBVIOUS
    <3> HIDE DEF g
    <3>2. DOMAIN h = 1 .. c /\ h = [k \in 1 .. c |-> h[k]]
      OBVIOUS
    <3> HIDE DEF h
    <3> QED BY <3>1, <3>2
  <2> HIDE DEF g, h
  <2>4. g = h
    BY <2>2, <2>3
  <2> QED BY <2>4 DEF h
<1>6. g[c] = text
  <2>1. g[c] = SubSeq(text, 1, n)
    BY <1>1, <1>2
  <2>2. SubSeq(text, 1, n) = text
    BY WholeText
  <2> HIDE DEF g
  <2> QED BY <2>1, <2>2, Zenon
<1> HIDE DEF g, seqs
<1>7. FlattenSeq(seqs) = g[c]
  BY <1>1, <1>4, <1>5, Flatten
<1> QED BY <1>3, <1>6, <1>7

-----------------------------------------------------------------------------
(* Sequences.                                                              *)

LEMMA SeqOfElements ==
  ASSUME NEW n \in Nat, NEW S, NEW f, f = [k \in 1 .. n |-> f[k]], \A k \in 1 .. n : f[k] \in S
  PROVE  f \in Seq(S) /\ Len(f) = n
<1>1. f \in [1 .. n -> S]
  OBVIOUS
<1> QED BY <1>1

LEMMA TailOf ==
  ASSUME NEW S, NEW s \in Seq(S), s # <<>>
  PROVE  /\ Len(s) \in Nat \ {0} /\ Tail(s) \in Seq(S) /\ Len(Tail(s)) = Len(s) - 1
         /\ Head(s) = s[1] /\ \A k \in 1 .. Len(s) - 1 : Tail(s)[k] = s[k + 1]
         /\ Tail(s) = <<>> <=> Len(s) = 1
<1>1. Len(s) \in Nat \ {0} /\ Tail(s) \in Seq(S) /\ Len(Tail(s)) = Len(s) - 1
  OBVIOUS
<1>2. Head(s) = s[1] /\ \A k \in 1 .. Len(s) - 1 : Tail(s)[k] = s[k + 1]
  <2>1. Head(s) = s[1]
    OBVIOUS
  <2>2. ASSUME NEW k \in 1 .. Len(s) - 1 PROVE Tail(s)[k] = s[k + 1]
    OBVIOUS
  <2> QED BY <2>1, <2>2, Zenon
<1>3. Tail(s) = <<>> <=> Len(Tail(s)) = 0
  <2> DEFINE t == Tail(s)
  <2>1. t \in Seq(S)
    BY <1>1
  <2> HIDE DEF t
  <2>2. t = <<>> <=> Len(t) = 0
    BY <2>1
  <2> QED BY <2>2 DEF t
<1>4. Len(s) - 1 = 0 <=> Len(s) = 1
  BY <1>1
<1> QED BY <1>1, <1>2, <1>3, <1>4

-----------------------------------------------------------------------------
(* The sender.                                                             *)

Bytes == Seq(Nat \X Nat)
Id == IdOf(image)
Count == NumberOfMsgs(Len(sent.text))
Msgs == SplitCborToCanMsgs(Id, sent.text)
Gone == Count - Len(frames)

HistoryOK(s) ==
  /\ DOMAIN s = {"text", "refused", "lost", "faults"}
  /\ s.text \in Bytes /\ s.refused \in BOOLEAN /\ s.lost \in BOOLEAN /\ s.faults \in Nat

(* What is still to be sent are the last messages of the text.             *)
SenderInv ==
  /\ image \in 0 .. Images /\ listening \in BOOLEAN
  /\ HistoryOK(sent)
  /\ IF image = 0 THEN sent.text = <<>> ELSE Len(sent.text) \in Lengths
  /\ frames \in Seq([id : ImageIds, index : Nat \X Nat, payload : Bytes])
  /\ Len(frames) <= Count
  /\ \A k \in 1 .. Len(frames) : frames[k] = Msgs[Gone + k]

Told == result = ~sent.refused

LEMMA ImageId == ASSUME NEW n \in Nat PROVE IdOf(n) \in ImageIds
  BY Parameters, DivMod DEF IdOf, ImageIds

LEMMA TextIsBytes ==
  ASSUME NEW n \in Nat, NEW length \in Nat
  PROVE  TextOf(n, length) \in Bytes /\ Len(TextOf(n, length)) = length
  BY DEF TextOf, Bytes

LEMMA IndexType == LastIndex \in Nat \X Nat /\ \A i \in Nat : IndexBytes(i) \in Nat \X Nat
<1>1. ByteBase \in Nat \ {0} /\ ByteBase - 1 \in Nat
  BY Parameters
<1>2. ASSUME NEW i \in Nat PROVE IndexBytes(i) \in Nat \X Nat
  <2>1. i % ByteBase \in Nat /\ i \div ByteBase \in Nat
    BY <1>1, DivMod
  <2>2. (i \div ByteBase) % ByteBase \in Nat
    BY <1>1, <2>1, DivMod
  <2> QED BY <2>1, <2>2 DEF IndexBytes
<1> QED BY <1>1, <1>2 DEF LastIndex

LEMMA PieceFits ==
  ASSUME NEW text \in Bytes, NEW k \in 1 .. NumberOfMsgs(Len(text))
  PROVE  Piece(text, k) \in Bytes /\ Len(Piece(text, k)) \in 1 .. Payload
<1> DEFINE n == Len(text)
           p == (k - 1) * Payload
<1>1. n \in Nat /\ k \in Nat /\ k - 1 \in Nat /\ k - 1 < NumberOfMsgs(n)
  BY MsgsOfLength DEF Bytes
<1>2. p \in Nat /\ p < n /\ k * Payload = p + Payload
  <2>1. k - 1 < NumberOfMsgs(n) <=> (k - 1) * Payload < n
    BY <1>1, MsgsOfLength
  <2>2. p \in Nat /\ k * Payload = p + Payload
    BY <1>1, Parameters
  <2> QED BY <1>1, <2>1, <2>2
<1> HIDE DEF p
<1> DEFINE e == EndOf(k, n)
<1>3. e \in p + 1 .. n /\ e <= p + Payload
  BY <1>1, <1>2, Parameters DEF EndOf
<1> HIDE DEF e
<1>4. SubSeq(text, p + 1, e) \in Bytes /\ Len(SubSeq(text, p + 1, e)) = e - p
  BY <1>1, <1>2, <1>3 DEF Bytes
<1> QED BY <1>1, <1>2, <1>3, <1>4, Parameters DEF Piece, e, p

(* The k-th message of a text.                                             *)
LEMMA MsgOfText ==
  ASSUME NEW id, NEW text \in Bytes, NEW k \in 1 .. NumberOfMsgs(Len(text))
  PROVE  SplitCborToCanMsgs(id, text)[k] =
           [id      |-> id,
            index   |-> IF k = NumberOfMsgs(Len(text)) THEN LastIndex ELSE IndexBytes(k - 1),
            payload |-> Piece(text, k)]
  BY DEF SplitCborToCanMsgs, Piece, EndOf

LEMMA MsgsType ==
  ASSUME NEW id \in ImageIds, NEW text \in Bytes
  PROVE  /\ SplitCborToCanMsgs(id, text)
              \in Seq([id : ImageIds, index : Nat \X Nat, payload : Bytes])
         /\ Len(SplitCborToCanMsgs(id, text)) = NumberOfMsgs(Len(text))
<1> DEFINE S == [id : ImageIds, index : Nat \X Nat, payload : Bytes]
           m == SplitCborToCanMsgs(id, text)
           c == NumberOfMsgs(Len(text))
<1>1. c \in Nat
  BY MsgsOfLength DEF Bytes
<1>2. ASSUME NEW k \in 1 .. c PROVE m[k] \in S
  <2>1. k - 1 \in Nat
    BY <1>1
  <2>2. m[k] = [id      |-> id,
                index   |-> IF k = c THEN LastIndex ELSE IndexBytes(k - 1),
                payload |-> Piece(text, k)]
    BY MsgOfText
  <2>3. Piece(text, k) \in Bytes
    BY PieceFits
  <2> HIDE DEF m
  <2> QED BY <2>1, <2>2, <2>3, IndexType
<1>3. m = [k \in 1 .. c |-> m[k]]
  BY DEF SplitCborToCanMsgs
<1> HIDE DEF m, c, S
<1>4. m \in Seq(S) /\ Len(m) = c
  BY <1>1, <1>2, <1>3, SeqOfElements
<1> QED BY <1>4 DEF m, c, S

LEMMA IndexOfMsg ==
  ASSUME NEW id, NEW text \in Bytes, Len(text) \in Lengths,
         NEW k \in 1 .. NumberOfMsgs(Len(text))
  PROVE  LET m == SplitCborToCanMsgs(id, text)[k]
         IN  /\ IndexOf(m.index) = Place(k, NumberOfMsgs(Len(text)))
             /\ m.index = LastIndex <=> k = NumberOfMsgs(Len(text))
<1> DEFINE c == NumberOfMsgs(Len(text))
<1>1. c \in 1 .. ByteBase * ByteBase /\ ByteBase * ByteBase \in Nat
  BY MsgsOfText, Parameters
<1>2. SplitCborToCanMsgs(id, text)[k].index = IF k = c THEN LastIndex ELSE IndexBytes(k - 1)
  <2> DEFINE m == SplitCborToCanMsgs(id, text)
  <2>1. m[k] = [id      |-> id,
                index   |-> IF k = c THEN LastIndex ELSE IndexBytes(k - 1),
                payload |-> Piece(text, k)]
    BY MsgOfText
  <2> HIDE DEF m
  <2> QED BY <2>1 DEF m
<1>3. CASE k = c
  BY <1>2, <1>3, LastIsLast DEF Place
<1>4. CASE k # c
  <2>1. k - 1 \in 0 .. LastPlace /\ k - 1 # LastPlace
    BY <1>1, <1>4 DEF LastPlace
  <2>2. IndexOf(IndexBytes(k - 1)) = k - 1 /\ IndexBytes(k - 1) # LastIndex
    BY <2>1, IndexIsKept
  <2> QED BY <1>2, <1>4, <2>2 DEF Place
<1> QED BY <1>3, <1>4

LEMMA SenderInit == Init => SenderInv /\ Told
<1> SUFFICES ASSUME Init PROVE SenderInv /\ Told
  OBVIOUS
<1>1. sent.text = <<>> /\ sent.text \in Bytes /\ Len(sent.text) = 0
  BY DEF Init, Bytes
<1>2. Count \in Nat
  BY <1>1, MsgsOfLength DEF Count
<1>3. frames = <<>> /\ Len(frames) = 0
  BY DEF Init
<1>4. frames \in Seq([id : ImageIds, index : Nat \X Nat, payload : Bytes])
  BY <1>3
<1>5. HistoryOK(sent)
  BY <1>1 DEF Init, HistoryOK
<1>6. image = 0 /\ image \in 0 .. Images /\ listening \in BOOLEAN
  BY Parameters DEF Init
<1>7. Told
  <2>1. result = TRUE /\ sent.refused = FALSE
    BY DEF Init
  <2> QED BY <2>1 DEF Told
<1> QED BY <1>1, <1>2, <1>3, <1>4, <1>5, <1>6, <1>7 DEF SenderInv

LEMMA CaptureSends ==
  ASSUME SenderInv, Capture
  PROVE  SenderInv' /\ Told' /\ Gone' = 0 /\ frames' # <<>>
<1>1. image < Images /\ image \in Nat /\ image' = image + 1 /\ Images \in Nat
  BY Parameters DEF SenderInv, Capture
<1>2. PICK length \in Lengths :
        /\ frames' = SplitCborToCanMsgs(IdOf(image'), TextOf(image', length))
        /\ sent' = [sent EXCEPT !.text = TextOf(image', length),
                                !.refused = FALSE, !.lost = FALSE]
  BY DEF Capture
<1> DEFINE text == TextOf(image', length)
<1>3. text \in Bytes /\ Len(text) = length /\ length \in Nat
  BY <1>1, TextIsBytes, Parameters
<1> HIDE DEF text
<1>4. /\ sent'.text = text /\ sent'.refused = FALSE
      /\ HistoryOK(sent')
  BY <1>2, <1>3 DEF SenderInv, HistoryOK, text
<1>5. Id' \in ImageIds
  BY <1>1, ImageId DEF Id
<1>6. frames' = Msgs'
  BY <1>2, <1>4 DEF Msgs, Id, text
<1>7. /\ frames' \in Seq([id : ImageIds, index : Nat \X Nat, payload : Bytes])
      /\ Len(frames') = Count'
  BY <1>3, <1>4, <1>5, <1>6, MsgsType DEF Msgs, Count
<1>8. Count' \in Nat /\ Gone' = 0
  <2>1. Count' \in Nat
    BY <1>3, <1>4, MsgsOfLength DEF Count
  <2>2. Gone' = Count' - Count'
    BY <1>7 DEF Gone
  <2> QED BY <2>1, <2>2 DEF Gone, Count
<1>9. \A k \in 1 .. Len(frames') : frames'[k] = Msgs'[Gone' + k]
  <2>1. ASSUME NEW k \in 1 .. Len(frames') PROVE Gone' + k = k
    BY <1>7, <1>8
  <2> QED BY <1>6, <2>1
<1>10. result' = TRUE /\ listening' \in BOOLEAN
  BY DEF Capture, SenderInv
<1>11. image' \in 0 .. Images /\ image' # 0
  BY <1>1
<1>12. Told'
  BY <1>4, <1>10 DEF Told
<1>13. Len(sent'.text) \in Lengths /\ Len(frames') <= Count'
  BY <1>3, <1>4, <1>7, <1>8
<1>14. frames' # <<>>
  <2>1. Len(frames') \in 1 .. ByteBase * ByteBase
    BY <1>7, <1>13, MsgsOfText DEF Count
  <2> QED BY <2>1
<1>15. SenderInv'
  BY <1>4, <1>7, <1>9, <1>10, <1>11, <1>13 DEF SenderInv
<1> QED BY <1>8, <1>12, <1>14, <1>15

LEMMA SendingType ==
  SenderInv => /\ Count \in Nat /\ Len(frames) \in Nat /\ Gone \in 0 .. Count
               /\ sent.text \in Bytes /\ Len(sent.text) \in Nat /\ image \in Nat
               /\ Id \in ImageIds
<1> SUFFICES ASSUME SenderInv PROVE
               /\ Count \in Nat /\ Len(frames) \in Nat /\ Gone \in 0 .. Count
               /\ sent.text \in Bytes /\ Len(sent.text) \in Nat /\ image \in Nat
               /\ Id \in ImageIds
  OBVIOUS
<1>1. sent.text \in Bytes /\ Len(sent.text) \in Nat /\ image \in Nat
  BY Parameters DEF SenderInv, HistoryOK, Bytes
<1>2. Count \in Nat
  BY <1>1, MsgsOfLength DEF Count
<1>3. Len(frames) \in Nat /\ Len(frames) <= Count
  BY DEF SenderInv
<1> QED BY <1>1, <1>2, <1>3, ImageId DEF Gone, Id

LEMMA OneLess ==
  ASSUME SenderInv, frames # <<>>, frames' = Tail(frames),
         image' = image, listening' = listening, sent'.text = sent.text,
         HistoryOK(sent')
  PROVE  /\ SenderInv' /\ Count' = Count /\ Gone' = Gone + 1 /\ Id' = Id
         /\ Gone + 1 \in 1 .. Count /\ Head(frames) = Msgs[Gone + 1]
         /\ frames' = <<>> <=> Gone + 1 = Count
         /\ Len(sent.text) \in Lengths /\ image > 0
<1>1. Count' = Count /\ Id' = Id /\ Msgs' = Msgs
  BY DEF Count, Id, Msgs
<1>2. Count \in Nat /\ Len(frames) \in Nat /\ Gone \in 0 .. Count /\ image \in Nat
  BY SendingType
<1>3. /\ Len(frames) > 0 /\ Len(frames') = Len(frames) - 1
      /\ frames' \in Seq([id : ImageIds, index : Nat \X Nat, payload : Bytes])
      /\ Head(frames) = frames[1]
      /\ \A k \in 1 .. Len(frames) - 1 : frames'[k] = frames[k + 1]
      /\ frames' = <<>> <=> Len(frames) = 1
  <2> DEFINE S == [id : ImageIds, index : Nat \X Nat, payload : Bytes]
  <2>1. frames \in Seq(S)
    BY DEF SenderInv
  <2> HIDE DEF S
  <2>2. /\ Len(frames) \in Nat \ {0} /\ Tail(frames) \in Seq(S)
        /\ Len(Tail(frames)) = Len(frames) - 1
        /\ Head(frames) = frames[1]
        /\ \A k \in 1 .. Len(frames) - 1 : Tail(frames)[k] = frames[k + 1]
        /\ Tail(frames) = <<>> <=> Len(frames) = 1
    BY <2>1, TailOf
  <2> DEFINE l == Len(frames)
             h == Head(frames)
             t == Tail(frames)
  <2>3. /\ l \in Nat \ {0} /\ t \in Seq(S) /\ Len(t) = l - 1 /\ h = frames[1]
        /\ \A k \in 1 .. l - 1 : t[k] = frames[k + 1]
        /\ t = <<>> <=> l = 1
    BY <2>2
  <2>4. frames' = t
    OBVIOUS
  <2> HIDE DEF l, h, t
  <2>5. /\ l > 0 /\ Len(frames') = l - 1 /\ frames' \in Seq(S) /\ h = frames[1]
        /\ \A k \in 1 .. l - 1 : frames'[k] = frames[k + 1]
        /\ frames' = <<>> <=> l = 1
    <3>1. l > 0
      BY <2>3
    <3> QED BY <2>3, <2>4, <3>1, Zenon
  <2> QED BY <2>5 DEF S, l, h
<1>4. Gone' = Gone + 1 /\ Gone + 1 \in 1 .. Count /\ (Len(frames) = 1 <=> Gone + 1 = Count)
  <2> DEFINE l == Len(frames)
  <2>1. Gone = Count - l /\ Gone' = Count - (l - 1)
    BY <1>1, <1>3 DEF Gone
  <2>2. l > 0 /\ l \in Nat /\ Count \in Nat /\ Gone \in 0 .. Count
    BY <1>2, <1>3
  <2> HIDE DEF l
  <2>3. Gone' = Gone + 1 /\ Gone + 1 \in 1 .. Count /\ (l = 1 <=> Gone + 1 = Count)
    BY <2>1, <2>2
  <2> QED BY <2>3 DEF l
<1>5. Head(frames) = Msgs[Gone + 1]
  <2>1. 1 \in 1 .. Len(frames) /\ Head(frames) = frames[1]
    BY <1>2, <1>3
  <2> QED BY <2>1 DEF SenderInv
<1>6. ASSUME NEW k \in 1 .. Len(frames') PROVE frames'[k] = Msgs'[Gone' + k]
  <2>1. k + 1 \in 1 .. Len(frames) /\ frames'[k] = frames[k + 1]
    BY <1>2, <1>3
  <2>2. frames[k + 1] = Msgs[Gone + (k + 1)]
    BY <2>1 DEF SenderInv
  <2>3. Gone + (k + 1) = Gone' + k
    BY <1>2, <1>4, <2>1
  <2> QED BY <1>1, <2>1, <2>2, <2>3
<1>7. image > 0 /\ Len(sent.text) \in Lengths
  <2>1. ASSUME sent.text = <<>> PROVE Count = 0
    <3>1. Len(sent.text) = 0 /\ 0 * Payload = 0
      BY <2>1, Parameters
    <3>2. ~(0 < NumberOfMsgs(0))
      BY <3>1, MsgsOfLength
    <3> QED BY <1>2, <3>1, <3>2 DEF Count
  <2> QED BY <1>2, <1>4, <2>1 DEF SenderInv
<1>8. Len(frames') <= Count'
  BY <1>1, <1>2, <1>3 DEF SenderInv
<1>9. SenderInv'
  BY <1>1, <1>3, <1>6, <1>7, <1>8 DEF SenderInv
<1> QED BY <1>1, <1>3, <1>4, <1>5, <1>7, <1>9

-----------------------------------------------------------------------------
(* The master.                                                             *)

Undisturbed ==
  image > 0 /\ ~sent.refused /\ ~sent.lost /\ listening /\ Id \notin others

(* The longest text sent under an id so far.                               *)
Longest(id) ==
  IF id = Id /\ Len(sent.text) > longest[id] THEN Len(sent.text) ELSE longest[id]

(* Under an id of which nobody else made use are filed messages of texts   *)
(* of at most the longest length sent; those of an undisturbed image that  *)
(* are gone are all filed; and after the last of them the file is written. *)
MasterInv ==
  /\ DOMAIN tramas = ImageIds /\ DOMAIN file = ImageIds
  /\ longest \in [ImageIds -> Nat] /\ others \subseteq ImageIds
  /\ \A id \in ImageIds : DOMAIN tramas[id] \subseteq 0 .. LastPlace
  /\ \A id \in ImageIds \ others :
       DOMAIN tramas[id] \subseteq Places(NumberOfMsgs(Longest(id)))
  /\ Undisturbed =>
       \A k \in 1 .. Gone : /\ Place(k, Count) \in DOMAIN tramas[Id]
                           /\ tramas[Id][Place(k, Count)] = Piece(sent.text, k)
  /\ Undisturbed /\ frames = <<>> /\ longest[Id] <= Len(sent.text) =>
       file[Id] = sent.text

LEMMA FiledUnder ==
  ASSUME NEW payloads, NEW index, NEW payload
  PROVE  /\ DOMAIN With(payloads, index, payload) = DOMAIN payloads \cup {index}
         /\ With(payloads, index, payload)[index] = payload
         /\ \A i \in DOMAIN payloads :
              i # index => With(payloads, index, payload)[i] = payloads[i]
  BY DEF With

LEMMA MorePlaces ==
  ASSUME NEW m \in Nat, NEW n \in Nat, m <= n
  PROVE  Places(NumberOfMsgs(m)) \subseteq Places(NumberOfMsgs(n))
<1> DEFINE a == NumberOfMsgs(m)
           b == NumberOfMsgs(n)
<1>1. a \in Nat /\ b \in Nat /\ a <= b
  BY LongerHasMore, MsgsOfLength
<1> HIDE DEF a, b
<1>2. 0 .. a - 2 \subseteq 0 .. b - 2
  BY <1>1
<1> QED BY <1>2 DEF Places, a, b

LEMMA MasterInit == Init => MasterInv
<1> SUFFICES ASSUME Init PROVE MasterInv
  OBVIOUS
<1>1. \A id \in ImageIds : tramas[id] = <<>> /\ DOMAIN tramas[id] = {}
  BY DEF Init
<1>2. DOMAIN tramas = ImageIds /\ DOMAIN file = ImageIds /\ others = {} /\ ~(image > 0)
  BY DEF Init
<1>3. longest \in [ImageIds -> Nat]
  BY DEF Init
<1> QED BY <1>1, <1>2, <1>3 DEF MasterInv, Undisturbed

LEMMA MasterCapture == SenderInv /\ MasterInv /\ Capture => MasterInv'
<1> SUFFICES ASSUME SenderInv, MasterInv, Capture PROVE MasterInv'
  OBVIOUS
<1>1. SenderInv' /\ Gone' = 0 /\ frames' # <<>>
  BY CaptureSends
<1>2. /\ tramas' = tramas /\ file' = file /\ others' = others
      /\ longest' = [longest EXCEPT ![Id] = IF @ > Len(sent.text) THEN @ ELSE Len(sent.text)]
  BY DEF Capture, Id
<1>3. Len(sent.text) \in Nat /\ Len(sent'.text) \in Nat /\ Id \in ImageIds
  <2>1. SenderInv' => Len(sent'.text) \in Nat
    BY DEF SenderInv, HistoryOK, Bytes
  <2> QED BY <1>1, <2>1, SendingType
<1>4. longest \in [ImageIds -> Nat] /\ longest' \in [ImageIds -> Nat]
  BY <1>2, <1>3 DEF MasterInv
<1>5. ASSUME NEW id \in ImageIds \ others
      PROVE  DOMAIN tramas[id] \subseteq Places(NumberOfMsgs(Longest(id)'))
  <2>1. Longest(id) \in Nat /\ Longest(id)' \in Nat /\ Longest(id) <= Longest(id)'
    <3>1. Longest(id) <= longest'[id] /\ Longest(id) \in Nat /\ longest'[id] \in Nat
      BY <1>2, <1>3, <1>4 DEF Longest
    <3>2. longest'[id] <= Longest(id)' /\ Longest(id)' \in Nat
      BY <1>3, <1>4 DEF Longest
    <3> QED BY <3>1, <3>2, <1>3, <1>4 DEF Longest
  <2>2. Places(NumberOfMsgs(Longest(id))) \subseteq Places(NumberOfMsgs(Longest(id)'))
    BY <2>1, MorePlaces
  <2> QED BY <2>2 DEF MasterInv
<1>6. \A k \in 1 .. Gone' : FALSE
  BY <1>1
<1> QED BY <1>1, <1>2, <1>4, <1>5, <1>6 DEF MasterInv

(* A message of an undisturbed image is filed where it belongs.            *)
LEMMA MasterFiles ==
  ASSUME SenderInv, MasterInv, frames # <<>>, frames' = Tail(frames),
         ReceiveCanMessages(Head(frames)), sent' = sent,
         UNCHANGED <<image, listening, others, longest>>
  PROVE  MasterInv'
<1> DEFINE k == Gone + 1
           place == Place(k, Count)
           piece == Piece(sent.text, k)
           m == Head(frames)
<1>1. /\ SenderInv' /\ Count' = Count /\ Gone' = k /\ Id' = Id
      /\ k \in 1 .. Count /\ Head(frames) = Msgs[k] /\ (frames' = <<>> <=> k = Count)
      /\ Len(sent.text) \in Lengths /\ image > 0
  <2>1. sent'.text = sent.text
        /\ HistoryOK(sent')
    BY DEF SenderInv
  <2> QED BY <2>1, OneLess
<1>2. /\ Count \in Nat /\ Gone \in 0 .. Count /\ Id \in ImageIds
      /\ sent.text \in Bytes /\ Len(sent.text) \in Nat
      /\ Count = NumberOfMsgs(Len(sent.text)) /\ Count \in 1 .. ByteBase * ByteBase
  BY <1>1, SendingType, MsgsOfText DEF Count
<1>3. /\ m.id = Id /\ IndexOf(m.index) = place /\ m.payload = piece
      /\ m.index = LastIndex <=> k = Count
  <2> DEFINE w == SplitCborToCanMsgs(Id, sent.text)[k]
             c == NumberOfMsgs(Len(sent.text))
  <2>1. k \in 1 .. c
    BY <1>1, <1>2
  <2>2. w = [id      |-> Id,
             index   |-> IF k = c THEN LastIndex ELSE IndexBytes(k - 1),
             payload |-> Piece(sent.text, k)]
    <3> HIDE DEF k
    <3> QED BY <1>2, <2>1, MsgOfText
  <2>3. /\ IndexOf(w.index) = Place(k, c)
        /\ w.index = LastIndex <=> k = c
    <3> HIDE DEF k
    <3> QED BY <1>1, <1>2, <2>1, IndexOfMsg
  <2>4. m = w
    BY <1>1 DEF Msgs
  <2> HIDE DEF w, k, m
  <2> QED BY <1>2, <2>2, <2>3, <2>4
<1> HIDE DEF k, place, piece, m
<1>4. /\ DOMAIN tramas = ImageIds /\ DOMAIN file = ImageIds
      /\ longest \in [ImageIds -> Nat] /\ others \subseteq ImageIds
  BY DEF MasterInv
<1>5. /\ listening' = listening /\ Longest(Id) \in Nat /\ Len(sent.text) <= Longest(Id)
      /\ \A id : Longest(id)' = Longest(id)
  <2>1. longest[Id] \in Nat
    BY <1>2, <1>4
  <2> QED BY <1>1, <1>2, <2>1 DEF Longest
<1>6. CASE ~listening
  <2>1. tramas' = tramas /\ file' = file /\ ~Undisturbed'
    BY <1>6 DEF ReceiveCanMessages, Undisturbed
  <2>2. others' = others /\ longest' = longest
    OBVIOUS
  <2> QED BY <1>5, <2>1, <2>2 DEF MasterInv
<1>7. CASE listening
  <2>1. tramas' = [tramas EXCEPT ![Id] = With(@, place, piece)]
    BY <1>3, <1>7 DEF ReceiveCanMessages, Filed, m
  <2>2. /\ DOMAIN tramas' = ImageIds /\ tramas'[Id] = With(tramas[Id], place, piece)
        /\ \A id \in ImageIds : id # Id => tramas'[id] = tramas[id]
    BY <1>2, <1>4, <2>1
  <2>3. /\ DOMAIN tramas'[Id] = DOMAIN tramas[Id] \cup {place}
        /\ tramas'[Id][place] = piece
        /\ \A i \in DOMAIN tramas[Id] : i # place => tramas'[Id][i] = tramas[Id][i]
    BY <2>2 DEF With
  <2>4. place \in Places(Count) /\ place \in 0 .. LastPlace
    BY <1>1, <1>2, PlacesApart, Parameters DEF place, Place, LastPlace
  <2>5. ASSUME NEW id \in ImageIds PROVE DOMAIN tramas'[id] \subseteq 0 .. LastPlace
    BY <2>2, <2>3, <2>4 DEF MasterInv
  <2>6. ASSUME NEW id \in ImageIds \ others
        PROVE  DOMAIN tramas'[id] \subseteq Places(NumberOfMsgs(Longest(id)))
    <3>1. CASE id = Id
      <4>1. Places(Count) \subseteq Places(NumberOfMsgs(Longest(Id)))
        BY <1>2, <1>5, MorePlaces
      <4>2. DOMAIN tramas[id] \subseteq Places(NumberOfMsgs(Longest(id)))
        BY DEF MasterInv
      <4> QED BY <2>3, <2>4, <3>1, <4>1, <4>2
    <3>2. CASE id # Id
      BY <2>2, <3>2 DEF MasterInv
    <3> QED BY <3>1, <3>2
  <2>7. Undisturbed' <=> Undisturbed
    BY <1>1, <1>5 DEF Undisturbed
  <2>8. ASSUME Undisturbed, NEW j \in 1 .. k
        PROVE  /\ Place(j, Count) \in DOMAIN tramas'[Id]
               /\ tramas'[Id][Place(j, Count)] = Piece(sent.text, j)
    <3>1. CASE j = k
      BY <2>3, <3>1 DEF place, piece
    <3>2. CASE j # k
      <4>1. j \in 1 .. Gone /\ j \in 1 .. Count
        BY <1>1, <1>2, <3>2 DEF k
      <4>2. /\ Place(j, Count) \in DOMAIN tramas[Id]
            /\ tramas[Id][Place(j, Count)] = Piece(sent.text, j)
        BY <2>8, <4>1 DEF MasterInv
      <4>3. Place(j, Count) # place
        BY <1>1, <1>2, <3>2, <4>1, PlacesApart DEF place
      <4> QED BY <2>3, <4>2, <4>3
    <3> QED BY <3>1, <3>2
  <2>9. DOMAIN file' = ImageIds
    BY <1>4, <1>7 DEF ReceiveCanMessages
  <2>10. ASSUME Undisturbed, k = Count, longest[Id] <= Len(sent.text)
         PROVE  file'[Id] = sent.text
    <3>1. Longest(Id) = Len(sent.text)
      BY <1>2, <1>4, <2>10 DEF Longest
    <3>2. DOMAIN tramas'[Id] = Places(Count)
      <4>1. DOMAIN tramas'[Id] \subseteq Places(Count)
        BY <1>2, <2>6, <2>10, <3>1 DEF Undisturbed
      <4>2. ASSUME NEW x \in Places(Count) PROVE x \in DOMAIN tramas'[Id]
        <5>1. PICK j \in 1 .. Count : x = Place(j, Count)
          BY <1>2, PlacesApart
        <5> QED BY <2>8, <2>10, <5>1
      <4> QED BY <4>1, <4>2
    <3>3. AssembleData(tramas'[Id]) = sent.text
      <4> DEFINE payloads == tramas'[Id]
      <4>1. /\ sent.text \in Seq(Nat \X Nat) /\ Len(sent.text) \in Lengths
            /\ DOMAIN payloads = Places(NumberOfMsgs(Len(sent.text)))
        BY <1>1, <1>2, <3>2 DEF Bytes
      <4>2. \A j \in 1 .. NumberOfMsgs(Len(sent.text)) :
              payloads[Place(j, NumberOfMsgs(Len(sent.text)))] = Piece(sent.text, j)
        BY <1>2, <2>8, <2>10
      <4> HIDE DEF payloads
      <4>3. AssembleData(payloads) = sent.text
        BY <4>1, <4>2, Assembled
      <4> QED BY <4>3 DEF payloads
    <3>4. \E parses \in Parses(AssembleData(tramas'[Id])) :
            file' = IF parses THEN [file EXCEPT ![Id] = AssembleData(tramas'[Id])] ELSE file
      BY <1>3, <1>7, <2>10 DEF ReceiveCanMessages, m
    <3>5. file' = [file EXCEPT ![Id] = sent.text]
      BY <3>3, <3>4 DEF Parses
    <3> QED BY <1>2, <1>4, <3>5
  <2>11. others' = others /\ longest' = longest
    OBVIOUS
  <2>12. Undisturbed' =>
           \A j \in 1 .. Gone' : /\ Place(j, Count') \in DOMAIN tramas'[Id']
                                /\ tramas'[Id'][Place(j, Count')] = Piece(sent'.text, j)
    BY <1>1, <2>7, <2>8
  <2>13. Undisturbed' /\ frames' = <<>> /\ longest'[Id'] <= Len(sent'.text) =>
           file'[Id'] = sent'.text
    BY <1>1, <2>7, <2>10, <2>11
  <2>14. \A id \in ImageIds \ others' :
           DOMAIN tramas'[id] \subseteq Places(NumberOfMsgs(Longest(id)'))
    BY <1>5, <2>6, <2>11
  <2> QED BY <1>4, <2>2, <2>5, <2>9, <2>11, <2>12, <2>13, <2>14 DEF MasterInv
<1> QED BY <1>6, <1>7

(* What a transmission, a refusal or a loss changes in the history.        *)
LEMMA SentStep ==
  ASSUME SenderInv, TransmitMsg
  PROVE  /\ HistoryOK(sent') /\ sent'.text = sent.text
         /\ \/ ReceiveCanMessages(Head(frames)) /\ UNCHANGED <<result, sent>>
            \/ sent'.refused = TRUE /\ result' = FALSE /\ UNCHANGED <<tramas, file>>
            \/ /\ sent'.lost = TRUE /\ sent'.refused = sent.refused
               /\ UNCHANGED <<result, tramas, file>>
<1>1. HistoryOK(sent)
  BY DEF SenderInv
<1>2. CASE sent' = [sent EXCEPT !.refused = TRUE, !.faults = @ + 1]
           /\ result' = FALSE /\ UNCHANGED <<tramas, file>>
  <2>1. HistoryOK(sent') /\ sent'.text = sent.text
    BY <1>1, <1>2 DEF HistoryOK
  <2>2. sent'.refused = TRUE
    BY <1>1, <1>2 DEF HistoryOK
  <2> QED BY <1>2, <2>1, <2>2, Zenon
<1>3. CASE sent' = [sent EXCEPT !.lost = TRUE, !.faults = @ + 1]
           /\ UNCHANGED <<result, tramas, file>>
  BY <1>1, <1>3 DEF HistoryOK
<1>4. CASE ReceiveCanMessages(Head(frames)) /\ UNCHANGED <<result, sent>>
  BY <1>1, <1>4
<1> QED BY <1>2, <1>3, <1>4 DEF TransmitMsg

LEMMA OthersHistory ==
  ASSUME SenderInv, OtherSender
  PROVE  /\ HistoryOK(sent') /\ sent'.text = sent.text
         /\ sent'.refused = sent.refused /\ sent'.lost = sent.lost
<1>1. HistoryOK(sent)
  BY DEF SenderInv
<1>2. sent' = [sent EXCEPT !.faults = @ + 1]
  BY DEF OtherSender
<1> QED BY <1>1, <1>2 DEF HistoryOK

LEMMA MasterTransmit == SenderInv /\ MasterInv /\ TransmitMsg => SenderInv' /\ MasterInv'
<1> SUFFICES ASSUME SenderInv, MasterInv, TransmitMsg PROVE SenderInv' /\ MasterInv'
  OBVIOUS
<1>1. /\ frames # <<>> /\ frames' = Tail(frames)
      /\ image' = image /\ listening' = listening /\ others' = others /\ longest' = longest
  BY DEF TransmitMsg
<1>2. /\ sent'.text = sent.text
      /\ HistoryOK(sent')
  BY SentStep
<1>3. SenderInv' /\ Id' = Id
  BY <1>1, <1>2, OneLess
<1>4. CASE ReceiveCanMessages(Head(frames)) /\ UNCHANGED <<result, sent>>
  BY <1>1, <1>3, <1>4, MasterFiles
<1>5. CASE (sent'.refused \/ sent'.lost) /\ UNCHANGED <<tramas, file>>
  <2>1. ~Undisturbed'
    BY <1>5 DEF Undisturbed
  <2>2. \A id : Longest(id)' = Longest(id)
    BY <1>1, <1>2, <1>3 DEF Longest
  <2>3. \A id \in ImageIds \ others' :
          DOMAIN tramas'[id] \subseteq Places(NumberOfMsgs(Longest(id)'))
    BY <1>1, <1>5, <2>2 DEF MasterInv
  <2> QED BY <1>1, <1>3, <1>5, <2>1, <2>3 DEF MasterInv
<1>6. \/ ReceiveCanMessages(Head(frames)) /\ UNCHANGED <<result, sent>>
      \/ (sent'.refused \/ sent'.lost) /\ UNCHANGED <<tramas, file>>
  BY SentStep
<1> QED BY <1>3, <1>4, <1>5, <1>6

LEMMA OthersIndex ==
  ASSUME NEW lsb \in 0 .. ByteBase - 1, NEW msb \in 0 .. ByteBase - 1
  PROVE  IndexOf(<<lsb, msb>>) \in 0 .. LastPlace
<1>1. ByteBase \in Nat \ {0} /\ msb \in Nat /\ lsb \in Nat /\ msb <= ByteBase - 1
  BY Parameters
<1>2. msb * ByteBase <= (ByteBase - 1) * ByteBase /\ msb * ByteBase \in Nat
  <2>1. ByteBase - 1 \in Nat /\ msb * ByteBase \in Nat /\ (ByteBase - 1) * ByteBase \in Nat
    BY <1>1
  <2>2. ByteBase - 1 < msb <=> (ByteBase - 1) * ByteBase < msb * ByteBase
    BY <1>1, <2>1, Less
  <2> QED BY <1>1, <2>1, <2>2
<1>3. (ByteBase - 1) * ByteBase = ByteBase * ByteBase - ByteBase /\ ByteBase * ByteBase \in Nat
  BY <1>1
<1> QED BY <1>1, <1>2, <1>3 DEF IndexOf, LastPlace

LEMMA MasterOther == SenderInv /\ MasterInv /\ OtherSender => SenderInv' /\ MasterInv'
<1> SUFFICES ASSUME SenderInv, MasterInv, OtherSender PROVE SenderInv' /\ MasterInv'
  OBVIOUS
<1>1. /\ image' = image /\ frames' = frames /\ longest' = longest
      /\ HistoryOK(sent')
      /\ sent'.text = sent.text /\ sent'.refused = sent.refused /\ sent'.lost = sent.lost
  BY OthersHistory DEF OtherSender
<1>2. /\ Count' = Count /\ Gone' = Gone /\ Id' = Id /\ Msgs' = Msgs
      /\ \A id : Longest(id)' = Longest(id)
  BY <1>1 DEF Count, Gone, Id, Msgs, Longest
<1>3. CASE listening' = FALSE /\ UNCHANGED <<tramas, file, others>>
  <2>1. ~Undisturbed' /\ listening' \in BOOLEAN
    BY <1>3 DEF Undisturbed
  <2>2. SenderInv'
    BY <1>1, <1>2, <2>1 DEF SenderInv
  <2> QED BY <1>1, <1>2, <1>3, <2>1, <2>2 DEF MasterInv
<1>4. CASE ~(listening' = FALSE /\ UNCHANGED <<tramas, file, others>>)
  <2>1. PICK id \in ImageIds, lsb, msb \in 0 .. ByteBase - 1 :
          /\ ReceiveCanMessages([id |-> id, index |-> <<lsb, msb>>, payload |-> <<<<0, 0>>>>])
          /\ others' = others \cup {id} /\ UNCHANGED listening
    BY <1>4 DEF OtherSender
  <2> DEFINE m == [id |-> id, index |-> <<lsb, msb>>, payload |-> <<<<0, 0>>>>]
             index == IndexOf(<<lsb, msb>>)
  <2>2. index \in 0 .. LastPlace
    BY OthersIndex
  <2>3. m.id = id /\ m.index = <<lsb, msb>>
    OBVIOUS
  <2>4. /\ DOMAIN tramas = ImageIds /\ DOMAIN file = ImageIds
        /\ longest \in [ImageIds -> Nat] /\ others \subseteq ImageIds
        /\ \A i \in ImageIds : DOMAIN tramas[i] \subseteq 0 .. LastPlace
    BY DEF MasterInv
  <2> HIDE DEF m, index
  <2>5. /\ DOMAIN tramas' = ImageIds /\ DOMAIN file' = ImageIds
        /\ \A i \in ImageIds : DOMAIN tramas'[i] \subseteq 0 .. LastPlace
        /\ \A i \in ImageIds \ {id} : tramas'[i] = tramas[i] /\ file'[i] = file[i]
    <3>1. CASE ~listening
      BY <2>1, <2>4, <3>1 DEF ReceiveCanMessages
    <3>2. CASE listening
      <4>1. tramas' = [tramas EXCEPT ![id] = With(@, index, m.payload)]
        BY <2>1, <2>3, <3>2 DEF ReceiveCanMessages, Filed, m, index
      <4>2. DOMAIN tramas'[id] = DOMAIN tramas[id] \cup {index}
        <5>1. tramas'[id] = With(tramas[id], index, m.payload)
          BY <2>4, <4>1
        <5>2. DOMAIN With(tramas[id], index, m.payload) = DOMAIN tramas[id] \cup {index}
          BY FiledUnder, Zenon
        <5> QED BY <5>1, <5>2
      <4>3. \/ file' = file
            \/ file' = [file EXCEPT ![id] = AssembleData(tramas'[id])]
        BY <2>1, <2>3, <3>2 DEF ReceiveCanMessages, m
      <4> QED BY <2>2, <2>4, <4>1, <4>2, <4>3
    <3> QED BY <3>1, <3>2
  <2>6. listening' = listening /\ listening' \in BOOLEAN /\ others' = others \cup {id}
    BY <2>1 DEF SenderInv
  <2>7. SenderInv'
    BY <1>1, <1>2, <2>6 DEF SenderInv
  <2>8. Undisturbed' => Undisturbed /\ Id # id /\ Id \in ImageIds
    BY <1>1, <1>2, <2>6, SendingType DEF Undisturbed
  <2>9. Undisturbed' => tramas'[Id] = tramas[Id] /\ file'[Id] = file[Id]
    BY <2>5, <2>8
  <2>10. \A i \in ImageIds \ others' :
           DOMAIN tramas'[i] \subseteq Places(NumberOfMsgs(Longest(i)'))
    BY <1>2, <2>5, <2>6 DEF MasterInv
  <2>11. Undisturbed' =>
           \A k \in 1 .. Gone' : /\ Place(k, Count') \in DOMAIN tramas'[Id']
                                /\ tramas'[Id'][Place(k, Count')] = Piece(sent'.text, k)
    BY <1>1, <1>2, <2>8, <2>9 DEF MasterInv
  <2>12. Undisturbed' /\ frames' = <<>> /\ longest'[Id'] <= Len(sent'.text) =>
           file'[Id'] = sent'.text
    BY <1>1, <1>2, <2>8, <2>9 DEF MasterInv
  <2>13. others' \subseteq ImageIds /\ longest' \in [ImageIds -> Nat]
    BY <1>1, <2>4, <2>6
  <2> QED BY <2>5, <2>7, <2>10, <2>11, <2>12, <2>13 DEF MasterInv
<1> QED BY <1>3, <1>4

LEMMA ToldStep == SenderInv /\ Told /\ [Next]_vars => Told'
<1> SUFFICES ASSUME SenderInv, Told, [Next]_vars PROVE Told'
  OBVIOUS
<1>1. CASE Capture
  BY <1>1, CaptureSends
<1>2. CASE TransmitMsg
  <2>1. \/ result' = result /\ sent'.refused = sent.refused
        \/ result' = FALSE /\ sent'.refused = TRUE
    BY <1>2, SentStep
  <2>2. CASE result' = result /\ sent'.refused = sent.refused
    BY <2>2 DEF Told
  <2>3. CASE result' = FALSE /\ sent'.refused = TRUE
    BY <2>3 DEF Told
  <2> QED BY <2>1, <2>2, <2>3
<1>3. CASE OtherSender
  <2>1. result' = result /\ sent'.refused = sent.refused
    BY <1>3, OthersHistory DEF OtherSender
  <2> QED BY <2>1 DEF Told
<1>4. CASE UNCHANGED vars
  BY <1>4 DEF vars, Told
<1> QED BY <1>1, <1>2, <1>3, <1>4 DEF Next

TransferInv == SenderInv /\ MasterInv /\ Told

LEMMA TransferStep == TransferInv /\ [Next]_vars => TransferInv'
<1> SUFFICES ASSUME TransferInv, [Next]_vars PROVE TransferInv'
  OBVIOUS
<1>1. SenderInv /\ MasterInv /\ Told'
  BY ToldStep DEF TransferInv
<1>2. CASE Capture
  BY <1>1, <1>2, CaptureSends, MasterCapture DEF TransferInv
<1>3. CASE TransmitMsg
  BY <1>1, <1>3, MasterTransmit DEF TransferInv
<1>4. CASE OtherSender
  BY <1>1, <1>4, MasterOther DEF TransferInv
<1>5. CASE UNCHANGED vars
  <2>1. /\ Count' = Count /\ Gone' = Gone /\ Id' = Id /\ Msgs' = Msgs
        /\ \A id : Longest(id)' = Longest(id)
        /\ Undisturbed' <=> Undisturbed
    BY <1>5 DEF vars, Count, Gone, Id, Msgs, Longest, Undisturbed
  <2>2. SenderInv'
    BY <1>1, <1>5, <2>1 DEF vars, SenderInv
  <2>3. MasterInv'
    BY <1>1, <1>5, <2>1 DEF vars, MasterInv
  <2> QED BY <1>1, <2>2, <2>3 DEF TransferInv
<1> QED BY <1>2, <1>3, <1>4, <1>5 DEF Next

LEMMA TransferAlways == Spec => []TransferInv
<1>1. Init => TransferInv
  BY SenderInit, MasterInit DEF TransferInv
<1> QED BY <1>1, TransferStep, PTL DEF Spec

-----------------------------------------------------------------------------
(* TypeOK: what is still to be sent are non-empty payloads of at most      *)
(* Payload bytes, and every index filed is one that two bytes can hold.    *)
THEOREM TransferTypeCorrect == Spec => []TypeOK
<1>1. TransferInv => TypeOK
  <2> SUFFICES ASSUME TransferInv PROVE TypeOK
    OBVIOUS
  <2>1. SenderInv /\ MasterInv /\ Told
    BY DEF TransferInv
  <2>2. image \in 0 .. Images /\ listening \in BOOLEAN /\ result \in BOOLEAN
    BY <2>1 DEF SenderInv, Told
  <2>3. ASSUME NEW k \in 1 .. Len(frames)
        PROVE  frames[k].id \in ImageIds /\ Len(frames[k].payload) \in 1 .. Payload
    <3>1. /\ Gone + k \in 1 .. Count /\ Id \in ImageIds /\ sent.text \in Bytes
          /\ Count = NumberOfMsgs(Len(sent.text))
      <4>1. /\ Count \in Nat /\ Len(frames) \in Nat /\ Gone \in 0 .. Count
            /\ Id \in ImageIds /\ sent.text \in Bytes
        BY <2>1, SendingType
      <4> QED BY <4>1 DEF Gone, Count
    <3>2. frames[k] = SplitCborToCanMsgs(Id, sent.text)[Gone + k]
      BY <2>1 DEF SenderInv, Msgs
    <3> DEFINE j == Gone + k
    <3> HIDE DEF j
    <3>3. /\ SplitCborToCanMsgs(Id, sent.text)[j] =
               [id      |-> Id,
                index   |-> IF j = NumberOfMsgs(Len(sent.text)) THEN LastIndex ELSE IndexBytes(j - 1),
                payload |-> Piece(sent.text, j)]
          /\ Len(Piece(sent.text, j)) \in 1 .. Payload
      <4>1. j \in 1 .. NumberOfMsgs(Len(sent.text))
        BY <3>1 DEF j
      <4> QED BY <3>1, <4>1, MsgOfText, PieceFits
    <3>4. frames[k] = SplitCborToCanMsgs(Id, sent.text)[j]
      BY <3>2 DEF j
    <3> QED BY <3>1, <3>3, <3>4
  <2>4. \A id \in ImageIds : DOMAIN tramas[id] \subseteq 0 .. ByteBase * ByteBase - 1
    BY <2>1 DEF MasterInv, LastPlace
  <2>5. others \subseteq ImageIds
    BY <2>1 DEF MasterInv
  <2> QED BY <2>2, <2>3, <2>4, <2>5 DEF TypeOK
<1> QED BY <1>1, TransferAlways, PTL

(* FileIsTheImage: the master's file of an image is the image, unless a    *)
(* frame was refused or lost, the master's thread ended, somebody else     *)
(* wrote under the id, or an earlier image of that id was longer.          *)
THEOREM WholeImageArrives == Spec => []FileIsTheImage
<1>1. TransferInv => FileIsTheImage
  <2> SUFFICES ASSUME TransferInv, image > 0, frames = <<>>,
                      ~sent.refused, ~sent.lost, listening,
                      IdOf(image) \notin others, ~(longest[IdOf(image)] > Len(sent.text))
               PROVE  file[IdOf(image)] = sent.text
    BY DEF FileIsTheImage
  <2>1. SenderInv /\ MasterInv
    BY DEF TransferInv
  <2>2. Undisturbed
    BY DEF Undisturbed, Id
  <2>3. longest[Id] \in Nat /\ Len(sent.text) \in Nat
    BY <2>1, SendingType DEF MasterInv
  <2>4. longest[Id] <= Len(sent.text)
    BY <2>3 DEF Id
  <2> QED BY <2>1, <2>2, <2>4 DEF MasterInv, Id
<1> QED BY <1>1, TransferAlways, PTL

(* SendDataTells: sendData returns false if and only if a frame of the     *)
(* image was refused, at any place among its messages.                     *)
THEOREM RefusalIsTold == Spec => []SendDataTells
<1>1. TransferInv => SendDataTells
  BY DEF TransferInv, Told, SendDataTells
<1> QED BY <1>1, TransferAlways, PTL
====
