----------------------------- MODULE CodecProofs ----------------------------
(***************************************************************************)
(* Proofs about Codec and Binary, for any sizes of keys, identifiers and   *)
(* bytes, any key streams and any inputs.                                  *)
(***************************************************************************)
EXTENDS Codec, SequenceTheorems, FiniteSetTheorems, TLAPS

(* The division of natural numbers.                                        *)
LEMMA Division ==
  ASSUME NEW a \in Nat, NEW b \in Nat, b > 0
  PROVE  /\ a \div b \in Nat
         /\ a % b \in 0 .. b - 1
         /\ a = b * (a \div b) + (a % b)
  OBVIOUS

LEMMA UniqueDivision ==
  ASSUME NEW b \in Nat, NEW q \in Int, NEW r \in 0 .. b - 1, b > 0
  PROVE  /\ (b * q + r) \div b = q
         /\ (b * q + r) % b = r
  OBVIOUS

LEMMA Mods ==
  /\ ByteMod \in Nat /\ ByteMod > 3
  /\ ShortMod \in Nat /\ ShortMod > 0
  /\ LongMod \in Nat /\ LongMod > 0
<1>1. ByteMod \in Nat /\ ByteMod > 3
  BY ByteModAssumption
<1>2. \A x \in Nat : x > 0 => x * x \in Nat /\ x * x > 0
  OBVIOUS
<1>. QED BY <1>1, <1>2 DEF ShortMod, LongMod

(* htons and htonl are undone by ntohs and ntohl.                          *)
LEMMA ShortComesBack ==
  ASSUME NEW n \in 0 .. ShortMod - 1
  PROVE  /\ htons(n) \in Seq(Byte) /\ Len(htons(n)) = 2
         /\ ntohs(htons(n)) = n
<1>. DEFINE q == n \div ByteMod
            r == n % ByteMod
<1>1. q \in Nat /\ r \in 0 .. ByteMod - 1 /\ n = ByteMod * q + r
  BY Mods, Division
<1>2. n % ShortMod = n
  BY Mods
<1>. HIDE DEF q, r
<1>3. q < ByteMod
  BY <1>1, Mods DEF ShortMod
<1>4. htons(n) = <<q, r>>
  BY <1>2 DEF htons, q, r
<1>5. q \in Byte /\ r \in Byte
  BY <1>1, <1>3, Mods DEF Byte
<1>6. \A S : \A x, y \in S : <<x, y>> \in Seq(S) /\ Len(<<x, y>>) = 2
  OBVIOUS
<1>7. htons(n) \in Seq(Byte) /\ Len(htons(n)) = 2
  BY <1>4, <1>5, <1>6
<1>8. ntohs(<<q, r>>) = ByteMod * q + r
  BY DEF ntohs
<1>. QED BY <1>1, <1>4, <1>7, <1>8

(* Parts of a sequence that was put together.                              *)
LEMMA PartOfFirst ==
  ASSUME NEW S, NEW s \in Seq(S), NEW u \in Seq(S),
         NEW m \in Nat, NEW n \in Nat, 1 <= m, n <= Len(s)
  PROVE  SubSeq(s \o u, m, n) = SubSeq(s, m, n)
<1>1. /\ s \o u \in Seq(S) /\ Len(s \o u) = Len(s) + Len(u)
      /\ \A i \in 1 .. Len(s) : (s \o u)[i] = s[i]
  BY ConcatProperties
<1>2. \A i \in m .. n : (s \o u)[i] = s[i] /\ s[i] \in S
  BY <1>1
<1>3. /\ SubSeq(s \o u, m, n) \in Seq(S)
      /\ Len(SubSeq(s \o u, m, n)) = IF m <= n THEN n - m + 1 ELSE 0
      /\ \A i \in 1 .. n - m + 1 : SubSeq(s \o u, m, n)[i] = (s \o u)[m + i - 1]
  BY <1>2, SubSeqProperties
<1>4. /\ SubSeq(s, m, n) \in Seq(S)
      /\ Len(SubSeq(s, m, n)) = IF m <= n THEN n - m + 1 ELSE 0
      /\ \A i \in 1 .. n - m + 1 : SubSeq(s, m, n)[i] = s[m + i - 1]
  BY <1>2, SubSeqProperties
<1>5. \A i \in 1 .. Len(SubSeq(s, m, n)) :
        SubSeq(s \o u, m, n)[i] = SubSeq(s, m, n)[i]
  BY <1>2, <1>3, <1>4
<1>. QED BY <1>3, <1>4, <1>5, SeqEqual

LEMMA SecondPart ==
  ASSUME NEW S, NEW s \in Seq(S), NEW u \in Seq(S)
  PROVE  SubSeq(s \o u, Len(s) + 1, Len(s) + Len(u)) = u
<1>1. PICK w : w = s \o u
  OBVIOUS
<1>2. /\ w \in Seq(S) /\ Len(w) = Len(s) + Len(u)
      /\ \A i \in 1 .. Len(u) : w[Len(s) + i] = u[i]
      /\ Len(s) \in Nat /\ Len(u) \in Nat
  BY <1>1, ConcatProperties
<1>3. PICK m, n : m = Len(s) + 1 /\ n = Len(s) + Len(u)
  OBVIOUS
<1>4. m \in Int /\ n \in Int /\ n - m + 1 = Len(u) /\ (m <= n <=> Len(u) > 0)
  BY <1>2, <1>3
<1>5. \A i \in m .. n : w[i] \in S
  BY <1>2, <1>3
<1>6. /\ SubSeq(w, m, n) \in Seq(S)
      /\ Len(SubSeq(w, m, n)) = IF m <= n THEN n - m + 1 ELSE 0
      /\ \A i \in 1 .. n - m + 1 : SubSeq(w, m, n)[i] = w[m + i - 1]
  BY <1>4, <1>5, SubSeqProperties
<1>7. Len(SubSeq(w, m, n)) = Len(u)
  BY <1>2, <1>4, <1>6
<1>8. \A i \in 1 .. Len(SubSeq(w, m, n)) : SubSeq(w, m, n)[i] = u[i]
  BY <1>2, <1>3, <1>4, <1>6, <1>7
<1>9. SubSeq(w, m, n) = u
  BY <1>6, <1>7, <1>8, SeqEqual
<1>. QED BY <1>1, <1>3, <1>9

LEMMA TwoParts ==
  ASSUME NEW S, NEW s \in Seq(S), NEW p \in 0 .. Len(s)
  PROVE  SubSeq(s, 1, p) \o SubSeq(s, p + 1, Len(s)) = s
<1>1. Len(s) \in Nat
  BY LenProperties
<1>2. PICK m, n : m = 1 /\ n = Len(s)
  OBVIOUS
<1>3. m \in 1 .. Len(s) + 1 /\ p \in m - 1 .. Len(s) /\ n \in p .. Len(s)
  BY <1>1, <1>2
<1>4. SubSeq(s, m, p) \o SubSeq(s, p + 1, n) = SubSeq(s, m, n)
  BY <1>3, ConcatAdjacentSubSeq
<1>. QED BY <1>2, <1>4, SubSeqFull

(* All that is used of a sequence that was put together.                   *)
LEMMA Together ==
  ASSUME NEW S, NEW s \in Seq(S), NEW u \in Seq(S)
  PROVE  /\ s \o u \in Seq(S)
         /\ Len(s) \in Nat /\ Len(u) \in Nat /\ Len(s \o u) = Len(s) + Len(u)
         /\ \A i \in 1 .. Len(s) : (s \o u)[i] = s[i]
         /\ \A i \in 1 .. Len(u) : (s \o u)[Len(s) + i] = u[i]
         /\ \A m, n \in Nat : 1 <= m /\ n <= Len(s) =>
              SubSeq(s \o u, m, n) = SubSeq(s, m, n)
         /\ SubSeq(s \o u, Len(s) + 1, Len(s) + Len(u)) = u
<1>1. /\ s \o u \in Seq(S)
      /\ Len(s) \in Nat /\ Len(u) \in Nat /\ Len(s \o u) = Len(s) + Len(u)
      /\ \A i \in 1 .. Len(s) : (s \o u)[i] = s[i]
      /\ \A i \in 1 .. Len(u) : (s \o u)[Len(s) + i] = u[i]
  BY ConcatProperties
<1>2. \A m, n \in Nat : 1 <= m /\ n <= Len(s) =>
        SubSeq(s \o u, m, n) = SubSeq(s, m, n)
  BY PartOfFirst
<1>3. SubSeq(s \o u, Len(s) + 1, Len(s) + Len(u)) = u
  BY SecondPart
<1>. QED BY <1>1, <1>2, <1>3

LEMMA Joined ==
  ASSUME NEW S, NEW s \in Seq(S), NEW u \in Seq(S), NEW w, w = s \o u
  PROVE  /\ w \in Seq(S)
         /\ Len(s) \in Nat /\ Len(u) \in Nat /\ Len(w) = Len(s) + Len(u)
         /\ \A i \in 1 .. Len(s) : w[i] = s[i]
         /\ \A i \in 1 .. Len(u) : w[Len(s) + i] = u[i]
         /\ \A m, n \in Nat : 1 <= m /\ n <= Len(s) =>
              SubSeq(w, m, n) = SubSeq(s, m, n)
         /\ SubSeq(w, Len(s) + 1, Len(s) + Len(u)) = u
  BY Together

LEMMA LongComesBack ==
  ASSUME NEW n \in 0 .. LongMod - 1
  PROVE  /\ htonl(n) \in Seq(Byte) /\ Len(htonl(n)) = 4
         /\ ntohl(htonl(n)) = n
<1>1. PICK q, r : q = n \div ShortMod /\ r = n % ShortMod
  OBVIOUS
<1>2. q \in Nat /\ r \in 0 .. ShortMod - 1 /\ n = ShortMod * q + r
  BY <1>1, Mods, Division
<1>3. q \in 0 .. ShortMod - 1
  BY <1>2, Mods DEF LongMod
<1>4. PICK s, u : s = htons(q) /\ u = htons(r)
  OBVIOUS
<1>5. /\ s \in Seq(Byte) /\ Len(s) = 2 /\ ntohs(s) = q
      /\ u \in Seq(Byte) /\ Len(u) = 2 /\ ntohs(u) = r
  BY <1>2, <1>3, <1>4, ShortComesBack
<1>6. htonl(n) = s \o u
  BY <1>1, <1>4 DEF htonl
<1>7. PICK S : S = Byte
  OBVIOUS
<1>8. PICK w : w = s \o u
  OBVIOUS
<1>9. /\ w \in Seq(S) /\ Len(w) = 4
      /\ w[1] = s[1] /\ w[2] = s[2]
      /\ SubSeq(w, 3, 4) = u
  <2>1. s \in Seq(S) /\ u \in Seq(S)
    BY <1>5, <1>7
  <2>2. /\ w \in Seq(S) /\ Len(w) = Len(s) + Len(u)
        /\ \A i \in 1 .. Len(s) : w[i] = s[i]
        /\ SubSeq(w, Len(s) + 1, Len(s) + Len(u)) = u
    BY ONLY <2>1, <1>8, Together
  <2>3. 2 + 1 = 3 /\ 2 + 2 = 4 /\ 1 \in 1 .. 2 /\ 2 \in 1 .. 2
    OBVIOUS
  <2>. QED BY ONLY <1>5, <2>2, <2>3
<1>10. ntohs(w) = q
  BY <1>5, <1>9 DEF ntohs
<1>11. ntohl(w) = ShortMod * q + r
  BY <1>5, <1>9, <1>10 DEF ntohl
<1>. QED BY <1>2, <1>6, <1>7, <1>8, <1>9, <1>11

-----------------------------------------------------------------------------
(* The reader of a binary stays in it, and a read succeeds when what is    *)
(* left is long enough.                                                    *)
Reader(bin) == [mBinary : {bin}, mPosition : 0 .. Len(bin), ok : BOOLEAN]

LEMMA Reading ==
  ASSUME NEW bin, Len(bin) \in Nat, NEW r \in Reader(bin), NEW size \in Nat
  PROVE  /\ Read(r, size) \in Reader(bin)
         /\ Read(r, size).ok <=> r.ok /\ r.mPosition + size <= Len(bin)
         /\ Read(r, size).ok => Read(r, size).mPosition = r.mPosition + size
<1>1. r.mBinary = bin /\ r.mPosition \in 0 .. Len(bin) /\ r.ok \in BOOLEAN
  BY DEF Reader
<1>2. CASE r.ok /\ r.mPosition + size <= Len(bin)
  <2>1. Read(r, size) = [r EXCEPT !.mPosition = @ + size]
    BY <1>1, <1>2 DEF Read
  <2>2. r.mPosition + size \in 0 .. Len(bin)
    BY <1>1, <1>2
  <2>. QED BY <1>1, <1>2, <2>1, <2>2 DEF Reader
<1>3. CASE ~ (r.ok /\ r.mPosition + size <= Len(bin))
  <2>1. Read(r, size) = [r EXCEPT !.ok = FALSE]
    BY <1>1, <1>3 DEF Read
  <2>. QED BY <1>1, <1>3, <2>1 DEF Reader
<1>. QED BY <1>2, <1>3

LEMMA ReadTo ==
  ASSUME NEW bin, Len(bin) \in Nat, NEW r \in Reader(bin), NEW size \in Nat,
         r.ok, r.mPosition + size <= Len(bin),
         NEW s, s = Read(r, size)
  PROVE  s \in Reader(bin) /\ s.ok /\ s.mPosition = r.mPosition + size
  BY Reading

LEMMA NewReader ==
  ASSUME NEW bin, Len(bin) \in Nat
  PROVE  /\ binary_reader(bin) \in Reader(bin)
         /\ binary_reader(bin).mPosition = 0 /\ binary_reader(bin).ok
  BY DEF binary_reader, Reader

(* A binary that is accepted with a source starts with the part that was   *)
(* signed, and what starts with the signature follows.                     *)
LEMMA AcceptedIsSigned ==
  ASSUME NEW bin \in Seq(0 .. ByteMod),
         fromBinary(bin) # Failed, fromBinary(bin).source # NoId
  PROVE  \E u \in Seq(0 .. ByteMod) : StartsWithSignature(u) /\ bin = signed.part \o u
<1>. DEFINE r == Read(binary_reader(bin), HeaderSize)
            hasSource == bin[2] % 2 = 1
            hasDestination == (bin[2] \div 2) % 2 = 1
            length == ntohs(SubSeq(bin, 3, 4))
            s == IF hasSource THEN Read(r, IdSize) ELSE r
            d == IF hasDestination THEN Read(s, IdSize) ELSE s
            b == Read(d, length)
            message == [type |-> bin[1],
                        sequence |-> ntohl(SubSeq(bin, 5, 8)),
                        source |-> IF hasSource THEN Taken(s, IdSize) ELSE NoId,
                        destination |-> IF hasDestination THEN Taken(d, IdSize) ELSE NoId,
                        body |-> Taken(b, length),
                        signature |-> left(b)]
            accepted == /\ r.ok /\ b.ok
                        /\ hasSource => IsPoint(message.source)
                        /\ hasDestination => IsPoint(message.destination)
                        /\ hasSource => verify(message.source, SubSeq(bin, 1, b.mPosition), message.signature)
<1>1. fromBinary(bin) = IF accepted THEN message ELSE Failed
  BY DEF fromBinary
<1>2. Len(bin) \in Nat /\ \A i \in 1 .. Len(bin) : bin[i] \in 0 .. ByteMod
  BY ElementOfSeq, LenProperties
<1>3. message.source = IF hasSource THEN Taken(s, IdSize) ELSE NoId
  OBVIOUS
<1>4. message.signature = left(b)
  OBVIOUS
<1>5. r \in Reader(bin) /\ (r.ok => 8 <= Len(bin))
  <2>1. PICK q : q = binary_reader(bin)
    OBVIOUS
  <2>2. q \in Reader(bin) /\ q.mPosition = 0 /\ q.ok
    BY <1>2, <2>1, NewReader
  <2>3. r = Read(q, 8)
    BY <2>1 DEF HeaderSize
  <2>. HIDE DEF r
  <2>4. r \in Reader(bin) /\ (r.ok <=> q.ok /\ q.mPosition + 8 <= Len(bin))
    BY <1>2, <2>2, <2>3, Reading
  <2>. QED BY <1>2, <2>2, <2>4
<1>6. s \in Reader(bin)
  <2>. HIDE DEF r, hasSource
  <2>. QED BY <1>2, <1>5, Reading, CodecAssumption
<1>7. d \in Reader(bin)
  <2>. HIDE DEF s, hasDestination
  <2>. QED BY <1>2, <1>6, Reading, CodecAssumption
<1>. HIDE DEF r, hasSource, hasDestination, s, d, message, accepted
<1>8. accepted /\ fromBinary(bin) = message
  BY <1>1
<1>9. hasSource
  BY <1>3, <1>8
<1>10. r.ok /\ b.ok /\ verify(message.source, SubSeq(bin, 1, b.mPosition), message.signature)
  BY <1>8, <1>9 DEF accepted
<1>11. length \in Nat
  <2>1. \A i \in 3 .. 4 : bin[i] \in 0 .. ByteMod
    BY <1>2, <1>5, <1>10
  <2>2. SubSeq(bin, 3, 4)[1] = bin[3] /\ SubSeq(bin, 3, 4)[2] = bin[4]
    BY <2>1, SubSeqProperties
  <2>3. length = ByteMod * bin[3] + bin[4]
    BY <2>2 DEF ntohs
  <2>4. bin[3] \in Nat /\ bin[4] \in Nat
    BY <2>1, Mods
  <2>. QED BY <2>3, <2>4, Mods, SMTT(60)
<1>. HIDE DEF length
<1>12. b \in Reader(bin)
  BY <1>2, <1>7, <1>11, Reading
<1>. HIDE DEF b
<1>13. PICK p : p = b.mPosition
  OBVIOUS
<1>14. p \in 0 .. Len(bin) /\ b.mBinary = bin
  BY <1>12, <1>13 DEF Reader
<1>15. /\ StartsWithSignature(SubSeq(bin, p + 1, Len(bin)))
       /\ signed.part = SubSeq(bin, 1, p)
  BY <1>4, <1>10, <1>13, <1>14 DEF left, verify
<1>16. SubSeq(bin, 1, p) \o SubSeq(bin, p + 1, Len(bin)) = bin
  BY <1>14, TwoParts
<1>17. SubSeq(bin, p + 1, Len(bin)) \in Seq(0 .. ByteMod)
  <2>1. p + 1 \in Int /\ Len(bin) \in Int /\ \A i \in p + 1 .. Len(bin) : i \in 1 .. Len(bin)
    BY ONLY <1>2, <1>14
  <2>2. \A i \in p + 1 .. Len(bin) : bin[i] \in 0 .. ByteMod
    BY <1>2, <2>1
  <2>. QED BY <2>1, <2>2, SubSeqProperties
<1>. QED BY <1>15, <1>16, <1>17

-----------------------------------------------------------------------------
(* What a message is made of.                                              *)
LEMMA FunctionIsSeq ==
  ASSUME NEW S, NEW n \in Nat, NEW f \in [1 .. n -> S]
  PROVE  f \in Seq(S) /\ Len(f) = n
<1>1. f \in Seq(S)
  BY SeqDef
<1>2. Len(f) \in Nat /\ DOMAIN f = 1 .. Len(f)
  BY <1>1, LenProperties
<1>3. 1 .. Len(f) = 1 .. n
  BY <1>2
<1>4. \A k \in Nat : 1 .. k = 1 .. n => k = n
  <2>1. SUFFICES ASSUME NEW k \in Nat, 1 .. k = 1 .. n PROVE k = n
    OBVIOUS
  <2>2. (k \in 1 .. k <=> k >= 1) /\ (n \in 1 .. n <=> n >= 1)
    OBVIOUS
  <2>3. (k \in 1 .. n <=> k >= 1) /\ (n \in 1 .. k <=> n >= 1)
    BY <2>1, <2>2
  <2>. QED BY <2>3
<1>. QED BY <1>1, <1>2, <1>3, <1>4

(* SetToSeq lists a finite set.                                            *)
LEMMA Listing ==
  ASSUME NEW T \in SUBSET Ids
  PROVE  /\ SetToSeq(T) \in Seq(T) /\ SetToSeq(T) \in Seq(Ids)
         /\ T = {SetToSeq(T)[k] : k \in 1 .. Len(SetToSeq(T))}
<1>1. IsFiniteSet(T) /\ IsFiniteSet(Ids)
  BY CodecAssumption, FS_Subset
<1>2. PICK n : n = Cardinality(T)
  OBVIOUS
<1>3. n \in Nat /\ ExistsBijection(1 .. n, T)
  BY <1>1, <1>2, FS_CardinalityType
<1>4. \E f \in [1 .. n -> T] : IsInjective(f)
  BY <1>3 DEF ExistsBijection, Bijection, Injection
<1>5. PICK g : g = SetToSeq(T)
  OBVIOUS
<1>6. g \in [1 .. n -> T] /\ IsInjective(g)
  BY <1>2, <1>4, <1>5 DEF SetToSeq
<1>7. g \in Seq(T) /\ Len(g) = n
  BY <1>3, <1>6, FunctionIsSeq
<1>8. g \in Injection(1 .. n, T)
  BY <1>6 DEF Injection
<1>9. IsFiniteSet(1 .. n) /\ Cardinality(1 .. n) = n
  <2>1. 1 \in Int /\ n \in Int
    BY <1>3
  <2>2. IsFiniteSet(1 .. n) /\ Cardinality(1 .. n) = IF 1 > n THEN 0 ELSE n - 1 + 1
    BY <2>1, FS_Interval
  <2>. QED BY <1>3, <2>2
<1>10. g \in Surjection(1 .. n, T)
  BY <1>1, <1>2, <1>8, <1>9, FS_Injection
<1>11. T = {g[k] : k \in 1 .. n}
  BY <1>6, <1>10 DEF Surjection
<1>12. g \in Seq(Ids)
  BY <1>7, SeqMonotonic
<1>. QED BY <1>5, <1>7, <1>11, <1>12

(* The identifiers of a State are laid out one after the other.            *)
Flat(ids) ==
  [k \in 1 .. IdSize * Len(ids) |-> ids[((k - 1) \div IdSize) + 1][((k - 1) % IdSize) + 1]]

LEMMA Layout ==
  ASSUME NEW ids \in Seq(Ids)
  PROVE  /\ Len(ids) \in Nat /\ IdSize * Len(ids) \in Nat
         /\ Flat(ids) \in Seq(Byte) /\ Len(Flat(ids)) = IdSize * Len(ids)
         /\ \A j \in 1 .. Len(ids) :
              SubSeq(Flat(ids), IdSize * (j - 1) + 1, IdSize * j) = ids[j]
<1>1. PICK size, n : size = IdSize /\ n = Len(ids)
  OBVIOUS
<1>2. size \in Nat /\ size > 0 /\ n \in Nat /\ size * n \in Nat
  <2>1. size \in Nat /\ size > 0 /\ n \in Nat
    BY <1>1, CodecAssumption, LenProperties
  <2>2. \A x, y \in Nat : x * y \in Nat
    OBVIOUS
  <2>. QED BY <2>1, <2>2
<1>3. \A j \in 1 .. n : ids[j] \in [1 .. size -> Byte]
  BY <1>1, ElementOfSeq, CodecAssumption
<1>4. PICK f : f = Flat(ids)
  OBVIOUS
<1>5. f = [k \in 1 .. size * n |-> ids[((k - 1) \div size) + 1][((k - 1) % size) + 1]]
  BY <1>1, <1>4 DEF Flat
<1>6. \A k \in 1 .. size * n :
        ((k - 1) \div size) + 1 \in 1 .. n /\ ((k - 1) % size) + 1 \in 1 .. size
  <2>. SUFFICES ASSUME NEW k \in 1 .. size * n
       PROVE ((k - 1) \div size) + 1 \in 1 .. n /\ ((k - 1) % size) + 1 \in 1 .. size
    OBVIOUS
  <2>1. k - 1 \in Nat /\ k - 1 < size * n
    BY <1>2
  <2>2. PICK a : a = k - 1
    OBVIOUS
  <2>3. PICK q, r : q = a \div size /\ r = a % size
    OBVIOUS
  <2>4. a \in Nat /\ a < size * n
    BY <2>1, <2>2
  <2>5. q \in Nat /\ r \in 0 .. size - 1 /\ a = size * q + r
    BY <1>2, <2>3, <2>4, Division
  <2>6. q < n
    <3>1. CASE q >= n
      <4>1. size * q >= size * n
        BY <1>2, <2>5, <3>1
      <4>2. size * q \in Nat /\ r >= 0
        BY <1>2, <2>5
      <4>. QED BY <1>2, <2>4, <2>5, <4>1, <4>2
    <3>. QED BY <1>2, <2>5, <3>1
  <2>7. q + 1 \in 1 .. n /\ r + 1 \in 1 .. size
    BY <1>2, <2>5, <2>6
  <2>. QED BY <2>2, <2>3, <2>7
<1>7. \A k \in 1 .. size * n : f[k] \in Byte
  BY <1>3, <1>5, <1>6
<1>8. f \in [1 .. size * n -> Byte]
  BY <1>5, <1>7
<1>9. f \in Seq(Byte) /\ Len(f) = size * n
  BY <1>2, <1>8, FunctionIsSeq
<1>10. ASSUME NEW j \in 1 .. n
       PROVE  SubSeq(f, size * (j - 1) + 1, size * j) = ids[j]
  <2>1. PICK a : a = size * (j - 1)
    OBVIOUS
  <2>2. a \in Nat /\ a + size = size * j /\ a + size <= size * n
    <3>1. \A x \in Nat, y \in 1 .. n : x * (y - 1) \in Nat /\ x * (y - 1) + x = x * y /\ x * y <= x * n
      BY <1>2
    <3>. QED BY <1>2, <2>1, <3>1
  <2>3. \A i \in 1 .. size : f[a + i] = ids[j][i]
    <3>. SUFFICES ASSUME NEW i \in 1 .. size PROVE f[a + i] = ids[j][i]
      OBVIOUS
    <3>1. PICK q, r : q = j - 1 /\ r = i - 1
      OBVIOUS
    <3>2. q \in Int /\ r \in 0 .. size - 1 /\ a = size * q
      BY <1>2, <2>1, <3>1
    <3>3. (size * q + r) \div size = q /\ (size * q + r) % size = r
      BY <1>2, <3>2, UniqueDivision
    <3>4. PICK k : k = a + i
      OBVIOUS
    <3>5. k \in 1 .. size * n /\ k - 1 = a + r
      BY <1>2, <2>2, <3>1, <3>4
    <3>6. (k - 1) \div size = q /\ (k - 1) % size = r
      BY <3>2, <3>3, <3>5
    <3>7. f[k] = ids[q + 1][r + 1]
      BY <1>5, <3>5, <3>6
    <3>8. q + 1 = j /\ r + 1 = i
      BY <1>2, <3>1
    <3>. QED BY <3>4, <3>7, <3>8
  <2>4. PICK g, m, k : g = ids[j] /\ m = a + 1 /\ k = a + size
    OBVIOUS
  <2>5. g \in Seq(Byte) /\ Len(g) = size
    BY <1>2, <1>3, <2>4, FunctionIsSeq
  <2>6. \A i \in m .. k : f[i] \in Byte
    BY <1>2, <1>7, <2>2, <2>4
  <2>7. m \in Int /\ k \in Int /\ m <= k /\ k - m + 1 = size /\ \A i \in 1 .. size : m + i - 1 = a + i
    BY <1>2, <2>2, <2>4
  <2>8. /\ SubSeq(f, m, k) \in Seq(Byte) /\ Len(SubSeq(f, m, k)) = size
        /\ \A i \in 1 .. size : SubSeq(f, m, k)[i] = f[m + i - 1]
    BY <2>6, <2>7, SubSeqProperties
  <2>9. \A i \in 1 .. size : SubSeq(f, m, k)[i] = g[i]
    BY <2>3, <2>4, <2>7, <2>8
  <2>10. SubSeq(f, m, k) = g
    BY <2>5, <2>8, <2>9, SeqEqual
  <2>. QED BY <2>1, <2>2, <2>4, <2>10
<1>11. \A j \in 1 .. n : SubSeq(f, size * (j - 1) + 1, size * j) = ids[j]
  BY <1>10
<1>. QED BY <1>1, <1>2, <1>4, <1>9, <1>11

LEMMA SmallBytes ==
  /\ 0 \in Byte /\ 1 \in Byte /\ 2 \in Byte /\ 3 \in Byte
  /\ Byte \subseteq 0 .. ByteMod /\ Signature \in 0 .. ByteMod
  BY Mods DEF Byte, Signature

LEMMA KeyStreamIsByte ==
  ASSUME NEW key \in Key, NEW other \in Key, NEW iv \in Iv
  PROVE  KeyStream(key, other, iv) \in Byte
<1>1. <<{key, other}, iv>> \in (SUBSET Key) \X Iv
  OBVIOUS
<1>. QED BY <1>1, CodecAssumption DEF KeyStream

(* The tag is cut, the text comes back, and the tail follows.              *)
LEMMA TextIsDecrypted ==
  ASSUME NEW stream \in Byte, NEW text \in Seq(Byte), NEW tail
  PROVE  /\ encrypt(stream, text) \in Seq(Byte)
         /\ decrypted(stream, encrypt(stream, text), tail) = text \o tail
<1>1. PICK M, S : M = ByteMod /\ S = Byte
  OBVIOUS
<1>2. M \in Nat /\ M > 3 /\ S = 0 .. M - 1
  BY <1>1, Mods DEF Byte
<1>3. PICK n : n = Len(text)
  OBVIOUS
<1>4. n \in Nat /\ DOMAIN text = 1 .. n /\ text \in [1 .. n -> S]
  BY <1>1, <1>3, LenProperties
<1>5. PICK cipher, tag : /\ cipher = [k \in DOMAIN text |-> (text[k] + stream) % ByteMod]
                         /\ tag = [k \in 1 .. TagSize |-> 0]
  OBVIOUS
<1>6. \A x \in S : (x + stream) % M \in S
  BY <1>1, <1>2
<1>7. cipher \in [1 .. n -> S]
  BY <1>1, <1>4, <1>5, <1>6
<1>8. tag \in [1 .. TagSize -> S] /\ TagSize \in Nat
  BY <1>1, <1>5, SmallBytes, CodecAssumption
<1>9. /\ cipher \in Seq(S) /\ Len(cipher) = n
      /\ tag \in Seq(S) /\ Len(tag) = TagSize
  BY <1>4, <1>7, <1>8, FunctionIsSeq
<1>10. PICK both : both = cipher \o tag
  OBVIOUS
<1>11. /\ both \in Seq(S) /\ Len(both) = n + TagSize
       /\ \A k \in 1 .. n : both[k] = cipher[k]
  BY <1>9, <1>10, Together, ZenonT(60)
<1>12. Len(both) - TagSize = n
  BY <1>4, <1>8, <1>11
<1>13. encrypt(stream, text) = both
  BY <1>5, <1>10 DEF encrypt
<1>14. \A x \in S : (((x + stream) % M) + (M - 1) * stream) % M = x
  <2>. SUFFICES ASSUME NEW x \in S
       PROVE (((x + stream) % M) + (M - 1) * stream) % M = x
    OBVIOUS
  <2>1. x \in 0 .. M - 1 /\ stream \in 0 .. M - 1
    BY <1>1, <1>2
  <2>2. PICK q, e : q = (x + stream) \div M /\ e = (x + stream) % M
    OBVIOUS
  <2>3. q \in Nat /\ e \in 0 .. M - 1 /\ x + stream = M * q + e
    <3>1. x + stream \in Nat
      BY <2>1, <1>2
    <3>2. PICK a : a = x + stream
      OBVIOUS
    <3>3. M > 0 /\ a \in Nat
      BY <1>2, <3>1, <3>2
    <3>4. a \div M \in Nat /\ a % M \in 0 .. M - 1 /\ a = M * (a \div M) + (a % M)
      BY ONLY <1>2, <3>3, Division
    <3>. QED BY <2>2, <3>2, <3>4
  <2>4. (M - 1) * stream = M * stream - stream
    BY <1>2, <2>1
  <2>5. M * (stream - q) = M * stream - M * q
    BY <1>2, <2>1, <2>3
  <2>6. stream - q \in Int
    BY <1>2, <2>1, <2>3
  <2>7. PICK y : y = stream - q
    OBVIOUS
  <2>8. M * y \in Int /\ M * stream \in Int /\ M * q \in Int
    BY <1>2, <2>1, <2>3, <2>6, <2>7
  <2>9. e + (M - 1) * stream = M * y + x
    BY <1>2, <2>1, <2>3, <2>4, <2>5, <2>7, <2>8
  <2>10. (M * y + x) % M = x
    <3>1. M > 0 /\ y \in Int /\ x \in 0 .. M - 1
      BY <1>2, <2>1, <2>6, <2>7
    <3>. QED BY ONLY <1>2, <3>1, UniqueDivision
  <2>. QED BY <2>2, <2>9, <2>10
<1>15. PICK clear : clear = [k \in 1 .. Len(both) - TagSize |->
                              (both[k] + (ByteMod - 1) * stream) % ByteMod]
  OBVIOUS
<1>16. clear = [k \in 1 .. n |-> (both[k] + (M - 1) * stream) % M]
  BY <1>1, <1>12, <1>15
<1>17. \A k \in 1 .. n : both[k] = (text[k] + stream) % M
  BY <1>1, <1>4, <1>5, <1>11
<1>18. \A k \in 1 .. n : clear[k] = text[k]
  BY <1>4, <1>14, <1>16, <1>17
<1>19. clear = text
  BY <1>4, <1>16, <1>18
<1>20. decrypted(stream, both, tail) = clear \o tail
  BY <1>15 DEF decrypted
<1>. QED BY <1>1, <1>11, <1>13, <1>19, <1>20

Parts(S, w, a, b, c, d, i, j, k) ==
  /\ a \in Seq(S) /\ b \in Seq(S) /\ c \in Seq(S) /\ d \in Seq(S)
  /\ w = a \o b \o c \o d
  /\ i = Len(a) /\ j = i + Len(b) /\ k = j + Len(c)

LEMMA FourParts ==
  ASSUME NEW S, NEW w, NEW a, NEW b, NEW c, NEW d, NEW i, NEW j, NEW k,
         Parts(S, w, a, b, c, d, i, j, k)
  PROVE  /\ w \in Seq(S) /\ i \in Nat /\ j \in Nat /\ k \in Nat
         /\ i <= j /\ j <= k /\ k <= Len(w) /\ Len(w) = k + Len(d)
         /\ \A m, n \in Nat : 1 <= m /\ n <= i => SubSeq(w, m, n) = SubSeq(a, m, n)
         /\ \A m \in 1 .. i : w[m] = a[m]
         /\ SubSeq(w, 1, i) = a
         /\ SubSeq(w, i + 1, j) = b
         /\ SubSeq(w, j + 1, k) = c
         /\ SubSeq(w, k + 1, Len(w)) = d
<1>0. /\ a \in Seq(S) /\ b \in Seq(S) /\ c \in Seq(S) /\ d \in Seq(S)
      /\ w = a \o b \o c \o d
      /\ i = Len(a) /\ j = i + Len(b) /\ k = j + Len(c)
  BY DEF Parts
<1>1. PICK x, y : x = a \o b /\ y = x \o c
  OBVIOUS
<1>2. w = y \o d
  BY <1>0, <1>1
<1>3. /\ x \in Seq(S) /\ i \in Nat /\ Len(b) \in Nat /\ Len(x) = j
      /\ \A m \in 1 .. i : x[m] = a[m]
      /\ \A m, n \in Nat : 1 <= m /\ n <= i => SubSeq(x, m, n) = SubSeq(a, m, n)
      /\ SubSeq(x, i + 1, j) = b
  BY <1>0, <1>1, Together
<1>4. /\ y \in Seq(S) /\ j \in Nat /\ Len(c) \in Nat /\ Len(y) = k
      /\ \A m \in 1 .. j : y[m] = x[m]
      /\ \A m, n \in Nat : 1 <= m /\ n <= j => SubSeq(y, m, n) = SubSeq(x, m, n)
      /\ SubSeq(y, j + 1, k) = c
  <2>1. /\ y \in Seq(S) /\ Len(x) \in Nat /\ Len(c) \in Nat /\ Len(y) = Len(x) + Len(c)
        /\ \A m \in 1 .. Len(x) : y[m] = x[m]
        /\ \A m, n \in Nat : 1 <= m /\ n <= Len(x) => SubSeq(y, m, n) = SubSeq(x, m, n)
        /\ SubSeq(y, Len(x) + 1, Len(x) + Len(c)) = c
    <3>1. x \in Seq(S) /\ c \in Seq(S) /\ y = x \o c
      BY <1>0, <1>1, <1>3
    <3>. QED BY ONLY <3>1, Joined
  <2>2. Len(x) = j /\ k = j + Len(c)
    BY <1>0, <1>3
  <2>. QED BY ONLY <2>1, <2>2
<1>5. /\ w \in Seq(S) /\ k \in Nat /\ Len(d) \in Nat /\ Len(w) = k + Len(d)
      /\ \A m \in 1 .. k : w[m] = y[m]
      /\ \A m, n \in Nat : 1 <= m /\ n <= k => SubSeq(w, m, n) = SubSeq(y, m, n)
      /\ SubSeq(w, k + 1, Len(w)) = d
  BY <1>0, <1>2, <1>4, Together, SMTT(60)
<1>6. i <= j /\ j <= k /\ k <= Len(w)
  BY <1>0, <1>3, <1>4, <1>5
<1>7. \A m, n \in Nat : 1 <= m /\ n <= i => SubSeq(w, m, n) = SubSeq(a, m, n)
  BY <1>3, <1>4, <1>5, <1>6
<1>8. \A m \in 1 .. i : w[m] = a[m]
  BY <1>3, <1>4, <1>5, <1>6
<1>9. SubSeq(w, 1, i) = a
  <2>1. SubSeq(w, 1, i) = SubSeq(a, 1, i)
    <3>1. 1 \in Nat /\ i \in Nat /\ 1 <= 1 /\ i <= i
      BY <1>3
    <3>. QED BY ONLY <1>7, <3>1
  <2>. QED BY <1>0, <2>1, SubSeqFull
<1>10. SubSeq(w, i + 1, j) = b
  <2>1. i + 1 \in Nat /\ j \in Nat /\ 1 <= i + 1 /\ j <= j /\ j <= k
    BY <1>3, <1>4, <1>6
  <2>2. SubSeq(w, i + 1, j) = SubSeq(y, i + 1, j)
    BY <1>5, <2>1
  <2>3. SubSeq(y, i + 1, j) = SubSeq(x, i + 1, j)
    BY <1>4, <2>1
  <2>. QED BY <1>3, <2>2, <2>3
<1>11. SubSeq(w, j + 1, k) = c
  <2>1. j + 1 \in Nat /\ k \in Nat /\ 1 <= j + 1 /\ k <= k
    BY <1>4, <1>5, <1>6
  <2>2. SubSeq(w, j + 1, k) = SubSeq(y, j + 1, k)
    BY <1>5, <2>1
  <2>. QED BY <1>4, <2>2
<1>. QED BY <1>3, <1>4, <1>5, <1>6, <1>7, <1>8, <1>9, <1>10, <1>11

(* A message that was written and signed is read as it was.                *)
Frame(message) ==
  /\ message.type \in Byte /\ message.sequence \in 0 .. LongMod - 1
  /\ message.source \in Ids /\ message.destination \in Ids \cup {NoId}
  /\ message.body \in Seq(Byte) /\ message.signature = << >>

LEMMA Identifiers ==
  ASSUME NEW id \in Ids
  PROVE  id \in Seq(Byte) /\ Len(id) = IdSize /\ id # NoId
<1>1. id \in [1 .. IdSize -> Byte] /\ IdSize \in Nat /\ IdSize > 0
  BY CodecAssumption
<1>2. id \in Seq(Byte) /\ Len(id) = IdSize
  BY <1>1, FunctionIsSeq
<1>3. Len(<< >>) = 0
  OBVIOUS
<1>. QED BY <1>1, <1>2, <1>3 DEF NoId

LEMMA FrameIsBytes ==
  ASSUME NEW message, Frame(message), ~ TooLong(message),
         NEW head, head = <<message.type, flags(message)>>
                            \o htons(Len(message.body)) \o htonl(message.sequence)
  PROVE  /\ toBinary(message) = head \o message.source \o message.destination \o message.body
         /\ head \in Seq(Byte) /\ Len(head) = 8
         /\ head[1] = message.type /\ head[2] = flags(message)
         /\ SubSeq(head, 3, 4) = htons(Len(message.body))
         /\ SubSeq(head, 5, 8) = htonl(message.sequence)
         /\ Len(message.body) \in 0 .. ShortMod - 1
         /\ toBinary(message) \in Seq(Byte)
<1>1. PICK S : S = Byte
  OBVIOUS
<1>2. PICK n : n = Len(message.body)
  OBVIOUS
<1>3. n \in 0 .. ShortMod - 1
  BY <1>2, Mods, LenProperties DEF Frame, TooLong, MaxLength
<1>4. PICK a, b, c : /\ a = <<message.type, flags(message)>>
                     /\ b = htons(n) /\ c = htonl(message.sequence)
  OBVIOUS
<1>5. flags(message) \in 0 .. 3
  BY DEF flags
<1>6. flags(message) \in S /\ message.type \in S
  BY <1>1, <1>5, SmallBytes DEF Frame
<1>7. a \in Seq(S) /\ Len(a) = 2 /\ a[1] = message.type /\ a[2] = flags(message)
  BY <1>4, <1>6
<1>8. b \in Seq(S) /\ Len(b) = 2
  BY <1>1, <1>3, <1>4, ShortComesBack
<1>9. c \in Seq(S) /\ Len(c) = 4
  BY <1>1, <1>4, LongComesBack DEF Frame
<1>10. << >> \in Seq(S) /\ Len(<< >>) = 0
  OBVIOUS
<1>11. head = a \o b \o c
  BY <1>2, <1>4
<1>12. PICK x : x = a \o b
  OBVIOUS
<1>13. /\ x \in Seq(S) /\ Len(x) = 4 /\ x[1] = a[1] /\ x[2] = a[2]
       /\ SubSeq(x, 3, 4) = b
  <2>1. /\ x \in Seq(S) /\ Len(x) = Len(a) + Len(b)
        /\ \A m \in 1 .. Len(a) : x[m] = a[m]
        /\ SubSeq(x, Len(a) + 1, Len(a) + Len(b)) = b
    <3>1. a \in Seq(S) /\ b \in Seq(S)
      BY <1>7, <1>8
    <3>. QED BY ONLY <3>1, <1>12, Joined
  <2>2. 2 + 1 = 3 /\ 2 + 2 = 4 /\ 1 \in 1 .. 2 /\ 2 \in 1 .. 2
    OBVIOUS
  <2>. QED BY ONLY <1>7, <1>8, <2>1, <2>2
<1>14. /\ head \in Seq(S) /\ Len(head) = 8 /\ head[1] = x[1] /\ head[2] = x[2]
       /\ SubSeq(head, 3, 4) = SubSeq(x, 3, 4)
       /\ SubSeq(head, 5, 8) = c
  <2>1. head = x \o c
    BY <1>11, <1>12
  <2>2. /\ head \in Seq(S) /\ Len(head) = Len(x) + Len(c)
        /\ \A m \in 1 .. Len(x) : head[m] = x[m]
        /\ \A m, k \in Nat : 1 <= m /\ k <= Len(x) => SubSeq(head, m, k) = SubSeq(x, m, k)
        /\ SubSeq(head, Len(x) + 1, Len(x) + Len(c)) = c
    <3>1. x \in Seq(S) /\ c \in Seq(S)
      BY <1>9, <1>13
    <3>. QED BY ONLY <3>1, <2>1, Joined
  <2>3. 4 + 1 = 5 /\ 4 + 4 = 8 /\ 1 \in 1 .. 4 /\ 2 \in 1 .. 4 /\ 3 \in Nat /\ 4 \in Nat /\ 1 <= 3 /\ 4 <= 4
    OBVIOUS
  <2>. QED BY ONLY <1>9, <1>13, <2>2, <2>3
<1>15. message.source \in Seq(S) /\ message.destination \in Seq(S) /\ message.body \in Seq(S)
  BY <1>1, <1>10, Identifiers DEF Frame, NoId
<1>16. PICK w : w = head \o message.source \o message.destination \o message.body
  OBVIOUS
<1>17. w \in Seq(S)
  BY <1>14, <1>15, <1>16, ConcatProperties
<1>18. toBinary(message) = w \o << >>
  BY <1>16 DEF toBinary, Frame
<1>19. w \o << >> = w
  BY <1>17, ConcatEmptySeq
<1>20. toBinary(message) = w /\ w \in Seq(Byte) /\ head \in Seq(Byte)
  BY <1>1, <1>14, <1>17, <1>18, <1>19
<1>21. SubSeq(head, 3, 4) = htons(Len(message.body)) /\ SubSeq(head, 5, 8) = htonl(message.sequence)
  BY <1>2, <1>4, <1>13, <1>14
<1>22. head[1] = message.type /\ head[2] = flags(message) /\ Len(head) = 8
  BY <1>7, <1>13, <1>14
<1>23. Len(message.body) \in 0 .. ShortMod - 1
  BY <1>2, <1>3
<1>. QED BY <1>16, <1>20, <1>21, <1>22, <1>23

LEMMA FrameComesBack ==
  ASSUME NEW message, Frame(message), ~ TooLong(message),
         signed = [source |-> message.source, part |-> toBinary(message)],
         NEW u \in Seq(0 .. ByteMod), StartsWithSignature(u),
         NEW bin, bin = toBinary(message) \o u
  PROVE  fromBinary(bin) = [type |-> message.type, sequence |-> message.sequence,
                            source |-> message.source, destination |-> message.destination,
                            body |-> message.body, signature |-> u]
<1>1. PICK S, w, head, source, destination, body :
        /\ S = 0 .. ByteMod /\ w = toBinary(message)
        /\ head = <<message.type, flags(message)>>
                    \o htons(Len(message.body)) \o htonl(message.sequence)
        /\ source = message.source /\ destination = message.destination
        /\ body = message.body
  OBVIOUS
<1>2. /\ w = head \o source \o destination \o body
      /\ head \in Seq(Byte) /\ Len(head) = 8
      /\ head[1] = message.type /\ head[2] = flags(message)
      /\ SubSeq(head, 3, 4) = htons(Len(body))
      /\ SubSeq(head, 5, 8) = htonl(message.sequence)
      /\ Len(body) \in 0 .. ShortMod - 1
  BY <1>1, FrameIsBytes
<1>3. /\ source \in Ids /\ source \in Seq(Byte) /\ Len(source) = IdSize /\ source # NoId
      /\ destination # NoId =>
           destination \in Ids /\ destination \in Seq(Byte) /\ Len(destination) = IdSize
      /\ body \in Seq(Byte)
  BY <1>1, Identifiers DEF Frame
<1>4. << >> \in Seq(S) /\ Len(<< >>) = 0
  BY <1>1, SmallBytes
<1>5. \A x \in Seq(Byte) : x \in Seq(S)
  BY <1>1, SmallBytes, SeqMonotonic
<1>6. /\ head \in Seq(S) /\ source \in Seq(S) /\ body \in Seq(S)
      /\ destination \in Seq(S)
      /\ Len(destination) = IF destination = NoId THEN 0 ELSE IdSize
  <2>1. head \in Seq(S) /\ source \in Seq(S) /\ body \in Seq(S)
    BY <1>2, <1>3, <1>5
  <2>2. CASE destination = NoId
    BY <1>4, <2>1, <2>2 DEF NoId
  <2>3. CASE destination # NoId
    BY <1>3, <1>5, <2>1, <2>3
  <2>. QED BY <2>2, <2>3
<1>7. PICK i, j, k : i = Len(head) /\ j = i + Len(source) /\ k = j + Len(destination)
  OBVIOUS
<1>8. /\ w \in Seq(S) /\ i \in Nat /\ j \in Nat /\ k \in Nat
      /\ i <= j /\ j <= k /\ k <= Len(w) /\ Len(w) = k + Len(body)
      /\ \A m, n \in Nat : 1 <= m /\ n <= i => SubSeq(w, m, n) = SubSeq(head, m, n)
      /\ \A m \in 1 .. i : w[m] = head[m]
      /\ SubSeq(w, i + 1, j) = source
      /\ SubSeq(w, j + 1, k) = destination
      /\ SubSeq(w, k + 1, Len(w)) = body
  <2>1. w = head \o source \o destination \o body
    BY <1>2
  <2>2. head \in Seq(S) /\ source \in Seq(S) /\ destination \in Seq(S) /\ body \in Seq(S)
    BY <1>6
  <2>3. Parts(S, w, head, source, destination, body, i, j, k)
    BY <1>7, <2>1, <2>2 DEF Parts
  <2>4. /\ w \in Seq(S) /\ i \in Nat /\ j \in Nat /\ k \in Nat
        /\ i <= j /\ j <= k /\ k <= Len(w) /\ Len(w) = k + Len(body)
    BY ONLY <2>3, FourParts
  <2>5. /\ \A m, n \in Nat : 1 <= m /\ n <= i => SubSeq(w, m, n) = SubSeq(head, m, n)
        /\ \A m \in 1 .. i : w[m] = head[m]
    BY ONLY <2>3, FourParts, SMTT(60)
  <2>6. /\ SubSeq(w, i + 1, j) = source
        /\ SubSeq(w, j + 1, k) = destination
        /\ SubSeq(w, k + 1, Len(w)) = body
    BY ONLY <2>3, FourParts
  <2>. QED BY <2>4, <2>5, <2>6
<1>9. u \in Seq(S) /\ Len(u) \in Nat
  BY <1>1, LenProperties
<1>10. PICK l : l = Len(w)
  OBVIOUS
<1>11. /\ bin \in Seq(S) /\ l \in Nat /\ Len(bin) = l + Len(u)
       /\ \A m \in 1 .. l : bin[m] = w[m]
       /\ \A m, n \in Nat : 1 <= m /\ n <= l => SubSeq(bin, m, n) = SubSeq(w, m, n)
       /\ SubSeq(bin, l + 1, l + Len(u)) = u
  <2>1. bin = w \o u
    BY <1>1
  <2>2. /\ bin \in Seq(S)
        /\ Len(w) \in Nat /\ Len(bin) = Len(w) + Len(u)
        /\ \A m \in 1 .. Len(w) : bin[m] = w[m]
        /\ \A m, n \in Nat : 1 <= m /\ n <= Len(w) => SubSeq(bin, m, n) = SubSeq(w, m, n)
        /\ SubSeq(bin, Len(w) + 1, Len(w) + Len(u)) = u
    <3>1. w \in Seq(S) /\ u \in Seq(S)
      BY <1>8, <1>9
    <3>. QED BY ONLY <3>1, <2>1, Joined, SMTT(60)
  <2>. QED BY ONLY <1>10, <2>2
<1>12. /\ i = 8 /\ IdSize \in Nat /\ j = 8 + IdSize /\ l = k + Len(body)
       /\ k = IF destination = NoId THEN j ELSE j + IdSize
  BY <1>2, <1>3, <1>6, <1>7, <1>8, <1>10, CodecAssumption
<1>13. Len(body) \in Nat
  BY <1>2
<1>14. Len(bin) \in Nat /\ 8 <= Len(bin) /\ 8 + IdSize <= Len(bin)
  <2>1. Len(bin) = l + Len(u) /\ l \in Nat /\ Len(u) \in Nat
    BY <1>9, <1>11
  <2>2. j <= k /\ k <= l /\ j \in Nat /\ k \in Nat
    BY <1>8, <1>10
  <2>3. j = 8 + IdSize /\ IdSize \in Nat
    BY <1>12
  <2>. QED BY ONLY <2>1, <2>2, <2>3
<1>15. /\ SubSeq(bin, 3, 4) = SubSeq(head, 3, 4) /\ SubSeq(bin, 5, 8) = SubSeq(head, 5, 8)
       /\ bin[1] = head[1] /\ bin[2] = head[2]
  <2>1. 1 <= 3 /\ 1 <= 5 /\ 4 <= i /\ 8 <= i /\ i <= l /\ 1 \in 1 .. i /\ 2 \in 1 .. i
    BY <1>8, <1>10, <1>12
  <2>2. 1 \in 1 .. l /\ 2 \in 1 .. l /\ 4 <= l /\ 8 <= l
    BY <1>8, <1>11, <2>1
  <2>3. 3 \in Nat /\ 4 \in Nat /\ 5 \in Nat /\ 8 \in Nat
    OBVIOUS
  <2>. QED BY ONLY <1>8, <1>11, <2>1, <2>2, <2>3, SMTT(60)
<1>16. /\ SubSeq(bin, i + 1, j) = source
       /\ SubSeq(bin, j + 1, k) = destination
       /\ SubSeq(bin, k + 1, l) = body
       /\ SubSeq(bin, 1, l) = w
  <2>1. /\ i + 1 \in Nat /\ 1 <= i + 1 /\ j + 1 \in Nat /\ 1 <= j + 1
        /\ k + 1 \in Nat /\ 1 <= k + 1 /\ j <= l /\ k <= l /\ l <= l /\ 1 \in Nat /\ 1 <= 1
    BY <1>8, <1>10, <1>11
  <2>2. SubSeq(w, 1, l) = w
    BY <1>8, <1>10, SubSeqFull
  <2>3. SubSeq(w, k + 1, l) = body
    BY <1>8, <1>10
  <2>. QED BY ONLY <1>8, <1>11, <2>1, <2>2, <2>3
<1>17. flags(message) = 1 + (IF destination # NoId THEN 2 ELSE 0)
  BY <1>1, <1>3 DEF flags
<1>. DEFINE r == Read(binary_reader(bin), HeaderSize)
            hasSource == bin[2] % 2 = 1
            hasDestination == (bin[2] \div 2) % 2 = 1
            length == ntohs(SubSeq(bin, 3, 4))
            s == IF hasSource THEN Read(r, IdSize) ELSE r
            d == IF hasDestination THEN Read(s, IdSize) ELSE s
            b == Read(d, length)
            read == [type |-> bin[1],
                     sequence |-> ntohl(SubSeq(bin, 5, 8)),
                     source |-> IF hasSource THEN Taken(s, IdSize) ELSE NoId,
                     destination |-> IF hasDestination THEN Taken(d, IdSize) ELSE NoId,
                     body |-> Taken(b, length),
                     signature |-> left(b)]
            accepted == /\ r.ok /\ b.ok
                        /\ hasSource => IsPoint(read.source)
                        /\ hasDestination => IsPoint(read.destination)
                        /\ hasSource => verify(read.source, SubSeq(bin, 1, b.mPosition), read.signature)
<1>18. fromBinary(bin) = IF accepted THEN read ELSE Failed
  BY DEF fromBinary
<1>19. hasSource /\ (hasDestination <=> destination # NoId)
  <2>1. bin[2] = IF destination # NoId THEN 3 ELSE 1
    BY <1>2, <1>15, <1>17
  <2>2. 3 % 2 = 1 /\ (3 \div 2) % 2 = 1 /\ 1 % 2 = 1 /\ (1 \div 2) % 2 = 0
    BY ONLY TRUE
  <2>. QED BY ONLY <2>1, <2>2
<1>20. length = Len(body)
  BY <1>2, <1>15, ShortComesBack
<1>21. ntohl(SubSeq(bin, 5, 8)) = message.sequence
  BY <1>2, <1>15, LongComesBack DEF Frame
<1>22. r \in Reader(bin) /\ r.ok /\ r.mPosition = 8
  <2>1. PICK q : q = binary_reader(bin)
    OBVIOUS
  <2>2. q \in Reader(bin) /\ q.mPosition = 0 /\ q.ok
    BY <1>11, <2>1, NewReader
  <2>3. r = Read(q, 8)
    BY <2>1 DEF HeaderSize
  <2>. HIDE DEF r
  <2>4. Len(bin) \in Nat /\ q.mPosition + 8 <= Len(bin) /\ 8 \in Nat
    BY <1>14, <2>2
  <2>5. r \in Reader(bin) /\ r.ok /\ r.mPosition = q.mPosition + 8
    BY ONLY <2>2, <2>3, <2>4, ReadTo
  <2>. QED BY <2>2, <2>5
<1>23. s \in Reader(bin) /\ s.ok /\ s.mPosition = j
  <2>1. s = Read(r, IdSize)
    BY <1>19
  <2>. HIDE DEF r, s, hasSource
  <2>2. Len(bin) \in Nat /\ r.mPosition + IdSize <= Len(bin) /\ IdSize \in Nat
    BY <1>14, <1>12, <1>22
  <2>3. s \in Reader(bin) /\ s.ok /\ s.mPosition = r.mPosition + IdSize
    BY ONLY <1>22, <2>1, <2>2, ReadTo
  <2>. QED BY <1>12, <1>22, <2>3
<1>24. d \in Reader(bin) /\ d.ok /\ d.mPosition = k
  <2>. HIDE DEF s, hasDestination
  <2>1. CASE destination = NoId
    <3>1. d = s
      BY <1>19, <2>1
    <3>. QED BY <1>12, <1>23, <2>1, <3>1
  <2>2. CASE destination # NoId
    <3>1. d = Read(s, IdSize)
      BY <1>19, <2>2
    <3>. HIDE DEF d
    <3>2. Len(bin) \in Nat /\ s.mPosition + IdSize <= Len(bin) /\ IdSize \in Nat
      <4>1. k = j + IdSize /\ IdSize \in Nat /\ j \in Nat
        BY <1>8, <1>12, <2>2
      <4>2. k <= l /\ l \in Nat
        BY <1>8, <1>10
      <4>3. Len(bin) = l + Len(u) /\ Len(u) \in Nat
        BY <1>9, <1>11
      <4>4. s.mPosition = j
        BY <1>23
      <4>. QED BY ONLY <4>1, <4>2, <4>3, <4>4
    <3>3. d \in Reader(bin) /\ d.ok /\ d.mPosition = s.mPosition + IdSize
      BY ONLY <1>23, <3>1, <3>2, ReadTo
    <3>. QED BY <1>12, <1>23, <2>2, <3>3
  <2>. QED BY <2>1, <2>2
<1>25. b \in Reader(bin) /\ b.ok /\ b.mPosition = l
  <2>1. b = Read(d, Len(body))
    BY <1>20
  <2>. HIDE DEF d, b
  <2>2. Len(bin) \in Nat /\ d.mPosition + Len(body) <= Len(bin)
    BY <1>8, <1>9, <1>10, <1>11, <1>24
  <2>3. b \in Reader(bin) /\ b.ok /\ b.mPosition = d.mPosition + Len(body)
    BY ONLY <1>13, <1>24, <2>1, <2>2, ReadTo
  <2>. QED BY <1>12, <1>24, <2>3
<1>26. Taken(s, IdSize) = source
  <2>. HIDE DEF s
  <2>1. s.mBinary = bin /\ s.mPosition - IdSize + 1 = i + 1
    BY <1>12, <1>23 DEF Reader
  <2>. QED BY <1>16, <1>23, <2>1 DEF Taken
<1>27. destination # NoId => Taken(d, IdSize) = destination
  <2>. HIDE DEF d
  <2>1. SUFFICES ASSUME destination # NoId PROVE Taken(d, IdSize) = destination
    OBVIOUS
  <2>2. d.mBinary = bin /\ d.mPosition - IdSize + 1 = j + 1
    BY <1>8, <1>12, <1>24, <2>1 DEF Reader
  <2>. QED BY <1>16, <1>24, <2>2 DEF Taken
<1>28. Taken(b, length) = body
  <2>. HIDE DEF b, length
  <2>1. b.mBinary = bin
    BY <1>25 DEF Reader
  <2>2. b.mPosition - length + 1 = k + 1
    BY ONLY <1>8, <1>12, <1>13, <1>20, <1>25
  <2>. QED BY <1>16, <1>25, <2>1, <2>2 DEF Taken
<1>29. left(b) = u
  <2>. HIDE DEF b
  <2>1. b.mBinary = bin
    BY <1>25 DEF Reader
  <2>. QED BY <1>11, <1>25, <2>1 DEF left
<1>30. /\ read.type = bin[1] /\ read.sequence = ntohl(SubSeq(bin, 5, 8))
       /\ read.source = IF hasSource THEN Taken(s, IdSize) ELSE NoId
       /\ read.destination = IF hasDestination THEN Taken(d, IdSize) ELSE NoId
       /\ read.body = Taken(b, length) /\ read.signature = left(b)
  OBVIOUS
<1>31. read = [type |-> read.type, sequence |-> read.sequence,
               source |-> read.source, destination |-> read.destination,
               body |-> read.body, signature |-> read.signature]
  OBVIOUS
<1>. HIDE DEF r, hasSource, hasDestination, length, s, d, b, read, accepted
<1>32. /\ read.type = message.type /\ read.sequence = message.sequence
       /\ read.source = source /\ read.destination = destination
       /\ read.body = body /\ read.signature = u
  BY <1>2, <1>15, <1>19, <1>21, <1>26, <1>27, <1>28, <1>29, <1>30
<1>33. accepted
  <2>1. IsPoint(source) /\ (destination # NoId => IsPoint(destination))
    BY <1>3 DEF IsPoint
  <2>2. verify(source, w, u)
    BY <1>1 DEF verify
  <2>. QED BY <1>16, <1>19, <1>22, <1>25, <1>32, <2>1, <2>2 DEF accepted
<1>. QED BY <1>1, <1>18, <1>31, <1>32, <1>33

-----------------------------------------------------------------------------
(* A State.                                                                *)
LEMMA StateInput ==
  ASSUME NEW x \in Input, x.kind = "state"
  PROVE  /\ x.id \in Ids /\ x.sequence \in 0 .. LongMod - 1
         /\ x.ecdhPublic \in Key /\ x.neighbors \in SUBSET Ids
  BY DEF Input

LEMMA KeyIsSeq ==
  ASSUME NEW key \in Key
  PROVE  key \in Seq(Byte) /\ Len(key) = KeySize /\ KeySize \in Nat
  BY FunctionIsSeq, CodecAssumption DEF Key

LEMMA IvIsSeq ==
  ASSUME NEW iv \in Iv
  PROVE  iv \in Seq(Byte) /\ Len(iv) = IvSize /\ IvSize \in Nat
  BY FunctionIsSeq, CodecAssumption DEF Iv

LEMMA StateBodyIs ==
  ASSUME NEW x \in Input, x.kind = "state",
         NEW ids, ids = SetToSeq(x.neighbors)
  PROVE  /\ StateBody(x) = x.ecdhPublic \o Flat(ids)
         /\ StateBody(x) \in Seq(Byte)
<1>1. ids \in Seq(Ids)
  BY StateInput, Listing
<1>2. StateBody(x) = x.ecdhPublic \o Flat(ids)
  BY DEF StateBody, Flat
<1>3. x.ecdhPublic \in Seq(Byte) /\ Flat(ids) \in Seq(Byte)
  BY <1>1, StateInput, KeyIsSeq, Layout
<1>. QED BY <1>2, <1>3, ConcatProperties

LEMMA StateFrame ==
  ASSUME NEW x \in Input, x.kind = "state"
  PROVE  Frame(MessageOf(x))
<1>1. MessageOf(x) = [type |-> 2, sequence |-> x.sequence, source |-> x.id,
                      destination |-> << >>, body |-> StateBody(x), signature |-> << >>]
  BY DEF MessageOf, Create, StateType, NoId
<1>2. StateBody(x) \in Seq(Byte)
  BY StateBodyIs
<1>. HIDE DEF StateBody
<1>. QED BY <1>1, <1>2, StateInput, SmallBytes DEF Frame, NoId

(* The identifiers are found where they were put.                          *)
LEMMA StateComesBack ==
  ASSUME NEW x \in Input, x.kind = "state",
         NEW m, m.type = StateType, m.source = x.id, m.sequence = x.sequence,
         m.body = StateBody(x)
  PROVE  FromMessage(m) = [id |-> x.id, sequence |-> x.sequence,
                           ecdhPublic |-> x.ecdhPublic, neighbors |-> x.neighbors]
<1>1. PICK ids, body, key, flat : /\ ids = SetToSeq(x.neighbors) /\ body = StateBody(x)
                                  /\ key = x.ecdhPublic /\ flat = Flat(ids)
  OBVIOUS
<1>2. /\ ids \in Seq(Ids)
      /\ x.neighbors = {ids[k] : k \in 1 .. Len(ids)}
  <2>1. PICK N : N = x.neighbors
    OBVIOUS
  <2>2. N \in SUBSET Ids
    BY <2>1, StateInput
  <2>3. SetToSeq(N) \in Seq(Ids) /\ N = {SetToSeq(N)[k] : k \in 1 .. Len(SetToSeq(N))}
    BY ONLY <2>2, Listing
  <2>4. SetToSeq(N) = ids
    BY <1>1, <2>1
  <2>. QED BY ONLY <2>1, <2>3, <2>4
<1>3. PICK n : n = Len(ids)
  OBVIOUS
<1>4. /\ n \in Nat /\ IdSize * n \in Nat
      /\ flat \in Seq(Byte) /\ Len(flat) = IdSize * n
      /\ \A j \in 1 .. n : SubSeq(flat, IdSize * (j - 1) + 1, IdSize * j) = ids[j]
  BY <1>1, <1>2, <1>3, Layout
<1>5. key \in Seq(Byte) /\ Len(key) = KeySize /\ KeySize \in Nat
  BY <1>1, StateInput, KeyIsSeq
<1>6. body = key \o flat
  BY <1>1, StateBodyIs
<1>7. /\ body \in Seq(Byte) /\ Len(body) = KeySize + IdSize * n
      /\ SubSeq(body, 1, KeySize) = key
      /\ SubSeq(body, KeySize + 1, Len(body)) = flat
  <2>1. /\ body \in Seq(Byte) /\ Len(body) = Len(key) + Len(flat)
        /\ \A a, b \in Nat : 1 <= a /\ b <= Len(key) => SubSeq(body, a, b) = SubSeq(key, a, b)
        /\ SubSeq(body, Len(key) + 1, Len(key) + Len(flat)) = flat
    <3>1. PICK S : S = Byte
      OBVIOUS
    <3>2. key \in Seq(S) /\ flat \in Seq(S)
      BY <1>4, <1>5, <3>1
    <3>3. /\ body \in Seq(S) /\ Len(body) = Len(key) + Len(flat)
          /\ \A a, b \in Nat : 1 <= a /\ b <= Len(key) => SubSeq(body, a, b) = SubSeq(key, a, b)
          /\ SubSeq(body, Len(key) + 1, Len(key) + Len(flat)) = flat
      BY ONLY <1>6, <3>2, Joined
    <3>. QED BY <3>1, <3>3
  <2>2. SubSeq(body, 1, KeySize) = SubSeq(key, 1, KeySize)
    <3>1. 1 \in Nat /\ 1 <= 1 /\ KeySize \in Nat /\ KeySize <= Len(key)
      BY <1>5
    <3>. QED BY ONLY <2>1, <3>1
  <2>3. SubSeq(key, 1, KeySize) = key
    BY <1>5, SubSeqFull
  <2>. QED BY <1>4, <1>5, <2>1, <2>2, <2>3
<1>8. PICK size : size = IdSize
  OBVIOUS
<1>9. size \in Nat /\ size > 0
  BY <1>8, CodecAssumption
<1>10. (Len(body) - KeySize) \div IdSize = n
  <2>1. Len(body) - KeySize = size * n + 0
    BY <1>4, <1>5, <1>7, <1>8
  <2>2. n \in Int /\ 0 \in 0 .. size - 1
    BY <1>4, <1>9
  <2>3. (size * n + 0) \div size = n
    BY ONLY <1>9, <2>2, UniqueDivision
  <2>. QED BY <1>8, <2>1, <2>3
<1>11. PICK q : q = binary_reader(body)
  OBVIOUS
<1>12. PICK r : r = Read(q, KeySize)
  OBVIOUS
<1>13. r \in Reader(body) /\ r.ok /\ r.mPosition = KeySize
  <2>1. Len(body) \in Nat
    BY <1>4, <1>5, <1>7
  <2>2. q \in Reader(body) /\ q.mPosition = 0 /\ q.ok
    BY <1>11, <2>1, NewReader
  <2>3. q.mPosition + KeySize <= Len(body)
    BY <1>4, <1>5, <1>7, <2>2
  <2>4. r \in Reader(body) /\ r.ok /\ r.mPosition = q.mPosition + KeySize
    BY ONLY <1>5, <1>12, <2>1, <2>2, <2>3, ReadTo
  <2>. QED BY <1>5, <2>2, <2>4
<1>14. r.mBinary = body
  BY <1>13 DEF Reader
<1>15. left(r) = flat
  BY <1>7, <1>13, <1>14 DEF left
<1>16. Taken(r, KeySize) = key
  <2>1. r.mPosition - KeySize + 1 = 1
    BY <1>5, <1>13
  <2>. QED BY <1>7, <1>13, <1>14, <2>1 DEF Taken
<1>. DEFINE R == Read(binary_reader(m.body), KeySize)
            count == (Len(m.body) - KeySize) \div IdSize
            id(k) == SubSeq(left(R), IdSize * (k - 1) + 1, IdSize * k)
            good == /\ m.type = StateType /\ m.source # NoId
                    /\ R.ok /\ \A k \in 1 .. count : IsPoint(id(k))
<1>17. FromMessage(m) = IF good
                        THEN [id |-> m.source, sequence |-> m.sequence,
                              ecdhPublic |-> Taken(R, KeySize),
                              neighbors |-> {id(k) : k \in 1 .. count}]
                        ELSE Failed
  BY DEF FromMessage
<1>18. R = r
  BY <1>1, <1>11, <1>12
<1>19. count = n
  BY <1>1, <1>10
<1>20. \A k \in 1 .. n : id(k) = ids[k]
  BY <1>4, <1>15, <1>18
<1>. HIDE DEF R, count, id
<1>21. \A k \in 1 .. n : IsPoint(id(k))
  BY <1>2, <1>3, <1>20, ElementOfSeq DEF IsPoint
<1>22. {id(k) : k \in 1 .. count} = x.neighbors
  BY <1>2, <1>3, <1>19, <1>20
<1>23. m.source # NoId
  BY StateInput, Identifiers
<1>24. good
  BY <1>13, <1>18, <1>19, <1>21, <1>23
<1>. HIDE DEF good
<1>. QED BY <1>1, <1>16, <1>17, <1>18, <1>22, <1>24

-----------------------------------------------------------------------------
(* The strings of a description.                                           *)
LEMMA StringsInput ==
  ASSUME NEW x \in Input, x.kind = "strings"
  PROVE  /\ x.id \in Ids /\ x.other \in Ids /\ x.sequence \in 0 .. LongMod - 1
         /\ x.key \in Key /\ x.otherKey \in Key /\ x.iv \in Iv
         /\ x.strings \in String \X String
  BY DEF Input

LEMMA StringsAre ==
  ASSUME NEW strs \in String \X String
  PROVE  /\ strs = <<strs[1], strs[2]>>
         /\ strs[1] \in String /\ strs[2] \in String
         /\ strs[1] \in Seq(Byte) /\ strs[2] \in Seq(Byte)
<1>1. \A S, T : \A p \in S \X T : p = <<p[1], p[2]>> /\ p[1] \in S /\ p[2] \in T
  OBVIOUS
<1>2. strs = <<strs[1], strs[2]>> /\ strs[1] \in String /\ strs[2] \in String
  BY <1>1
<1>3. \A s \in String : s \in Seq(Byte)
  <2>1. Byte \ {0} \subseteq Byte
    OBVIOUS
  <2>. QED BY <2>1, SeqMonotonic DEF String
<1>. QED BY <1>2, <1>3

(* The first zero from there on ends a string.                             *)
LEMMA EndIs ==
  ASSUME NEW bin, Len(bin) \in Nat, NEW start \in Nat, NEW e \in start .. Len(bin),
         bin[e] = 0, \A k \in start .. e - 1 : bin[k] # 0
  PROVE  EndOf(bin, start) = e
<1>1. PICK top : top = IF start > Len(bin) THEN start ELSE Len(bin) + 1
  OBVIOUS
<1>2. top = Len(bin) + 1 /\ e \in start .. top
  BY <1>1
<1>3. (e > Len(bin) \/ bin[e] = 0) /\ \A k \in start .. e - 1 : bin[k] # 0
  OBVIOUS
<1>4. ASSUME NEW f \in start .. top,
             f > Len(bin) \/ bin[f] = 0, \A k \in start .. f - 1 : bin[k] # 0
      PROVE  f = e
  <2>1. ~ f < e
    <3>1. SUFFICES ASSUME f < e PROVE FALSE
      OBVIOUS
    <3>2. f \in start .. e - 1 /\ ~ f > Len(bin)
      BY <1>2, <3>1
    <3>. QED BY <1>3, <1>4, <3>2
  <2>2. ~ e < f
    <3>1. SUFFICES ASSUME e < f PROVE FALSE
      OBVIOUS
    <3>2. e \in start .. f - 1
      BY <1>2, <3>1
    <3>. QED BY <1>3, <1>4, <3>2
  <2>. QED BY <1>2, <2>1, <2>2
<1>5. EndOf(bin, start) =
        CHOOSE f \in start .. top : /\ f > Len(bin) \/ bin[f] = 0
                                    /\ \A k \in start .. f - 1 : bin[k] # 0
  BY <1>1 DEF EndOf
<1>. QED BY <1>2, <1>3, <1>4, <1>5

(* Whatever follows the packed strings, they come back.                    *)
LEMMA StringsUnpacked ==
  ASSUME NEW s \in String, NEW t \in String, NEW tail \in Seq(Byte)
  PROVE  unpack_strings(pack_strings(<<s, t>>) \o tail) = <<s, t>>
<1>1. PICK S, zero, packed, bin : /\ S = Byte /\ zero = <<0>>
                                  /\ packed = pack_strings(<<s, t>>) /\ bin = packed \o tail
  OBVIOUS
<1>2. /\ s \in Seq(S) /\ t \in Seq(S) /\ tail \in Seq(S)
      /\ zero \in Seq(S) /\ Len(zero) = 1 /\ zero[1] = 0
  <2>1. Byte \ {0} \subseteq Byte
    OBVIOUS
  <2>2. s \in Seq(Byte) /\ t \in Seq(Byte)
    BY <2>1, SeqMonotonic DEF String
  <2>. QED BY <1>1, <2>2, SmallBytes
<1>3. packed = s \o zero \o t \o zero
  BY <1>1 DEF pack_strings
<1>4. PICK i, j, k : i = Len(s) /\ j = i + Len(zero) /\ k = j + Len(t)
  OBVIOUS
<1>5. Parts(S, packed, s, zero, t, zero, i, j, k)
  BY <1>2, <1>3, <1>4 DEF Parts
<1>6. /\ packed \in Seq(S) /\ i \in Nat /\ j \in Nat /\ k \in Nat
      /\ i <= j /\ j <= k /\ k <= Len(packed) /\ Len(packed) = k + Len(zero)
  BY ONLY <1>5, FourParts
<1>7. /\ \A m \in 1 .. i : packed[m] = s[m]
      /\ SubSeq(packed, 1, i) = s
      /\ SubSeq(packed, i + 1, j) = zero
  BY ONLY <1>5, FourParts, SMTT(60)
<1>8. /\ SubSeq(packed, j + 1, k) = t
      /\ SubSeq(packed, k + 1, Len(packed)) = zero
  BY ONLY <1>5, FourParts
<1>9. j = i + 1 /\ Len(packed) = k + 1 /\ Len(s) = i /\ Len(t) = k - j
  BY <1>2, <1>4, <1>6
<1>10. \A m \in 1 .. Len(packed) : packed[m] \in S
  BY <1>6, ElementOfSeq
<1>11. packed[i + 1] = 0
  <2>1. \A m \in i + 1 .. j : packed[m] \in S
    BY <1>6, <1>9, <1>10
  <2>2. i + 1 \in Int /\ j \in Int /\ 1 \in 1 .. j - (i + 1) + 1 /\ i + 1 + 1 - 1 = i + 1
    BY <1>6, <1>9
  <2>3. \A a \in Int : a = i + 1 => SubSeq(packed, a, j)[1] = packed[a]
    BY <2>1, <2>2, SubSeqProperties
  <2>. QED BY <1>2, <1>7, <2>2, <2>3
<1>12. packed[k + 1] = 0
  <2>1. PICK a, b : a = k + 1 /\ b = Len(packed)
    OBVIOUS
  <2>2. a \in Int /\ b \in Int /\ 1 \in 1 .. b - a + 1 /\ a + 1 - 1 = a
    BY <1>6, <1>9, <2>1
  <2>3. \A m \in a .. b : packed[m] \in S
    BY <1>6, <1>9, <1>10, <2>1
  <2>4. SubSeq(packed, a, b)[1] = packed[a]
    BY <2>2, <2>3, SubSeqProperties
  <2>. QED BY <1>2, <1>8, <2>1, <2>4
<1>13. \A m \in j + 1 .. k : packed[m] = t[m - j]
  <2>. SUFFICES ASSUME NEW m \in j + 1 .. k PROVE packed[m] = t[m - j]
    OBVIOUS
  <2>1. PICK a, b : a = j + 1 /\ b = m - j
    OBVIOUS
  <2>2. a \in Int /\ k \in Int /\ b \in 1 .. k - a + 1 /\ a + b - 1 = m
    BY <1>6, <2>1
  <2>3. \A n \in a .. k : packed[n] \in S
    BY <1>6, <1>9, <1>10, <2>1
  <2>4. SubSeq(packed, a, k)[b] = packed[a + b - 1]
    BY <2>2, <2>3, SubSeqProperties
  <2>. QED BY <1>8, <2>1, <2>2, <2>4
<1>14. /\ bin \in Seq(S) /\ Len(bin) \in Nat /\ Len(packed) <= Len(bin)
       /\ \A m \in 1 .. Len(packed) : bin[m] = packed[m]
       /\ \A m, n \in Nat : 1 <= m /\ n <= Len(packed) => SubSeq(bin, m, n) = SubSeq(packed, m, n)
  <2>1. bin = packed \o tail
    BY <1>1
  <2>2. packed \in Seq(S) /\ tail \in Seq(S)
    BY <1>2, <1>6
  <2>3. /\ bin \in Seq(S) /\ Len(packed) \in Nat /\ Len(tail) \in Nat
        /\ Len(bin) = Len(packed) + Len(tail)
        /\ \A m \in 1 .. Len(packed) : bin[m] = packed[m]
        /\ \A m, n \in Nat : 1 <= m /\ n <= Len(packed) => SubSeq(bin, m, n) = SubSeq(packed, m, n)
    BY ONLY <2>1, <2>2, Joined
  <2>. QED BY <2>3
<1>15. (\A m \in 1 .. i : s[m] # 0) /\ (\A m \in 1 .. k - j : t[m] # 0)
  <2>1. s \in Seq(Byte \ {0}) /\ t \in Seq(Byte \ {0})
    BY DEF String
  <2>. QED BY <1>9, <2>1, ElementOfSeq
<1>16. EndOf(bin, 1) = i + 1
  <2>1. PICK e : e = i + 1
    OBVIOUS
  <2>2. e \in 1 .. Len(bin) /\ e \in 1 .. Len(packed) /\ 1 \in Nat /\ e - 1 = i
    BY <1>6, <1>9, <1>14, <2>1
  <2>3. bin[e] = 0
    BY <1>11, <1>14, <2>1, <2>2
  <2>4. \A m \in 1 .. e - 1 : bin[m] # 0
    <3>1. \A m \in 1 .. i : m \in 1 .. Len(packed)
      BY <1>6, <1>9
    <3>. QED BY <1>7, <1>14, <1>15, <2>2, <3>1
  <2>. QED BY <1>14, <2>1, <2>2, <2>3, <2>4, EndIs
<1>17. EndOf(bin, i + 1 + 1) = k + 1
  <2>1. PICK e, a : e = k + 1 /\ a = i + 1 + 1
    OBVIOUS
  <2>2. a \in Nat /\ e \in a .. Len(bin) /\ e \in 1 .. Len(packed) /\ e - 1 = k /\ a = j + 1
    BY <1>6, <1>9, <1>14, <2>1
  <2>3. bin[e] = 0
    BY <1>12, <1>14, <2>1, <2>2
  <2>4. \A m \in a .. e - 1 : bin[m] # 0
    <3>1. \A m \in j + 1 .. k : m \in 1 .. Len(packed) /\ m - j \in 1 .. k - j
      BY <1>6, <1>9
    <3>. QED BY <1>13, <1>14, <1>15, <2>2, <3>1
  <2>5. Len(bin) \in Nat
    BY <1>14
  <2>6. EndOf(bin, a) = e
    BY ONLY <2>2, <2>3, <2>4, <2>5, EndIs
  <2>. QED BY ONLY <2>1, <2>6
<1>18. SubSeq(bin, 1, i) = s
  <2>1. 1 \in Nat /\ 1 <= 1 /\ i \in Nat /\ i <= Len(packed)
    BY <1>6, <1>9
  <2>. QED BY <1>7, <1>14, <2>1
<1>19. SubSeq(bin, j + 1, k) = t
  <2>1. j + 1 \in Nat /\ 1 <= j + 1 /\ k \in Nat /\ k <= Len(packed)
    BY <1>6, <1>9
  <2>. QED BY <1>8, <1>14, <2>1
<1>20. unpack_strings(bin) =
         <<SubSeq(bin, 1, EndOf(bin, 1) - 1),
           SubSeq(bin, EndOf(bin, 1) + 1, EndOf(bin, EndOf(bin, 1) + 1) - 1)>>
  BY DEF unpack_strings
<1>21. unpack_strings(bin) = <<s, t>>
  <2>1. PICK e, f : e = EndOf(bin, 1) /\ f = EndOf(bin, e + 1)
    OBVIOUS
  <2>2. unpack_strings(bin) = <<SubSeq(bin, 1, e - 1), SubSeq(bin, e + 1, f - 1)>>
    BY <1>20, <2>1
  <2>3. e = i + 1
    BY <1>16, <2>1
  <2>4. f = k + 1
    BY <1>17, <2>1, <2>3
  <2>5. e - 1 = i /\ e + 1 = j + 1 /\ f - 1 = k
    BY <1>6, <1>9, <2>3, <2>4
  <2>6. SubSeq(bin, 1, e - 1) = s
    BY ONLY <1>18, <2>5
  <2>7. SubSeq(bin, e + 1, f - 1) = t
    BY ONLY <1>19, <2>5
  <2>. QED BY <2>2, <2>6, <2>7
<1>. QED BY <1>1, <1>21

LEMMA PackedIsBytes ==
  ASSUME NEW s \in String, NEW t \in String
  PROVE  pack_strings(<<s, t>>) \in Seq(Byte)
<1>1. PICK S, zero : S = Byte /\ zero = <<0>>
  OBVIOUS
<1>2. s \in Seq(S) /\ t \in Seq(S) /\ zero \in Seq(S)
  <2>1. Byte \ {0} \subseteq Byte
    OBVIOUS
  <2>2. s \in Seq(Byte) /\ t \in Seq(Byte)
    BY <2>1, SeqMonotonic DEF String
  <2>. QED BY <1>1, <2>2, SmallBytes
<1>3. s \o zero \o t \o zero \in Seq(S)
  BY <1>2, ConcatProperties
<1>. QED BY <1>1, <1>3 DEF pack_strings

(* The parts of the body that a description is sent in.                    *)
LEMMA StringsBodyIs ==
  ASSUME NEW x \in Input, x.kind = "strings",
         NEW stream, stream = KeyStream(x.key, x.otherKey, x.iv),
         NEW cipher, cipher = encrypt(stream, pack_strings(x.strings)),
         NEW body, body = MessageOf(x).body,
         NEW i, NEW j, NEW k,
         i = Len(x.key), j = i + Len(x.otherKey), k = j + Len(x.iv)
  PROVE  /\ Parts(Byte, body, x.key, x.otherKey, x.iv, cipher, i, j, k)
         /\ body \in Seq(Byte) /\ stream \in Byte
         /\ pack_strings(x.strings) \in Seq(Byte)
<1>1. /\ x.key \in Seq(Byte) /\ x.otherKey \in Seq(Byte) /\ x.iv \in Seq(Byte)
  BY StringsInput, KeyIsSeq, IvIsSeq
<1>2. stream \in Byte
  BY StringsInput, KeyStreamIsByte
<1>3. pack_strings(x.strings) \in Seq(Byte)
  BY StringsInput, StringsAre, PackedIsBytes
<1>4. cipher \in Seq(Byte)
  BY <1>2, <1>3, TextIsDecrypted
<1>5. body = x.key \o x.otherKey \o x.iv \o cipher
  BY DEF MessageOf, Create, CipherBinary, CipherBody
<1>6. Parts(Byte, body, x.key, x.otherKey, x.iv, cipher, i, j, k)
  BY <1>1, <1>4, <1>5 DEF Parts
<1>7. body \in Seq(Byte)
  BY ONLY <1>6, FourParts
<1>. QED BY <1>2, <1>3, <1>6, <1>7

LEMMA StringsFrame ==
  ASSUME NEW x \in Input, x.kind = "strings"
  PROVE  Frame(MessageOf(x))
<1>1. PICK stream, cipher, body : /\ stream = KeyStream(x.key, x.otherKey, x.iv)
                                  /\ cipher = encrypt(stream, pack_strings(x.strings))
                                  /\ body = MessageOf(x).body
  OBVIOUS
<1>2. body \in Seq(Byte)
  BY <1>1, StringsBodyIs
<1>3. PICK m : m = MessageOf(x)
  OBVIOUS
<1>4. m = [type |-> 3, sequence |-> x.sequence, source |-> x.id,
           destination |-> x.other, body |-> body, signature |-> << >>]
  BY <1>1, <1>3 DEF MessageOf, Create, SignalingType
<1>. QED BY <1>2, <1>3, <1>4, StringsInput, SmallBytes DEF Frame

(* The receiver deciphers the text, with more bytes behind it, and takes   *)
(* the strings from it.                                                    *)
LEMMA StringsComeBack ==
  ASSUME NEW x \in Input, x.kind = "strings",
         NEW m, m.body = MessageOf(x).body, NEW tail \in Tails
  PROVE  /\ Deciphered(m, x.otherKey, tail) = [payload |-> pack_strings(x.strings) \o tail]
         /\ unpack_strings(pack_strings(x.strings) \o tail) = x.strings
<1>1. PICK stream, cipher, body : /\ stream = KeyStream(x.key, x.otherKey, x.iv)
                                  /\ cipher = encrypt(stream, pack_strings(x.strings))
                                  /\ body = MessageOf(x).body
  OBVIOUS
<1>2. PICK i, j, k : i = Len(x.key) /\ j = i + Len(x.otherKey) /\ k = j + Len(x.iv)
  OBVIOUS
<1>3. /\ Parts(Byte, body, x.key, x.otherKey, x.iv, cipher, i, j, k)
      /\ body \in Seq(Byte) /\ stream \in Byte
      /\ pack_strings(x.strings) \in Seq(Byte)
  BY <1>1, <1>2, StringsBodyIs
<1>4. /\ i \in Nat /\ j \in Nat /\ k \in Nat
      /\ i <= j /\ j <= k /\ k <= Len(body)
      /\ SubSeq(body, 1, i) = x.key
      /\ SubSeq(body, i + 1, j) = x.otherKey
      /\ SubSeq(body, j + 1, k) = x.iv
      /\ SubSeq(body, k + 1, Len(body)) = cipher
  <2>1. PICK S, key, other, iv :
          S = Byte /\ key = x.key /\ other = x.otherKey /\ iv = x.iv
    OBVIOUS
  <2>2. Parts(S, body, key, other, iv, cipher, i, j, k)
    BY <1>3, <2>1
  <2>3. /\ i \in Nat /\ j \in Nat /\ k \in Nat
        /\ i <= j /\ j <= k /\ k <= Len(body)
    BY ONLY <2>2, FourParts
  <2>4. SubSeq(body, 1, i) = key /\ SubSeq(body, i + 1, j) = other
    BY ONLY <2>2, FourParts
  <2>5. SubSeq(body, j + 1, k) = iv /\ SubSeq(body, k + 1, Len(body)) = cipher
    BY ONLY <2>2, FourParts
  <2>. QED BY ONLY <2>1, <2>3, <2>4, <2>5
<1>5. /\ i = KeySize /\ j = KeySize + KeySize /\ k = j + IvSize
      /\ KeySize \in Nat /\ IvSize \in Nat /\ Len(body) \in Nat
  BY <1>2, <1>3, StringsInput, KeyIsSeq, IvIsSeq, LenProperties
<1>6. PICK q, s, d, v : /\ q = binary_reader(body) /\ s = Read(q, KeySize)
                        /\ d = Read(s, KeySize) /\ v = Read(d, IvSize)
  OBVIOUS
<1>7. q \in Reader(body) /\ q.mPosition = 0 /\ q.ok
  BY <1>5, <1>6, NewReader
<1>8. s \in Reader(body) /\ s.ok /\ s.mPosition = i
  <2>1. q.mPosition + KeySize <= Len(body) /\ s = Read(q, KeySize)
    BY <1>4, <1>5, <1>6, <1>7
  <2>2. s \in Reader(body) /\ s.ok /\ s.mPosition = q.mPosition + KeySize
    BY ONLY <1>5, <1>7, <2>1, ReadTo
  <2>. QED BY <1>5, <1>7, <2>2
<1>9. d \in Reader(body) /\ d.ok /\ d.mPosition = j
  <2>1. s.mPosition + KeySize <= Len(body) /\ d = Read(s, KeySize)
    BY <1>4, <1>5, <1>6, <1>8
  <2>2. d \in Reader(body) /\ d.ok /\ d.mPosition = s.mPosition + KeySize
    BY ONLY <1>5, <1>8, <2>1, ReadTo
  <2>. QED BY <1>5, <1>8, <2>2
<1>10. v \in Reader(body) /\ v.ok /\ v.mPosition = k
  <2>1. d.mPosition + IvSize <= Len(body) /\ v = Read(d, IvSize)
    BY <1>4, <1>5, <1>6, <1>9
  <2>2. v \in Reader(body) /\ v.ok /\ v.mPosition = d.mPosition + IvSize
    BY ONLY <1>5, <1>9, <2>1, ReadTo
  <2>. QED BY <1>5, <1>9, <2>2
<1>11. s.mBinary = body /\ d.mBinary = body /\ v.mBinary = body
  BY <1>8, <1>9, <1>10 DEF Reader
<1>12. Taken(s, KeySize) = x.key
  <2>1. s.mPosition - KeySize + 1 = 1
    BY <1>5, <1>8
  <2>. QED BY <1>4, <1>8, <1>11, <2>1 DEF Taken
<1>13. Taken(d, KeySize) = x.otherKey
  <2>1. d.mPosition - KeySize + 1 = i + 1
    BY <1>5, <1>9
  <2>. QED BY <1>4, <1>9, <1>11, <2>1 DEF Taken
<1>14. Taken(v, IvSize) = x.iv
  <2>1. v.mPosition - IvSize + 1 = j + 1
    BY <1>4, <1>5, <1>10
  <2>. QED BY <1>4, <1>10, <1>11, <2>1 DEF Taken
<1>15. left(v) = cipher
  BY <1>4, <1>10, <1>11 DEF left
<1>. DEFINE D == Read(Read(binary_reader(m.body), KeySize), KeySize)
            V == Read(D, IvSize)
            flow == KeyStream(Taken(Read(binary_reader(m.body), KeySize), KeySize),
                              Taken(D, KeySize), Taken(V, IvSize))
<1>16. Deciphered(m, x.otherKey, tail) =
         IF V.ok /\ Taken(D, KeySize) = x.otherKey
         THEN [payload |-> decrypted(flow, left(V), tail)] ELSE Failed
  BY DEF Deciphered
<1>17. D = d /\ V = v /\ Read(binary_reader(m.body), KeySize) = s
  BY <1>1, <1>6
<1>18. flow = stream
  BY <1>1, <1>12, <1>13, <1>14, <1>17
<1>. HIDE DEF D, V, flow
<1>19. Deciphered(m, x.otherKey, tail) = [payload |-> decrypted(stream, cipher, tail)]
  BY <1>10, <1>13, <1>15, <1>16, <1>17, <1>18
<1>20. decrypted(stream, cipher, tail) = pack_strings(x.strings) \o tail
  BY <1>1, <1>3, TextIsDecrypted, ZenonT(60)
<1>21. tail \in Seq(Byte)
  <2>1. 2 * TagSize \in Nat
    BY CodecAssumption
  <2>. QED BY <2>1, FunctionIsSeq DEF Tails
<1>22. unpack_strings(pack_strings(x.strings) \o tail) = x.strings
  <2>1. PICK a, b : x.strings = <<a, b>> /\ a \in String /\ b \in String
    BY StringsInput, StringsAre
  <2>2. unpack_strings(pack_strings(<<a, b>>) \o tail) = <<a, b>>
    BY <1>21, <2>1, StringsUnpacked
  <2>. QED BY <2>1, <2>2
<1>. QED BY <1>19, <1>20, <1>22

-----------------------------------------------------------------------------
(* What is on its way, and what is made of it: a message that was not      *)
(* damaged is the one that was written, and one that is accepted starts    *)
(* with that and is read as it.                                            *)
Whole(x, bin) == IsPrefix(Signed(MessageOf(x)), bin)

SameMessage(m, message) ==
  /\ m.type = message.type /\ m.sequence = message.sequence
  /\ m.source = message.source /\ m.destination = message.destination
  /\ m.body = message.body

SignedInput ==
  pc \in {"read", "parsed"} =>
    /\ IsMessage(input) /\ ~ TooLong(MessageOf(input))
    /\ signed = [source |-> MessageOf(input).source, part |-> toBinary(MessageOf(input))]

WireInput ==
  pc = "read" =>
    /\ wire \in Seq(0 .. ByteMod)
    /\ ~ damaged => wire = Signed(MessageOf(input))

ParsedInput ==
  pc = "parsed" => SameMessage(result, MessageOf(input)) /\ Whole(input, wire)

DamagedInput == damaged => pc \in {"read", "parsed", "done"}

TextInput == pc \in {"outer", "inner"} => ~ IsMessage(input)

CodecInv ==
  /\ input \in Input
  /\ pc = "write" => result = Failed
  /\ SignedInput /\ WireInput /\ ParsedInput /\ DamagedInput /\ TextInput
  /\ MessagesComeBack /\ DamageIsNoticed

LEMMA MessageIs ==
  ASSUME NEW x \in Input, IsMessage(x), ~ TooLong(MessageOf(x))
  PROVE  /\ Frame(MessageOf(x))
         /\ toBinary(MessageOf(x)) \in Seq(Byte)
         /\ Signed(MessageOf(x)) \in Seq(0 .. ByteMod)
         /\ Signed(MessageOf(x)) = toBinary(MessageOf(x)) \o <<Signature>>
<1>1. Frame(MessageOf(x))
  BY StateFrame, StringsFrame DEF IsMessage
<1>2. PICK message, w : message = MessageOf(x) /\ w = toBinary(message)
  OBVIOUS
<1>3. w \in Seq(Byte)
  BY <1>1, <1>2, FrameIsBytes
<1>4. w \in Seq(0 .. ByteMod) /\ Signature \in 0 .. ByteMod
  BY <1>3, SmallBytes, SeqMonotonic
<1>5. Append(w, Signature) \in Seq(0 .. ByteMod) /\ Append(w, Signature) = w \o <<Signature>>
  BY <1>4, AppendProperties, AppendIsConcat
<1>. QED BY <1>1, <1>2, <1>3, <1>5 DEF Signed

(* What is read before a signature starts with what was written.           *)
LEMMA StartIsPrefix ==
  ASSUME NEW S, NEW w \in Seq(S), NEW u \in Seq(S), StartsWithSignature(u),
         Signature \in S, NEW v, v = w \o u
  PROVE  IsPrefix(Append(w, Signature), v)
<1>1. /\ v \in Seq(S) /\ Len(w) \in Nat /\ Len(u) \in Nat
      /\ Len(v) = Len(w) + Len(u)
      /\ \A i \in 1 .. Len(w) : v[i] = w[i]
      /\ \A i \in 1 .. Len(u) : v[Len(w) + i] = u[i]
  BY ONLY v = w \o u, Joined, w \in Seq(S), u \in Seq(S)
<1>2. PICK a : a = Append(w, Signature)
  OBVIOUS
<1>3. PICK n : n = Len(w) + 1
  OBVIOUS
<1>4. /\ a \in Seq(S) /\ Len(a) = n /\ a[n] = Signature
      /\ \A i \in 1 .. Len(w) : a[i] = w[i]
  BY <1>2, <1>3, AppendProperties
<1>5. Len(u) > 0 /\ u[1] = Signature
  <2>1. Len(u) # 0
    BY EmptySeq DEF StartsWithSignature
  <2>. QED BY <1>1, <2>1 DEF StartsWithSignature
<1>6. n \in Nat /\ n <= Len(v) /\ Len(v) \in Nat
  BY ONLY <1>1, <1>3, <1>5
<1>7. v[n] = Signature
  BY <1>1, <1>3, <1>5
<1>8. \A i \in 1 .. n : a[i] = v[i] /\ a[i] \in S
  <2>1. \A i \in 1 .. n : i \in 1 .. Len(w) \/ i = n
    BY ONLY <1>1, <1>3
  <2>2. \A i \in 1 .. Len(w) : w[i] \in S
    BY ElementOfSeq
  <2>. QED BY ONLY <1>1, <1>4, <1>7, <2>1, <2>2, Signature \in S
<1>9. PICK m : m = 1
  OBVIOUS
<1>10. m \in Int /\ n \in Int
       /\ (\A i \in m .. n : a[i] \in S) /\ (\A i \in m .. n : v[i] \in S)
  BY <1>6, <1>8, <1>9
<1>11. /\ SubSeq(v, m, n) \in Seq(S)
       /\ Len(SubSeq(v, m, n)) = IF m <= n THEN n - m + 1 ELSE 0
       /\ \A i \in 1 .. n - m + 1 : SubSeq(v, m, n)[i] = v[m + i - 1]
  BY ONLY <1>10, SubSeqProperties
<1>12. Len(SubSeq(v, m, n)) = n
  BY ONLY <1>1, <1>3, <1>9, <1>11
<1>13. \A i \in 1 .. n : SubSeq(v, m, n)[i] = v[i]
  BY ONLY <1>6, <1>9, <1>11
<1>14. SubSeq(v, 1, n) = a
  <2>1. \A i \in 1 .. Len(a) : a[i] = SubSeq(v, m, n)[i]
    BY <1>4, <1>8, <1>13
  <2>2. a = SubSeq(v, m, n)
    BY ONLY <1>4, <1>11, <1>12, <2>1, SeqEqual
  <2>. QED BY <1>9, <2>2
<1>15. SubSeq(a, 1, n) = a
  BY <1>4, SubSeqFull
<1>. QED BY <1>2, <1>4, <1>6, <1>14, <1>15 DEF IsPrefix

LEMMA NotFailed ==
  /\ \A a, b, c, d, e, f : [type |-> a, sequence |-> b, source |-> c,
                            destination |-> d, body |-> e, signature |-> f] # Failed
  /\ \A a : [payload |-> a] # Failed
<1>1. "failed" \in DOMAIN Failed
  BY DEF Failed
<1>2. \A a, b, c, d, e, f :
        "failed" \notin DOMAIN [type |-> a, sequence |-> b, source |-> c,
                                destination |-> d, body |-> e, signature |-> f]
  OBVIOUS
<1>3. \A a : "failed" \notin DOMAIN [payload |-> a]
  OBVIOUS
<1>. QED BY <1>1, <1>2, <1>3

LEMMA CodecInit == Init => CodecInv
<1>. SUFFICES ASSUME Init PROVE CodecInv
  OBVIOUS
<1>1. input \in Input /\ pc = "write" /\ damaged = FALSE /\ result = Failed
  BY InputsAssumption DEF Init
<1>. QED BY <1>1 DEF CodecInv, SignedInput, WireInput, ParsedInput, DamagedInput, TextInput,
                     MessagesComeBack, DamageIsNoticed, Delivered

LEMMA CodecWrite == CodecInv /\ Write => CodecInv'
<1>. SUFFICES ASSUME CodecInv, Write PROVE CodecInv'
  OBVIOUS
<1>1. PICK x : x = input
  OBVIOUS
<1>2. input = x /\ input' = x /\ x \in Input /\ pc = "write" /\ IsMessage(x)
  BY <1>1 DEF CodecInv, Write
<1>3. result = Failed /\ result' = Failed /\ ~ damaged /\ ~ damaged'
  BY <1>2 DEF CodecInv, DamagedInput, Write
<1>4. CASE TooLong(MessageOf(x))
  <2>1. pc' = "done"
    BY <1>2, <1>4 DEF Write
  <2>. QED BY <1>2, <1>3, <1>4, <2>1
       DEF CodecInv, SignedInput, WireInput, ParsedInput, DamagedInput, TextInput,
           MessagesComeBack, DamageIsNoticed, Delivered
<1>5. CASE ~ TooLong(MessageOf(x))
  <2>1. /\ pc' = "read" /\ wire' = Signed(MessageOf(x))
        /\ signed' = [source |-> MessageOf(x).source, part |-> toBinary(MessageOf(x))]
    BY <1>2, <1>5 DEF Write
  <2>2. Signed(MessageOf(x)) \in Seq(0 .. ByteMod)
    BY <1>2, <1>5, MessageIs
  <2>. QED BY <1>2, <1>3, <1>5, <2>1, <2>2
       DEF CodecInv, SignedInput, WireInput, ParsedInput, DamagedInput, TextInput,
           MessagesComeBack, DamageIsNoticed, Delivered
<1>. QED BY <1>4, <1>5

(* A binary that is cut, extended or changed is one still.                 *)
LEMMA DamageIsBinary ==
  ASSUME NEW S, NEW T \in SUBSET S, NEW w \in Seq(S), NEW v,
         \/ \E n \in 0 .. Len(w) - 1 : v = SubSeq(w, 1, n)
         \/ \E b \in T : v = Append(w, b)
         \/ \E k \in DOMAIN w, b \in T : w[k] # b /\ v = [w EXCEPT ![k] = b]
  PROVE  v \in Seq(S)
<1>1. Len(w) \in Nat /\ DOMAIN w = 1 .. Len(w) /\ \A i \in 1 .. Len(w) : w[i] \in S
  BY LenProperties, ElementOfSeq
<1>2. CASE \E n \in 0 .. Len(w) - 1 : v = SubSeq(w, 1, n)
  <2>1. PICK n \in 0 .. Len(w) - 1 : v = SubSeq(w, 1, n)
    BY <1>2
  <2>2. 1 \in Int /\ n \in Int /\ \A i \in 1 .. n : w[i] \in S
    BY <1>1, <2>1
  <2>. QED BY <2>1, <2>2, SubSeqProperties
<1>3. CASE \E b \in T : v = Append(w, b)
  <2>1. PICK b \in S : v = Append(w, b)
    BY <1>3
  <2>. QED BY <2>1, AppendProperties
<1>4. CASE \E k \in DOMAIN w, b \in T : w[k] # b /\ v = [w EXCEPT ![k] = b]
  <2>1. PICK k \in 1 .. Len(w), b \in S : v = [w EXCEPT ![k] = b]
    BY <1>1, <1>4
  <2>. QED BY <2>1, ExceptSeq
<1>. QED BY <1>2, <1>3, <1>4

LEMMA CodecDamage == CodecInv /\ Damage => CodecInv'
<1>. SUFFICES ASSUME CodecInv, Damage PROVE CodecInv'
  OBVIOUS
<1>1. PICK x : x = input
  OBVIOUS
<1>2. /\ input = x /\ input' = x /\ x \in Input
      /\ pc = "read" /\ pc' = "read" /\ ~ damaged /\ damaged'
      /\ signed' = signed /\ result' = result
  BY <1>1 DEF CodecInv, Damage
<1>3. PICK w, v, S : w = wire /\ v = wire' /\ S = 0 .. ByteMod
  OBVIOUS
<1>4. w \in Seq(S) /\ Byte \in SUBSET S
  BY <1>2, <1>3, SmallBytes DEF CodecInv, WireInput
<1>5. \/ \E n \in 0 .. Len(w) - 1 : v = SubSeq(w, 1, n)
      \/ \E b \in Byte : v = Append(w, b)
      \/ \E k \in DOMAIN w, b \in Byte : w[k] # b /\ v = [w EXCEPT ![k] = b]
  BY <1>3 DEF Damage
<1>6. v \in Seq(S)
  BY ONLY <1>4, <1>5, DamageIsBinary
<1>7. wire' \in Seq(0 .. ByteMod)
  BY <1>3, <1>6
<1>8. SignedInput'
  BY <1>2 DEF CodecInv, SignedInput
<1>. QED BY <1>2, <1>7, <1>8
     DEF CodecInv, WireInput, ParsedInput, DamagedInput, TextInput,
         MessagesComeBack, DamageIsNoticed, Delivered

LEMMA CodecParse == CodecInv /\ Parse => CodecInv'
<1>. SUFFICES ASSUME CodecInv, Parse PROVE CodecInv'
  OBVIOUS
<1>1. PICK x, bin, message : x = input /\ bin = wire /\ message = MessageOf(x)
  OBVIOUS
<1>2. /\ input = x /\ input' = x /\ x \in Input
      /\ pc = "read" /\ damaged' = damaged /\ wire' = bin /\ signed' = signed
      /\ result' = route(fromBinary(bin))
      /\ pc' = IF result' = Failed THEN "done" ELSE "parsed"
  BY <1>1 DEF CodecInv, Parse
<1>3. /\ IsMessage(x) /\ ~ TooLong(message)
      /\ signed = [source |-> message.source, part |-> toBinary(message)]
  BY <1>1, <1>2 DEF CodecInv, SignedInput
<1>4. Frame(message) /\ toBinary(message) \in Seq(Byte)
      /\ Signed(message) = toBinary(message) \o <<Signature>>
  BY <1>1, <1>2, <1>3, MessageIs
<1>5. bin \in Seq(0 .. ByteMod) /\ (~ damaged => bin = Signed(message))
  BY <1>1, <1>2 DEF CodecInv, WireInput
<1>6. SignedInput'
  BY <1>1, <1>2, <1>3 DEF SignedInput
<1>7. ASSUME NEW u \in Seq(0 .. ByteMod), StartsWithSignature(u),
             bin = toBinary(message) \o u
      PROVE  /\ fromBinary(bin) # Failed /\ fromBinary(bin).source # NoId
             /\ SameMessage(fromBinary(bin), message) /\ Whole(x, bin)
  <2>1. fromBinary(bin) = [type |-> message.type, sequence |-> message.sequence,
                           source |-> message.source, destination |-> message.destination,
                           body |-> message.body, signature |-> u]
    BY <1>3, <1>4, <1>7, FrameComesBack
  <2>2. message.source # NoId
    BY <1>4, Identifiers DEF Frame
  <2>3. IsPrefix(Append(toBinary(message), Signature), bin)
    <3>1. PICK S, w : S = 0 .. ByteMod /\ w = toBinary(message)
      OBVIOUS
    <3>2. w \in Seq(S) /\ u \in Seq(S) /\ Signature \in S /\ bin = w \o u
      BY <1>4, <1>7, <3>1, SmallBytes, SeqMonotonic
    <3>3. IsPrefix(Append(w, Signature), bin)
      BY ONLY <1>7, <3>2, StartIsPrefix
    <3>. QED BY <3>1, <3>3
  <2>. QED BY <1>1, <2>1, <2>2, <2>3, NotFailed DEF SameMessage, Whole, Signed
<1>8. ASSUME ~ damaged
      PROVE  \E u \in Seq(0 .. ByteMod) :
               StartsWithSignature(u) /\ bin = toBinary(message) \o u
  <2>1. <<Signature>> \in Seq(0 .. ByteMod) /\ StartsWithSignature(<<Signature>>)
    BY SmallBytes DEF StartsWithSignature
  <2>. QED BY <1>4, <1>5, <1>8, <2>1
<1>9. ASSUME route(fromBinary(bin)) # Failed
      PROVE  \E u \in Seq(0 .. ByteMod) :
               StartsWithSignature(u) /\ bin = toBinary(message) \o u
  <2>1. fromBinary(bin) # Failed /\ fromBinary(bin).source # NoId
    BY <1>9 DEF route
  <2>2. signed.part = toBinary(message)
    BY <1>3
  <2>. QED BY <1>5, <2>1, <2>2, AcceptedIsSigned
<1>10. CASE route(fromBinary(bin)) = Failed
  <2>1. damaged
    BY <1>7, <1>8, <1>10 DEF route
  <2>2. pc' = "done" /\ result' = Failed
    BY <1>2, <1>10
  <2>. QED BY <1>2, <1>6, <2>1, <2>2
       DEF CodecInv, WireInput, ParsedInput, DamagedInput, TextInput,
           MessagesComeBack, DamageIsNoticed, Delivered
<1>11. CASE route(fromBinary(bin)) # Failed
  <2>1. pc' = "parsed"
    BY <1>2, <1>11
  <2>2. result' = fromBinary(bin)
    BY <1>2, <1>11 DEF route
  <2>3. SameMessage(result', message) /\ Whole(x, bin)
    BY <1>7, <1>9, <1>11, <2>2
  <2>4. ParsedInput'
    BY <1>1, <1>2, <2>1, <2>3 DEF ParsedInput, SameMessage, Whole
  <2>. QED BY <1>2, <1>6, <2>1, <2>4
       DEF CodecInv, WireInput, DamagedInput, TextInput,
           MessagesComeBack, DamageIsNoticed, Delivered
<1>. QED BY <1>10, <1>11

(* A message that is read as the original one ends with what that says.    *)
LEMMA CodecDone ==
  ASSUME CodecInv, NEW x, x = input, pc = "parsed", pc' = "done",
         input' = x, wire' = wire, damaged' = damaged, result' = Original(x)
  PROVE  CodecInv'
<1>1. x \in Input /\ ~ TooLong(MessageOf(x)) /\ Whole(x, wire)
  BY DEF CodecInv, SignedInput, ParsedInput
<1>2. MessagesComeBack' /\ DamageIsNoticed'
  BY <1>1 DEF MessagesComeBack, DamageIsNoticed, Delivered, Whole
<1>. QED BY <1>1, <1>2
     DEF CodecInv, SignedInput, WireInput, ParsedInput, DamagedInput, TextInput

LEMMA CodecParseState == CodecInv /\ ParseState => CodecInv'
<1>. SUFFICES ASSUME CodecInv, ParseState PROVE CodecInv'
  OBVIOUS
<1>1. PICK x, m : x = input /\ m = result
  OBVIOUS
<1>2. /\ input' = x /\ x \in Input /\ x.kind = "state"
      /\ pc = "parsed" /\ pc' = "done" /\ damaged' = damaged /\ wire' = wire
      /\ result' = FromMessage(m)
  BY <1>1 DEF CodecInv, ParseState
<1>3. SameMessage(m, MessageOf(x))
  BY <1>1, <1>2 DEF CodecInv, ParsedInput
<1>4. /\ MessageOf(x).type = StateType /\ MessageOf(x).source = x.id
      /\ MessageOf(x).sequence = x.sequence /\ MessageOf(x).body = StateBody(x)
  BY <1>2 DEF MessageOf, Create
<1>5. /\ m.type = StateType /\ m.source = x.id
      /\ m.sequence = x.sequence /\ m.body = StateBody(x)
  BY <1>3, <1>4 DEF SameMessage
<1>6. result' = Original(x)
  BY <1>2, <1>5, StateComesBack DEF Original
<1>. QED BY <1>1, <1>2, <1>6, CodecDone

LEMMA CodecParseStrings == CodecInv /\ ParseStrings => CodecInv'
<1>. SUFFICES ASSUME CodecInv, ParseStrings PROVE CodecInv'
  OBVIOUS
<1>1. PICK x, m : x = input /\ m = result
  OBVIOUS
<1>2. /\ input' = x /\ x \in Input /\ x.kind = "strings"
      /\ pc = "parsed" /\ pc' = "done" /\ damaged' = damaged /\ wire' = wire
  BY <1>1 DEF CodecInv, ParseStrings
<1>3. SameMessage(m, MessageOf(x))
  BY <1>1, <1>2 DEF CodecInv, ParsedInput
<1>4. PICK tail \in Tails :
        LET read == IF m.type = SignalingType /\ m.source # NoId /\ m.destination # NoId
                    THEN Deciphered(m, x.otherKey, tail) ELSE Failed
        IN  result' = IF read = Failed THEN Failed
                      ELSE [strings |-> unpack_strings(read.payload)]
  BY <1>1 DEF ParseStrings
<1>5. PICK clear :
        clear = IF m.type = SignalingType /\ m.source # NoId /\ m.destination # NoId
                THEN Deciphered(m, x.otherKey, tail) ELSE Failed
  OBVIOUS
<1>6. result' = IF clear = Failed THEN Failed
                ELSE [strings |-> unpack_strings(clear.payload)]
  BY <1>4, <1>5
<1>7. /\ MessageOf(x).type = SignalingType /\ MessageOf(x).source = x.id
      /\ MessageOf(x).destination = x.other
  BY <1>2 DEF MessageOf, Create
<1>8. /\ m.type = SignalingType /\ m.source = x.id /\ m.destination = x.other
      /\ m.body = MessageOf(x).body
  BY <1>3, <1>7 DEF SameMessage
<1>9. x.id # NoId /\ x.other # NoId
  BY <1>2, StringsInput, Identifiers
<1>10. clear = Deciphered(m, x.otherKey, tail)
  BY <1>5, <1>8, <1>9
<1>11. /\ clear = [payload |-> pack_strings(x.strings) \o tail]
       /\ unpack_strings(pack_strings(x.strings) \o tail) = x.strings
  BY <1>2, <1>4, <1>8, <1>10, StringsComeBack
<1>12. clear # Failed /\ clear.payload = pack_strings(x.strings) \o tail
  BY <1>11, NotFailed
<1>13. result' = Original(x)
  BY <1>2, <1>6, <1>11, <1>12 DEF Original
<1>. QED BY <1>1, <1>2, <1>13, CodecDone

(* The steps of the texts.                                                 *)
LEMMA CodecTexts ==
  /\ CodecInv
  /\ Hex \/ WriteText \/ OuterLoop \/ TakeCharacter \/ MeetSpace \/ MeetInvalid \/ EndGroup
  => CodecInv'
<1>. SUFFICES ASSUME CodecInv,
       Hex \/ WriteText \/ OuterLoop \/ TakeCharacter \/ MeetSpace \/ MeetInvalid \/ EndGroup
     PROVE CodecInv'
  OBVIOUS
<1>1. /\ input' = input /\ signed' = signed /\ damaged' = damaged
      /\ pc \in {"write", "outer", "inner"} /\ pc' \in {"outer", "inner", "done"}
      /\ pc = "write" => ~ IsMessage(input)
  BY DEF Hex, WriteText, OuterLoop, TakeCharacter, MeetSpace, MeetInvalid, EndGroup, vars,
         IsMessage, IsBase64Text
<1>2. ~ IsMessage(input) /\ ~ damaged /\ input \in Input
  BY <1>1 DEF CodecInv, TextInput, DamagedInput
<1>3. ~ IsMessage(input')
  BY <1>1, <1>2
<1>. QED BY <1>1, <1>2, <1>3
     DEF CodecInv, SignedInput, WireInput, ParsedInput, DamagedInput, TextInput,
         MessagesComeBack, DamageIsNoticed, Delivered

LEMMA CodecUnchanged == CodecInv /\ UNCHANGED vars => CodecInv'
  BY DEF CodecInv, SignedInput, WireInput, ParsedInput, DamagedInput, TextInput,
         MessagesComeBack, DamageIsNoticed, Delivered, vars

(* No action gets out of the invariant.                                     *)
LEMMA CodecAlways == Spec => []CodecInv
<1>1. CodecInv /\ [Next]_vars => CodecInv'
  BY CodecWrite, CodecDamage, CodecParse, CodecParseState, CodecParseStrings, CodecTexts,
     CodecUnchanged DEF Next
<1>. QED BY <1>1, CodecInit, PTL DEF Spec

(* A State or a description that is delivered without damage is what was   *)
(* written: toMessage, operator binary, sign and encrypt are undone by     *)
(* Message::Message, FromMessage, decrypt and unpack_strings, for any      *)
(* sizes of bytes, identifiers, keys and tags, and any neighbours.         *)
THEOREM CodecMessagesComeBack == Spec => []MessagesComeBack
<1>1. CodecInv => MessagesComeBack
  BY DEF CodecInv
<1>. QED BY <1>1, CodecAlways, PTL

(* No message that was cut or changed in a byte is accepted, and one with  *)
(* a byte after its signature is read as what was written:                 *)
(* Message::Message verifies the signature of all that comes before it,    *)
(* and Routing::route drops a message without a source.                    *)
THEOREM CodecDamageIsNoticed == Spec => []DamageIsNoticed
<1>1. CodecInv => DamageIsNoticed
  BY DEF CodecInv
<1>. QED BY <1>1, CodecAlways, PTL

-----------------------------------------------------------------------------
(* The digits and the characters of the tables.                            *)
LEMMA Digits ==
  ASSUME NEW v \in 0 .. 15
  PROVE  HexValue(HexDigit(v)) = v
<1>1. HexDigit(v) = IF v < 10 THEN 48 + v ELSE 55 + v
  BY DEF HexDigit
<1>2. CASE v < 10
  <2>1. HexDigit(v) \in 48 .. 57 /\ HexDigit(v) - 48 = v
    BY <1>1, <1>2
  <2>. QED BY <2>1 DEF HexValue
<1>3. CASE ~ v < 10
  <2>1. HexDigit(v) \in 65 .. 70 /\ HexDigit(v) - 55 = v /\ HexDigit(v) \notin 48 .. 57
    BY <1>1, <1>3
  <2>2. \A c : c \in 65 .. 70 /\ c \notin 48 .. 57 => HexValue(c) = c - 55
    BY DEF HexValue
  <2>. QED BY <2>1, <2>2
<1>. QED BY <1>2, <1>3

LEMMA HexComesBack ==
  ASSUME NEW bytes \in Seq(0 .. 255)
  PROVE  from_hex(to_hex(bytes)) = [bytes |-> bytes]
<1>1. PICK n, str : n = Len(bytes) /\ str = to_hex(bytes)
  OBVIOUS
<1>2. n \in Nat /\ DOMAIN bytes = 1 .. n /\ bytes \in [1 .. n -> 0 .. 255]
  BY <1>1, LenProperties, ZenonT(60)
<1>3. str = [k \in 1 .. 2 * n |->
               HexDigit(IF k % 2 = 1 THEN bytes[(k + 1) \div 2] \div 16
                                     ELSE bytes[(k + 1) \div 2] % 16)]
  BY <1>1 DEF to_hex
<1>4. \A v \in 0 .. 15 : HexDigit(v) \in Nat
  BY DEF HexDigit
<1>5. \A k \in 1 .. n : /\ 2 * k - 1 \in 1 .. 2 * n /\ 2 * k \in 1 .. 2 * n
                        /\ (2 * k - 1) % 2 = 1 /\ (2 * k - 1 + 1) \div 2 = k
                        /\ (2 * k) % 2 = 0 /\ (2 * k + 1) \div 2 = k
  BY <1>2
<1>6. \A b \in 0 .. 255 : /\ b \div 16 \in 0 .. 15 /\ b % 16 \in 0 .. 15
                          /\ 16 * (b \div 16) + (b % 16) = b
  OBVIOUS
<1>7. \A k \in 1 .. n : /\ str[2 * k - 1] = HexDigit(bytes[k] \div 16)
                        /\ str[2 * k] = HexDigit(bytes[k] % 16)
  BY <1>3, <1>5
<1>8. \A k \in 1 .. n : /\ HexValue(str[2 * k - 1]) = bytes[k] \div 16
                        /\ HexValue(str[2 * k]) = bytes[k] % 16
  BY <1>2, <1>6, <1>7, Digits, ZenonT(60)
<1>9. \A k \in 1 .. n : /\ HexValue(str[2 * k - 1]) # 16
                        /\ HexPair(str[2 * k - 1], str[2 * k]) = bytes[k]
  <2>. SUFFICES ASSUME NEW k \in 1 .. n
       PROVE  /\ HexValue(str[2 * k - 1]) # 16
              /\ HexPair(str[2 * k - 1], str[2 * k]) = bytes[k]
    OBVIOUS
  <2>1. PICK b, c, d : b = bytes[k] /\ c = str[2 * k - 1] /\ d = str[2 * k]
    OBVIOUS
  <2>2. HexValue(c) = b \div 16 /\ HexValue(d) = b % 16
    BY <1>8, <2>1
  <2>3. /\ b \div 16 \in 0 .. 15 /\ b % 16 \in 0 .. 15 /\ b \in 0 .. 255
        /\ 16 * (b \div 16) + (b % 16) = b
    BY <1>2, <1>6, <2>1
  <2>4. HexPair(c, d) = IF HexValue(d) < 16 THEN 16 * HexValue(c) + HexValue(d) ELSE HexValue(c)
    BY DEF HexPair
  <2>5. b % 16 < 16 /\ b \div 16 # 16
    BY <2>3
  <2>. QED BY <2>1, <2>2, <2>3, <2>4, <2>5
<1>10. Len(str) = 2 * n
  <2>1. PICK f, m : f = str /\ m = 2 * n
    OBVIOUS
  <2>2. m \in Nat /\ f \in [1 .. m -> {f[k] : k \in 1 .. m}]
    BY <1>2, <1>3, <2>1
  <2>3. Len(f) = m
    BY <2>2, FunctionIsSeq
  <2>. QED BY <2>1, <2>3
<1>11. (Len(str) + 1) \div 2 = n
  BY <1>2, <1>10
<1>12. from_hex(str) =
         IF \E k \in 1 .. (Len(str) + 1) \div 2 : HexValue(str[2 * k - 1]) = 16 THEN Failed
         ELSE [bytes |-> [k \in 1 .. (Len(str) + 1) \div 2 |->
                 HexPair(IF 2 * k - 1 <= Len(str) THEN str[2 * k - 1] ELSE HexDigit(0),
                         IF 2 * k <= Len(str) THEN str[2 * k] ELSE HexDigit(0))]]
  BY DEF from_hex
<1>13. PICK out : out = [k \in 1 .. (Len(str) + 1) \div 2 |->
                 HexPair(IF 2 * k - 1 <= Len(str) THEN str[2 * k - 1] ELSE HexDigit(0),
                         IF 2 * k <= Len(str) THEN str[2 * k] ELSE HexDigit(0))]
  OBVIOUS
<1>14. out = [k \in 1 .. n |->
                 HexPair(IF 2 * k - 1 <= 2 * n THEN str[2 * k - 1] ELSE HexDigit(0),
                         IF 2 * k <= 2 * n THEN str[2 * k] ELSE HexDigit(0))]
  BY <1>10, <1>11, <1>13
<1>15. \A k \in 1 .. n : out[k] = bytes[k]
  <2>1. \A k \in 1 .. n : 2 * k - 1 <= 2 * n /\ 2 * k <= 2 * n
    BY <1>2
  <2>2. \A k \in 1 .. n : out[k] = HexPair(str[2 * k - 1], str[2 * k])
    BY <1>14, <2>1
  <2>. QED BY <1>9, <2>2
<1>16. out = bytes
  BY <1>2, <1>14, <1>15
<1>17. from_hex(str) = [bytes |-> out]
  BY <1>9, <1>11, <1>12, <1>13
<1>. QED BY <1>1, <1>16, <1>17

LEMMA Tables ==
  ASSUME NEW v \in 0 .. 63, NEW url \in BOOLEAN
  PROVE  /\ tab(v, url) \in 0 .. 255 /\ tab(v, url) # Pad
         /\ IsBase64(tab(v, url)) /\ FromTab(tab(v, url)) = v
<1>1. PICK c : c = tab(v, url)
  OBVIOUS
<1>2. \/ v < 26 /\ c = 65 + v
      \/ v \in 26 .. 51 /\ c = 97 + v - 26
      \/ v \in 52 .. 61 /\ c = 48 + v - 52
      \/ v = 62 /\ c = IF url THEN 45 ELSE 43
      \/ v = 63 /\ c = IF url THEN 95 ELSE 47
  BY <1>1 DEF tab
<1>3. /\ c \in 65 .. 90 => FromTab(c) = c - 65
      /\ c \in 97 .. 122 => FromTab(c) = c + 26 - 97
      /\ c \in 48 .. 57 => FromTab(c) = c + 52 - 48
      /\ c \in {43, 45} => FromTab(c) = 62
      /\ c \in {47, 95} => FromTab(c) = 63
  BY DEF FromTab
<1>4. /\ c \in 0 .. 255 /\ c # 61
      /\ c \in 65 .. 90 \cup 97 .. 122 \cup 48 .. 57 \cup {43, 45, 47, 95}
      /\ FromTab(c) = v
  BY <1>2, <1>3
<1>. QED BY <1>1, <1>4 DEF Pad, IsBase64

(* The text of some bytes: Size(bytes) characters of the table, and        *)
(* paddings.                                                               *)
Full(bytes) == Len(bytes) \div 3
Rest(bytes) == Len(bytes) % 3
Size(bytes) == 4 * Full(bytes) + (IF Rest(bytes) = 0 THEN 0 ELSE Rest(bytes) + 1)

LEMMA Sizes ==
  ASSUME NEW bytes \in Seq(0 .. 255)
  PROVE  /\ Len(bytes) \in Nat /\ Full(bytes) \in Nat /\ Size(bytes) \in Nat
         /\ Rest(bytes) \in 0 .. 2 /\ Len(bytes) = 3 * Full(bytes) + Rest(bytes)
         /\ Size(bytes) = IF Rest(bytes) = 0 THEN 4 * Full(bytes)
                          ELSE 4 * Full(bytes) + Rest(bytes) + 1
         /\ DOMAIN bytes = 1 .. Len(bytes)
         /\ \A k \in 1 .. Len(bytes) : bytes[k] \in 0 .. 255
<1>1. /\ Len(bytes) \in Nat /\ DOMAIN bytes = 1 .. Len(bytes)
      /\ \A k \in 1 .. Len(bytes) : bytes[k] \in 0 .. 255
  BY LenProperties, ElementOfSeq
<1>2. PICK n, f, r : n = Len(bytes) /\ f = Full(bytes) /\ r = Rest(bytes)
  OBVIOUS
<1>3. f \in Nat /\ r \in 0 .. 2 /\ n = 3 * f + r
  <2>1. n \in Nat
    BY <1>1, <1>2
  <2>2. f = n \div 3 /\ r = n % 3
    BY <1>2 DEF Full, Rest
  <2>. QED BY ONLY <2>1, <2>2
<1>4. Size(bytes) = 4 * f + (IF r = 0 THEN 0 ELSE r + 1)
  BY <1>2 DEF Size
<1>5. Size(bytes) \in Nat /\ Size(bytes) = IF r = 0 THEN 4 * f ELSE 4 * f + r + 1
  BY <1>3, <1>4
<1>. QED BY <1>1, <1>2, <1>3, <1>5

(* Byte q of the group after g groups, or zero after the end.              *)
ByteOf(bytes, g, q) ==
  IF 3 * g + q <= Len(bytes) THEN bytes[3 * g + q] ELSE 0

LEMMA SextetIs ==
  ASSUME NEW bytes \in Seq(0 .. 255), NEW g \in Nat
  PROVE  /\ \A q \in 1 .. 3 : ByteOf(bytes, g, q) \in 0 .. 255
         /\ Sextet(bytes, 4 * g + 1) = ByteOf(bytes, g, 1) \div 4
         /\ Sextet(bytes, 4 * g + 2) =
              ((ByteOf(bytes, g, 1) % 4) * 16) + (ByteOf(bytes, g, 2) \div 16)
         /\ Sextet(bytes, 4 * g + 3) =
              ((ByteOf(bytes, g, 2) % 16) * 4) + (ByteOf(bytes, g, 3) \div 64)
         /\ Sextet(bytes, 4 * g + 4) = ByteOf(bytes, g, 3) % 64
<1>1. \A q \in 1 .. 3 : ByteOf(bytes, g, q) \in 0 .. 255
  <2>1. \A q \in 1 .. 3 : 3 * g + q \in Nat /\ 3 * g + q >= 1
    OBVIOUS
  <2>2. \A q \in 1 .. 3 : 3 * g + q <= Len(bytes) => 3 * g + q \in 1 .. Len(bytes)
    BY <2>1, Sizes
  <2>. QED BY <2>2, Sizes DEF ByteOf
<1>2. \A j \in 0 .. 3 : /\ (4 * g + (j + 1) - 1) \div 4 = g
                        /\ (4 * g + (j + 1) - 1) % 4 = j
  OBVIOUS
<1>3. \A k : (k - 1) \div 4 = g =>
        Sextet(bytes, k) = CASE (k - 1) % 4 = 0 -> ByteOf(bytes, g, 1) \div 4
                             [] (k - 1) % 4 = 1 -> ((ByteOf(bytes, g, 1) % 4) * 16) + (ByteOf(bytes, g, 2) \div 16)
                             [] (k - 1) % 4 = 2 -> ((ByteOf(bytes, g, 2) % 16) * 4) + (ByteOf(bytes, g, 3) \div 64)
                             [] (k - 1) % 4 = 3 -> ByteOf(bytes, g, 3) % 64
  BY DEF Sextet, ByteOf
<1>4. \A k \in Nat : (k - 1) \div 4 = g =>
        /\ (k - 1) % 4 = 0 => Sextet(bytes, k) = ByteOf(bytes, g, 1) \div 4
        /\ (k - 1) % 4 = 1 => Sextet(bytes, k) =
             ((ByteOf(bytes, g, 1) % 4) * 16) + (ByteOf(bytes, g, 2) \div 16)
        /\ (k - 1) % 4 = 2 => Sextet(bytes, k) =
             ((ByteOf(bytes, g, 2) % 16) * 4) + (ByteOf(bytes, g, 3) \div 64)
        /\ (k - 1) % 4 = 3 => Sextet(bytes, k) = ByteOf(bytes, g, 3) % 64
  BY <1>3
<1>5. /\ 4 * g + 1 \in Nat /\ (4 * g + 1 - 1) \div 4 = g /\ (4 * g + 1 - 1) % 4 = 0
      /\ 4 * g + 2 \in Nat /\ (4 * g + 2 - 1) \div 4 = g /\ (4 * g + 2 - 1) % 4 = 1
      /\ 4 * g + 3 \in Nat /\ (4 * g + 3 - 1) \div 4 = g /\ (4 * g + 3 - 1) % 4 = 2
      /\ 4 * g + 4 \in Nat /\ (4 * g + 4 - 1) \div 4 = g /\ (4 * g + 4 - 1) % 4 = 3
  OBVIOUS
<1>6. Sextet(bytes, 4 * g + 1) = ByteOf(bytes, g, 1) \div 4
  <2>1. PICK k : k = 4 * g + 1
    OBVIOUS
  <2>2. k \in Nat /\ (k - 1) \div 4 = g /\ (k - 1) % 4 = 0
    BY <1>5, <2>1
  <2>. QED BY ONLY <1>4, <2>1, <2>2
<1>7. Sextet(bytes, 4 * g + 2) =
        ((ByteOf(bytes, g, 1) % 4) * 16) + (ByteOf(bytes, g, 2) \div 16)
  <2>1. PICK k : k = 4 * g + 2
    OBVIOUS
  <2>2. k \in Nat /\ (k - 1) \div 4 = g /\ (k - 1) % 4 = 1
    BY <1>5, <2>1
  <2>. QED BY ONLY <1>4, <2>1, <2>2
<1>8. Sextet(bytes, 4 * g + 3) =
        ((ByteOf(bytes, g, 2) % 16) * 4) + (ByteOf(bytes, g, 3) \div 64)
  <2>1. PICK k : k = 4 * g + 3
    OBVIOUS
  <2>2. k \in Nat /\ (k - 1) \div 4 = g /\ (k - 1) % 4 = 2
    BY <1>5, <2>1
  <2>. QED BY ONLY <1>4, <2>1, <2>2
<1>9. Sextet(bytes, 4 * g + 4) = ByteOf(bytes, g, 3) % 64
  <2>1. PICK k : k = 4 * g + 4
    OBVIOUS
  <2>2. k \in Nat /\ (k - 1) \div 4 = g /\ (k - 1) % 4 = 3
    BY <1>5, <2>1
  <2>. QED BY ONLY <1>4, <2>1, <2>2
<1>. QED BY <1>1, <1>6, <1>7, <1>8, <1>9

LEMMA SextetIsSmall ==
  ASSUME NEW bytes \in Seq(0 .. 255), NEW k \in Nat, k >= 1
  PROVE  Sextet(bytes, k) \in 0 .. 63
<1>1. PICK g, r : g = (k - 1) \div 4 /\ r = (k - 1) % 4
  OBVIOUS
<1>2. g \in Nat /\ r \in 0 .. 3 /\ k = 4 * g + r + 1
  BY <1>1
<1>3. PICK a, b, c : a = ByteOf(bytes, g, 1) /\ b = ByteOf(bytes, g, 2) /\ c = ByteOf(bytes, g, 3)
  OBVIOUS
<1>4. a \in 0 .. 255 /\ b \in 0 .. 255 /\ c \in 0 .. 255
  <2>1. \A q \in 1 .. 3 : ByteOf(bytes, g, q) \in 0 .. 255
    BY <1>2, SextetIs
  <2>2. 1 \in 1 .. 3 /\ 2 \in 1 .. 3 /\ 3 \in 1 .. 3
    OBVIOUS
  <2>. QED BY ONLY <1>3, <2>1, <2>2
<1>5. /\ Sextet(bytes, 4 * g + 1) = a \div 4
      /\ Sextet(bytes, 4 * g + 2) = ((a % 4) * 16) + (b \div 16)
      /\ Sextet(bytes, 4 * g + 3) = ((b % 16) * 4) + (c \div 64)
      /\ Sextet(bytes, 4 * g + 4) = c % 64
  BY <1>2, <1>3, SextetIs
<1>6. /\ a \div 4 \in 0 .. 63 /\ ((a % 4) * 16) + (b \div 16) \in 0 .. 63
      /\ ((b % 16) * 4) + (c \div 64) \in 0 .. 63 /\ c % 64 \in 0 .. 63
  BY <1>4
<1>7. \/ k = 4 * g + 1 \/ k = 4 * g + 2 \/ k = 4 * g + 3 \/ k = 4 * g + 4
  BY <1>2
<1>. QED BY <1>5, <1>6, <1>7

(* What Group makes of full groups, and of those that the end cuts.        *)
SextetsOf(a, b, c) ==
  <<a \div 4, ((a % 4) * 16) + (b \div 16), ((b % 16) * 4) + (c \div 64), c % 64>>

GivesBytes(group, a, b, c) ==
  /\ Group(group, 4) = <<a, b, c>>
  /\ b = 0 /\ c = 0 => Group(group, 2) = <<a, 0>>
  /\ c = 0 => Group(group, 3) = <<a, b, 0>>

LEMMA GroupIs ==
  ASSUME NEW a \in 0 .. 255, NEW b \in 0 .. 255, NEW c \in 0 .. 255,
         NEW group, group = SextetsOf(a, b, c)
  PROVE  GivesBytes(group, a, b, c)
<1>1. PICK p, q, r, s : /\ p = a \div 4 /\ q = ((a % 4) * 16) + (b \div 16)
                        /\ r = ((b % 16) * 4) + (c \div 64) /\ s = c % 64
  OBVIOUS
<1>2. /\ ((p * 4) % 256) + (q \div 16) = a
      /\ ((q * 16) % 256) + (r \div 4) = b
      /\ ((r * 64) % 256) + s = c
  <2>1. /\ p \in Nat /\ q \in Nat /\ r \in Nat /\ s \in Nat
    BY <1>1
  <2>2. ((p * 4) % 256) + (q \div 16) = a
    <3>1. p * 4 \in 0 .. 255 /\ q \div 16 = a % 4 /\ p * 4 = a - (a % 4)
      BY <1>1
    <3>. QED BY <2>1, <3>1
  <2>3. ((q * 16) % 256) + (r \div 4) = b
    <3>1. q * 16 = 256 * (a % 4) + 16 * (b \div 16) /\ r \div 4 = b % 16
      BY <1>1
    <3>2. (q * 16) % 256 = 16 * (b \div 16)
      BY <2>1, <3>1
    <3>. QED BY <3>1, <3>2
  <2>4. ((r * 64) % 256) + s = c
    <3>1. r * 64 = 256 * (b % 16) + 64 * (c \div 64)
      BY <1>1
    <3>2. (r * 64) % 256 = 64 * (c \div 64)
      BY <2>1, <3>1
    <3>. QED BY <1>1, <3>2
  <2>. QED BY <2>2, <2>3, <2>4
<1>3. group[1] = p /\ group[2] = q /\ group[3] = r /\ group[4] = s
  BY <1>1 DEF SextetsOf
<1>4. \A j \in 2 .. 4 : Group(group, j) = SubSeq(<<a, b, c>>, 1, IF j > 3 THEN 3 ELSE j)
  <2>. SUFFICES ASSUME NEW j \in 2 .. 4
       PROVE  Group(group, j) = SubSeq(<<a, b, c>>, 1, IF j > 3 THEN 3 ELSE j)
    OBVIOUS
  <2>1. PICK x, y, z : /\ x = ((group[1] * 4) % 256) + (group[2] \div 16)
                       /\ y = ((group[2] * 16) % 256) + (group[3] \div 4)
                       /\ z = ((group[3] * 64) % 256) + group[4]
    OBVIOUS
  <2>2. Group(group, j) = SubSeq(<<x, y, z>>, 1, IF j > 3 THEN 3 ELSE j)
    BY <2>1 DEF Group
  <2>3. x = a /\ y = b /\ z = c
    BY ONLY <1>2, <1>3, <2>1
  <2>. QED BY ONLY <2>2, <2>3
<1>5. PICK t, n : t = <<a, b, c>> /\ n = 1
  OBVIOUS
<1>6. t \in Seq(0 .. 255) /\ Len(t) = 3 /\ t[1] = a /\ t[2] = b /\ t[3] = c
  BY <1>5
<1>7. SubSeq(t, 1, 3) = t
  BY <1>6, SubSeqFull
<1>8. SubSeq(t, 1, 2) = <<a, b>>
  <2>1. PICK S, m : S = 0 .. 255 /\ m = 2
    OBVIOUS
  <2>2. n \in Int /\ m \in Int /\ \A i \in n .. m : t[i] \in S
    BY <1>5, <1>6, <2>1
  <2>3. /\ SubSeq(t, n, m) \in Seq(S)
        /\ Len(SubSeq(t, n, m)) = IF n <= m THEN m - n + 1 ELSE 0
        /\ \A i \in 1 .. m - n + 1 : SubSeq(t, n, m)[i] = t[n + i - 1]
    BY ONLY <2>2, SubSeqProperties
  <2>4. Len(SubSeq(t, n, m)) = 2 /\ SubSeq(t, n, m)[1] = a /\ SubSeq(t, n, m)[2] = b
    BY <1>5, <1>6, <2>1, <2>3
  <2>5. <<a, b>> \in Seq(S) /\ Len(<<a, b>>) = 2
    BY <2>1
  <2>6. \A i \in 1 .. Len(SubSeq(t, n, m)) : SubSeq(t, n, m)[i] = <<a, b>>[i]
    <3>1. PICK v, w : v = SubSeq(t, n, m) /\ w = <<a, b>>
      OBVIOUS
    <3>2. Len(v) = 2 /\ v[1] = a /\ v[2] = b /\ w[1] = a /\ w[2] = b
      BY <2>4, <3>1
    <3>3. \A i \in 1 .. 2 : i = 1 \/ i = 2
      OBVIOUS
    <3>4. \A i \in 1 .. Len(v) : v[i] = w[i]
      BY ONLY <3>2, <3>3
    <3>. QED BY <3>1, <3>4
  <2>7. SubSeq(t, n, m) = <<a, b>>
    BY <2>3, <2>4, <2>5, <2>6, SeqEqual
  <2>. QED BY <1>5, <2>1, <2>7
<1>9. /\ Group(group, 4) = <<a, b, c>>
      /\ b = 0 /\ c = 0 => Group(group, 2) = <<a, 0>>
      /\ c = 0 => Group(group, 3) = <<a, b, 0>>
  BY <1>4, <1>5, <1>7, <1>8
<1>. QED BY ONLY <1>9 DEF GivesBytes

LEMMA TextIs ==
  ASSUME NEW bytes \in Seq(0 .. 255), NEW url \in BOOLEAN, NEW padding,
         NEW text, text = to_base64(bytes, url, padding)
  PROVE  /\ Len(text) \in Nat /\ Size(bytes) <= Len(text)
         /\ \A k \in 1 .. Size(bytes) :
              /\ text[k] = tab(Sextet(bytes, k), url)
              /\ IsBase64(text[k]) /\ text[k] # Pad
              /\ FromTab(text[k]) = Sextet(bytes, k)
         /\ \A k \in Size(bytes) + 1 .. Len(text) : text[k] = Pad
<1>1. PICK size, pads, s, p, S :
        /\ size = Size(bytes) /\ S = 0 .. 255
        /\ pads = IF padding /\ Rest(bytes) # 0 THEN 3 - Rest(bytes) ELSE 0
        /\ s = [k \in 1 .. size |-> tab(Sextet(bytes, k), url)]
        /\ p = [k \in 1 .. pads |-> Pad]
  OBVIOUS
<1>2. size \in Nat /\ pads \in Nat
  <2>1. size \in Nat /\ Rest(bytes) \in 0 .. 2
    BY <1>1, Sizes
  <2>. QED BY <1>1, <2>1
<1>3. text = s \o p
  BY <1>1 DEF to_base64, Size, Full, Rest
<1>4. \A k \in 1 .. size : /\ Sextet(bytes, k) \in 0 .. 63
                           /\ tab(Sextet(bytes, k), url) \in S
                           /\ IsBase64(tab(Sextet(bytes, k), url))
                           /\ tab(Sextet(bytes, k), url) # Pad
                           /\ FromTab(tab(Sextet(bytes, k), url)) = Sextet(bytes, k)
  <2>. SUFFICES ASSUME NEW k \in 1 .. size
       PROVE  /\ Sextet(bytes, k) \in 0 .. 63
              /\ tab(Sextet(bytes, k), url) \in S
              /\ IsBase64(tab(Sextet(bytes, k), url))
              /\ tab(Sextet(bytes, k), url) # Pad
              /\ FromTab(tab(Sextet(bytes, k), url)) = Sextet(bytes, k)
    OBVIOUS
  <2>1. k \in Nat /\ k >= 1
    BY <1>2
  <2>2. PICK v : v = Sextet(bytes, k)
    OBVIOUS
  <2>3. v \in 0 .. 63
    BY <2>1, <2>2, SextetIsSmall
  <2>4. /\ tab(v, url) \in 0 .. 255 /\ tab(v, url) # Pad
        /\ IsBase64(tab(v, url)) /\ FromTab(tab(v, url)) = v
    BY <2>3, Tables, ZenonT(60)
  <2>. QED BY <1>1, <2>2, <2>3, <2>4
<1>5. s \in [1 .. size -> S] /\ p \in [1 .. pads -> S]
  <2>1. Pad \in S
    BY <1>1 DEF Pad
  <2>. QED BY <1>1, <1>4, <2>1
<1>6. s \in Seq(S) /\ Len(s) = size /\ p \in Seq(S) /\ Len(p) = pads
  BY <1>2, <1>5, FunctionIsSeq
<1>7. /\ text \in Seq(S) /\ Len(text) = size + pads
      /\ \A k \in 1 .. size : text[k] = s[k]
      /\ \A k \in 1 .. pads : text[size + k] = p[k]
  <2>1. /\ text \in Seq(S) /\ Len(text) = Len(s) + Len(p)
        /\ \A k \in 1 .. Len(s) : text[k] = s[k]
        /\ \A k \in 1 .. Len(p) : text[Len(s) + k] = p[k]
    <3>1. s \in Seq(S) /\ p \in Seq(S)
      BY <1>6
    <3>. QED BY ONLY <1>3, <3>1, Joined
  <2>. QED BY ONLY <1>6, <2>1
<1>8. Len(text) \in Nat /\ size <= Len(text)
  BY <1>2, <1>7
<1>9. \A k \in 1 .. size : text[k] = tab(Sextet(bytes, k), url)
  BY <1>1, <1>7
<1>10. \A k \in size + 1 .. Len(text) : text[k] = Pad
  <2>. SUFFICES ASSUME NEW k \in size + 1 .. Len(text) PROVE text[k] = Pad
    OBVIOUS
  <2>1. PICK m : m = k - size
    OBVIOUS
  <2>2. m \in 1 .. pads /\ k = size + m
    BY <1>2, <1>7, <2>1
  <2>3. p[m] = Pad
    BY <1>1, <2>2
  <2>. QED BY <1>7, <2>2, <2>3
<1>. QED BY <1>1, <1>4, <1>8, <1>9, <1>10

-----------------------------------------------------------------------------
(* The loop of the decoder over such a text: so many groups are done, and  *)
(* so many characters of the next one are taken.                           *)
Base64Text(x) == to_base64(x.bytes, x.url, x.padding)

Decoded(bytes) == IF Rest(bytes) = 0 THEN bytes ELSE Append(bytes, 0)

GroupAfter(bytes, g, j) ==
  [k \in 1 .. 4 |-> IF k <= j THEN Sextet(bytes, 4 * g + k) ELSE 0]

BetweenGroups(bytes, i, out) ==
  \/ \E g \in Nat : 4 * g <= Size(bytes) /\ i = 4 * g + 1 /\ out = SubSeq(bytes, 1, 3 * g)
  \/ Rest(bytes) # 0 /\ i = Size(bytes) + 1 /\ out = Append(bytes, 0)

WithinGroup(bytes, i, j, group, out) ==
  \E g \in Nat :
    /\ j \in 0 .. 4 /\ 4 * g < Size(bytes) /\ 4 * g + j <= Size(bytes)
    /\ i = 4 * g + 1 + j
    /\ group = GroupAfter(bytes, g, j)
    /\ out = SubSeq(bytes, 1, 3 * g)

(* At the end of the text, between two groups, all of it is decoded.       *)
LEMMA EndOfText ==
  ASSUME NEW bytes \in Seq(0 .. 255), NEW i, NEW out,
         BetweenGroups(bytes, i, out), i > Size(bytes)
  PROVE  out = Decoded(bytes)
<1>1. PICK n, f, r, size : /\ n = Len(bytes) /\ f = Full(bytes)
                           /\ r = Rest(bytes) /\ size = Size(bytes)
  OBVIOUS
<1>2. /\ n \in Nat /\ f \in Nat /\ size \in Nat /\ r \in 0 .. 2 /\ n = 3 * f + r
      /\ size = IF r = 0 THEN 4 * f ELSE 4 * f + r + 1
  BY <1>1, Sizes
<1>3. CASE \E g \in Nat : 4 * g <= Size(bytes) /\ i = 4 * g + 1 /\ out = SubSeq(bytes, 1, 3 * g)
  <2>1. PICK g \in Nat : 4 * g <= size /\ i = 4 * g + 1 /\ out = SubSeq(bytes, 1, 3 * g)
    BY <1>1, <1>3
  <2>2. 4 * g + 1 > size
    BY <1>1, <2>1
  <2>3. r = 0 /\ 3 * g = n
    BY <1>2, <2>1, <2>2
  <2>4. out = bytes
    BY <1>1, <2>1, <2>3, SubSeqFull
  <2>. QED BY <1>1, <2>3, <2>4 DEF Decoded
<1>4. CASE Rest(bytes) # 0 /\ i = Size(bytes) + 1 /\ out = Append(bytes, 0)
  BY <1>4 DEF Decoded
<1>. QED BY <1>3, <1>4 DEF BetweenGroups

(* A group is started.                                                     *)
LEMMA StartOfGroup ==
  ASSUME NEW bytes \in Seq(0 .. 255), NEW i, NEW out,
         BetweenGroups(bytes, i, out), i <= Size(bytes)
  PROVE  WithinGroup(bytes, i, 0, <<0, 0, 0, 0>>, out)
<1>1. Size(bytes) \in Nat
  BY Sizes
<1>2. PICK g \in Nat : 4 * g <= Size(bytes) /\ i = 4 * g + 1 /\ out = SubSeq(bytes, 1, 3 * g)
  BY <1>1 DEF BetweenGroups
<1>3. 4 * g < Size(bytes) /\ 4 * g + 0 <= Size(bytes) /\ i = 4 * g + 1 + 0 /\ 0 \in 0 .. 4
  BY <1>1, <1>2
<1>4. <<0, 0, 0, 0>> = GroupAfter(bytes, g, 0)
  <2>1. GroupAfter(bytes, g, 0) = [k \in 1 .. 4 |-> 0]
    BY DEF GroupAfter
  <2>2. <<0, 0, 0, 0>> = [k \in 1 .. 4 |-> 0]
    OBVIOUS
  <2>. QED BY <2>1, <2>2
<1>. QED BY <1>2, <1>3, <1>4 DEF WithinGroup

(* A character is taken.                                                   *)
LEMMA CharacterTaken ==
  ASSUME NEW bytes \in Seq(0 .. 255), NEW i, NEW j, NEW group, NEW out,
         WithinGroup(bytes, i, j, group, out), i <= Size(bytes), j < 4
  PROVE  WithinGroup(bytes, i + 1, j + 1,
                     [group EXCEPT ![j + 1] = Sextet(bytes, i)], out)
<1>1. Size(bytes) \in Nat
  BY Sizes
<1>2. PICK g \in Nat :
        /\ j \in 0 .. 4 /\ 4 * g < Size(bytes) /\ 4 * g + j <= Size(bytes)
        /\ i = 4 * g + 1 + j
        /\ group = GroupAfter(bytes, g, j)
        /\ out = SubSeq(bytes, 1, 3 * g)
  BY DEF WithinGroup
<1>3. PICK h : h = j + 1
  OBVIOUS
<1>4. h \in 0 .. 4 /\ h \in 1 .. 4 /\ 4 * g + h <= Size(bytes) /\ i + 1 = 4 * g + 1 + h /\ i = 4 * g + h
  BY <1>1, <1>2, <1>3
<1>5. [group EXCEPT ![h] = Sextet(bytes, i)] = GroupAfter(bytes, g, h)
  <2>1. group = [k \in 1 .. 4 |-> IF k <= j THEN Sextet(bytes, 4 * g + k) ELSE 0]
    BY <1>2 DEF GroupAfter
  <2>2. [group EXCEPT ![h] = Sextet(bytes, i)] =
          [k \in 1 .. 4 |-> IF k = h THEN Sextet(bytes, i) ELSE group[k]]
    BY <2>1
  <2>3. \A k \in 1 .. 4 : (k <= h <=> k = h \/ k <= j) /\ (k = h => ~ k <= j)
    BY <1>2, <1>3
  <2>4. \A k \in 1 .. 4 : (IF k = h THEN Sextet(bytes, i) ELSE group[k])
                            = IF k <= h THEN Sextet(bytes, 4 * g + k) ELSE 0
    BY <1>4, <2>1, <2>3
  <2>. QED BY <2>2, <2>4 DEF GroupAfter
<1>6. WithinGroup(bytes, i + 1, h, [group EXCEPT ![h] = Sextet(bytes, i)], out)
  BY <1>2, <1>4, <1>5 DEF WithinGroup
<1>. QED BY <1>3, <1>6

(* A group is done: three bytes are appended, or two or three for the one  *)
(* or two that are left, the last of which is a zero.                      *)
LEMMA PutTogether ==
  ASSUME NEW S, NEW s \in Seq(S), NEW u \in Seq(S), NEW v \in Seq(S),
         Len(v) = Len(s) + Len(u),
         \A k \in 1 .. Len(s) : v[k] = s[k],
         \A k \in 1 .. Len(u) : v[Len(s) + k] = u[k]
  PROVE  s \o u = v
<1>1. PICK w, m, n : w = s \o u /\ m = Len(s) /\ n = Len(u)
  OBVIOUS
<1>2. /\ w \in Seq(S) /\ m \in Nat /\ n \in Nat /\ Len(w) = m + n
      /\ \A k \in 1 .. m : w[k] = s[k]
      /\ \A k \in 1 .. n : w[m + k] = u[k]
  BY <1>1, Together
<1>3. \A k \in 1 .. m + n : w[k] = v[k]
  <2>. SUFFICES ASSUME NEW k \in 1 .. m + n PROVE w[k] = v[k]
    OBVIOUS
  <2>1. CASE k <= m
    <3>1. k \in 1 .. m
      BY <1>2, <2>1
    <3>. QED BY <1>1, <1>2, <3>1
  <2>2. CASE ~ k <= m
    <3>1. PICK l : l = k - m
      OBVIOUS
    <3>2. l \in 1 .. n /\ k = m + l
      BY <1>2, <2>2, <3>1
    <3>3. w[m + l] = u[l] /\ v[m + l] = u[l]
      BY <1>1, <1>2, <3>2
    <3>. QED BY <3>2, <3>3
  <2>. QED BY <2>1, <2>2
<1>4. Len(v) = m + n
  BY <1>1
<1>. QED BY <1>1, <1>2, <1>3, <1>4, SeqEqual

LEMMA GroupDone ==
  ASSUME NEW bytes \in Seq(0 .. 255), NEW i, NEW j, NEW group, NEW out,
         WithinGroup(bytes, i, j, group, out), j = 4 \/ i > Size(bytes)
  PROVE  BetweenGroups(bytes, i, out \o Group(group, j))
<1>1. PICK g \in Nat :
        /\ j \in 0 .. 4 /\ 4 * g < Size(bytes) /\ 4 * g + j <= Size(bytes)
        /\ i = 4 * g + 1 + j
        /\ group = GroupAfter(bytes, g, j)
        /\ out = SubSeq(bytes, 1, 3 * g)
  BY DEF WithinGroup
<1>2. PICK n, f, r, size, S : /\ n = Len(bytes) /\ f = Full(bytes)
                              /\ r = Rest(bytes) /\ size = Size(bytes) /\ S = 0 .. 255
  OBVIOUS
<1>3. /\ n \in Nat /\ f \in Nat /\ size \in Nat /\ r \in 0 .. 2 /\ n = 3 * f + r
      /\ size = IF r = 0 THEN 4 * f ELSE 4 * f + r + 1
      /\ bytes \in Seq(S) /\ \A k \in 1 .. n : bytes[k] \in S
  BY <1>2, Sizes
<1>4. PICK a, b, c : a = ByteOf(bytes, g, 1) /\ b = ByteOf(bytes, g, 2) /\ c = ByteOf(bytes, g, 3)
  OBVIOUS
<1>5. a \in 0 .. 255 /\ b \in 0 .. 255 /\ c \in 0 .. 255
  <2>1. \A q \in 1 .. 3 : ByteOf(bytes, g, q) \in 0 .. 255
    BY SextetIs
  <2>2. 1 \in 1 .. 3 /\ 2 \in 1 .. 3 /\ 3 \in 1 .. 3
    OBVIOUS
  <2>. QED BY ONLY <1>4, <2>1, <2>2
<1>6. /\ Sextet(bytes, 4 * g + 1) = a \div 4
      /\ Sextet(bytes, 4 * g + 2) = ((a % 4) * 16) + (b \div 16)
      /\ Sextet(bytes, 4 * g + 3) = ((b % 16) * 4) + (c \div 64)
      /\ Sextet(bytes, 4 * g + 4) = c % 64
  BY <1>4, SextetIs
<1>7. PICK whole : whole = <<a \div 4, ((a % 4) * 16) + (b \div 16),
                             ((b % 16) * 4) + (c \div 64), c % 64>>
  OBVIOUS
<1>8. /\ Group(whole, 4) = <<a, b, c>>
      /\ b = 0 /\ c = 0 => Group(whole, 2) = <<a, 0>>
      /\ c = 0 => Group(whole, 3) = <<a, b, 0>>
  <2>1. whole = SextetsOf(a, b, c)
    BY <1>7 DEF SextetsOf
  <2>2. GivesBytes(whole, a, b, c)
    BY ONLY <1>5, <2>1, GroupIs
  <2>. QED BY <2>2 DEF GivesBytes
<1>9. group = [k \in 1 .. 4 |-> IF k <= j THEN Sextet(bytes, 4 * g + k) ELSE 0]
  BY <1>1 DEF GroupAfter
<1>10. /\ g \in Nat /\ j \in 0 .. 4 /\ 4 * g < size /\ 4 * g + j <= size
       /\ i = 4 * g + 1 + j /\ (j = 4 \/ i > size)
  BY <1>1, <1>2
<1>11. /\ n \in Nat /\ f \in Nat /\ size \in Nat /\ r \in 0 .. 2 /\ n = 3 * f + r
       /\ size = IF r = 0 THEN 4 * f ELSE 4 * f + r + 1
  BY <1>3
<1>12. 3 * g \in Nat /\ 3 * g <= n
  BY ONLY <1>10, <1>11
<1>13. out \in Seq(S) /\ Len(out) = 3 * g /\ \A k \in 1 .. 3 * g : out[k] = bytes[k]
  <2>1. PICK p, q : p = 1 /\ q = 3 * g
    OBVIOUS
  <2>2. p \in Int /\ q \in Int /\ \A k \in p .. q : bytes[k] \in S
    BY <1>3, <1>12, <2>1
  <2>3. /\ SubSeq(bytes, p, q) \in Seq(S)
        /\ Len(SubSeq(bytes, p, q)) = IF p <= q THEN q - p + 1 ELSE 0
        /\ \A k \in 1 .. q - p + 1 : SubSeq(bytes, p, q)[k] = bytes[p + k - 1]
    BY ONLY <2>2, SubSeqProperties
  <2>4. q - p + 1 = 3 * g /\ (IF p <= q THEN q - p + 1 ELSE 0) = 3 * g
    BY <1>12, <2>1
  <2>5. \A k \in 1 .. 3 * g : p + k - 1 = k
    BY <2>1
  <2>6. out = SubSeq(bytes, p, q)
    BY <1>1, <2>1
  <2>. QED BY <2>3, <2>4, <2>5, <2>6
<1>14. CASE j = 4
  <2>1. 3 * g + 3 <= n /\ 4 * (g + 1) <= size /\ i = 4 * (g + 1) + 1 /\ g + 1 \in Nat
    BY ONLY <1>14, <1>10, <1>11
  <2>2. a = bytes[3 * g + 1] /\ b = bytes[3 * g + 2] /\ c = bytes[3 * g + 3]
    BY <1>3, <1>2, <1>4, <2>1 DEF ByteOf
  <2>3. group = whole
    <3>1. /\ group = [k \in 1 .. 4 |-> Sextet(bytes, 4 * g + k)]
      BY <1>9, <1>14
    <3>2. \A k \in 1 .. 4 : k = 1 \/ k = 2 \/ k = 3 \/ k = 4
      OBVIOUS
    <3>5. /\ whole[1] = Sextet(bytes, 4 * g + 1) /\ whole[2] = Sextet(bytes, 4 * g + 2)
          /\ whole[3] = Sextet(bytes, 4 * g + 3) /\ whole[4] = Sextet(bytes, 4 * g + 4)
      BY <1>6, <1>7
    <3>3. \A k \in 1 .. 4 : Sextet(bytes, 4 * g + k) = whole[k]
      BY ONLY <3>2, <3>5
    <3>4. whole = [k \in 1 .. 4 |-> whole[k]]
      BY <1>7
    <3>. QED BY <3>1, <3>3, <3>4
  <2>4. PICK u, v : u = <<a, b, c>> /\ v = SubSeq(bytes, 1, 3 * (g + 1))
    OBVIOUS
  <2>5. u \in Seq(S) /\ Len(u) = 3 /\ u[1] = a /\ u[2] = b /\ u[3] = c
    BY <1>2, <1>5, <2>4
  <2>6. v \in Seq(S) /\ Len(v) = 3 * g + 3 /\ \A k \in 1 .. 3 * g + 3 : v[k] = bytes[k]
    <3>1. PICK p, q : p = 1 /\ q = 3 * g + 3
      OBVIOUS
    <3>2. p \in Int /\ q \in Int /\ \A k \in p .. q : bytes[k] \in S
      BY <1>3, <2>1, <3>1
    <3>3. /\ SubSeq(bytes, p, q) \in Seq(S)
          /\ Len(SubSeq(bytes, p, q)) = IF p <= q THEN q - p + 1 ELSE 0
          /\ \A k \in 1 .. q - p + 1 : SubSeq(bytes, p, q)[k] = bytes[p + k - 1]
      BY ONLY <3>2, SubSeqProperties
    <3>4. q - p + 1 = 3 * g + 3 /\ p <= q /\ 3 * (g + 1) = q
      BY <1>12, <3>1
    <3>5. \A k \in 1 .. 3 * g + 3 : p + k - 1 = k
      BY <3>1
    <3>6. v = SubSeq(bytes, p, q)
      BY <2>4, <3>1, <3>4
    <3>. QED BY <3>3, <3>4, <3>5, <3>6
  <2>7. \A k \in 1 .. 3 : v[3 * g + k] = u[k]
    <3>1. \A k \in 1 .. 3 : k = 1 \/ k = 2 \/ k = 3
      OBVIOUS
    <3>2. \A k \in 1 .. 3 : 3 * g + k \in 1 .. 3 * g + 3
      OBVIOUS
    <3>. QED BY <2>2, <2>5, <2>6, <3>1, <3>2
  <2>8. \A k \in 1 .. 3 * g : v[k] = out[k]
    BY <1>12, <1>13, <2>6
  <2>9. out \o u = v
    <3>1. /\ Len(v) = Len(out) + Len(u)
          /\ \A k \in 1 .. Len(out) : v[k] = out[k]
          /\ \A k \in 1 .. Len(u) : v[Len(out) + k] = u[k]
      BY <1>13, <2>5, <2>6, <2>7, <2>8
    <3>2. out \in Seq(S) /\ u \in Seq(S) /\ v \in Seq(S)
      BY <1>13, <2>5, <2>6
    <3>. QED BY ONLY <3>1, <3>2, PutTogether, ZenonT(60)
  <2>10. Group(group, j) = u
    BY <1>8, <1>14, <2>3, <2>4
  <2>. QED BY <1>2, <2>1, <2>4, <2>9, <2>10 DEF BetweenGroups
<1>15. CASE j # 4
  <2>1. i > size /\ i = size + 1 /\ 4 * g + j = size
    BY ONLY <1>15, <1>10, <1>11
  <2>2. g = f /\ j = r + 1 /\ (r = 1 \/ r = 2)
    BY ONLY <1>15, <1>10, <1>11, <2>1
  <2>3. n = 3 * g + r
    BY <1>3, <2>2
  <2>4. /\ a = bytes[3 * g + 1] /\ c = 0
        /\ r = 1 => b = 0
        /\ r = 2 => b = bytes[3 * g + 2]
    <3>1. 3 * g + 1 <= n /\ ~ 3 * g + 3 <= n /\ (3 * g + 2 <= n <=> r = 2)
      BY <1>3, <2>2, <2>3
    <3>. QED BY <1>2, <1>4, <2>2, <3>1 DEF ByteOf
  <2>5. group = whole
    <3>1. /\ r = 1 => ((b % 16) * 4) + (c \div 64) = 0
          /\ c % 64 = 0
      BY <2>4
    <3>2. \A k \in 1 .. 4 : k = 1 \/ k = 2 \/ k = 3 \/ k = 4
      OBVIOUS
    <3>3. whole[1] = Sextet(bytes, 4 * g + 1) /\ whole[2] = Sextet(bytes, 4 * g + 2)
      BY <1>6, <1>7
    <3>4. whole[3] = IF r = 2 THEN Sextet(bytes, 4 * g + 3) ELSE 0
      BY <1>6, <1>7, <2>2, <3>1
    <3>5. whole[4] = 0
      BY <1>7, <3>1
    <3>6. 1 <= j /\ 2 <= j /\ (3 <= j <=> r = 2) /\ ~ 4 <= j
      BY <2>2
    <3>7. \A k \in 1 .. 4 : (IF k <= j THEN Sextet(bytes, 4 * g + k) ELSE 0) = whole[k]
      BY <3>2, <3>3, <3>4, <3>5, <3>6
    <3>8. whole = [k \in 1 .. 4 |-> whole[k]]
      BY <1>7
    <3>. QED BY <1>9, <3>7, <3>8
  <2>6. PICK u, v : u = Group(group, j) /\ v = Append(bytes, 0)
    OBVIOUS
  <2>7. v \in Seq(S) /\ Len(v) = n + 1 /\ v[n + 1] = 0 /\ \A k \in 1 .. n : v[k] = bytes[k]
    <3>1. 0 \in S
      BY <1>2
    <3>2. bytes \in Seq(S)
      BY <1>3
    <3>3. /\ Append(bytes, 0) \in Seq(S) /\ Len(Append(bytes, 0)) = Len(bytes) + 1
          /\ Append(bytes, 0)[Len(bytes) + 1] = 0
          /\ \A k \in 1 .. Len(bytes) : Append(bytes, 0)[k] = bytes[k]
      BY ONLY <3>1, <3>2, AppendProperties
    <3>. QED BY <1>2, <2>6, <3>3
  <2>8. ASSUME r = 1 PROVE out \o u = v
    <3>1. u = <<a, 0>>
      BY <1>8, <2>2, <2>4, <2>5, <2>6, <2>8
    <3>2. u \in Seq(S) /\ Len(u) = 2 /\ u[1] = a /\ u[2] = 0
      BY <1>2, <1>5, <3>1
    <3>3. \A k \in 1 .. 2 : k = 1 \/ k = 2
      OBVIOUS
    <3>4. v[3 * g + 1] = a /\ v[3 * g + 2] = 0
      <4>1. 3 * g + 1 \in 1 .. n /\ 3 * g + 2 = n + 1
        BY <2>3, <2>8
      <4>. QED BY <2>4, <2>7, <4>1
    <3>5. \A k \in 1 .. 2 : v[3 * g + k] = u[k]
      BY <3>2, <3>3, <3>4
    <3>6. \A k \in 1 .. 3 * g : v[k] = out[k]
      BY <1>3, <1>12, <1>13, <2>7
    <3>7. Len(v) = 3 * g + 2
      BY <2>3, <2>7, <2>8
    <3>8. /\ Len(v) = Len(out) + Len(u)
          /\ \A k \in 1 .. Len(out) : v[k] = out[k]
          /\ \A k \in 1 .. Len(u) : v[Len(out) + k] = u[k]
      BY <1>13, <3>2, <3>5, <3>6, <3>7
    <3>9. out \in Seq(S) /\ u \in Seq(S) /\ v \in Seq(S)
      BY <1>13, <2>7, <3>2
    <3>. QED BY ONLY <3>8, <3>9, PutTogether, ZenonT(60)
  <2>9. ASSUME r = 2 PROVE out \o u = v
    <3>1. u = <<a, b, 0>>
      BY <1>8, <2>2, <2>4, <2>5, <2>6, <2>9
    <3>2. u \in Seq(S) /\ Len(u) = 3 /\ u[1] = a /\ u[2] = b /\ u[3] = 0
      BY <1>2, <1>5, <3>1
    <3>3. \A k \in 1 .. 3 : k = 1 \/ k = 2 \/ k = 3
      OBVIOUS
    <3>4. v[3 * g + 1] = a /\ v[3 * g + 2] = b /\ v[3 * g + 3] = 0
      <4>1. 3 * g + 1 \in 1 .. n /\ 3 * g + 2 \in 1 .. n /\ 3 * g + 3 = n + 1
        BY <2>3, <2>9
      <4>. QED BY <2>4, <2>7, <2>9, <4>1
    <3>5. \A k \in 1 .. 3 : v[3 * g + k] = u[k]
      BY <3>2, <3>3, <3>4
    <3>6. \A k \in 1 .. 3 * g : v[k] = out[k]
      BY <1>3, <1>12, <1>13, <2>7
    <3>7. Len(v) = 3 * g + 3
      BY <2>3, <2>7, <2>9
    <3>8. /\ Len(v) = Len(out) + Len(u)
          /\ \A k \in 1 .. Len(out) : v[k] = out[k]
          /\ \A k \in 1 .. Len(u) : v[Len(out) + k] = u[k]
      BY <1>13, <3>2, <3>5, <3>6, <3>7
    <3>9. out \in Seq(S) /\ u \in Seq(S) /\ v \in Seq(S)
      BY <1>13, <2>7, <3>2
    <3>. QED BY ONLY <3>8, <3>9, PutTogether, ZenonT(60)
  <2>10. out \o u = v
    BY <2>2, <2>8, <2>9
  <2>11. Rest(bytes) # 0 /\ i = Size(bytes) + 1
    BY <1>2, <2>1, <2>2
  <2>. QED BY <2>6, <2>10, <2>11 DEF BetweenGroups
<1>. QED BY <1>14, <1>15
-----------------------------------------------------------------------------
(* The decoder on its way through a text that to_base64 made.              *)
Locals(s) == s = [i |-> s.i, j |-> s.j, group |-> s.group, out |-> s.out]

Scanning ==
  /\ wire = Base64Text(input)
  /\ Locals(scan)
  /\ pc = "outer" => BetweenGroups(input.bytes, scan.i, scan.out)
  /\ pc = "inner" => WithinGroup(input.bytes, scan.i, scan.j, scan.group, scan.out)

TextInv ==
  /\ input \in Input
  /\ pc = "write" => scan = NoScan
  /\ pc \in {"read", "parsed"} => IsMessage(input)
  /\ pc \in {"outer", "inner"} => IsBase64Text(input)
  /\ pc \in {"outer", "inner"} /\ input.kind = "base64" => Scanning
  /\ BytesComeBack

LEMMA Base64Input ==
  ASSUME NEW x \in Input, x.kind = "base64"
  PROVE  x.bytes \in Seq(0 .. 255) /\ x.url \in BOOLEAN
  BY DEF Input

LEMMA HexInput ==
  ASSUME NEW x \in Input, x.kind = "hex"
  PROVE  x.bytes \in Seq(0 .. 255)
  BY DEF Input

LEMMA DecodedIs ==
  ASSUME NEW bytes
  PROVE  Decoded(bytes) = IF Len(bytes) % 3 = 0 THEN bytes ELSE Append(bytes, 0)
  BY DEF Decoded, Rest

(* Where the decoder is in the text, and what it finds there.              *)
LEMMA TextAt ==
  ASSUME input \in Input, input.kind = "base64", Scanning, scan.i \in Nat \ {0}
  PROVE  /\ Size(input.bytes) \in Nat /\ Len(wire) \in Nat /\ Size(input.bytes) <= Len(wire)
         /\ scan.i <= Size(input.bytes) =>
              /\ scan.i <= Len(wire) /\ wire[scan.i] # Pad /\ IsBase64(wire[scan.i])
              /\ FromTab(wire[scan.i]) = Sextet(input.bytes, scan.i)
         /\ scan.i > Size(input.bytes) /\ scan.i <= Len(wire) => wire[scan.i] = Pad
<1>1. PICK bytes, url, text, i :
        bytes = input.bytes /\ url = input.url /\ text = wire /\ i = scan.i
  OBVIOUS
<1>2. bytes \in Seq(0 .. 255) /\ url \in BOOLEAN
  BY <1>1, Base64Input
<1>3. PICK padding : padding = input.padding
  OBVIOUS
<1>4. text = to_base64(bytes, url, padding)
  BY <1>1, <1>3 DEF Scanning, Base64Text
<1>5. /\ Len(text) \in Nat /\ Size(bytes) <= Len(text)
      /\ \A k \in 1 .. Size(bytes) :
           /\ text[k] = tab(Sextet(bytes, k), url)
           /\ IsBase64(text[k]) /\ text[k] # Pad
           /\ FromTab(text[k]) = Sextet(bytes, k)
      /\ \A k \in Size(bytes) + 1 .. Len(text) : text[k] = Pad
  BY ONLY <1>2, <1>4, TextIs
<1>6. Size(bytes) \in Nat
  BY <1>2, Sizes
<1>7. i \in Nat /\ i >= 1
  BY <1>1
<1>8. ASSUME i <= Size(bytes)
      PROVE  /\ i <= Len(text) /\ text[i] # Pad /\ IsBase64(text[i])
             /\ FromTab(text[i]) = Sextet(bytes, i)
  <2>1. i \in 1 .. Size(bytes) /\ i <= Len(text)
    BY <1>5, <1>6, <1>7, <1>8
  <2>. QED BY <1>5, <2>1
<1>9. ASSUME i > Size(bytes), i <= Len(text)
      PROVE  text[i] = Pad
  <2>1. i \in Size(bytes) + 1 .. Len(text)
    BY <1>5, <1>6, <1>7, <1>9
  <2>. QED BY <1>5, <2>1
<1>. QED BY <1>1, <1>5, <1>6, <1>8, <1>9

LEMMA PlaceBetween ==
  ASSUME NEW bytes \in Seq(0 .. 255), NEW i, NEW out, BetweenGroups(bytes, i, out)
  PROVE  i \in Nat \ {0}
  BY Sizes DEF BetweenGroups

LEMMA PlaceWithin ==
  ASSUME NEW bytes \in Seq(0 .. 255), NEW i, NEW j, NEW group, NEW out,
         WithinGroup(bytes, i, j, group, out)
  PROVE  i \in Nat \ {0} /\ j \in 0 .. 4
  BY DEF WithinGroup

(* The steps of the messages leave the text alone.                         *)
LEMMA TextMessages ==
  /\ TextInv
  /\ Write \/ Damage \/ Parse \/ ParseState \/ ParseStrings \/ UNCHANGED vars
  => TextInv'
<1>. SUFFICES ASSUME TextInv,
       Write \/ Damage \/ Parse \/ ParseState \/ ParseStrings \/ UNCHANGED vars
     PROVE TextInv'
  OBVIOUS
<1>1. CASE UNCHANGED vars
  BY <1>1 DEF TextInv, Scanning, BytesComeBack, Delivered, vars
<1>2. CASE Write \/ Damage \/ Parse \/ ParseState \/ ParseStrings
  <2>1. /\ input' = input /\ pc \in {"write", "read", "parsed"}
        /\ pc' \in {"read", "parsed", "done"} /\ IsMessage(input)
    BY <1>2 DEF Write, Damage, Parse, ParseState, ParseStrings, TextInv, IsMessage
  <2>2. input.kind # "hex" /\ input.kind # "base64" /\ IsMessage(input')
    BY <2>1 DEF IsMessage
  <2>. QED BY <2>1, <2>2 DEF TextInv, BytesComeBack
<1>. QED BY <1>1, <1>2

LEMMA TextHex == TextInv /\ Hex => TextInv'
<1>. SUFFICES ASSUME TextInv, Hex PROVE TextInv'
  OBVIOUS
<1>1. /\ input' = input /\ input.kind = "hex" /\ input \in Input /\ pc' = "done"
      /\ result' = from_hex(to_hex(input.bytes))
  BY DEF Hex, TextInv
<1>2. PICK bytes : bytes = input.bytes
  OBVIOUS
<1>3. bytes \in Seq(0 .. 255)
  BY <1>1, <1>2, HexInput
<1>4. from_hex(to_hex(bytes)) = [bytes |-> bytes]
  BY ONLY <1>3, HexComesBack
<1>. QED BY <1>1, <1>2, <1>4 DEF TextInv, BytesComeBack

LEMMA TextWritten == TextInv /\ WriteText => TextInv'
<1>. SUFFICES ASSUME TextInv, WriteText PROVE TextInv'
  OBVIOUS
<1>1. /\ input' = input /\ IsBase64Text(input) /\ input \in Input /\ pc' = "outer"
      /\ scan' = scan /\ scan = NoScan
  BY DEF WriteText, TextInv
<1>2. ASSUME input.kind = "base64" PROVE Scanning'
  <2>1. wire' = Base64Text(input)
    BY <1>2 DEF WriteText, Base64Text
  <2>2. Locals(scan)
    BY <1>1 DEF Locals, NoScan
  <2>3. PICK bytes : bytes = input.bytes
    OBVIOUS
  <2>4. bytes \in Seq(0 .. 255)
    BY <1>1, <1>2, <2>3, Base64Input
  <2>5. BetweenGroups(bytes, 1, << >>)
    <3>1. Size(bytes) \in Nat
      BY <2>4, Sizes
    <3>2. 0 \in Nat /\ 4 * 0 <= Size(bytes) /\ 1 = 4 * 0 + 1
      BY <3>1
    <3>3. << >> = SubSeq(bytes, 1, 3 * 0)
      BY <2>4, SubSeqEmpty
    <3>. QED BY <3>2, <3>3 DEF BetweenGroups
  <2>6. scan.i = 1 /\ scan.out = << >>
    BY <1>1 DEF NoScan
  <2>. QED BY <1>1, <2>1, <2>2, <2>3, <2>5, <2>6 DEF Scanning
<1>. QED BY <1>1, <1>2 DEF TextInv, BytesComeBack, Delivered, IsBase64Text

(* The outer loop starts a group, or returns what it has.                  *)
LEMMA TextOuter == TextInv /\ OuterLoop => TextInv'
<1>. SUFFICES ASSUME TextInv, OuterLoop PROVE TextInv'
  OBVIOUS
<1>1. /\ input' = input /\ wire' = wire /\ damaged' = damaged /\ pc = "outer"
      /\ input \in Input /\ IsBase64Text(input)
      /\ pc' \in {"inner", "done"}
  BY DEF OuterLoop, TextInv
<1>2. ASSUME input.kind = "base64"
      PROVE  /\ pc' = "inner" => Scanning'
             /\ pc' = "done" => result' = [bytes |-> Decoded(input.bytes)]
  <2>1. Scanning /\ BetweenGroups(input.bytes, scan.i, scan.out)
    BY <1>1, <1>2 DEF TextInv, Scanning
  <2>2. PICK bytes, i, out : bytes = input.bytes /\ i = scan.i /\ out = scan.out
    OBVIOUS
  <2>3. bytes \in Seq(0 .. 255) /\ BetweenGroups(bytes, i, out)
    BY <1>1, <1>2, <2>1, <2>2, Base64Input
  <2>4. i \in Nat \ {0}
    BY ONLY <2>3, PlaceBetween
  <2>5. /\ Size(bytes) \in Nat
        /\ i <= Size(bytes) => i <= Len(wire) /\ wire[i] # Pad
        /\ i > Size(bytes) /\ i <= Len(wire) => wire[i] = Pad
    BY <1>1, <1>2, <2>1, <2>2, <2>4, TextAt
  <2>6. CASE i <= Len(wire) /\ wire[i] # Pad
    <3>1. i <= Size(bytes)
      BY <2>4, <2>5, <2>6
    <3>2. WithinGroup(bytes, i, 0, <<0, 0, 0, 0>>, out)
      BY ONLY <2>3, <3>1, StartOfGroup
    <3>3. scan' = [scan EXCEPT !.j = 0, !.group = <<0, 0, 0, 0>>] /\ pc' = "inner"
      BY <2>2, <2>6 DEF OuterLoop, NoScan
    <3>4. PICK group : group = <<0, 0, 0, 0>>
      OBVIOUS
    <3>5. scan' = [i |-> i, j |-> 0, group |-> group, out |-> out]
      BY <2>1, <2>2, <3>3, <3>4 DEF Scanning, Locals
    <3>6. scan'.i = i /\ scan'.j = 0 /\ scan'.group = group /\ scan'.out = out
      BY <3>5
    <3>7. Locals(scan')
      BY <3>5, <3>6 DEF Locals
    <3>8. Scanning'
      BY <1>1, <2>1, <2>2, <3>2, <3>3, <3>4, <3>6, <3>7 DEF Scanning
    <3>. QED BY <3>3, <3>8
  <2>7. CASE ~ (i <= Len(wire) /\ wire[i] # Pad)
    <3>1. i > Size(bytes)
      BY <2>4, <2>5, <2>7
    <3>2. out = Decoded(bytes)
      BY ONLY <2>3, <3>1, EndOfText
    <3>3. result' = [bytes |-> out] /\ pc' = "done"
      BY <2>2, <2>7 DEF OuterLoop
    <3>. QED BY <2>2, <3>2, <3>3
  <2>. QED BY <2>6, <2>7
<1>3. input.kind = "base64" /\ pc' = "done" =>
        result' = [bytes |-> IF Len(input.bytes) % 3 = 0 THEN input.bytes
                             ELSE Append(input.bytes, 0)]
  BY <1>2, DecodedIs
<1>4. input.kind # "hex"
  BY <1>1 DEF IsBase64Text
<1>5. BytesComeBack'
  BY <1>1, <1>3, <1>4 DEF BytesComeBack, Delivered
<1>. QED BY <1>1, <1>2, <1>5 DEF TextInv

(* The inner loop takes a character, or puts the bytes of the group out.   *)
LEMMA TextTaken == TextInv /\ TakeCharacter => TextInv'
<1>. SUFFICES ASSUME TextInv, TakeCharacter PROVE TextInv'
  OBVIOUS
<1>1. /\ input' = input /\ wire' = wire /\ pc = "inner" /\ pc' = "inner"
      /\ input \in Input /\ IsBase64Text(input)
      /\ scan.i <= Len(wire) /\ scan.j < 4 /\ IsBase64(wire[scan.i])
      /\ scan' = [scan EXCEPT !.group[scan.j + 1] = FromTab(wire[scan.i]),
                              !.i = @ + 1, !.j = @ + 1]
  BY DEF TakeCharacter, InnerLoopTest, TextInv
<1>2. ASSUME input.kind = "base64" PROVE Scanning'
  <2>1. Scanning /\ WithinGroup(input.bytes, scan.i, scan.j, scan.group, scan.out)
    BY <1>1, <1>2 DEF TextInv, Scanning
  <2>2. PICK bytes, i, j, group, out :
          /\ bytes = input.bytes /\ i = scan.i /\ j = scan.j
          /\ group = scan.group /\ out = scan.out
    OBVIOUS
  <2>3. bytes \in Seq(0 .. 255) /\ WithinGroup(bytes, i, j, group, out)
    BY <1>1, <1>2, <2>1, <2>2, Base64Input
  <2>4. i \in Nat \ {0} /\ j \in 0 .. 4
    BY ONLY <2>3, PlaceWithin
  <2>5. /\ Size(bytes) \in Nat
        /\ i <= Size(bytes) => FromTab(wire[i]) = Sextet(bytes, i)
        /\ i > Size(bytes) /\ i <= Len(wire) => wire[i] = Pad
    BY <1>1, <1>2, <2>1, <2>2, <2>4, TextAt
  <2>6. i <= Size(bytes)
    <3>1. ~ IsBase64(Pad)
      BY DEF IsBase64, Pad
    <3>2. ~ i > Size(bytes)
      BY <1>1, <2>2, <2>5, <3>1
    <3>. QED BY <2>4, <2>5, <3>2
  <2>7. j < 4
    BY <1>1, <2>2
  <2>8. WithinGroup(bytes, i + 1, j + 1, [group EXCEPT ![j + 1] = Sextet(bytes, i)], out)
    BY ONLY <2>3, <2>6, <2>7, CharacterTaken
  <2>9. PICK grown : grown = [group EXCEPT ![j + 1] = Sextet(bytes, i)]
    OBVIOUS
  <2>10. scan' = [i |-> i + 1, j |-> j + 1, group |-> grown, out |-> out]
    <3>1. scan = [i |-> i, j |-> j, group |-> group, out |-> out]
      BY <2>1, <2>2 DEF Scanning, Locals
    <3>2. FromTab(wire[i]) = Sextet(bytes, i)
      BY <2>5, <2>6
    <3>3. scan' = [scan EXCEPT !.group[j + 1] = Sextet(bytes, i), !.i = @ + 1, !.j = @ + 1]
      BY <1>1, <2>2, <3>2
    <3>. QED BY <2>9, <3>1, <3>3
  <2>11. scan'.i = i + 1 /\ scan'.j = j + 1 /\ scan'.group = grown /\ scan'.out = out
    BY <2>10
  <2>12. Locals(scan')
    BY <2>10, <2>11 DEF Locals
  <2>. QED BY <1>1, <2>1, <2>2, <2>8, <2>9, <2>11, <2>12 DEF Scanning
<1>. QED BY <1>1, <1>2 DEF TextInv, BytesComeBack, Delivered

LEMMA TextGroup == TextInv /\ EndGroup => TextInv'
<1>. SUFFICES ASSUME TextInv, EndGroup PROVE TextInv'
  OBVIOUS
<1>1. /\ input' = input /\ wire' = wire /\ pc = "inner" /\ pc' = "outer"
      /\ input \in Input /\ IsBase64Text(input)
      /\ scan.i <= Len(wire) /\ scan.j < 4 => wire[scan.i] = Pad
      /\ scan' = [scan EXCEPT !.out = scan.out \o Group(scan.group, scan.j)]
  BY DEF EndGroup, InnerLoopTest, TextInv
<1>2. ASSUME input.kind = "base64" PROVE Scanning'
  <2>1. Scanning /\ WithinGroup(input.bytes, scan.i, scan.j, scan.group, scan.out)
    BY <1>1, <1>2 DEF TextInv, Scanning
  <2>2. PICK bytes, i, j, group, out :
          /\ bytes = input.bytes /\ i = scan.i /\ j = scan.j
          /\ group = scan.group /\ out = scan.out
    OBVIOUS
  <2>3. bytes \in Seq(0 .. 255) /\ WithinGroup(bytes, i, j, group, out)
    BY <1>1, <1>2, <2>1, <2>2, Base64Input
  <2>4. i \in Nat \ {0} /\ j \in 0 .. 4
    BY ONLY <2>3, PlaceWithin
  <2>5. /\ Size(bytes) \in Nat
        /\ i <= Size(bytes) => i <= Len(wire) /\ wire[i] # Pad
    BY <1>1, <1>2, <2>1, <2>2, <2>4, TextAt
  <2>6. j = 4 \/ i > Size(bytes)
    <3>1. i <= Size(bytes) => ~ j < 4
      BY <1>1, <2>2, <2>5
    <3>. QED BY <2>4, <2>5, <3>1
  <2>7. BetweenGroups(bytes, i, out \o Group(group, j))
    BY ONLY <2>3, <2>6, GroupDone
  <2>8. PICK longer : longer = out \o Group(group, j)
    OBVIOUS
  <2>9. scan' = [i |-> i, j |-> j, group |-> group, out |-> longer]
    <3>1. scan = [i |-> i, j |-> j, group |-> group, out |-> out]
      BY <2>1, <2>2 DEF Scanning, Locals
    <3>2. scan' = [scan EXCEPT !.out = longer]
      BY <1>1, <2>2, <2>8
    <3>. QED BY <3>1, <3>2
  <2>10. scan'.i = i /\ scan'.j = j /\ scan'.group = group /\ scan'.out = longer
    BY <2>9
  <2>11. Locals(scan')
    BY <2>9, <2>10 DEF Locals
  <2>. QED BY <1>1, <2>1, <2>2, <2>7, <2>8, <2>10, <2>11 DEF Scanning
<1>. QED BY <1>1, <1>2 DEF TextInv, BytesComeBack, Delivered

(* No character of such a text is a white space, or one that makes the     *)
(* decoder fail.                                                           *)
LEMMA TextInvalid == TextInv /\ (MeetSpace \/ MeetInvalid) => TextInv'
<1>1. TextInv /\ MeetSpace => TextInv'
  BY TextMessages DEF MeetSpace
<1>2. ASSUME TextInv, MeetInvalid PROVE TextInv'
  <2>1. /\ input' = input /\ pc = "inner" /\ pc' = "done"
        /\ input \in Input /\ IsBase64Text(input)
        /\ scan.i <= Len(wire) /\ ~ IsBase64(wire[scan.i]) /\ wire[scan.i] # Pad
    BY <1>2 DEF MeetInvalid, InnerLoopTest, TextInv
  <2>2. input.kind # "base64"
    <3>. SUFFICES ASSUME input.kind = "base64" PROVE FALSE
      OBVIOUS
    <3>1. Scanning /\ WithinGroup(input.bytes, scan.i, scan.j, scan.group, scan.out)
      BY <1>2, <2>1 DEF TextInv, Scanning
    <3>2. PICK bytes, i, j, group, out :
            /\ bytes = input.bytes /\ i = scan.i /\ j = scan.j
            /\ group = scan.group /\ out = scan.out
      OBVIOUS
    <3>3. bytes \in Seq(0 .. 255) /\ WithinGroup(bytes, i, j, group, out)
      BY <2>1, <3>1, <3>2, Base64Input
    <3>4. i \in Nat \ {0}
      BY ONLY <3>3, PlaceWithin
    <3>5. /\ Size(bytes) \in Nat
          /\ i <= Size(bytes) => IsBase64(wire[i])
          /\ i > Size(bytes) /\ i <= Len(wire) => wire[i] = Pad
      BY <2>1, <3>1, <3>2, <3>4, TextAt
    <3>. QED BY <2>1, <3>2, <3>4, <3>5
  <2>3. input.kind # "hex"
    BY <2>1 DEF IsBase64Text
  <2>. QED BY <2>1, <2>2, <2>3 DEF TextInv, BytesComeBack
<1>. QED BY <1>1, <1>2

(* What to_hex and to_base64 write comes back from from_hex and from       *)
(* from_base64, from the latter with a zero after the bytes when the last  *)
(* group is not a full one, for bytes of any number and whether or not     *)
(* the text is padded or made for a URL.                                   *)
THEOREM CodecBytesComeBack == Spec => []BytesComeBack
<1>1. Init => TextInv
  <2>. SUFFICES ASSUME Init PROVE TextInv
    OBVIOUS
  <2>1. input \in Input /\ pc = "write" /\ scan = NoScan
    BY InputsAssumption DEF Init
  <2>. QED BY <2>1 DEF TextInv, BytesComeBack, Delivered
<1>2. TextInv /\ [Next]_vars => TextInv'
  BY TextMessages, TextHex, TextWritten, TextOuter, TextTaken, TextGroup, TextInvalid DEF Next
<1>3. TextInv => BytesComeBack
  BY DEF TextInv
<1>. QED BY <1>1, <1>2, <1>3, PTL DEF Spec

=============================================================================
