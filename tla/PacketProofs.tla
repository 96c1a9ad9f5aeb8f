---------------------------- MODULE PacketProofs -----------------------------
(***************************************************************************)
(* The checksums of the packets that the device sends in the place of the  *)
(* host are right, for every connection, every address and port and every  *)
(* payload: the loops that add up the bytes, the folds of the carries, the *)
(* byte order and the odd last byte.                                       *)
(***************************************************************************)
EXTENDS KeepalivePackets, WellFoundedInduction, TLAPS

-----------------------------------------------------------------------------
(* The loops                                                               *)

\* A set of naturals that has an element has a least one.
LEMMA LeastNatural ==
  ASSUME NEW S \in SUBSET Nat, S # {}
  PROVE  \E x \in S : \A y \in S : x <= y
<1> DEFINE less == OpToRel(<, Nat)
<1>1. IsWellFoundedOn(less, Nat) BY NatLessThanWellFounded
<1> HIDE DEF less
<1>2. PICK x \in S : \A y \in S : ~(<<y, x>> \in less) BY <1>1, WFMin
<1>3. ASSUME NEW y \in S PROVE x <= y
  <2>1. ~(y < x) BY <1>2 DEF less, OpToRel
  <2> QED BY <2>1
<1> QED BY <1>3

\* What the loop has added up after each of the first n terms.
LoopOf(terms, n, f) == f = [i \in 0 .. n |-> IF i = 0 THEN 0 ELSE f[i - 1] + terms[i]]

UpTo(terms) == CHOOSE f : LoopOf(terms, Len(terms), f)

\* What the loop leaves is what it has added up after the last term.
LEMMA AddedUpTo == ASSUME NEW t PROVE Added(t) = UpTo(t)[Len(t)]
BY DEF Added, UpTo, LoopOf

\* The loop has a value after every number of terms.
LEMMA LoopsEnd ==
  ASSUME NEW t, NEW n \in Nat
  PROVE  \E f : LoopOf(t, n, f)
<1> DEFINE S == {m \in Nat : ~\E f : LoopOf(t, m, f)}
<1>1. SUFFICES ASSUME S # {} PROVE FALSE OBVIOUS
<1>2. PICK x \in S : \A y \in S : x <= y
  <2>1. S \in SUBSET Nat OBVIOUS
  <2> HIDE DEF S
  <2> QED BY <1>1, <2>1, LeastNatural
<1>3. x \in Nat /\ ~\E f : LoopOf(t, x, f) OBVIOUS
<1>4. CASE x = 0
  <2>1. LoopOf(t, 0, [i \in 0 .. 0 |-> 0]) BY DEF LoopOf
  <2> QED BY <1>3, <1>4, <2>1
<1>5. CASE x # 0
  <2>1. x - 1 \in Nat /\ ~(x <= x - 1) BY <1>3, <1>5
  <2>2. PICK f : LoopOf(t, x - 1, f) BY <1>2, <2>1
  <2> DEFINE g == [i \in 0 .. x |-> IF i = x THEN f[x - 1] + t[x] ELSE f[i]]
  <2>3. \A i \in 0 .. x - 1 : f[i] = IF i = 0 THEN 0 ELSE f[i - 1] + t[i]
    <3>1. f = [i \in 0 .. x - 1 |-> IF i = 0 THEN 0 ELSE f[i - 1] + t[i]] BY <2>2 DEF LoopOf
    <3> QED BY <3>1, Zenon
  <2>4. ASSUME NEW i \in 0 .. x
        PROVE  g[i] = IF i = 0 THEN 0 ELSE g[i - 1] + t[i]
    <3>1. CASE i = x BY <1>3, <1>5, <3>1
    <3>2. CASE i # x BY <1>3, <1>5, <2>3, <3>2
    <3> QED BY <3>1, <3>2
  <2>5. g = [i \in 0 .. x |-> IF i = 0 THEN 0 ELSE g[i - 1] + t[i]]
    <3>1. \E h : g = [i \in 0 .. x |-> h[i]] OBVIOUS
    <3> HIDE DEF g
    <3> QED BY <2>4, <3>1
  <2>6. LoopOf(t, x, g) BY <2>5 DEF LoopOf
  <2> QED BY <1>3, <2>6
<1> QED BY <1>4, <1>5

\* The loop begins at zero and adds one term at a time.
LEMMA UpToFacts ==
  ASSUME NEW t \in Seq(Nat)
  PROVE  /\ UpTo(t)[0] = 0
         /\ \A i \in 1 .. Len(t) : UpTo(t)[i] = UpTo(t)[i - 1] + t[i]
         /\ \A i \in 0 .. Len(t) : UpTo(t)[i] \in Nat
<1> DEFINE f == UpTo(t)
           S == {m \in 0 .. Len(t) : f[m] \notin Nat}
<1>len. Len(t) \in Nat OBVIOUS
<1>1. LoopOf(t, Len(t), f)
  <2>1. \E g : LoopOf(t, Len(t), g) BY LoopsEnd, <1>len
  <2> QED BY <2>1 DEF UpTo
<1>2. f = [i \in 0 .. Len(t) |-> IF i = 0 THEN 0 ELSE f[i - 1] + t[i]] BY <1>1 DEF LoopOf
<1> HIDE DEF f
<1>3. \A i \in 0 .. Len(t) : f[i] = IF i = 0 THEN 0 ELSE f[i - 1] + t[i] BY <1>2, Zenon
<1>4. f[0] = 0 BY <1>3, <1>len
<1>5. \A i \in 1 .. Len(t) : f[i] = f[i - 1] + t[i] BY <1>3, <1>len
<1>6. S = {}
  <2>1. SUFFICES ASSUME S # {} PROVE FALSE OBVIOUS
  <2>2. S \in SUBSET Nat BY <1>len
  <2>3. PICK x \in S : \A y \in S : x <= y
    <3> HIDE DEF S
    <3> QED BY <2>1, <2>2, LeastNatural
  <2>4. x \in 0 .. Len(t) /\ f[x] \notin Nat /\ x # 0 BY <1>4
  <2>5. x - 1 \in 0 .. Len(t) /\ ~(x <= x - 1) BY <2>4, <1>len
  <2>6. f[x - 1] \in Nat BY <2>3, <2>5
  <2>7. t[x] \in Nat /\ f[x] = f[x - 1] + t[x] BY <2>4, <1>5, <1>len
  <2> QED BY <2>4, <2>6, <2>7
<1> QED BY <1>4, <1>5, <1>6 DEF f

\* The terms of one sequence are those of another from some index on.
LEMMA UpToShifted ==
  ASSUME NEW t \in Seq(Nat), NEW u \in Seq(Nat), NEW k \in Nat, k + Len(u) <= Len(t),
         \A i \in 1 .. Len(u) : t[k + i] = u[i]
  PROVE  UpTo(t)[k + Len(u)] = UpTo(t)[k] + UpTo(u)[Len(u)]
<1> DEFINE f == UpTo(t)
           g == UpTo(u)
           S == {i \in 0 .. Len(u) : f[k + i] # f[k] + g[i]}
<1>len. Len(t) \in Nat /\ Len(u) \in Nat OBVIOUS
<1>1. /\ \A i \in 1 .. Len(t) : f[i] = f[i - 1] + t[i]
      /\ \A i \in 0 .. Len(t) : f[i] \in Nat
      /\ g[0] = 0
      /\ \A i \in 1 .. Len(u) : g[i] = g[i - 1] + u[i]
      /\ \A i \in 0 .. Len(u) : g[i] \in Nat
  BY UpToFacts
<1> HIDE DEF f, g
<1>2. S = {}
  <2>1. SUFFICES ASSUME S # {} PROVE FALSE OBVIOUS
  <2>2. S \in SUBSET Nat BY <1>len
  <2>3. PICK x \in S : \A y \in S : x <= y
    <3> HIDE DEF S
    <3> QED BY <2>1, <2>2, LeastNatural
  <2>4. x \in 0 .. Len(u) /\ f[k + x] # f[k] + g[x] OBVIOUS
  <2>5. x # 0
    <3>1. k + 0 = k /\ k \in 0 .. Len(t) BY <1>len
    <3> QED BY <2>4, <3>1, <1>1
  <2> DEFINE y == x - 1
  <2>6. /\ y \in 0 .. Len(u) /\ x = y + 1 /\ ~(x <= y) /\ x \in 1 .. Len(u)
        /\ k + x \in 1 .. Len(t) /\ k + x - 1 = k + y /\ k \in 0 .. Len(t) /\ k + y \in 0 .. Len(t)
    BY <2>4, <2>5, <1>len
  <2> HIDE DEF y
  <2>7. f[k + y] = f[k] + g[y]
    <3>1. y \notin S BY <2>3, <2>6
    <3> QED BY <3>1, <2>6
  <2>8. f[k + x] = f[k + y] + t[k + x] BY <1>1, <2>6
  <2>9. x - 1 = y BY <2>6
  <2>10. g[x] = g[y] + t[k + x] BY <1>1, <2>6, <2>9
  <2>11. t[k + x] \in Nat BY <2>6, SMTT(40)
  <2>12. f[k] \in Nat /\ g[y] \in Nat BY <1>1, <2>6
  <2> QED BY <2>4, <2>7, <2>8, <2>10, <2>11, <2>12
<1> HIDE DEF S
<1>3. Len(u) \notin S BY <1>2
<1> QED BY <1>3, <1>len DEF S, f, g

\* A sum can be split anywhere.
LEMMA AddedConcat ==
  ASSUME NEW t \in Seq(Nat), NEW u \in Seq(Nat), NEW v \in Seq(Nat),
         Len(t) = Len(u) + Len(v),
         \A i \in 1 .. Len(u) : t[i] = u[i],
         \A i \in 1 .. Len(v) : t[Len(u) + i] = v[i]
  PROVE  Added(t) = Added(u) + Added(v)
<1>1. Len(t) \in Nat /\ Len(u) \in Nat /\ Len(v) \in Nat OBVIOUS
<1>2. UpTo(t)[0 + Len(u)] = UpTo(t)[0] + UpTo(u)[Len(u)]
  <2>1. ASSUME NEW i \in 1 .. Len(u) PROVE t[0 + i] = u[i]
    <3>1. 0 + i = i BY <1>1
    <3> QED BY <3>1
  <2>2. 0 + Len(u) <= Len(t) BY <1>1
  <2> QED BY <2>1, <2>2, UpToShifted
<1>3. UpTo(t)[Len(u) + Len(v)] = UpTo(t)[Len(u)] + UpTo(v)[Len(v)]
  <2>1. Len(u) + Len(v) <= Len(t) BY <1>1
  <2> QED BY <1>1, <2>1, UpToShifted
<1>4. UpTo(t)[0] = 0 /\ UpTo(u)[Len(u)] \in Nat BY <1>1, UpToFacts
<1>5. 0 + Len(u) = Len(u) BY <1>1
<1>6. UpTo(t)[Len(u)] = UpTo(u)[Len(u)] BY <1>2, <1>4, <1>5
<1> QED BY <1>3, <1>6, AddedUpTo

\* A sum of naturals is one.
LEMMA AddedType == ASSUME NEW t \in Seq(Nat) PROVE Added(t) \in Nat
<1>1. Len(t) \in 0 .. Len(t)
  <2>1. Len(t) \in Nat OBVIOUS
  <2> QED BY <2>1
<1> QED BY <1>1, AddedUpTo, UpToFacts

\* a and b are the same number read in the two byte orders, up to carries.
Swapped(a, b, k) == 256 * a = b + 65535 * k

\* Numbers that differ by the byte order only may be added up.
LEMMA SwappedAdds ==
  ASSUME NEW a \in Nat, NEW b \in Nat, NEW k \in Nat, Swapped(a, b, k),
         NEW c \in Nat, NEW d \in Nat, NEW l \in Nat, Swapped(c, d, l)
  PROVE  Swapped(a + c, b + d, k + l)
BY SMT DEF Swapped

\* What relates the terms relates the sums.
LEMMA AddedRelated ==
  ASSUME NEW t \in Seq(Nat), NEW u \in Seq(Nat), NEW v \in Seq(Nat),
         Len(u) = Len(t), Len(v) = Len(t),
         \A i \in 1 .. Len(t) : Swapped(t[i], u[i], v[i])
  PROVE  Swapped(Added(t), Added(u), Added(v))
<1> DEFINE f == UpTo(t)
           g == UpTo(u)
           h == UpTo(v)
           S == {i \in 0 .. Len(t) : ~Swapped(f[i], g[i], h[i])}
<1>len. Len(t) \in Nat OBVIOUS
<1>1. /\ f[0] = 0 /\ g[0] = 0 /\ h[0] = 0
      /\ \A i \in 1 .. Len(t) : /\ f[i] = f[i - 1] + t[i]
                               /\ g[i] = g[i - 1] + u[i]
                               /\ h[i] = h[i - 1] + v[i]
      /\ \A i \in 0 .. Len(t) : f[i] \in Nat /\ g[i] \in Nat /\ h[i] \in Nat
  BY UpToFacts
<1> HIDE DEF f, g, h
<1>2. S = {}
  <2>1. SUFFICES ASSUME S # {} PROVE FALSE OBVIOUS
  <2>2. S \in SUBSET Nat BY <1>len
  <2>3. PICK x \in S : \A y \in S : x <= y
    <3> HIDE DEF S
    <3> QED BY <2>1, <2>2, LeastNatural
  <2>4. x \in 0 .. Len(t) /\ ~Swapped(f[x], g[x], h[x]) OBVIOUS
  <2>5. x # 0
    <3>1. Swapped(0, 0, 0) BY SMT DEF Swapped
    <3> QED BY <2>4, <3>1, <1>1
  <2> DEFINE y == x - 1
  <2>6. y \in 0 .. Len(t) /\ ~(x <= y) /\ x \in 1 .. Len(t) BY <2>4, <2>5, <1>len
  <2>7. Swapped(f[y], g[y], h[y])
    <3>1. y \notin S BY <2>3, <2>6
    <3> QED BY <3>1, <2>6
  <2>8. f[x] = f[y] + t[x] /\ g[x] = g[y] + u[x] /\ h[x] = h[y] + v[x] BY <1>1, <2>6
  <2>9. t[x] \in Nat /\ u[x] \in Nat /\ v[x] \in Nat /\ Swapped(t[x], u[x], v[x])
    BY <2>6
  <2>10. f[y] \in Nat /\ g[y] \in Nat /\ h[y] \in Nat BY <1>1, <2>6
  <2> HIDE DEF y
  <2>11. Swapped(f[y] + t[x], g[y] + u[x], h[y] + v[x]) BY <2>7, <2>9, <2>10, SwappedAdds
  <2> QED BY <2>4, <2>8, <2>11
<1>3. Len(t) \in 0 .. Len(t) BY <1>len
<1>4. Swapped(f[Len(t)], g[Len(t)], h[Len(t)]) BY <1>2, <1>3
<1>5. Added(t) = f[Len(t)] /\ Added(u) = g[Len(t)] /\ Added(v) = h[Len(t)]
  BY AddedUpTo DEF f, g, h
<1> QED BY <1>4, <1>5

\* The largest number of a byte in memory, as the high byte of a word.
MaxTerm == 255 * 256

\* No carry is lost in thirty-two bits.
LEMMA AddedBound ==
  ASSUME NEW t \in Seq(Nat), \A i \in 1 .. Len(t) : t[i] <= MaxTerm
  PROVE  Added(t) <= MaxTerm * Len(t)
<1> DEFINE f == UpTo(t)
           S == {i \in 0 .. Len(t) : ~(f[i] <= MaxTerm * i)}
<1>len. Len(t) \in Nat OBVIOUS
<1>1. /\ f[0] = 0
      /\ \A i \in 1 .. Len(t) : f[i] = f[i - 1] + t[i]
      /\ \A i \in 0 .. Len(t) : f[i] \in Nat
  BY UpToFacts
<1> HIDE DEF f
<1>2. S = {}
  <2>1. SUFFICES ASSUME S # {} PROVE FALSE OBVIOUS
  <2>2. S \in SUBSET Nat BY <1>len
  <2>3. PICK x \in S : \A y \in S : x <= y
    <3> HIDE DEF S
    <3> QED BY <2>1, <2>2, LeastNatural, Zenon
  <2>4. x \in 0 .. Len(t) /\ ~(f[x] <= MaxTerm * x) OBVIOUS
  <2>5. x # 0 BY <2>4, <1>1, SMT DEF MaxTerm
  <2> DEFINE y == x - 1
  <2>6. y \in 0 .. Len(t) /\ ~(x <= y) /\ x \in 1 .. Len(t) BY <2>4, <2>5, <1>len
  <2>7. f[y] <= MaxTerm * y
    <3>1. y \notin S BY <2>3, <2>6
    <3> QED BY <3>1, <2>6
  <2>8. f[x] = f[y] + t[x] /\ f[y] \in Nat BY <1>1, <2>6
  <2>9. t[x] \in Nat /\ t[x] <= MaxTerm BY <2>6
  <2> QED BY <2>4, <2>6, <2>7, <2>8, <2>9, SMT DEF MaxTerm
<1> HIDE DEF S
<1>3. Len(t) \notin S BY <1>2
<1> QED BY <1>3, <1>len, AddedUpTo DEF S, f

\* The sum of two terms.
LEMMA AddedPair ==
  ASSUME NEW t \in Seq(Nat), Len(t) = 2
  PROVE  Added(t) = t[1] + t[2]
<1>1. 1 \in 1 .. Len(t) /\ 2 \in 1 .. Len(t) /\ 1 - 1 = 0 /\ 2 - 1 = 1 OBVIOUS
<1>2. UpTo(t)[0] = 0 BY UpToFacts
<1>3. UpTo(t)[1] = UpTo(t)[0] + t[1] /\ UpTo(t)[2] = UpTo(t)[1] + t[2] BY <1>1, UpToFacts
<1>4. t[1] \in Nat /\ t[2] \in Nat
  <2>1. t \in [1 .. Len(t) -> Nat] OBVIOUS
  <2> QED BY <1>1, <2>1
<1>5. UpTo(t)[1] = t[1] BY <1>2, <1>3, <1>4
<1> QED BY <1>3, <1>5, AddedUpTo

-----------------------------------------------------------------------------
(* The bytes of memory                                                     *)

Mem == Seq(Byte)

\* A byte is at most 255.
LEMMA ByteRange == \A b \in Byte : b \in Nat /\ b <= 255
BY DEF Byte

\* A word of sixteen bits is at most 65535.
LEMMA WordRange == \A n : n \in Word <=> n \in Nat /\ n <= 65535
<1>1. Word16 \in Nat BY SMT DEF Word16
<1>2. \A n : n \in Word <=> n \in Nat /\ n <= Word16 - 1 BY <1>1, SMT DEF Word
<1> QED BY <1>2, SMT DEF Word16

\* The terms of the two sums over the same memory, none of which is above 255 * 256.
LEMMA TermFacts ==
  ASSUME NEW m \in Mem
  PROVE  /\ LittleTerms(m) \in Seq(Nat) /\ Len(LittleTerms(m)) = Len(m)
         /\ BigTerms(m) \in Seq(Nat) /\ Len(BigTerms(m)) = Len(m)
         /\ \A i \in 1 .. Len(m) :
              /\ m[i] \in Nat /\ m[i] <= 255
              /\ LittleTerms(m)[i] = IF i % 2 = 1 THEN m[i] ELSE 256 * m[i]
              /\ BigTerms(m)[i] = IF i % 2 = 1 THEN 256 * m[i] ELSE m[i]
              /\ LittleTerms(m)[i] <= MaxTerm /\ BigTerms(m)[i] <= MaxTerm
<1>1. Len(m) \in Nat /\ \A i \in 1 .. Len(m) : m[i] \in Byte BY DEF Mem
<1>2. \A i \in 1 .. Len(m) : m[i] \in Nat /\ m[i] <= 255 BY <1>1, ByteRange
<1>3. \A i \in 1 .. Len(m) :
        /\ LittleTerms(m)[i] = IF i % 2 = 1 THEN m[i] ELSE 256 * m[i]
        /\ BigTerms(m)[i] = IF i % 2 = 1 THEN 256 * m[i] ELSE m[i]
  BY DEF LittleTerms, BigTerms
<1>4. \A i \in 1 .. Len(m) :
        /\ LittleTerms(m)[i] \in Nat /\ LittleTerms(m)[i] <= MaxTerm
        /\ BigTerms(m)[i] \in Nat /\ BigTerms(m)[i] <= MaxTerm
  BY <1>2, <1>3, SMT DEF MaxTerm
<1>5. LittleTerms(m) \in [1 .. Len(m) -> Nat] /\ BigTerms(m) \in [1 .. Len(m) -> Nat]
  <2>1. \A i \in 1 .. Len(m) :
          (IF i % 2 = 1 THEN m[i] ELSE 256 * m[i]) \in Nat
          /\ (IF i % 2 = 1 THEN 256 * m[i] ELSE m[i]) \in Nat
    BY <1>2, SMT
  <2> QED BY <2>1 DEF LittleTerms, BigTerms
<1>6. /\ LittleTerms(m) \in Seq(Nat) /\ Len(LittleTerms(m)) = Len(m)
      /\ BigTerms(m) \in Seq(Nat) /\ Len(BigTerms(m)) = Len(m)
  <2> HIDE DEF LittleTerms, BigTerms
  <2> QED BY <1>1, <1>5
<1> QED BY <1>2, <1>3, <1>4, <1>6

\* Both sums are bounded by the length of the memory.
LEMMA SumsOfMemory ==
  ASSUME NEW m \in Mem
  PROVE  /\ LittleSum(m) \in Nat /\ LittleSum(m) <= MaxTerm * Len(m)
         /\ BigSum(m) \in Nat /\ BigSum(m) <= MaxTerm * Len(m)
<1>1. LittleTerms(m) \in Seq(Nat) /\ Len(LittleTerms(m)) = Len(m) BY TermFacts
<1>2. BigTerms(m) \in Seq(Nat) /\ Len(BigTerms(m)) = Len(m) BY TermFacts
<1>3. \A i \in 1 .. Len(m) : LittleTerms(m)[i] <= MaxTerm /\ BigTerms(m)[i] <= MaxTerm BY TermFacts
<1>4. Added(LittleTerms(m)) <= MaxTerm * Len(m) BY <1>1, <1>3, AddedBound, Zenon
<1>5. Added(BigTerms(m)) <= MaxTerm * Len(m) BY <1>2, <1>3, AddedBound, Zenon
<1> QED BY <1>1, <1>2, <1>4, <1>5, AddedType DEF LittleSum, BigSum

\* Memory whose first part has an even number of bytes.
LEMMA SumsOfParts ==
  ASSUME NEW a \in Mem, NEW b \in Mem, Len(a) % 2 = 0
  PROVE  /\ a \o b \in Mem /\ Len(a \o b) = Len(a) + Len(b)
         /\ LittleSum(a \o b) = LittleSum(a) + LittleSum(b)
         /\ BigSum(a \o b) = BigSum(a) + BigSum(b)
<1> DEFINE m == a \o b
<1>1. Len(a) \in Nat /\ Len(b) \in Nat BY DEF Mem
<1>2. /\ m \in Mem /\ Len(m) = Len(a) + Len(b)
      /\ \A i \in 1 .. Len(a) : m[i] = a[i]
      /\ \A i \in 1 .. Len(b) : m[Len(a) + i] = b[i]
  BY <1>1 DEF Mem
<1> HIDE DEF m
<1>3. /\ \A i \in 1 .. Len(a) : i \in 1 .. Len(m)
      /\ \A i \in 1 .. Len(b) : Len(a) + i \in 1 .. Len(m)
      /\ \A i \in 1 .. Len(b) : (Len(a) + i) % 2 = i % 2
  <2>1. \A k \in Nat, i \in Nat : k % 2 = 0 => (k + i) % 2 = i % 2 OBVIOUS
  <2>2. \A i \in 1 .. Len(b) : (Len(a) + i) % 2 = i % 2 BY <1>1, <2>1
  <2>3. \A i \in 1 .. Len(b) : Len(a) + i \in 1 .. Len(a) + Len(b) BY <1>1
  <2>4. \A i \in 1 .. Len(a) : i \in 1 .. Len(a) + Len(b) BY <1>1
  <2> QED BY <1>2, <2>2, <2>3, <2>4
<1>4. ASSUME NEW i \in 1 .. Len(a)
      PROVE  LittleTerms(m)[i] = LittleTerms(a)[i] /\ BigTerms(m)[i] = BigTerms(a)[i]
  <2>1. m[i] = a[i] /\ i \in 1 .. Len(m) BY <1>2, <1>3
  <2> QED BY <2>1, Zenon DEF LittleTerms, BigTerms
<1>5. ASSUME NEW i \in 1 .. Len(b)
      PROVE  LittleTerms(m)[Len(a) + i] = LittleTerms(b)[i]
             /\ BigTerms(m)[Len(a) + i] = BigTerms(b)[i]
  <2>1. m[Len(a) + i] = b[i] /\ Len(a) + i \in 1 .. Len(m) /\ (Len(a) + i) % 2 = i % 2
    BY <1>2, <1>3
  <2> QED BY <2>1, Zenon DEF LittleTerms, BigTerms
<1>6. /\ LittleTerms(m) \in Seq(Nat) /\ BigTerms(m) \in Seq(Nat)
      /\ LittleTerms(a) \in Seq(Nat) /\ BigTerms(a) \in Seq(Nat)
      /\ LittleTerms(b) \in Seq(Nat) /\ BigTerms(b) \in Seq(Nat)
      /\ Len(LittleTerms(m)) = Len(m) /\ Len(BigTerms(m)) = Len(m)
      /\ Len(LittleTerms(a)) = Len(a) /\ Len(BigTerms(a)) = Len(a)
      /\ Len(LittleTerms(b)) = Len(b) /\ Len(BigTerms(b)) = Len(b)
  BY <1>2, TermFacts
<1>7. Added(LittleTerms(m)) = Added(LittleTerms(a)) + Added(LittleTerms(b))
  <2> DEFINE s == LittleTerms(m)
             u == LittleTerms(a)
             v == LittleTerms(b)
  <2>1. s \in Seq(Nat) /\ u \in Seq(Nat) /\ v \in Seq(Nat) BY <1>6
  <2>2. Len(s) = Len(u) + Len(v) BY <1>2, <1>6
  <2>3. \A i \in 1 .. Len(u) : s[i] = u[i] BY <1>4, <1>6
  <2>4. \A i \in 1 .. Len(v) : s[Len(u) + i] = v[i] BY <1>5, <1>6
  <2> HIDE DEF s, u, v
  <2>5. Added(s) = Added(u) + Added(v) BY <2>1, <2>2, <2>3, <2>4, AddedConcat
  <2> QED BY <2>5 DEF s, u, v
<1>8. Added(BigTerms(m)) = Added(BigTerms(a)) + Added(BigTerms(b))
  <2> DEFINE s == BigTerms(m)
             u == BigTerms(a)
             v == BigTerms(b)
  <2>1. s \in Seq(Nat) /\ u \in Seq(Nat) /\ v \in Seq(Nat) BY <1>6
  <2>2. Len(s) = Len(u) + Len(v) BY <1>2, <1>6
  <2>3. \A i \in 1 .. Len(u) : s[i] = u[i] BY <1>4, <1>6
  <2>4. \A i \in 1 .. Len(v) : s[Len(u) + i] = v[i] BY <1>5, <1>6
  <2> HIDE DEF s, u, v
  <2>5. Added(s) = Added(u) + Added(v) BY <2>1, <2>2, <2>3, <2>4, AddedConcat
  <2> QED BY <2>5 DEF s, u, v
<1> QED BY <1>2, <1>7, <1>8 DEF m, LittleSum, BigSum

\* The byte order does not matter for what the receiver checks.
LEMMA ByteOrder ==
  ASSUME NEW m \in Mem
  PROVE  \E k \in Nat : Swapped(LittleSum(m), BigSum(m), k)
<1> DEFINE v == [i \in 1 .. Len(m) |-> IF i % 2 = 1 THEN 0 ELSE m[i]]
<1>1. Len(m) \in Nat BY DEF Mem
<1>2. v \in Seq(Nat) /\ Len(v) = Len(m)
  <2>1. v \in [1 .. Len(m) -> Nat] BY TermFacts
  <2> HIDE DEF v
  <2> QED BY <1>1, <2>1
<1>3. ASSUME NEW i \in 1 .. Len(m)
      PROVE  Swapped(LittleTerms(m)[i], BigTerms(m)[i], v[i])
  BY TermFacts, SMT DEF Swapped
<1> HIDE DEF v
<1>4. Swapped(Added(LittleTerms(m)), Added(BigTerms(m)), Added(v))
  BY <1>2, <1>3, TermFacts, AddedRelated
<1> QED BY <1>2, <1>4, AddedType DEF LittleSum, BigSum

\* The sums of two bytes.
LEMMA PairSums ==
  ASSUME NEW x \in Byte, NEW y \in Byte
  PROVE  /\ <<x, y>> \in Mem /\ Len(<<x, y>>) = 2
         /\ LittleSum(<<x, y>>) = x + 256 * y
         /\ BigSum(<<x, y>>) = 256 * x + y
<1>1. <<x, y>> \in Mem /\ Len(<<x, y>>) = 2 /\ <<x, y>>[1] = x /\ <<x, y>>[2] = y BY DEF Mem
<1>2. 1 % 2 = 1 /\ 2 % 2 = 0 OBVIOUS
<1>3. /\ LittleTerms(<<x, y>>)[1] = x /\ LittleTerms(<<x, y>>)[2] = 256 * y
      /\ BigTerms(<<x, y>>)[1] = 256 * x /\ BigTerms(<<x, y>>)[2] = y
  BY <1>1, <1>2, TermFacts
<1> QED BY <1>1, <1>3, TermFacts, AddedPair DEF LittleSum, BigSum

\* A word stored in either order is read back in that order.
LEMMA WordInMemory ==
  ASSUME NEW n \in Word
  PROVE  /\ Big(n) \in Mem /\ Len(Big(n)) = 2 /\ BigSum(Big(n)) = n
         /\ 256 * Big(n)[1] + Big(n)[2] = n
         /\ Little(n) \in Mem /\ Len(Little(n)) = 2 /\ LittleSum(Little(n)) = n
<1>1. n \in Nat /\ n <= 65535 BY WordRange
<1>2. n \div 256 \in Byte /\ n % 256 \in Byte /\ n = 256 * (n \div 256) + (n % 256)
  BY <1>1, SMT DEF Byte
<1> DEFINE x == n \div 256
           y == n % 256
<1>3. x \in Byte /\ y \in Byte /\ n = 256 * x + y BY <1>2
<1>4. Big(n) = <<x, y>> /\ Little(n) = <<y, x>> BY DEF Big, Little
<1> HIDE DEF x, y
<1>5. x \in Nat /\ y \in Nat BY <1>3, ByteRange
<1> QED BY <1>3, <1>4, <1>5, PairSums

-----------------------------------------------------------------------------
(* The folds                                                               *)

\* ip_cksum folds the carries into sixteen bits twice and no more.  That is enough
\* for every sum of thirty-two bits: with the checksum the sum is a multiple of
\* 65535, as the receiver wants it, and the checksum of a sum that is not zero is
\* never 65535, the other zero of the ones' complement.
THEOREM FoldingTwiceIsEnough ==
  ASSUME NEW sum \in Nat, sum < Word16 * Word16
  PROVE  /\ Fold(sum) \in 0 .. Word16 - 1
         /\ (sum + Fold(sum)) % 65535 = 0
         /\ sum > 0 => sum + Fold(sum) > 0 /\ Fold(sum) < Word16 - 1
<1> DEFINE h == sum \div Word16
           l == sum % Word16
           once == h + l
           r == once + (once \div Word16)
<1>1. h \in Nat /\ l \in Nat /\ h < Word16 /\ l < Word16 /\ sum = Word16 * h + l BY SMT DEF Word16
<1>2. Fold(sum) = 65535 - (r % Word16) BY SMT DEF Fold, Not16
<1> HIDE DEF h, l
<1>3. once \in Nat /\ once < 2 * Word16 - 1 BY <1>1, SMT DEF Word16
<1>4. sum > 0 => once > 0 BY <1>1, SMT DEF Word16
<1>5. ASSUME NEW f \in Nat, f < Word16 PROVE f \in 0 .. Word16 - 1
  <2>1. Word16 \in Nat BY SMT DEF Word16
  <2> QED BY <1>5, <2>1, SMT
<1>6. CASE once < Word16
  <2>1. once \div Word16 = 0 BY <1>1, <1>6, SMT DEF Word16
  <2>2. r % Word16 = once BY <1>1, <1>6, <2>1, SMT DEF Word16
  <2>3. sum + Fold(sum) = 65535 * (h + 1) BY <1>1, <1>2, <2>2, SMT DEF Word16
  <2>4. (65535 * (h + 1)) % 65535 = 0 BY <1>1, SMT
  <2>5. Fold(sum) = 65535 - once BY <1>2, <2>2, SMT
  <2>6. (sum + Fold(sum)) % 65535 = 0 BY <2>3, <2>4, SMT
  <2>7. 65535 - once \in Nat /\ 65535 - once < Word16 BY <1>6, <1>3, SMT DEF Word16
  <2>8. Fold(sum) \in 0 .. Word16 - 1 BY <1>6, <1>3, <1>5, <2>5, <2>7, SMT
  <2>9. sum > 0 => sum + Fold(sum) > 0 /\ Fold(sum) < Word16 - 1
    BY <1>6, <1>3, <1>4, <2>5, SMT DEF Word16
  <2> QED BY <2>6, <2>8, <2>9
<1>7. CASE once >= Word16
  <2>1. once \div Word16 = 1 BY <1>1, <1>7, SMT DEF Word16
  <2>2. r % Word16 = once + 1 - Word16 BY <1>1, <1>7, <2>1, SMT DEF Word16
  <2>3. sum + Fold(sum) = 65535 * (h + 2) BY <1>1, <1>2, <2>2, SMT DEF Word16
  <2>4. (65535 * (h + 2)) % 65535 = 0 BY <1>1, SMT
  <2>5. Fold(sum) = 65535 - (once + 1 - Word16) BY <1>2, <2>2, SMT
  <2>6. (sum + Fold(sum)) % 65535 = 0 BY <2>3, <2>4, SMT
  <2>7. 65535 - (once + 1 - Word16) \in Nat /\ 65535 - (once + 1 - Word16) < Word16 - 1
    BY <1>7, <1>3, SMT DEF Word16
  <2>8. 65535 - (once + 1 - Word16) < Word16 BY <2>7, <1>3, SMT DEF Word16
  <2>9. Fold(sum) \in 0 .. Word16 - 1 BY <2>8, <1>5, <2>5, <2>7, SMT
  <2>10. sum > 0 => sum + Fold(sum) > 0 /\ Fold(sum) < Word16 - 1
    BY <1>3, <2>5, <2>7, SMT DEF Word16
  <2> QED BY <2>6, <2>9, <2>10
<1>8. once < Word16 \/ once >= Word16 BY <1>1, SMT DEF Word16
<1> QED BY <1>6, <1>7, <1>8

\* cylpa_checksum_finish goes on until no carry is left.
Finishes(f) == f = [sum \in Nat |-> IF sum \div Word16 = 0 THEN Not16(sum)
                                   ELSE f[(sum % Word16) + (sum \div Word16)]]

\* A round of the loop of cylpa_checksum_finish leaves a smaller number, with the
\* same remainder.
LEMMA FoldOnce ==
  ASSUME NEW x \in Nat
  PROVE  /\ x \div Word16 = 0 => x < Word16 /\ Not16(x) = 65535 - x
         /\ x \div Word16 # 0 =>
              LET y == (x % Word16) + (x \div Word16) IN
              /\ y \in Nat /\ y > 0 /\ y < x
              /\ \E h \in Nat : x = y + 65535 * h
<1> DEFINE h == x \div Word16
           l == x % Word16
<1>1. h \in Nat /\ l \in Nat /\ l < Word16 /\ x = Word16 * h + l BY SMT DEF Word16
<1>2. h = 0 => x < Word16 /\ Not16(x) = 65535 - x
  <2>1. h = 0 => l = x BY <1>1, SMT DEF Word16
  <2> QED BY <1>1, <2>1 DEF Not16
<1> HIDE DEF h, l
<1>3. h # 0 => l + h \in Nat /\ l + h > 0 /\ l + h < x /\ x = (l + h) + 65535 * h
  BY <1>1, SMT DEF Word16
<1>4. h # 0 => \E k \in Nat : x = (l + h) + 65535 * k BY <1>1, <1>3, SMT
<1> QED BY <1>2, <1>3, <1>4, SMT DEF h, l

\* What it computes, in one step.
LEMMA FinishEnds == Finishes(Finish)
<1> DEFINE f == [sum \in Nat |-> IF sum = 0 THEN 65535 ELSE 65534 - ((sum - 1) % 65535)]
<1>1. ASSUME NEW x \in Nat
      PROVE  f[x] = IF x \div Word16 = 0 THEN Not16(x)
                    ELSE f[(x % Word16) + (x \div Word16)]
  <2>1. CASE x \div Word16 = 0
    <3>1. x < 65536 /\ Not16(x) = 65535 - x BY <2>1, FoldOnce, SMT DEF Word16
    <3>2. f[x] = 65535 - x BY <3>1, SMT
    <3> HIDE DEF f
    <3> QED BY <2>1, <3>1, <3>2, SMT
  <2>2. CASE x \div Word16 # 0
    <3> DEFINE y == (x % Word16) + (x \div Word16)
    <3>1. y \in Nat /\ y > 0 /\ y < x BY <2>2, FoldOnce
    <3>2. PICK h \in Nat : x = y + 65535 * h BY <2>2, FoldOnce
    <3> HIDE DEF y
    <3>3. (x - 1) % 65535 = (y - 1) % 65535 BY <3>1, <3>2, SMT
    <3>4. x # 0 /\ y # 0 BY <3>1, SMT
    <3>5. f[x] = 65534 - ((x - 1) % 65535) BY <3>4, SMT
    <3>6. f[y] = 65534 - ((y - 1) % 65535) BY <3>1, <3>4, SMT
    <3>7. f[x] = f[y] BY <3>3, <3>5, <3>6, SMT
    <3> HIDE DEF f
    <3> QED BY <2>2, <3>7, Zenon DEF y
  <2> QED BY <2>1, <2>2
<1>2. Finishes(f)
  <2>1. f = [x \in Nat |-> f[x]] BY SMT
  <2> HIDE DEF f
  <2> QED BY <1>1, <2>1, Zenon DEF Finishes
<1> HIDE DEF f
<1>3. Finish = CHOOSE g : Finishes(g) BY DEF Finish, Finishes
<1> QED BY <1>2, <1>3, Zenon

\* With its checksum added, a sum is a multiple of 65535; only a sum of zero has the
\* checksum of all ones.
LEMMA FinishCompletes ==
  ASSUME NEW sum \in Nat
  PROVE  /\ Finish[sum] \in Word
         /\ (sum + Finish[sum]) % 65535 = 0
         /\ sum > 0 => Finish[sum] # 65535
<1> DEFINE Good(x) == /\ Finish[x] \in Word
                      /\ (x + Finish[x]) % 65535 = 0
                      /\ x > 0 => Finish[x] # 65535
           S == {x \in Nat : ~Good(x)}
<1>1. ASSUME NEW x \in Nat
      PROVE  Finish[x] = IF x \div Word16 = 0 THEN Not16(x)
                         ELSE Finish[(x % Word16) + (x \div Word16)]
  BY FinishEnds, Zenon DEF Finishes
<1>2. S = {}
  <2>1. SUFFICES ASSUME S # {} PROVE FALSE OBVIOUS
  <2>2. S \in SUBSET Nat OBVIOUS
  <2>3. PICK x \in S : \A y \in S : x <= y
    <3> HIDE DEF S
    <3> QED BY <2>1, <2>2, LeastNatural
  <2>4. x \in Nat /\ ~Good(x) OBVIOUS
  <2>5. CASE x \div Word16 = 0
    <3>1. x < 65536 /\ Finish[x] = 65535 - x BY <1>1, <2>4, <2>5, FoldOnce, SMT DEF Word16
    <3>2. 65535 - x \in Word /\ (x + (65535 - x)) % 65535 = 0 /\ (x > 0 => 65535 - x # 65535)
      BY <2>4, <3>1, WordRange, SMT
    <3> QED BY <2>4, <3>1, <3>2, SMT
  <2>6. CASE x \div Word16 # 0
    <3> DEFINE y == (x % Word16) + (x \div Word16)
    <3>1. y \in Nat /\ y > 0 /\ y < x BY <2>4, <2>6, FoldOnce
    <3>2. PICK h \in Nat : x = y + 65535 * h BY <2>4, <2>6, FoldOnce
    <3>3. Finish[x] = Finish[y] BY <1>1, <2>4, <2>6, SMT
    <3> HIDE DEF y
    <3>4. Good(y)
      <4>1. ~(x <= y) BY <2>4, <3>1
      <4> QED BY <2>3, <3>1, <4>1
    <3>5. Finish[y] \in Nat BY <3>4, WordRange
    <3>6. (x + Finish[y]) % 65535 = 0 BY <3>1, <3>2, <3>4, <3>5, SMT
    <3> QED BY <2>4, <3>1, <3>3, <3>4, <3>6, SMT
  <2> QED BY <2>5, <2>6
<1>3. Good(sum) BY <1>2
<1> QED BY <1>3
-----------------------------------------------------------------------------
(* The packets                                                             *)

\* Memory that verifies in the byte order of the host verifies in that of the network.
LEMMA LittleVerifies ==
  ASSUME NEW m \in Mem, LittleSum(m) % 65535 = 0, BigSum(m) > 0
  PROVE  Verifies(m)
<1>1. PICK k \in Nat : Swapped(LittleSum(m), BigSum(m), k) BY ByteOrder
<1>2. LittleSum(m) \in Nat /\ BigSum(m) \in Nat BY SumsOfMemory
<1>3. BigSum(m) % 65535 = 0 BY <1>1, <1>2, SMT DEF Swapped
<1> QED BY <1>3 DEF Verifies

\* An address is four bytes.
LEMMA AddressInMemory == ASSUME NEW a \in Address PROVE a \in Mem /\ Len(a) = 4
<1>1. \A n \in Nat : \A f \in [1 .. n -> Byte] : f \in Seq(Byte) /\ Len(f) = n OBVIOUS
<1>2. 4 \in Nat OBVIOUS
<1> QED BY <1>1, <1>2, Zenon DEF Address, Mem

\* Four bytes are memory.
LEMMA FourBytes ==
  ASSUME NEW w \in Byte, NEW x \in Byte, NEW y \in Byte, NEW z \in Byte
  PROVE  <<w, x, y, z>> \in Mem /\ Len(<<w, x, y, z>>) = 4
BY DEF Mem

\* The bytes of what is put together.
LEMMA Elements ==
  ASSUME NEW a \in Mem, NEW b \in Mem
  PROVE  /\ \A i \in 1 .. Len(a) : (a \o b)[i] = a[i]
         /\ \A i \in 1 .. Len(b) : (a \o b)[Len(a) + i] = b[i]
BY DEF Mem

\* A header with a checksum field after its first half.
LEMMA HeaderVerifies ==
  ASSUME NEW pseudo \in Mem, NEW before \in Mem, NEW after \in Mem, NEW sum,
         Len(pseudo) % 2 = 0, Len(before) % 2 = 0,
         Len(pseudo) + Len(before) + Len(after) <= 100,
         BigSum(pseudo) + BigSum(before) > 0,
         sum = Fold(LittleSum(pseudo) + LittleSum(before) + LittleSum(after))
  PROVE  /\ sum \in Word
         /\ before \o Little(sum) \o after \in Mem
         /\ Verifies(pseudo \o (before \o Little(sum) \o after))
<1> DEFINE total == LittleSum(pseudo) + LittleSum(before) + LittleSum(after)
           m == before \o Little(sum) \o after
<1>1. /\ Len(pseudo) \in Nat /\ Len(before) \in Nat /\ Len(after) \in Nat BY DEF Mem
<1>2. /\ LittleSum(pseudo) \in Nat /\ LittleSum(pseudo) <= MaxTerm * Len(pseudo)
      /\ LittleSum(before) \in Nat /\ LittleSum(before) <= MaxTerm * Len(before)
      /\ LittleSum(after) \in Nat /\ LittleSum(after) <= MaxTerm * Len(after)
      /\ BigSum(pseudo) \in Nat /\ BigSum(before) \in Nat /\ BigSum(after) \in Nat
  BY SumsOfMemory
<1>3. total \in Nat /\ total < Word16 * Word16 BY <1>1, <1>2, SMTT(40) DEF Word16, MaxTerm
<1>4. sum \in Word /\ (total + sum) % 65535 = 0 BY <1>3, FoldingTwiceIsEnough DEF Word
<1>5. Little(sum) \in Mem /\ Len(Little(sum)) = 2 /\ LittleSum(Little(sum)) = sum
  BY <1>4, WordInMemory
<1>6. /\ before \o Little(sum) \in Mem /\ Len(before \o Little(sum)) = Len(before) + 2
      /\ LittleSum(before \o Little(sum)) = LittleSum(before) + sum
      /\ BigSum(before \o Little(sum)) = BigSum(before) + BigSum(Little(sum))
  <2>1. /\ before \o Little(sum) \in Mem
        /\ Len(before \o Little(sum)) = Len(before) + Len(Little(sum))
        /\ LittleSum(before \o Little(sum)) = LittleSum(before) + LittleSum(Little(sum))
        /\ BigSum(before \o Little(sum)) = BigSum(before) + BigSum(Little(sum))
    BY <1>5, SumsOfParts, Zenon
  <2> QED BY <1>5, <2>1, Zenon
<1>7. Len(before \o Little(sum)) % 2 = 0
  <2>1. (Len(before) + 2) % 2 = 0 BY <1>1
  <2> QED BY <1>6, <2>1, Zenon
<1>8. /\ m \in Mem
      /\ LittleSum(m) = LittleSum(before) + sum + LittleSum(after)
      /\ BigSum(m) = BigSum(before) + BigSum(Little(sum)) + BigSum(after)
  <2>1. /\ m \in Mem
        /\ LittleSum(m) = LittleSum(before \o Little(sum)) + LittleSum(after)
        /\ BigSum(m) = BigSum(before \o Little(sum)) + BigSum(after)
    BY <1>6, <1>7, SumsOfParts, Zenon
  <2> QED BY <1>6, <2>1, Zenon
<1> HIDE DEF m
<1>9. /\ pseudo \o m \in Mem
      /\ LittleSum(pseudo \o m) = LittleSum(pseudo) + LittleSum(m)
      /\ BigSum(pseudo \o m) = BigSum(pseudo) + BigSum(m)
  BY <1>8, SumsOfParts
<1>10. BigSum(Little(sum)) \in Nat BY <1>5, SumsOfMemory
<1>11. sum \in Nat BY <1>4, WordRange
<1>12. LittleSum(pseudo \o m) = total + sum BY <1>2, <1>8, <1>9, <1>11
<1>13. BigSum(pseudo \o m) > 0 BY <1>2, <1>8, <1>9, <1>10, SMTT(40)
<1>14. Verifies(pseudo \o m) BY <1>4, <1>9, <1>12, <1>13, LittleVerifies
<1> QED BY <1>4, <1>8, <1>14 DEF m

\* Memory may be put together in any order of grouping.
LEMMA Regrouped ==
  ASSUME NEW x \in Mem, NEW y \in Mem
  PROVE  x \o y \in Mem /\ \A z \in Mem : x \o (y \o z) = (x \o y) \o z
BY DEF Mem

\* Nothing before it.
LEMMA NoMemory == <<>> \in Mem /\ Len(<<>>) = 0 /\ LittleSum(<<>>) = 0 /\ BigSum(<<>>) = 0
<1>1. <<>> \in Mem /\ Len(<<>>) = 0 BY DEF Mem
<1>2. MaxTerm * 0 = 0 BY DEF MaxTerm
<1>3. /\ LittleSum(<<>>) \in Nat /\ LittleSum(<<>>) <= MaxTerm * Len(<<>>)
      /\ BigSum(<<>>) \in Nat /\ BigSum(<<>>) <= MaxTerm * Len(<<>>)
  BY <1>1, SumsOfMemory
<1> QED BY <1>1, <1>2, <1>3

\* The constants of the headers are bytes and words.
LEMMA SmallNumbers ==
  \A n \in 0 .. 255 : n \in Byte /\ n \in Word
BY WordRange DEF Byte

\* An IPv4 header verifies.
LEMMA IpVerifies ==
  ASSUME NEW size \in Word, NEW id \in Word, NEW ttl \in Byte, NEW prot \in Byte,
         NEW src \in Address, NEW dst \in Address
  PROVE  Verifies(Ipv4Header(size, id, ttl, prot, src, dst))
<1> DEFINE b1 == <<69, 0>>
           b2 == b1 \o Big(size)
           b3 == b2 \o Big(id)
           last == <<0, 0, ttl, prot>>
           before == b3 \o last
           after == src \o dst
           sum == Ipv4HdrCksum(before, after)
<1>1. b1 \in Mem /\ Len(b1) = 2 /\ BigSum(b1) \in Nat /\ BigSum(b1) > 0
  <2>1. 69 \in Byte /\ 0 \in Byte BY DEF Byte
  <2>2. BigSum(b1) = 256 * 69 + 0 BY <2>1, PairSums
  <2> QED BY <2>1, <2>2, PairSums
<1>2. /\ Big(size) \in Mem /\ Len(Big(size)) = 2 /\ BigSum(Big(size)) \in Nat
      /\ Big(id) \in Mem /\ Len(Big(id)) = 2 /\ BigSum(Big(id)) \in Nat
  BY WordInMemory, SumsOfMemory
<1>3. last \in Mem /\ Len(last) = 4
  <2>1. 0 \in Byte BY DEF Byte
  <2> QED BY <2>1, FourBytes
<1>4. /\ src \in Mem /\ Len(src) = 4 /\ dst \in Mem /\ Len(dst) = 4 BY AddressInMemory
<1> HIDE DEF b1, last
<1>5. /\ b2 \in Mem /\ Len(b2) = 4
      /\ BigSum(b2) = BigSum(b1) + BigSum(Big(size))
  <2>1. Len(b1) % 2 = 0 BY <1>1, <1>2
  <2>2. /\ b2 \in Mem /\ Len(b2) = Len(b1) + Len(Big(size))
        /\ BigSum(b2) = BigSum(b1) + BigSum(Big(size))
    BY <1>1, <1>2, <2>1, SumsOfParts, Zenon
  <2> QED BY <1>1, <1>2, <2>2
<1> HIDE DEF b2
<1>6. /\ b3 \in Mem /\ Len(b3) = 6
      /\ BigSum(b3) = BigSum(b2) + BigSum(Big(id))
  <2>1. Len(b2) % 2 = 0 BY <1>2, <1>5
  <2>2. /\ b3 \in Mem /\ Len(b3) = Len(b2) + Len(Big(id))
        /\ BigSum(b3) = BigSum(b2) + BigSum(Big(id))
    BY <1>2, <1>5, <2>1, SumsOfParts, Zenon
  <2> QED BY <1>2, <1>5, <2>2
<1> HIDE DEF b3
<1>7. /\ before \in Mem /\ Len(before) = 10
      /\ BigSum(before) = BigSum(b3) + BigSum(last)
  <2>1. Len(b3) % 2 = 0 BY <1>3, <1>6
  <2>2. /\ before \in Mem /\ Len(before) = Len(b3) + Len(last)
        /\ BigSum(before) = BigSum(b3) + BigSum(last)
    BY <1>3, <1>6, <2>1, SumsOfParts, Zenon
  <2> QED BY <1>3, <1>6, <2>2
<1>8. BigSum(last) \in Nat BY <1>3, SumsOfMemory
<1>9. BigSum(before) > 0 BY <1>1, <1>2, <1>5, <1>6, <1>7, <1>8
<1>10. /\ after \in Mem /\ Len(after) = 8
  <2>1. Len(src) % 2 = 0 BY <1>4
  <2>2. /\ after \in Mem /\ Len(after) = Len(src) + Len(dst)
    BY <1>4, <2>1, SumsOfParts, Zenon
  <2> QED BY <1>4, <2>2
<1> HIDE DEF before
<1>11. LittleSum(before) \in Nat /\ LittleSum(after) \in Nat /\ BigSum(before) \in Nat
  BY <1>7, <1>10, SumsOfMemory
<1>12. sum = Fold(LittleSum(<<>>) + LittleSum(before) + LittleSum(after))
  <2>1. LittleSum(<<>>) + LittleSum(before) + LittleSum(after)
          = LittleSum(before) + LittleSum(after)
    BY <1>11, NoMemory
  <2> QED BY <2>1 DEF Ipv4HdrCksum
<1> HIDE DEF sum, after
<1>13. /\ sum \in Word
       /\ before \o Little(sum) \o after \in Mem
       /\ Verifies(<<>> \o (before \o Little(sum) \o after))
  <2>1. 0 % 2 = 0 /\ 10 % 2 = 0 /\ 0 + 10 + 8 <= 100 OBVIOUS
  <2>2. BigSum(<<>>) + BigSum(before) > 0 BY <1>9, <1>11, NoMemory
  <2> QED BY <1>7, <1>10, <1>12, <2>1, <2>2, NoMemory, HeaderVerifies
<1>14. <<>> \o (before \o Little(sum) \o after) = before \o Little(sum) \o after
  BY <1>13 DEF Mem
<1>15. before \o Little(sum) \o after = before \o Little(sum) \o src \o dst
  <2>1. Little(sum) \in Mem BY <1>13, WordInMemory
  <2>2. before \o Little(sum) \in Mem BY <1>7, <2>1, Regrouped
  <2> DEFINE a == before \o Little(sum)
  <2>3. a \in Mem BY <2>2
  <2> HIDE DEF a
  <2>4. a \o (src \o dst) = (a \o src) \o dst BY <1>4, <2>3, Regrouped
  <2> QED BY <2>4 DEF a, after
<1>16. Ipv4Header(size, id, ttl, prot, src, dst) = before \o Little(sum) \o src \o dst
  BY DEF Ipv4Header, before, b3, b2, b1, last, sum, after
<1> QED BY <1>13, <1>14, <1>15, <1>16

\* The pseudo header has an even length, and its sum is that of what it names.
LEMMA PseudoFacts ==
  ASSUME NEW src \in Address, NEW dst \in Address, NEW prot \in Byte, NEW size \in Word
  PROVE  /\ PseudoHeader(src, dst, prot, size) \in Mem
         /\ Len(PseudoHeader(src, dst, prot, size)) = 12
         /\ BigSum(PseudoHeader(src, dst, prot, size)) = BigSum(dst) + BigSum(src) + prot + size
<1> DEFINE d1 == dst \o src
           d2 == d1 \o <<0, prot>>
           d3 == d2 \o Big(size)
<1>1. src \in Mem /\ Len(src) = 4 /\ dst \in Mem /\ Len(dst) = 4 BY AddressInMemory
<1>2. /\ <<0, prot>> \in Mem /\ Len(<<0, prot>>) = 2 /\ BigSum(<<0, prot>>) = prot
      /\ Big(size) \in Mem /\ Len(Big(size)) = 2 /\ BigSum(Big(size)) = size
  <2>1. 0 \in Byte /\ prot \in Nat BY ByteRange DEF Byte
  <2>2. BigSum(<<0, prot>>) = 256 * 0 + prot BY <2>1, PairSums
  <2>3. BigSum(<<0, prot>>) = prot BY <2>1, <2>2
  <2> QED BY <2>1, <2>3, PairSums, WordInMemory
<1>3. /\ d1 \in Mem /\ Len(d1) = 8
      /\ BigSum(d1) = BigSum(dst) + BigSum(src)
  <2>1. Len(dst) % 2 = 0 BY <1>1
  <2>2. /\ d1 \in Mem /\ Len(d1) = Len(dst) + Len(src)
        /\ BigSum(d1) = BigSum(dst) + BigSum(src)
    BY <1>1, <2>1, SumsOfParts, Zenon
  <2> QED BY <1>1, <2>2
<1> HIDE DEF d1
<1>4. /\ d2 \in Mem /\ Len(d2) = 10
      /\ BigSum(d2) = BigSum(d1) + BigSum(<<0, prot>>)
  <2>1. Len(d1) % 2 = 0 BY <1>2, <1>3
  <2>2. /\ d2 \in Mem /\ Len(d2) = Len(d1) + Len(<<0, prot>>)
        /\ BigSum(d2) = BigSum(d1) + BigSum(<<0, prot>>)
    BY <1>2, <1>3, <2>1, SumsOfParts, Zenon
  <2> QED BY <1>2, <1>3, <2>2
<1> HIDE DEF d2
<1>5. /\ d3 \in Mem /\ Len(d3) = 12
      /\ BigSum(d3) = BigSum(d2) + BigSum(Big(size))
  <2>1. Len(d2) % 2 = 0 BY <1>2, <1>4
  <2>2. /\ d3 \in Mem /\ Len(d3) = Len(d2) + Len(Big(size))
        /\ BigSum(d3) = BigSum(d2) + BigSum(Big(size))
    BY <1>2, <1>4, <2>1, SumsOfParts, Zenon
  <2> QED BY <1>2, <1>4, <2>2
<1> HIDE DEF d3
<1>6. PseudoHeader(src, dst, prot, size) = d3 BY DEF PseudoHeader, d1, d2, d3
<1> QED BY <1>2, <1>3, <1>4, <1>5, <1>6

\* The header of a segment verifies, and has the number it was given.
LEMMA TcpVerifies ==
  ASSUME NEW s \in SegmentType, NEW seq \in Word \X Word
  PROVE  /\ TcpHeader(s, seq).mem \in Mem
         /\ Verifies(PseudoHeader(s.src, s.dst, 6, 20) \o TcpHeader(s, seq).mem)
         /\ Number(TcpHeader(s, seq).mem, 5) = seq
<1> DEFINE d1 == Big(s.sport)
           d2 == d1 \o Big(s.dport)
           d3 == d2 \o Big(seq[1])
           d4 == d3 \o Big(seq[2])
           d5 == d4 \o Big(s.ack[1])
           d6 == d5 \o Big(s.ack[2])
           d7 == d6 \o <<80, 16>>
           d8 == d7 \o Big(s.win)
           pseudo == PseudoHeader(s.src, s.dst, 6, 20)
           sum == TcpHdrCksum(s.src, s.dst, d8, <<0, 0>>)
           mem == d8 \o Little(sum) \o <<0, 0>>
<1>1. /\ s.src \in Address /\ s.dst \in Address /\ s.sport \in Word /\ s.dport \in Word
      /\ s.ack[1] \in Word /\ s.ack[2] \in Word /\ s.win \in Word
      /\ seq[1] \in Word /\ seq[2] \in Word /\ seq = <<seq[1], seq[2]>>
  BY DEF SegmentType
<1>2. \A n \in Word : Big(n) \in Mem /\ Len(Big(n)) = 2 /\ 256 * Big(n)[1] + Big(n)[2] = n
  BY WordInMemory
<1>3. /\ <<80, 16>> \in Mem /\ Len(<<80, 16>>) = 2
      /\ <<0, 0>> \in Mem /\ Len(<<0, 0>>) = 2
  <2>1. 80 \in Byte /\ 16 \in Byte /\ 0 \in Byte BY DEF Byte
  <2> QED BY <2>1, PairSums
<1>4. d1 \in Mem /\ Len(d1) = 2 BY <1>1, <1>2
<1> HIDE DEF d1
<1>5. d2 \in Mem /\ Len(d2) = 4
  <2>1. Big(s.dport) \in Mem /\ Len(Big(s.dport)) = 2 BY <1>1, <1>2, <1>3
  <2>2. Len(d1) % 2 = 0 BY <1>4
  <2>3. d2 \in Mem /\ Len(d2) = Len(d1) + Len(Big(s.dport))
    BY <1>4, <2>1, <2>2, SumsOfParts, Zenon
  <2>4. /\ \A i \in 1 .. Len(d1) : d2[i] = d1[i]
        /\ \A i \in 1 .. Len(Big(s.dport)) : d2[Len(d1) + i] = Big(s.dport)[i]
    BY <1>4, <2>1, Elements, Zenon
  <2> HIDE DEF d2
  <2> QED BY <1>4, <2>1, <2>3, <2>4
<1> HIDE DEF d2
<1>6. /\ d3 \in Mem /\ Len(d3) = 6
      /\ d3[5] = Big(seq[1])[1] /\ d3[6] = Big(seq[1])[2]
  <2>1. Big(seq[1]) \in Mem /\ Len(Big(seq[1])) = 2 BY <1>1, <1>2, <1>3
  <2>2. Len(d2) % 2 = 0 BY <1>5
  <2>3. d3 \in Mem /\ Len(d3) = Len(d2) + Len(Big(seq[1]))
    BY <1>5, <2>1, <2>2, SumsOfParts, Zenon
  <2>4. /\ \A i \in 1 .. Len(d2) : d3[i] = d2[i]
        /\ \A i \in 1 .. Len(Big(seq[1])) : d3[Len(d2) + i] = Big(seq[1])[i]
    BY <1>5, <2>1, Elements, Zenon
  <2> HIDE DEF d3
  <2> QED BY <1>5, <2>1, <2>3, <2>4
<1> HIDE DEF d3
<1>7. /\ d4 \in Mem /\ Len(d4) = 8
      /\ d4[5] = d3[5] /\ d4[6] = d3[6] /\ d4[7] = Big(seq[2])[1] /\ d4[8] = Big(seq[2])[2]
  <2>1. Big(seq[2]) \in Mem /\ Len(Big(seq[2])) = 2 BY <1>1, <1>2, <1>3
  <2>2. Len(d3) % 2 = 0 BY <1>6
  <2>3. d4 \in Mem /\ Len(d4) = Len(d3) + Len(Big(seq[2]))
    BY <1>6, <2>1, <2>2, SumsOfParts, Zenon
  <2>4. /\ \A i \in 1 .. Len(d3) : d4[i] = d3[i]
        /\ \A i \in 1 .. Len(Big(seq[2])) : d4[Len(d3) + i] = Big(seq[2])[i]
    BY <1>6, <2>1, Elements, Zenon
  <2> HIDE DEF d4
  <2> QED BY <1>6, <2>1, <2>3, <2>4
<1> HIDE DEF d4
<1>8. /\ d5 \in Mem /\ Len(d5) = 10
      /\ d5[5] = d4[5] /\ d5[6] = d4[6] /\ d5[7] = d4[7] /\ d5[8] = d4[8]
  <2>1. Big(s.ack[1]) \in Mem /\ Len(Big(s.ack[1])) = 2 BY <1>1, <1>2, <1>3
  <2>2. Len(d4) % 2 = 0 BY <1>7
  <2>3. d5 \in Mem /\ Len(d5) = Len(d4) + Len(Big(s.ack[1]))
    BY <1>7, <2>1, <2>2, SumsOfParts, Zenon
  <2>4. /\ \A i \in 1 .. Len(d4) : d5[i] = d4[i]
        /\ \A i \in 1 .. Len(Big(s.ack[1])) : d5[Len(d4) + i] = Big(s.ack[1])[i]
    BY <1>7, <2>1, Elements, Zenon
  <2> HIDE DEF d5
  <2> QED BY <1>7, <2>1, <2>3, <2>4
<1> HIDE DEF d5
<1>9. /\ d6 \in Mem /\ Len(d6) = 12
      /\ d6[5] = d5[5] /\ d6[6] = d5[6] /\ d6[7] = d5[7] /\ d6[8] = d5[8]
  <2>1. Big(s.ack[2]) \in Mem /\ Len(Big(s.ack[2])) = 2 BY <1>1, <1>2, <1>3
  <2>2. Len(d5) % 2 = 0 BY <1>8
  <2>3. d6 \in Mem /\ Len(d6) = Len(d5) + Len(Big(s.ack[2]))
    BY <1>8, <2>1, <2>2, SumsOfParts, Zenon
  <2>4. /\ \A i \in 1 .. Len(d5) : d6[i] = d5[i]
        /\ \A i \in 1 .. Len(Big(s.ack[2])) : d6[Len(d5) + i] = Big(s.ack[2])[i]
    BY <1>8, <2>1, Elements, Zenon
  <2> HIDE DEF d6
  <2> QED BY <1>8, <2>1, <2>3, <2>4
<1> HIDE DEF d6
<1>10. /\ d7 \in Mem /\ Len(d7) = 14
      /\ d7[5] = d6[5] /\ d7[6] = d6[6] /\ d7[7] = d6[7] /\ d7[8] = d6[8]
  <2>1. <<80, 16>> \in Mem /\ Len(<<80, 16>>) = 2 BY <1>1, <1>2, <1>3
  <2>2. Len(d6) % 2 = 0 BY <1>9
  <2>3. d7 \in Mem /\ Len(d7) = Len(d6) + Len(<<80, 16>>)
    BY <1>9, <2>1, <2>2, SumsOfParts, Zenon
  <2>4. /\ \A i \in 1 .. Len(d6) : d7[i] = d6[i]
        /\ \A i \in 1 .. Len(<<80, 16>>) : d7[Len(d6) + i] = <<80, 16>>[i]
    BY <1>9, <2>1, Elements, Zenon
  <2> HIDE DEF d7
  <2> QED BY <1>9, <2>1, <2>3, <2>4
<1> HIDE DEF d7
<1>11. /\ d8 \in Mem /\ Len(d8) = 16
      /\ d8[5] = d7[5] /\ d8[6] = d7[6] /\ d8[7] = d7[7] /\ d8[8] = d7[8]
  <2>1. Big(s.win) \in Mem /\ Len(Big(s.win)) = 2 BY <1>1, <1>2, <1>3
  <2>2. Len(d7) % 2 = 0 BY <1>10
  <2>3. d8 \in Mem /\ Len(d8) = Len(d7) + Len(Big(s.win))
    BY <1>10, <2>1, <2>2, SumsOfParts, Zenon
  <2>4. /\ \A i \in 1 .. Len(d7) : d8[i] = d7[i]
        /\ \A i \in 1 .. Len(Big(s.win)) : d8[Len(d7) + i] = Big(s.win)[i]
    BY <1>10, <2>1, Elements, Zenon
  <2> HIDE DEF d8
  <2> QED BY <1>10, <2>1, <2>3, <2>4
<1> HIDE DEF d8
<1>12. pseudo \in Mem /\ Len(pseudo) = 12 /\ BigSum(pseudo) > 0
  <2>1. 6 \in Byte /\ 20 \in Word BY SmallNumbers
  <2>2. BigSum(s.src) \in Nat /\ BigSum(s.dst) \in Nat BY <1>1, AddressInMemory, SumsOfMemory
  <2> QED BY <1>1, <2>1, <2>2, PseudoFacts
<1>13. sum = Fold(LittleSum(pseudo) + LittleSum(d8) + LittleSum(<<0, 0>>))
  <2>1. Len(d8) + 2 + Len(<<0, 0>>) = 20 BY <1>3, <1>11
  <2> QED BY <2>1, Zenon DEF TcpHdrCksum
<1> HIDE DEF pseudo, sum
<1>14. sum \in Word /\ mem \in Mem /\ Verifies(pseudo \o mem)
  <2>1. BigSum(d8) \in Nat /\ BigSum(pseudo) \in Nat BY <1>11, <1>12, SumsOfMemory
  <2>2. BigSum(pseudo) + BigSum(d8) > 0 BY <1>12, <2>1
  <2>3. /\ Len(pseudo) % 2 = 0 /\ Len(d8) % 2 = 0
        /\ Len(pseudo) + Len(d8) + Len(<<0, 0>>) <= 100
    BY <1>3, <1>11, <1>12
  <2> QED BY <1>3, <1>11, <1>12, <1>13, <2>2, <2>3, HeaderVerifies
<1>15. mem[5] = d8[5] /\ mem[6] = d8[6] /\ mem[7] = d8[7] /\ mem[8] = d8[8]
  <2> DEFINE e == d8 \o Little(sum)
  <2>1. Little(sum) \in Mem /\ Len(Little(sum)) = 2 BY <1>14, WordInMemory
  <2>2. e \in Mem BY <1>11, <2>1, Regrouped
  <2>3. Len(e) = 18
    <3>1. Len(d8) % 2 = 0 BY <1>11
    <3>2. Len(e) = Len(d8) + Len(Little(sum)) BY <1>11, <2>1, <3>1, SumsOfParts, Zenon
    <3> QED BY <1>11, <2>1, <3>2
  <2>4. \A i \in 1 .. Len(d8) : e[i] = d8[i] BY <1>11, <2>1, Elements, Zenon
  <2> HIDE DEF e
  <2>5. \A i \in 1 .. Len(e) : (e \o <<0, 0>>)[i] = e[i] BY <1>3, <2>2, Elements, Zenon
  <2> DEFINE f == e \o <<0, 0>>
  <2>6. f = mem BY DEF e
  <2> HIDE DEF f, mem
  <2>7. \A i \in 1 .. Len(e) : f[i] = e[i] BY <2>5 DEF f
  <2> QED BY <1>11, <2>3, <2>4, <2>6, <2>7
<1>16. TcpHeader(s, seq).mem = mem BY DEF TcpHeader, d1, d2, d3, d4, d5, d6, d7, d8, sum
<1> HIDE DEF mem
<1>17. /\ mem[5] = Big(seq[1])[1] /\ mem[6] = Big(seq[1])[2]
       /\ mem[7] = Big(seq[2])[1] /\ mem[8] = Big(seq[2])[2]
  BY <1>6, <1>7, <1>8, <1>9, <1>10, <1>11, <1>15
<1>18. Number(mem, 5) = <<seq[1], seq[2]>>
  <2>1. 5 + 1 = 6 /\ 5 + 2 = 7 /\ 5 + 3 = 8 OBVIOUS
  <2>2. /\ 256 * Big(seq[1])[1] + Big(seq[1])[2] = seq[1]
        /\ 256 * Big(seq[2])[1] + Big(seq[2])[2] = seq[2]
    BY <1>1, <1>2
  <2> QED BY <1>17, <2>1, <2>2 DEF Number
<1> QED BY <1>1, <1>14, <1>16, <1>18 DEF pseudo

\* A payload may have an odd number of bytes.
LEMMA DatagramVerifies ==
  ASSUME NEW d \in DatagramType, Len(d.payload) <= MaxPayload
  PROVE  LET p == NkoPrepPacket(d) IN
         /\ Verifies(p.ip)
         /\ Verifies(PseudoHeader(d.src, d.dst, 17, Len(p.udp)) \o p.udp)
         /\ <<p.udp[7], p.udp[8]>> # <<0, 0>>
<1> DEFINE size == 8 + Len(d.payload)
           h1 == Big(d.sport)
           h2 == h1 \o Big(d.dport)
           h3 == h2 \o Big(size)
           blank == h3 \o <<0, 0>>
           asked == blank \o d.payload
           addresses == d.src \o d.dst
           total == BigSum(asked) + BigSum(addresses) + 17 + Len(asked)
           sum == UdpCksum(d.src, d.dst, asked)
           filled == h3 \o Big(sum)
           udp == filled \o d.payload
           pseudo == PseudoHeader(d.src, d.dst, 17, size)
<1>1. /\ d.src \in Address /\ d.dst \in Address /\ d.sport \in Word /\ d.dport \in Word
      /\ d.payload \in Mem
  BY DEF DatagramType, Mem
<1>2. Len(d.payload) \in Nat /\ Len(d.payload) <= 127 BY <1>1 DEF Mem, MaxPayload
<1>3. size \in Nat /\ size <= 135 /\ size \in Word /\ 20 + size \in Word
  BY <1>2, WordRange
<1>4. /\ Big(d.sport) \in Mem /\ Len(Big(d.sport)) = 2
      /\ Big(d.dport) \in Mem /\ Len(Big(d.dport)) = 2
      /\ Big(size) \in Mem /\ Len(Big(size)) = 2
      /\ <<0, 0>> \in Mem /\ Len(<<0, 0>>) = 2 /\ BigSum(<<0, 0>>) = 0
  <2>1. 0 \in Byte BY DEF Byte
  <2>2. BigSum(<<0, 0>>) = 256 * 0 + 0 BY <2>1, PairSums
  <2> QED BY <1>1, <1>3, <2>1, <2>2, PairSums, WordInMemory
<1>5. /\ d.src \in Mem /\ Len(d.src) = 4 /\ d.dst \in Mem /\ Len(d.dst) = 4
  BY <1>1, AddressInMemory
<1> HIDE DEF size
<1>6. h1 \in Mem /\ Len(h1) = 2 BY <1>4
<1> HIDE DEF h1
<1>7. /\ h2 \in Mem /\ Len(h2) = 4
  <2>1. Len(h1) % 2 = 0 BY <1>4, <1>6
  <2>2. /\ h2 \in Mem /\ Len(h2) = Len(h1) + Len(Big(d.dport))
    BY <1>4, <1>6, <2>1, SumsOfParts, Zenon
  <2> QED BY <1>4, <1>6, <2>2
<1> HIDE DEF h2
<1>8. /\ h3 \in Mem /\ Len(h3) = 6
  <2>1. Len(h2) % 2 = 0 BY <1>4, <1>7
  <2>2. /\ h3 \in Mem /\ Len(h3) = Len(h2) + Len(Big(size))
    BY <1>4, <1>7, <2>1, SumsOfParts, Zenon
  <2> QED BY <1>4, <1>7, <2>2
<1> HIDE DEF h3
<1>9. /\ blank \in Mem /\ Len(blank) = 8
      /\ BigSum(blank) = BigSum(h3) + BigSum(<<0, 0>>)
  <2>1. Len(h3) % 2 = 0 BY <1>4, <1>8
  <2>2. /\ blank \in Mem /\ Len(blank) = Len(h3) + Len(<<0, 0>>)
        /\ BigSum(blank) = BigSum(h3) + BigSum(<<0, 0>>)
    BY <1>4, <1>8, <2>1, SumsOfParts, Zenon
  <2> QED BY <1>4, <1>8, <2>2
<1> HIDE DEF blank
<1>10. /\ asked \in Mem /\ Len(asked) = size
       /\ BigSum(asked) = BigSum(blank) + BigSum(d.payload)
  <2>1. Len(blank) % 2 = 0 BY <1>9
  <2>2. /\ asked \in Mem /\ Len(asked) = Len(blank) + Len(d.payload)
        /\ BigSum(asked) = BigSum(blank) + BigSum(d.payload)
    BY <1>1, <1>9, <2>1, SumsOfParts, Zenon
  <2> QED BY <1>9, <1>2, <2>2 DEF size
<1> HIDE DEF asked
<1>11. /\ addresses \in Mem /\ Len(addresses) = 8
       /\ BigSum(addresses) = BigSum(d.src) + BigSum(d.dst)
  <2>1. Len(d.src) % 2 = 0 BY <1>5
  <2>2. /\ addresses \in Mem /\ Len(addresses) = Len(d.src) + Len(d.dst)
        /\ BigSum(addresses) = BigSum(d.src) + BigSum(d.dst)
    BY <1>5, <2>1, SumsOfParts, Zenon
  <2> QED BY <1>5, <2>2
<1> HIDE DEF addresses
<1>12. /\ BigSum(h3) \in Nat /\ BigSum(d.payload) \in Nat
       /\ BigSum(d.src) \in Nat /\ BigSum(d.dst) \in Nat
  <2>1. \A m \in Mem : BigSum(m) \in Nat BY SumsOfMemory
  <2> QED BY <1>1, <1>5, <1>8, <2>1, Zenon
<1>13. total = BigSum(h3) + BigSum(d.payload) + BigSum(d.src) + BigSum(d.dst) + 17 + size
  BY <1>3, <1>4, <1>9, <1>10, <1>11, <1>12
<1>14. total \in Nat BY <1>3, <1>12, <1>13
<1>15. sum = IF Finish[total] = 0 THEN 65535 ELSE Finish[total]
  BY SMT DEF UdpCksum, addresses
<1> HIDE DEF total, sum
<1>16. sum \in Word /\ sum # 0 /\ (total + sum) % 65535 = 0
  <2>1. Finish[total] \in Word /\ (total + Finish[total]) % 65535 = 0
    BY <1>14, FinishCompletes
  <2>2. CASE Finish[total] = 0
    <3>1. sum = 65535 /\ total % 65535 = 0 BY <1>14, <1>15, <2>1, <2>2, SMT
    <3>2. (total + 65535) % 65535 = 0 BY <1>14, <3>1, SMT
    <3> QED BY <3>1, <3>2, WordRange, SMT
  <2>3. CASE Finish[total] # 0 BY <1>15, <2>1, <2>3, SMT
  <2> QED BY <2>2, <2>3
<1>17. /\ Big(sum) \in Mem /\ Len(Big(sum)) = 2 /\ BigSum(Big(sum)) = sum
       /\ 256 * Big(sum)[1] + Big(sum)[2] = sum /\ sum \in Nat
  BY <1>16, WordInMemory, WordRange
<1>18. /\ filled \in Mem /\ Len(filled) = 8
       /\ BigSum(filled) = BigSum(h3) + BigSum(Big(sum))
  <2>1. Len(h3) % 2 = 0 BY <1>8, <1>17
  <2>2. /\ filled \in Mem /\ Len(filled) = Len(h3) + Len(Big(sum))
        /\ BigSum(filled) = BigSum(h3) + BigSum(Big(sum))
    BY <1>8, <1>17, <2>1, SumsOfParts, Zenon
  <2> QED BY <1>8, <1>17, <2>2
<1>19. filled[7] = Big(sum)[1] /\ filled[8] = Big(sum)[2]
  <2>1. \A i \in 1 .. Len(Big(sum)) : filled[Len(h3) + i] = Big(sum)[i]
    BY <1>8, <1>17, Elements, Zenon
  <2> HIDE DEF filled
  <2> QED BY <1>8, <1>17, <2>1
<1> HIDE DEF filled
<1>20. /\ udp \in Mem /\ Len(udp) = size
       /\ BigSum(udp) = BigSum(filled) + BigSum(d.payload)
  <2>1. Len(filled) % 2 = 0 BY <1>18
  <2>2. /\ udp \in Mem /\ Len(udp) = Len(filled) + Len(d.payload)
        /\ BigSum(udp) = BigSum(filled) + BigSum(d.payload)
    BY <1>1, <1>18, <2>1, SumsOfParts, Zenon
  <2> QED BY <1>18, <1>2, <2>2 DEF size
<1>21. udp[7] = filled[7] /\ udp[8] = filled[8]
  <2>1. \A i \in 1 .. Len(filled) : udp[i] = filled[i]
    BY <1>1, <1>18, Elements, Zenon
  <2> HIDE DEF udp
  <2> QED BY <1>18, <2>1
<1> HIDE DEF udp
<1>22. /\ pseudo \in Mem /\ Len(pseudo) = 12
       /\ BigSum(pseudo) = BigSum(d.dst) + BigSum(d.src) + 17 + size
  <2>1. 17 \in Byte BY SmallNumbers
  <2> QED BY <1>1, <1>3, <2>1, PseudoFacts
<1> HIDE DEF pseudo
<1>23. Verifies(pseudo \o udp)
  <2>1. Len(pseudo) % 2 = 0 BY <1>22
  <2>2. BigSum(pseudo \o udp) = BigSum(pseudo) + BigSum(udp)
    BY <1>20, <1>22, <2>1, SumsOfParts, Zenon
  <2>3. BigSum(udp) = BigSum(h3) + sum + BigSum(d.payload) BY <1>17, <1>18, <1>20
  <2>4. BigSum(pseudo \o udp) = total + sum
    <3>1. \A a, b, c, e, f, g \in Nat :
            (e + c + 17 + f) + (a + g + b) = (a + b + c + e + 17 + f) + g
      OBVIOUS
    <3>2. BigSum(pseudo \o udp) = BigSum(d.dst) + BigSum(d.src) + 17 + size
                                  + (BigSum(h3) + sum + BigSum(d.payload))
      BY <1>22, <2>2, <2>3, Zenon
    <3>3. size \in Nat /\ sum \in Nat BY <1>3, <1>17
    <3>4. BigSum(d.dst) + BigSum(d.src) + 17 + size + (BigSum(h3) + sum + BigSum(d.payload))
            = (BigSum(h3) + BigSum(d.payload) + BigSum(d.src) + BigSum(d.dst) + 17 + size) + sum
      BY <1>12, <3>1, <3>3, SMTT(40)
    <3> QED BY <1>13, <3>2, <3>4, Zenon
  <2>5. total + sum > 0 BY <1>14, <1>16, <1>17
  <2> QED BY <1>16, <2>4, <2>5 DEF Verifies
<1>24. Verifies(Ipv4Header(20 + size, 1, 225, 17, d.src, d.dst))
  <2>1. 1 \in Word /\ 225 \in Byte /\ 17 \in Byte BY SmallNumbers
  <2> QED BY <1>1, <1>3, <2>1, IpVerifies
<1>25. <<udp[7], udp[8]>> # <<0, 0>>
  <2>1. SUFFICES ASSUME udp[7] = 0, udp[8] = 0 PROVE FALSE OBVIOUS
  <2>2. 256 * 0 + 0 = sum BY <1>17, <1>19, <1>21, <2>1
  <2> QED BY <1>16, <2>2
<1>26. /\ NkoPrepPacket(d).ip = Ipv4Header(20 + size, 1, 225, 17, d.src, d.dst)
       /\ NkoPrepPacket(d).udp = udp
  BY DEF NkoPrepPacket, size, h1, h2, h3, blank, asked, sum, filled, udp
<1>27. PseudoHeader(d.src, d.dst, 17, Len(udp)) = pseudo BY <1>20, Zenon DEF pseudo
<1> QED BY <1>23, <1>24, <1>25, <1>26, <1>27, Zenon

\* The number before a sequence number is one.
LEMMA NumbersBefore == ASSUME NEW n \in Word \X Word PROVE Dec32(n) \in Word \X Word
<1>1. /\ n[1] \in Nat /\ n[1] <= 65535 /\ n[2] \in Nat /\ n[2] <= 65535
      /\ n[1] \in Word
  BY WordRange
<1>2. (n[1] + Word16 - 1) % Word16 \in Word
  <2>1. /\ (n[1] + Word16 - 1) % Word16 \in Nat /\ (n[1] + Word16 - 1) % Word16 <= 65535
    BY <1>1, SMT DEF Word16
  <2> QED BY <2>1, WordRange
<1>3. 65535 \in Word BY WordRange, SMT
<1>4. n[2] > 0 => n[2] - 1 \in Word BY <1>1, WordRange, SMT
<1> QED BY <1>1, <1>2, <1>3, <1>4 DEF Dec32

\* Whatever connections the host has, addresses, ports, numbers and windows: a
\* receiver accepts the keep-alive and its answer, and reads the numbers in them.
THEOREM SegmentsAreAccepted == SegmentsVerify
<1> SUFFICES ASSUME NEW s \in Segments
             PROVE  LET c == ConnectInit(s)
                        Good(p) == /\ Verifies(p.ip)
                                   /\ Verifies(PseudoHeader(s.src, s.dst, 6, 20) \o p.tcp)
                    IN /\ Good(c.request) /\ Good(c.response)
                       /\ Number(c.response.tcp, 5) = s.seq
                       /\ Dec32(Number(c.response.tcp, 5)) = Number(c.request.tcp, 5)
  BY DEF SegmentsVerify
<1>1. s \in SegmentType BY PacketAssumption
<1>2. /\ s.src \in Address /\ s.dst \in Address /\ s.seq \in Word \X Word
      /\ Dec32(s.seq) \in Word \X Word
  BY <1>1, NumbersBefore DEF SegmentType
<1>3. ASSUME NEW seq \in Word \X Word
      PROVE  /\ Verifies(PrepPacket(s, seq).ip)
             /\ Verifies(PseudoHeader(s.src, s.dst, 6, 20) \o PrepPacket(s, seq).tcp)
             /\ Number(PrepPacket(s, seq).tcp, 5) = seq
  <2>1. 40 \in Word /\ 0 \in Word /\ 32 \in Byte /\ 6 \in Byte BY SmallNumbers
  <2>2. Verifies(Ipv4Header(40, 0, 32, 6, s.src, s.dst)) BY <1>2, <2>1, IpVerifies
  <2>3. /\ PrepPacket(s, seq).ip = Ipv4Header(40, 0, 32, 6, s.src, s.dst)
        /\ PrepPacket(s, seq).tcp = TcpHeader(s, seq).mem
    BY DEF PrepPacket
  <2> QED BY <1>1, <2>2, <2>3, TcpVerifies
<1>4. /\ ConnectInit(s).request = PrepPacket(s, Dec32(s.seq))
      /\ ConnectInit(s).response = PrepPacket(s, s.seq)
  BY DEF ConnectInit
<1> QED BY <1>2, <1>3, <1>4

\* Whatever addresses, ports and payload, of an even or an odd number of bytes: a
\* receiver accepts the keep-alive, and its checksum is not the one that means none.
THEOREM DatagramsAreAccepted == DatagramsVerify
BY PacketAssumption, DatagramVerifies DEF DatagramsVerify
=============================================================================
