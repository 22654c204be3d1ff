----------------------- MODULE ImageDistribution_proofs -----------------------
(***************************************************************************)
(* What the dispatch formula guarantees for every number of consumers,     *)
(* block size, offset and frame number that is not negative.               *)
(***************************************************************************)
EXTENDS ImageDistribution, TLAPS

-----------------------------------------------------------------------------
(***************************************************************************)
(* Division                                                                *)
(***************************************************************************)

\* Quotient and remainder of the division by a positive number.
LEMMA DivMod ==
    ASSUME NEW a \in Int, NEW b \in Nat \ {0}
    PROVE  /\ a \div b \in Int
           /\ a % b \in 0 .. b - 1
           /\ a = b * (a \div b) + (a % b)
  OBVIOUS

\* q and r are the quotient and the remainder of a divided by b.
Splits(a, b, q, r) == q \in Int /\ r \in 0 .. b - 1 /\ a = b * q + r

LEMMA DivSplits ==
    ASSUME NEW a \in Int, NEW b \in Nat \ {0}
    PROVE  Splits(a, b, a \div b, a % b)
  BY DivMod DEF Splits

\* They are the only such pair.
LEMMA SplitsOnce ==
    ASSUME NEW a \in Int, NEW b \in Nat \ {0}, NEW q1, NEW q2, NEW r1, NEW r2,
           Splits(a, b, q1, r1), Splits(a, b, q2, r2)
    PROVE  q1 = q2 /\ r1 = r2
<1>1. /\ q1 \in Int /\ r1 \in 0 .. b - 1
      /\ q2 \in Int /\ r2 \in 0 .. b - 1
      /\ b * q1 + r1 = b * q2 + r2
  BY DEF Splits
<1> DEFINE d == q1 - q2
<1>2. d \in Int /\ b * d = b * q1 - b * q2
  BY <1>1, SMT
<1> HIDE DEF d
<1>3. b * q1 \in Int /\ b * q2 \in Int /\ b * d \in Int
  BY <1>1, <1>2
<1>4. b * d < b /\ b * d > -b
  BY <1>1, <1>2, <1>3
<1>5. d < 1
  <2>1. SUFFICES ASSUME d >= 1 PROVE FALSE
    BY <1>2
  <2>2. b * d >= b
    BY <1>2, <2>1, SMT
  <2>3. QED
    BY <1>3, <1>4, <2>2
<1>6. d > -1
  <2>1. SUFFICES ASSUME d <= -1 PROVE FALSE
    BY <1>2
  <2>2. b * d <= -b
    BY <1>2, <2>1, SMT
  <2>3. QED
    BY <1>3, <1>4, <2>2
<1>7. d = 0
  BY <1>2, <1>5, <1>6
<1>8. q1 = q2
  BY <1>1, <1>7 DEF d
<1>9. QED
  BY <1>1, <1>3, <1>8

\* The next number has the next remainder, or the next quotient and remainder 0.
LEMMA SplitsNext ==
    ASSUME NEW a \in Int, NEW b \in Nat \ {0}, NEW q \in Int, NEW r \in 0 .. b - 1,
           Splits(a, b, q, r)
    PROVE  IF r = b - 1 THEN Splits(a + 1, b, q + 1, 0) ELSE Splits(a + 1, b, q, r + 1)
<1>1. a = b * q + r /\ b * q \in Int
  BY DEF Splits
<1>2. b * (q + 1) = b * q + b
  BY SMT
<1>3. CASE r = b - 1
  BY <1>1, <1>2, <1>3 DEF Splits
<1>4. CASE r # b - 1
  BY <1>1, <1>4 DEF Splits
<1>5. QED
  BY <1>3, <1>4

\* On a dividend that is not negative C++ and TLA+ divide alike.
LEMMA CDivision ==
    ASSUME NEW a \in Nat, NEW b \in Nat \ {0}
    PROVE  /\ CDiv(a, b) = a \div b
           /\ CDiv(a, b) \in Nat
           /\ CRem(a, b) = a % b
<1>1. a \div b >= 0
  <2>1. SUFFICES ASSUME a \div b <= -1 PROVE FALSE
    BY DivMod
  <2>2. b * (a \div b) <= b * (-1)
    BY <2>1, DivMod, SMT
  <2>3. QED
    BY <2>2, DivMod
<1>2. CDiv(a, b) = a \div b
  BY DEF CDiv
<1>3. CRem(a, b) = a - (b * (a \div b))
  BY <1>2 DEF CRem
<1>4. /\ a \div b \in Int
      /\ a % b \in 0 .. b - 1
      /\ a = b * (a \div b) + (a % b)
  BY DivMod
<1>5. b * (a \div b) \in Int
  BY <1>4
<1>6. CRem(a, b) = a % b
  BY <1>3, <1>4, <1>5
<1>7. QED
  BY <1>1, <1>2, <1>4, <1>6

-----------------------------------------------------------------------------
(***************************************************************************)
(* The formula                                                             *)
(***************************************************************************)

\* The index is the block number modulo the number of consumers, so it is the
\* rank of a consumer: consumers.at() does not throw (EigerFan.cpp:432, 1351).
THEOREM IndexInRange ==
    ASSUME NEW f \in Nat, NEW o \in Nat, NEW B \in Nat \ {0}, NEW N \in Nat \ {0}
    PROVE  /\ ConsumerIndex(f, o, B, N) = ((f + o) \div B) % N
           /\ ConsumerIndex(f, o, B, N) \in 0 .. N - 1
<1>1. f + o \in Nat
  OBVIOUS
<1>2. CDiv(f + o, B) = (f + o) \div B /\ CDiv(f + o, B) \in Nat
  BY <1>1, CDivision
<1>3. CRem(CDiv(f + o, B), N) = CDiv(f + o, B) % N
  BY <1>2, CDivision
<1>4. ConsumerIndex(f, o, B, N) = ((f + o) \div B) % N
  BY <1>2, <1>3 DEF ConsumerIndex
<1>5. ((f + o) \div B) % N \in 0 .. N - 1
  <2>1. (f + o) \div B \in Int
    BY <1>2
  <2>2. QED
    BY <2>1, DivMod
<1>6. QED
  BY <1>4, <1>5

\* The position of an image in the stream of an acquisition is its frame number
\* plus the offset: its place in its block and the rank that holds the block.
Place(y, b) == y % b
Holder(y, b, n) == (y \div b) % n

\* Round the ranks.
After(h, n) == IF h = n - 1 THEN 0 ELSE h + 1

LEMMA PlaceAndHolder ==
    ASSUME NEW y \in Nat, NEW B \in Nat \ {0}, NEW N \in Nat \ {0}
    PROVE  Place(y, B) \in 0 .. B - 1 /\ Holder(y, B, N) \in 0 .. N - 1
<1>1. y \div B \in Int /\ y % B \in 0 .. B - 1
  BY DivMod
<1>2. (y \div B) % N \in 0 .. N - 1
  BY <1>1, DivMod
<1>3. QED
  BY <1>1, <1>2 DEF Place, Holder

LEMMA NextRank ==
    ASSUME NEW q \in Int, NEW N \in Nat \ {0}
    PROVE  (q + 1) % N = After(q % N, N)
<1> DEFINE d == q \div N
           r == q % N
           e == (q + 1) \div N
           s == (q + 1) % N
<1>1. d \in Int /\ r \in 0 .. N - 1 /\ q + 1 \in Int
  BY DivMod
<1>2. Splits(q, N, d, r)
  BY DivSplits
<1>3. Splits(q + 1, N, e, s)
  BY <1>1, DivSplits
<1>4. After(q % N, N) = IF r = N - 1 THEN 0 ELSE r + 1
  BY DEF After
<1>5. SUFFICES s = After(q % N, N)
  OBVIOUS
<1> HIDE DEF d, r, e, s
<1>6. IF r = N - 1 THEN Splits(q + 1, N, d + 1, 0) ELSE Splits(q + 1, N, d, r + 1)
  BY <1>1, <1>2, SplitsNext
<1>7. s = IF r = N - 1 THEN 0 ELSE r + 1
  BY <1>1, <1>3, <1>6, SplitsOnce
<1>8. QED
  BY <1>4, <1>7

LEMMA AfterIsNext ==
    ASSUME NEW N \in Nat \ {0}, NEW h \in 0 .. N - 1
    PROVE  (h + 1) % N = After(h, N)
<1>1. h \in Int
  OBVIOUS
<1>2. Splits(h, N, h \div N, h % N)
  BY <1>1, DivSplits
<1>3. Splits(h, N, 0, h)
  BY DEF Splits
<1>4. h % N = h
  BY <1>1, <1>2, <1>3, SplitsOnce
<1>5. (h + 1) % N = After(h % N, N)
  BY <1>1, NextRank
<1>6. QED
  BY <1>4, <1>5

\* The next position is the next place of the block, or the first of the next
\* rank's.
LEMMA NextPlace ==
    ASSUME NEW y \in Nat, NEW B \in Nat \ {0}, NEW N \in Nat \ {0}
    PROVE  /\ Place(y + 1, B) # 0 =>
                /\ Place(y + 1, B) = Place(y, B) + 1
                /\ Holder(y + 1, B, N) = Holder(y, B, N)
           /\ Place(y + 1, B) = 0 =>
                /\ Place(y, B) = B - 1
                /\ Holder(y + 1, B, N) = After(Holder(y, B, N), N)
<1> DEFINE q == y \div B
           r == y % B
           p == (y + 1) \div B
           s == (y + 1) % B
<1>1. q \in Int /\ r \in 0 .. B - 1 /\ y \in Int /\ y + 1 \in Int
  BY DivMod
<1>2. Splits(y, B, q, r)
  BY <1>1, DivSplits
<1>3. Splits(y + 1, B, p, s)
  BY <1>1, DivSplits
<1>4. Holder(y, B, N) = q % N /\ Holder(y + 1, B, N) = p % N
  BY DEF Holder
<1>5. Place(y, B) = r /\ Place(y + 1, B) = s
  BY DEF Place
<1> HIDE DEF q, r, p, s
<1>6. IF r = B - 1 THEN Splits(y + 1, B, q + 1, 0) ELSE Splits(y + 1, B, q, r + 1)
  BY <1>1, <1>2, SplitsNext
<1>7. CASE r = B - 1
  <2>1. p = q + 1 /\ s = 0
    BY <1>1, <1>3, <1>6, <1>7, SplitsOnce
  <2>2. (q + 1) % N = After(q % N, N)
    BY <1>1, NextRank
  <2>3. QED
    BY <2>1, <2>2, <1>4, <1>5, <1>7
<1>8. CASE r # B - 1
  <2>1. p = q /\ s = r + 1
    BY <1>1, <1>3, <1>6, <1>8, SplitsOnce
  <2>2. r + 1 # 0
    BY <1>1
  <2>3. QED
    BY <2>1, <2>2, <1>4, <1>5
<1>9. QED
  BY <1>7, <1>8

LEMMA TargetIsHolder ==
    ASSUME NEW f \in Nat, NEW o \in Nat, NEW B \in Nat \ {0}, NEW N \in Nat \ {0}
    PROVE  ConsumerIndex(f, o, B, N) = Holder(f + o, B, N)
  BY IndexInRange DEF Holder

\* h has had u images in a row when the place of the last is that of y; the next
\* one goes to h or, at the end of a block, to the next rank.
LEMMA NextRun ==
    ASSUME NEW y \in Nat, NEW B \in Nat \ {0}, NEW N \in Nat \ {0},
           NEW u \in Nat, N > 1 => u <= Place(y, B) + 1,
           NEW h, h = Holder(y, B, N), NEW t, t = Holder(y + 1, B, N)
    PROVE  /\ N > 1 => (IF t = h THEN u + 1 ELSE 1) <= Place(y + 1, B) + 1
           /\ t # h => t = (h + 1) % N /\ Place(y + 1, B) = 0
<1>1. /\ Place(y, B) \in 0 .. B - 1 /\ h \in 0 .. N - 1 /\ y + 1 \in Nat
      /\ Place(y + 1, B) \in 0 .. B - 1
  BY PlaceAndHolder
<1>2. CASE Place(y + 1, B) # 0
  <2>1. Place(y + 1, B) = Place(y, B) + 1 /\ t = h
    BY <1>2, NextPlace
  <2>2. QED
    BY <1>1, <2>1
<1>3. CASE Place(y + 1, B) = 0
  <2>1. t = After(h, N)
    BY <1>3, NextPlace
  <2>2. N > 1 => t # h
    BY <1>1, <2>1 DEF After
  <2>3. t = (h + 1) % N
    BY <1>1, <2>1, AfterIsNext
  <2>4. QED
    BY <1>1, <1>3, <2>2, <2>3
<1>4. QED
  BY <1>2, <1>3

-----------------------------------------------------------------------------
(***************************************************************************)
(* What every rank has had                                                 *)
(***************************************************************************)

\* The turn of a rank, counted from the one that the offset begins with.
Turn(c, s, n) == IF c >= s THEN c - s ELSE c - s + n

\* What the rank of a turn has had in a round of blocks: all of its block, the
\* part before the place, nothing; of the first block the offset is missing.
Portion(turn, now, place, missing, b) ==
    (IF turn < now THEN b ELSE IF turn = now THEN place ELSE 0)
        - (IF turn = 0 THEN missing ELSE 0)

\* Before the image at position y every rank has had the same number in the full
\* rounds, and its portion of this one.
Dealt(count, y, o, b, n) ==
    \E base \in Int : \A c \in 0 .. n - 1 :
        count[c] = base + Portion(Turn(c, Holder(o, b, n), n),
                                  Turn(Holder(y, b, n), Holder(o, b, n), n),
                                  Place(y, b), Place(o, b), b)

\* A turn is a number below that of the ranks, 0 for the first alone, and the next
\* rank has the next turn.
LEMMA Turns ==
    ASSUME NEW n \in Nat \ {0}, NEW s \in 0 .. n - 1,
           NEW c \in 0 .. n - 1, NEW d \in 0 .. n - 1
    PROVE  /\ Turn(c, s, n) \in 0 .. n - 1
           /\ Turn(c, s, n) = 0 <=> c = s
           /\ Turn(c, s, n) = Turn(d, s, n) => c = d
           /\ Turn(After(c, n), s, n) = After(Turn(c, s, n), n)
  BY DEF Turn, After

LEMMA DealtFirst ==
    ASSUME NEW o \in Nat, NEW B \in Nat \ {0}, NEW N \in Nat \ {0},
           NEW count, \A c \in 0 .. N - 1 : count[c] = 0
    PROVE  Dealt(count, o, o, B, N)
<1> DEFINE s == Holder(o, B, N)
           r == Place(o, B)
<1>1. s \in 0 .. N - 1 /\ r \in 0 .. B - 1
  BY PlaceAndHolder
<1> HIDE DEF s, r
<1>2. \A c \in 0 .. N - 1 : count[c] = 0 + Portion(Turn(c, s, N), Turn(s, s, N), r, r, B)
  <2> SUFFICES ASSUME NEW c \in 0 .. N - 1
               PROVE  0 = 0 + Portion(Turn(c, s, N), Turn(s, s, N), r, r, B)
    OBVIOUS
  <2>1. Turn(c, s, N) \in 0 .. N - 1 /\ Turn(s, s, N) = 0
    BY <1>1, Turns
  <2>2. QED
    BY <1>1, <2>1 DEF Portion
<1>3. QED
  BY <1>2 DEF Dealt, s, r

LEMMA DealtNext ==
    ASSUME NEW y \in Nat, NEW o \in Nat, NEW B \in Nat \ {0}, NEW N \in Nat \ {0},
           NEW count \in [0 .. N - 1 -> Nat], Dealt(count, y, o, B, N)
    PROVE  Dealt([count EXCEPT ![Holder(y, B, N)] = @ + 1], y + 1, o, B, N)
<1> DEFINE s == Holder(o, B, N)
           m == Place(o, B)
           h == Holder(y, B, N)
           g == Holder(y + 1, B, N)
           r == Place(y, B)
           q == Place(y + 1, B)
           next == [count EXCEPT ![h] = @ + 1]
<1>1. /\ s \in 0 .. N - 1 /\ m \in 0 .. B - 1
      /\ h \in 0 .. N - 1 /\ r \in 0 .. B - 1
  BY PlaceAndHolder
<1>2. y + 1 \in Nat
  OBVIOUS
<1>3. g \in 0 .. N - 1 /\ q \in 0 .. B - 1
  BY <1>2, PlaceAndHolder
<1>4. /\ q # 0 => q = r + 1 /\ g = h
      /\ q = 0 => r = B - 1 /\ g = After(h, N)
  BY NextPlace
<1>5. PICK base \in Int : \A c \in 0 .. N - 1 :
          count[c] = base + Portion(Turn(c, s, N), Turn(h, s, N), r, m, B)
  BY DEF Dealt
<1>6. SUFFICES \E low \in Int : \A c \in 0 .. N - 1 :
          next[c] = low + Portion(Turn(c, s, N), Turn(g, s, N), q, m, B)
  BY DEF Dealt
<1>7. \A c \in 0 .. N - 1 : next[c] = count[c] + (IF c = h THEN 1 ELSE 0)
  BY <1>1
<1> HIDE DEF s, m, h, g, r, q, next
<1> DEFINE now == Turn(h, s, N)
           low == IF q = 0 /\ now = N - 1 THEN base + B ELSE base
           then == Turn(g, s, N)
<1>8. now \in 0 .. N - 1
  BY <1>1, Turns
<1>9. then = IF q = 0 THEN After(now, N) ELSE now
  BY <1>1, <1>4, Turns
<1>10. ASSUME NEW c \in 0 .. N - 1
       PROVE  next[c] = low + Portion(Turn(c, s, N), then, q, m, B)
  <2> DEFINE turn == Turn(c, s, N)
             one == IF turn = now THEN 1 ELSE 0
  <2>1. turn \in 0 .. N - 1
    BY <1>1, Turns
  <2>2. turn = now <=> c = h
    <3>1. turn = now => c = h
      BY <1>1, Turns
    <3>2. QED
      BY <3>1
  <2>3. next[c] = count[c] + one
    BY <1>7, <2>2
  <2>4. count[c] = base + Portion(turn, now, r, m, B)
    BY <1>5
  <2> HIDE DEF turn, then, now
  <2>5. Portion(turn, now, r, m, B) + one = (low - base) + Portion(turn, then, q, m, B)
    <3>1. CASE q # 0
      <4>1. then = now /\ low = base /\ q = r + 1
        BY <1>4, <1>9, <3>1
      <4>2. Portion(turn, now, r, m, B) + one = Portion(turn, now, q, m, B)
        BY <1>1, <1>3, <1>8, <2>1, <4>1 DEF Portion
      <4>3. Portion(turn, now, q, m, B) \in Int
        BY <1>1, <1>3 DEF Portion
      <4> QED
        BY <1>5, <4>1, <4>2, <4>3
    <3>2. CASE q = 0 /\ now = N - 1
      BY <1>1, <1>3, <1>4, <1>5, <1>8, <1>9, <2>1, <3>2 DEF Portion, After
    <3>3. CASE q = 0 /\ now # N - 1
      BY <1>1, <1>3, <1>4, <1>5, <1>8, <1>9, <2>1, <3>3 DEF Portion, After
    <3>4. QED
      BY <3>1, <3>2, <3>3
  <2>6. /\ Portion(turn, now, r, m, B) \in Int /\ Portion(turn, then, q, m, B) \in Int
        /\ low \in Int /\ one \in Int
    BY <1>1, <1>3, <1>5 DEF Portion
  <2> DEFINE before == Portion(turn, now, r, m, B)
             after == Portion(turn, then, q, m, B)
  <2> HIDE DEF low, one, before, after
  <2>7. /\ count[c] = base + before /\ before + one = (low - base) + after
        /\ before \in Int /\ after \in Int
    BY <2>4, <2>5, <2>6 DEF before, after
  <2>8. base \in Int
    BY <1>5
  <2>9. next[c] = low + after
    BY <2>3, <2>6, <2>7, <2>8
  <2>10. QED
    BY <2>9 DEF turn, after
<1>11. low \in Int
  BY <1>5
<1>12. QED
  BY <1>10, <1>11

\* Two portions differ by a block at most.
LEMMA DealtBalanced ==
    ASSUME NEW y \in Nat, NEW o \in Nat, NEW B \in Nat \ {0}, NEW N \in Nat \ {0},
           NEW count, Dealt(count, y, o, B, N),
           NEW c \in 0 .. N - 1, NEW d \in 0 .. N - 1
    PROVE  count[c] - count[d] <= B
<1> DEFINE s == Holder(o, B, N)
           m == Place(o, B)
           h == Holder(y, B, N)
           r == Place(y, B)
<1>1. s \in 0 .. N - 1 /\ m \in 0 .. B - 1 /\ h \in 0 .. N - 1 /\ r \in 0 .. B - 1
  BY PlaceAndHolder
<1>2. PICK base \in Int : \A e \in 0 .. N - 1 :
          count[e] = base + Portion(Turn(e, s, N), Turn(h, s, N), r, m, B)
  BY DEF Dealt
<1> HIDE DEF s, m, h, r
<1> DEFINE now == Turn(h, s, N)
           a == Turn(c, s, N)
           b == Turn(d, s, N)
<1>3. now \in 0 .. N - 1 /\ a \in 0 .. N - 1 /\ b \in 0 .. N - 1
  BY <1>1, Turns
<1>4. count[c] = base + Portion(a, now, r, m, B) /\ count[d] = base + Portion(b, now, r, m, B)
  BY <1>2
<1> HIDE DEF now, a, b
<1>5. /\ Portion(a, now, r, m, B) \in Int /\ Portion(b, now, r, m, B) \in Int
      /\ Portion(a, now, r, m, B) - Portion(b, now, r, m, B) <= B
  BY <1>1, <1>3 DEF Portion
<1>6. QED
  BY <1>2, <1>4, <1>5

-----------------------------------------------------------------------------
(***************************************************************************)
(* The acquisition                                                         *)
(***************************************************************************)
x == frame + currentOffset

\* Between two images: the images sent in a row are at most those of the current
\* block that precede the next image, and the counters are those of its position.
BlockInv ==
    /\ TypeOK
    /\ frame = 0 => index = -1 /\ run = 0
    /\ frame > 0 => /\ index = Holder(x - 1, block_size, NumConsumers)
                    /\ NumConsumers > 1 => run <= Place(x - 1, block_size) + 1

DealtInv ==
    BlockInv /\ Dealt(num_frames_consumed, x, currentOffset, block_size, NumConsumers)

LEMMA BlockInvInit == Init => DealtInv
<1> SUFFICES ASSUME Init PROVE DealtInv
  OBVIOUS
<1>1. BlockInv
  BY DistributionAssumption DEF Init, BlockInv, TypeOK, Consumers
<1>2. /\ currentOffset \in Nat /\ block_size \in Nat \ {0} /\ NumConsumers \in Nat \ {0}
      /\ x = currentOffset
  BY DistributionAssumption DEF Init, x
<1>3. \A c \in 0 .. NumConsumers - 1 : num_frames_consumed[c] = 0
  BY DEF Init, Consumers
<1>4. QED
  BY <1>1, <1>2, <1>3, DealtFirst DEF DealtInv

LEMMA TargetFacts ==
    ASSUME BlockInv
    PROVE  /\ x \in Nat /\ block_size \in Nat \ {0} /\ NumConsumers \in Nat \ {0}
           /\ Target = Holder(x, block_size, NumConsumers)
           /\ Target \in Consumers
           /\ frame \in Nat /\ currentOffset \in Nat
           /\ frame > 0 => x - 1 \in Nat /\ (x - 1) + 1 = x
<1>1. frame \in Nat /\ currentOffset \in Nat /\ block_size \in Nat \ {0}
      /\ NumConsumers \in Nat \ {0}
  BY DistributionAssumption DEF BlockInv, TypeOK
<1>2. Target = Holder(x, block_size, NumConsumers)
  BY <1>1, TargetIsHolder DEF Target, x
<1>3. x \in Nat /\ (frame > 0 => x - 1 \in Nat /\ (x - 1) + 1 = x)
  BY <1>1 DEF x
<1>4. QED
  BY <1>1, <1>2, <1>3, PlaceAndHolder DEF Consumers

LEMMA BlockInvNext == DealtInv /\ [Next]_vars => DealtInv'
<1> SUFFICES ASSUME DealtInv, [Next]_vars PROVE DealtInv'
  OBVIOUS
<1>1. CASE UNCHANGED vars
  <2>1. BlockInv'
    BY <1>1 DEF vars, DealtInv, BlockInv, TypeOK, x
  <2>2. Dealt(num_frames_consumed, x, currentOffset, block_size, NumConsumers)'
    BY <1>1 DEF vars, DealtInv, x
  <2>3. QED
    BY <2>1, <2>2 DEF DealtInv
<1>2. CASE DispatchImage
  <2>1. BlockInv /\ TypeOK
    BY DEF DealtInv, BlockInv
  <2>2. /\ x \in Nat /\ block_size \in Nat \ {0} /\ NumConsumers \in Nat \ {0}
        /\ Target = Holder(x, block_size, NumConsumers) /\ Target \in Consumers
        /\ frame \in Nat /\ currentOffset \in Nat
        /\ frame > 0 => x - 1 \in Nat /\ (x - 1) + 1 = x
    BY <2>1, TargetFacts
  <2>3. /\ frame < MaxFrames /\ frame' = frame + 1 /\ index' = Target
        /\ run' = (IF Target = index THEN run + 1 ELSE 1)
        /\ currentOffset' = currentOffset /\ block_size' = block_size
        /\ num_frames_consumed' = [num_frames_consumed EXCEPT ![Target] = @ + 1]
    BY <1>2 DEF DispatchImage, ChooseConsumer, CountImage
  <2>4. num_frames_consumed \in [Consumers -> Nat] /\ run \in Nat
    BY <2>1 DEF TypeOK
  <2>5. TypeOK'
    BY <2>1, <2>2, <2>3, <2>4, DistributionAssumption DEF TypeOK
  <2>6. frame' > 0 /\ x' = x + 1 /\ x' - 1 = x
    BY <2>2, <2>3 DEF x
  <2>7. NumConsumers > 1 => run' <= Place(x, block_size) + 1
    <3>1. CASE frame = 0
      <4>1. run' = 1
        BY <2>1, <2>2, <2>3, <3>1 DEF BlockInv, Consumers
      <4>2. QED
        BY <4>1, <2>2, PlaceAndHolder
    <3>2. CASE frame > 0
      <4>1. /\ index = Holder(x - 1, block_size, NumConsumers)
            /\ NumConsumers > 1 => run <= Place(x - 1, block_size) + 1
        BY <2>1, <3>2 DEF BlockInv
      <4>2. NumConsumers > 1 => (IF Target = index THEN run + 1 ELSE 1)
                                  <= Place(x, block_size) + 1
        BY <4>1, <2>2, <2>4, <3>2, NextRun
      <4>3. QED
        BY <4>2, <2>3
    <3>3. QED
      BY <2>2, <3>1, <3>2
  <2>8. BlockInv'
    BY <2>2, <2>3, <2>5, <2>6, <2>7 DEF BlockInv
  <2>9. Dealt(num_frames_consumed', x + 1, currentOffset, block_size, NumConsumers)
    BY <2>2, <2>3, <2>4, DealtNext DEF DealtInv, Consumers
  <2>10. QED
    BY <2>3, <2>6, <2>8, <2>9 DEF DealtInv
<1>3. QED
  BY <1>1, <1>2 DEF Next

THEOREM TypeCorrect == Spec => []TypeOK
<1>1. DealtInv => TypeOK
  BY DEF DealtInv, BlockInv
<1>2. QED
  BY BlockInvInit, BlockInvNext, <1>1, PTL DEF Spec

\* For every number of consumers, offset, block size and length of the series no
\* consumer ever gets ahead of another by more than a block of images.
THEOREM BalancedAlways == Spec => []Balanced
<1>1. DealtInv => Balanced
  <2> SUFFICES ASSUME DealtInv, NEW c \in Consumers, NEW d \in Consumers
               PROVE  num_frames_consumed[c] - num_frames_consumed[d] <= block_size
    BY DEF Balanced
  <2>1. BlockInv
    BY DEF DealtInv
  <2>2. /\ x \in Nat /\ block_size \in Nat \ {0} /\ NumConsumers \in Nat \ {0}
        /\ currentOffset \in Nat
    BY <2>1, TargetFacts
  <2>3. QED
    BY <2>2, DealtBalanced DEF DealtInv, Consumers
<1>2. QED
  BY BlockInvInit, BlockInvNext, <1>1, PTL DEF Spec

\* For every number of consumers, offset and block size no consumer gets more
\* than a block of images in a row.
THEOREM BlocksStayTogetherAlways == Spec => []BlocksStayTogether
<1>1. DealtInv => BlocksStayTogether
  <2> SUFFICES ASSUME DealtInv, NumConsumers > 1 PROVE run <= block_size
    BY DEF BlocksStayTogether
  <2>1. BlockInv /\ run \in Nat
    BY DEF DealtInv, BlockInv, TypeOK
  <2>2. /\ block_size \in Nat \ {0} /\ frame \in Nat /\ NumConsumers \in Nat \ {0}
        /\ frame > 0 => x - 1 \in Nat
    BY <2>1, TargetFacts
  <2>3. CASE frame = 0
    BY <2>1, <2>2, <2>3 DEF BlockInv
  <2>4. CASE frame > 0
    <3>1. Place(x - 1, block_size) \in 0 .. block_size - 1
      BY <2>2, <2>4, PlaceAndHolder
    <3>2. run <= Place(x - 1, block_size) + 1
      BY <2>1, <2>4 DEF BlockInv
    <3>3. QED
      BY <2>1, <2>2, <3>1, <3>2
  <2>5. QED
    BY <2>2, <2>3, <2>4
<1>2. QED
  BY BlockInvInit, BlockInvNext, <1>1, PTL DEF Spec

\* For every number of consumers, offset and block size the consumer changes
\* only between two blocks, and to the next rank.
THEOREM NextConsumerAlways == Spec => NextConsumerAtBlockEnd
<1> DEFINE Step == index' # index /\ index # -1 /\ index' # -1 =>
              /\ index' = (index + 1) % NumConsumers
              /\ (frame + currentOffset) % block_size = 0
<1>1. DealtInv /\ [Next]_vars => [Step]_vars
  <2> SUFFICES ASSUME DealtInv, DispatchImage, index' # index, index # -1
               PROVE  /\ index' = (index + 1) % NumConsumers
                      /\ (frame + currentOffset) % block_size = 0
    BY DEF Next
  <2>1. BlockInv /\ run \in Nat
    BY DEF DealtInv, BlockInv, TypeOK
  <2>2. /\ x \in Nat /\ block_size \in Nat \ {0} /\ NumConsumers \in Nat \ {0}
        /\ Target = Holder(x, block_size, NumConsumers)
        /\ frame \in Nat
        /\ frame > 0 => x - 1 \in Nat /\ (x - 1) + 1 = x
    BY <2>1, TargetFacts
  <2>3. index' = Target
    BY DEF DispatchImage, ChooseConsumer
  <2>4. frame > 0
    BY <2>1, <2>2 DEF BlockInv
  <2>5. /\ index = Holder(x - 1, block_size, NumConsumers)
        /\ NumConsumers > 1 => run <= Place(x - 1, block_size) + 1
    BY <2>1, <2>4 DEF BlockInv
  <2>6. index' = (index + 1) % NumConsumers /\ Place(x, block_size) = 0
    BY <2>1, <2>2, <2>3, <2>4, <2>5, NextRun
  <2>7. QED
    BY <2>6 DEF x, Place
<1>2. QED
  BY BlockInvInit, BlockInvNext, <1>1, PTL DEF Spec, NextConsumerAtBlockEnd
=============================================================================
