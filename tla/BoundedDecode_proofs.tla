------------------------ MODULE BoundedDecode_proofs ------------------------
(***************************************************************************)
(* Proofs about decoding over a bounded cache, for any windows, cache      *)
(* sizes and prompts, and as many positions as there are.                  *)
(***************************************************************************)
EXTENDS BoundedDecode, TLAPS, WellFoundedInduction

CursorType == [valid_steps : Nat, absolute_end : Nat, cache_steps : Nat]

\* The fields of a decode graph.
Shape(g) ==
  g = [cache_steps |-> g.cache_steps, valid_steps |-> g.valid_steps,
       current_end |-> g.current_end, slots |-> g.slots,
       visible |-> g.visible, prefix_uploaded |-> g.prefix_uploaded]

\* The two cursors agree until the cache is a full ring as large as the window w,
\* where the graph's own cursor has stopped.
Agree(g, c, w) ==
  /\ c \in CursorType
  /\ Shape(g)
  /\ g.cache_steps = c.cache_steps /\ g.valid_steps = c.valid_steps
  /\ c.cache_steps \in 1..w /\ c.valid_steps \in 1..c.cache_steps
  /\ \/ c.absolute_end = c.valid_steps /\ g.current_end = c.absolute_end
     \/ c.valid_steps = w /\ c.absolute_end >= w

\* The valid slots hold the latest positions, each in the slot it belongs to; only the
\* slot of the next step may hold anything, when a step failed that had written it.
Latest(g, c, w) ==
  /\ g.slots = [s \in 0..(c.cache_steps - 1) |-> g.slots[s]]
  /\ \A s \in 0..(c.valid_steps - 1) :
        \/ c.valid_steps = w /\ s = c.absolute_end % w
        \/ /\ g.slots[s] \in (c.absolute_end - c.valid_steps)..(c.absolute_end - 1)
           /\ g.slots[s] % c.cache_steps = s

\* An uploaded mask shows the valid slots, and that of the next step when a step failed.
MaskFits(g, c) ==
  g.prefix_uploaded =>
     \/ g.visible = 0..(c.valid_steps - 1)
     \/ c.valid_steps < c.cache_steps /\ g.visible = 0..c.valid_steps

Cache(g, c, w) == Agree(g, c, w) /\ Latest(g, c, w) /\ MaskFits(g, c)

\* The cache is a power of two or the window, and at least the least one.
Sized(c, policy) ==
  /\ c.cache_steps = policy.sliding_window \/ c.cache_steps \in PowersOf2(policy)
  /\ c.cache_steps >= Lesser(policy.min_cache_steps, policy.sliding_window)

IInv ==
  /\ config \in Offline \cup Stream
  /\ cursor \in CursorType
  /\ cursor.cache_steps > 0 => Cache(graph, cursor, config.sliding_window) /\ Sized(cursor, config)
  /\ AttendsToTheWindow

\* There is a free slot, or the ring is full at the size of the window.
Roomy(c, w) == c.valid_steps < c.cache_steps \/ c.valid_steps = w

-----------------------------------------------------------------------------
(* Powers of two.                                                          *)

\* A set that holds 0, and with each number the next, holds every number: the library's
\* induction, for a set in place of an operator.
LEMMA Induction ==
  ASSUME NEW S \in SUBSET Nat, 0 \in S, \A n \in S : n + 1 \in S
  PROVE  S = Nat
  <1> SUFFICES ASSUME Nat \ S # {} PROVE FALSE
    OBVIOUS
  <1>1. PICK n \in Nat \ S : \A m \in Nat \ S : ~ (<<m, n>> \in OpToRel(<, Nat))
    BY NatLessThanWellFounded, WFMin
  <1>2. \A m \in Nat \ S : ~ (m < n)
    BY <1>1 DEF OpToRel
  <1>3. n # 0 /\ n - 1 \in Nat /\ n - 1 \in S
    BY <1>2
  <1> QED BY <1>3

\* The buckets of n rounds.
IsDoubling(g, n) ==
  /\ g \in [0..n -> Nat \ {0}] /\ g[0] = 1
  /\ \A k \in 1..n : g[k] = 2 * g[k - 1]

\* Any number of rounds has its buckets.
LEMMA DoublingExists == \A n \in Nat : \E g : IsDoubling(g, n)
  <1> DEFINE S == {n \in Nat : \E g : IsDoubling(g, n)}
  <1>1. 0 \in S
    <2>1. IsDoubling([k \in 0..0 |-> 1], 0)
      BY DEF IsDoubling
    <2> QED BY <2>1
  <1>2. ASSUME NEW n \in S PROVE n + 1 \in S
    <2>1. PICK g : IsDoubling(g, n)
      OBVIOUS
    <2> DEFINE h == [k \in 0..(n + 1) |-> IF k <= n THEN g[k] ELSE 2 * g[n]]
    <2>2. IsDoubling(h, n + 1)
      BY <2>1 DEF IsDoubling
    <2> QED BY <2>2
  <1> HIDE DEF S
  <1>3. S = Nat
    BY <1>1, <1>2, Induction DEF S
  <1> QED BY <1>3 DEF S

\* They are the same however many rounds follow.
LEMMA DoublingUnique ==
  ASSUME NEW m \in Nat, NEW n \in Nat, NEW g, NEW h, IsDoubling(g, m), IsDoubling(h, n)
  PROVE  \A k \in Nat : k <= m /\ k <= n => g[k] = h[k]
  <1> DEFINE S == {k \in Nat : k <= m /\ k <= n => g[k] = h[k]}
  <1>1. 0 \in S
    BY DEF IsDoubling
  <1>2. ASSUME NEW k \in S PROVE k + 1 \in S
    <2> SUFFICES ASSUME k + 1 <= m, k + 1 <= n PROVE g[k + 1] = h[k + 1]
      OBVIOUS
    <2>1. g[k] = h[k]
      OBVIOUS
    <2>2. g[k + 1] = 2 * g[k] /\ h[k + 1] = 2 * h[k]
      <3>1. k + 1 \in 1..m /\ k + 1 \in 1..n /\ (k + 1) - 1 = k
        OBVIOUS
      <3> QED BY <3>1 DEF IsDoubling
    <2> QED BY <2>1, <2>2
  <1> HIDE DEF S
  <1>3. S = Nat
    BY <1>1, <1>2, Induction DEF S
  <1> QED BY <1>3 DEF S

\* So the recursive definition has its meaning.
LEMMA DoublingRounds ==
  /\ Doubling \in [Nat -> Nat \ {0}]
  /\ Doubling[0] = 1
  /\ \A k \in Nat : Doubling[k + 1] = 2 * Doubling[k]
  <1> DEFINE rounds(n) == CHOOSE g : IsDoubling(g, n)
             d == [n \in Nat |-> rounds(n)[n]]
  <1>1. \A n \in Nat : IsDoubling(rounds(n), n)
    BY DoublingExists
  <1> HIDE DEF rounds
  <1>2. d \in [Nat -> Nat \ {0}] /\ d[0] = 1
    BY <1>1 DEF IsDoubling
  <1>3. ASSUME NEW n \in Nat PROVE d[n + 1] = 2 * d[n]
    <2>1. rounds(n + 1)[n] = rounds(n)[n]
      BY <1>1, DoublingUnique
    <2>2. rounds(n + 1)[n + 1] = 2 * rounds(n + 1)[n]
      <3>1. n + 1 \in 1..(n + 1) /\ (n + 1) - 1 = n /\ n + 1 \in Nat
        OBVIOUS
      <3> QED BY <1>1, <3>1 DEF IsDoubling
    <2> QED BY <2>1, <2>2
  <1>4. d = [k \in Nat |-> IF k = 0 THEN 1 ELSE 2 * d[k - 1]]
    <2>1. ASSUME NEW k \in Nat PROVE d[k] = IF k = 0 THEN 1 ELSE 2 * d[k - 1]
      <3>1. CASE k = 0
        BY <1>2, <3>1
      <3>2. CASE k # 0
        <4>1. k - 1 \in Nat /\ (k - 1) + 1 = k
          BY <3>2
        <4> HIDE DEF d
        <4>2. d[(k - 1) + 1] = 2 * d[k - 1]
          BY <1>3, <4>1
        <4> QED BY <3>2, <4>1, <4>2
      <3> QED BY <3>1, <3>2
    <2> QED BY <2>1
  <1>5. Doubling = [k \in Nat |-> IF k = 0 THEN 1 ELSE 2 * Doubling[k - 1]]
    <2> HIDE DEF d
    <2>1. \E f : f = [k \in Nat |-> IF k = 0 THEN 1 ELSE 2 * f[k - 1]]
      BY <1>4
    <2> QED BY <2>1 DEF Doubling
  <1>6. \A k \in Nat : Doubling[k] = IF k = 0 THEN 1 ELSE 2 * Doubling[k - 1]
    BY <1>5, Zenon
  <1>7. Doubling[0] = 1
    BY <1>6
  <1>8. ASSUME NEW k \in Nat PROVE Doubling[k + 1] = 2 * Doubling[k]
    <2>1. k + 1 \in Nat /\ k + 1 # 0 /\ (k + 1) - 1 = k
      OBVIOUS
    <2> QED BY <1>6, <2>1
  <1> DEFINE S == {k \in Nat : Doubling[k] \in Nat \ {0}}
  <1>9. 0 \in S /\ \A k \in S : k + 1 \in S
    BY <1>7, <1>8
  <1>10. S = Nat
    <2> HIDE DEF S
    <2>1. S \in SUBSET Nat
      BY DEF S
    <2> QED BY <1>9, <2>1, Induction
  <1>11. Doubling = [k \in Nat |-> Doubling[k]]
    <2>1. DOMAIN Doubling = Nat
      BY <1>5
    <2> QED BY <1>5, Zenon
  <1>12. \A k \in Nat : Doubling[k] \in Nat \ {0}
    BY <1>10
  <1> QED BY <1>7, <1>8, <1>11, <1>12

\* Each bucket is at least twice an earlier one.
LEMMA Doubles ==
  ASSUME NEW i \in Nat, NEW j \in Nat, i < j
  PROVE  2 * Doubling[i] <= Doubling[j]
  <1> DEFINE S == {n \in Nat : 2 * Doubling[i] <= Doubling[i + n + 1]}
  <1>1. 0 \in S
    BY DoublingRounds
  <1>2. ASSUME NEW n \in S PROVE n + 1 \in S
    <2>1. Doubling[(i + n + 1) + 1] = 2 * Doubling[i + n + 1]
      BY DoublingRounds
    <2>2. Doubling[i + n + 1] \in Nat \ {0} /\ Doubling[i] \in Nat
      BY DoublingRounds
    <2>3. (i + n + 1) + 1 = i + (n + 1) + 1
      OBVIOUS
    <2> QED BY <2>1, <2>2, <2>3
  <1>3. S = Nat
    <2> HIDE DEF S
    <2>1. S \in SUBSET Nat
      BY DEF S
    <2> QED BY <1>1, <1>2, <2>1, Induction
  <1>4. PICK n \in Nat : i + n + 1 = j
    <2>1. j - i - 1 \in Nat /\ i + (j - i - 1) + 1 = j
      OBVIOUS
    <2> QED BY <2>1
  <1>5. n \in S
    BY <1>3
  <1> QED BY <1>4, <1>5

\* Some bucket is at least n, and less than 2n.
LEMMA BucketFits ==
  ASSUME NEW n \in Nat \ {0}
  PROVE  \E k \in 0..n : n <= Doubling[k] /\ Doubling[k] < 2 * n
  <1> DEFINE Fits(m) == \E k \in 0..(m + 1) : m + 1 <= Doubling[k] /\ Doubling[k] < 2 * (m + 1)
             S == {m \in Nat : Fits(m)}
  <1>1. 0 \in S
    BY DoublingRounds
  <1>2. ASSUME NEW m \in S PROVE m + 1 \in S
    <2>1. PICK k \in 0..(m + 1) : m + 1 <= Doubling[k] /\ Doubling[k] < 2 * (m + 1)
      OBVIOUS
    <2>2. Doubling[k] \in Nat /\ Doubling[k + 1] = 2 * Doubling[k]
      BY DoublingRounds
    <2>3. CASE Doubling[k] >= m + 2
      <3>1. k \in 0..(m + 1 + 1) /\ m + 1 + 1 <= Doubling[k] /\ Doubling[k] < 2 * (m + 1 + 1)
        BY <2>1, <2>2, <2>3
      <3> QED BY <3>1
    <2>4. CASE Doubling[k] < m + 2
      <3>1. k + 1 \in 0..(m + 1 + 1) /\ m + 1 + 1 <= Doubling[k + 1]
            /\ Doubling[k + 1] < 2 * (m + 1 + 1)
        BY <2>1, <2>2, <2>4
      <3> QED BY <3>1
    <2> QED BY <2>2, <2>3, <2>4
  <1>3. S = Nat
    <2> HIDE DEF S
    <2>1. S \in SUBSET Nat
      BY DEF S
    <2> QED BY <1>1, <1>2, <2>1, Induction
  <1>4. n - 1 \in Nat /\ (n - 1) + 1 = n
    OBVIOUS
  <1>5. Fits(n - 1)
    <2> HIDE DEF Fits
    <2> QED BY <1>3, <1>4
  <1> QED BY <1>4, <1>5
\* What the growth of the cache needs to know of the buckets it chooses from.
LEMMA PowersCover ==
  ASSUME NEW c \in Offline \cup Stream
  PROVE  /\ \A n \in 1..c.sliding_window : \E b \in PowersOf2(c) : b >= n /\ b < 2 * n
         /\ \A a, b \in PowersOf2(c) : a \in Nat /\ (a < b => 2 * a <= b)
  <1>1. c.sliding_window \in Nat
    BY StepsAssumption DEF Offline, Stream, Policy
  <1>2. ASSUME NEW n \in 1..c.sliding_window
        PROVE  \E b \in PowersOf2(c) : b >= n /\ b < 2 * n
    <2>1. PICK k \in 0..n : n <= Doubling[k] /\ Doubling[k] < 2 * n
      BY <1>1, BucketFits
    <2>2. Doubling[k] \in PowersOf2(c) /\ Doubling[k] \in Nat
      BY <1>1, DoublingRounds DEF PowersOf2
    <2> QED BY <1>1, <2>1, <2>2
  <1>3. ASSUME NEW a \in PowersOf2(c), NEW b \in PowersOf2(c)
        PROVE  a \in Nat /\ (a < b => 2 * a <= b)
    <2>1. PICK i \in 0..c.sliding_window, j \in 0..c.sliding_window :
             a = Doubling[i] /\ b = Doubling[j]
      BY DEF PowersOf2
    <2>2. a \in Nat \ {0} /\ b \in Nat \ {0} /\ i \in Nat /\ j \in Nat
      BY <1>1, <2>1, DoublingRounds
    <2>3. CASE i < j
      BY <2>1, <2>2, <2>3, Doubles
    <2>4. CASE i = j
      BY <2>1, <2>2, <2>4
    <2>5. CASE j < i
      <3>1. 2 * b <= a
        BY <2>1, <2>2, <2>5, Doubles
      <3> QED BY <2>2, <3>1
    <2> QED BY <2>2, <2>3, <2>4, <2>5
  <1> QED BY <1>2, <1>3

-----------------------------------------------------------------------------
(* Arithmetic of the ring.                                                  *)

\* A number is its quotient times the divisor, and its remainder.
LEMMA Division ==
  ASSUME NEW n \in Nat \ {0}, NEW a \in Nat
  PROVE  /\ a = n * (a \div n) + (a % n)
         /\ a \div n \in Int /\ a % n \in 0..(n - 1)
         /\ a < n => a % n = a
  OBVIOUS

\* Multiples of n less than n apart are the same.
LEMMA Multiples ==
  ASSUME NEW n \in Nat \ {0}, NEW k \in Int, NEW j \in Int,
         n * k - n * j < n, n * j - n * k < n
  PROVE  k = j
  <1>1. CASE k >= j + 1
    <2>1. n * (k - j) >= n * 1
      BY <1>1
    <2>2. n * (k - j) = n * k - n * j
      OBVIOUS
    <2> QED BY <2>1, <2>2
  <1>2. CASE j >= k + 1
    <2>1. n * (j - k) >= n * 1
      BY <1>2
    <2>2. n * (j - k) = n * j - n * k
      OBVIOUS
    <2> QED BY <2>1, <2>2
  <1> QED BY <1>1, <1>2

\* Two positions less than a ring apart that share a slot are the same.
LEMMA SlotsAreDistinct ==
  ASSUME NEW n \in Nat \ {0}, NEW a \in Nat, NEW b \in Nat,
         a % n = b % n, a - b < n, b - a < n
  PROVE  a = b
  <1> DEFINE p == n * (a \div n)
             q == n * (b \div n)
             r == a % n
  <1>1. p \in Int /\ q \in Int /\ r \in Int /\ a = p + r /\ b = q + r
    BY Division
  <1>2. a \div n \in Int /\ b \div n \in Int
    BY Division
  <1> HIDE DEF p, q, r
  <1>3. p - q < n /\ q - p < n
    BY <1>1
  <1>4. a \div n = b \div n
    BY <1>2, <1>3, Multiples DEF p, q
  <1>5. p = q
    BY <1>4 DEF p, q
  <1> QED BY <1>1, <1>5

\* A position shares its slot with the one a ring before it.
LEMMA OneTurnBefore ==
  ASSUME NEW n \in Nat \ {0}, NEW a \in Nat, NEW b \in Nat, a = b + n
  PROVE  a % n = b % n
  <1> DEFINE p == n * (a \div n)
             q == n * (b \div n)
             r == a % n
             t == b % n
             k == a \div n
             j == b \div n + 1
  <1>1. p \in Int /\ q \in Int /\ r \in 0..(n - 1) /\ t \in 0..(n - 1) /\ a = p + r /\ b = q + t
    BY Division
  <1>2. k \in Int /\ j \in Int
    BY Division
  <1>3. n * k = p /\ n * j = q + n
    <2>1. b \div n \in Int
      BY Division
    <2> QED BY <2>1
  <1> HIDE DEF p, q, r, t, k, j
  <1>4. p - (q + n) < n /\ (q + n) - p < n
    BY <1>1
  <1>5. k = j
    BY <1>2, <1>3, <1>4, Multiples
  <1>6. r = t
    BY <1>1, <1>3, <1>5
  <1> QED BY <1>6 DEF r, t

-----------------------------------------------------------------------------
(* The capacity.                                                            *)

\* The bounds of a policy.
LEMMA PolicyType ==
  ASSUME NEW c \in Offline \cup Stream
  PROVE  c.sliding_window \in Nat \ {0} /\ c.min_cache_steps \in Nat \ {0}
  BY StepsAssumption DEF Offline, Stream, Policy

\* A capacity holds what is required, up to the window, and is at least the least one.
LEMMA Capacity ==
  ASSUME NEW c \in Offline \cup Stream, NEW n \in Nat
  PROVE  /\ target_cache_steps(c, n) \in 1..c.sliding_window
         /\ target_cache_steps(c, n) >= Lesser(n, c.sliding_window)
         /\ target_cache_steps(c, n) >= Lesser(c.min_cache_steps, c.sliding_window)
         /\ target_cache_steps(c, n) = c.sliding_window \/ target_cache_steps(c, n) \in PowersOf2(c)
  <1> DEFINE w == c.sliding_window
             b == Bucket(c, n)
  <1>1. w \in Nat \ {0} /\ c.min_cache_steps \in Nat \ {0}
    BY PolicyType
  <1>2. /\ Wanted(c, n) \in 1..w /\ Wanted(c, n) >= Lesser(n, w)
        /\ Wanted(c, n) >= Lesser(c.min_cache_steps, w)
    BY <1>1 DEF Wanted, Lesser, Greater
  <1>3. b \in PowersOf2(c) /\ b >= Wanted(c, n) /\ b < 2 * Wanted(c, n)
    <2>1. \E a \in PowersOf2(c) : a >= Wanted(c, n) /\ a < 2 * Wanted(c, n)
      BY <1>2, PowersCover
    <2> QED BY <2>1 DEF Bucket
  <1>4. b \in Nat /\ \A a \in PowersOf2(c) : a \in Nat /\ (a < b => 2 * a <= b)
    BY <1>3, PowersCover
  <1>5. target_cache_steps(c, n) = Lesser(b, w)
    BY DEF target_cache_steps
  <1> HIDE DEF b, w
  <1>7. Lesser(b, w) \in {b, w} /\ Lesser(b, w) <= b /\ Lesser(b, w) <= w
    BY <1>1, <1>4 DEF Lesser, w
  <1>8. Lesser(b, w) >= Wanted(c, n)
    BY <1>2, <1>3, <1>7 DEF w
  <1>9. Lesser(n, w) \in Nat /\ Lesser(c.min_cache_steps, w) \in Nat /\ Lesser(b, w) \in Nat
    BY <1>1, <1>4, <1>7 DEF Lesser, w
  <1>10. Lesser(b, w) \in 1..w /\ Lesser(b, w) >= Lesser(n, w)
         /\ Lesser(b, w) >= Lesser(c.min_cache_steps, w)
    BY <1>1, <1>2, <1>7, <1>8, <1>9 DEF w
  <1> QED BY <1>3, <1>5, <1>7, <1>10 DEF w

-----------------------------------------------------------------------------
(* Import and growth.                                                       *)

\* A state of positions 0, 1, ... makes a cache that is as described.
LEMMA Imported ==
  ASSUME NEW w \in Nat \ {0}, NEW steps \in 1..w, NEW n \in 1..steps, NEW key,
         \A s \in 0..(n - 1) : key[s] = s,
         NEW state, state = [valid_steps |-> n, current_end |-> n, key |-> key]
  PROVE  /\ Cache(import_state(DecodeStepGraph(steps), state), ImportCursor(state, steps), w)
         /\ ImportCursor(state, steps).absolute_end = n
         /\ ImportCursor(state, steps).valid_steps = n
         /\ ImportCursor(state, steps).cache_steps = steps
         /\ import_state(DecodeStepGraph(steps), state).cache_steps = steps
  <1> DEFINE g == import_state(DecodeStepGraph(steps), state)
             c == ImportCursor(state, steps)
             slots == [s \in 0..(steps - 1) |-> IF s < n THEN key[s] ELSE Unwritten]
  <1>1. c = [valid_steps |-> n, absolute_end |-> n, cache_steps |-> steps]
    BY DEF ImportCursor
  <1>2. /\ Shape(g)
        /\ g.cache_steps = steps /\ g.valid_steps = n /\ g.current_end = n
        /\ g.slots = slots /\ ~g.prefix_uploaded
    <2> DEFINE e == DecodeStepGraph(steps)
               filled == [s \in DOMAIN e.slots |->
                             IF s < state.valid_steps THEN state.key[s] ELSE Unwritten]
    <2>1. Shape(e) /\ e.cache_steps = steps
      BY DEF DecodeStepGraph, Shape
    <2>2. filled = slots
      <3>1. DOMAIN e.slots = 0..(steps - 1)
        BY DEF DecodeStepGraph
      <3> QED BY <3>1
    <2>3. g = [e EXCEPT !.valid_steps = n, !.current_end = n, !.slots = slots,
                        !.prefix_uploaded = FALSE]
      BY <2>2 DEF import_state
    <2> HIDE DEF e, slots, g
    <2>4. g = [cache_steps |-> e.cache_steps, valid_steps |-> n, current_end |-> n,
               slots |-> slots, visible |-> e.visible, prefix_uploaded |-> FALSE]
      BY <2>1, <2>3 DEF Shape
    <2> QED BY <2>1, <2>4 DEF Shape
  <1>3. \A s \in 0..(n - 1) : slots[s] = s /\ s % steps = s
    <2> SUFFICES ASSUME NEW s \in 0..(n - 1) PROVE slots[s] = s /\ s % steps = s
      OBVIOUS
    <2>1. s \in 0..(steps - 1) /\ s < n /\ s \in Nat /\ s < steps /\ steps \in Nat \ {0}
      OBVIOUS
    <2>2. s % steps = s
      BY <2>1, Division
    <2>3. slots[s] = key[s]
      BY <2>1
    <2> QED BY <2>2, <2>3
  <1> HIDE DEF g, c
  <1>4. Agree(g, c, w)
    BY <1>1, <1>2 DEF Agree, CursorType
  <1>5. Latest(g, c, w)
    <2>1. g.slots = slots
      BY <1>2
    <2>2. g.slots = [s \in 0..(steps - 1) |-> g.slots[s]]
      BY <2>1
    <2>3. \A s \in 0..(n - 1) : g.slots[s] \in 0..(n - 1) /\ g.slots[s] % steps = s
      BY <1>3, <2>1
    <2>4. c.cache_steps = steps /\ c.valid_steps = n /\ c.absolute_end - c.valid_steps = 0
          /\ c.absolute_end - 1 = n - 1
      BY <1>1
    <2> QED BY <2>2, <2>3, <2>4 DEF Latest
  <1>6. MaskFits(g, c)
    BY <1>2 DEF MaskFits
  <1> QED BY <1>1, <1>2, <1>4, <1>5, <1>6 DEF Cache, g, c

\* The cache a step runs with is as described, has room, and goes on at the same
\* position.
LEMMA ReadyCache ==
  ASSUME IInv, cursor.cache_steps > 0
  PROVE  /\ Cache(Ready.graph, Ready.cursor, config.sliding_window)
         /\ Roomy(Ready.cursor, config.sliding_window)
         /\ Ready.cursor.absolute_end = cursor.absolute_end
  <1> DEFINE w == config.sliding_window
             v == cursor.valid_steps
             steps == target_cache_steps(config, v + 1)
             state == export_state(graph)
  <1>1. /\ w \in Nat \ {0} /\ Cache(graph, cursor, w)
    BY PolicyType DEF IInv
  <1>2. /\ v \in 1..cursor.cache_steps /\ cursor.cache_steps \in 1..w /\ v \in Nat
        /\ graph.cache_steps = cursor.cache_steps /\ graph.valid_steps = v
        /\ \/ cursor.absolute_end = v /\ graph.current_end = cursor.absolute_end
           \/ v = w /\ cursor.absolute_end >= w
    BY <1>1 DEF Cache, Agree
  <1>3. steps \in 1..w /\ steps >= Lesser(v + 1, w)
    BY <1>2, Capacity DEF IInv
  <1>4. CASE graph.cache_steps >= steps
    <2>1. Ready = [graph |-> graph, cursor |-> cursor]
      BY <1>4 DEF Ready
    <2>2. v < cursor.cache_steps \/ v = w
      BY <1>1, <1>2, <1>3, <1>4 DEF Lesser
    <2> QED BY <1>1, <2>1, <2>2 DEF Roomy
  <1>5. CASE ~(graph.cache_steps >= steps)
    <2>1. v < w /\ v < steps
      BY <1>1, <1>2, <1>3, <1>5
    <2>2. cursor.absolute_end = v /\ graph.current_end = v
      BY <1>1, <1>2, <2>1
    <2>3. \A s \in 0..(v - 1) : graph.slots[s] = s
      <3> SUFFICES ASSUME NEW s \in 0..(v - 1) PROVE graph.slots[s] = s
        OBVIOUS
      <3>1. graph.slots[s] \in 0..(v - 1) /\ graph.slots[s] % cursor.cache_steps = s
        <4>1. cursor.absolute_end - v = 0 /\ cursor.absolute_end - 1 = v - 1 /\ v # w
          BY <1>1, <1>2, <2>1, <2>2
        <4>2. \/ v = w /\ s = cursor.absolute_end % w
              \/ /\ graph.slots[s] \in (cursor.absolute_end - v)..(cursor.absolute_end - 1)
                 /\ graph.slots[s] % cursor.cache_steps = s
          BY <1>1 DEF Cache, Latest
        <4> QED BY <4>1, <4>2
      <3>2. graph.slots[s] \in Nat /\ graph.slots[s] < cursor.cache_steps
            /\ cursor.cache_steps \in Nat \ {0}
        BY <1>2, <3>1
      <3> QED BY <3>1, <3>2, Division
    <2> DEFINE key == [s \in 0..(v - 1) |-> graph.slots[s]]
    <2>4. state = [valid_steps |-> v, current_end |-> v, key |-> key]
      BY <1>2, <2>2 DEF export_state
    <2>5. \A s \in 0..(v - 1) : key[s] = s
      BY <2>3
    <2>6. v \in 1..steps
      BY <1>2, <1>3, <2>1
    <2> HIDE DEF key, state, steps, w, v
    <2>7. /\ Cache(import_state(DecodeStepGraph(steps), state), ImportCursor(state, steps), w)
          /\ ImportCursor(state, steps).absolute_end = v
          /\ ImportCursor(state, steps).valid_steps = v
          /\ ImportCursor(state, steps).cache_steps = steps
      BY <1>1, <1>3, <2>4, <2>5, <2>6, Imported
    <2>8. Ready = [graph  |-> import_state(DecodeStepGraph(steps), state),
                   cursor |-> ImportCursor(state, steps)]
      BY <1>5 DEF Ready, steps, state, v
    <2> QED BY <2>1, <2>2, <2>7, <2>8 DEF Roomy, w
  <1> QED BY <1>4, <1>5

\* What a growth makes of the size of a cache.
GrowsWell(old, new, policy) ==
  /\ policy \notin Stream
  /\ new <= policy.sliding_window
  /\ new >= 2 * old \/ new = policy.sliding_window

\* The cache a step runs with has the size of a policy, and a cache that grew did so
\* as it should.
LEMMA ReadySize ==
  ASSUME IInv, cursor.cache_steps > 0
  PROVE  /\ Sized(Ready.cursor, config)
         /\ Ready.graph.cache_steps # graph.cache_steps =>
               GrowsWell(graph.cache_steps, Ready.graph.cache_steps, config)
  <1> DEFINE w == config.sliding_window
             v == cursor.valid_steps
             steps == target_cache_steps(config, v + 1)
             state == export_state(graph)
  <1>1. /\ w \in Nat \ {0} /\ Sized(cursor, config) /\ config \in Offline \cup Stream
        /\ config.min_cache_steps \in Nat \ {0}
    BY PolicyType DEF IInv
  <1>2. graph.cache_steps = cursor.cache_steps /\ v \in Nat /\ cursor.cache_steps \in Nat
    BY DEF IInv, Cache, Agree, CursorType
  <1>3. /\ steps \in 1..w
        /\ steps = w \/ steps \in PowersOf2(config)
        /\ steps >= Lesser(config.min_cache_steps, w)
    BY <1>1, <1>2, Capacity
  <1>4. CASE graph.cache_steps >= steps
    <2>1. Ready = [graph |-> graph, cursor |-> cursor]
      BY <1>4 DEF Ready
    <2> QED BY <1>1, <2>1
  <1>5. CASE ~(graph.cache_steps >= steps)
    <2>1. Ready = [graph  |-> import_state(DecodeStepGraph(steps), state),
                   cursor |-> ImportCursor(state, steps)]
      BY <1>5 DEF Ready
    <2>2. Ready.cursor.cache_steps = steps
      BY <2>1 DEF ImportCursor
    <2>3. Ready.graph.cache_steps = steps
      <3>1. DecodeStepGraph(steps).cache_steps = steps
        BY DEF DecodeStepGraph
      <3> DEFINE empty == DecodeStepGraph(steps)
      <3>2. Shape(empty)
        BY DEF DecodeStepGraph, Shape
      <3> DEFINE filled == [s \in DOMAIN empty.slots |->
                               IF s < state.valid_steps THEN state.key[s] ELSE Unwritten]
                 full == import_state(empty, state)
      <3>3. full = [empty EXCEPT !.valid_steps = state.valid_steps,
                                 !.current_end = state.current_end,
                                 !.slots = filled, !.prefix_uploaded = FALSE]
        BY DEF import_state
      <3> HIDE DEF empty, filled, full, state
      <3>4. full = [cache_steps |-> empty.cache_steps, valid_steps |-> state.valid_steps,
                    current_end |-> state.current_end, slots |-> filled,
                    visible |-> empty.visible, prefix_uploaded |-> FALSE]
        BY <3>2, <3>3 DEF Shape
      <3> QED BY <2>1, <3>1, <3>4 DEF full, empty, state
    <2>4. Sized(Ready.cursor, config)
      BY <1>3, <2>2 DEF Sized
    <2>5. config \notin Stream
      <3> SUFFICES ASSUME config \in Stream PROVE FALSE
        OBVIOUS
      <3>1. config.min_cache_steps = w
        BY DEF Stream, Policy
      <3>2. cursor.cache_steps >= w
        BY <1>1, <1>2, <3>1 DEF Sized, Lesser
      <3> HIDE DEF w, steps
      <3> QED BY <1>1, <1>2, <1>3, <1>5, <3>2
    <2>6. steps >= 2 * graph.cache_steps \/ steps = w
      <3>1. cursor.cache_steps # w
        BY <1>1, <1>2, <1>3, <1>5
      <3>2. cursor.cache_steps \in PowersOf2(config)
        BY <1>1, <3>1 DEF Sized
      <3>3. CASE steps \in PowersOf2(config)
        <4>1. cursor.cache_steps < steps
          BY <1>1, <1>2, <1>3, <1>5
        <4>2. \A a, b \in PowersOf2(config) : a < b => 2 * a <= b
          BY <1>1, PowersCover
        <4>3. 2 * cursor.cache_steps <= steps
          BY <3>2, <3>3, <4>1, <4>2
        <4> HIDE DEF steps
        <4> QED BY <1>1, <1>2, <1>3, <4>3
      <3> QED BY <1>3, <3>3
    <2> HIDE DEF steps, w
    <2> QED BY <1>1, <1>3, <2>3, <2>4, <2>5, <2>6 DEF GrowsWell, w
  <1> QED BY <1>4, <1>5

-----------------------------------------------------------------------------
(* A step: mask, write, attend, advance.                                    *)

\* The slot of a step is within the cache: the next free one, or in turn.
LEMMA StepSlot ==
  ASSUME NEW g, NEW c, NEW w \in Nat \ {0}, Cache(g, c, w), Roomy(c, w)
  PROVE  /\ c.valid_steps < c.cache_steps =>
               cache_slot(c) = c.valid_steps /\ c.absolute_end = c.valid_steps
         /\ ~(c.valid_steps < c.cache_steps) =>
               /\ c.valid_steps = w /\ c.cache_steps = w /\ c.absolute_end >= w
               /\ cache_slot(c) = c.absolute_end % w
         /\ cache_slot(c) \in 0..(c.cache_steps - 1)
         /\ c.absolute_end \in Nat /\ c.cache_steps \in 1..w /\ c.valid_steps \in 1..c.cache_steps
  <1>1. /\ c.absolute_end \in Nat /\ c.cache_steps \in 1..w /\ c.valid_steps \in 1..c.cache_steps
        /\ \/ c.absolute_end = c.valid_steps
           \/ c.valid_steps = w /\ c.absolute_end >= w
    BY DEF Cache, Agree, CursorType
  <1>2. CASE c.valid_steps < c.cache_steps
    BY <1>1, <1>2 DEF cache_slot
  <1>3. CASE ~(c.valid_steps < c.cache_steps)
    <2>1. c.valid_steps = w /\ c.cache_steps = w /\ c.absolute_end >= w
      BY <1>1, <1>3 DEF Roomy
    <2>2. cache_slot(c) = c.absolute_end % w
      BY <1>3, <2>1 DEF cache_slot
    <2>3. c.absolute_end % w \in 0..(w - 1)
      BY <1>1, Division
    <2> QED BY <1>1, <1>3, <2>1, <2>2, <2>3
  <1> QED BY <1>2, <1>3

\* The mask of a step shows the valid slots and the step's own.
LEMMA MaskedCache ==
  ASSUME NEW g, NEW c, NEW w \in Nat \ {0}, Cache(g, c, w), Roomy(c, w)
  PROVE  /\ Cache(Masked(g, c), c, w)
         /\ Masked(g, c).visible =
               IF c.valid_steps < c.cache_steps THEN 0..c.valid_steps ELSE 0..(c.valid_steps - 1)
         /\ Masked(g, c).cache_steps = g.cache_steps
  <1> DEFINE m == Masked(g, c)
             shown == IF c.valid_steps < c.cache_steps THEN 0..c.valid_steps
                      ELSE 0..(c.valid_steps - 1)
             seen == IF ~g.prefix_uploaded THEN 0..(c.valid_steps - 1) \cup {cache_slot(c)}
                     ELSE IF c.valid_steps < c.cache_steps THEN g.visible \cup {cache_slot(c)}
                     ELSE g.visible
  <1>1. /\ c.valid_steps < c.cache_steps => cache_slot(c) = c.valid_steps
        /\ ~(c.valid_steps < c.cache_steps) => c.valid_steps = c.cache_steps
        /\ cache_slot(c) \in 0..(c.cache_steps - 1)
        /\ c.valid_steps \in Nat
    BY StepSlot
  <1>2. seen = shown
    <2>1. CASE ~g.prefix_uploaded
      BY <1>1, <2>1
    <2>2. CASE g.prefix_uploaded
      <3>1. \/ g.visible = 0..(c.valid_steps - 1)
            \/ c.valid_steps < c.cache_steps /\ g.visible = 0..c.valid_steps
        BY <2>2 DEF Cache, MaskFits
      <3>2. CASE c.valid_steps < c.cache_steps
        <4>1. seen = g.visible \cup {c.valid_steps}
          BY <1>1, <2>2, <3>2
        <4>2. shown = 0..c.valid_steps
          BY <3>2
        <4> HIDE DEF seen, shown
        <4> QED BY <1>1, <3>1, <4>1, <4>2
      <3>3. CASE ~(c.valid_steps < c.cache_steps)
        BY <2>2, <3>1, <3>3
      <3> QED BY <3>2, <3>3
    <2> QED BY <2>1, <2>2
  <1>3. Shape(g)
    BY DEF Cache, Agree
  <1>4. m = [g EXCEPT !.prefix_uploaded = TRUE, !.visible = seen]
    BY DEF Masked
  <1> HIDE DEF m, seen, shown
  <1>5. m = [cache_steps |-> g.cache_steps, valid_steps |-> g.valid_steps,
             current_end |-> g.current_end, slots |-> g.slots,
             visible |-> seen, prefix_uploaded |-> TRUE]
    BY <1>3, <1>4 DEF Shape
  <1>6. Agree(m, c, w)
    <2>1. Shape(m)
      BY <1>5 DEF Shape
    <2> QED BY <1>5, <2>1 DEF Cache, Agree
  <1>7. Latest(m, c, w)
    BY <1>5 DEF Cache, Latest
  <1>8. MaskFits(m, c)
    BY <1>2, <1>5 DEF MaskFits, shown
  <1> QED BY <1>2, <1>5, <1>6, <1>7, <1>8 DEF Cache, m, shown

\* Writing the step's slot leaves the cache as described, also when the step then fails.
LEMMA WrittenCache ==
  ASSUME NEW g, NEW c, NEW w \in Nat \ {0}, Cache(g, c, w), Roomy(c, w)
  PROVE  /\ Cache(Written(g, c), c, w)
         /\ Written(g, c).visible = g.visible
         /\ Written(g, c).cache_steps = g.cache_steps
         /\ Written(g, c).slots[cache_slot(c)] = c.absolute_end
  <1> DEFINE n == Written(g, c)
             slot == cache_slot(c)
             slots == [g.slots EXCEPT ![slot] = c.absolute_end]
  <1>1. slot \in 0..(c.cache_steps - 1)
    BY StepSlot
  <1>2. Shape(g) /\ g.slots = [s \in 0..(c.cache_steps - 1) |-> g.slots[s]]
    BY DEF Cache, Agree, Latest
  <1>3. n = [g EXCEPT !.slots = slots]
    BY <1>2 DEF Written, Shape
  <1>4. /\ slots[slot] = c.absolute_end
        /\ \A s \in 0..(c.cache_steps - 1) : s # slot => slots[s] = g.slots[s]
        /\ slots = [s \in 0..(c.cache_steps - 1) |-> slots[s]]
    BY <1>1, <1>2
  <1> HIDE DEF n, slots
  <1>5. n = [cache_steps |-> g.cache_steps, valid_steps |-> g.valid_steps,
             current_end |-> g.current_end, slots |-> slots,
             visible |-> g.visible, prefix_uploaded |-> g.prefix_uploaded]
    BY <1>2, <1>3 DEF Shape
  <1>6. Agree(n, c, w)
    <2>1. Shape(n)
      BY <1>5 DEF Shape
    <2> QED BY <1>5, <2>1 DEF Cache, Agree
  <1>7. Latest(n, c, w)
    <2> SUFFICES ASSUME NEW s \in 0..(c.valid_steps - 1)
                 PROVE  \/ c.valid_steps = w /\ s = c.absolute_end % w
                        \/ /\ slots[s] \in (c.absolute_end - c.valid_steps)..(c.absolute_end - 1)
                           /\ slots[s] % c.cache_steps = s
      BY <1>4, <1>5 DEF Latest
    <2>1. /\ c.valid_steps < c.cache_steps => slot = c.valid_steps
          /\ ~(c.valid_steps < c.cache_steps) => c.valid_steps = w /\ slot = c.absolute_end % w
          /\ c.cache_steps \in 1..w /\ c.valid_steps \in 1..c.cache_steps
      BY StepSlot
    <2>2. s = slot => c.valid_steps = w /\ s = c.absolute_end % w
      BY <2>1
    <2>3. s \in 0..(c.cache_steps - 1)
      BY <2>1
    <2>4. s # slot => slots[s] = g.slots[s]
      BY <1>4, <2>3
    <2> QED BY <2>2, <2>4 DEF Cache, Latest
  <1>8. MaskFits(n, c)
    BY <1>5 DEF Cache, MaskFits
  <1> QED BY <1>4, <1>5, <1>6, <1>7, <1>8 DEF Cache, n

\* In a full ring, every slot but the one a step writes holds a position of the window
\* that ends with the step.
LEMMA RestOfTheRing ==
  ASSUME NEW g, NEW c, NEW w \in Nat \ {0}, Cache(g, c, w), c.valid_steps = w,
         NEW s \in 0..(w - 1), s # c.absolute_end % w
  PROVE  /\ g.slots[s] \in (c.absolute_end + 1 - w)..(c.absolute_end - 1)
         /\ g.slots[s] % w = s
  <1>1. c.absolute_end \in Nat /\ c.absolute_end >= w /\ c.cache_steps = w
    BY DEF Cache, Agree, CursorType
  <1>2. g.slots[s] \in (c.absolute_end - w)..(c.absolute_end - 1) /\ g.slots[s] % w = s
    BY <1>1 DEF Cache, Latest
  <1> DEFINE old == c.absolute_end - w
  <1>3. old \in Nat /\ c.absolute_end = old + w
    BY <1>1
  <1>4. old % w = c.absolute_end % w
    BY <1>1, <1>3, OneTurnBefore
  <1>5. g.slots[s] # c.absolute_end - w
    BY <1>2, <1>4
  <1> QED BY <1>1, <1>2, <1>5

\* A step attends to the window that ends with its own position.
LEMMA Attention ==
  ASSUME NEW g, NEW c, NEW w \in Nat \ {0}, Cache(g, c, w), Roomy(c, w),
         g.slots[cache_slot(c)] = c.absolute_end,
         g.visible = IF c.valid_steps < c.cache_steps THEN 0..c.valid_steps
                     ELSE 0..(c.valid_steps - 1)
  PROVE  {g.slots[s] : s \in g.visible} = Window(c.absolute_end, w)
  <1> DEFINE e == c.absolute_end
             v == c.valid_steps
  <1>0. e \in Nat /\ c.cache_steps \in 1..w /\ v \in 1..c.cache_steps
    BY StepSlot
  <1>1. CASE v < c.cache_steps
    <2>1. cache_slot(c) = v /\ e = v
      BY <1>1, StepSlot
    <2>2. g.visible = 0..v
      BY <1>1
    <2>3. Window(e, w) = 0..v
      BY <1>0, <1>1, <2>1 DEF Window, Greater
    <2>4. \A s \in 0..v : g.slots[s] = s
      <3> SUFFICES ASSUME NEW s \in 0..v PROVE g.slots[s] = s
        OBVIOUS
      <3>1. CASE s = v
        BY <2>1, <3>1
      <3>2. CASE s # v
        <4>1. s \in 0..(v - 1) /\ v # w /\ e - v = 0 /\ e - 1 = v - 1
          BY <1>0, <1>1, <2>1, <3>2
        <4>2. g.slots[s] \in (e - v)..(e - 1) /\ g.slots[s] % c.cache_steps = s
          BY <4>1 DEF Cache, Latest
        <4>3. g.slots[s] \in Nat /\ g.slots[s] < c.cache_steps /\ c.cache_steps \in Nat \ {0}
          BY <1>0, <1>1, <4>1, <4>2
        <4> QED BY <4>2, <4>3, Division
      <3> QED BY <3>1, <3>2
    <2>5. {g.slots[s] : s \in 0..v} = 0..v
      <3> HIDE DEF v
      <3> QED BY <2>4
    <2> QED BY <2>2, <2>3, <2>5
  <1>2. CASE ~(v < c.cache_steps)
    <2>1. v = w /\ c.cache_steps = w /\ e >= w /\ cache_slot(c) = e % w
      BY <1>2, StepSlot
    <2>2. g.visible = 0..(w - 1)
      BY <1>2, <2>1
    <2>3. Window(e, w) = (e + 1 - w)..e
      BY <1>0, <2>1 DEF Window, Greater
    <2>4. \A s \in 0..(w - 1) : g.slots[s] \in (e + 1 - w)..e /\ g.slots[s] % w = s
      <3> SUFFICES ASSUME NEW s \in 0..(w - 1)
                   PROVE  g.slots[s] \in (e + 1 - w)..e /\ g.slots[s] % w = s
        OBVIOUS
      <3>1. CASE s = e % w
        BY <1>0, <2>1, <3>1
      <3>2. CASE s # e % w
        <4>1. g.slots[s] \in (e + 1 - w)..(e - 1) /\ g.slots[s] % w = s
          BY <2>1, <3>2, RestOfTheRing
        <4> QED BY <1>0, <2>1, <4>1
      <3> QED BY <3>1, <3>2
    <2>5. \A p \in (e + 1 - w)..e : \E s \in 0..(w - 1) : g.slots[s] = p
      <3> SUFFICES ASSUME NEW p \in (e + 1 - w)..e
                   PROVE  \E s \in 0..(w - 1) : g.slots[s] = p
        OBVIOUS
      <3>1. p \in Nat
        BY <1>0, <2>1
      <3>2. p % w \in 0..(w - 1)
        BY <3>1, Division
      <3> DEFINE q == g.slots[p % w]
      <3>3. q \in (e + 1 - w)..e /\ q % w = p % w
        BY <2>4, <3>2
      <3> HIDE DEF q
      <3>4. q \in Nat /\ p - q < w /\ q - p < w
        <4>1. p \in Int /\ q \in Int /\ p >= e + 1 - w /\ q >= e + 1 - w /\ p <= e /\ q <= e
              /\ e + 1 - w >= 1
          BY <1>0, <2>1, <3>3
        <4> HIDE DEF e
        <4> QED BY <1>0, <4>1
      <3>5. p = q
        BY <3>1, <3>3, <3>4, SlotsAreDistinct
      <3> QED BY <3>2, <3>5 DEF q
    <2>6. {g.slots[s] : s \in 0..(w - 1)} = (e + 1 - w)..e
      <3> HIDE DEF e
      <3> QED BY <2>4, <2>5
    <2> QED BY <2>2, <2>3, <2>6
  <1> QED BY <1>1, <1>2

\* After a step the cache is as described, for the next one.
LEMMA AdvancedCache ==
  ASSUME NEW g, NEW c, NEW w \in Nat \ {0}, Cache(g, c, w), Roomy(c, w),
         g.slots[cache_slot(c)] = c.absolute_end,
         g.visible = IF c.valid_steps < c.cache_steps THEN 0..c.valid_steps
                     ELSE 0..(c.valid_steps - 1)
  PROVE  /\ Cache(AdvanceCache(g, c), AdvanceCursor(c), w)
         /\ AdvanceCursor(c).absolute_end = c.absolute_end + 1
         /\ AdvanceCursor(c).cache_steps = c.cache_steps
         /\ AdvanceCache(g, c).cache_steps = g.cache_steps
  <1> DEFINE e == c.absolute_end
             v == c.valid_steps
             n == AdvanceCache(g, c)
             d == AdvanceCursor(c)
  <1>0. e \in Nat /\ c.cache_steps \in 1..w /\ v \in 1..c.cache_steps /\ c \in CursorType /\ Shape(g)
        /\ g.cache_steps = c.cache_steps /\ g.valid_steps = v
    BY StepSlot DEF Cache, Agree
  <1>1. CASE v < c.cache_steps
    <2>1. cache_slot(c) = v /\ e = v /\ g.current_end = v /\ v # w
      BY <1>0, <1>1, StepSlot DEF Cache, Agree
    <2>2. d \in CursorType /\ d.valid_steps = v + 1 /\ d.absolute_end = v + 1
          /\ d.cache_steps = c.cache_steps
      <3>1. d = [c EXCEPT !.valid_steps = v + 1, !.absolute_end = e + 1]
        BY <1>0, <1>1 DEF AdvanceCursor, CursorType
      <3> HIDE DEF d
      <3>2. d = [valid_steps |-> v + 1, absolute_end |-> e + 1, cache_steps |-> c.cache_steps]
        BY <1>0, <3>1 DEF CursorType
      <3> QED BY <1>0, <2>1, <3>2 DEF CursorType
    <2>3. n = [g EXCEPT !.valid_steps = v + 1, !.current_end = v + 1]
      BY <1>0, <1>1, <2>1 DEF AdvanceCache, Shape
    <2> HIDE DEF n, d
    <2>4. n = [cache_steps |-> g.cache_steps, valid_steps |-> v + 1, current_end |-> v + 1,
               slots |-> g.slots, visible |-> g.visible, prefix_uploaded |-> g.prefix_uploaded]
      BY <1>0, <2>3 DEF Shape
    <2>5. Shape(n)
      BY <2>4 DEF Shape
    <2>6. Agree(n, d, w)
      BY <1>0, <1>1, <2>2, <2>4, <2>5 DEF Agree
    <2>7. \A s \in 0..v : g.slots[s] \in 0..v /\ g.slots[s] % c.cache_steps = s
      <3> SUFFICES ASSUME NEW s \in 0..v
                   PROVE  g.slots[s] \in 0..v /\ g.slots[s] % c.cache_steps = s
        OBVIOUS
      <3>1. CASE s = v
        <4>1. v \in Nat /\ c.cache_steps \in Nat \ {0}
          BY <1>0
        <4>2. v % c.cache_steps = v
          BY <1>1, <4>1, Division
        <4> QED BY <1>0, <2>1, <3>1, <4>1, <4>2
      <3>2. CASE s # v
        <4>1. s \in 0..(v - 1) /\ e - v = 0 /\ e - 1 = v - 1
          BY <1>0, <2>1, <3>2
        <4>2. g.slots[s] \in (e - v)..(e - 1) /\ g.slots[s] % c.cache_steps = s
          BY <2>1, <4>1 DEF Cache, Latest
        <4> QED BY <1>0, <4>1, <4>2
      <3> QED BY <3>1, <3>2
    <2>8. Latest(n, d, w)
      <3>1. n.slots = [s \in 0..(d.cache_steps - 1) |-> n.slots[s]]
        BY <2>2, <2>4 DEF Cache, Latest
      <3>2. d.absolute_end - d.valid_steps = 0 /\ d.absolute_end - 1 = v /\ d.valid_steps - 1 = v
        BY <1>0, <2>2
      <3>3. n.slots = g.slots
        BY <2>4
      <3> QED BY <2>2, <2>7, <3>1, <3>2, <3>3 DEF Latest
    <2>9. MaskFits(n, d)
      <3>1. n.visible = 0..v /\ d.valid_steps - 1 = v
        BY <1>0, <1>1, <2>2, <2>4
      <3> QED BY <3>1 DEF MaskFits
    <2> QED BY <2>1, <2>2, <2>4, <2>6, <2>8, <2>9 DEF Cache, n, d
  <1>2. CASE ~(v < c.cache_steps)
    <2>1. v = w /\ c.cache_steps = w /\ e >= w /\ cache_slot(c) = e % w
      BY <1>2, StepSlot
    <2>2. d \in CursorType /\ d.valid_steps = w /\ d.absolute_end = e + 1 /\ d.cache_steps = w
      <3>1. d = [c EXCEPT !.valid_steps = v, !.absolute_end = e + 1]
        BY <1>0, <1>2 DEF AdvanceCursor, CursorType
      <3> HIDE DEF d
      <3>2. d = [valid_steps |-> v, absolute_end |-> e + 1, cache_steps |-> c.cache_steps]
        BY <1>0, <3>1 DEF CursorType
      <3> QED BY <1>0, <2>1, <3>2 DEF CursorType
    <2>3. n = g
      BY <1>2 DEF AdvanceCache
    <2> HIDE DEF n, d
    <2>4. Agree(n, d, w)
      BY <1>0, <2>1, <2>2, <2>3 DEF Agree
    <2>5. \A s \in 0..(w - 1) : g.slots[s] \in (e + 1 - w)..e /\ g.slots[s] % w = s
      <3> SUFFICES ASSUME NEW s \in 0..(w - 1)
                   PROVE  g.slots[s] \in (e + 1 - w)..e /\ g.slots[s] % w = s
        OBVIOUS
      <3>1. CASE s = e % w
        BY <1>0, <2>1, <3>1
      <3>2. CASE s # e % w
        <4>1. g.slots[s] \in (e + 1 - w)..(e - 1) /\ g.slots[s] % w = s
          BY <2>1, <3>2, RestOfTheRing
        <4> QED BY <1>0, <2>1, <4>1
      <3> QED BY <3>1, <3>2
    <2>6. Latest(n, d, w)
      <3>1. n.slots = [s \in 0..(d.cache_steps - 1) |-> n.slots[s]]
        BY <2>1, <2>2, <2>3 DEF Cache, Latest
      <3>2. d.absolute_end - d.valid_steps = e + 1 - w /\ d.absolute_end - 1 = e
        BY <1>0, <2>1, <2>2
      <3> QED BY <2>2, <2>3, <2>5, <3>1, <3>2 DEF Latest
    <2>7. MaskFits(n, d)
      <3>1. n.visible = 0..(d.valid_steps - 1)
        BY <1>2, <2>1, <2>2, <2>3
      <3> QED BY <3>1 DEF MaskFits
    <2> QED BY <2>1, <2>2, <2>3, <2>4, <2>6, <2>7 DEF Cache, n, d
  <1> QED BY <1>1, <1>2

-----------------------------------------------------------------------------
(* The invariant.                                                           *)

\* What a step runs with, and may leave when it fails: the cache made ready, masked,
\* and written.
LEMMA StepCache ==
  ASSUME IInv, CanStep,
         NEW r, r = Ready, NEW m, m = Masked(r.graph, r.cursor),
         NEW n, n = Written(m, r.cursor), NEW w, w = config.sliding_window
  PROVE  /\ w \in Nat \ {0} /\ Roomy(r.cursor, w)
         /\ Cache(r.graph, r.cursor, w) /\ Cache(m, r.cursor, w) /\ Cache(n, r.cursor, w)
         /\ Sized(r.cursor, config)
         /\ r.cursor \in CursorType /\ r.cursor.cache_steps > 0
         /\ r.cursor.absolute_end = cursor.absolute_end
         /\ m.cache_steps = r.graph.cache_steps /\ n.cache_steps = r.graph.cache_steps
         /\ n.slots[cache_slot(r.cursor)] = r.cursor.absolute_end
         /\ n.visible = IF r.cursor.valid_steps < r.cursor.cache_steps
                        THEN 0..r.cursor.valid_steps ELSE 0..(r.cursor.valid_steps - 1)
  <1>1. w \in Nat \ {0} /\ cursor.cache_steps > 0
    BY PolicyType DEF IInv, CanStep
  <1>2. Cache(r.graph, r.cursor, w) /\ Roomy(r.cursor, w)
        /\ r.cursor.absolute_end = cursor.absolute_end
    BY <1>1, ReadyCache
  <1>3. Sized(r.cursor, config)
    BY <1>1, ReadySize
  <1>4. /\ Cache(m, r.cursor, w) /\ m.cache_steps = r.graph.cache_steps
        /\ m.visible = IF r.cursor.valid_steps < r.cursor.cache_steps
                       THEN 0..r.cursor.valid_steps ELSE 0..(r.cursor.valid_steps - 1)
    BY <1>1, <1>2, MaskedCache
  <1>5. /\ Cache(n, r.cursor, w) /\ n.cache_steps = m.cache_steps /\ n.visible = m.visible
        /\ n.slots[cache_slot(r.cursor)] = r.cursor.absolute_end
    <2>1. Cache(m, r.cursor, w)
      BY <1>4
    <2> QED BY <1>1, <1>2, <2>1, WrittenCache
  <1>6. r.cursor \in CursorType /\ r.cursor.cache_steps > 0
    BY <1>1, <1>2 DEF Cache, Agree, CursorType
  <1> QED BY <1>1, <1>2, <1>3, <1>4, <1>5, <1>6

\* What a step does: it attends to the window that ends with its position, leaves the
\* cache as described, and goes on to the next position.
LEMMA StepEffect ==
  ASSUME IInv, Step
  PROVE  /\ config' = config
         /\ Cache(graph', cursor', config.sliding_window) /\ Sized(cursor', config)
         /\ cursor' \in CursorType
         /\ cursor'.absolute_end = cursor.absolute_end + 1
         /\ attended' = Window(cursor.absolute_end, config.sliding_window)
         /\ graph'.cache_steps = Ready.graph.cache_steps
  <1> DEFINE r == Ready
             m == Masked(r.graph, r.cursor)
             n == Written(m, r.cursor)
             w == config.sliding_window
  <1>1. /\ config' = config /\ CanStep
        /\ graph' = AdvanceCache(n, r.cursor)
        /\ cursor' = AdvanceCursor(r.cursor)
        /\ attended' = {n.slots[s] : s \in n.visible}
    BY DEF Step
  <1> HIDE DEF r, m, n
  <1>2. /\ w \in Nat \ {0} /\ Roomy(r.cursor, w) /\ Cache(n, r.cursor, w)
        /\ Sized(r.cursor, config)
        /\ r.cursor.absolute_end = cursor.absolute_end
        /\ n.cache_steps = r.graph.cache_steps
        /\ n.slots[cache_slot(r.cursor)] = r.cursor.absolute_end
        /\ n.visible = IF r.cursor.valid_steps < r.cursor.cache_steps
                       THEN 0..r.cursor.valid_steps ELSE 0..(r.cursor.valid_steps - 1)
    BY <1>1, StepCache DEF r, m, n
  <1> HIDE DEF w
  <1>3. attended' = Window(cursor.absolute_end, w)
    <2>1. {n.slots[s] : s \in n.visible} = Window(r.cursor.absolute_end, w)
      BY <1>2, Attention
    <2> QED BY <1>1, <1>2, <2>1
  <1>4. /\ Cache(graph', cursor', w)
        /\ cursor'.absolute_end = cursor.absolute_end + 1
        /\ cursor'.cache_steps = r.cursor.cache_steps
        /\ graph'.cache_steps = r.graph.cache_steps
    BY <1>1, <1>2, AdvancedCache
  <1>5. Sized(cursor', config)
    BY <1>2, <1>4 DEF Sized
  <1>6. cursor' \in CursorType
    BY <1>4 DEF Cache, Agree
  <1> QED BY <1>1, <1>3, <1>4, <1>5, <1>6 DEF r, w

\* What a failed step leaves: the cursor as it was made ready, and a cache to try
\* again with.
LEMMA FailureEffect ==
  ASSUME IInv, StepFails
  PROVE  /\ config' = config /\ attended' = {}
         /\ Cache(graph', cursor', config.sliding_window) /\ Sized(cursor', config)
         /\ cursor' \in CursorType
         /\ graph'.cache_steps = Ready.graph.cache_steps
  <1> DEFINE r == Ready
             m == Masked(r.graph, r.cursor)
             n == Written(m, r.cursor)
  <1>1. /\ config' = config /\ CanStep /\ attended' = {}
        /\ graph' \in {r.graph, m, n} /\ cursor' = r.cursor
    BY DEF StepFails
  <1> HIDE DEF r, m, n
  <1>2. /\ Cache(r.graph, r.cursor, config.sliding_window)
        /\ Cache(m, r.cursor, config.sliding_window)
        /\ Cache(n, r.cursor, config.sliding_window)
        /\ Sized(r.cursor, config) /\ r.cursor \in CursorType
        /\ m.cache_steps = r.graph.cache_steps /\ n.cache_steps = r.graph.cache_steps
    BY <1>1, StepCache DEF r, m, n
  <1> QED BY <1>1, <1>2 DEF r

\* A decoding that begins has the positions of its prompt in the cache, or no cursor.
LEMMA BeginEffect ==
  ASSUME NEW c \in Offline \cup Stream, NEW prompt \in Prompts, Begin(c, prompt)
  PROVE  IInv'
  <1> DEFINE steps == target_cache_steps(c, prompt)
             state == PrefillState(prompt)
             w == c.sliding_window
             key == [s \in 0..(prompt - 1) |-> s]
  <1>1. prompt \in Nat \ {0} /\ w \in Nat \ {0}
    BY StepsAssumption, PolicyType
  <1>2. /\ steps \in 1..w
        /\ steps = w \/ steps \in PowersOf2(c)
        /\ steps >= Lesser(c.min_cache_steps, w)
    BY <1>1, Capacity
  <1>3. config' = c /\ attended' = {}
    BY DEF Begin
  <1>4. CASE /\ prompt <= steps
             /\ graph' = import_state(DecodeStepGraph(steps), state)
             /\ cursor' = ImportCursor(state, steps)
    <2>1. state = [valid_steps |-> prompt, current_end |-> prompt, key |-> key]
      BY DEF PrefillState
    <2>2. \A s \in 0..(prompt - 1) : key[s] = s
      OBVIOUS
    <2>3. prompt \in 1..steps
      BY <1>1, <1>2, <1>4
    <2> HIDE DEF steps, state, key, w
    <2>4. Cache(graph', cursor', w) /\ cursor'.cache_steps = steps
      BY <1>1, <1>2, <1>4, <2>1, <2>2, <2>3, Imported
    <2>5. Sized(cursor', c)
      BY <1>2, <2>4 DEF Sized, w
    <2>6. cursor' \in CursorType
      BY <2>4 DEF Cache, Agree
    <2> QED BY <1>3, <2>4, <2>5, <2>6 DEF IInv, AttendsToTheWindow, w, Sized, PowersOf2
  <1>5. CASE cursor' = NoCursor
    BY <1>3, <1>5 DEF IInv, AttendsToTheWindow, NoCursor, CursorType
  <1> QED BY <1>4, <1>5 DEF Begin

\* Before a decoding begins there is no cursor.
LEMMA InitInv ==
  ASSUME Init PROVE IInv
  BY DEF Init, IInv, NoCursor, CursorType, AttendsToTheWindow

\* Every step leaves the invariant true.
LEMMA StepInv ==
  ASSUME IInv, [Next]_vars PROVE IInv'
  <1>1. ASSUME NEW c \in Offline \cup Stream, NEW prompt \in Prompts, Begin(c, prompt)
        PROVE  IInv'
    BY <1>1, BeginEffect
  <1>2. ASSUME NEW c \in Offline \cup Stream, BeginFails(c) PROVE IInv'
    BY <1>2 DEF BeginFails, IInv, NoCursor, CursorType, AttendsToTheWindow
  <1>3. CASE Step
    <2>1. config \in Offline \cup Stream /\ cursor \in CursorType
      BY DEF IInv
    <2>2. /\ config' = config /\ cursor' \in CursorType
          /\ Cache(graph', cursor', config.sliding_window) /\ Sized(cursor', config)
          /\ cursor'.absolute_end = cursor.absolute_end + 1
          /\ attended' = Window(cursor.absolute_end, config.sliding_window)
      BY <1>3, StepEffect
    <2>3. cursor'.absolute_end - 1 = cursor.absolute_end
      BY <2>1, <2>2 DEF CursorType
    <2>4. AttendsToTheWindow'
      BY <2>2, <2>3 DEF AttendsToTheWindow
    <2> QED BY <2>1, <2>2, <2>4 DEF IInv
  <1>4. CASE StepFails
    <2>1. /\ config' = config /\ attended' = {} /\ cursor' \in CursorType
          /\ Cache(graph', cursor', config.sliding_window) /\ Sized(cursor', config)
      BY <1>4, FailureEffect
    <2>2. AttendsToTheWindow'
      BY <2>1 DEF AttendsToTheWindow
    <2> QED BY <2>1, <2>2 DEF IInv
  <1>5. CASE UNCHANGED vars
    BY <1>5 DEF vars, IInv, AttendsToTheWindow
  <1> QED BY <1>1, <1>2, <1>3, <1>4, <1>5 DEF Next

\* The cache and the cursors are as described in every state (CachedDecodeRuntime,
\* BoundedStaticKVDecodePolicy and TransformerKVCache).
THEOREM Invariant == Spec => []IInv
  BY InitInv, StepInv, PTL DEF Spec

\* Through growth, failed steps and any number of turns of the ring, a decoding step
\* attends to exactly the latest positions of the window.
THEOREM DecodingAttends == Spec => []AttendsToTheWindow
  <1>1. IInv => AttendsToTheWindow
    BY DEF IInv
  <1> QED BY <1>1, Invariant, PTL

\* Tokens get consecutive positions, also across the growth of the cache.
THEOREM PositionsFollow == Spec => PositionsAreConsecutive
  <1>1. ASSUME IInv, [Next]_vars
        PROVE  [attended' # {} /\ cursor' # cursor
                   => cursor'.absolute_end = cursor.absolute_end + 1]_vars
    <2>1. CASE Step
      BY <1>1, <2>1, StepEffect
    <2>2. CASE ~Step
      BY <1>1, <2>2 DEF Next, vars, Begin, BeginFails, StepFails
    <2> QED BY <2>1, <2>2
  <1> QED BY <1>1, Invariant, PTL DEF Spec, PositionsAreConsecutive

\* The graph of a live stream is never built again, and that of an offline run grows to
\* at least twice its size or to the window (grow_for_next_step).
THEOREM GraphsAreKept == Spec => RebuildsAreRare
  <1>1. ASSUME IInv, [Next]_vars
        PROVE  [CanStep /\ (Step \/ StepFails) /\ graph'.cache_steps # graph.cache_steps
                   => /\ config \notin Stream
                      /\ graph'.cache_steps <= config.sliding_window
                      /\ \/ graph'.cache_steps >= 2 * graph.cache_steps
                         \/ graph'.cache_steps = config.sliding_window]_vars
    <2>1. ASSUME CanStep, Step \/ StepFails, graph'.cache_steps # graph.cache_steps
          PROVE  GrowsWell(graph.cache_steps, graph'.cache_steps, config)
      <3>1. graph'.cache_steps = Ready.graph.cache_steps
        BY <1>1, <2>1, StepEffect, FailureEffect
      <3> QED BY <1>1, <2>1, <3>1, ReadySize DEF CanStep
    <2> QED BY <2>1 DEF GrowsWell
  <1> QED BY <1>1, Invariant, PTL DEF Spec, RebuildsAreRare
=============================================================================
