----------------------------- MODULE TimerProofs -----------------------------
(***************************************************************************)
(* Proofs about Timer, for any number of tickers, adders, tasks and        *)
(* wheels, any tick and any delays that the wheels reach.                  *)
(*                                                                         *)
(* The clocks first: Created() and Advanced(), recursive over the wheels,  *)
(* keep ClocksAgree, so that add() comes to exactly one wheel.  Then Inv:  *)
(* its parts about entries give EntriesConserved; Waiting and Expirations  *)
(* together give NothingForgotten, since a setExpiration() that does not   *)
(* offer a bucket relies on the offer that set its expiration.  Last       *)
(* Punctual, which holds until a bucket is overtaken: a bucket that is set *)
(* is in one place of its way from the offer to the flush, all its entries *)
(* are of one round, and the first clock is not ahead of the time.         *)
(***************************************************************************)
EXTENDS Timer, FiniteSetTheorems, TLAPS

-----------------------------------------------------------------------------
(* Induction over an interval, from the least element of a set of naturals. *)

(* A set of naturals that is not empty has a least element. *)
LEMMA Least ==
    ASSUME NEW S \in SUBSET Nat, S # {}
    PROVE  \E n \in S : \A m \in S : n <= m
<1>1. IsWellFoundedOn(OpToRel(<, Nat), Nat)
  BY NatLessThanWellFounded
<1>2. \E x \in S : \A y \in S : ~ (<<y, x>> \in OpToRel(<, Nat))
  BY <1>1, WFMin
<1>3. PICK x \in S : \A y \in S : ~ (<<y, x>> \in OpToRel(<, Nat))
  BY <1>2
<1>4. \A y \in S : ~ (y < x)
  BY <1>3 DEF OpToRel
<1> QED
  BY <1>4

(* What has 0 and with every number of an interval the next has them all. *)
LEMMA UpTo ==
    ASSUME NEW n \in Nat, NEW S, 0 \in S, \A i \in 1..n : i - 1 \in S => i \in S
    PROVE  0..n \subseteq S
<1> DEFINE out == {i \in 0..n : i \notin S}
<1> SUFFICES ASSUME out # {} PROVE FALSE
  OBVIOUS
<1>1. PICK i \in out : \A m \in out : i <= m
  <2>1. out \in SUBSET Nat
    OBVIOUS
  <2> HIDE DEF out
  <2> QED
    BY <2>1, Least
<1>2. i \in 1..n
  BY <1>1
<1>3. i - 1 \in 0..n /\ ~ (i <= i - 1)
  BY <1>2
<1>4. i - 1 \in S
  BY <1>1, <1>3
<1> QED
  BY <1>1, <1>2, <1>4

(* Primitive recursion defines a function on an interval. *)
Recursive(n, T, x, step) ==
    {f \in [0..n -> T] : f[0] = x /\ \A i \in 1..n : f[i] = step[i][f[i - 1]]}

LEMMA Recursion ==
    ASSUME NEW n \in Nat, NEW T, NEW x \in T, NEW step \in [1..n -> [T -> T]]
    PROVE  Recursive(n, T, x, step) # {}
<1> DEFINE Ok(m) == {f \in [0..m -> T] : f[0] = x /\ \A i \in 1..m : f[i] = step[i][f[i - 1]]}
           S == {m \in 0..n : Ok(m) # {}}
<1>1. 0 \in S
  <2>1. [i \in 0..0 |-> x] \in Ok(0)
    OBVIOUS
  <2> QED
    BY <2>1
<1>2. ASSUME NEW m \in 1..n, m - 1 \in S PROVE m \in S
  <2>1. PICK f \in Ok(m - 1) : TRUE
    BY <1>2
  <2> DEFINE g == [i \in 0..m |-> IF i = m THEN step[m][f[m - 1]] ELSE f[i]]
  <2>2. f \in [0..(m - 1) -> T] /\ f[0] = x /\ \A i \in 1..(m - 1) : f[i] = step[i][f[i - 1]]
    BY <2>1
  <2>3. f[m - 1] \in T /\ step[m][f[m - 1]] \in T
    BY <1>2, <2>2
  <2>4. \A i \in 0..(m - 1) : g[i] = f[i] /\ i \in 0..m /\ i # m
    BY <1>2
  <2>5. g[m] = step[m][f[m - 1]]
    BY <1>2
  <2>6. g \in [0..m -> T]
    <3>1. \A i \in 0..m : i # m => f[i] \in T
      BY <1>2, <2>2
    <3> QED
      BY <2>3, <3>1
  <2>7. g[0] = x
    BY <1>2, <2>2, <2>4
  <2>8. ASSUME NEW i \in 1..m PROVE g[i] = step[i][g[i - 1]]
    <3>1. i - 1 \in 0..(m - 1) /\ g[i - 1] = f[i - 1]
      BY <1>2, <2>8, <2>4
    <3>2. CASE i = m
      BY <3>1, <3>2, <2>5
    <3>3. CASE i # m
      <4>1. i \in 1..(m - 1) /\ i \in 0..(m - 1)
        BY <1>2, <2>8, <3>3
      <4> HIDE DEF g
      <4> QED
        BY <4>1, <3>1, <2>4, <2>2
    <3> QED
      BY <3>2, <3>3
  <2>9. g \in Ok(m)
    <3> HIDE DEF g
    <3> QED
      BY <2>6, <2>7, <2>8
  <2> HIDE DEF Ok
  <2> QED
    BY <1>2, <2>9
<1>3. n \in S
  <2> HIDE DEF S
  <2>1. 0..n \subseteq S
    BY <1>1, <1>2, UpTo
  <2> QED
    BY <2>1
<1> QED
  BY <1>3 DEF Recursive

-----------------------------------------------------------------------------
(* Rounding down. *)

LEMMA Division ==
    ASSUME NEW x \in Nat, NEW w \in Nat \ {0}
    PROVE  x = w * (x \div w) + (x % w) /\ x % w \in 0..(w - 1) /\ x \div w \in Nat
OBVIOUS

LEMMA Times ==
    ASSUME NEW w \in Nat \ {0}, NEW p \in Nat, NEW q \in Nat, p < q
    PROVE  w * p + w <= w * q
<1>1. PICK d \in Nat : q = p + 1 + d
  <2>1. q - p - 1 \in Nat /\ q = p + 1 + (q - p - 1)
    OBVIOUS
  <2> QED
    BY <2>1
<1>2. w * q = w * p + w + w * d
  BY <1>1
<1>3. w * d \in Nat
  OBVIOUS
<1>4. w * p \in Nat
  OBVIOUS
<1> QED
  BY <1>2, <1>3, <1>4

(* The multiples around a number. *)
LEMMA Multiples ==
    ASSUME NEW w \in Nat \ {0}, NEW p \in Nat, NEW q \in Nat, NEW r \in 0..(w - 1),
           w * p <= w * q + r, w * q + r < w * p + w
    PROVE  p = q
<1>1. w * p \in Nat /\ w * q \in Nat
  OBVIOUS
<1>2. ~ (p < q)
  <2>1. p < q => w * p + w <= w * q
    BY Times
  <2> QED
    BY <2>1, <1>1
<1>3. ~ (q < p)
  <2>1. q < p => w * q + w <= w * p
    BY Times
  <2> QED
    BY <2>1, <1>1
<1> QED
  BY <1>2, <1>3

(* floorTo() gives a multiple, less than a step below. *)
LEMMA Floor ==
    ASSUME NEW x \in Nat, NEW w \in Nat \ {0}
    PROVE  /\ floorTo(x, w) \in Nat
           /\ floorTo(x, w) % w = 0
           /\ floorTo(x, w) <= x /\ x < floorTo(x, w) + w
<1> DEFINE q == x \div w
           r == x % w
           y == w * q
           p == y \div w
<1>1. x = y + r /\ r \in 0..(w - 1) /\ q \in Nat
  BY Division
<1> HIDE DEF q, r
<1>2. y \in Nat
  BY <1>1
<1>3. floorTo(x, w) = y
  BY <1>1, <1>2 DEF floorTo, r
<1>4. y = w * p + (y % w) /\ y % w \in 0..(w - 1) /\ p \in Nat
  BY <1>2, Division
<1>5. q = p
  <2> DEFINE s == y % w
  <2>1. w * q = w * p + s /\ s \in 0..(w - 1) /\ w * p \in Nat
    BY <1>4
  <2> HIDE DEF s, p
  <2>2. w * q <= w * p + s /\ w * p + s < w * q + w
    BY <2>1
  <2> QED
    BY <2>1, <2>2, <1>1, <1>4, Multiples
<1>6. y % w = 0
  <2>1. \A u \in Nat, v \in Nat : u = u + v => v = 0
    OBVIOUS
  <2>2. y = y + (y % w) /\ y % w \in Nat
    BY <1>4, <1>5
  <2> QED
    BY <1>2, <2>1, <2>2
<1> QED
  BY <1>1, <1>2, <1>3, <1>6

(* It is the only such multiple. *)
LEMMA FloorOnly ==
    ASSUME NEW x \in Nat, NEW w \in Nat \ {0}, NEW y \in Nat, y % w = 0, y <= x, x < y + w
    PROVE  y = floorTo(x, w)
<1> DEFINE q == x \div w
           r == x % w
           p == y \div w
<1>1. x = w * q + r /\ r \in 0..(w - 1) /\ q \in Nat
  BY Division
<1>2. y = w * p + 0 /\ p \in Nat
  BY Division
<1> HIDE DEF q, r, p
<1>3. w * p <= w * q + r /\ w * q + r < w * p + w
  BY <1>1, <1>2
<1>4. p = q
  BY <1>1, <1>2, <1>3, Multiples
<1> QED
  BY <1>1, <1>2, <1>4 DEF floorTo, r

-----------------------------------------------------------------------------
(* Ticks and intervals. *)

Sizes == m_tickMs \in Nat \ {0} /\ m_wheelSize \in Nat \ {0} /\ Wheels \in Nat \ {0}

LEMMA SizesAre == Sizes
BY TimerAssumption DEF Sizes

LEMMA PositiveProduct ==
    ASSUME NEW x \in Nat \ {0}, NEW y \in Nat \ {0}
    PROVE  x * y \in Nat \ {0}
OBVIOUS

(* The tick of a wheel is the interval of the wheel below. *)
LEMMA Tick ==
    /\ tick \in [Levels -> Nat \ {0}]
    /\ tick[0] = m_tickMs
    /\ \A l \in 1..(Wheels - 1) : tick[l] = interval(l - 1)
    /\ \A l \in Levels : interval(l) \in Nat \ {0}
<1> USE SizesAre DEF Sizes
<1> DEFINE T == Nat \ {0}
           n == Wheels - 1
           step == [i \in 1..n |-> [y \in T |-> y * m_wheelSize]]
           Def(f) == f = [l \in Levels |-> IF l = 0 THEN m_tickMs ELSE f[l - 1] * m_wheelSize]
<1>0. n \in Nat /\ Levels = 0..n
  BY DEF Levels
<1>1. PICK f \in [0..n -> T] :
          f[0] = m_tickMs /\ \A i \in 1..n : f[i] = step[i][f[i - 1]]
  <2>1. step \in [1..n -> [T -> T]]
    BY PositiveProduct
  <2>2. m_tickMs \in T
    OBVIOUS
  <2> HIDE DEF step, T, n
  <2>3. Recursive(n, T, m_tickMs, step) # {}
    BY <1>0, <2>1, <2>2, Recursion
  <2> QED
    BY <2>3 DEF Recursive
<1>2. \A i \in 1..n : f[i] = f[i - 1] * m_wheelSize
  <2>1. ASSUME NEW i \in 1..n PROVE f[i] = f[i - 1] * m_wheelSize
    <3>1. i - 1 \in 0..n /\ f[i - 1] \in T
      BY <1>1
    <3> HIDE DEF T
    <3> QED
      BY <3>1, <1>1
  <2> QED
    BY <2>1
<1>3. Def(f)
  BY <1>1, <1>2 DEF Levels
<1>4. Def(tick)
  <2> HIDE DEF Def
  <2>1. Def(CHOOSE h : Def(h))
    BY <1>3
  <2>2. tick = CHOOSE h : Def(h)
    BY DEF tick, Def
  <2> QED
    BY <2>1, <2>2
<1>5. tick \in [Levels -> T]
  <2> DEFINE S == {l \in Levels : tick[l] \in T}
  <2>1. 0 \in S
    BY <1>4 DEF Levels
  <2>2. ASSUME NEW i \in 1..n, i - 1 \in S PROVE i \in S
    <3>1. tick[i] = tick[i - 1] * m_wheelSize
      BY <1>4 DEF Levels
    <3>2. tick[i - 1] \in T /\ i \in Levels
      BY <2>2 DEF Levels
    <3>3. tick[i - 1] * m_wheelSize \in T
      BY <3>2, PositiveProduct
    <3> QED
      BY <3>1, <3>2, <3>3
  <2>3. 0..n \subseteq S
    <3> HIDE DEF S, n
    <3> QED
      BY <1>0, <2>1, <2>2, UpTo
  <2>4. \A l \in Levels : tick[l] \in T
    BY <1>0, <2>3
  <2>5. tick = [l \in Levels |-> tick[l]]
    BY <1>4
  <2> HIDE DEF T, Def
  <2> QED
    BY <2>4, <2>5
<1>6. \A l \in Levels : interval(l) \in T
  BY <1>5, PositiveProduct DEF interval
<1>7. tick[0] = m_tickMs /\ \A l \in 1..n : tick[l] = interval(l - 1)
  BY <1>4 DEF interval, Levels
<1> QED
  BY <1>5, <1>6, <1>7

LEMMA LevelBelow ==
    /\ 0 \in Levels /\ Wheels - 1 \in Levels
    /\ \A l \in Levels : l \in Nat /\ 0..(l - 1) \subseteq Levels
    /\ \A l \in Levels : l # 0 => l \in 1..(Wheels - 1) /\ l - 1 \in Levels
BY SizesAre DEF Sizes, Levels

-----------------------------------------------------------------------------
(* The clocks of the wheels. *)

ClockType == m_currentTime \in [Levels -> Nat \cup {None}] /\ m_currentTime[0] # None

(* ClocksAgree, of any clocks. *)
Agree(c) == \A l \in Levels : c[l] # None =>
    /\ c[l] % tick[l] = 0
    /\ l > 0 => c[l - 1] # None /\ c[l] = floorTo(c[l - 1], tick[l])

LEMMA CreatedClock ==
    ASSUME ClockType, NEW exp \in Nat
    PROVE  LET c == Created(exp)
           IN /\ c \in [Levels -> Nat \cup {None}]
              /\ \A l \in Levels : m_currentTime[l] # None => c[l] = m_currentTime[l]
              /\ \A l \in Levels : m_currentTime[l] = None =>
                    c[l] = IF c[l - 1] = None \/ exp < c[l - 1] + interval(l - 1) THEN None
                           ELSE floorTo(c[l - 1], tick[l])
<1> USE SizesAre DEF Sizes
<1> DEFINE T == Nat \cup {None}
           n == Wheels - 1
           Up(l, c) == IF m_currentTime[l] # None THEN m_currentTime[l]
                       ELSE IF c = None \/ exp < c + interval(l - 1) THEN None
                       ELSE floorTo(c, tick[l])
           step == [i \in 1..n |-> [y \in T |-> Up(i, y)]]
           Def(f) == f = [l \in Levels |-> Up(l, f[l - 1])]
<1>0. n \in Nat /\ Levels = 0..n
  BY DEF Levels
<1>1. \A l \in 1..n, c \in T : Up(l, c) \in T
  <2> SUFFICES ASSUME NEW l \in 1..n, NEW c \in T PROVE Up(l, c) \in T
    OBVIOUS
  <2>1. l \in Levels /\ m_currentTime[l] \in T /\ tick[l] \in Nat \ {0}
    BY <1>0, Tick DEF ClockType
  <2>2. c # None => floorTo(c, tick[l]) \in Nat
    BY <2>1, Floor
  <2> QED
    BY <2>1, <2>2
<1>2. PICK f \in [0..n -> T] : f[0] = m_currentTime[0] /\ \A i \in 1..n : f[i] = step[i][f[i - 1]]
  <2>1. step \in [1..n -> [T -> T]]
    <3> HIDE DEF Up, n, T
    <3> QED
      BY <1>1
  <2>2. m_currentTime[0] \in T
    BY LevelBelow DEF ClockType
  <2> HIDE DEF step, T, n
  <2>3. Recursive(n, T, m_currentTime[0], step) # {}
    BY <1>0, <2>1, <2>2, Recursion
  <2> QED
    BY <2>3 DEF Recursive
<1>3. \A i \in 1..n : f[i] = Up(i, f[i - 1])
  <2>1. ASSUME NEW i \in 1..n PROVE f[i] = Up(i, f[i - 1])
    <3>1. i - 1 \in 0..n /\ f[i - 1] \in T
      BY <1>2
    <3> HIDE DEF T, Up, n
    <3> QED
      BY <3>1, <1>2
  <2> QED
    BY <2>1
<1>4. Def(f)
  <2>1. f[0] = Up(0, f[0 - 1])
    BY <1>2 DEF ClockType
  <2>2. \A l \in 0..n : l = 0 \/ l \in 1..n
    BY <1>0
  <2>3. \A l \in 0..n : f[l] = Up(l, f[l - 1])
    BY <2>1, <2>2, <1>3
  <2> HIDE DEF Up, n, T
  <2> QED
    BY <1>0, <1>2, <2>3
<1> DEFINE clock == CHOOSE h : Def(h)
<1>5. Def(clock)
  <2> HIDE DEF Def
  <2> QED
    BY <1>4
<1>6. Created(exp) = [l \in Levels |-> clock[l]]
  BY DEF Created
<1>7. Created(exp) = clock
  <2> HIDE DEF Up
  <2> QED
    BY <1>5, <1>6
<1> DEFINE c == Created(exp)
<1>8. \A l \in Levels : c[l] = Up(l, c[l - 1])
  <2> HIDE DEF Up
  <2> QED
    BY <1>5, <1>7
<1> HIDE DEF c
<1>9. c \in [Levels -> T]
  <2> DEFINE S == {l \in Levels : c[l] \in T}
  <2>1. 0 \in S
    BY <1>8, LevelBelow DEF ClockType
  <2>2. ASSUME NEW i \in 1..n, i - 1 \in S PROVE i \in S
    <3>1. i \in Levels /\ c[i - 1] \in T
      BY <1>0, <2>2
    <3>2. c[i] = Up(i, c[i - 1])
      BY <1>8, <3>1
    <3>3. Up(i, c[i - 1]) \in T
      BY <1>1, <2>2, <3>1
    <3> HIDE DEF Up
    <3> QED
      BY <3>1, <3>2, <3>3
  <2>3. 0..n \subseteq S
    <3> HIDE DEF S, n
    <3> QED
      BY <1>0, <2>1, <2>2, UpTo
  <2>4. \A l \in Levels : c[l] \in T
    BY <2>3, <1>0
  <2>5. c = [l \in Levels |-> c[l]]
    BY <1>6 DEF c
  <2> HIDE DEF T
  <2> QED
    BY <2>4, <2>5
<1>10. \A l \in Levels : m_currentTime[l] # None => c[l] = m_currentTime[l]
  BY <1>8
<1>11. \A l \in Levels : m_currentTime[l] = None =>
           c[l] = IF c[l - 1] = None \/ exp < c[l - 1] + interval(l - 1) THEN None
                  ELSE floorTo(c[l - 1], tick[l])
  BY <1>8
<1> QED
  BY <1>9, <1>10, <1>11 DEF c

(* A created wheel keeps its clock; new clocks agree with the ones below. *)
LEMMA CreatedAgrees ==
    ASSUME ClockType, ClocksAgree, NEW exp \in Nat
    PROVE  Agree(Created(exp))
<1> DEFINE c == Created(exp)
<1>1. /\ c \in [Levels -> Nat \cup {None}]
      /\ \A l \in Levels : m_currentTime[l] # None => c[l] = m_currentTime[l]
      /\ \A l \in Levels : m_currentTime[l] = None =>
            c[l] = IF c[l - 1] = None \/ exp < c[l - 1] + interval(l - 1) THEN None
                   ELSE floorTo(c[l - 1], tick[l])
  BY CreatedClock
<1> HIDE DEF c
<1>2. ASSUME NEW l \in Levels, c[l] # None
      PROVE  c[l] % tick[l] = 0 /\ (l > 0 => c[l - 1] # None /\ c[l] = floorTo(c[l - 1], tick[l]))
  <2>1. l \in Nat /\ (l # 0 => l - 1 \in Levels)
    BY LevelBelow
  <2>2. CASE m_currentTime[l] # None
    BY <1>1, <2>1, <2>2 DEF ClocksAgree
  <2>3. CASE m_currentTime[l] = None
    <3>1. l # 0
      BY <2>3 DEF ClockType
    <3>2. c[l - 1] # None /\ c[l] = floorTo(c[l - 1], tick[l])
      BY <1>1, <1>2, <2>3
    <3>3. c[l - 1] \in Nat /\ tick[l] \in Nat \ {0}
      BY <1>1, <2>1, <3>1, <3>2, Tick
    <3> QED
      BY <3>2, <3>3, Floor
  <2> QED
    BY <2>2, <2>3
<1> QED
  BY <1>2 DEF Agree, c

(* The condition on the wheel that add() comes to. *)
Reaches(c, exp, l) ==
    /\ c[l] # None /\ exp < c[l] + interval(l)
    /\ \A k \in 0..(l - 1) : exp >= c[k] + interval(k)

(* add() comes to exactly one wheel, and all below it are created. *)
LEMMA LevelFor ==
    ASSUME ClockType, NEW exp \in Nat, exp < interval(Wheels - 1)
    PROVE  /\ levelFor(exp) \in Levels
           /\ Reaches(Created(exp), exp, levelFor(exp))
           /\ \A k \in 0..(levelFor(exp) - 1) : Created(exp)[k] # None
           /\ \A l \in Levels : Reaches(Created(exp), exp, l) => l = levelFor(exp)
<1> DEFINE c == Created(exp)
           short == {l \in Levels : c[l] = None \/ exp < c[l] + interval(l)}
<1>1. /\ c \in [Levels -> Nat \cup {None}]
      /\ \A l \in Levels : m_currentTime[l] # None => c[l] = m_currentTime[l]
      /\ \A l \in Levels : m_currentTime[l] = None =>
            c[l] = IF c[l - 1] = None \/ exp < c[l - 1] + interval(l - 1) THEN None
                   ELSE floorTo(c[l - 1], tick[l])
  BY CreatedClock
<1>2. levelFor(exp) = CHOOSE l \in Levels : Reaches(c, exp, l)
  BY DEF levelFor, Reaches
<1> HIDE DEF c
<1>3. PICK l \in short : \A k \in short : l <= k
  <2>1. Wheels - 1 \in short
    <3>1. Wheels - 1 \in Levels /\ c[Wheels - 1] \in Nat \cup {None}
      BY <1>1, LevelBelow
    <3>2. interval(Wheels - 1) \in Nat
      BY <3>1, Tick
    <3> QED
      BY <3>1, <3>2
  <2>2. short \in SUBSET Nat
    BY LevelBelow
  <2> HIDE DEF short
  <2> QED
    BY <2>1, <2>2, Least
<1>4. l \in Levels /\ l \in Nat /\ 0..(l - 1) \subseteq Levels
  BY <1>3, LevelBelow
<1>5. \A k \in 0..(l - 1) : c[k] # None /\ exp >= c[k] + interval(k)
  <2>1. ASSUME NEW k \in 0..(l - 1) PROVE c[k] # None /\ exp >= c[k] + interval(k)
    <3>1. k \in Levels /\ ~ (l <= k)
      BY <1>4
    <3>2. k \notin short
      BY <1>3, <3>1
    <3>3. interval(k) \in Nat /\ c[k] \in Nat \cup {None}
      BY <1>1, <3>1, Tick
    <3> QED
      BY <3>1, <3>2, <3>3
  <2> QED
    BY <2>1
<1>6. c[l] # None
  <2>1. CASE m_currentTime[l] # None
    BY <1>1, <1>4, <2>1
  <2>2. CASE m_currentTime[l] = None
    <3>1. l # 0
      BY <2>2 DEF ClockType
    <3>2. l - 1 \in 0..(l - 1) /\ l - 1 \in Levels
      BY <1>4, <3>1
    <3>3. c[l - 1] \in Nat /\ interval(l - 1) \in Nat /\ tick[l] \in Nat \ {0}
      BY <1>1, <1>4, <1>5, <3>2, Tick
    <3>4. c[l] = floorTo(c[l - 1], tick[l])
      BY <1>1, <1>4, <1>5, <2>2, <3>2, <3>3
    <3> QED
      BY <3>3, <3>4, Floor, NamesAssumption
  <2> QED
    BY <2>1, <2>2
<1>7. Reaches(c, exp, l)
  BY <1>3, <1>4, <1>5, <1>6 DEF Reaches
<1>8. levelFor(exp) \in Levels /\ Reaches(c, exp, levelFor(exp))
  <2> HIDE DEF short
  <2> QED
    BY <1>2, <1>4, <1>7
<1>9. ASSUME NEW i \in Levels, NEW j \in Levels, Reaches(c, exp, i), Reaches(c, exp, j)
      PROVE  ~ (i < j)
  <2>1. i \in Nat /\ j \in Nat /\ c[i] \in Nat /\ interval(i) \in Nat
    BY <1>1, <1>9, LevelBelow, Tick DEF Reaches
  <2>2. exp < c[i] + interval(i)
    BY <1>9 DEF Reaches
  <2>3. i < j => i \in 0..(j - 1)
    BY <2>1
  <2>4. i < j => exp >= c[i] + interval(i)
    BY <1>9, <2>3 DEF Reaches
  <2> QED
    BY <2>1, <2>2, <2>4
<1>10. \A i \in Levels : Reaches(c, exp, i) => i = levelFor(exp)
  <2>1. ASSUME NEW i \in Levels, Reaches(c, exp, i) PROVE i = levelFor(exp)
    <3>1. ~ (i < levelFor(exp)) /\ ~ (levelFor(exp) < i)
      BY <1>8, <1>9, <2>1
    <3>2. i \in Nat /\ levelFor(exp) \in Nat
      BY <1>8, LevelBelow
    <3> QED
      BY <3>1, <3>2
  <2> QED
    BY <2>1
<1>11. \A k \in 0..(levelFor(exp) - 1) : c[k] # None
  <2>1. levelFor(exp) = l
    BY <1>4, <1>7, <1>10
  <2> QED
    BY <1>5, <2>1
<1> QED
  BY <1>8, <1>10, <1>11 DEF c

(* The bucket of an expiration, and the start of the time it serves. *)
LEMMA BucketFor ==
    ASSUME ClockType, NEW exp \in Nat, exp < interval(Wheels - 1)
    PROVE  /\ bucketFor(exp) \in Buckets /\ bucketFor(exp) # None
           /\ bucketFor(exp)[1] = levelFor(exp)
           /\ startOf(exp) \in Nat
           /\ startOf(exp) <= exp /\ exp < startOf(exp) + tick[levelFor(exp)]
<1> DEFINE l == levelFor(exp)
           slot == (exp \div tick[l]) % m_wheelSize
<1>1. l \in Levels
  BY LevelFor
<1>2. tick[l] \in Nat \ {0} /\ m_wheelSize \in Nat \ {0}
  BY <1>1, Tick, SizesAre DEF Sizes
<1>3. bucketFor(exp) = <<l, slot>> /\ startOf(exp) = floorTo(exp, tick[l])
  BY DEF bucketFor, startOf
<1> HIDE DEF l
<1>4. exp \div tick[l] \in Nat
  BY <1>2, Division
<1>5. slot \in 0..(m_wheelSize - 1)
  BY <1>2, <1>4, Division
<1> HIDE DEF slot
<1>6. bucketFor(exp) \in Buckets /\ bucketFor(exp)[1] = l
  BY <1>1, <1>3, <1>5 DEF Buckets
<1>7. bucketFor(exp) # None
  BY <1>6, NamesAssumption
<1> QED
  BY <1>2, <1>3, <1>6, <1>7, Floor DEF l

(* The clocks still agree when they have advanced: a wheel that moved      *)
(* passes its new time on, and one that did not holds it within its tick.  *)
LEMMA AdvancedClock ==
    ASSUME ClockType, ClocksAgree, NEW time \in Nat \cup {-1}
    PROVE  /\ Advanced(time) \in [Levels -> Nat \cup {None}]
           /\ Advanced(time)[0] # None
           /\ Advanced(time)[0] = m_currentTime[0] \/ Advanced(time)[0] <= time
           /\ Agree(Advanced(time))
<1> DEFINE T == Nat \cup {None}
           n == Wheels - 1
           Moved(l, given) ==
               IF /\ m_currentTime[l] # None
                  /\ l > 0 => given # m_currentTime[l - 1]
                  /\ given >= m_currentTime[l] + tick[l]
               THEN floorTo(given, tick[l])
               ELSE m_currentTime[l]
           step == [i \in 1..n |-> [y \in T |-> IF y = None THEN None ELSE Moved(i, y)]]
           Def(f) == f = [l \in Levels |-> Moved(l, IF l = 0 THEN time ELSE f[l - 1])]
<1>0. n \in Nat /\ Levels = 0..n /\ 0 \in Levels
  BY SizesAre DEF Levels, Sizes
<1>1. \A l \in Levels : m_currentTime[l] \in T /\ tick[l] \in Nat \ {0}
  BY Tick DEF ClockType
<1>2. m_currentTime[0] \in Nat /\ None \notin Nat
  BY <1>0, NamesAssumption DEF ClockType
<1>3. ASSUME NEW l \in Levels, NEW given \in Nat
      PROVE  /\ Moved(l, given) \in T /\ (Moved(l, given) = None <=> m_currentTime[l] = None)
             /\ m_currentTime[l] # None => Moved(l, given) >= m_currentTime[l]
  <2>1. floorTo(given, tick[l]) \in Nat /\ given < floorTo(given, tick[l]) + tick[l]
    BY <1>1, Floor
  <2>2. m_currentTime[l] # None /\ given >= m_currentTime[l] + tick[l]
        => floorTo(given, tick[l]) >= m_currentTime[l]
    <3> DEFINE y == floorTo(given, tick[l])
    <3> HIDE DEF y
    <3> QED
      BY <1>1, <2>1 DEF y
  <2> QED
    BY <1>1, <1>2, <2>1, <2>2
<1>4. Moved(0, time) \in Nat /\ Moved(0, time) >= m_currentTime[0] /\ Moved(0, time) # None
  <2>1. CASE time \in Nat
    BY <1>0, <1>2, <1>3, <2>1
  <2>2. CASE time = -1
    <3>1. ~ (time >= m_currentTime[0] + tick[0])
      BY <1>0, <1>1, <1>2, <2>2
    <3>2. Moved(0, time) = m_currentTime[0]
      BY <3>1
    <3> QED
      BY <1>2, <3>2
  <2> QED
    BY <2>1, <2>2
<1>5. PICK f \in [0..n -> T] : f[0] = Moved(0, time) /\ \A i \in 1..n : f[i] = step[i][f[i - 1]]
  <2>1. \A i \in 1..n, y \in T : (IF y = None THEN None ELSE Moved(i, y)) \in T
    <3> HIDE DEF Moved, n
    <3> QED
      BY <1>0, <1>3
  <2>2. step \in [1..n -> [T -> T]]
    <3> HIDE DEF Moved, n, T
    <3> QED
      BY <2>1
  <2>3. Moved(0, time) \in T
    BY <1>4
  <2> HIDE DEF step, T, n, Moved
  <2>4. Recursive(n, T, Moved(0, time), step) # {}
    BY <1>0, <2>2, <2>3, Recursion
  <2> QED
    BY <2>4 DEF Recursive
<1>6. \A i \in 1..n : f[i] = IF f[i - 1] = None THEN None ELSE Moved(i, f[i - 1])
  <2>1. ASSUME NEW i \in 1..n
        PROVE  f[i] = IF f[i - 1] = None THEN None ELSE Moved(i, f[i - 1])
    <3>0. n \in Nat /\ f \in [0..n -> T]
      BY <1>0, <1>5
    <3>1. i - 1 \in 0..n /\ f[i - 1] \in T
      <4> HIDE DEF n, T, Moved
      <4> QED
        BY <3>0
    <3> HIDE DEF T, Moved, n
    <3> QED
      BY <3>1, <1>5
  <2> QED
    BY <2>1
<1>7. \A l \in 0..n : f[l] = None <=> m_currentTime[l] = None
  <2> DEFINE S == {l \in 0..n : (f[l] = None <=> m_currentTime[l] = None)}
  <2>1. 0 \in S
    BY <1>0, <1>2, <1>4, <1>5
  <2>2. ASSUME NEW i \in 1..n, i - 1 \in S PROVE i \in S
    <3>1. i \in Levels /\ i - 1 \in Levels /\ f[i - 1] \in T
      BY <1>0, <1>5, <2>2
    <3>2. CASE f[i - 1] = None
      <4>1. m_currentTime[i - 1] = None
        BY <2>2, <3>2
      <4>2. m_currentTime[i] = None
        BY <3>1, <4>1 DEF ClocksAgree
      <4> QED
        BY <1>0, <1>6, <3>1, <3>2, <4>2
    <3>3. CASE f[i - 1] # None
      <4>1. f[i] = Moved(i, f[i - 1]) /\ f[i - 1] \in Nat
        BY <1>6, <3>1, <3>3
      <4>2. f[i] = None <=> m_currentTime[i] = None
        <5> HIDE DEF Moved
        <5> QED
          BY <1>3, <3>1, <4>1
      <4> QED
        BY <1>0, <3>1, <4>2
    <3> QED
      BY <3>2, <3>3
  <2>3. 0..n \subseteq S
    <3> HIDE DEF S, n
    <3> QED
      BY <1>0, <2>1, <2>2, UpTo
  <2> QED
    BY <2>3
<1>8. Def(f)
  <2>1. ASSUME NEW l \in 0..n
        PROVE  f[l] = Moved(l, IF l = 0 THEN time ELSE f[l - 1])
    <3>1. CASE l = 0
      <4> HIDE DEF Moved
      <4> QED
        BY <1>5, <3>1
    <3>2. CASE l # 0
      <4>1. l \in 1..n /\ l - 1 \in 0..n /\ l \in Levels /\ l - 1 \in Levels
        BY <1>0, <3>2
      <4>2. CASE f[l - 1] = None
        <5>1. m_currentTime[l - 1] = None
          BY <1>7, <4>1, <4>2
        <5>2. m_currentTime[l] = None
          BY <1>0, <4>1, <5>1 DEF ClocksAgree
        <5>3. Moved(l, f[l - 1]) = None
          BY <5>2
        <5>4. f[l] = None
          BY <1>6, <4>1, <4>2
        <5> HIDE DEF Moved
        <5> QED
          BY <3>2, <5>3, <5>4
      <4>3. CASE f[l - 1] # None
        <5> HIDE DEF Moved
        <5> QED
          BY <1>6, <3>2, <4>1, <4>3
      <4> QED
        BY <4>2, <4>3
    <3> QED
      BY <3>1, <3>2
  <2> HIDE DEF Moved, n, T
  <2> QED
    BY <1>0, <1>5, <2>1
<1> DEFINE clock == CHOOSE h : Def(h)
<1>9. Def(clock)
  <2> HIDE DEF Def
  <2> QED
    BY <1>8
<1>10. Advanced(time) = [l \in Levels |-> clock[l]]
  BY DEF Advanced
<1> DEFINE c == Advanced(time)
<1>11. c = [l \in Levels |-> c[l]] /\ \A l \in Levels : c[l] = Moved(l, IF l = 0 THEN time ELSE c[l - 1])
  <2>1. c = clock
    <3> HIDE DEF Moved
    <3> QED
      BY <1>9, <1>10
  <2> HIDE DEF Moved
  <2> QED
    BY <1>9, <2>1
<1> HIDE DEF c, clock
<1>12. \A l \in Levels : l # 0 => l \in 1..n /\ l - 1 \in Levels
  BY <1>0
<1>13. \A l \in Levels : c[l] \in T /\ (c[l] = None <=> m_currentTime[l] = None)
  <2> DEFINE S == {l \in 0..n : c[l] \in T /\ (c[l] = None <=> m_currentTime[l] = None)}
  <2>1. 0 \in S
    <3>1. c[0] = Moved(0, time)
      BY <1>0, <1>11
    <3> HIDE DEF Moved
    <3> QED
      BY <1>0, <1>2, <1>4, <3>1
  <2>2. ASSUME NEW i \in 1..n, i - 1 \in S PROVE i \in S
    <3>1. i \in Levels /\ i - 1 \in Levels /\ i # 0 /\ c[i - 1] \in T
      BY <1>0, <2>2
    <3>2. c[i] = Moved(i, c[i - 1])
      <4> HIDE DEF Moved
      <4> QED
        BY <1>11, <3>1
    <3>3. CASE c[i - 1] = None
      <4>1. m_currentTime[i - 1] = None
        BY <2>2, <3>3
      <4>2. m_currentTime[i] = None
        BY <1>0, <3>1, <4>1 DEF ClocksAgree
      <4>3. c[i] = None
        BY <3>2, <4>2
      <4> QED
        BY <1>0, <3>1, <4>2, <4>3
    <3>4. CASE c[i - 1] # None
      <4> HIDE DEF Moved
      <4> QED
        BY <1>0, <1>3, <3>1, <3>2, <3>4
    <3> QED
      BY <3>3, <3>4
  <2>3. 0..n \subseteq S
    <3> HIDE DEF S, n
    <3> QED
      BY <1>0, <2>1, <2>2, UpTo
  <2> QED
    BY <1>0, <2>3
<1>14. c \in [Levels -> T] /\ c[0] # None
  <2> HIDE DEF T, Moved
  <2> QED
    BY <1>0, <1>11, <1>13 DEF ClockType
<1>15. ASSUME NEW l \in Levels, c[l] # None
       PROVE  /\ c[l] % tick[l] = 0
              /\ l > 0 => c[l - 1] # None /\ c[l] = floorTo(c[l - 1], tick[l])
  <2>1. m_currentTime[l] \in Nat /\ c[l] \in Nat /\ tick[l] \in Nat \ {0}
    BY <1>1, <1>13, <1>15
  <2>2. m_currentTime[l] # None
    BY <1>13, <1>15
  <2>3. m_currentTime[l] % tick[l] = 0
    BY <2>2 DEF ClocksAgree
  <2>4. CASE l = 0
    <3>1. c[0] = m_currentTime[0] \/ (time \in Nat /\ c[0] = floorTo(time, tick[0]))
      <4>1. c[0] = Moved(0, time)
        BY <1>0, <1>11
      <4> QED
        BY <1>0, <1>1, <1>2, <4>1
    <3>2. time \in Nat => floorTo(time, tick[0]) % tick[0] = 0
      BY <1>0, <1>1, Floor
    <3> QED
      BY <2>3, <2>4, <3>1, <3>2
  <2>5. CASE l # 0
    <3>1. l - 1 \in Levels /\ l > 0
      BY <1>12, <2>5, LevelBelow
    <3>2. m_currentTime[l - 1] # None /\ m_currentTime[l] = floorTo(m_currentTime[l - 1], tick[l])
      BY <2>2, <3>1 DEF ClocksAgree
    <3>3. c[l - 1] \in Nat /\ c[l - 1] # None /\ m_currentTime[l - 1] \in Nat
      BY <1>1, <1>13, <3>1, <3>2
    <3>4. c[l] = Moved(l, c[l - 1])
      <4> HIDE DEF Moved
      <4> QED
        BY <1>11, <2>5
    <3>5. CASE c[l] = floorTo(c[l - 1], tick[l])
      BY <2>1, <3>3, <3>5, Floor
    <3>6. CASE c[l] # floorTo(c[l - 1], tick[l])
      <4>1. c[l] = m_currentTime[l]
        BY <3>4, <3>6
      <4>2. c[l - 1] = m_currentTime[l - 1] \/ ~ (c[l - 1] >= m_currentTime[l] + tick[l])
        BY <2>2, <3>4, <3>6
      <4>3. CASE c[l - 1] = m_currentTime[l - 1]
        BY <2>3, <3>2, <3>3, <4>1, <4>3
      <4>4. CASE ~ (c[l - 1] >= m_currentTime[l] + tick[l])
        <5>1. m_currentTime[l] <= m_currentTime[l - 1]
          BY <2>1, <3>2, <3>3, Floor
        <5>2. m_currentTime[l - 1] <= c[l - 1]
          <6>1. CASE l - 1 = 0
            <7>1. c[0] = Moved(0, time)
              BY <1>0, <1>11
            <7> HIDE DEF Moved
            <7> QED
              BY <1>2, <1>4, <6>1, <7>1
          <6>2. CASE l - 1 # 0
            <7>1. c[l - 1] = Moved(l - 1, c[(l - 1) - 1]) /\ (l - 1) - 1 \in Levels
              <8> HIDE DEF Moved
              <8> QED
                BY <1>11, <1>12, <3>1, <6>2
            <7>2. m_currentTime[(l - 1) - 1] # None
              BY <3>1, <3>2, <6>2, LevelBelow DEF ClocksAgree
            <7>3. c[(l - 1) - 1] \in Nat
              BY <1>13, <7>1, <7>2
            <7> DEFINE i == l - 1
                       j == (l - 1) - 1
            <7> HIDE DEF Moved, i, j
            <7>4. m_currentTime[i] # None => Moved(i, c[j]) >= m_currentTime[i]
              BY <1>3, <3>1, <7>3 DEF i, j
            <7> QED
              BY <3>2, <3>3, <7>1, <7>4 DEF i, j
          <6> QED
            BY <6>1, <6>2
        <5>3. m_currentTime[l] <= c[l - 1] /\ c[l - 1] < m_currentTime[l] + tick[l]
          BY <2>1, <3>3, <4>4, <5>1, <5>2
        <5> QED
          BY <2>1, <2>3, <3>3, <4>1, <5>3, FloorOnly
      <4> QED
        BY <4>2, <4>3, <4>4
    <3> QED
      BY <3>5, <3>6
  <2> QED
    BY <2>4, <2>5
<1>16. Agree(c)
  BY <1>15 DEF Agree
<1>17. c[0] = m_currentTime[0] \/ c[0] <= time
  <2>1. c[0] = m_currentTime[0] \/ (time \in Nat /\ c[0] = floorTo(time, tick[0]))
    <3>1. c[0] = Moved(0, time)
      BY <1>0, <1>11
    <3> QED
      BY <1>0, <1>1, <1>2, <3>1
  <2>2. time \in Nat => floorTo(time, tick[0]) <= time
    BY <1>0, <1>1, Floor
  <2> QED
    BY <2>1, <2>2
<1> QED
  BY <1>14, <1>16, <1>17 DEF c

-----------------------------------------------------------------------------
(* The invariant. *)

(* An adder holds the lock. *)
Within(a) == apc[a] \in {"set", "busy", "offer", "unlock"}

(* A ticker that flushes has the lock alone, adders share it. *)
Locked ==
    /\ \A k \in Tickers : kpc[k] = "flush" => m_rwMutex = {k}
    /\ \A a \in Adders : Within(a) => a \in m_rwMutex

(* What a call or a poll has in hand. *)
Calls ==
    /\ \A k \in Tickers : kpc[k] # "tick" => kbucket[k] \in Buckets
    /\ \A a \in Adders : apc[a] # "idle" => atask[a] \in Tasks /\ due[atask[a]] # None
    /\ \A a \in Adders : apc[a] = "enter" => where[atask[a]] = None
    /\ \A a \in Adders : Within(a) => where[atask[a]] # None
    /\ \A a, b \in Adders :
          apc[a] = "enter" /\ apc[b] = "enter" /\ atask[a] = atask[b] => a = b
    /\ \A t \in Tasks : where[t] # None => due[t] # None
    /\ \A t \in Tasks : due[t] # None => due[t] < interval(Wheels - 1)

(* A bucket is going to be looked at before a time. *)
Covered(b, limit) ==
    \/ \E e \in BagToSet(m_queue) : e[2] = b /\ e[1] < limit
    \/ \E k \in Tickers : kpc[k] # "tick" /\ kbucket[k] = b
    \/ \E a \in Adders : apc[a] = "offer" /\ where[atask[a]] = b /\ due[atask[a]] < limit

(* NothingForgotten, with the time at which an offered bucket comes up. *)
Awaited(t) ==
    \/ Covered(where[t], due[t] + tick[where[t][1]])
    \/ \E a \in Adders : apc[a] \in {"set", "busy"} /\ atask[a] = t
Waiting == \A t \in Tasks : where[t] # None /\ t \notin lost => Awaited(t)

(* A bucket that setExpiration() need not offer again is on its way. *)
Expirations == \A b \in Buckets : m_expiration[b] # -1 =>
    Covered(b, m_expiration[b] + tick[b[1]])

(* Until its expiration is set, an entry's bucket is the one add() computes. *)
Fitting == \A a \in Adders : apc[a] \in {"set", "busy"} =>
    LET t == atask[a]
        l == where[t][1]
    IN /\ Reaches(m_currentTime, due[t], l)
       /\ \A k \in 0..(l - 1) : m_currentTime[k] # None

(* The parts of EntriesConserved. *)
RanOnce == \A t \in Tasks :
    ran[t] = IF due[t] = None \/ (where[t] # None /\ t \notin freed)
                \/ \E a \in Adders : apc[a] = "enter" /\ atask[a] = t
             THEN 0 ELSE 1

(* Deleted entries are linked, and are not those of calls under way, which *)
(* have an entry each.                                                     *)
Deleted ==
    /\ \A t \in freed : where[t] # None
    /\ \A a \in Adders : Within(a) => atask[a] \notin freed
    /\ \A a, b \in Adders : Within(a) /\ Within(b) /\ atask[a] = atask[b] => a = b
Distinct(s) == \A i, j \in DOMAIN s : i # j => s[i] # s[j]
Elements(s) == {s[i] : i \in DOMAIN s}
Of(l) == {t \in Tasks : where[t] # None /\ where[t][1] = l}
Lists == \A l \in Levels : Distinct(list[l]) /\ Elements(list[l]) = Of(l)
Counted == m_taskCounter = Cardinality({t \in Tasks : where[t] # None})

Live ==
    /\ Locked /\ Calls
    /\ RanOnce /\ Deleted /\ Lists /\ Counted
    /\ Waiting /\ Expirations /\ Fitting

Inv ==
    /\ TypeOK /\ m_currentTime[0] # None /\ ClocksAgree
    /\ ~crashed => Live

LEMMA Conserved == RanOnce /\ Lists /\ Counted => EntriesConserved
BY DEF RanOnce, Lists, Distinct, Elements, Of, Counted, EntriesConserved, Linked

-----------------------------------------------------------------------------
(* Lists of entries. *)

LEMMA AtEnd ==
    ASSUME NEW S, NEW s \in Seq(S), NEW t \in S, Distinct(s), t \notin Elements(s)
    PROVE  /\ Append(s, t) \in Seq(S) /\ Distinct(Append(s, t))
           /\ Elements(Append(s, t)) = Elements(s) \cup {t}
<1> DEFINE r == Append(s, t)
<1>1. r \in Seq(S) /\ DOMAIN r = 1..(Len(s) + 1) /\ DOMAIN s = 1..Len(s) /\ Len(s) \in Nat
  OBVIOUS
<1>2. r[Len(s) + 1] = t /\ \A i \in 1..Len(s) : r[i] = s[i]
  OBVIOUS
<1> HIDE DEF r
<1>3. \A i \in 1..(Len(s) + 1) : i = Len(s) + 1 \/ i \in 1..Len(s)
  BY <1>1
<1>4. \A i \in 1..Len(s) : s[i] # t
  BY <1>1 DEF Elements
<1>5. Distinct(r)
  BY <1>1, <1>2, <1>3, <1>4 DEF Distinct
<1>6. Elements(r) = Elements(s) \cup {t}
  BY <1>1, <1>2, <1>3 DEF Elements
<1> QED
  BY <1>1, <1>5, <1>6 DEF r

LEMMA WithoutHead ==
    ASSUME NEW S, NEW s \in Seq(S), s # <<>>, Distinct(s)
    PROVE  /\ Head(s) \in S /\ Head(s) \in Elements(s)
           /\ Tail(s) \in Seq(S) /\ Distinct(Tail(s))
           /\ Elements(Tail(s)) = Elements(s) \ {Head(s)}
           /\ RemoveAt(s, CHOOSE i \in DOMAIN s : s[i] = Head(s)) = Tail(s)
<1> DEFINE n == Len(s)
           r == Tail(s)
           h == Head(s)
<1>1. n \in Nat \ {0} /\ DOMAIN s = 1..n /\ 1 \in 1..n /\ h = s[1] /\ h \in S
  OBVIOUS
<1>2. r \in Seq(S) /\ DOMAIN r = 1..(n - 1) /\ \A i \in 1..(n - 1) : r[i] = s[i + 1]
  OBVIOUS
<1>3. (CHOOSE i \in DOMAIN s : s[i] = h) = 1
  BY <1>1 DEF Distinct
<1>4. RemoveAt(s, 1) = Tail(s)
  <2>1. SubSeq(s, 1, 0) = <<>>
    OBVIOUS
  <2>2. SubSeq(s, 2, n) = Tail(s)
    OBVIOUS
  <2>3. RemoveAt(s, 1) = <<>> \o Tail(s)
    BY <2>1, <2>2 DEF RemoveAt
  <2> QED
    BY <1>2, <2>3
<1> HIDE DEF n, r, h
<1>5. Distinct(r)
  <2>1. \A i \in 1..(n - 1) : i + 1 \in 1..n
    BY <1>1
  <2> QED
    BY <1>1, <1>2, <2>1 DEF Distinct
<1>6. Elements(r) = Elements(s) \ {h}
  <2>1. \A i \in 1..(n - 1) : i + 1 \in 1..n /\ i + 1 # 1
    BY <1>1
  <2>2. \A i \in 1..n : i # 1 => i - 1 \in 1..(n - 1) /\ (i - 1) + 1 = i
    BY <1>1
  <2>3. ASSUME NEW x \in Elements(r) PROVE x \in Elements(s) /\ x # h
    <3>1. PICK i \in 1..(n - 1) : x = r[i]
      BY <1>2, <2>3 DEF Elements
    <3>2. x = s[i + 1] /\ i + 1 \in 1..n /\ i + 1 # 1
      BY <1>2, <2>1, <3>1
    <3> QED
      BY <1>1, <3>2 DEF Elements, Distinct
  <2>4. ASSUME NEW x \in Elements(s), x # h PROVE x \in Elements(r)
    <3>1. PICK i \in 1..n : x = s[i]
      BY <1>1 DEF Elements
    <3>2. i - 1 \in 1..(n - 1) /\ (i - 1) + 1 = i
      BY <1>1, <2>2, <2>4, <3>1
    <3>3. r[i - 1] = x
      BY <1>2, <3>1, <3>2
    <3> QED
      BY <1>2, <3>2, <3>3 DEF Elements
  <2> QED
    BY <2>3, <2>4
<1> QED
  BY <1>1, <1>2, <1>3, <1>4, <1>5, <1>6 DEF r, h, Elements

(* The head of a wheel's list and the lists without it. *)
LEMMA HeadOff ==
    ASSUME TypeOK, Lists, NEW l \in Levels, list[l] # <<>>,
           NEW t, t = Head(list[l]),
           NEW off, off = [list EXCEPT ![l] = Tail(@)]
    PROVE  /\ t \in Of(l) /\ t \in Tasks
           /\ [list EXCEPT ![l] = Unlinked(l, t)] = off
           /\ off \in [Levels -> Seq(Tasks)]
           /\ \A m \in Levels : Distinct(off[m]) /\ Elements(off[m]) = Of(m) \ {t}
<1>1. list \in [Levels -> Seq(Tasks)] /\ where \in [Tasks -> Buckets \cup {None}]
  BY DEF TypeOK
<1>2. list[l] \in Seq(Tasks) /\ Distinct(list[l]) /\ Elements(list[l]) = Of(l)
  BY <1>1 DEF Lists
<1>3. /\ t \in Of(l) /\ t \in Tasks
      /\ Tail(list[l]) \in Seq(Tasks) /\ Distinct(Tail(list[l]))
      /\ Elements(Tail(list[l])) = Of(l) \ {t}
      /\ Unlinked(l, t) = Tail(list[l])
  BY <1>2, WithoutHead DEF Unlinked
<1>4. off \in [Levels -> Seq(Tasks)] /\ off[l] = Tail(list[l])
      /\ \A m \in Levels : m # l => off[m] = list[m]
  BY <1>1, <1>3
<1>5. \A m \in Levels : m # l => t \notin Of(m)
  BY <1>3 DEF Of
<1>6. \A m \in Levels : Distinct(off[m]) /\ Elements(off[m]) = Of(m) \ {t}
  BY <1>3, <1>4, <1>5 DEF Lists
<1>7. [list EXCEPT ![l] = Unlinked(l, t)] = off
  BY <1>3
<1> QED
  BY <1>3, <1>4, <1>6, <1>7

(* Placed() links the entry in its new bucket's wheel, and in no other. *)
LEMMA PlacedLists ==
    ASSUME TypeOK, Lists, Counted, NEW t \in Tasks, NEW b \in Buckets, Placed(t, b),
           where[t] = None \/ \E l \in Levels : list[l] # <<>> /\ t = Head(list[l])
    PROVE  /\ list' \in [Levels -> Seq(Tasks)]
           /\ where' \in [Tasks -> Buckets \cup {None}]
           /\ where'[t] = b /\ \A s \in Tasks \ {t} : where'[s] = where[s]
           /\ m_taskCounter' \in Int
           /\ overtaken' \in BOOLEAN
           /\ Lists' /\ Counted'
<1> DEFINE off == IF where[t] = None THEN list
                  ELSE [list EXCEPT ![where[t][1]] = Unlinked(where[t][1], t)]
           waits == {s \in Tasks : where[s] # None}
<1>1. /\ list \in [Levels -> Seq(Tasks)] /\ where \in [Tasks -> Buckets \cup {None}]
      /\ m_taskCounter \in Int
  BY DEF TypeOK
<1>2. b[1] \in Levels /\ b # None
  BY NamesAssumption DEF Buckets
<1>3. /\ list' = [off EXCEPT ![b[1]] = Append(@, t)]
      /\ where' = [where EXCEPT ![t] = b]
      /\ m_taskCounter' = IF where[t] = None THEN m_taskCounter + 1 ELSE m_taskCounter
      /\ overtaken' \in BOOLEAN
  BY DEF Placed
<1>4. off \in [Levels -> Seq(Tasks)] /\ \A m \in Levels : Distinct(off[m]) /\ Elements(off[m]) = Of(m) \ {t}
  <2>1. CASE where[t] = None
    <3>1. off = list /\ \A m \in Levels : t \notin Of(m)
      BY <2>1 DEF Of
    <3>2. \A m \in Levels : Of(m) \ {t} = Of(m)
      BY <3>1
    <3> QED
      BY <1>1, <3>1, <3>2 DEF Lists
  <2>2. CASE where[t] # None
    <3>1. PICK l \in Levels : list[l] # <<>> /\ t = Head(list[l])
      BY <2>2
    <3> DEFINE o == [list EXCEPT ![l] = Tail(@)]
    <3> HIDE DEF o
    <3>2. /\ t \in Of(l) /\ [list EXCEPT ![l] = Unlinked(l, t)] = o
          /\ o \in [Levels -> Seq(Tasks)]
          /\ \A m \in Levels : Distinct(o[m]) /\ Elements(o[m]) = Of(m) \ {t}
      BY <3>1, HeadOff DEF o
    <3>3. off = o
      BY <2>2, <3>2 DEF Of
    <3> QED
      BY <3>2, <3>3
  <2> QED
    BY <2>1, <2>2
<1> HIDE DEF off
<1>5. /\ where' \in [Tasks -> Buckets \cup {None}]
      /\ where'[t] = b /\ \A s \in Tasks \ {t} : where'[s] = where[s]
  BY <1>1, <1>3
<1>6. \A m \in Levels : Of(m)' = IF m = b[1] THEN (Of(m) \ {t}) \cup {t} ELSE Of(m) \ {t}
  BY <1>2, <1>5 DEF Of
<1>7. off[b[1]] \in Seq(Tasks) /\ Distinct(off[b[1]]) /\ t \notin Elements(off[b[1]])
  BY <1>2, <1>4
<1>8. /\ Append(off[b[1]], t) \in Seq(Tasks) /\ Distinct(Append(off[b[1]], t))
      /\ Elements(Append(off[b[1]], t)) = Elements(off[b[1]]) \cup {t}
  BY <1>7, AtEnd
<1>9. /\ list' \in [Levels -> Seq(Tasks)] /\ list'[b[1]] = Append(off[b[1]], t)
      /\ \A m \in Levels : m # b[1] => list'[m] = off[m]
  BY <1>2, <1>3, <1>4, <1>8
<1>10. ASSUME NEW m \in Levels PROVE Distinct(list'[m]) /\ Elements(list'[m]) = Of(m)'
  <2>1. CASE m = b[1]
    BY <1>2, <1>4, <1>6, <1>8, <1>9, <2>1
  <2>2. CASE m # b[1]
    BY <1>4, <1>6, <1>9, <2>2
  <2> QED
    BY <2>1, <2>2
<1>11. Lists'
  BY <1>10 DEF Lists, Distinct, Elements
<1>12. Counted'
  <2>1. waits' = waits \cup {t} /\ IsFiniteSet(waits) /\ m_taskCounter = Cardinality(waits)
    <3>1. waits' = waits \cup {t}
      BY <1>2, <1>5
    <3>2. IsFiniteSet(waits)
      BY TimerAssumption, FS_Subset
    <3> QED
      BY <3>1, <3>2 DEF Counted
  <2>2. where[t] # None => waits' = waits /\ m_taskCounter' = m_taskCounter
    BY <1>3, <2>1
  <2>3. where[t] = None => t \notin waits /\ m_taskCounter' = m_taskCounter + 1
    BY <1>3
  <2>4. t \notin waits => Cardinality(waits \cup {t}) = Cardinality(waits) + 1
    BY <2>1, FS_AddElement
  <2>5. m_taskCounter' = Cardinality(waits')
    <3> HIDE DEF waits
    <3> QED
      BY <2>1, <2>2, <2>3, <2>4
  <2> QED
    BY <2>5 DEF Counted
<1>13. m_taskCounter' \in Int
  BY <1>1, <1>3
<1> QED
  BY <1>3, <1>5, <1>9, <1>11, <1>12, <1>13

-----------------------------------------------------------------------------
(* The delay queue. *)

LEMMA Offering ==
    ASSUME TypeOK, NEW exp \in Nat, NEW b \in Buckets, m_queue' = Offer(exp, b)
    PROVE  /\ BagToSet(m_queue)' = BagToSet(m_queue) \cup {<<exp, b>>}
           /\ BagToSet(m_queue)' \subseteq Nat \X Buckets /\ IsABag(m_queue)'
           /\ <<exp, b>> \notin BagToSet(m_queue) =>
                 m_queue' = [e \in BagToSet(m_queue)' |-> IF e = <<exp, b>> THEN 1 ELSE m_queue[e]]
<1> DEFINE e == <<exp, b>>
<1>1. m_queue \in [DOMAIN m_queue -> Nat \ {0}] /\ DOMAIN m_queue \subseteq Nat \X Buckets
  BY DEF TypeOK, IsABag, BagToSet
<1>2. m_queue' = m_queue (+) SetToBag({e})
  BY DEF Offer
<1> HIDE DEF e
<1>3. DOMAIN m_queue' = DOMAIN m_queue \cup {e} /\ m_queue' \in [DOMAIN m_queue' -> Nat \ {0}]
  BY <1>1, <1>2 DEF SetToBag, (+), BagToSet
<1>4. e \notin DOMAIN m_queue => m_queue' = [f \in DOMAIN m_queue' |-> IF f = e THEN 1 ELSE m_queue[f]]
  BY <1>1, <1>2 DEF SetToBag, (+), BagToSet
<1> QED
  BY <1>1, <1>3, <1>4 DEF BagToSet, IsABag, e

LEMMA Taking ==
    ASSUME TypeOK, NEW e \in Polled, m_queue' = Take(e)
    PROVE  /\ e \in Nat \X Buckets
           /\ BagToSet(m_queue) \ {e} \subseteq BagToSet(m_queue)'
           /\ BagToSet(m_queue)' \subseteq BagToSet(m_queue)
           /\ BagToSet(m_queue)' \subseteq Nat \X Buckets /\ IsABag(m_queue)'
           /\ e[1] <= now
           /\ m_queue[e] = 1 => e \notin BagToSet(m_queue)'
           /\ \A f \in BagToSet(m_queue)' : f # e => m_queue'[f] = m_queue[f]
<1>1. m_queue \in [DOMAIN m_queue -> Nat \ {0}] /\ DOMAIN m_queue \subseteq Nat \X Buckets
  BY DEF TypeOK, IsABag, BagToSet
<1>2. e \in DOMAIN m_queue /\ m_queue' = m_queue (-) SetToBag({e})
  BY DEF Polled, Take, BagToSet
<1>3. /\ DOMAIN m_queue' \subseteq DOMAIN m_queue /\ DOMAIN m_queue \ {e} \subseteq DOMAIN m_queue'
      /\ m_queue' \in [DOMAIN m_queue' -> Nat \ {0}]
  BY <1>1, <1>2 DEF SetToBag, (-), BagToSet
<1>4. IsABag(m_queue)'
  BY <1>3 DEF IsABag
<1>5. BagToSet(m_queue) = DOMAIN m_queue /\ BagToSet(m_queue)' = DOMAIN m_queue'
  BY DEF BagToSet
<1>6. e[1] <= now
  BY DEF Polled
<1>7. /\ m_queue[e] = 1 => e \notin DOMAIN m_queue'
      /\ \A f \in DOMAIN m_queue' : f # e => m_queue'[f] = m_queue[f]
  BY <1>1, <1>2 DEF SetToBag, (-), BagToSet
<1> QED
  BY <1>1, <1>2, <1>3, <1>4, <1>5, <1>6, <1>7

-----------------------------------------------------------------------------
(* Buckets that are going to be looked at. *)

(* What is offered, polled or about to be offered stays so, or b is        *)
(* covered in another way.                                                 *)
LEMMA StillCovered ==
    ASSUME NEW b, NEW limit, Covered(b, limit),
           \A e \in BagToSet(m_queue) :
              e[2] = b /\ e[1] < limit => e \in BagToSet(m_queue)' \/ Covered(b, limit)',
           \A k \in Tickers : kpc[k] # "tick" /\ kbucket[k] = b =>
              \/ kpc'[k] # "tick" /\ kbucket'[k] = b
              \/ Covered(b, limit)',
           \A a \in Adders : apc[a] = "offer" /\ where[atask[a]] = b /\ due[atask[a]] < limit =>
              \/ apc'[a] = "offer" /\ where'[atask'[a]] = b /\ due'[atask'[a]] < limit
              \/ Covered(b, limit)'
    PROVE  Covered(b, limit)'
<1>1. CASE \E e \in BagToSet(m_queue) : e[2] = b /\ e[1] < limit
  BY <1>1 DEF Covered
<1>2. CASE \E k \in Tickers : kpc[k] # "tick" /\ kbucket[k] = b
  BY <1>2 DEF Covered
<1>3. CASE \E a \in Adders : apc[a] = "offer" /\ where[atask[a]] = b /\ due[atask[a]] < limit
  BY <1>3 DEF Covered
<1> QED
  BY <1>1, <1>2, <1>3 DEF Covered

LEMMA Sooner ==
    ASSUME TypeOK, NEW b, NEW limit \in Int, NEW more \in Int, limit <= more, Covered(b, limit), Calls
    PROVE  Covered(b, more)
<1>1. \A e \in BagToSet(m_queue) : e[1] \in Nat
  BY DEF TypeOK
<1>2. \A a \in Adders : apc[a] = "offer" => due[atask[a]] \in Nat
  BY DEF TypeOK, Calls
<1> QED
  BY <1>1, <1>2 DEF Covered

(* Waiting and Expirations after a step, of the buckets B that are still   *)
(* covered and the others.                                                 *)
LEMMA StillAwaited ==
    ASSUME TypeOK, Calls, Waiting, Expirations, NEW B \in SUBSET Buckets,
           \A b \in B, x \in Int : Covered(b, x) => Covered(b, x)',
           \A t \in Tasks : where'[t] # None /\ t \notin lost' =>
              \/ /\ t \notin lost /\ where[t] \in B
                 /\ where'[t] = where[t] /\ due'[t] = due[t]
                 /\ \A a \in Adders : apc[a] \in {"set", "busy"} /\ atask[a] = t =>
                       apc'[a] \in {"set", "busy"} /\ atask'[a] = t
              \/ Awaited(t)',
           \A b \in Buckets : m_expiration'[b] # -1 =>
              \/ b \in B /\ m_expiration'[b] = m_expiration[b]
              \/ Covered(b, m_expiration[b] + tick[b[1]])'
    PROVE  Waiting' /\ Expirations'
<1>1. \A b \in Buckets : b # None /\ tick[b[1]] \in Nat
  BY Tick, NamesAssumption DEF Buckets
<1>2. ASSUME NEW t \in Tasks, where'[t] # None, t \notin lost' PROVE Awaited(t)'
  <2>1. CASE Awaited(t)'
    BY <2>1
  <2>2. CASE /\ t \notin lost /\ where[t] \in B
             /\ where'[t] = where[t] /\ due'[t] = due[t]
             /\ \A a \in Adders : apc[a] \in {"set", "busy"} /\ atask[a] = t =>
                   apc'[a] \in {"set", "busy"} /\ atask'[a] = t
    <3>1. Awaited(t) /\ where[t] \in Buckets
      BY <1>1, <2>2 DEF Waiting
    <3>2. due[t] \in Nat
      BY <1>1, <2>2, <3>1 DEF TypeOK, Calls
    <3> DEFINE x == due[t] + tick[where[t][1]]
    <3>3. x \in Int
      BY <1>1, <3>1, <3>2
    <3>4. CASE Covered(where[t], x)
      <4>1. \A y \in Int : Covered(where[t], y) => \A b \in B : b = where[t] => Covered(b, y)'
        OBVIOUS
      <4>2. \A b \in B : b = where[t] => \A y \in Int : y = x => Covered(b, y)'
        BY <3>3, <3>4, <4>1
      <4>3. \A b \in B, y \in Int : b = where'[t] /\ y = due'[t] + tick[where'[t][1]] => Covered(b, y)'
        BY <2>2, <4>2
      <4>4. Covered(where[t], due[t] + tick[where[t][1]])'
        BY <2>2, <3>3, <4>3
      <4> QED
        BY <4>4 DEF Awaited
    <3>5. CASE \E a \in Adders : apc[a] \in {"set", "busy"} /\ atask[a] = t
      BY <2>2, <3>5 DEF Awaited
    <3> QED
      BY <3>1, <3>4, <3>5 DEF Awaited
  <2> QED
    BY <1>2, <2>1, <2>2
<1>3. ASSUME NEW b \in Buckets, m_expiration'[b] # -1
      PROVE  Covered(b, m_expiration[b] + tick[b[1]])'
  <2>1. CASE Covered(b, m_expiration[b] + tick[b[1]])'
    BY <2>1
  <2>2. CASE b \in B /\ m_expiration'[b] = m_expiration[b]
    <3>1. Covered(b, m_expiration[b] + tick[b[1]])
      BY <1>3, <2>2 DEF Expirations
    <3>2. m_expiration[b] + tick[b[1]] \in Int
      <4>1. m_expiration[b] \in Nat \cup {-1}
        BY DEF TypeOK
      <4> QED
        BY <1>1, <4>1
    <3>3. \A x \in Int : x = m_expiration[b] + tick[b[1]] => Covered(b, x)'
      BY <2>2, <3>1
    <3>4. \A x \in Int : x = m_expiration'[b] + tick[b[1]] => Covered(b, x)'
      BY <2>2, <3>3
    <3> QED
      BY <2>2, <3>2, <3>4
  <2> QED
    BY <1>3, <2>1, <2>2
<1> QED
  BY <1>2, <1>3 DEF Waiting, Expirations

-----------------------------------------------------------------------------
(* The steps. *)

LEMMA AddByDelayStep ==
    ASSUME Inv, ~crashed, NEW a \in Adders, AddByDelay(a)
    PROVE  Inv'
<1>1. TypeOK /\ ClocksAgree /\ m_currentTime[0] # None /\ Live
  BY DEF Inv
<1>2. PICK t \in Tasks, d \in Delays :
          due[t] = None /\ due' = [due EXCEPT ![t] = now + d] /\ atask' = [atask EXCEPT ![a] = t]
  BY DEF AddByDelay
<1>3. /\ apc[a] = "idle" /\ now <= MaxAddTime /\ apc' = [apc EXCEPT ![a] = "enter"]
      /\ UNCHANGED <<now, wheelVars, m_setFlag, m_rwMutex, tickerVars, crashed, history>>
  BY DEF AddByDelay
<1>4. now \in Nat /\ d \in Nat /\ now + d \in Nat /\ now + d < interval(Wheels - 1)
  <2>1. interval(Wheels - 1) \in Nat
    BY Tick, LevelBelow
  <2> QED
    BY <1>1, <1>3, <2>1, TimerAssumption, ReachAssumption DEF TypeOK
<1>5. TypeOK'
  BY <1>1, <1>2, <1>3, <1>4 DEF TypeOK, wheelVars, tickerVars, history
<1>6. \A s \in Tasks : due'[s] = IF s = t THEN now + d ELSE due[s]
  BY <1>1, <1>2 DEF TypeOK
<1>7. \A c \in Adders : apc'[c] = (IF c = a THEN "enter" ELSE apc[c])
                        /\ atask'[c] = (IF c = a THEN t ELSE atask[c])
  BY <1>1, <1>2, <1>3 DEF TypeOK
<1>8. \A c \in Adders : apc[c] # "idle" => c # a /\ atask[c] # t
  BY <1>1, <1>2, <1>3 DEF Live, Calls
<1>9. now + d # None
  BY <1>4, NamesAssumption
<1>10. where[t] = None
  BY <1>1, <1>2 DEF Live, Calls
<1>11. ASSUME NEW b, NEW limit, Covered(b, limit) PROVE Covered(b, limit)'
  <2>1. \A c \in Adders : apc[c] = "offer" =>
            apc'[c] = "offer" /\ atask'[c] = atask[c] /\ due'[atask[c]] = due[atask[c]]
    <3>1. \A c \in Adders : apc[c] # "idle" => atask[c] \in Tasks
      BY <1>1 DEF Live, Calls
    <3> QED
      BY <3>1, <1>6, <1>7, <1>8
  <2> QED
    BY <1>3, <1>11, <2>1, StillCovered DEF wheelVars, tickerVars
<1>12. Locked'
  BY <1>1, <1>3, <1>7 DEF Live, Locked, Within, tickerVars
<1>13. Calls'
  <2>1. Calls /\ where' = where /\ kpc' = kpc /\ kbucket' = kbucket
    BY <1>1, <1>3 DEF Live, wheelVars, tickerVars
  <2>2. \A c \in Adders : apc'[c] # "idle" => atask'[c] \in Tasks /\ due'[atask'[c]] # None
    BY <2>1, <1>6, <1>7, <1>8, <1>9 DEF Calls
  <2>3. \A c \in Adders : /\ apc'[c] = "enter" => where'[atask'[c]] = None
                          /\ Within(c)' => where'[atask'[c]] # None
    BY <2>1, <1>7, <1>8, <1>10 DEF Calls, Within
  <2>4. \A c, e \in Adders :
            apc'[c] = "enter" /\ apc'[e] = "enter" /\ atask'[c] = atask'[e] => c = e
    BY <2>1, <1>7, <1>8 DEF Calls
  <2>5. \A s \in Tasks : /\ where'[s] # None => due'[s] # None
                         /\ due'[s] # None => due'[s] < interval(Wheels - 1)
    BY <2>1, <1>4, <1>6, <1>10 DEF Calls
  <2>6. \A k \in Tickers : kpc'[k] # "tick" => kbucket'[k] \in Buckets
    BY <2>1 DEF Calls
  <2> QED
    BY <2>2, <2>3, <2>4, <2>5, <2>6 DEF Calls
<1>14. RanOnce'
  <2>1. ASSUME NEW s \in Tasks
        PROVE  ran'[s] = IF due'[s] = None \/ (where'[s] # None /\ s \notin freed')
                             \/ \E c \in Adders : apc'[c] = "enter" /\ atask'[c] = s
                         THEN 0 ELSE 1
    <3>1. ran'[s] = ran[s] /\ where'[s] = where[s] /\ freed' = freed
      BY <1>3 DEF wheelVars, history
    <3>2. ran[s] = IF due[s] = None \/ (where[s] # None /\ s \notin freed)
                      \/ \E c \in Adders : apc[c] = "enter" /\ atask[c] = s
                   THEN 0 ELSE 1
      BY <1>1 DEF Live, RanOnce
    <3>3. CASE s = t
      BY <1>2, <1>7, <3>1, <3>2, <3>3
    <3>4. CASE s # t
      BY <1>6, <1>7, <1>8, <3>1, <3>2, <3>4
    <3> QED
      BY <3>3, <3>4
  <2> QED
    BY <2>1 DEF RanOnce
<1>15. Lists' /\ Counted' /\ Deleted'
  <2>1. \A c \in Adders : Within(c)' => Within(c) /\ atask'[c] = atask[c]
    BY <1>7, <1>8 DEF Within
  <2>2. Deleted'
    BY <1>1, <1>3, <2>1 DEF Live, Deleted, wheelVars, history
  <2> QED
    BY <1>1, <1>3, <2>2 DEF Live, Lists, Counted, Of, Distinct, Elements, wheelVars
<1>16. Waiting' /\ Expirations'
  <2>1. \A s \in Tasks : where'[s] # None /\ s \notin lost' =>
            /\ s \notin lost /\ where[s] \in Buckets
            /\ where'[s] = where[s] /\ due'[s] = due[s]
            /\ \A c \in Adders : apc[c] \in {"set", "busy"} /\ atask[c] = s =>
                  apc'[c] \in {"set", "busy"} /\ atask'[c] = s
    BY <1>1, <1>3, <1>6, <1>7, <1>8, <1>10 DEF TypeOK, wheelVars, history
  <2>2. m_expiration' = m_expiration
    BY <1>3 DEF wheelVars
  <2> QED
    BY <1>1, <1>11, <2>1, <2>2, StillAwaited DEF Live
<1>17. Fitting'
  BY <1>1, <1>3, <1>6, <1>7, <1>8 DEF Live, Fitting, Calls, Reaches, wheelVars
<1>18. ClocksAgree' /\ m_currentTime'[0] # None
  BY <1>1, <1>3 DEF ClocksAgree, wheelVars
<1> QED
  BY <1>5, <1>12, <1>13, <1>14, <1>15, <1>16, <1>17, <1>18 DEF Inv, Live

LEMMA AddEntryStep ==
    ASSUME Inv, ~crashed, NEW a \in Adders, AddEntry(a)
    PROVE  Inv'
<1> DEFINE t == atask[a]
           b == bucketFor(due[t])
<1>1. TypeOK /\ ClocksAgree /\ m_currentTime[0] # None /\ Live /\ ClockType
  BY DEF Inv, TypeOK, ClockType
<1>2. /\ apc[a] = "enter" /\ m_rwMutex \cap Tickers = {}
      /\ UNCHANGED <<now, m_expiration, m_queue, m_setFlag, tickerVars, atask, due, lost, freed>>
  BY DEF AddEntry
<1>3. /\ t \in Tasks /\ due[t] \in Nat /\ due[t] < interval(Wheels - 1) /\ where[t] = None
      /\ ran[t] = 0 /\ t \notin freed
  BY <1>1, <1>2 DEF TypeOK, Live, Calls, RanOnce, Deleted
<1>4. \A c \in Adders : apc[c] = "enter" /\ atask[c] = t => c = a
  BY <1>1, <1>2 DEF Live, Calls
<1>5. \A c \in Adders : Within(c) => c # a /\ atask[c] # t
  BY <1>1, <1>2, <1>3 DEF Live, Calls, Within
<1> HIDE DEF t, b
<1>6. CASE isDue(due[t])
  <2>1. /\ ran' = [ran EXCEPT ![t] = @ + 1]
        /\ apc' = [apc EXCEPT ![a] = "idle"]
        /\ UNCHANGED <<m_currentTime, list, where, m_taskCounter, m_rwMutex, overtaken, crashed>>
    BY <1>6 DEF AddEntry, t
  <2>2. TypeOK'
    BY <1>1, <1>2, <1>3, <2>1 DEF TypeOK, tickerVars
  <2>3. \A c \in Adders : apc'[c] = IF c = a THEN "idle" ELSE apc[c]
    BY <1>1, <2>1 DEF TypeOK
  <2>4. Locked' /\ Calls'
    BY <1>1, <1>2, <1>5, <2>1, <2>3 DEF Live, Locked, Calls, Within, tickerVars
  <2>5. RanOnce'
    <3>1. ASSUME NEW s \in Tasks
          PROVE  ran'[s] = IF due'[s] = None \/ (where'[s] # None /\ s \notin freed')
                               \/ \E c \in Adders : apc'[c] = "enter" /\ atask'[c] = s
                           THEN 0 ELSE 1
      <4>1. ran[s] = IF due[s] = None \/ (where[s] # None /\ s \notin freed)
                        \/ \E c \in Adders : apc[c] = "enter" /\ atask[c] = s
                     THEN 0 ELSE 1
        BY <1>1 DEF Live, RanOnce
      <4>2. CASE s = t
        <5>1. ran'[s] = 1
          BY <1>1, <1>3, <2>1, <4>2 DEF TypeOK
        <5>2. due[t] # None
          BY <1>3, NamesAssumption
        <5> QED
          BY <1>2, <1>3, <1>4, <2>1, <2>3, <4>2, <5>1, <5>2
      <4>3. CASE s # t
        <5>1. ran'[s] = ran[s]
          BY <1>1, <2>1, <4>3 DEF TypeOK
        <5>2. (\E c \in Adders : apc'[c] = "enter" /\ atask'[c] = s)
              <=> (\E c \in Adders : apc[c] = "enter" /\ atask[c] = s)
          BY <1>2, <2>3, <4>3 DEF t
        <5> QED
          BY <1>2, <2>1, <4>1, <5>1, <5>2
      <4> QED
        BY <4>2, <4>3
    <3> QED
      BY <3>1 DEF RanOnce
  <2>6. Lists' /\ Counted' /\ Deleted'
    <3>1. \A c \in Adders : Within(c)' => Within(c)
      BY <2>3 DEF Within
    <3>2. Deleted'
      BY <1>1, <1>2, <2>1, <3>1 DEF Live, Deleted
    <3> QED
      BY <1>1, <2>1, <3>2 DEF Live, Lists, Counted, Of, Distinct, Elements
  <2>7. ASSUME NEW d, NEW limit, Covered(d, limit) PROVE Covered(d, limit)'
    BY <1>2, <1>5, <2>1, <2>3, <2>7, StillCovered DEF tickerVars, Within
  <2>8. Waiting' /\ Expirations'
    <3>1. \A s \in Tasks : where'[s] # None /\ s \notin lost' =>
              /\ s \notin lost /\ where[s] \in Buckets
              /\ where'[s] = where[s] /\ due'[s] = due[s]
              /\ \A c \in Adders : apc[c] \in {"set", "busy"} /\ atask[c] = s =>
                    apc'[c] \in {"set", "busy"} /\ atask'[c] = s
      BY <1>1, <1>2, <1>5, <2>1, <2>3 DEF TypeOK, Within
    <3> QED
      BY <1>1, <1>2, <2>7, <3>1, StillAwaited DEF Live
  <2>9. Fitting'
    BY <1>1, <1>2, <2>1, <2>3 DEF Live, Fitting, Reaches
  <2>10. ClocksAgree' /\ m_currentTime'[0] # None
    BY <1>1, <2>1 DEF ClocksAgree
  <2> QED
    BY <2>2, <2>4, <2>5, <2>6, <2>8, <2>9, <2>10 DEF Inv, Live
<1>7. CASE ~ isDue(due[t])
  <2>1. /\ m_currentTime' = Created(due[t])
        /\ Placed(t, b)
        /\ apc' = [apc EXCEPT ![a] = "set"]
        /\ m_rwMutex' = m_rwMutex \cup {a}
        /\ crashed' \in BOOLEAN
        /\ UNCHANGED ran
    BY <1>7 DEF AddEntry, t, b
  <2>2. b \in Buckets /\ b # None /\ b[1] = levelFor(due[t])
    BY <1>1, <1>3, BucketFor DEF b
  <2>3. /\ list' \in [Levels -> Seq(Tasks)]
        /\ where' \in [Tasks -> Buckets \cup {None}]
        /\ where'[t] = b /\ \A s \in Tasks \ {t} : where'[s] = where[s]
        /\ m_taskCounter' \in Int
        /\ overtaken' \in BOOLEAN
        /\ Lists' /\ Counted'
    BY <1>1, <1>3, <2>1, <2>2, PlacedLists DEF Live
  <2>4. /\ m_currentTime' \in [Levels -> Nat \cup {None}]
        /\ \A l \in Levels : m_currentTime[l] # None => m_currentTime'[l] = m_currentTime[l]
    BY <1>1, <1>3, <2>1, CreatedClock
  <2>5. ClocksAgree' /\ m_currentTime'[0] # None
    <3>1. Agree(m_currentTime')
      BY <1>1, <1>3, <2>1, CreatedAgrees
    <3> QED
      BY <1>1, <2>4, <3>1, LevelBelow DEF Agree, ClocksAgree
  <2>6. TypeOK'
    BY <1>1, <1>2, <2>1, <2>3, <2>4 DEF TypeOK, tickerVars
  <2>7. \A c \in Adders : apc'[c] = IF c = a THEN "set" ELSE apc[c]
    BY <1>1, <2>1 DEF TypeOK
  <2>8. Locked'
    <3>1. \A k \in Tickers : kpc[k] # "flush"
      BY <1>1, <1>2 DEF Live, Locked
    <3> QED
      BY <1>1, <1>2, <2>1, <2>7, <3>1 DEF Live, Locked, Within, tickerVars
  <2>9. Calls'
    <3>1. Calls /\ atask' = atask /\ due' = due /\ kpc' = kpc /\ kbucket' = kbucket
      BY <1>1, <1>2 DEF Live, tickerVars
    <3>2. \A c \in Adders : apc'[c] # "idle" => apc[c] # "idle"
      BY <1>2, <2>7
    <3>3. \A c \in Adders : apc'[c] = "enter" => apc[c] = "enter" /\ atask[c] # t
      BY <1>4, <2>7
    <3>4. \A c \in Adders : Within(c)' => c = a \/ (Within(c) /\ atask[c] # t)
      <4>1. ASSUME NEW c \in Adders, Within(c)', c # a PROVE Within(c)
        BY <2>7, <4>1 DEF Within
      <4> QED
        BY <1>5, <4>1
    <3>5. \A c \in Adders : apc'[c] = "enter" => where'[atask[c]] = None
      BY <2>3, <3>1, <3>3 DEF Calls
    <3>6. \A c \in Adders : Within(c)' => where'[atask[c]] # None
      <4>1. ASSUME NEW c \in Adders, Within(c)' PROVE where'[atask[c]] # None
        <5>1. CASE c = a
          BY <2>2, <2>3, <5>1 DEF t
        <5>2. CASE c # a
          <6>1. Within(c) /\ atask[c] # t /\ atask[c] \in Tasks
            BY <3>1, <3>4, <4>1, <5>2 DEF Calls, Within
          <6> QED
            BY <2>3, <3>1, <6>1 DEF Calls
        <5> QED
          BY <5>1, <5>2
      <4> QED
        BY <4>1
    <3>7. \A s \in Tasks : where'[s] # None => due[s] # None
      BY <1>3, <2>3, <3>1, NamesAssumption DEF Calls
    <3> QED
      BY <3>1, <3>2, <3>3, <3>5, <3>6, <3>7 DEF Calls
  <2>10. RanOnce'
    <3>1. ASSUME NEW s \in Tasks
          PROVE  ran'[s] = IF due'[s] = None \/ (where'[s] # None /\ s \notin freed')
                               \/ \E c \in Adders : apc'[c] = "enter" /\ atask'[c] = s
                           THEN 0 ELSE 1
      <4>1. ran[s] = IF due[s] = None \/ (where[s] # None /\ s \notin freed)
                        \/ \E c \in Adders : apc[c] = "enter" /\ atask[c] = s
                     THEN 0 ELSE 1
        BY <1>1 DEF Live, RanOnce
      <4>2. CASE s = t
        BY <1>2, <1>3, <2>1, <2>2, <2>3, <4>2
      <4>3. CASE s # t
        <5>1. where'[s] = where[s]
          BY <2>3, <4>3
        <5>2. (\E c \in Adders : apc'[c] = "enter" /\ atask'[c] = s)
              <=> (\E c \in Adders : apc[c] = "enter" /\ atask[c] = s)
          BY <1>2, <2>7, <4>3 DEF t
        <5> QED
          BY <1>2, <2>1, <4>1, <5>1, <5>2
      <4> QED
        BY <4>2, <4>3
    <3> QED
      BY <3>1 DEF RanOnce
  <2>11. ASSUME NEW d, NEW limit, Covered(d, limit) PROVE Covered(d, limit)'
    <3>1. \A c \in Adders : apc[c] = "offer" => c # a /\ atask[c] \in Tasks \ {t}
      BY <1>1, <1>5 DEF Live, Calls, Within
    <3>2. \A c \in Adders : apc[c] = "offer" => apc'[c] = "offer" /\ where'[atask[c]] = where[atask[c]]
      BY <2>3, <2>7, <3>1
    <3> QED
      BY <1>2, <2>11, <3>2, StillCovered DEF tickerVars
  <2>12. Waiting' /\ Expirations'
    <3>1. ASSUME NEW s \in Tasks, where'[s] # None, s \notin lost'
          PROVE  \/ /\ s \notin lost /\ where[s] \in Buckets
                    /\ where'[s] = where[s] /\ due'[s] = due[s]
                    /\ \A c \in Adders : apc[c] \in {"set", "busy"} /\ atask[c] = s =>
                          apc'[c] \in {"set", "busy"} /\ atask'[c] = s
                 \/ Awaited(s)'
      <4>1. CASE s = t
        BY <1>2, <2>7, <4>1 DEF Awaited, t
      <4>2. CASE s # t
        BY <1>1, <1>2, <1>5, <2>3, <2>7, <3>1, <4>2 DEF TypeOK, Within
      <4> QED
        BY <4>1, <4>2
    <3> QED
      BY <1>1, <1>2, <2>11, <3>1, StillAwaited DEF Live
  <2>13. Fitting'
    <3>1. ASSUME NEW c \in Adders, apc'[c] \in {"set", "busy"}
          PROVE  /\ Reaches(m_currentTime', due'[atask'[c]], where'[atask'[c]][1])
                 /\ \A k \in 0..(where'[atask'[c]][1] - 1) : m_currentTime'[k] # None
      <4>1. CASE c = a
        <5>1. /\ Reaches(Created(due[t]), due[t], levelFor(due[t]))
              /\ \A k \in 0..(levelFor(due[t]) - 1) : Created(due[t])[k] # None
          BY <1>1, <1>3, LevelFor
        <5>2. due'[atask'[c]] = due[t] /\ where'[atask'[c]][1] = levelFor(due[t])
          BY <1>2, <2>2, <2>3, <4>1 DEF t
        <5> QED
          BY <2>1, <5>1, <5>2
      <4>2. CASE c # a
        <5> DEFINE s == atask[c]
                   l == where[s][1]
        <5>1. apc[c] \in {"set", "busy"} /\ s \in Tasks \ {t}
          BY <1>1, <1>5, <2>7, <3>1, <4>2 DEF Live, Calls, Within
        <5>2. where'[s] = where[s] /\ where[s] \in Buckets
          BY <1>1, <2>3, <5>1 DEF TypeOK, Live, Calls, Within
        <5>3. l \in Levels /\ 0..(l - 1) \subseteq Levels
          BY <5>2, LevelBelow DEF Buckets
        <5>4. /\ Reaches(m_currentTime, due[s], l)
              /\ \A k \in 0..(l - 1) : m_currentTime[k] # None
          BY <1>1, <5>1 DEF Live, Fitting
        <5>5. atask' = atask /\ due' = due
          BY <1>2
        <5> HIDE DEF l, s
        <5>6. /\ Reaches(m_currentTime', due[s], l)
              /\ \A k \in 0..(l - 1) : m_currentTime'[k] # None
          BY <2>4, <5>3, <5>4 DEF Reaches
        <5> QED
          BY <5>2, <5>5, <5>6 DEF l, s
      <4> QED
        BY <4>1, <4>2
    <3> QED
      BY <3>1 DEF Fitting, Reaches
  <2>14. Deleted'
    <3>1. \A c \in Adders : Within(c)' => c = a \/ (Within(c) /\ atask[c] # t)
      <4>1. ASSUME NEW c \in Adders, Within(c)', c # a PROVE Within(c)
        BY <2>7, <4>1 DEF Within
      <4> QED
        BY <1>5, <4>1
    <3>2. Deleted /\ t \notin freed /\ freed \subseteq Tasks
      BY <1>1, <1>3 DEF Live, Deleted, TypeOK
    <3>3. \A s \in freed : where'[s] # None
      BY <2>3, <3>2 DEF Deleted
    <3>4. \A c \in Adders : Within(c)' => atask[c] \notin freed
      BY <3>1, <3>2 DEF Deleted, t
    <3>5. \A c, e \in Adders : Within(c)' /\ Within(e)' /\ atask[c] = atask[e] => c = e
      BY <3>1, <3>2 DEF Deleted, t
    <3> QED
      BY <1>2, <3>3, <3>4, <3>5 DEF Deleted
  <2> QED
    BY <2>3, <2>5, <2>6, <2>8, <2>9, <2>10, <2>12, <2>13, <2>14 DEF Inv, Live
<1> QED
  BY <1>6, <1>7

LEMMA AddTestFlagStep ==
    ASSUME Inv, ~crashed, NEW a \in Adders, AddTestFlag(a)
    PROVE  Inv'
<1>1. TypeOK /\ ClocksAgree /\ m_currentTime[0] # None /\ Live
  BY DEF Inv
<1>2. /\ apc[a] = "set"
      /\ UNCHANGED <<now, wheelVars, m_rwMutex, tickerVars, atask, due, crashed, overtaken, freed>>
  BY DEF AddTestFlag
<1>3. PICK pc \in {"busy", "offer", "unlock"} : apc' = [apc EXCEPT ![a] = pc]
  BY DEF AddTestFlag
<1>4. (apc'[a] = "busy" /\ lost' = lost) \/ lost' = lost \cup {atask[a]}
  BY <1>1 DEF AddTestFlag, TypeOK
<1>5. atask[a] \in Tasks /\ where[atask[a]] # None
  BY <1>1, <1>2 DEF Live, Calls, Within
<1>6. \A c \in Adders : apc'[c] = IF c = a THEN pc ELSE apc[c]
  BY <1>1, <1>3 DEF TypeOK
<1>7. TypeOK'
  <2>1. m_setFlag' \in [Levels -> Adders \cup {None}]
    <3>1. m_setFlag' = m_setFlag \/ \E l : m_setFlag' = [m_setFlag EXCEPT ![l] = a]
      BY DEF AddTestFlag
    <3> QED
      BY <1>1, <3>1 DEF TypeOK
  <2>2. lost' \subseteq Tasks
    BY <1>1, <1>4, <1>5 DEF TypeOK
  <2> QED
    BY <1>1, <1>2, <1>3, <2>1, <2>2 DEF TypeOK, wheelVars, tickerVars
<1>8. \A c \in Adders : (Within(c)' <=> Within(c)) /\ (apc'[c] = "enter" <=> apc[c] = "enter")
                        /\ (apc'[c] # "idle" <=> apc[c] # "idle")
  BY <1>2, <1>6 DEF Within
<1>9. Locked' /\ Calls'
  BY <1>1, <1>2, <1>8 DEF Live, Locked, Calls, wheelVars, tickerVars
<1>10. RanOnce' /\ Deleted'
  BY <1>1, <1>2, <1>8 DEF Live, RanOnce, Deleted, wheelVars
<1>11. Lists' /\ Counted'
  BY <1>1, <1>2 DEF Live, Lists, Counted, Of, Distinct, Elements, wheelVars
<1>12. ASSUME NEW d, NEW limit, Covered(d, limit) PROVE Covered(d, limit)'
  BY <1>2, <1>6, <1>12, StillCovered DEF tickerVars, wheelVars
<1>13. Waiting' /\ Expirations'
  <2>1. ASSUME NEW s \in Tasks, where'[s] # None, s \notin lost'
        PROVE  /\ s \notin lost /\ where[s] \in Buckets
               /\ where'[s] = where[s] /\ due'[s] = due[s]
               /\ \A c \in Adders : apc[c] \in {"set", "busy"} /\ atask[c] = s =>
                     apc'[c] \in {"set", "busy"} /\ atask'[c] = s
    <3>1. s \notin lost /\ (atask[a] = s => apc'[a] = "busy")
      BY <1>4, <2>1
    <3> QED
      BY <1>1, <1>2, <1>6, <2>1, <3>1 DEF TypeOK, wheelVars
  <2> QED
    BY <1>1, <1>2, <1>12, <2>1, StillAwaited DEF Live, wheelVars
<1>14. Fitting'
  BY <1>1, <1>2, <1>6 DEF Live, Fitting, Reaches, wheelVars
<1>15. ClocksAgree' /\ m_currentTime'[0] # None
  BY <1>1, <1>2 DEF ClocksAgree, wheelVars
<1> QED
  BY <1>7, <1>9, <1>10, <1>11, <1>13, <1>14, <1>15 DEF Inv, Live

(* The wheel of an entry is still the one that add() comes to. *)
LEMMA StaysFit ==
    ASSUME ClockType, Fitting, NEW a \in Adders, apc[a] = "busy", NEW t, t = atask[a],
           due[t] \in Nat, due[t] < interval(Wheels - 1), where[t][1] \in Levels
    PROVE  levelFor(due[t]) = where[t][1]
<1> DEFINE l == where[t][1]
<1>1. /\ Reaches(m_currentTime, due[t], l)
      /\ \A k \in 0..(l - 1) : m_currentTime[k] # None
  BY DEF Fitting
<1>2. \A k \in Levels : m_currentTime[k] # None => Created(due[t])[k] = m_currentTime[k]
  BY CreatedClock
<1>3. 0..(l - 1) \subseteq Levels
  BY LevelBelow
<1>4. Reaches(Created(due[t]), due[t], l)
  BY <1>1, <1>2, <1>3 DEF Reaches
<1> QED
  BY <1>4, LevelFor

LEMMA AddSetExpirationStep ==
    ASSUME Inv, ~crashed, NEW a \in Adders, AddSetExpiration(a)
    PROVE  Inv'
<1> DEFINE t == atask[a]
           b == where[t]
           start == startOf(due[t])
<1>1. TypeOK /\ ClocksAgree /\ m_currentTime[0] # None /\ Live /\ ClockType
  BY DEF Inv, TypeOK, ClockType
<1>2. /\ apc[a] = "busy"
      /\ m_setFlag' = [m_setFlag EXCEPT ![b[1]] = None]
      /\ m_expiration' = [m_expiration EXCEPT ![b] = start]
      /\ apc' = [apc EXCEPT ![a] = IF m_expiration[b] # start THEN "offer" ELSE "unlock"]
      /\ UNCHANGED <<now, m_currentTime, list, where, m_taskCounter, m_queue, ran, m_rwMutex,
                     tickerVars, atask, due, crashed, history>>
  BY DEF AddSetExpiration
<1>3. /\ t \in Tasks /\ due[t] \in Nat /\ due[t] < interval(Wheels - 1)
      /\ b \in Buckets /\ b # None /\ b[1] \in Levels
  BY <1>1, <1>2 DEF TypeOK, Live, Calls, Within, Buckets
<1>4. levelFor(due[t]) = b[1]
  BY <1>1, <1>2, <1>3, StaysFit DEF Live
<1>5. start \in Nat /\ start <= due[t] /\ due[t] < start + tick[b[1]]
  BY <1>1, <1>3, <1>4, BucketFor
<1>6. tick[b[1]] \in Nat \ {0}
  BY <1>3, Tick
<1> HIDE DEF t, b, start
<1>7. apc'[a] \in {"offer", "unlock"} /\ \A c \in Adders : c # a => apc'[c] = apc[c]
  BY <1>1, <1>2 DEF TypeOK
<1>8. TypeOK'
  <2>1. m_setFlag' \in [Levels -> Adders \cup {None}]
    BY <1>1, <1>2 DEF TypeOK
  <2>2. m_expiration' \in [Buckets -> Nat \cup {-1}]
    BY <1>1, <1>2, <1>5 DEF TypeOK
  <2> QED
    BY <1>1, <1>2, <2>1, <2>2 DEF TypeOK, tickerVars, history
<1>9. \A c \in Adders : (Within(c)' <=> Within(c)) /\ (apc'[c] = "enter" <=> apc[c] = "enter")
                        /\ (apc'[c] # "idle" <=> apc[c] # "idle")
  BY <1>2, <1>7 DEF Within
<1>10. Locked' /\ Calls'
  BY <1>1, <1>2, <1>9 DEF Live, Locked, Calls, tickerVars
<1>11. RanOnce' /\ Deleted'
  BY <1>1, <1>2, <1>9 DEF Live, RanOnce, Deleted, history
<1>12. Lists' /\ Counted'
  BY <1>1, <1>2 DEF Live, Lists, Counted, Of, Distinct, Elements
<1>13. ASSUME NEW d, NEW limit, Covered(d, limit) PROVE Covered(d, limit)'
  BY <1>2, <1>7, <1>13, StillCovered DEF tickerVars
<1>14. \A d \in Buckets, x \in Int : d = b /\ x >= start + tick[b[1]] => Covered(d, x)'
  <2>1. CASE m_expiration[b] = start
    <3>1. Covered(b, m_expiration[b] + tick[b[1]])
      BY <1>1, <1>3, <1>5, <2>1 DEF Live, Expirations
    <3>2. start + tick[b[1]] \in Int /\ Covered(b, start + tick[b[1]])
      BY <1>5, <1>6, <2>1, <3>1
    <3>3. \A x \in Int : x >= start + tick[b[1]] => Covered(b, x)
      BY <1>1, <3>2, Sooner DEF Live
    <3>4. \A d \in Buckets, x \in Int : d = b /\ x >= start + tick[b[1]] => Covered(d, x)
      BY <3>3
    <3> QED
      BY <1>13, <3>4
  <2>2. CASE m_expiration[b] # start
    <3>1. apc'[a] = "offer"
      BY <1>1, <1>2, <2>2 DEF TypeOK
    <3>2. \A x \in Int : x >= start + tick[b[1]] => due[t] < x
      BY <1>3, <1>5, <1>6
    <3> QED
      BY <1>2, <1>3, <3>1, <3>2 DEF Covered, t, b
  <2> QED
    BY <2>1, <2>2
<1>15. Awaited(t)'
  <2>1. due[t] + tick[b[1]] \in Int /\ due[t] + tick[b[1]] >= start + tick[b[1]]
    BY <1>3, <1>5, <1>6
  <2>2. where'[t] = b /\ due'[t] = due[t]
    BY <1>2 DEF b
  <2>3. \A d \in Buckets, x \in Int : d = where'[t] /\ x = due'[t] + tick[where'[t][1]] => Covered(d, x)'
    BY <1>14, <2>1, <2>2
  <2>4. t' = t
    BY <1>2 DEF t
  <2> QED
    BY <1>3, <2>1, <2>2, <2>3, <2>4 DEF Awaited
<1>16. Waiting' /\ Expirations'
  <2>1. ASSUME NEW s \in Tasks, where'[s] # None, s \notin lost'
        PROVE  \/ /\ s \notin lost /\ where[s] \in Buckets
                  /\ where'[s] = where[s] /\ due'[s] = due[s]
                  /\ \A c \in Adders : apc[c] \in {"set", "busy"} /\ atask[c] = s =>
                        apc'[c] \in {"set", "busy"} /\ atask'[c] = s
               \/ Awaited(s)'
    <3>1. CASE s = t
      <4>1. \A r \in Tasks : r = t => Awaited(r)'
        BY <1>2, <1>15 DEF t, Awaited, Covered
      <4> QED
        BY <3>1, <4>1
    <3>2. CASE s # t
      BY <1>1, <1>2, <1>7, <2>1, <3>2 DEF TypeOK, history, t
    <3> QED
      BY <3>1, <3>2
  <2>2. ASSUME NEW d \in Buckets, m_expiration'[d] # -1
        PROVE  \/ m_expiration'[d] = m_expiration[d]
               \/ Covered(d, m_expiration[d] + tick[d[1]])'
    <3>1. CASE d = b
      <4>1. m_expiration'[b] = start
        BY <1>1, <1>2, <1>3 DEF TypeOK
      <4>2. \A c \in Buckets, x \in Int : c = b /\ x = m_expiration'[c] + tick[c[1]] => Covered(c, x)'
        BY <1>5, <1>6, <1>14, <4>1
      <4>3. m_expiration'[d] + tick[d[1]] \in Int
        BY <1>5, <1>6, <3>1, <4>1
      <4> QED
        BY <3>1, <4>2, <4>3
    <3>2. CASE d # b
      BY <1>1, <1>2, <3>2 DEF TypeOK
    <3> QED
      BY <3>1, <3>2
  <2> QED
    BY <1>1, <1>13, <2>1, <2>2, StillAwaited DEF Live
<1>17. Fitting'
  BY <1>1, <1>2, <1>7 DEF Live, Fitting, Reaches
<1>18. ClocksAgree' /\ m_currentTime'[0] # None
  BY <1>1, <1>2 DEF ClocksAgree
<1> QED
  BY <1>8, <1>10, <1>11, <1>12, <1>16, <1>17, <1>18 DEF Inv, Live

LEMMA AddReturnStep ==
    ASSUME Inv, ~crashed, NEW a \in Adders, AddReturn(a)
    PROVE  Inv'
<1>1. TypeOK /\ ClocksAgree /\ m_currentTime[0] # None /\ Live
  BY DEF Inv
<1>2. /\ apc[a] \in {"offer", "unlock"}
      /\ m_queue' = IF apc[a] = "offer" THEN Offer(due[atask[a]], where[atask[a]]) ELSE m_queue
      /\ apc' = [apc EXCEPT ![a] = "idle"]
      /\ m_rwMutex' = m_rwMutex \ {a}
      /\ Returned(atask[a], where[atask[a]])
      /\ UNCHANGED <<now, m_currentTime, m_expiration, list, where, m_taskCounter, m_setFlag,
                     tickerVars, atask, due, crashed, lost, overtaken>>
  BY DEF AddReturn
<1>3. due[atask[a]] \in Nat /\ where[atask[a]] \in Buckets /\ atask[a] \in Tasks
  BY <1>1, <1>2 DEF TypeOK, Live, Calls, Within
<1>4. \A c \in Adders : apc'[c] = IF c = a THEN "idle" ELSE apc[c]
  BY <1>1, <1>2 DEF TypeOK
<1>5. /\ BagToSet(m_queue) \subseteq BagToSet(m_queue)'
      /\ apc[a] = "offer" => <<due[atask[a]], where[atask[a]]>> \in BagToSet(m_queue)'
      /\ BagToSet(m_queue)' \subseteq Nat \X Buckets /\ IsABag(m_queue)'
  <2>1. CASE apc[a] = "offer"
    <3>1. m_queue' = Offer(due[atask[a]], where[atask[a]])
      BY <1>2, <2>1
    <3> QED
      BY <1>1, <1>3, <3>1, Offering
  <2>2. CASE apc[a] # "offer"
    <3>1. m_queue' = m_queue
      BY <1>2, <2>2
    <3> QED
      BY <1>1, <2>2, <3>1 DEF TypeOK, BagToSet, IsABag
  <2> QED
    BY <2>1, <2>2
<1>6. TypeOK'
  <2>1. m_rwMutex' \subseteq Tickers \cup Adders
    BY <1>1, <1>2 DEF TypeOK
  <2> QED
    <3>1. ran' \in [Tasks -> Nat] /\ freed' \subseteq Tasks
      BY <1>1, <1>2, <1>3 DEF TypeOK, Returned
    <3>2. apc' \in [Adders -> {"idle", "enter", "set", "busy", "offer", "unlock"}]
      BY <1>1, <1>2 DEF TypeOK
    <3> QED
      BY <1>1, <1>2, <1>5, <2>1, <3>1, <3>2 DEF TypeOK, tickerVars
<1>7. Locked'
  <2>1. \A k \in Tickers : kpc[k] # "flush"
    <3>1. a \in m_rwMutex /\ \A k \in Tickers : kpc[k] = "flush" => m_rwMutex = {k}
      BY <1>1, <1>2 DEF Live, Locked, Within
    <3> QED
      BY <3>1, NamesAssumption
  <2>2. \A c \in Adders : Within(c)' => Within(c) /\ c # a
    BY <1>4 DEF Within
  <2> QED
    BY <1>1, <1>2, <2>1, <2>2 DEF Live, Locked, tickerVars
<1>8. Calls'
  BY <1>1, <1>2, <1>4 DEF Live, Calls, Within, tickerVars
<1>9. RanOnce' /\ Deleted'
  <2> DEFINE t == atask[a]
  <2>1. /\ t \in Tasks /\ where[t] # None /\ t \notin freed /\ due[t] # None
        /\ \A c \in Adders : apc[c] = "enter" => atask[c] # t
        /\ \A c \in Adders : Within(c)' => Within(c) /\ atask[c] # t
    <3>1. Calls /\ Deleted /\ Within(a)
      BY <1>1, <1>2 DEF Live, Within
    <3>2. \A c \in Adders : Within(c)' => Within(c) /\ c # a
      BY <1>4 DEF Within
    <3>3. t \in Tasks /\ where[t] # None /\ t \notin freed /\ due[t] # None
      BY <3>1 DEF Calls, Deleted, Within
    <3>4. \A c \in Adders : apc[c] = "enter" => atask[c] # t
      BY <3>1, <3>3 DEF Calls
    <3>5. \A c \in Adders : Within(c)' => Within(c) /\ atask[c] # t
      BY <3>1, <3>2 DEF Deleted
    <3> QED
      BY <3>3, <3>4, <3>5
  <2>2. \A c \in Adders : apc'[c] = "enter" <=> apc[c] = "enter"
    BY <1>2, <1>4
  <2>3. /\ where' = where /\ due' = due /\ atask' = atask
        /\ RanOnce /\ Deleted /\ ran \in [Tasks -> Nat]
    BY <1>1, <1>2 DEF Live, TypeOK
  <2>4. (ran' = ran /\ freed' = freed)
        \/ (ran' = [ran EXCEPT ![t] = @ + 1] /\ freed' = freed \cup {t})
    BY <1>2 DEF Returned
  <2> HIDE DEF t
  <2>5. Deleted'
    BY <2>1, <2>3, <2>4 DEF Deleted
  <2>6. ASSUME NEW s \in Tasks
        PROVE  ran'[s] = IF due'[s] = None \/ (where'[s] # None /\ s \notin freed')
                             \/ \E c \in Adders : apc'[c] = "enter" /\ atask'[c] = s
                         THEN 0 ELSE 1
    <3>1. ran[s] = IF due[s] = None \/ (where[s] # None /\ s \notin freed)
                      \/ \E c \in Adders : apc[c] = "enter" /\ atask[c] = s
                   THEN 0 ELSE 1
      BY <2>3 DEF RanOnce
    <3>2. (\E c \in Adders : apc'[c] = "enter" /\ atask'[c] = s)
          <=> (\E c \in Adders : apc[c] = "enter" /\ atask[c] = s)
      BY <2>2, <2>3
    <3>3. CASE s # t \/ (ran' = ran /\ freed' = freed)
      <4>1. ran'[s] = ran[s] /\ (s \in freed' <=> s \in freed)
        BY <2>3, <2>4, <3>3
      <4> QED
        BY <2>3, <3>1, <3>2, <4>1
    <3>4. CASE s = t /\ ran' = [ran EXCEPT ![t] = @ + 1] /\ freed' = freed \cup {t}
      <4>1. ran[s] = 0
        BY <2>1, <3>1, <3>4
      <4>2. ran'[s] = 1
        BY <2>3, <3>4, <4>1
      <4>3. ~ \E c \in Adders : apc[c] = "enter" /\ atask[c] = s
        BY <2>1, <3>4
      <4> QED
        BY <2>1, <2>3, <3>2, <3>4, <4>2, <4>3
    <3> QED
      BY <2>4, <3>3, <3>4
  <2> QED
    BY <2>5, <2>6 DEF RanOnce
<1>10. Lists' /\ Counted'
  BY <1>1, <1>2 DEF Live, Lists, Counted, Of, Distinct, Elements
<1>11. ASSUME NEW d, NEW limit, Covered(d, limit) PROVE Covered(d, limit)'
  <2>1. ASSUME apc[a] = "offer", where[atask[a]] = d, due[atask[a]] < limit
        PROVE  Covered(d, limit)'
    <3> DEFINE e == <<due[atask[a]], where[atask[a]]>>
    <3>1. e \in BagToSet(m_queue)' /\ e[2] = d /\ e[1] < limit
      BY <1>5, <2>1
    <3> QED
      BY <3>1 DEF Covered
  <2> QED
    BY <1>2, <1>4, <1>5, <1>11, <2>1, StillCovered DEF tickerVars
<1>12. Waiting' /\ Expirations'
  <2>1. \A s \in Tasks : where'[s] # None /\ s \notin lost' =>
            /\ s \notin lost /\ where[s] \in Buckets
            /\ where'[s] = where[s] /\ due'[s] = due[s]
            /\ \A c \in Adders : apc[c] \in {"set", "busy"} /\ atask[c] = s =>
                  apc'[c] \in {"set", "busy"} /\ atask'[c] = s
    BY <1>1, <1>2, <1>4 DEF TypeOK
  <2> QED
    BY <1>1, <1>2, <1>11, <2>1, StillAwaited DEF Live
<1>13. Fitting'
  BY <1>1, <1>2, <1>4 DEF Live, Fitting, Reaches
<1>14. ClocksAgree' /\ m_currentTime'[0] # None
  BY <1>1, <1>2 DEF ClocksAgree
<1> QED
  BY <1>6, <1>7, <1>8, <1>9, <1>10, <1>12, <1>13, <1>14 DEF Inv, Live

LEMMA TickerPollStep ==
    ASSUME Inv, ~crashed, NEW k \in Tickers, TickerPoll(k)
    PROVE  Inv'
<1>1. TypeOK /\ ClocksAgree /\ m_currentTime[0] # None /\ Live
  BY DEF Inv
<1>2. PICK e \in Polled : m_queue' = Take(e) /\ kbucket' = [kbucket EXCEPT ![k] = e[2]]
  BY DEF TickerPoll
<1>3. /\ kpc[k] = "tick" /\ kpc' = [kpc EXCEPT ![k] = "wait"]
      /\ UNCHANGED <<now, m_currentTime, m_expiration, list, where, m_taskCounter, ran, m_setFlag,
                     m_rwMutex, adderVars, due, crashed, history>>
  BY DEF TickerPoll
<1>4. /\ e \in Nat \X Buckets
      /\ BagToSet(m_queue) \ {e} \subseteq BagToSet(m_queue)'
      /\ BagToSet(m_queue)' \subseteq Nat \X Buckets /\ IsABag(m_queue)'
  BY <1>1, <1>2, Taking
<1>5. TypeOK'
  BY <1>1, <1>2, <1>3, <1>4 DEF TypeOK, adderVars, history
<1>6. \A j \in Tickers : /\ kpc'[j] = IF j = k THEN "wait" ELSE kpc[j]
                         /\ kbucket'[j] = IF j = k THEN e[2] ELSE kbucket[j]
  BY <1>1, <1>2, <1>3 DEF TypeOK
<1>7. Locked' /\ Calls'
  BY <1>1, <1>3, <1>4, <1>6 DEF Live, Locked, Calls, Within, adderVars
<1>8. RanOnce' /\ Deleted'
  BY <1>1, <1>3 DEF Live, RanOnce, Deleted, Within, adderVars, history
<1>9. Lists' /\ Counted'
  BY <1>1, <1>3 DEF Live, Lists, Counted, Of, Distinct, Elements
<1>10. ASSUME NEW d, NEW limit, Covered(d, limit) PROVE Covered(d, limit)'
  <2>1. e[2] = d => Covered(d, limit)'
    BY <1>6 DEF Covered
  <2> QED
    BY <1>3, <1>4, <1>6, <1>10, <2>1, StillCovered DEF adderVars
<1>11. Waiting' /\ Expirations'
  <2>1. \A s \in Tasks : where'[s] # None /\ s \notin lost' =>
            /\ s \notin lost /\ where[s] \in Buckets
            /\ where'[s] = where[s] /\ due'[s] = due[s]
            /\ \A c \in Adders : apc[c] \in {"set", "busy"} /\ atask[c] = s =>
                  apc'[c] \in {"set", "busy"} /\ atask'[c] = s
    BY <1>1, <1>3 DEF TypeOK, history, adderVars
  <2> QED
    BY <1>1, <1>3, <1>10, <2>1, StillAwaited DEF Live
<1>12. Fitting'
  BY <1>1, <1>3 DEF Live, Fitting, Reaches, adderVars
<1>13. ClocksAgree' /\ m_currentTime'[0] # None
  BY <1>1, <1>3 DEF ClocksAgree
<1> QED
  BY <1>5, <1>7, <1>8, <1>9, <1>11, <1>12, <1>13 DEF Inv, Live

LEMMA TickerLockStep ==
    ASSUME Inv, ~crashed, NEW k \in Tickers, TickerLock(k)
    PROVE  Inv'
<1> DEFINE time == m_expiration[kbucket[k]]
<1>1. TypeOK /\ ClocksAgree /\ m_currentTime[0] # None /\ Live /\ ClockType
  BY DEF Inv, TypeOK, ClockType
<1>2. /\ kpc[k] = "wait" /\ m_rwMutex = {} /\ m_rwMutex' = {k}
      /\ m_currentTime' = Advanced(time)
      /\ kpc' = [kpc EXCEPT ![k] = "flush"]
      /\ UNCHANGED <<now, m_expiration, list, where, m_taskCounter, m_queue, ran, m_setFlag,
                     kbucket, adderVars, due, crashed, history>>
  BY DEF TickerLock
<1>3. time \in Nat \cup {-1}
  BY <1>1, <1>2 DEF TypeOK, Live, Calls
<1> HIDE DEF time
<1>4. m_currentTime' \in [Levels -> Nat \cup {None}] /\ m_currentTime'[0] # None /\ Agree(m_currentTime')
  BY <1>1, <1>2, <1>3, AdvancedClock
<1>5. ClocksAgree'
  BY <1>4 DEF Agree, ClocksAgree
<1>6. TypeOK'
  BY <1>1, <1>2, <1>4 DEF TypeOK, adderVars, history
<1>7. \A j \in Tickers : kpc'[j] = IF j = k THEN "flush" ELSE kpc[j]
  BY <1>1, <1>2 DEF TypeOK
<1>8. (\A c \in Adders : ~ Within(c)) /\ (\A j \in Tickers : kpc[j] # "flush")
  BY <1>1, <1>2 DEF Live, Locked
<1>9. Locked' /\ Calls'
  BY <1>1, <1>2, <1>7, <1>8 DEF Live, Locked, Calls, Within, adderVars
<1>10. RanOnce' /\ Deleted'
  BY <1>1, <1>2 DEF Live, RanOnce, Deleted, Within, adderVars, history
<1>11. Lists' /\ Counted'
  BY <1>1, <1>2 DEF Live, Lists, Counted, Of, Distinct, Elements
<1>12. ASSUME NEW d, NEW limit, Covered(d, limit) PROVE Covered(d, limit)'
  BY <1>2, <1>7, <1>12, StillCovered DEF adderVars
<1>13. Waiting' /\ Expirations'
  <2>1. \A s \in Tasks : where'[s] # None /\ s \notin lost' =>
            /\ s \notin lost /\ where[s] \in Buckets
            /\ where'[s] = where[s] /\ due'[s] = due[s]
            /\ \A c \in Adders : apc[c] \in {"set", "busy"} /\ atask[c] = s =>
                  apc'[c] \in {"set", "busy"} /\ atask'[c] = s
    BY <1>1, <1>2 DEF TypeOK, history, adderVars
  <2> QED
    BY <1>1, <1>2, <1>12, <2>1, StillAwaited DEF Live
<1>14. Fitting'
  BY <1>2, <1>8 DEF Fitting, Within, adderVars
<1> QED
  BY <1>4, <1>5, <1>6, <1>9, <1>10, <1>11, <1>13, <1>14 DEF Inv, Live

(* The first entry is taken off: it is due, and of the flushed bucket. *)
LEMMA TakenOff ==
    ASSUME TypeOK, Live, NEW l \in Levels, list[l] # <<>>, NEW t, t = Head(list[l]),
           list' = [list EXCEPT ![l] = Tail(@)], where' = [where EXCEPT ![t] = None],
           m_taskCounter' = m_taskCounter - 1
    PROVE  /\ list' \in [Levels -> Seq(Tasks)]
           /\ where' \in [Tasks -> Buckets \cup {None}]
           /\ m_taskCounter' \in Int
           /\ Lists' /\ Counted'
<1> DEFINE waits == {s \in Tasks : where[s] # None}
<1>1. /\ where \in [Tasks -> Buckets \cup {None}] /\ m_taskCounter \in Int
  BY DEF TypeOK
<1>2. /\ t \in Of(l) /\ t \in Tasks
      /\ list' \in [Levels -> Seq(Tasks)]
      /\ \A m \in Levels : Distinct(list'[m]) /\ Elements(list'[m]) = Of(m) \ {t}
  BY HeadOff DEF Live
<1>3. where' \in [Tasks -> Buckets \cup {None}]
      /\ where'[t] = None /\ \A s \in Tasks \ {t} : where'[s] = where[s]
  BY <1>1, <1>2
<1>4. \A m \in Levels : Of(m)' = Of(m) \ {t}
  BY <1>3 DEF Of
<1>5. Lists'
  BY <1>2, <1>4 DEF Lists, Distinct, Elements
<1>6. Counted'
  <2>1. waits' = waits \ {t} /\ t \in waits
    BY <1>2, <1>3 DEF Of
  <2>2. IsFiniteSet(waits)
    BY TimerAssumption, FS_Subset
  <2>3. m_taskCounter = Cardinality(waits)
    BY DEF Live, Counted
  <2> HIDE DEF waits
  <2>4. Cardinality(waits \ {t}) = Cardinality(waits) - 1
    BY <2>1, <2>2, FS_RemoveElement
  <2>5. m_taskCounter' = Cardinality(waits')
    BY <2>1, <2>3, <2>4
  <2> QED
    BY <2>5 DEF Counted, waits
<1> QED
  BY <1>1, <1>2, <1>3, <1>5, <1>6

LEMMA FlushEntryStep ==
    ASSUME Inv, ~crashed, NEW k \in Tickers, FlushEntry(k)
    PROVE  Inv'
<1> DEFINE l == kbucket[k][1]
           t == Head(list[l])
           b == bucketFor(due[t])
           start == startOf(due[t])
<1>1. TypeOK /\ ClocksAgree /\ m_currentTime[0] # None /\ Live /\ ClockType
  BY DEF Inv, TypeOK, ClockType
<1>2. /\ kpc[k] = "flush" /\ list[l] # <<>>
      /\ reached(k) \cap freed = {}
      /\ UNCHANGED <<now, m_setFlag, m_rwMutex, tickerVars, adderVars, due, lost>>
  BY DEF FlushEntry
<1>3. kbucket[k] \in Buckets /\ l \in Levels
  BY <1>1, <1>2 DEF Live, Calls, Buckets
<1> DEFINE off == [list EXCEPT ![l] = Tail(@)]
<1>4. /\ t \in Of(l) /\ t \in Tasks /\ where[t] # None /\ where[t][1] = l
  <2>1. off = [list EXCEPT ![l] = Tail(@)]
    OBVIOUS
  <2> HIDE DEF off
  <2> DEFINE u == t
  <2>2. u = Head(list[l])
    OBVIOUS
  <2> HIDE DEF u, l
  <2>3. u \in Of(l) /\ u \in Tasks
    BY <1>1, <1>2, <1>3, <2>1, <2>2, HeadOff DEF Live
  <2> QED
    BY <2>3 DEF Of, u
<1>5. /\ due[t] \in Nat /\ due[t] < interval(Wheels - 1) /\ ran[t] = 0 /\ due[t] # None
      /\ t \notin freed
  <2>1. t \notin freed
    <3>1. list[l] \in Seq(Tasks)
      BY <1>1, <1>3 DEF TypeOK
    <3>2. t = list[l][1] /\ 1 \in DOMAIN list[l]
      BY <1>2, <3>1
    <3>3. t \in firstTwo(l)
      BY <3>2 DEF firstTwo
    <3>4. t \in reached(k)
      BY <3>3 DEF reached
    <3> QED
      BY <1>2, <3>4
  <2>2. due[t] \in Nat /\ due[t] < interval(Wheels - 1) /\ due[t] # None
    BY <1>1, <1>4, NamesAssumption DEF TypeOK, Live, Calls
  <2>3. ran[t] = 0
    BY <1>1, <1>4, <2>1 DEF Live, RanOnce
  <2> QED
    BY <2>1, <2>2, <2>3
<1>6. /\ \A c \in Adders : ~ Within(c)
      /\ \A c \in Adders : apc[c] = "enter" => atask[c] # t
  <2>1. m_rwMutex = {k}
    BY <1>1, <1>2 DEF Live, Locked
  <2> QED
    BY <1>1, <1>4, <2>1, NamesAssumption DEF Live, Locked, Calls
<1>7. Locked'
  BY <1>1, <1>2 DEF Live, Locked, Within, tickerVars, adderVars
<1>8. (\A c \in Adders : ~ Within(c)') /\ Fitting'
  BY <1>2, <1>6 DEF Within, Fitting, adderVars
<1>9. ASSUME where' \in [Tasks -> Buckets \cup {None}],
             \A s \in Tasks \ {t} : where'[s] = where[s]
      PROVE  Calls'
  <2>1. Calls
    BY <1>1 DEF Live
  <2>2. kpc' = kpc /\ kbucket' = kbucket /\ apc' = apc /\ atask' = atask /\ due' = due
    BY <1>2 DEF tickerVars, adderVars
  <2>3. \A c \in Adders : apc[c] = "enter" => where'[atask[c]] = None
    BY <2>1, <1>6, <1>9 DEF Calls
  <2>4. \A s \in Tasks : where'[s] # None => due[s] # None
    BY <2>1, <1>5, <1>9 DEF Calls
  <2> HIDE DEF t
  <2> QED
    BY <2>1, <2>2, <2>3, <2>4, <1>8 DEF Calls
<1>10. CASE isDue(due[t])
  <2>1. /\ ran' = [ran EXCEPT ![t] = @ + 1]
        /\ UNCHANGED <<m_currentTime, m_expiration, m_queue, overtaken, freed>>
        /\ IF where[t] = kbucket[k]
           THEN /\ list' = off
                /\ where' = [where EXCEPT ![t] = None]
                /\ m_taskCounter' = m_taskCounter - 1
                /\ UNCHANGED crashed
           ELSE crashed' = TRUE /\ UNCHANGED <<list, where, m_taskCounter>>
    BY <1>10 DEF FlushEntry
  <2>2. ran' \in [Tasks -> Nat]
    BY <1>1, <1>4, <2>1 DEF TypeOK
  <2>3. ClocksAgree' /\ m_currentTime'[0] # None
    BY <1>1, <2>1 DEF ClocksAgree
  <2>4. CASE where[t] # kbucket[k]
    <3>1. TypeOK'
      BY <1>1, <1>2, <2>1, <2>2, <2>4 DEF TypeOK, tickerVars, adderVars
    <3> QED
      BY <2>1, <2>3, <2>4, <3>1 DEF Inv
  <2>5. CASE where[t] = kbucket[k]
    <3>1. /\ list' = off
          /\ where' = [where EXCEPT ![t] = None]
          /\ m_taskCounter' = m_taskCounter - 1
          /\ UNCHANGED crashed
      BY <2>1, <2>5
    <3>2. /\ list' \in [Levels -> Seq(Tasks)]
          /\ where' \in [Tasks -> Buckets \cup {None}]
          /\ m_taskCounter' \in Int
          /\ Lists' /\ Counted'
      <4> DEFINE u == t
                 m == l
      <4>1. /\ u = Head(list[m]) /\ m \in Levels /\ list[m] # <<>>
            /\ list' = [list EXCEPT ![m] = Tail(@)] /\ where' = [where EXCEPT ![u] = None]
        BY <1>2, <1>3, <3>1
      <4> HIDE DEF u, m, l
      <4> QED
        BY <1>1, <3>1, <4>1, TakenOff
    <3>3. where'[t] = None /\ \A s \in Tasks \ {t} : where'[s] = where[s]
      BY <1>1, <1>4, <3>1 DEF TypeOK
    <3>4. TypeOK'
      BY <1>1, <1>2, <2>1, <2>2, <3>1, <3>2 DEF TypeOK, tickerVars, adderVars
    <3>5. Calls'
      BY <1>9, <3>2, <3>3
    <3>6. RanOnce'
      <4> HIDE DEF t
      <4>1. ASSUME NEW s \in Tasks
            PROVE  ran'[s] = IF due'[s] = None \/ (where'[s] # None /\ s \notin freed')
                                 \/ \E c \in Adders : apc'[c] = "enter" /\ atask'[c] = s
                             THEN 0 ELSE 1
        <5>1. ran[s] = IF due[s] = None \/ (where[s] # None /\ s \notin freed)
                          \/ \E c \in Adders : apc[c] = "enter" /\ atask[c] = s
                       THEN 0 ELSE 1
          BY <1>1 DEF Live, RanOnce
        <5>2. due' = due /\ apc' = apc /\ atask' = atask
          BY <1>2 DEF adderVars
        <5>3. CASE s = t
          <6>1. ran'[t] = 1
            BY <1>1, <1>4, <1>5, <2>1 DEF TypeOK
          <6> QED
            BY <1>5, <1>6, <3>3, <5>2, <5>3, <6>1
        <5>4. CASE s # t
          <6>1. ran'[s] = ran[s] /\ where'[s] = where[s] /\ freed' = freed
            BY <1>1, <2>1, <3>3, <5>4 DEF TypeOK
          <6> QED
            BY <5>1, <5>2, <6>1
        <5> QED
          BY <5>3, <5>4
      <4> QED
        BY <4>1 DEF RanOnce
    <3>7. ASSUME NEW d, NEW limit, Covered(d, limit) PROVE Covered(d, limit)'
      <4>1. \A c \in Adders : apc[c] # "offer"
        BY <1>6 DEF Within
      <4> QED
        BY <1>2, <2>1, <3>7, <4>1, StillCovered DEF tickerVars
    <3>8. Waiting' /\ Expirations'
      <4>1. \A s \in Tasks : where'[s] # None /\ s \notin lost' =>
                /\ s \notin lost /\ where[s] \in Buckets
                /\ where'[s] = where[s] /\ due'[s] = due[s]
                /\ \A c \in Adders : apc[c] \in {"set", "busy"} /\ atask[c] = s =>
                      apc'[c] \in {"set", "busy"} /\ atask'[c] = s
        <5> HIDE DEF t
        <5> QED
          BY <1>1, <1>2, <3>3 DEF TypeOK, adderVars
      <4> QED
        BY <1>1, <2>1, <3>7, <4>1, StillAwaited DEF Live
    <3>9. Deleted'
      <4>1. freed' = freed /\ freed \subseteq Tasks \ {t} /\ \A s \in freed : where[s] # None
        BY <1>1, <1>5, <2>1 DEF Live, Deleted, TypeOK
      <4> HIDE DEF t
      <4> QED
        BY <1>8, <3>3, <4>1 DEF Deleted
    <3> QED
      BY <1>7, <1>8, <2>3, <3>2, <3>4, <3>5, <3>6, <3>8, <3>9 DEF Inv, Live
  <2> QED
    BY <2>4, <2>5
<1>11. CASE ~ isDue(due[t])
  <2>1. /\ m_currentTime' = Created(due[t])
        /\ Placed(t, b)
        /\ m_expiration' = [m_expiration EXCEPT ![b] = start]
        /\ m_queue' = IF m_expiration[b] # start THEN Offer(due[t], b) ELSE m_queue
        /\ Returned(t, b)
        /\ UNCHANGED crashed
    BY <1>11 DEF FlushEntry
  <2>2. /\ b \in Buckets /\ b # None /\ b[1] = levelFor(due[t]) /\ levelFor(due[t]) \in Levels
        /\ start \in Nat /\ start <= due[t] /\ due[t] < start + tick[b[1]]
    <3> DEFINE exp == due[t]
    <3>1. exp \in Nat /\ exp < interval(Wheels - 1)
      BY <1>5
    <3> HIDE DEF exp
    <3>2. /\ bucketFor(exp) \in Buckets /\ bucketFor(exp) # None
          /\ bucketFor(exp)[1] = levelFor(exp) /\ levelFor(exp) \in Levels
          /\ startOf(exp) \in Nat
          /\ startOf(exp) <= exp /\ exp < startOf(exp) + tick[levelFor(exp)]
      BY <1>1, <3>1, BucketFor, LevelFor
    <3> QED
      BY <3>2 DEF exp
  <2>3. \E m \in Levels : list[m] # <<>> /\ t = Head(list[m])
    BY <1>2, <1>3
  <2>4. m_expiration[b] \in Nat \cup {-1} /\ tick[b[1]] \in Nat \ {0}
    BY <1>1, <2>2, Tick DEF TypeOK
  <2> HIDE DEF t, b, start, l
  <2>5. /\ list' \in [Levels -> Seq(Tasks)]
        /\ where' \in [Tasks -> Buckets \cup {None}]
        /\ where'[t] = b /\ \A s \in Tasks \ {t} : where'[s] = where[s]
        /\ m_taskCounter' \in Int
        /\ overtaken' \in BOOLEAN
        /\ Lists' /\ Counted'
    BY <1>1, <1>4, <2>1, <2>2, <2>3, PlacedLists DEF Live
  <2>6. m_currentTime' \in [Levels -> Nat \cup {None}] /\ m_currentTime'[0] # None
    <3>1. /\ m_currentTime' \in [Levels -> Nat \cup {None}]
          /\ \A i \in Levels : m_currentTime[i] # None => m_currentTime'[i] = m_currentTime[i]
      BY <1>1, <1>5, <2>1, CreatedClock
    <3> QED
      BY <1>1, <3>1, LevelBelow
  <2>7. ClocksAgree'
    <3>1. Agree(m_currentTime')
      BY <1>1, <1>5, <2>1, CreatedAgrees
    <3> QED
      BY <3>1 DEF Agree, ClocksAgree
  <2>8. /\ BagToSet(m_queue) \subseteq BagToSet(m_queue)'
        /\ m_expiration[b] # start => <<due[t], b>> \in BagToSet(m_queue)'
        /\ BagToSet(m_queue)' \subseteq Nat \X Buckets /\ IsABag(m_queue)'
    <3>1. CASE m_expiration[b] # start
      <4>1. m_queue' = Offer(due[t], b)
        BY <2>1, <3>1
      <4>2. TypeOK /\ due[t] \in Nat /\ b \in Buckets
        BY <1>1, <1>5, <2>2
      <4>3. /\ BagToSet(m_queue)' = BagToSet(m_queue) \cup {<<due[t], b>>}
            /\ BagToSet(m_queue)' \subseteq Nat \X Buckets /\ IsABag(m_queue)'
        BY <4>1, <4>2, Offering
      <4> QED
        BY <4>3
    <3>2. CASE m_expiration[b] = start
      <4>1. m_queue' = m_queue
        BY <2>1, <3>2
      <4> QED
        BY <1>1, <3>2, <4>1 DEF TypeOK, BagToSet, IsABag
    <3> QED
      BY <3>1, <3>2
  <2>9. m_expiration' \in [Buckets -> Nat \cup {-1}] /\ m_expiration'[b] = start
        /\ \A d \in Buckets : d # b => m_expiration'[d] = m_expiration[d]
    BY <1>1, <2>1, <2>2 DEF TypeOK
  <2>10. TypeOK'
    <3>1. ran' \in [Tasks -> Nat] /\ freed' \subseteq Tasks
      BY <1>1, <1>4, <2>1 DEF TypeOK, Returned
    <3> QED
      BY <1>1, <1>2, <2>1, <2>5, <2>6, <2>8, <2>9, <3>1 DEF TypeOK, tickerVars, adderVars
  <2>11. Calls'
    BY <1>9, <2>5
  <2>12. RanOnce' /\ Deleted'
    <3>1. /\ due' = due /\ apc' = apc /\ atask' = atask
          /\ ran \in [Tasks -> Nat] /\ freed \subseteq Tasks
      BY <1>1, <1>2 DEF adderVars, TypeOK
    <3>2. (ran' = ran /\ freed' = freed)
          \/ (ran' = [ran EXCEPT ![t] = @ + 1] /\ freed' = freed \cup {t})
      BY <2>1 DEF Returned
    <3>3. Deleted'
      <4>1. \A s \in freed : where[s] # None
        BY <1>1 DEF Live, Deleted
      <4>2. \A s \in freed' : where'[s] # None
        BY <2>2, <2>5, <3>1, <3>2, <4>1
      <4> QED
        BY <1>8, <4>2 DEF Deleted
    <3>4. ASSUME NEW s \in Tasks
          PROVE  ran'[s] = IF due'[s] = None \/ (where'[s] # None /\ s \notin freed')
                               \/ \E c \in Adders : apc'[c] = "enter" /\ atask'[c] = s
                           THEN 0 ELSE 1
      <4>1. ran[s] = IF due[s] = None \/ (where[s] # None /\ s \notin freed)
                        \/ \E c \in Adders : apc[c] = "enter" /\ atask[c] = s
                     THEN 0 ELSE 1
        BY <1>1 DEF Live, RanOnce
      <4>2. CASE s = t
        <5>1. ~ \E c \in Adders : apc'[c] = "enter" /\ atask'[c] = s
          BY <1>6, <3>1, <4>2
        <5>2. where'[s] # None /\ due'[s] # None
          BY <1>5, <2>2, <2>5, <3>1, <4>2
        <5>3. (ran'[s] = 0 /\ s \notin freed') \/ (ran'[s] = 1 /\ s \in freed')
          BY <1>4, <1>5, <3>1, <3>2, <4>2
        <5> QED
          BY <5>1, <5>2, <5>3
      <4>3. CASE s # t
        <5>1. ran'[s] = ran[s] /\ where'[s] = where[s] /\ (s \in freed' <=> s \in freed)
          BY <2>5, <3>1, <3>2, <4>3
        <5> QED
          BY <3>1, <4>1, <5>1
      <4> QED
        BY <4>2, <4>3
    <3> QED
      BY <3>3, <3>4 DEF RanOnce
  <2>13. ASSUME NEW d, NEW limit, Covered(d, limit) PROVE Covered(d, limit)'
    <3>1. \A c \in Adders : apc[c] # "offer"
      BY <1>6 DEF Within
    <3> QED
      BY <1>2, <2>8, <2>13, <3>1, StillCovered DEF tickerVars
  <2>14. \A d \in Buckets, x \in Int : d = b /\ x >= start + tick[b[1]] => Covered(d, x)'
    <3>1. CASE m_expiration[b] = start
      <4>1. Covered(b, m_expiration[b] + tick[b[1]])
        BY <1>1, <2>2, <3>1 DEF Live, Expirations
      <4>2. start + tick[b[1]] \in Int /\ Covered(b, start + tick[b[1]])
        BY <2>2, <2>4, <3>1, <4>1
      <4>3. \A x \in Int : x >= start + tick[b[1]] => Covered(b, x)
        BY <1>1, <4>2, Sooner DEF Live
      <4>4. \A d \in Buckets, x \in Int : d = b /\ x >= start + tick[b[1]] => Covered(d, x)
        BY <4>3
      <4> QED
        BY <2>13, <4>4
    <3>2. CASE m_expiration[b] # start
      <4> DEFINE e == <<due[t], b>>
      <4>1. e \in BagToSet(m_queue)' /\ e[1] = due[t] /\ e[2] = b
        BY <2>8, <3>2
      <4>2. \A x \in Int : x >= start + tick[b[1]] => due[t] < x
        BY <1>5, <2>2, <2>4
      <4> HIDE DEF e
      <4> QED
        BY <4>1, <4>2 DEF Covered
    <3> QED
      BY <3>1, <3>2
  <2>15. Waiting' /\ Expirations'
    <3>1. ASSUME NEW s \in Tasks, where'[s] # None, s \notin lost'
          PROVE  \/ /\ s \notin lost /\ where[s] \in Buckets
                    /\ where'[s] = where[s] /\ due'[s] = due[s]
                    /\ \A c \in Adders : apc[c] \in {"set", "busy"} /\ atask[c] = s =>
                          apc'[c] \in {"set", "busy"} /\ atask'[c] = s
                 \/ Awaited(s)'
      <4>1. CASE s = t
        <5>1. due[t] + tick[b[1]] \in Int /\ due[t] + tick[b[1]] >= start + tick[b[1]]
          BY <1>5, <2>2, <2>4
        <5>2. where'[s] = b /\ due'[s] = due[t]
          BY <1>2, <2>5, <4>1
        <5>3. \A d \in Buckets, x \in Int : d = where'[s] /\ x = due'[s] + tick[where'[s][1]] => Covered(d, x)'
          BY <2>14, <5>1, <5>2
        <5> QED
          BY <2>2, <5>1, <5>2, <5>3 DEF Awaited
      <4>2. CASE s # t
        BY <1>1, <1>2, <2>5, <3>1, <4>2 DEF TypeOK, adderVars
      <4> QED
        BY <4>1, <4>2
    <3>2. ASSUME NEW d \in Buckets, m_expiration'[d] # -1
          PROVE  \/ m_expiration'[d] = m_expiration[d]
                 \/ Covered(d, m_expiration[d] + tick[d[1]])'
      <4>1. CASE d = b
        <5>1. m_expiration'[d] + tick[d[1]] \in Int /\ m_expiration'[d] + tick[d[1]] >= start + tick[b[1]]
          BY <2>2, <2>4, <2>9, <4>1
        <5>2. \A c \in Buckets, x \in Int : c = b /\ x = m_expiration'[c] + tick[c[1]] => Covered(c, x)'
          BY <2>9, <2>14, <4>1, <5>1
        <5> QED
          BY <4>1, <5>1, <5>2
      <4>2. CASE d # b
        BY <2>9, <4>2
      <4> QED
        BY <4>1, <4>2
    <3> QED
      BY <1>1, <2>13, <3>1, <3>2, StillAwaited DEF Live
  <2> QED
    BY <1>7, <1>8, <2>5, <2>6, <2>7, <2>10, <2>11, <2>12, <2>15 DEF Inv, Live
<1> QED
  BY <1>10, <1>11

LEMMA FlushEndStep ==
    ASSUME Inv, ~crashed, NEW k \in Tickers, FlushEnd(k)
    PROVE  Inv'
<1> DEFINE b == kbucket[k]
           flushed == Flushed(b)
           B == Buckets \ {b}
<1>1. TypeOK /\ ClocksAgree /\ m_currentTime[0] # None /\ Live /\ ClockType
  BY DEF Inv, TypeOK, ClockType
<1>2. /\ kpc[k] = "flush" /\ list[b[1]] = <<>> /\ m_expiration' = flushed
      /\ UNCHANGED <<now, list, where, m_taskCounter, ran, m_setFlag, adderVars, due, crashed, history>>
  BY DEF FlushEnd
<1>3. \/ /\ m_rwMutex' = {} /\ kpc' = [kpc EXCEPT ![k] = "tick"] /\ kbucket' = [kbucket EXCEPT ![k] = None]
         /\ UNCHANGED <<m_currentTime, m_queue>>
      \/ \E e \in Polled :
         /\ m_queue' = Take(e) /\ kbucket' = [kbucket EXCEPT ![k] = e[2]]
         /\ m_currentTime' = Advanced(flushed[e[2]])
         /\ UNCHANGED <<m_rwMutex, kpc>>
  BY DEF FlushEnd
<1>4. b \in Buckets /\ b # None /\ b[1] \in Levels
  BY <1>1, <1>2, NamesAssumption DEF Live, Calls, Buckets
<1>5. /\ flushed \in [Buckets -> Nat \cup {-1}] /\ flushed[b] = -1
      /\ \A d \in B : flushed[d] = m_expiration[d]
  BY <1>1, <1>4 DEF Flushed, TypeOK
<1> HIDE DEF flushed, b
<1>6. \A s \in Tasks : where[s] # None => where[s] \in B
  <2>1. Elements(list[b[1]]) = {}
    BY <1>2 DEF Elements
  <2>2. Of(b[1]) = {}
    BY <1>1, <1>4, <2>1 DEF Live, Lists
  <2> QED
    BY <1>1, <2>2 DEF Of, TypeOK
<1>7. /\ m_rwMutex = {k}
      /\ \A c \in Adders : ~ Within(c)
      /\ \A j \in Tickers : kpc[j] = "flush" => j = k
  BY <1>1, <1>2, NamesAssumption DEF Live, Locked
<1>8. (\A c \in Adders : ~ Within(c)') /\ Fitting'
  BY <1>2, <1>7 DEF Within, Fitting, adderVars
<1>9. RanOnce' /\ Deleted' /\ Lists' /\ Counted'
  <2>1. Deleted'
    BY <1>1, <1>2, <1>8 DEF Live, Deleted, history
  <2> QED
    BY <1>1, <1>2, <2>1 DEF Live, RanOnce, Lists, Counted, Of, Distinct, Elements, adderVars, history
<1>10. \A s \in Tasks : where'[s] # None /\ s \notin lost' =>
          /\ s \notin lost /\ where[s] \in B
          /\ where'[s] = where[s] /\ due'[s] = due[s]
          /\ \A c \in Adders : apc[c] \in {"set", "busy"} /\ atask[c] = s =>
                apc'[c] \in {"set", "busy"} /\ atask'[c] = s
  BY <1>2, <1>6 DEF adderVars, history
<1>11. \A d \in Buckets : m_expiration'[d] # -1 => d \in B /\ m_expiration'[d] = m_expiration[d]
  BY <1>2, <1>5
<1>12. CASE /\ m_rwMutex' = {} /\ kpc' = [kpc EXCEPT ![k] = "tick"]
            /\ kbucket' = [kbucket EXCEPT ![k] = None]
            /\ UNCHANGED <<m_currentTime, m_queue>>
  <2>1. \A j \in Tickers : /\ kpc'[j] = IF j = k THEN "tick" ELSE kpc[j]
                           /\ j # k => kbucket'[j] = kbucket[j]
    BY <1>1, <1>12 DEF TypeOK
  <2>2. TypeOK'
    BY <1>1, <1>2, <1>5, <1>12 DEF TypeOK, adderVars, history
  <2>3. ClocksAgree' /\ m_currentTime'[0] # None
    BY <1>1, <1>12 DEF ClocksAgree
  <2>4. Locked'
    BY <1>7, <1>8, <2>1 DEF Locked
  <2>5. Calls'
    BY <1>1, <1>2, <1>8, <2>1 DEF Live, Calls, adderVars
  <2>6. ASSUME NEW d \in B, NEW limit \in Int, Covered(d, limit) PROVE Covered(d, limit)'
    <3>1. \A j \in Tickers : kpc[j] # "tick" /\ kbucket[j] = d => kpc'[j] # "tick" /\ kbucket'[j] = d
      BY <2>1, <2>6 DEF b
    <3> QED
      BY <1>2, <1>12, <2>6, <3>1, StillCovered DEF adderVars
  <2>7. Waiting' /\ Expirations'
    <3> HIDE DEF B
    <3>1. B \in SUBSET Buckets
      BY DEF B
    <3> QED
      BY <1>1, <1>10, <1>11, <2>6, <3>1, StillAwaited DEF Live
  <2> QED
    BY <1>8, <1>9, <2>2, <2>3, <2>4, <2>5, <2>7 DEF Inv, Live
<1>13. CASE \E e \in Polled :
                /\ m_queue' = Take(e) /\ kbucket' = [kbucket EXCEPT ![k] = e[2]]
                /\ m_currentTime' = Advanced(flushed[e[2]])
                /\ UNCHANGED <<m_rwMutex, kpc>>
  <2>1. PICK e \in Polled :
            /\ m_queue' = Take(e) /\ kbucket' = [kbucket EXCEPT ![k] = e[2]]
            /\ m_currentTime' = Advanced(flushed[e[2]])
            /\ UNCHANGED <<m_rwMutex, kpc>>
    BY <1>13
  <2>2. /\ e \in Nat \X Buckets
        /\ BagToSet(m_queue) \ {e} \subseteq BagToSet(m_queue)'
        /\ BagToSet(m_queue)' \subseteq Nat \X Buckets /\ IsABag(m_queue)'
    BY <1>1, <2>1, Taking
  <2>3. flushed[e[2]] \in Nat \cup {-1}
    BY <1>5, <2>2
  <2>4. m_currentTime' \in [Levels -> Nat \cup {None}] /\ m_currentTime'[0] # None /\ Agree(m_currentTime')
    BY <1>1, <2>1, <2>3, AdvancedClock
  <2>5. ClocksAgree'
    BY <2>4 DEF Agree, ClocksAgree
  <2>6. \A j \in Tickers : kbucket'[j] = IF j = k THEN e[2] ELSE kbucket[j]
    BY <1>1, <2>1 DEF TypeOK
  <2>7. TypeOK'
    BY <1>1, <1>2, <1>5, <2>1, <2>2, <2>4 DEF TypeOK, adderVars, history
  <2>8. Locked'
    BY <1>1, <1>8, <2>1 DEF Live, Locked
  <2>9. Calls'
    BY <1>1, <1>2, <1>8, <2>1, <2>2, <2>6 DEF Live, Calls, adderVars
  <2>10. ASSUME NEW d \in B, NEW limit \in Int, Covered(d, limit) PROVE Covered(d, limit)'
    <3>1. \A j \in Tickers : kpc[j] # "tick" /\ kbucket[j] = d => kpc'[j] # "tick" /\ kbucket'[j] = d
      BY <2>1, <2>6, <2>10 DEF b
    <3>2. e[2] = d => Covered(d, limit)'
      BY <1>2, <2>1, <2>6 DEF Covered
    <3> QED
      BY <1>2, <2>2, <2>10, <3>1, <3>2, StillCovered DEF adderVars
  <2>11. Waiting' /\ Expirations'
    <3> HIDE DEF B
    <3>1. B \in SUBSET Buckets
      BY DEF B
    <3> QED
      BY <1>1, <1>10, <1>11, <2>10, <3>1, StillAwaited DEF Live
  <2> QED
    BY <1>8, <1>9, <2>4, <2>5, <2>7, <2>8, <2>9, <2>11 DEF Inv, Live
<1> QED
  BY <1>3, <1>12, <1>13

(* Steps that move no entry, clock, bucket or thread. *)
LEMMA QuietStep ==
    ASSUME Inv, now' \in 0..MaxTime,
           UNCHANGED <<wheelVars, m_setFlag, m_rwMutex, tickerVars, adderVars, due, crashed, history>>
    PROVE  Inv'
<1> USE DEF wheelVars, tickerVars, adderVars, history
<1>1. TypeOK' /\ ClocksAgree' /\ m_currentTime'[0] # None
  BY DEF Inv, TypeOK, ClocksAgree, BagToSet, IsABag
<1>2. SUFFICES ASSUME Live PROVE Live'
  BY <1>1 DEF Inv
<1>3. Locked' /\ Calls' /\ RanOnce' /\ Deleted' /\ Fitting'
  BY <1>2 DEF Live, Locked, Calls, RanOnce, Deleted, Fitting, Reaches, Within
<1>4. Lists' /\ Counted'
  BY <1>2 DEF Live, Lists, Counted, Of, Distinct, Elements
<1>5. \A d, limit : Covered(d, limit) => Covered(d, limit)'
  BY DEF Covered, BagToSet
<1>6. Waiting' /\ Expirations'
  <2>1. TypeOK
    BY DEF Inv
  <2>2. \A s \in Tasks : where'[s] # None => where[s] \in Buckets
    BY <2>1 DEF TypeOK
  <2> QED
    BY <1>2, <1>5, <2>1, <2>2, StillAwaited DEF Live
<1> QED
  BY <1>3, <1>4, <1>6 DEF Live

(* After the use of a deleted entry nothing but types and clocks is said. *)
LEMMA FlushFreedStep ==
    ASSUME Inv, NEW k \in Tickers, FlushFreed(k)
    PROVE  Inv'
BY DEF Inv, FlushFreed, TypeOK, ClocksAgree, BagToSet, IsABag, wheelVars, tickerVars, adderVars, history

-----------------------------------------------------------------------------
LEMMA InvInit == Init => Inv
<1> SUFFICES ASSUME Init PROVE Inv
  OBVIOUS
<1> USE DEF Init
<1>1. BagToSet(m_queue) = {} /\ IsABag(m_queue)
  BY DEF EmptyBag, SetToBag, BagToSet, IsABag
<1>2. TypeOK
  <2>1. now \in 0..MaxTime
    BY TimerAssumption
  <2>2. /\ m_currentTime \in [Levels -> Nat \cup {None}]
        /\ m_expiration \in [Buckets -> Nat \cup {-1}]
    OBVIOUS
  <2>3. list \in [Levels -> Seq(Tasks)] /\ where \in [Tasks -> Buckets \cup {None}]
    OBVIOUS
  <2>4. /\ m_setFlag \in [Levels -> Adders \cup {None}]
        /\ kpc \in [Tickers -> {"tick", "wait", "flush"}] /\ kbucket \in [Tickers -> Buckets \cup {None}]
    OBVIOUS
  <2>5. /\ apc \in [Adders -> {"idle", "enter", "set", "busy", "offer", "unlock"}]
        /\ atask \in [Adders -> Tasks \cup {None}]
        /\ due \in [Tasks -> Nat \cup {None}] /\ ran \in [Tasks -> Nat]
    OBVIOUS
  <2>6. BagToSet(m_queue) \subseteq Nat \X Buckets
    BY <1>1
  <2>7. m_taskCounter \in Int /\ m_rwMutex \subseteq Tickers \cup Adders
    OBVIOUS
  <2>8. crashed \in BOOLEAN /\ overtaken \in BOOLEAN /\ lost \subseteq Tasks /\ freed \subseteq Tasks
    OBVIOUS
  <2> QED
    BY <1>1, <2>1, <2>2, <2>3, <2>4, <2>5, <2>6, <2>7, <2>8 DEF TypeOK
<1>3. 0 \in Levels /\ None # 0
  BY LevelBelow, NamesAssumption
<1>4. m_currentTime[0] # None
  BY <1>3
<1>5. ClocksAgree
  <2>1. ASSUME NEW l \in Levels, m_currentTime[l] # None
        PROVE  l = 0 /\ m_currentTime[l] % tick[l] = 0
    <3>1. l = 0
      BY <2>1
    <3>2. tick[0] \in Nat \ {0}
      BY <1>3, Tick
    <3>3. floorTo(0, tick[0]) % tick[0] = 0 /\ floorTo(0, tick[0]) = 0
      <4> DEFINE w == tick[0]
                 y == floorTo(0, w)
      <4>1. w \in Nat \ {0}
        BY <3>2
      <4> HIDE DEF w
      <4>2. y \in Nat /\ y % w = 0 /\ y <= 0
        BY <4>1, Floor
      <4> HIDE DEF y
      <4>3. y = 0
        BY <4>2
      <4> QED
        BY <4>2, <4>3 DEF w, y
    <3> QED
      BY <1>3, <3>1, <3>3
  <2> QED
    BY <2>1 DEF ClocksAgree
<1>6. Locked /\ Calls /\ RanOnce /\ Deleted /\ Waiting /\ Expirations /\ Fitting
  BY DEF Locked, Calls, RanOnce, Deleted, Waiting, Expirations, Fitting, Within
<1>7. Lists
  <2>1. ASSUME NEW l \in Levels PROVE Distinct(list[l]) /\ Elements(list[l]) = Of(l)
    BY DEF Distinct, Elements, Of
  <2> QED
    BY <2>1 DEF Lists
<1>8. Counted
  <2>1. {t \in Tasks : where[t] # None} = {}
    OBVIOUS
  <2> QED
    BY <2>1, FS_EmptySet DEF Counted
<1> QED
  BY <1>2, <1>4, <1>5, <1>6, <1>7, <1>8 DEF Inv, Live

LEMMA InvNext == Inv /\ [Next]_vars => Inv'
<1> SUFFICES ASSUME Inv, [Next]_vars PROVE Inv'
  OBVIOUS
<1>1. CASE UNCHANGED vars
  <2>1. now' \in 0..MaxTime
    BY <1>1 DEF vars, Inv, TypeOK
  <2> QED
    BY <1>1, <2>1, QuietStep DEF vars
<1>2. CASE Next
  <2>1. ~crashed
    BY <1>2 DEF Next
  <2>2. CASE TimePasses
    <3>1. now' \in 0..MaxTime
      BY <2>2, TimerAssumption DEF TimePasses, Inv, TypeOK
    <3> QED
      BY <2>2, <3>1, QuietStep DEF TimePasses
  <2>3. CASE \E a \in Adders : AddByDelay(a) \/ AdderSteps(a)
    BY <2>1, <2>3, AddByDelayStep, AddEntryStep, AddTestFlagStep, AddSetExpirationStep, AddReturnStep
       DEF AdderSteps
  <2>4. CASE \E k \in Tickers : TickerSteps(k)
    BY <2>1, <2>4, TickerPollStep, TickerLockStep, FlushEntryStep, FlushFreedStep, FlushEndStep
       DEF TickerSteps
  <2> QED
    BY <1>2, <2>2, <2>3, <2>4 DEF Next
<1> QED
  BY <1>1, <1>2

(* The parts of the invariant hold in every state of the timer. *)
THEOREM Invariance == Spec => []Inv
BY InvInit, InvNext, PTL DEF Spec

(* The variables keep their types. *)
THEOREM TypeCorrect == Spec => []TypeOK
<1>1. Inv => TypeOK
  BY DEF Inv
<1> QED
  BY <1>1, Invariance, PTL

(* The clocks of the wheels agree, whatever wheels add() creates and       *)
(* however far advanceClock() is told to go.                               *)
THEOREM AgreementOfClocks == Spec => []ClocksAgree
<1>1. Inv => ClocksAgree
  BY DEF Inv
<1> QED
  BY <1>1, Invariance, PTL

(* No entry is lost, linked twice or run twice, by any number of adders    *)
(* and tickers, unless a deleted entry is reached.                         *)
THEOREM Conservation == Spec => []EntriesConserved
<1>1. Inv => EntriesConserved
  BY Conserved DEF Inv, Live, EntriesConserved
<1> QED
  BY <1>1, Invariance, PTL

(* What waits is going to be looked at, unless setExpiration() found the   *)
(* flag busy.                                                              *)
THEOREM NoneForgotten == Spec => []NothingForgotten
<1>1. ASSUME Inv PROVE NothingForgotten
  <2> SUFFICES ASSUME ~crashed, NEW t \in Tasks, where[t] # None, t \notin lost
               PROVE  \/ \E e \in BagToSet(m_queue) : e[2] = where[t] /\ e[1] < due[t] + tick[where[t][1]]
                      \/ \E k \in Tickers : kpc[k] # "tick" /\ kbucket[k] = where[t]
                      \/ \E a \in Adders : apc[a] \in {"set", "busy", "offer"} /\ where[atask[a]] = where[t]
    BY DEF NothingForgotten
  <2>1. Awaited(t)
    BY <1>1 DEF Inv, Live, Waiting
  <2> QED
    BY <2>1 DEF Awaited, Covered
<1> QED
  BY <1>1, Invariance, PTL

-----------------------------------------------------------------------------
(* Nothing runs early.  As long as no bucket is used for another round     *)
(* before it has been flushed, a bucket that is set is on its way to a     *)
(* flush once, for the one round of its entries, and the clock is never    *)
(* ahead of the time.                                                      *)

Rounds == \A s, t \in Tasks : where[s] # None /\ where[t] = where[s] =>
    roundOf(s, where[s]) = roundOf(t, where[s])
Served == \A t \in Tasks : where[t] # None => m_expiration[where[t]] \in {-1, roundOf(t, where[t])}

Queued(b) == {e \in BagToSet(m_queue) : e[2] = b}
Holds(k, b) == kpc[k] # "tick" /\ kbucket[k] = b
Offers(a, b) == apc[a] = "offer" /\ where[atask[a]] = b

(* A bucket is on its way once at most, and not at all. *)
Single(b) ==
    /\ \A e, f \in Queued(b) : e = f
    /\ \A e \in Queued(b) : m_queue[e] = 1
    /\ \A j, k \in Tickers : Holds(j, b) /\ Holds(k, b) => j = k
    /\ \A a, c \in Adders : Offers(a, b) /\ Offers(c, b) => a = c
    /\ \A k \in Tickers : Holds(k, b) => Queued(b) = {}
    /\ \A a \in Adders : Offers(a, b) => Queued(b) = {}
    /\ \A k \in Tickers, a \in Adders : ~ (Holds(k, b) /\ Offers(a, b))
Idle(b) ==
    /\ Queued(b) = {}
    /\ \A k \in Tickers : ~ Holds(k, b)
    /\ \A a \in Adders : ~ Offers(a, b)

OnePerRound == \A b \in Buckets : Single(b) /\ (m_expiration[b] = -1 => Idle(b))

Timely ==
    /\ m_currentTime[0] <= now
    /\ \A e \in BagToSet(m_queue) : m_expiration[e[2]] <= e[1]
    /\ \A k \in Tickers : kpc[k] = "wait" => m_expiration[kbucket[k]] <= now
    /\ \A a \in Adders : apc[a] = "offer" => m_expiration[where[atask[a]]] <= due[atask[a]]

Punctual == Rounds /\ Served /\ OnePerRound /\ Timely

OnTime == ~overtaken /\ lost = {} /\ ~crashed => Punctual

LEMMA FewerWays ==
    ASSUME NEW b, Queued(b)' \subseteq Queued(b),
           \A e \in Queued(b)' : m_queue'[e] = m_queue[e],
           \A k \in Tickers : Holds(k, b)' => Holds(k, b),
           \A a \in Adders : Offers(a, b)' => Offers(a, b)
    PROVE  (Single(b) => Single(b)') /\ (Idle(b) => Idle(b)')
BY DEF Single, Idle

(* Steps that set no expiration and bring no bucket further. *)
LEMMA CalmStep ==
    ASSUME Inv, ~crashed, Punctual, Rounds', Served',
           m_expiration' = m_expiration, m_queue' = m_queue,
           \A k \in Tickers : kpc'[k] # "tick" => kpc[k] # "tick" /\ kbucket'[k] = kbucket[k],
           \A k \in Tickers : kpc'[k] = "wait" => kpc[k] = "wait",
           \A a \in Adders : apc'[a] = "offer" =>
              /\ apc[a] = "offer" /\ where'[atask'[a]] = where[atask[a]]
              /\ due'[atask'[a]] = due[atask[a]],
           now' \in Nat, now <= now', m_currentTime'[0] <= now'
    PROVE  Punctual'
<1>1. \A b \in Buckets : Queued(b)' = Queued(b)
  BY DEF Queued, BagToSet
<1>2. \A b \in Buckets : /\ \A k \in Tickers : Holds(k, b)' => Holds(k, b)
                         /\ \A a \in Adders : Offers(a, b)' => Offers(a, b)
  BY DEF Holds, Offers
<1>3. OnePerRound'
  <2>1. ASSUME NEW b \in Buckets PROVE Single(b)' /\ (m_expiration'[b] = -1 => Idle(b)')
    <3>1. (Single(b) => Single(b)') /\ (Idle(b) => Idle(b)')
      BY <1>1, <1>2, FewerWays
    <3> QED
      BY <3>1 DEF Punctual, OnePerRound
  <2> QED
    BY <2>1 DEF OnePerRound
<1>4. Timely'
  <2>1. now \in Nat /\ \A k \in Tickers : kpc[k] = "wait" => m_expiration[kbucket[k]] \in Int
    <3>1. \A k \in Tickers : kpc[k] = "wait" => kbucket[k] \in Buckets
      BY DEF Inv, Live, Calls
    <3>2. \A b \in Buckets : m_expiration[b] \in Int
      BY DEF Inv, TypeOK
    <3> QED
      BY <3>1, <3>2 DEF Inv, TypeOK
  <2> QED
    BY <2>1 DEF Punctual, Timely, BagToSet
<1> QED
  BY <1>3, <1>4 DEF Punctual

(* Rounds and Served, when entries stay where they are. *)
LEMMA SameRounds ==
    ASSUME Rounds, Served, m_expiration' = m_expiration,
           \A t \in Tasks : where'[t] # None => where'[t] = where[t] /\ due'[t] = due[t]
    PROVE  Rounds' /\ Served'
BY DEF Rounds, Served, roundOf

(* ... and when one is placed. *)
LEMMA PlacedRounds ==
    ASSUME TypeOK, Rounds, Served, NEW t \in Tasks, NEW b \in Buckets, Placed(t, b), ~overtaken',
           due' = due, where'[t] = b, \A s \in Tasks \ {t} : where'[s] = where[s],
           NEW exp, m_expiration' = [m_expiration EXCEPT ![b] = exp],
           exp \in {m_expiration[b], roundOf(t, b)}
    PROVE  /\ m_expiration[b] \in {-1, roundOf(t, b)} /\ ~overtaken
           /\ Rounds' /\ Served'
<1>1. /\ m_expiration[b] \in {-1, roundOf(t, b)} /\ ~overtaken
      /\ \A s \in Tasks \ {t} : where[s] = b => roundOf(s, b) = roundOf(t, b)
  BY DEF Placed
<1>2. \A s \in Tasks, d \in Buckets : roundOf(s, d)' = roundOf(s, d)
  BY DEF roundOf
<1>3. b # None /\ m_expiration \in [Buckets -> Nat \cup {-1}] /\ where \in [Tasks -> Buckets \cup {None}]
  BY NamesAssumption DEF TypeOK
<1>4. \A s \in Tasks : where'[s] = b => roundOf(s, b) = roundOf(t, b)
  BY <1>1
<1>5. Rounds'
  <2>1. ASSUME NEW s \in Tasks, NEW u \in Tasks, where'[s] # None, where'[u] = where'[s]
        PROVE  roundOf(s, where'[s]) = roundOf(u, where'[s])
    <3>1. CASE where'[s] = b
      BY <1>4, <2>1, <3>1
    <3>2. CASE where'[s] # b
      BY <2>1, <3>2 DEF Rounds
    <3> QED
      BY <3>1, <3>2
  <2> QED
    BY <2>1 DEF Rounds, roundOf
<1>6. Served'
  <2>1. ASSUME NEW s \in Tasks, where'[s] # None
        PROVE  m_expiration'[where'[s]] \in {-1, roundOf(s, where'[s])}
    <3>1. CASE where'[s] = b
      BY <1>1, <1>3, <1>4, <2>1, <3>1
    <3>2. CASE where'[s] # b
      <4>1. where'[s] = where[s] /\ where[s] \in Buckets
        BY <1>3, <2>1, <3>2
      <4>2. m_expiration'[where[s]] = m_expiration[where[s]]
        BY <1>3, <3>2, <4>1
      <4> QED
        BY <2>1, <4>1, <4>2 DEF Served
    <3> QED
      BY <3>1, <3>2
  <2> QED
    BY <2>1 DEF Served, roundOf
<1> QED
  BY <1>1, <1>5, <1>6

LEMMA AddOnTime ==
    ASSUME Inv, ~crashed, Punctual, NEW a \in Adders,
           AddByDelay(a) \/ AddEntry(a) \/ AddTestFlag(a), ~overtaken', lost' = {}
    PROVE  Punctual'
<1>1. TypeOK /\ ClocksAgree /\ m_currentTime[0] # None /\ Live /\ ClockType
  BY DEF Inv, TypeOK, ClockType
<1>2. Rounds /\ Served /\ m_currentTime[0] <= now /\ now \in Nat
  BY <1>1 DEF Punctual, Timely, TypeOK
<1>3. \A c \in Adders : apc[c] = "offer" => atask[c] \in Tasks /\ where[atask[c]] # None /\ due[atask[c]] # None
  BY <1>1 DEF Live, Calls, Within
<1>4. CASE AddByDelay(a)
  <2>1. PICK t \in Tasks, d \in Delays :
            due[t] = None /\ due' = [due EXCEPT ![t] = now + d] /\ atask' = [atask EXCEPT ![a] = t]
    BY <1>4 DEF AddByDelay
  <2>2. /\ apc[a] = "idle" /\ apc' = [apc EXCEPT ![a] = "enter"]
        /\ UNCHANGED <<now, m_currentTime, m_expiration, where, m_queue, kpc, kbucket>>
    BY <1>4 DEF AddByDelay, wheelVars, tickerVars
  <2>3. \A s \in Tasks : s # t => due'[s] = due[s]
    BY <1>1, <2>1 DEF TypeOK
  <2>4. \A c \in Adders : c # a => atask'[c] = atask[c] /\ apc'[c] = apc[c]
    BY <1>1, <2>1, <2>2 DEF TypeOK
  <2>5. apc'[a] = "enter"
    BY <1>1, <2>2 DEF TypeOK
  <2>6. where[t] = None
    BY <1>1, <2>1 DEF Live, Calls
  <2>7. Rounds' /\ Served'
    BY <1>2, <2>2, <2>3, <2>6, SameRounds
  <2>8. \A c \in Adders : apc'[c] = "offer" =>
            /\ apc[c] = "offer" /\ where'[atask'[c]] = where[atask[c]]
            /\ due'[atask'[c]] = due[atask[c]]
    BY <1>3, <2>1, <2>2, <2>3, <2>4, <2>5
  <2> QED
    BY <1>2, <2>2, <2>7, <2>8, CalmStep
<1>5. CASE AddEntry(a)
  <2> DEFINE t == atask[a]
             b == bucketFor(due[t])
  <2>1. /\ apc[a] = "enter"
        /\ UNCHANGED <<now, m_expiration, m_queue, kpc, kbucket, atask, due>>
    BY <1>5 DEF AddEntry, tickerVars
  <2>2. /\ t \in Tasks /\ due[t] \in Nat /\ due[t] < interval(Wheels - 1) /\ where[t] = None
    BY <1>1, <2>1 DEF TypeOK, Live, Calls
  <2>3. \A c \in Adders : apc[c] = "offer" => c # a /\ atask[c] # t
    BY <1>3, <2>1, <2>2
  <2> HIDE DEF t, b
  <2>4. CASE isDue(due[t])
    <3>1. apc' = [apc EXCEPT ![a] = "idle"] /\ UNCHANGED <<m_currentTime, where>>
      BY <1>5, <2>4 DEF AddEntry, t
    <3>2. \A c \in Adders : apc'[c] = "offer" => apc[c] = "offer"
      BY <1>1, <3>1 DEF TypeOK
    <3>3. Rounds' /\ Served'
      BY <1>2, <2>1, <3>1, SameRounds
    <3> QED
      BY <1>2, <2>1, <3>1, <3>2, <3>3, CalmStep
  <2>5. CASE ~ isDue(due[t])
    <3>1. /\ m_currentTime' = Created(due[t])
          /\ Placed(t, b)
          /\ apc' = [apc EXCEPT ![a] = "set"]
      BY <1>5, <2>5 DEF AddEntry, t, b
    <3>2. b \in Buckets
      BY <1>1, <2>2, BucketFor DEF b
    <3>3. where'[t] = b /\ \A s \in Tasks \ {t} : where'[s] = where[s]
      BY <1>1, <2>2, <3>1, <3>2, PlacedLists DEF Live
    <3>4. m_currentTime'[0] = m_currentTime[0]
      BY <1>1, <2>2, <3>1, CreatedClock, LevelBelow
    <3>5. \A c \in Adders : apc'[c] = "offer" =>
              apc[c] = "offer" /\ where'[atask[c]] = where[atask[c]]
      BY <1>1, <1>3, <2>3, <3>1, <3>3 DEF TypeOK
    <3>6. Rounds' /\ Served'
      <4>1. m_expiration' = [m_expiration EXCEPT ![b] = m_expiration[b]]
        BY <1>1, <2>1 DEF TypeOK
      <4> QED
        BY <1>1, <1>2, <2>1, <2>2, <3>1, <3>2, <3>3, <4>1, PlacedRounds
    <3> QED
      BY <1>2, <2>1, <3>4, <3>5, <3>6, CalmStep
  <2> QED
    BY <2>4, <2>5
<1>6. CASE AddTestFlag(a)
  <2>1. UNCHANGED <<now, m_currentTime, m_expiration, where, m_queue, kpc, kbucket, atask, due>>
    BY <1>6 DEF AddTestFlag, wheelVars, tickerVars
  <2>2. apc' = [apc EXCEPT ![a] = "busy"]
    BY <1>6 DEF AddTestFlag
  <2>3. \A c \in Adders : apc'[c] = "offer" => apc[c] = "offer"
    BY <1>1, <2>2 DEF TypeOK
  <2>4. Rounds' /\ Served'
    BY <1>2, <2>1, SameRounds
  <2> QED
    BY <1>2, <2>1, <2>3, <2>4, CalmStep
<1> QED
  BY <1>4, <1>5, <1>6

(* An expiration is set for a bucket that was idle, which is offered. *)
LEMMA SetOnTime ==
    ASSUME Inv, ~crashed, Punctual, NEW a \in Adders, AddSetExpiration(a)
    PROVE  Punctual'
<1> DEFINE t == atask[a]
           b == where[t]
           start == startOf(due[t])
<1>1. TypeOK /\ ClocksAgree /\ m_currentTime[0] # None /\ Live /\ ClockType
  BY DEF Inv, TypeOK, ClockType
<1>2. /\ apc[a] = "busy"
      /\ m_expiration' = [m_expiration EXCEPT ![b] = start]
      /\ apc' = [apc EXCEPT ![a] = IF m_expiration[b] # start THEN "offer" ELSE "unlock"]
      /\ UNCHANGED <<now, m_currentTime, where, m_queue, kpc, kbucket, atask, due>>
  BY DEF AddSetExpiration, tickerVars
<1>3. /\ t \in Tasks /\ due[t] \in Nat /\ due[t] < interval(Wheels - 1)
      /\ b \in Buckets /\ b # None /\ b[1] \in Levels
  BY <1>1, <1>2 DEF TypeOK, Live, Calls, Within, Buckets
<1>4. levelFor(due[t]) = b[1]
  BY <1>1, <1>2, <1>3, StaysFit DEF Live
<1>5. start = roundOf(t, b) /\ start \in Nat /\ start <= due[t]
  BY <1>1, <1>3, <1>4, BucketFor DEF startOf, roundOf
<1>6. Rounds /\ Served /\ m_expiration[b] \in {-1, start}
  BY <1>3, <1>5 DEF Punctual, Served
<1> HIDE DEF t, b, start
<1>7. \A c \in Adders : c # a => apc'[c] = apc[c]
  BY <1>1, <1>2 DEF TypeOK
<1>8. m_expiration'[b] = start /\ \A d \in Buckets : d # b => m_expiration'[d] = m_expiration[d]
  BY <1>1, <1>2, <1>3 DEF TypeOK
<1>9. Rounds'
  BY <1>2, <1>6 DEF Rounds, roundOf
<1>10. Served'
  <2>1. ASSUME NEW s \in Tasks, where[s] # None
        PROVE  m_expiration'[where[s]] \in {-1, roundOf(s, where[s])}
    <3>1. CASE where[s] = b
      <4>1. roundOf(s, b) = start
        BY <1>3, <1>5, <1>6, <2>1, <3>1 DEF Rounds, b
      <4> QED
        BY <1>8, <3>1, <4>1
    <3>2. CASE where[s] # b
      <4>1. where[s] \in Buckets
        BY <1>1, <2>1 DEF TypeOK
      <4> QED
        BY <1>6, <1>8, <2>1, <3>2, <4>1 DEF Served
    <3> QED
      BY <3>1, <3>2
  <2> QED
    BY <1>2, <2>1 DEF Served, roundOf
<1>11. CASE m_expiration[b] = start
  <2>1. m_expiration' = m_expiration
    BY <1>1, <1>2, <1>11 DEF TypeOK
  <2>2. apc'[a] = "unlock"
    BY <1>1, <1>2, <1>11 DEF TypeOK
  <2>3. \A c \in Adders : apc'[c] = "offer" => apc[c] = "offer"
    BY <1>7, <2>2
  <2>4. m_currentTime'[0] <= now' /\ now' = now /\ now \in Nat
    BY <1>1, <1>2 DEF Punctual, Timely, TypeOK
  <2> QED
    BY <1>2, <1>9, <1>10, <2>1, <2>3, <2>4, CalmStep
<1>12. CASE m_expiration[b] # start
  <2>1. apc'[a] = "offer"
    BY <1>1, <1>2, <1>12 DEF TypeOK
  <2>2. Idle(b)
    BY <1>3, <1>6, <1>12 DEF Punctual, OnePerRound
  <2>3. \A d \in Buckets : Queued(d)' = Queued(d) /\ \A k \in Tickers : Holds(k, d)' <=> Holds(k, d)
    BY <1>2 DEF Queued, BagToSet, Holds
  <2>4. \A d \in Buckets, c \in Adders : Offers(c, d)' => Offers(c, d) \/ (c = a /\ d = b)
    BY <1>2, <1>7 DEF Offers, b, t
  <2>5. ASSUME NEW d \in Buckets PROVE Single(d)' /\ (m_expiration'[d] = -1 => Idle(d)')
    <3>1. CASE d = b
      <4>1. \A k \in Tickers : ~ Holds(k, d)'
        BY <2>2, <2>3, <3>1 DEF Idle
      <4>2. \A c \in Adders : Offers(c, d)' => c = a
        BY <2>2, <2>4, <3>1 DEF Idle
      <4>3. Queued(d)' = {}
        BY <2>2, <2>3, <3>1 DEF Idle
      <4>4. Single(d)'
        BY <4>1, <4>2, <4>3 DEF Single
      <4> QED
        BY <1>5, <1>8, <3>1, <4>4
    <3>2. CASE d # b
      <4>1. (Single(d) => Single(d)') /\ (Idle(d) => Idle(d)')
        BY <1>2, <2>3, <2>4, <3>2, FewerWays
      <4> QED
        BY <1>8, <3>2, <4>1 DEF Punctual, OnePerRound
    <3> QED
      BY <3>1, <3>2
  <2>6. OnePerRound'
    BY <2>5 DEF OnePerRound
  <2>7. \A e \in BagToSet(m_queue) : e[2] \in Buckets /\ e[2] # b
    BY <1>1, <2>2 DEF Idle, Queued, TypeOK
  <2>8. \A k \in Tickers : kpc[k] = "wait" => kbucket[k] \in Buckets /\ kbucket[k] # b
    BY <1>1, <2>2 DEF Idle, Holds, Live, Calls
  <2>9. \A c \in Adders : c # a /\ apc[c] = "offer" => where[atask[c]] \in Buckets /\ where[atask[c]] # b
    BY <1>1, <2>2 DEF Idle, Offers, Live, Calls, Within, TypeOK
  <2>10. Timely'
    <3>1. m_currentTime'[0] <= now'
      BY <1>2 DEF Punctual, Timely
    <3>2. \A e \in BagToSet(m_queue) : m_expiration'[e[2]] <= e[1]
      BY <1>8, <2>7 DEF Punctual, Timely
    <3>3. \A k \in Tickers : kpc[k] = "wait" => m_expiration'[kbucket[k]] <= now
      BY <1>8, <2>8 DEF Punctual, Timely
    <3>4. ASSUME NEW c \in Adders, apc'[c] = "offer"
          PROVE  m_expiration'[where[atask[c]]] <= due[atask[c]]
      <4>1. CASE c = a
        BY <1>5, <1>8, <4>1 DEF b, t
      <4>2. CASE c # a
        BY <1>7, <1>8, <2>9, <3>4, <4>2 DEF Punctual, Timely
      <4> QED
        BY <4>1, <4>2
    <3> QED
      BY <1>2, <3>1, <3>2, <3>3, <3>4 DEF Timely, BagToSet
  <2> QED
    BY <1>9, <1>10, <2>6, <2>10 DEF Punctual
<1> QED
  BY <1>11, <1>12

(* A bucket that is on no other way goes into the queue. *)
LEMMA QueuedOnce ==
    ASSUME TypeOK, OnePerRound, NEW exp \in Nat, NEW b \in Buckets, m_queue' = Offer(exp, b),
           Queued(b) = {}, \A k \in Tickers : ~ Holds(k, b), \A a \in Adders : ~ Offers(a, b)',
           kpc' = kpc, kbucket' = kbucket,
           \A a \in Adders, d \in Buckets : Offers(a, d)' => Offers(a, d),
           m_expiration'[b] # -1, \A d \in Buckets : d # b => m_expiration'[d] = m_expiration[d]
    PROVE  OnePerRound' /\ BagToSet(m_queue)' = BagToSet(m_queue) \cup {<<exp, b>>}
<1> DEFINE e == <<exp, b>>
<1>1. e \notin BagToSet(m_queue) /\ e[2] = b
  BY DEF Queued
<1>2. /\ BagToSet(m_queue)' = BagToSet(m_queue) \cup {e}
      /\ m_queue' = [f \in BagToSet(m_queue)' |-> IF f = e THEN 1 ELSE m_queue[f]]
  BY <1>1, Offering
<1> HIDE DEF e
<1>3. m_queue'[e] = 1 /\ \A f \in BagToSet(m_queue) : m_queue'[f] = m_queue[f]
  BY <1>1, <1>2
<1>4. \A d \in Buckets : Queued(d)' = IF d = b THEN {e} ELSE Queued(d)
  BY <1>1, <1>2 DEF Queued
<1>5. \A d \in Buckets, k \in Tickers : Holds(k, d)' <=> Holds(k, d)
  BY DEF Holds
<1>6. ASSUME NEW d \in Buckets PROVE Single(d)' /\ (m_expiration'[d] = -1 => Idle(d)')
  <2>1. CASE d = b
    <3>1. \A k \in Tickers : ~ Holds(k, d)'
      BY <1>5, <2>1
    <3>2. \A a \in Adders : ~ Offers(a, d)'
      BY <2>1
    <3>3. Queued(d)' = {e}
      BY <1>4, <2>1
    <3> QED
      BY <1>3, <2>1, <3>1, <3>2, <3>3 DEF Single
  <2>2. CASE d # b
    <3>1. \A f \in Queued(d)' : f \in Queued(d) /\ m_queue'[f] = m_queue[f]
      BY <1>3, <1>4, <2>2 DEF Queued
    <3>2. (Single(d) => Single(d)') /\ (Idle(d) => Idle(d)')
      BY <1>5, <3>1, FewerWays
    <3> QED
      BY <2>2, <3>2 DEF OnePerRound
  <2> QED
    BY <2>1, <2>2
<1> QED
  BY <1>2, <1>6 DEF OnePerRound, e

(* The offered bucket is put into the queue. *)
LEMMA ReturnOnTime ==
    ASSUME Inv, ~crashed, Punctual, NEW a \in Adders, AddReturn(a)
    PROVE  Punctual'
<1> DEFINE t == atask[a]
           b == where[t]
           e == <<due[t], b>>
<1>1. TypeOK /\ Live
  BY DEF Inv
<1>2. /\ apc[a] \in {"offer", "unlock"}
      /\ m_queue' = IF apc[a] = "offer" THEN Offer(due[t], b) ELSE m_queue
      /\ apc' = [apc EXCEPT ![a] = "idle"]
      /\ UNCHANGED <<now, m_currentTime, m_expiration, where, kpc, kbucket, atask, due>>
  BY DEF AddReturn, tickerVars
<1>3. t \in Tasks /\ due[t] \in Nat /\ b \in Buckets
  BY <1>1, <1>2 DEF TypeOK, Live, Calls, Within
<1> HIDE DEF t, b
<1>4. \A c \in Adders : apc'[c] = IF c = a THEN "idle" ELSE apc[c]
  BY <1>1, <1>2 DEF TypeOK
<1>5. Rounds' /\ Served'
  BY <1>2 DEF Punctual, Rounds, Served, roundOf
<1>6. m_currentTime'[0] <= now' /\ now' = now /\ now \in Nat
  BY <1>1, <1>2 DEF Punctual, Timely, TypeOK
<1>7. CASE apc[a] = "unlock"
  <2>1. m_queue' = m_queue
    BY <1>2, <1>7
  <2>2. \A c \in Adders : apc'[c] = "offer" => apc[c] = "offer"
    BY <1>4
  <2> QED
    BY <1>2, <1>5, <1>6, <2>1, <2>2, CalmStep
<1>8. CASE apc[a] = "offer"
  <2>1. Offers(a, b) /\ Single(b)
    BY <1>3, <1>8 DEF Offers, b, t, Punctual, OnePerRound
  <2>2. Queued(b) = {} /\ \A k \in Tickers : ~ Holds(k, b)
    BY <2>1 DEF Single
  <2>3. \A c \in Adders : Offers(c, b) => c = a
    BY <2>1 DEF Single
  <2>4. m_queue' = Offer(due[t], b)
    BY <1>2, <1>8
  <2>5. \A c \in Adders, d \in Buckets : Offers(c, d)' => Offers(c, d) /\ c # a
    BY <1>2, <1>4 DEF Offers
  <2>6. m_expiration[b] # -1
    BY <1>3, <2>1 DEF Punctual, OnePerRound, Idle
  <2>7. OnePerRound' /\ BagToSet(m_queue)' = BagToSet(m_queue) \cup {e}
    BY <1>1, <1>2, <1>3, <2>2, <2>3, <2>4, <2>5, <2>6, QueuedOnce DEF Punctual
  <2>8. m_expiration[b] <= due[t]
    BY <1>8 DEF Punctual, Timely, b, t
  <2>9. Timely'
    <3>1. \A f \in BagToSet(m_queue)' : m_expiration[f[2]] <= f[1]
      BY <2>7, <2>8 DEF Punctual, Timely
    <3>2. \A c \in Adders : apc'[c] = "offer" => apc[c] = "offer"
      BY <1>4
    <3> QED
      BY <1>2, <1>6, <3>1, <3>2 DEF Punctual, Timely
  <2> QED
    BY <1>5, <2>7, <2>9 DEF Punctual
<1> QED
  BY <1>2, <1>7, <1>8

(* A ticker takes a bucket off the queue; it may have flushed another. *)
LEMMA PolledOnce ==
    ASSUME TypeOK, OnePerRound, NEW k \in Tickers, NEW e \in Polled, m_queue' = Take(e),
           kpc'[k] # "tick", kbucket'[k] = e[2],
           \A j \in Tickers : j # k => kpc'[j] = kpc[j] /\ kbucket'[j] = kbucket[j],
           UNCHANGED <<apc, atask, where>>,
           \A d \in Buckets : \/ m_expiration'[d] = m_expiration[d]
                              \/ m_expiration'[d] = -1 /\ Holds(k, d)
    PROVE  /\ OnePerRound'
           /\ \A j \in Tickers : ~ Holds(j, e[2])
           /\ BagToSet(m_queue)' \subseteq BagToSet(m_queue)
<1>1. /\ e \in BagToSet(m_queue) /\ e[2] \in Buckets
      /\ BagToSet(m_queue)' \subseteq BagToSet(m_queue)
      /\ m_queue[e] = 1 => e \notin BagToSet(m_queue)'
      /\ \A f \in BagToSet(m_queue)' : f # e => m_queue'[f] = m_queue[f]
  <2>1. e \in BagToSet(m_queue)
    BY DEF Polled
  <2> QED
    BY <2>1, Taking
<1>2. e \in Queued(e[2]) /\ Single(e[2])
  BY <1>1 DEF Queued, OnePerRound
<1>3. /\ m_queue[e] = 1 /\ \A f \in Queued(e[2]) : f = e
      /\ \A j \in Tickers : ~ Holds(j, e[2])
      /\ \A a \in Adders : ~ Offers(a, e[2])
  BY <1>2 DEF Single
<1>4. \A a \in Adders, d \in Buckets : Offers(a, d)' <=> Offers(a, d)
  BY DEF Offers
<1>5. \A j \in Tickers, d \in Buckets : j # k => (Holds(j, d)' <=> Holds(j, d))
  BY DEF Holds
<1>6. \A d \in Buckets : Holds(k, d)' <=> d = e[2]
  BY DEF Holds
<1>7. ASSUME NEW d \in Buckets PROVE Single(d)' /\ (m_expiration'[d] = -1 => Idle(d)')
  <2>1. CASE d = e[2]
    <3>1. Queued(d)' = {}
      BY <1>1, <1>3, <2>1 DEF Queued
    <3>2. \A a \in Adders : ~ Offers(a, d)'
      BY <1>3, <1>4, <2>1
    <3>3. \A j \in Tickers : Holds(j, d)' => j = k
      BY <1>3, <1>5, <2>1
    <3>4. Single(d)'
      BY <3>1, <3>2, <3>3 DEF Single
    <3>5. m_expiration[d] # -1
      BY <1>2, <2>1 DEF OnePerRound, Idle
    <3>6. m_expiration'[d] # -1
      BY <1>3, <2>1, <3>5
    <3> QED
      BY <3>4, <3>6
  <2>2. CASE d # e[2]
    <3>1. Queued(d)' \subseteq Queued(d) /\ \A f \in Queued(d)' : m_queue'[f] = m_queue[f]
      BY <1>1, <2>2 DEF Queued
    <3>2. ~ Holds(k, d)' /\ \A j \in Tickers : Holds(j, d)' => Holds(j, d)
      BY <1>5, <1>6, <2>2
    <3>3. (Single(d) => Single(d)') /\ (Idle(d) => Idle(d)')
      BY <1>4, <3>1, <3>2, FewerWays
    <3>4. Single(d) /\ (m_expiration[d] = -1 => Idle(d))
      BY DEF OnePerRound
    <3>5. Holds(k, d) => Idle(d)'
      <4>1. Holds(k, d) => /\ Queued(d) = {}
                           /\ \A a \in Adders : ~ Offers(a, d)
                           /\ \A j \in Tickers : Holds(j, d) => j = k
        BY <3>4 DEF Single
      <4> QED
        BY <1>4, <3>1, <3>2, <4>1 DEF Idle
    <3> QED
      BY <3>3, <3>4, <3>5
  <2> QED
    BY <2>1, <2>2
<1> QED
  BY <1>1, <1>3, <1>7 DEF OnePerRound

LEMMA PollOnTime ==
    ASSUME Inv, ~crashed, Punctual, NEW k \in Tickers, TickerPoll(k)
    PROVE  Punctual'
<1>1. TypeOK /\ Live /\ Rounds /\ Served /\ OnePerRound /\ Timely
  BY DEF Inv, Punctual
<1>2. PICK e \in Polled : m_queue' = Take(e) /\ kbucket' = [kbucket EXCEPT ![k] = e[2]]
  BY DEF TickerPoll
<1>3. /\ kpc' = [kpc EXCEPT ![k] = "wait"]
      /\ UNCHANGED <<now, m_currentTime, m_expiration, where, apc, atask, due>>
  BY DEF TickerPoll, adderVars
<1>4. \A j \in Tickers : /\ kpc'[j] = IF j = k THEN "wait" ELSE kpc[j]
                         /\ kbucket'[j] = IF j = k THEN e[2] ELSE kbucket[j]
  BY <1>1, <1>2, <1>3 DEF TypeOK
<1>5. OnePerRound' /\ BagToSet(m_queue)' \subseteq BagToSet(m_queue)
  BY <1>1, <1>2, <1>3, <1>4, PolledOnce
<1>6. Rounds' /\ Served'
  BY <1>1, <1>3, SameRounds
<1>7. m_expiration[e[2]] <= now
  <2>1. e \in BagToSet(m_queue) /\ e[1] <= now
    BY DEF Polled
  <2>2. m_expiration[e[2]] <= e[1] /\ m_expiration[e[2]] \in Int /\ e[1] \in Nat /\ now \in Nat
    BY <1>1, <2>1 DEF Timely, TypeOK
  <2> QED
    BY <2>1, <2>2
<1>8. Timely'
  <2>1. m_currentTime'[0] <= now' /\ \A f \in BagToSet(m_queue)' : m_expiration'[f[2]] <= f[1]
    BY <1>1, <1>3, <1>5 DEF Timely
  <2>2. \A j \in Tickers : kpc'[j] = "wait" => m_expiration'[kbucket'[j]] <= now'
    BY <1>1, <1>3, <1>4, <1>7 DEF Timely
  <2>3. \A a \in Adders : apc'[a] = "offer" => m_expiration'[where'[atask'[a]]] <= due'[atask'[a]]
    BY <1>1, <1>3 DEF Timely
  <2> QED
    BY <2>1, <2>2, <2>3 DEF Timely
<1> QED
  BY <1>5, <1>6, <1>8 DEF Punctual

LEMMA LockOnTime ==
    ASSUME Inv, ~crashed, Punctual, NEW k \in Tickers, TickerLock(k)
    PROVE  Punctual'
<1> DEFINE time == m_expiration[kbucket[k]]
<1>1. TypeOK /\ ClocksAgree /\ Live /\ ClockType /\ Rounds /\ Served /\ Timely
  BY DEF Inv, TypeOK, ClockType, Punctual
<1>2. /\ kpc[k] = "wait"
      /\ m_currentTime' = Advanced(time)
      /\ kpc' = [kpc EXCEPT ![k] = "flush"]
      /\ UNCHANGED <<now, m_expiration, where, m_queue, kbucket, apc, atask, due>>
  BY DEF TickerLock, adderVars
<1>3. time \in Nat \cup {-1} /\ time <= now /\ now \in Nat
  BY <1>1, <1>2 DEF TypeOK, Live, Calls, Timely
<1> HIDE DEF time
<1>4. m_currentTime'[0] <= now'
  <2>1. m_currentTime'[0] = m_currentTime[0] \/ m_currentTime'[0] <= time
    BY <1>1, <1>2, <1>3, AdvancedClock
  <2>2. m_currentTime'[0] \in Nat
    <3>1. m_currentTime' \in [Levels -> Nat \cup {None}] /\ m_currentTime'[0] # None
      BY <1>1, <1>2, <1>3, AdvancedClock
    <3> QED
      BY <3>1, LevelBelow
  <2> QED
    BY <1>1, <1>2, <1>3, <2>1, <2>2 DEF Timely
<1>5. \A j \in Tickers : kpc'[j] = IF j = k THEN "flush" ELSE kpc[j]
  BY <1>1, <1>2 DEF TypeOK
<1>6. /\ \A j \in Tickers : kpc'[j] # "tick" => kpc[j] # "tick" /\ kbucket'[j] = kbucket[j]
      /\ \A j \in Tickers : kpc'[j] = "wait" => kpc[j] = "wait"
  BY <1>2, <1>5
<1>7. Rounds' /\ Served'
  BY <1>1, <1>2, SameRounds
<1> QED
  BY <1>2, <1>3, <1>4, <1>6, <1>7, CalmStep

LEMMA FlushEntryOnTime ==
    ASSUME Inv, ~crashed, Punctual, NEW k \in Tickers, FlushEntry(k), ~overtaken', ~crashed'
    PROVE  Punctual'
<1> DEFINE l == kbucket[k][1]
           t == Head(list[l])
           b == bucketFor(due[t])
           start == startOf(due[t])
<1>1. /\ TypeOK /\ ClocksAgree /\ m_currentTime[0] # None /\ Live /\ ClockType
      /\ Rounds /\ Served /\ OnePerRound /\ Timely
  BY DEF Inv, TypeOK, ClockType, Punctual
<1>2. /\ kpc[k] = "flush" /\ list[l] # <<>>
      /\ UNCHANGED <<now, kpc, kbucket, apc, atask, due>>
  BY DEF FlushEntry, tickerVars, adderVars
<1>3. l \in Levels
  BY <1>1, <1>2 DEF Live, Calls, Buckets
<1>4. t \in Of(l) /\ t \in Tasks
  <2> DEFINE m == l
             off == [list EXCEPT ![m] = Tail(@)]
             u == t
  <2>1. m \in Levels /\ list[m] # <<>> /\ u = Head(list[m]) /\ off = [list EXCEPT ![m] = Tail(@)]
    BY <1>2, <1>3
  <2> HIDE DEF m, off, u, l, t
  <2>2. u \in Of(m) /\ u \in Tasks
    BY <1>1, <2>1, HeadOff DEF Live
  <2> QED
    BY <2>2 DEF m, u
<1>5. due[t] \in Nat /\ due[t] < interval(Wheels - 1)
  BY <1>1, <1>4 DEF TypeOK, Live, Calls, Of
<1>6. \A c \in Adders : apc[c] # "offer"
  BY <1>1, <1>2, NamesAssumption DEF Live, Locked, Within
<1>7. m_currentTime[0] <= now /\ now \in Nat
  BY <1>1 DEF Timely, TypeOK
<1>8. CASE isDue(due[t])
  <2>1. /\ where' = [where EXCEPT ![t] = None]
        /\ UNCHANGED <<m_currentTime, m_expiration, m_queue>>
    BY <1>8 DEF FlushEntry
  <2>2. \A s \in Tasks : where'[s] # None => where'[s] = where[s]
    BY <1>1, <1>4, <2>1 DEF TypeOK
  <2>3. Rounds' /\ Served'
    BY <1>1, <1>2, <2>1, <2>2, SameRounds
  <2> QED
    BY <1>2, <1>6, <1>7, <2>1, <2>3, CalmStep
<1>9. CASE ~ isDue(due[t])
  <2>1. /\ m_currentTime' = Created(due[t])
        /\ Placed(t, b)
        /\ m_expiration' = [m_expiration EXCEPT ![b] = start]
        /\ m_queue' = IF m_expiration[b] # start THEN Offer(due[t], b) ELSE m_queue
    BY <1>9 DEF FlushEntry
  <2>2. b \in Buckets /\ start \in Nat /\ start <= due[t] /\ start = roundOf(t, b)
    <3> DEFINE exp == due[t]
    <3>1. exp \in Nat /\ exp < interval(Wheels - 1)
      BY <1>5
    <3> HIDE DEF exp
    <3>2. /\ bucketFor(exp) \in Buckets /\ bucketFor(exp)[1] = levelFor(exp)
          /\ startOf(exp) \in Nat /\ startOf(exp) <= exp
      BY <1>1, <3>1, BucketFor
    <3> QED
      BY <3>2 DEF exp, startOf, roundOf
  <2>3. \E m \in Levels : list[m] # <<>> /\ t = Head(list[m])
    BY <1>2, <1>3
  <2> HIDE DEF t, b, start, l
  <2>4. where'[t] = b /\ \A s \in Tasks \ {t} : where'[s] = where[s]
    BY <1>1, <1>4, <2>1, <2>2, <2>3, PlacedLists DEF Live
  <2>5. m_expiration[b] \in {-1, start} /\ Rounds' /\ Served'
    BY <1>1, <1>2, <1>4, <2>1, <2>2, <2>4, PlacedRounds
  <2>6. m_currentTime'[0] = m_currentTime[0]
    BY <1>1, <1>5, <2>1, CreatedClock, LevelBelow
  <2>7. m_expiration'[b] = start /\ \A d \in Buckets : d # b => m_expiration'[d] = m_expiration[d]
    BY <1>1, <2>1, <2>2 DEF TypeOK
  <2>8. CASE m_expiration[b] = start
    <3>1. m_expiration' = m_expiration /\ m_queue' = m_queue
      BY <1>1, <2>1, <2>8 DEF TypeOK
    <3> QED
      BY <1>2, <1>6, <1>7, <2>5, <2>6, <3>1, CalmStep
  <2>9. CASE m_expiration[b] # start
    <3>1. m_queue' = Offer(due[t], b) /\ Idle(b)
      BY <1>1, <2>1, <2>2, <2>5, <2>9 DEF OnePerRound
    <3>2. \A c \in Adders, d \in Buckets : ~ Offers(c, d)'
      BY <1>2, <1>6 DEF Offers
    <3>3. OnePerRound' /\ BagToSet(m_queue)' = BagToSet(m_queue) \cup {<<due[t], b>>}
      <4>1. m_expiration'[b] # -1
        BY <2>2, <2>7
      <4> QED
        BY <1>1, <1>2, <1>5, <2>2, <2>7, <3>1, <3>2, <4>1, QueuedOnce DEF Idle
    <3>4. \A e \in BagToSet(m_queue) : e[2] \in Buckets /\ e[2] # b
      BY <1>1, <3>1 DEF Idle, Queued, TypeOK
    <3>5. \A j \in Tickers : kpc[j] = "wait" => kbucket[j] \in Buckets /\ kbucket[j] # b
      BY <1>1, <3>1 DEF Idle, Holds, Live, Calls
    <3>6. Timely'
      <4>1. \A e \in BagToSet(m_queue)' : m_expiration'[e[2]] <= e[1]
        <5> DEFINE f == <<due[t], b>>
        <5>1. f[1] = due[t] /\ f[2] = b /\ BagToSet(m_queue)' = BagToSet(m_queue) \cup {f}
          BY <3>3
        <5> HIDE DEF f
        <5> QED
          BY <1>1, <2>2, <2>7, <3>4, <5>1 DEF Timely
      <4>2. \A j \in Tickers : kpc'[j] = "wait" => m_expiration'[kbucket'[j]] <= now'
        BY <1>1, <1>2, <2>7, <3>5 DEF Timely
      <4>3. m_currentTime'[0] <= now' /\ \A c \in Adders : apc'[c] # "offer"
        BY <1>2, <1>6, <1>7, <2>6
      <4> QED
        BY <4>1, <4>2, <4>3 DEF Timely
    <3> QED
      BY <2>5, <3>3, <3>6 DEF Punctual
  <2> QED
    BY <2>8, <2>9
<1> QED
  BY <1>8, <1>9

LEMMA FlushEndOnTime ==
    ASSUME Inv, ~crashed, Punctual, NEW k \in Tickers, FlushEnd(k)
    PROVE  Punctual'
<1> DEFINE b == kbucket[k]
           flushed == Flushed(b)
<1>1. /\ TypeOK /\ ClocksAgree /\ Live /\ ClockType
      /\ Rounds /\ Served /\ OnePerRound /\ Timely
  BY DEF Inv, TypeOK, ClockType, Punctual
<1>2. /\ kpc[k] = "flush" /\ list[b[1]] = <<>> /\ m_expiration' = flushed
      /\ UNCHANGED <<now, where, apc, atask, due>>
  BY DEF FlushEnd, adderVars
<1>3. \/ /\ kpc' = [kpc EXCEPT ![k] = "tick"] /\ kbucket' = [kbucket EXCEPT ![k] = None]
         /\ UNCHANGED <<m_currentTime, m_queue>>
      \/ \E e \in Polled :
         /\ m_queue' = Take(e) /\ kbucket' = [kbucket EXCEPT ![k] = e[2]]
         /\ m_currentTime' = Advanced(flushed[e[2]])
         /\ UNCHANGED kpc
  BY DEF FlushEnd
<1>4. b \in Buckets /\ b[1] \in Levels /\ Holds(k, b)
  BY <1>1, <1>2 DEF Live, Calls, Buckets, Holds
<1>5. /\ flushed \in [Buckets -> Nat \cup {-1}] /\ flushed[b] = -1
      /\ \A d \in Buckets : d # b => flushed[d] = m_expiration[d]
  BY <1>1, <1>4 DEF Flushed, TypeOK
<1> HIDE DEF flushed, b
<1>6. \A s \in Tasks : where[s] # None => where[s] \in Buckets /\ where[s] # b
  <2>1. Elements(list[b[1]]) = {}
    BY <1>2 DEF Elements
  <2>2. Of(b[1]) = {}
    BY <1>1, <1>4, <2>1 DEF Live, Lists
  <2> QED
    BY <1>1, <2>2 DEF Of, TypeOK
<1>7. Rounds'
  BY <1>1, <1>2 DEF Rounds, roundOf
<1>8. Served'
  BY <1>1, <1>2, <1>5, <1>6 DEF Served, roundOf
<1>9. \A c \in Adders : apc[c] # "offer"
  BY <1>1, <1>2, NamesAssumption DEF Live, Locked, Within
<1>10. \A d \in Buckets : m_expiration'[d] \in Int /\ m_expiration[d] \in Int /\ m_expiration'[d] <= m_expiration[d]
  <2>1. \A d \in Buckets : m_expiration[d] \in Nat \cup {-1}
    BY <1>1 DEF TypeOK
  <2> QED
    BY <1>2, <1>5, <2>1
<1>11. m_currentTime[0] <= now /\ now \in Nat /\ BagToSet(m_queue) \subseteq Nat \X Buckets
  BY <1>1 DEF Timely, TypeOK
<1>12. \A e \in BagToSet(m_queue) : m_expiration'[e[2]] <= e[1]
  <2>1. \A e \in BagToSet(m_queue) : e[1] \in Nat /\ e[2] \in Buckets /\ m_expiration[e[2]] <= e[1]
    BY <1>1, <1>11 DEF Timely
  <2> QED
    BY <1>10, <2>1
<1>13. \A j \in Tickers : kpc[j] = "wait" => m_expiration'[kbucket[j]] <= now
  <2>1. \A j \in Tickers : kpc[j] = "wait" => kbucket[j] \in Buckets /\ m_expiration[kbucket[j]] <= now
    BY <1>1 DEF Live, Calls, Timely
  <2> QED
    BY <1>10, <1>11, <2>1
<1>14. CASE /\ kpc' = [kpc EXCEPT ![k] = "tick"] /\ kbucket' = [kbucket EXCEPT ![k] = None]
            /\ UNCHANGED <<m_currentTime, m_queue>>
  <2>1. \A j \in Tickers : /\ kpc'[j] = IF j = k THEN "tick" ELSE kpc[j]
                           /\ j # k => kbucket'[j] = kbucket[j]
    BY <1>1, <1>14 DEF TypeOK
  <2>2. \A j \in Tickers, d \in Buckets : Holds(j, d)' => Holds(j, d) /\ j # k
    BY <2>1 DEF Holds
  <2>3. \A d \in Buckets : /\ Queued(d)' = Queued(d)
                           /\ \A c \in Adders : Offers(c, d)' <=> Offers(c, d)
    BY <1>2, <1>14 DEF Queued, BagToSet, Offers
  <2>4. ASSUME NEW d \in Buckets PROVE Single(d)' /\ (m_expiration'[d] = -1 => Idle(d)')
    <3>1. (Single(d) => Single(d)') /\ (Idle(d) => Idle(d)')
      BY <1>14, <2>2, <2>3, FewerWays
    <3>2. Single(d) /\ (m_expiration[d] = -1 => Idle(d))
      BY <1>1 DEF OnePerRound
    <3>3. CASE d = b
      <4>1. /\ Queued(d) = {} /\ \A c \in Adders : ~ Offers(c, d)
            /\ \A j \in Tickers : Holds(j, d) => j = k
        BY <1>4, <3>2, <3>3 DEF Single
      <4>2. Idle(d)'
        BY <2>2, <2>3, <4>1 DEF Idle
      <4> QED
        BY <3>1, <3>2, <4>2
    <3>4. CASE d # b
      BY <1>2, <1>5, <3>1, <3>2, <3>4
    <3> QED
      BY <3>3, <3>4
  <2>5. OnePerRound'
    BY <2>4 DEF OnePerRound
  <2>6. Timely'
    <3>1. \A j \in Tickers : kpc'[j] = "wait" => m_expiration'[kbucket'[j]] <= now'
      BY <1>2, <1>13, <2>1
    <3> QED
      BY <1>2, <1>9, <1>11, <1>12, <1>14, <3>1 DEF Timely, BagToSet
  <2> QED
    BY <1>7, <1>8, <2>5, <2>6 DEF Punctual
<1>15. CASE \E e \in Polled :
                /\ m_queue' = Take(e) /\ kbucket' = [kbucket EXCEPT ![k] = e[2]]
                /\ m_currentTime' = Advanced(flushed[e[2]])
                /\ UNCHANGED kpc
  <2>1. PICK e \in Polled :
            /\ m_queue' = Take(e) /\ kbucket' = [kbucket EXCEPT ![k] = e[2]]
            /\ m_currentTime' = Advanced(flushed[e[2]])
            /\ UNCHANGED kpc
    BY <1>15
  <2>2. \A j \in Tickers : kbucket'[j] = IF j = k THEN e[2] ELSE kbucket[j]
    BY <1>1, <2>1 DEF TypeOK
  <2>3. \A d \in Buckets : \/ m_expiration'[d] = m_expiration[d]
                           \/ m_expiration'[d] = -1 /\ Holds(k, d)
    BY <1>2, <1>4, <1>5
  <2>4. OnePerRound' /\ BagToSet(m_queue)' \subseteq BagToSet(m_queue)
    <3>1. kpc'[k] # "tick" /\ kbucket'[k] = e[2]
      BY <1>2, <2>1, <2>2
    <3>2. \A j \in Tickers : j # k => kpc'[j] = kpc[j] /\ kbucket'[j] = kbucket[j]
      BY <2>1, <2>2
    <3> QED
      BY <1>1, <1>2, <2>1, <2>3, <3>1, <3>2, PolledOnce
  <2>5. flushed[e[2]] <= now /\ flushed[e[2]] \in Nat \cup {-1}
    <3>1. e \in BagToSet(m_queue) /\ e[1] <= now
      BY DEF Polled
    <3>2. flushed[e[2]] <= e[1] /\ e[1] \in Nat /\ e[2] \in Buckets
      BY <1>2, <1>11, <1>12, <3>1
    <3> QED
      BY <1>5, <1>11, <3>1, <3>2
  <2>6. m_currentTime'[0] <= now
    <3>1. /\ m_currentTime'[0] = m_currentTime[0] \/ m_currentTime'[0] <= flushed[e[2]]
          /\ m_currentTime' \in [Levels -> Nat \cup {None}] /\ m_currentTime'[0] # None
      BY <1>1, <2>1, <2>5, AdvancedClock
    <3>2. m_currentTime'[0] \in Nat
      BY <3>1, LevelBelow
    <3> QED
      BY <1>11, <2>5, <3>1, <3>2
  <2>7. Timely'
    <3>1. \A j \in Tickers : kpc'[j] = "wait" => m_expiration'[kbucket'[j]] <= now'
      BY <1>2, <1>13, <2>1, <2>2
    <3>2. \A f \in BagToSet(m_queue)' : m_expiration'[f[2]] <= f[1]
      BY <1>12, <2>4
    <3> QED
      BY <1>2, <1>9, <2>6, <3>1, <3>2 DEF Timely
  <2> QED
    BY <1>7, <1>8, <2>4, <2>7 DEF Punctual
<1> QED
  BY <1>3, <1>14, <1>15

LEMMA Kept ==
    ASSUME Inv, [Next]_vars, ~overtaken', lost' = {}
    PROVE  ~overtaken /\ lost = {}
<1> USE DEF wheelVars, adderVars, tickerVars, history
<1>1. CASE UNCHANGED vars
  BY <1>1 DEF vars
<1>2. CASE TimePasses
  BY <1>2 DEF TimePasses
<1>3. ASSUME NEW a \in Adders, AddByDelay(a) \/ AdderSteps(a) PROVE ~overtaken /\ lost = {}
  <2>1. CASE AddByDelay(a) \/ AddTestFlag(a) \/ AddSetExpiration(a) \/ AddReturn(a)
    BY <2>1 DEF AddByDelay, AddTestFlag, AddSetExpiration, AddReturn
  <2>2. CASE AddEntry(a)
    BY <2>2 DEF AddEntry, Placed
  <2> QED
    BY <1>3, <2>1, <2>2 DEF AdderSteps
<1>4. ASSUME NEW k \in Tickers, TickerSteps(k) PROVE ~overtaken /\ lost = {}
  <2>1. CASE TickerPoll(k) \/ TickerLock(k) \/ FlushFreed(k) \/ FlushEnd(k)
    BY <2>1 DEF TickerPoll, TickerLock, FlushFreed, FlushEnd
  <2>2. CASE FlushEntry(k)
    BY <2>2 DEF FlushEntry, Placed
  <2> QED
    BY <1>4, <2>1, <2>2 DEF TickerSteps
<1> QED
  BY <1>1, <1>2, <1>3, <1>4 DEF Next

LEMMA OnTimeInit == Init => OnTime
<1> SUFFICES ASSUME Init PROVE Punctual
  BY DEF OnTime
<1> USE DEF Init
<1>1. BagToSet(m_queue) = {}
  BY DEF EmptyBag, SetToBag, BagToSet
<1>2. Rounds /\ Served
  BY DEF Rounds, Served
<1>3. OnePerRound
  BY <1>1 DEF OnePerRound, Single, Idle, Queued, Holds, Offers
<1>4. Timely
  <2>1. m_currentTime[0] = 0
    BY LevelBelow
  <2> QED
    BY <1>1, <2>1 DEF Timely
<1> QED
  BY <1>2, <1>3, <1>4 DEF Punctual

LEMMA OnTimeNext == Inv /\ OnTime /\ [Next]_vars => OnTime'
<1> SUFFICES ASSUME Inv, OnTime, [Next]_vars, ~overtaken', lost' = {}, ~crashed'
             PROVE  Punctual'
  BY DEF OnTime
<1>1. ~overtaken /\ lost = {}
  BY Kept
<1>2. CASE UNCHANGED vars
  <2>1. Punctual
    BY <1>1, <1>2 DEF OnTime, vars
  <2>2. UNCHANGED <<now, m_currentTime, m_expiration, where, m_queue, kpc, kbucket, apc, atask, due>>
    BY <1>2 DEF vars, wheelVars, tickerVars, adderVars
  <2>3. Rounds' /\ Served' /\ m_currentTime'[0] <= now' /\ now \in Nat
    BY <2>1, <2>2, SameRounds DEF Punctual, Timely, Inv, TypeOK
  <2>4. ~crashed
    BY <1>2 DEF vars
  <2> QED
    BY <2>1, <2>2, <2>3, <2>4, CalmStep
<1>3. CASE Next
  <2>1. ~crashed /\ Punctual
    BY <1>1, <1>3 DEF Next, OnTime
  <2>2. CASE TimePasses
    <3>1. /\ now' = now + 1
          /\ UNCHANGED <<m_currentTime, m_expiration, where, m_queue, kpc, kbucket, apc, atask, due>>
      BY <2>2 DEF TimePasses, wheelVars, tickerVars, adderVars
    <3>2. Rounds' /\ Served'
      BY <2>1, <3>1, SameRounds DEF Punctual
    <3>3. m_currentTime[0] <= now /\ m_currentTime[0] \in Nat /\ now \in Nat
      <4>1. m_currentTime[0] \in Nat \cup {None} /\ m_currentTime[0] # None
        BY LevelBelow DEF Inv, TypeOK
      <4> QED
        BY <2>1, <4>1 DEF Punctual, Timely, Inv, TypeOK
    <3>4. m_currentTime'[0] <= now' /\ now' \in Nat /\ now <= now'
      BY <3>1, <3>3
    <3> QED
      BY <2>1, <3>1, <3>2, <3>4, CalmStep
  <2>3. CASE \E a \in Adders : AddByDelay(a) \/ AdderSteps(a)
    BY <2>1, <2>3, AddOnTime, SetOnTime, ReturnOnTime DEF AdderSteps
  <2>4. CASE \E k \in Tickers : TickerSteps(k)
    <3>1. ASSUME NEW k \in Tickers PROVE ~FlushFreed(k)
      BY DEF FlushFreed
    <3> QED
      BY <2>1, <2>4, <3>1, PollOnTime, LockOnTime, FlushEntryOnTime, FlushEndOnTime DEF TickerSteps
  <2> QED
    BY <1>3, <2>2, <2>3, <2>4 DEF Next
<1> QED
  BY <1>2, <1>3

(* While no bucket is used for another round before it has been flushed,   *)
(* no setExpiration() finds the flag busy and no deleted entry is reached, *)
(* every bucket that is set is in one place of the way from its offer to   *)
(* its flush, and the clock of the first wheel is not ahead of the time.   *)
THEOREM OneFlushPerRound == Spec => []OnTime
<1>1. Inv /\ Inv' /\ OnTime /\ [Next]_vars => OnTime'
  BY OnTimeNext
<1> QED
  BY OnTimeInit, <1>1, Invariance, PTL DEF Spec

(* What add() returns for an entry concerns no other task.                 *)
LEMMA OthersKept ==
    ASSUME ran \in [Tasks -> Nat], NEW t \in Tasks, NEW b, Returned(t, b),
           NEW s \in Tasks, s \notin freed'
    PROVE  ran'[s] = ran[s]
BY DEF Returned

(* Then no task is given to the thread pool a tick or more before its      *)
(* time, by add() or by flush(), but by an add() that reads as false where *)
(* it has no return.                                                       *)
THEOREM NotEarly == Spec => NeverATickEarly
<1> DEFINE Early == ~overtaken' /\ lost = {} =>
               \A t \in Tasks \ freed' : ran'[t] > ran[t] => due[t] < now + m_tickMs
<1>1. ASSUME Inv, OnTime, [Next]_vars PROVE [Early]_vars
  <2>1. SUFFICES ASSUME Next, ~overtaken', lost = {}, NEW t \in Tasks, t \notin freed',
                        ran'[t] > ran[t]
                 PROVE  due[t] < now + m_tickMs
    BY <1>1
  <2>2. ~crashed
    BY <2>1 DEF Next
  <2>3. ~overtaken
    BY <2>1 DEF Next, TimePasses, AddByDelay, AdderSteps, AddEntry, AddTestFlag,
                AddSetExpiration, AddReturn, TickerSteps, TickerPoll, TickerLock, FlushEntry,
                FlushFreed, FlushEnd, Placed, wheelVars, history
  <2>4. /\ m_currentTime[0] <= now /\ m_currentTime[0] \in Nat /\ now \in Nat
        /\ ran \in [Tasks -> Nat] /\ due \in [Tasks -> Nat \cup {None}]
    <3>1. m_currentTime[0] \in Nat \cup {None} /\ m_currentTime[0] # None
      BY <1>1, LevelBelow DEF Inv, TypeOK
    <3> QED
      BY <1>1, <2>1, <2>2, <2>3, <3>1 DEF OnTime, Punctual, Timely, Inv, TypeOK
  <2>5. due[t] # None /\ isDue(due[t])
    <3>1. ran' # ran /\ ran'[t] # ran[t]
      BY <2>1, <2>4
    <3>2. CASE \E a \in Adders : AddEntry(a)
      <4>1. PICK a \in Adders : AddEntry(a)
        BY <3>2
      <4>2. isDue(due[atask[a]]) /\ ran' = [ran EXCEPT ![atask[a]] = @ + 1] /\ apc[a] = "enter"
        BY <3>1, <4>1 DEF AddEntry
      <4>3. atask[a] \in Tasks /\ due[atask[a]] # None
        BY <1>1, <2>2, <4>2 DEF Inv, Live, Calls
      <4>4. t = atask[a]
        BY <2>1, <2>4, <4>2
      <4> QED
        BY <4>2, <4>3, <4>4
    <3>3. CASE \E k \in Tickers : FlushEntry(k)
      <4>1. PICK k \in Tickers : FlushEntry(k)
        BY <3>3
      <4> DEFINE s == Head(list[kbucket[k][1]])
      <4>2. s \in Tasks /\ due[s] # None
        <5>1. kbucket[k][1] \in Levels /\ list[kbucket[k][1]] # <<>>
          BY <1>1, <2>2, <4>1 DEF FlushEntry, Inv, Live, Calls, Buckets
        <5> DEFINE m == kbucket[k][1]
                   off == [list EXCEPT ![m] = Tail(@)]
                   u == s
        <5>2. m \in Levels /\ list[m] # <<>> /\ u = Head(list[m]) /\ off = [list EXCEPT ![m] = Tail(@)]
          BY <5>1
        <5> HIDE DEF m, off, u, s
        <5>3. u \in Of(m) /\ u \in Tasks
          BY <1>1, <2>2, <5>2, HeadOff DEF Inv, Live
        <5>4. u \in Tasks /\ due[u] # None
          BY <1>1, <2>2, <5>3 DEF Of, Inv, Live, Calls
        <5> QED
          BY <5>4 DEF u
      <4>3. (isDue(due[s]) /\ ran' = [ran EXCEPT ![s] = @ + 1])
            \/ \E b : Returned(s, b)
        BY <4>1 DEF FlushEntry
      <4> HIDE DEF s
      <4>4. ~ \E b : Returned(s, b)
        BY <2>1, <2>4, <3>1, <4>2, OthersKept
      <4>5. t = s
        BY <2>1, <2>4, <4>3, <4>4
      <4> QED
        BY <4>2, <4>3, <4>4, <4>5
    <3>4. CASE \E a \in Adders : AddReturn(a)
      <4>1. PICK a \in Adders : AddReturn(a)
        BY <3>4
      <4>2. apc[a] # "idle" /\ Returned(atask[a], where[atask[a]])
        BY <4>1 DEF AddReturn
      <4>3. atask[a] \in Tasks
        BY <1>1, <2>2, <4>2 DEF Inv, Live, Calls
      <4> QED
        BY <2>1, <2>4, <3>1, <4>2, <4>3, OthersKept
    <3> QED
      BY <2>1, <3>1, <3>2, <3>3, <3>4 DEF Next, TimePasses, AddByDelay, AdderSteps, AddTestFlag,
                AddSetExpiration, TickerSteps, TickerPoll, TickerLock, FlushFreed, FlushEnd,
                wheelVars
  <2> QED
    <3>1. due[t] \in Nat /\ m_tickMs \in Nat
      BY <2>4, <2>5, TimerAssumption
    <3> QED
      BY <2>4, <2>5, <3>1 DEF isDue
<1>2. Inv /\ OnTime /\ [Next]_vars => [Early]_vars
  BY <1>1
<1> QED
  BY <1>2, Invariance, OneFlushPerRound, PTL DEF Spec, NeverATickEarly
=============================================================================
