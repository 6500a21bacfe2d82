------------------------- MODULE MappingTableProofs -------------------------
(***************************************************************************)
(* Theorems about the mapping table, for any width of the addresses, any   *)
(* levels, any cacheability mask and any segments.                         *)
(*                                                                         *)
(* What add guarantees is inductive once it is known that m_rt_size is the *)
(* step of the constructor (Built) and that segments of different          *)
(* cacheability have no masked address in common (Compatible).  The tables *)
(* need one fact about the loops that fill them: they write, from the base *)
(* of a segment rounded down to the step, exactly the cells of the         *)
(* addresses of the segment (VisitedCells).  The rest is arithmetic on the *)
(* fields of an address or of an identifier, by induction over the levels. *)
(***************************************************************************)
EXTENDS MappingTable, Arithmetic

-----------------------------------------------------------------------------
(* The widths of the levels *)

\* The sums of the first widths, 0 .. n of them.
IsSum(bits, n, f) ==
    /\ f \in [0 .. n -> Nat]
    /\ f[0] = 0 /\ \A l \in 1 .. n : f[l] = f[l - 1] + bits[l]

\* IntTab::sum computes one of them.
LEMMA SumRuns ==
    ASSUME NEW bits, NEW n \in Nat, \A l \in 1 .. n : bits[l] \in Nat
    PROVE  \E f : IsSum(bits, n, f) /\ SumBits(bits, n) = f[n]
  <1> DEFINE G == [i \in 1 .. n |-> [s \in Nat |-> s + bits[i]]]
             h == CHOOSE h : h = [l \in 0 .. n |-> IF l = 0 THEN 0 ELSE h[l - 1] + bits[l]]
  <1>1. IsLoop(n, Nat, G) /\ 0 \in Nat
    BY DEF IsLoop
  <1>2. PICK f : IsRun(n, Nat, 0, G, f)
    <2> HIDE DEF G, h
    <2> QED BY <1>1, LoopRuns
  <1>3. f = [l \in 0 .. n |-> IF l = 0 THEN 0 ELSE f[l - 1] + bits[l]]
    <2>1. ASSUME NEW l \in 0 .. n, l # 0 PROVE f[l] = f[l - 1] + bits[l]
      <3>1. l \in 1 .. n /\ l - 1 \in 0 .. n BY <2>1
      <3> QED BY Zenon, <1>2, <3>1 DEF IsRun
    <2> QED BY <2>1, <1>2 DEF IsRun
  <1>4. h = [l \in 0 .. n |-> IF l = 0 THEN 0 ELSE h[l - 1] + bits[l]]
    BY Zenon, <1>3
  <1>5. SumBits(bits, n) = h[n]
    BY DEF SumBits
  <1>6. h \in [0 .. n -> Nat]
    <2> HIDE DEF h
    <2>1. \A l \in 0 .. n : h[l] \in Nat
      <3>1. h[0] \in Nat BY <1>4
      <3>2. ASSUME NEW i \in 1 .. n, h[i - 1] \in Nat PROVE h[i] \in Nat
        <4>1. h[i] = h[i - 1] + bits[i] BY <1>4
        <4> QED BY <4>1, <3>2
      <3> QED BY Zenon, <3>1, <3>2, LoopKeeps
    <2> QED BY <1>4, <2>1
  <1>7. IsSum(bits, n, h)
    <2> HIDE DEF h
    <2> QED BY <1>4, <1>6 DEF IsSum
  <1> HIDE DEF h
  <1> QED BY <1>5, <1>7

\* What IntTab::sum computes.
LEMMA SumZero == ASSUME NEW bits PROVE SumBits(bits, 0) = 0
  <1>1. \E f : IsSum(bits, 0, f) /\ SumBits(bits, 0) = f[0]
    BY SumRuns
  <1> QED BY <1>1 DEF IsSum

\* One width more.
LEMMA SumNext ==
    ASSUME NEW bits, NEW n \in Nat, \A l \in 1 .. n + 1 : bits[l] \in Nat
    PROVE  SumBits(bits, n) \in Nat /\ SumBits(bits, n + 1) = SumBits(bits, n) + bits[n + 1]
  <1>1. PICK f : IsSum(bits, n, f) /\ SumBits(bits, n) = f[n]
    <2>1. \A l \in 1 .. n : bits[l] \in Nat
      OBVIOUS
    <2> QED BY <2>1, SumRuns
  <1>2. PICK g : IsSum(bits, n + 1, g) /\ SumBits(bits, n + 1) = g[n + 1]
    <2>1. n + 1 \in Nat
      OBVIOUS
    <2> QED BY <2>1, SumRuns
  <1> DEFINE T == {i \in Nat : i > n \/ f[i] = g[i]}
  <1>3. 0 \in T
    BY <1>1, <1>2 DEF IsSum
  <1>4. ASSUME NEW i \in Nat, i \in T PROVE i + 1 \in T
    <2>1. CASE i < n
      <3>1. i + 1 \in 1 .. n /\ i + 1 \in 1 .. n + 1 /\ (i + 1) - 1 = i
        BY <2>1
      <3>2. f[i + 1] = f[i] + bits[i + 1]
        BY <1>1, <3>1 DEF IsSum
      <3>3. g[i + 1] = g[i] + bits[i + 1]
        BY <1>2, <3>1 DEF IsSum
      <3> QED BY <1>4, <2>1, <3>2, <3>3
    <2> QED BY <2>1
  <1>5. n \in T
    <2> HIDE DEF T
    <2> QED BY <1>3, <1>4, Induction
  <1>6. g[n + 1] = g[n] + bits[n + 1]
    BY <1>2 DEF IsSum
  <1> QED BY <1>1, <1>2, <1>5, <1>6 DEF IsSum

\* The sum of widths is a number, one level adds its width, and it grows.
LEMMA SumType ==
    ASSUME NEW bits \in Seq(Nat), NEW l \in 0 .. Len(bits)
    PROVE  SumBits(bits, l) \in Nat
  <1>1. l \in Nat /\ \A m \in 1 .. l : bits[m] \in Nat
    OBVIOUS
  <1> QED BY <1>1, SumRuns DEF IsSum

LEMMA SumStep ==
    ASSUME NEW bits \in Seq(Nat), NEW l \in 1 .. Len(bits)
    PROVE  SumBits(bits, l) = SumBits(bits, l - 1) + bits[l]
  <1>1. l - 1 \in Nat /\ (l - 1) + 1 = l /\ \A m \in 1 .. l : bits[m] \in Nat
    OBVIOUS
  <1> QED BY <1>1, SumNext

LEMMA SumGrows ==
    ASSUME NEW bits \in Seq(Nat), NEW m \in 0 .. Len(bits), NEW l \in 0 .. m
    PROVE  SumBits(bits, l) =< SumBits(bits, m)
  <1> DEFINE T == {i \in Nat : l + i > Len(bits) \/ SumBits(bits, l) =< SumBits(bits, l + i)}
  <1>1. 0 \in T
    BY SumType
  <1>2. ASSUME NEW i \in Nat, i \in T PROVE i + 1 \in T
    <2>1. CASE l + i < Len(bits)
      <3>1. l + (i + 1) \in 1 .. Len(bits) /\ (l + (i + 1)) - 1 = l + i /\ l + i \in 0 .. Len(bits)
        BY <2>1
      <3>2. SumBits(bits, l + (i + 1)) = SumBits(bits, l + i) + bits[l + (i + 1)]
        BY <3>1, SumStep
      <3>3. bits[l + (i + 1)] \in Nat /\ SumBits(bits, l + i) \in Nat /\ SumBits(bits, l) \in Nat
        BY <3>1, SumType
      <3> QED BY <1>2, <2>1, <3>2, <3>3
    <2> QED BY <2>1
  <1>3. m - l \in Nat /\ l + (m - l) = m
    OBVIOUS
  <1>4. m - l \in T
    <2> HIDE DEF T
    <2> QED BY Zenon, <1>1, <1>2, <1>3, Induction
  <1> QED BY <1>3, <1>4

-----------------------------------------------------------------------------
(* The loops over the addresses of a segment *)

\* The step of the loops divides 2^d.
Fine(d) == \E k \in Nat \ {0} : 2^d = rt_size * k

Built == conf \in Confs /\ rt_size = StepSize(conf)

\* m_rt_size is not larger than the grain of any table that is built.
LEMMA Grain ==
    ASSUME Built
    PROVE  /\ rt_size \in Nat \ {0}
           /\ conf.drop \in Nat /\ Fine(conf.drop)
           /\ \A d \in Nat : d >= AddrWidth - SumBits(conf.addr_bits, Levels) => Fine(d)
  <1> DEFINE r == AddrWidth - SumBits(conf.addr_bits, Levels)
             e == conf.drop
  <1>1. r \in Nat /\ e \in Nat
    <2>1. conf.addr_bits \in Seq(Nat) /\ conf.drop \in Nat
      BY TableAssumption DEF Built, Conf
    <2>2. SumBits(conf.addr_bits, Levels) \in Nat
      <3>1. Levels \in 0 .. Len(conf.addr_bits)
        BY <2>1 DEF Levels
      <3> QED BY <2>1, <3>1, SumType
    <2> QED BY <2>1, <2>2, TableAssumption DEF Built, Levels
  <1>2. rt_size = IF 2^e < 2^r THEN 2^e ELSE 2^r
    BY DEF Built, StepSize, Levels
  <1> HIDE DEF r, e
  <1>3. ASSUME NEW m \in Nat, NEW n \in Nat, m =< n
        PROVE  \E k \in Nat \ {0} : 2^n = 2^m * k
    <2>1. n - m \in Nat /\ m + (n - m) = n
      BY <1>3
    <2>2. 2^n = 2^m * 2^(n - m)
      BY <2>1, PowerSum
    <2> QED BY <2>1, <2>2, PowerType
  <1>4. 2^e \in Nat \ {0} /\ 2^r \in Nat \ {0}
    BY <1>1, PowerType
  <1>5. ASSUME NEW m \in Nat, NEW n \in Nat, m =< n PROVE 2^m =< 2^n
    <2>1. PICK k \in Nat \ {0} : 2^n = 2^m * k
      BY <1>3, <1>5
    <2>2. 2^m \in Nat
      BY PowerType
    <2>3. \A x \in Nat, y \in Nat \ {0} : x =< x * y
      OBVIOUS
    <2> QED BY <2>1, <2>2, <2>3
  <1>6. PICK g \in Nat : rt_size = 2^g /\ g =< r /\ g =< e
    <2>1. e =< r => rt_size = 2^e
      BY <1>1, <1>2, <1>4, <1>5
    <2>2. r =< e => rt_size = 2^r
      BY <1>1, <1>2, <1>4, <1>5
    <2>3. e =< r \/ r =< e
      BY <1>1
    <2> QED BY <1>1, <2>1, <2>2, <2>3
  <1>7. ASSUME NEW d \in Nat, g =< d PROVE Fine(d)
    BY <1>3, <1>6, <1>7 DEF Fine
  <1>8. ASSUME NEW d \in Nat, d >= r PROVE Fine(d)
    BY <1>1, <1>6, <1>7, <1>8
  <1>9. e \in Nat /\ Fine(e) /\ rt_size \in Nat \ {0}
    BY <1>1, <1>4, <1>6, <1>7, PowerType
  <1> QED BY <1>8, <1>9 DEF r, e

\* Rounding an address down to the step of the loops keeps it in its cell.
LEMMA CellRounds ==
    ASSUME rt_size \in Nat \ {0}, NEW d \in Nat, Fine(d), NEW use \in Nat, NEW a \in Nat
    PROVE  /\ a - (a % rt_size) \in Nat /\ (a - (a % rt_size)) % rt_size = 0
           /\ Cell(use, d, a - (a % rt_size)) = Cell(use, d, a)
  <1>1. PICK k \in Nat \ {0} : 2^d = rt_size * k
    BY DEF Fine
  <1> DEFINE b == a - (a % rt_size)
  <1>2. b \in Nat /\ b % rt_size = 0 /\ b \div (rt_size * k) = a \div (rt_size * k)
    BY Zenon, RoundDown
  <1> HIDE DEF b
  <1>3. b \div 2^d = a \div 2^d
    BY <1>1, <1>2
  <1>4. Cell(use, d, b) = Cell(use, d, a)
    BY Zenon, <1>3 DEF Cell
  <1> QED BY <1>2, <1>4 DEF b

\* The addresses of a segment up to its end, as the code computes it: all of
\* them, or none when the segment ends at the top of the address space.
Reached(s) == {a \in Addr : s.base =< a /\ a < End(s)}

\* A segment of the platform, and the two values its end can have.
LEMMA SegmentEnd ==
    ASSUME NEW s \in Segments
    PROVE  /\ s.base \in Addr /\ s.base \in Nat /\ s.size \in Nat \ {0} /\ Addr \subseteq Nat
           /\ End(s) \in Nat
           /\ Bounded(s) => End(s) = s.base + s.size
           /\ ~ Bounded(s) => End(s) = 0
  <1> DEFINE M == 2^AddrWidth
             e == s.base + s.size
  <1>1. M \in Nat \ {0} /\ Addr \subseteq Nat
    BY TableAssumption, PowerType DEF Addr
  <1>2. s.base \in Addr /\ s.size \in Nat \ {0} /\ e =< M
    BY TableAssumption
  <1>3. e \in Nat /\ s.base \in Nat
    <2>1. s.base \in Nat /\ s.size \in Nat
      BY Zenon, <1>1, <1>2
    <2> QED BY <2>1
  <1>4. End(s) = e % M /\ (Bounded(s) <=> e < M)
    BY DEF End, Bounded
  <1> HIDE DEF M, e
  <1>5. e < M => e % M = e
    BY <1>1, <1>3
  <1>6. e = M => e % M = 0
    BY <1>1, <1>3
  <1>7. (e < M \/ e = M) /\ ~ (e < M /\ e = M)
    BY <1>1, <1>2, <1>3
  <1>8. /\ End(s) \in Nat /\ (Bounded(s) => End(s) = e) /\ (~ Bounded(s) => End(s) = 0)
    BY <1>3, <1>4, <1>5, <1>6, <1>7
  <1> QED BY <1>1, <1>2, <1>3, <1>8 DEF e

\* The code sees all the addresses of a segment or none of them.
LEMMA ReachedAll ==
    ASSUME NEW s \in Segments
    PROVE  /\ Reached(s) \subseteq Contents(s)
           /\ Bounded(s) => Reached(s) = Contents(s)
           /\ ~ Bounded(s) => Reached(s) = {}
  <1>1. CASE Bounded(s)
    BY <1>1, SegmentEnd DEF Reached, Contents
  <1>2. CASE ~ Bounded(s)
    BY <1>2, SegmentEnd DEF Reached
  <1> QED BY <1>1, <1>2

\* A loop over the segment s stops in the cell c; an address of s is in c.
StopsIn(s, use, d, c) == \E v \in Visited(s) : Cell(use, d, v) = c
Meets(s, use, d, c) == \E a \in Reached(s) : Cell(use, d, a) = c

\* Two of the segments write different values and have addresses in the same
\* cell; the table T has the value of the segment at each of its addresses.
Clash(use, d, val) ==
    \E s, t \in DOMAIN val :
        /\ val[s] # val[t]
        /\ \E a \in Reached(s), b \in Reached(t) : Cell(use, d, a) = Cell(use, d, b)
Holds(T, use, d, val) ==
    \A s \in DOMAIN val : \A a \in Reached(s) : T[Cell(use, d, a)] = val[s]

\* The cells that the loops write are those of the addresses they reach.
LEMMA VisitedCells ==
    ASSUME rt_size \in Nat \ {0}, NEW d \in Nat, Fine(d), NEW use \in Nat,
           NEW s \in Segments, NEW c
    PROVE  StopsIn(s, use, d, c) <=> Meets(s, use, d, c)
  <1> DEFINE Down(a) == a - (a % rt_size)
  <1>1. /\ s.base \in Addr /\ s.size \in Nat \ {0} /\ Addr \subseteq Nat /\ End(s) \in Nat
        /\ End(s) # 0 => s.base < End(s)
    BY SegmentEnd
  <1>2. ASSUME NEW a \in Nat
        PROVE  /\ Down(a) \in Nat /\ Down(a) =< a /\ Down(a) % rt_size = 0
               /\ Cell(use, d, Down(a)) = Cell(use, d, a)
    <2>1. Down(a) =< a
      <3>1. a % rt_size \in 0 .. rt_size - 1
        BY DivMod
      <3> DEFINE r == a % rt_size
      <3> HIDE DEF r
      <3>2. r \in Nat
        BY <3>1 DEF r
      <3> QED BY <3>2 DEF r
    <2> QED BY <2>1, CellRounds
  <1>3. ASSUME NEW a \in Nat, NEW b \in Nat, a =< b PROVE Down(a) =< Down(b)
    <2>1. Down(a) = rt_size * (a \div rt_size) /\ Down(b) = rt_size * (b \div rt_size)
      <3>1. ASSUME NEW x \in Nat PROVE Down(x) = rt_size * (x \div rt_size)
        <4> DEFINE q == x \div rt_size
                   r == x % rt_size
        <4>1. q \in Nat /\ r \in 0 .. rt_size - 1 /\ x = (rt_size * q) + r
          BY Zenon, DivMod
        <4>2. Down(x) = x - r
          OBVIOUS
        <4> HIDE DEF q, r, Down
        <4>3. rt_size * q \in Nat
          BY <4>1
        <4>4. Down(x) = rt_size * q
          BY <4>1, <4>2, <4>3
        <4> QED BY <4>4 DEF q
      <3> QED BY <3>1
    <2>2. a \div rt_size =< b \div rt_size /\ a \div rt_size \in Nat /\ b \div rt_size \in Nat
      BY <1>3
    <2>3. \A x, y \in Nat : x =< y => rt_size * x =< rt_size * y
      OBVIOUS
    <2> QED BY <2>1, <2>2, <2>3
  <1>4. ASSUME NEW a \in Nat, a % rt_size = 0 PROVE Down(a) = a
    BY <1>4
  <1>5. \A a, b \in Nat : a \in Addr /\ b =< a => b \in Addr
    BY TableAssumption, PowerType DEF Addr
  <1>6. Visited(s) = {a \in Addr : a % rt_size = 0 /\ a >= Down(s.base) /\ a < End(s)}
    BY DEF Visited
  <1> HIDE DEF Down
  <1>7. ASSUME NEW a \in Reached(s) PROVE Down(a) \in Visited(s)
    <2>1. a \in Nat /\ a \in Addr /\ s.base \in Nat /\ s.base =< a /\ a < End(s)
      BY Zenon, <1>1 DEF Reached
    <2> QED BY <1>1, <1>2, <1>3, <1>5, <1>6, <2>1
  <1>8. ASSUME NEW v \in Visited(s)
        PROVE  \E a \in Reached(s) : Cell(use, d, a) = Cell(use, d, v)
    <2>1. /\ v \in Addr /\ v \in Nat /\ v % rt_size = 0 /\ v >= Down(s.base)
          /\ v < End(s) /\ s.base \in Nat
      BY Zenon, <1>1, <1>6
    <2>2. CASE v >= s.base
      <3>1. v \in Reached(s)
        BY <2>1, <2>2 DEF Reached
      <3> QED BY <3>1
    <2>3. CASE v < s.base
      <3>1. Down(v) = v /\ Down(v) =< Down(s.base)
        BY <1>3, <1>4, <2>1, <2>3
      <3>2. v = Down(s.base)
        BY <1>2, <2>1, <3>1
      <3>3. s.base \in Reached(s)
        BY <1>1, <2>1 DEF Reached
      <3> QED BY <1>2, <2>1, <3>2, <3>3
    <2> QED BY <2>1, <2>2, <2>3
  <1>9. ASSUME NEW a \in Reached(s) PROVE a \in Nat
    BY <1>1 DEF Reached
  <1> QED BY <1>2, <1>7, <1>8, <1>9 DEF StopsIn, Meets

\* A table is built if and only if the loops end and the segments with addresses
\* in a cell agree, and then it gives every address what its segment wrote.
LEMMA TableFacts ==
    ASSUME rt_size \in Nat \ {0}, NEW d \in Nat, Fine(d), NEW use \in Nat,
           NEW default, NEW val, DOMAIN val \subseteq Segments
    PROVE  /\ Table(use, d, default, val) = NoTable <=>
                \/ \E s \in DOMAIN val : Endless(s)
                \/ Clash(use, d, val)
           /\ Table(use, d, default, val) # NoTable =>
                Holds(Table(use, d, default, val), use, d, val)
  <1> DEFINE Cells == 0 .. 2^use - 1
             Writers(c) == {s \in DOMAIN val : \E v \in Visited(s) : Cell(use, d, v) = c}
             In == [c \in Cells |-> {val[s] : s \in Writers(c)}]
             Stuck == \E s \in DOMAIN val : Endless(s)
             Twice == \E c \in DOMAIN In : \E v, w \in In[c] : v # w
             Good == [c \in DOMAIN In |-> IF In[c] = {} THEN default ELSE CHOOSE v \in In[c] : TRUE]
  <1>1. Table(use, d, default, val) = IF Stuck \/ Twice THEN NoTable ELSE Good
    BY DEF Table
  <1>2. \A c : Writers(c) = {s \in DOMAIN val : \E a \in Reached(s) : Cell(use, d, a) = c}
    BY VisitedCells DEF StopsIn, Meets
  <1>3. 2^use \in Nat \ {0} /\ 2^d \in Nat \ {0} /\ 0 \in Cells
    BY PowerType
  <1>4. ASSUME NEW s \in Segments, NEW a \in Reached(s) PROVE Cell(use, d, a) \in Cells
    <2>1. a \in Nat
      BY TableAssumption, PowerType DEF Reached, Addr
    <2> QED BY <1>3, <2>1, DivMod DEF Cell
  <1> HIDE DEF Cells
  <1>5. ASSUME NEW s \in DOMAIN val, NEW a \in Reached(s)
        PROVE  val[s] \in In[Cell(use, d, a)] /\ Cell(use, d, a) \in DOMAIN In
    <2>1. s \in Writers(Cell(use, d, a))
      BY <1>2
    <2> QED BY <1>4, <2>1
  <1>6. ASSUME NEW c \in DOMAIN In, NEW v \in In[c]
        PROVE  \E s \in DOMAIN val : v = val[s] /\ \E a \in Reached(s) : Cell(use, d, a) = c
    BY <1>2
  <1>7. Twice <=> Clash(use, d, val)
    <2> HIDE DEF In
    <2>1. ASSUME Twice PROVE Clash(use, d, val)
      BY <2>1, <1>6 DEF Clash
    <2>2. ASSUME NEW s \in DOMAIN val, NEW t \in DOMAIN val, val[s] # val[t],
                 NEW a \in Reached(s), NEW b \in Reached(t), Cell(use, d, a) = Cell(use, d, b)
          PROVE  Twice
      BY <2>2, <1>5
    <2> QED BY <2>1, <2>2 DEF Clash
  <1>8. Good # NoTable
    <2>1. DOMAIN Good = Cells
      OBVIOUS
    <2>2. DOMAIN NoTable = {}
      BY DEF NoTable
    <2> HIDE DEF Good
    <2> QED BY <1>3, <2>1, <2>2
  <1>9. ASSUME ~ Twice, NEW s \in DOMAIN val, NEW a \in Reached(s)
        PROVE  Good[Cell(use, d, a)] = val[s]
    <2> HIDE DEF In
    <2>1. val[s] \in In[Cell(use, d, a)] /\ Cell(use, d, a) \in DOMAIN In
      BY <1>5
    <2>2. \A v \in In[Cell(use, d, a)] : v = val[s]
      BY <1>9, <2>1
    <2>3. (CHOOSE v \in In[Cell(use, d, a)] : TRUE) \in In[Cell(use, d, a)]
      BY <2>1
    <2> QED BY <2>1, <2>2, <2>3
  <1> HIDE DEF Good, Twice, In
  <1> QED BY <1>1, <1>7, <1>8, <1>9 DEF Holds

-----------------------------------------------------------------------------
(* What add accepts *)

\* Segments of different cacheability have no address with the same masked bits.
Compatible ==
    \A s, t \in Range(segs) : s.cacheable # t.cacheable =>
        \A a \in Reached(s), b \in Reached(t) :
            Cell(conf.use, conf.drop, a) # Cell(conf.use, conf.drop, b)

TableInv == Built /\ segs \in Seq(Segments) /\ AddIsExact /\ Compatible

\* A segment of the list is one of the segments of the platform.
LEMMA Listed ==
    ASSUME segs \in Seq(Segments)
    PROVE  /\ Range(segs) \subseteq Segments
           /\ \A s : s \in Range(segs) <=> \E i \in 1 .. Len(segs) : s = segs[i]
  BY DEF Range

\* isOverlapping finds out whether two segments share an address that the code
\* sees.
LEMMA OverlapIsShared ==
    ASSUME NEW s \in Segments, NEW o \in Segments
    PROVE  isOverlapping(s, o) <=> Reached(s) \cap Reached(o) # {}
  <1>1. /\ s.base \in Addr /\ o.base \in Addr /\ s.base \in Nat /\ o.base \in Nat
        /\ Addr \subseteq Nat /\ End(s) \in Nat /\ End(o) \in Nat
        /\ End(s) # 0 => s.base < End(s)
        /\ End(o) # 0 => o.base < End(o)
    BY SegmentEnd
  <1>2. ASSUME isOverlapping(s, o), s.base =< o.base
        PROVE  o.base \in Reached(s) \cap Reached(o)
    BY <1>1, <1>2 DEF isOverlapping, Reached
  <1>3. ASSUME isOverlapping(s, o), o.base =< s.base
        PROVE  s.base \in Reached(s) \cap Reached(o)
    BY <1>1, <1>3 DEF isOverlapping, Reached
  <1>4. ASSUME NEW a \in Reached(s) \cap Reached(o) PROVE isOverlapping(s, o)
    BY <1>1 DEF isOverlapping, Reached
  <1>5. s.base =< o.base \/ o.base =< s.base
    BY <1>1
  <1> QED BY <1>2, <1>3, <1>4, <1>5

\* The test of add on the cacheability, free of the rounding of the loops.
LEMMA CacheabilityTest ==
    ASSUME Built, NEW s \in Segments, NEW o \in Segments
    PROVE  cacheabilityDiffers(s, o) <=>
             /\ s.cacheable # o.cacheable
             /\ \E a \in Reached(s), b \in Reached(o) :
                   Cell(conf.use, conf.drop, a) = Cell(conf.use, conf.drop, b)
  <1> DEFINE C(a) == Cell(conf.use, conf.drop, a)
  <1>1. rt_size \in Nat \ {0} /\ conf.drop \in Nat /\ Fine(conf.drop) /\ conf.use \in Nat
    BY Grain, TableAssumption DEF Built, Conf
  <1>2. ASSUME NEW x \in Segments, NEW c
        PROVE  (\E v \in Visited(x) : C(v) = c) <=> (\E a \in Reached(x) : C(a) = c)
    <2>1. StopsIn(x, conf.use, conf.drop, c) <=> Meets(x, conf.use, conf.drop, c)
      BY <1>1, VisitedCells
    <2> QED BY <2>1 DEF StopsIn, Meets
  <1>3. \A c : /\ (\E v \in Visited(s) : C(v) = c) <=> (\E a \in Reached(s) : C(a) = c)
               /\ (\E v \in Visited(o) : C(v) = c) <=> (\E a \in Reached(o) : C(a) = c)
    BY <1>2
  <1>4. cacheabilityDiffers(s, o) <=>
           s.cacheable # o.cacheable /\ \E a \in Visited(s), b \in Visited(o) : C(a) = C(b)
    BY DEF cacheabilityDiffers
  <1> HIDE DEF C
  <1>5. (\E a \in Visited(s), b \in Visited(o) : C(a) = C(b))
          <=> (\E a \in Reached(s), b \in Reached(o) : C(a) = C(b))
    BY <1>3
  <1> QED BY <1>4, <1>5 DEF C

\* The first segment at which add throws, if any.
LEMMA BumpedFirst ==
    ASSUME NEW seg, segs \in Seq(Segments)
    PROVE  \/ /\ Bumped(seg) = {}
              /\ \A i \in 1 .. Len(segs) : Verdict(segs[i], seg) = "ok"
           \/ /\ Bumped(seg) # {} /\ Min(Bumped(seg)) \in 1 .. Len(segs)
              /\ Verdict(segs[Min(Bumped(seg))], seg) # "ok"
  <1>1. Bumped(seg) = {i \in 1 .. Len(segs) : Verdict(segs[i], seg) # "ok"}
    BY DEF Bumped
  <1>2. CASE Bumped(seg) = {}
    BY <1>1, <1>2
  <1>3. CASE Bumped(seg) # {}
    <2>1. \E x \in Bumped(seg) : \A y \in Bumped(seg) : x =< y
      BY <1>1, <1>3, NatMin
    <2>2. Min(Bumped(seg)) \in Bumped(seg)
      BY <2>1 DEF Min
    <2> QED BY <1>1, <1>3, <2>2
  <1> QED BY <1>2, <1>3

\* add keeps the segments apart and refuses one for a reason only.
LEMMA AddKeeps ==
    ASSUME TableInv, NEW seg \in Segments, add(seg)
    PROVE  TableInv'
  <1> USE DEF TableInv
  <1>1. Built' /\ rt_size' = rt_size /\ conf' = conf /\ Levels' = Levels
    BY DEF add, Built, Levels
  <1>2. \A s : Len(s.index) = Levels <=> (Len(s.index) = Levels)'
    BY <1>1
  <1> DEFINE Same(s, t) == \E a \in Reached(s), b \in Reached(t) :
                              Cell(conf.use, conf.drop, a) = Cell(conf.use, conf.drop, b)
             Share(s, t) == Reached(s) \cap Reached(t) # {}
  <1>3. ASSUME NEW s \in Segments
        PROVE  /\ Verdict(s, seg) = "Collision" => Share(s, seg)
               /\ Verdict(s, seg) = "RunTimeError" => s.cacheable # seg.cacheable /\ Same(s, seg)
               /\ Verdict(s, seg) = "ok" =>
                    /\ ~ Share(s, seg) /\ ~ Share(seg, s)
                    /\ s.cacheable # seg.cacheable => ~ Same(s, seg) /\ ~ Same(seg, s)
               /\ Verdict(s, seg) \in {"Collision", "RunTimeError", "hang", "ok"}
    <2>1. isOverlapping(s, seg) <=> Share(s, seg)
      BY OverlapIsShared
    <2>2. cacheabilityDiffers(s, seg) <=> s.cacheable # seg.cacheable /\ Same(s, seg)
      BY CacheabilityTest
    <2>3. Share(s, seg) <=> Share(seg, s)
      OBVIOUS
    <2>4. Same(s, seg) <=> Same(seg, s)
      OBVIOUS
    <2> HIDE DEF Share, Same
    <2> QED BY <2>1, <2>2, <2>3, <2>4 DEF Verdict
  <1>4. /\ \A s \in Range(segs) : Len(s.index) = Levels
        /\ \A i, j \in 1 .. Len(segs) : i # j => ~ Share(segs[i], segs[j])
        /\ \A s, t \in Range(segs) : s.cacheable # t.cacheable => ~ Same(s, t)
    <2>1. ASSUME NEW i \in 1 .. Len(segs), NEW j \in 1 .. Len(segs), i # j
          PROVE  ~ Share(segs[i], segs[j])
      <3>1. segs[i] \in Segments /\ segs[j] \in Segments
        OBVIOUS
      <3>2. Bounded(segs[i]) /\ Bounded(segs[j]) =>
               Contents(segs[i]) \cap Contents(segs[j]) = {}
        BY Zenon, <2>1 DEF AddIsExact
      <3> QED BY <3>1, <3>2, ReachedAll
    <2> QED BY Zenon, <2>1 DEF AddIsExact, Compatible
  <1>5. last' = [outcome |-> Outcome(seg), seg |-> seg]
    BY DEF add
  <1>6. ASSUME segs' \in Seq(Segments),
               \A s \in Range(segs') : Len(s.index) = Levels,
               \A i, j \in 1 .. Len(segs') : i # j => ~ Share(segs'[i], segs'[j]),
               Outcome(seg) = "ValueError" => Len(seg.index) # Levels,
               Outcome(seg) = "Collision" => \E s \in Range(segs') : Share(s, seg),
               Outcome(seg) = "RunTimeError" =>
                  \E s \in Range(segs') : s.cacheable # seg.cacheable /\ Same(s, seg),
               \A s, t \in Range(segs') : s.cacheable # t.cacheable => ~ Same(s, t)
        PROVE  AddIsExact' /\ Compatible'
    <2>0. Range(segs') \subseteq Segments
      BY <1>6 DEF Range
    <2>1. last'.outcome = Outcome(seg) /\ last'.seg = seg
      BY <1>5
    <2>2. last'.outcome = "Collision" =>
             \E s \in Range(segs') : Contents(s) \cap Contents(last'.seg) # {}
      <3>1. \A s \in Range(segs') : Share(s, seg) => Contents(s) \cap Contents(seg) # {}
        BY <2>0, ReachedAll
      <3> QED BY <1>6, <2>1, <3>1
    <2>3. last'.outcome = "RunTimeError" =>
             \E s \in Range(segs') :
                 /\ s.cacheable # last'.seg.cacheable
                 /\ \E a \in Contents(s), b \in Contents(last'.seg) :
                       Cell(conf'.use, conf'.drop, a) = Cell(conf'.use, conf'.drop, b)
      <3>1. \A s \in Range(segs') : Same(s, seg) =>
               \E a \in Contents(s), b \in Contents(seg) :
                   Cell(conf.use, conf.drop, a) = Cell(conf.use, conf.drop, b)
        BY <2>0, ReachedAll
      <3> HIDE DEF Same
      <3> QED BY <1>1, <1>6, <2>1, <3>1
    <2>6. ASSUME NEW i \in 1 .. Len(segs'), NEW j \in 1 .. Len(segs'), i # j,
                 Bounded(segs'[i]), Bounded(segs'[j])
          PROVE  Contents(segs'[i]) \cap Contents(segs'[j]) = {}
      <3>1. segs'[i] \in Segments /\ segs'[j] \in Segments
        BY <1>6
      <3>2. ~ Share(segs'[i], segs'[j])
        <4> HIDE DEF Share
        <4> QED BY Zenon, <1>6, <2>6
      <3> QED BY <2>6, <3>1, <3>2, ReachedAll
    <2>4. AddIsExact'
      BY Zenon, <1>1, <1>6, <2>1, <2>2, <2>3, <2>6 DEF AddIsExact
    <2>5. Compatible'
      BY <1>1, <1>6 DEF Compatible
    <2> QED BY <2>4, <2>5
  <1> HIDE DEF Same, Share
  <1>7. CASE Outcome(seg) = "ok"
    <2>1. /\ segs' = Append(segs, seg) /\ Len(seg.index) = Levels
          /\ \A i \in 1 .. Len(segs) : Verdict(segs[i], seg) = "ok"
      BY <1>7, BumpedFirst DEF add, Outcome
    <2>2. /\ segs' \in Seq(Segments) /\ Len(segs') = Len(segs) + 1
          /\ segs'[Len(segs) + 1] = seg
          /\ \A i \in 1 .. Len(segs) : segs'[i] = segs[i] /\ segs[i] \in Segments
      BY <2>1
    <2>3. \A s : s \in Range(segs') <=> s \in Range(segs) \/ s = seg
      <3>1. \A s : s \in Range(segs') <=> \E i \in 1 .. Len(segs') : s = segs'[i]
        BY <2>2 DEF Range
      <3>2. \A i : i \in 1 .. Len(segs') <=> i \in 1 .. Len(segs) \/ i = Len(segs) + 1
        BY <2>2
      <3> QED BY <2>2, <3>1, <3>2, Listed
    <2>4. \A s \in Range(segs) : Verdict(s, seg) = "ok" /\ s \in Segments
      BY <2>1, Listed
    <2>5. \A i, j \in 1 .. Len(segs') : i # j => ~ Share(segs'[i], segs'[j])
      <3>1. \A i : i \in 1 .. Len(segs') <=> i \in 1 .. Len(segs) \/ i = Len(segs) + 1
        BY <2>2
      <3> QED BY <1>3, <1>4, <2>1, <2>2, <3>1
    <2>6. \A s, t \in Range(segs') : s.cacheable # t.cacheable => ~ Same(s, t)
      BY <1>3, <1>4, <2>3, <2>4
    <2>7. \A s \in Range(segs') : Len(s.index) = Levels
      BY <1>4, <2>1, <2>3
    <2> QED BY <1>1, <1>6, <1>7, <2>2, <2>5, <2>6, <2>7
  <1>8. CASE Outcome(seg) # "ok"
    <2>1. segs' = segs
      BY <1>8 DEF add
    <2>2. Outcome(seg) = "ValueError" => Len(seg.index) # Levels
      <3>1. ASSUME Len(seg.index) = Levels, Outcome(seg) = "ValueError" PROVE FALSE
        <4>1. /\ Min(Bumped(seg)) \in 1 .. Len(segs)
              /\ Verdict(segs[Min(Bumped(seg))], seg) = "ValueError"
          BY <3>1, BumpedFirst DEF Outcome
        <4> QED BY <1>3, <4>1
      <3> QED BY <3>1
    <2>3. ASSUME Outcome(seg) # "ValueError"
          PROVE  \E s \in Range(segs) : s \in Segments /\ Verdict(s, seg) = Outcome(seg)
      <3>1. /\ Min(Bumped(seg)) \in 1 .. Len(segs)
            /\ Verdict(segs[Min(Bumped(seg))], seg) = Outcome(seg)
        BY <1>8, <2>3, BumpedFirst DEF Outcome
      <3> QED BY <3>1, Listed
    <2>4. segs' \in Seq(Segments)
      BY <2>1
    <2> QED BY <1>1, <1>3, <1>4, <1>6, <2>1, <2>2, <2>3, <2>4
  <1> QED BY <1>7, <1>8

\* The constructor and add keep the inductive invariant.
THEOREM TableInvariance == TableSpec => []TableInv
  <1>1. TableInit => TableInv
    <2> SUFFICES ASSUME TableInit PROVE TableInv
      OBVIOUS
    <2>1. segs = <<>> /\ last = [outcome |-> "none"] /\ Built
      BY DEF TableInit, Built
    <2>2. Range(segs) = {} /\ Len(segs) = 0 /\ segs \in Seq(Segments)
      BY <2>1 DEF Range
    <2> QED BY <2>1, <2>2 DEF TableInv, AddIsExact, Compatible
  <1>2. TableInv /\ [TableNext]_tablevars => TableInv'
    <2> SUFFICES ASSUME TableInv, [TableNext]_tablevars PROVE TableInv'
      OBVIOUS
    <2>1. CASE TableNext
      BY <2>1, AddKeeps DEF TableNext
    <2>2. CASE UNCHANGED tablevars
      <3>1. conf' = conf /\ rt_size' = rt_size /\ segs' = segs /\ last' = last
        BY <2>2 DEF tablevars
      <3>2. Levels' = Levels
        BY <3>1 DEF Levels
      <3>3. AddIsExact'
        BY <3>1, <3>2, Zenon DEF TableInv, AddIsExact
      <3>4. Compatible'
        BY <3>1 DEF TableInv, Compatible
      <3> QED BY <3>1, <3>3, <3>4 DEF TableInv, Built
    <2> QED BY <2>1, <2>2
  <1> QED BY <1>1, <1>2, PTL DEF TableSpec

\* AddIsExact is an invariant: add (mapping_table.cpp) accepts a segment when
\* and only when it should, whatever the widths, m_rt_size and the segments,
\* one that ends at the top of the address space excepted.
THEOREM AddExact == TableSpec => []AddIsExact
  <1>1. TableInv => AddIsExact
    BY DEF TableInv
  <1> QED BY <1>1, TableInvariance, PTL

\* CacheabilityCoherent is an invariant: getCacheabilityTable never throws on a
\* list that add has accepted, if its loops end, and is right at every address
\* of a segment that does not end at the top.
THEOREM Cacheability == TableSpec => []CacheabilityCoherent
  <1>1. ASSUME TableInv PROVE CacheabilityCoherent
    <2> DEFINE val == [s \in Range(segs) |-> s.cacheable]
    <2>1. /\ rt_size \in Nat \ {0} /\ conf.drop \in Nat /\ Fine(conf.drop) /\ conf.use \in Nat
          /\ DOMAIN val \subseteq Segments
      BY <1>1, Grain, Listed, TableAssumption DEF TableInv, Built, Conf
    <2>2. ~ Clash(conf.use, conf.drop, val)
      BY <1>1 DEF TableInv, Compatible, Clash
    <2>3. \A s \in Range(segs) : s \in DOMAIN val /\ val[s] = s.cacheable
      OBVIOUS
    <2>4. getCacheabilityTable = Table(conf.use, conf.drop, FALSE, val)
      BY DEF getCacheabilityTable
    <2>6. DOMAIN val = Range(segs)
      OBVIOUS
    <2> HIDE DEF val
    <2>5. ASSUME \A s \in Range(segs) : ~ Endless(s)
          PROVE  /\ Table(conf.use, conf.drop, FALSE, val) # NoTable
                 /\ Holds(Table(conf.use, conf.drop, FALSE, val), conf.use, conf.drop, val)
      BY Zenon, <2>1, <2>2, <2>5, <2>6, TableFacts
    <2>7. \A s \in Seen : s \in Range(segs) /\ Reached(s) = Contents(s)
      BY <2>1, <2>6, ReachedAll DEF Seen
    <2> QED BY Zenon, <2>3, <2>4, <2>5, <2>7 DEF CacheabilityCoherent, Holds
  <1> QED BY <1>1, TableInvariance, PTL

-----------------------------------------------------------------------------
(* Routing *)

\* Prefixes of an index.
LEMMA Prefix ==
    ASSUME NEW x \in Seq(Nat), NEW l \in 0 .. Len(x)
    PROVE  /\ SubSeq(x, 1, l) \in Seq(Nat) /\ Len(SubSeq(x, 1, l)) = l
           /\ \A i \in 1 .. l : SubSeq(x, 1, l)[i] = x[i]
  OBVIOUS

\* Two indexes with the same components are one.
LEMMA SameSequence ==
    ASSUME NEW x \in Seq(Nat), NEW y \in Seq(Nat), Len(x) = Len(y),
           \A i \in 1 .. Len(x) : x[i] = y[i]
    PROVE  x = y
  OBVIOUS

\* Indexes that are equal up to a level have the same prefix there.
LEMMA SamePrefix ==
    ASSUME NEW x \in Seq(Nat), NEW y \in Seq(Nat), NEW l \in Nat,
           l =< Len(x), l =< Len(y), \A i \in 1 .. l : x[i] = y[i]
    PROVE  SubSeq(x, 1, l) = SubSeq(y, 1, l)
  <1>1. l \in 0 .. Len(x) /\ l \in 0 .. Len(y)
    OBVIOUS
  <1>2. /\ SubSeq(x, 1, l) \in Seq(Nat) /\ Len(SubSeq(x, 1, l)) = l
        /\ \A i \in 1 .. l : SubSeq(x, 1, l)[i] = x[i]
    BY <1>1, Prefix
  <1>3. /\ SubSeq(y, 1, l) \in Seq(Nat) /\ Len(SubSeq(y, 1, l)) = l
        /\ \A i \in 1 .. l : SubSeq(y, 1, l)[i] = y[i]
    BY <1>1, Prefix
  <1> QED BY <1>2, <1>3, SameSequence

\* add lets in only indexes of the level of the table.
LEMMA IndexShape ==
    ASSUME TableInv, NEW s \in Range(segs)
    PROVE  /\ s \in Segments /\ s.index \in Seq(Nat) /\ Len(s.index) = Levels
           /\ Levels \in Nat /\ conf.addr_bits \in Seq(Nat)
           /\ SumBits(conf.addr_bits, Levels) =< AddrWidth
  BY Listed, TableAssumption DEF TableInv, AddIsExact, Levels, Built, Conf

\* Every prefix of an index that a table of a platform is built for.
LEMMA ClusterShape ==
    ASSUME TableInv, NEW x \in Targets \cup Clusters
    PROVE  \E s \in Range(segs) : \E l \in 0 .. Levels : x = SubSeq(s.index, 1, l)
  <1>1. ASSUME NEW s \in Range(segs), x = s.index
        PROVE  Levels \in 0 .. Levels /\ x = SubSeq(s.index, 1, Levels)
    <2>1. s.index \in Seq(Nat) /\ Len(s.index) = Levels /\ Levels \in 0 .. Levels
      BY IndexShape
    <2>2. /\ SubSeq(x, 1, Levels) \in Seq(Nat) /\ Len(SubSeq(x, 1, Levels)) = Levels
          /\ \A i \in 1 .. Levels : SubSeq(x, 1, Levels)[i] = x[i]
      BY <1>1, <2>1, Prefix
    <2> QED BY <1>1, <2>1, <2>2, SameSequence
  <1>2. ASSUME x \in Clusters
        PROVE  \E s \in Range(segs) : \E l \in 0 .. Len(s.index) - 1 : x = SubSeq(s.index, 1, l)
    BY <1>2 DEF Clusters, Targets
  <1>3. \A s \in Range(segs) : 0 .. Len(s.index) - 1 \subseteq 0 .. Levels
    BY IndexShape
  <1> QED BY <1>1, <1>2, <1>3 DEF Targets

\* The prefixes of the indexes have a table.
LEMMA PrefixIsCluster ==
    ASSUME TableInv, NEW s \in Range(segs), NEW l \in 1 .. Levels
    PROVE  SubSeq(s.index, 1, l - 1) \in Clusters
  <1>1. l - 1 \in 0 .. Len(s.index) - 1
    BY IndexShape
  <1> QED BY <1>1 DEF Clusters, Targets

\* The bits of a cluster's level lie within the address.
LEMMA ClusterLevel ==
    ASSUME TableInv, NEW p \in Clusters
    PROVE  /\ p \in Seq(Nat) /\ Len(p) \in 0 .. Levels - 1
           /\ At(p) \in Nat /\ Before(p) \in Nat
           /\ Before(p) + At(p) = SumBits(conf.addr_bits, Len(p) + 1)
           /\ AddrWidth - At(p) - Before(p) \in Nat
           /\ Fine(AddrWidth - At(p) - Before(p))
  <1>1. PICK s \in Range(segs) : \E l \in 0 .. Len(s.index) - 1 : p = SubSeq(s.index, 1, l)
    BY DEF Clusters, Targets
  <1>2. PICK l \in 0 .. Len(s.index) - 1 : p = SubSeq(s.index, 1, l)
    BY <1>1
  <1>3. /\ s.index \in Seq(Nat) /\ Len(s.index) = Levels /\ Levels \in Nat
        /\ conf.addr_bits \in Seq(Nat) /\ Levels = Len(conf.addr_bits)
        /\ SumBits(conf.addr_bits, Levels) =< AddrWidth
    BY IndexShape DEF Levels
  <1>4. l \in 0 .. Len(s.index)
    BY <1>3
  <1>5. p \in Seq(Nat) /\ Len(p) = l
    BY <1>2, <1>3, <1>4, Prefix
  <1>6. /\ l + 1 \in 1 .. Len(conf.addr_bits) /\ (l + 1) - 1 = l
        /\ l \in 0 .. Len(conf.addr_bits) /\ l + 1 \in 0 .. Len(conf.addr_bits)
        /\ Levels \in 0 .. Len(conf.addr_bits) /\ l + 1 \in 0 .. Levels
    BY <1>3
  <1>7. SumBits(conf.addr_bits, l + 1) = SumBits(conf.addr_bits, l) + conf.addr_bits[l + 1]
    BY Zenon, <1>3, <1>6, SumStep
  <1>8. SumBits(conf.addr_bits, l) \in Nat /\ conf.addr_bits[l + 1] \in Nat
    <2>1. SumBits(conf.addr_bits, l) \in Nat
      BY <1>3, <1>6, SumType
    <2>2. conf.addr_bits[l + 1] \in Nat
      BY <1>3, <1>6
    <2> QED BY <2>1, <2>2
  <1>9. /\ SumBits(conf.addr_bits, l + 1) =< SumBits(conf.addr_bits, Levels)
        /\ SumBits(conf.addr_bits, Levels) \in Nat
    BY <1>3, <1>6, SumGrows, SumType
  <1>10. At(p) = conf.addr_bits[l + 1] /\ Before(p) = SumBits(conf.addr_bits, l)
    BY <1>5 DEF At, Before
  <1>11. AddrWidth \in Nat
    BY TableAssumption
  <1>12. /\ AddrWidth - At(p) - Before(p) \in Nat
         /\ AddrWidth - At(p) - Before(p) >= AddrWidth - SumBits(conf.addr_bits, Levels)
    <2> DEFINE x == SumBits(conf.addr_bits, l)
               y == conf.addr_bits[l + 1]
               z == SumBits(conf.addr_bits, Levels)
    <2>1. x \in Nat /\ y \in Nat /\ z \in Nat /\ x + y =< z /\ z =< AddrWidth
      BY <1>3, <1>7, <1>8, <1>9
    <2>2. At(p) = y /\ Before(p) = x
      BY <1>10
    <2> HIDE DEF x, y, z
    <2>3. AddrWidth - y - x \in Nat /\ AddrWidth - y - x >= AddrWidth - z
      BY <1>11, <2>1
    <2> QED BY <2>2, <2>3 DEF z
  <1>13. Fine(AddrWidth - At(p) - Before(p))
    BY <1>12, Grain DEF TableInv
  <1> QED BY <1>3, <1>5, <1>7, <1>8, <1>10, <1>12, <1>13

\* What the table of a cluster holds.
LEMMA RoutingTable ==
    ASSUME TableInv, NEW p \in Clusters
    PROVE  /\ getRoutingTable(p) = NoTable =>
                \/ \E s \in Routed(p) : Endless(s)
                \/ \E s, t \in Routed(p) :
                      /\ s.index[Len(p) + 1] # t.index[Len(p) + 1]
                      /\ \E a \in Reached(s), b \in Reached(t) :
                            RoutingCell(p, a) = RoutingCell(p, b)
           /\ getRoutingTable(p) # NoTable =>
                \A s \in Routed(p) : ~ Endless(s) /\ \A a \in Reached(s) :
                    getRoutingTable(p)[RoutingCell(p, a)] = s.index[Len(p) + 1]
  <1> DEFINE val == [s \in Routed(p) |-> s.index[Len(p) + 1]]
             use == At(p)
             d == AddrWidth - At(p) - Before(p)
  <1>1. use \in Nat /\ d \in Nat /\ Fine(d) /\ rt_size \in Nat \ {0}
    BY ClusterLevel, Grain DEF TableInv
  <1>2. DOMAIN val \subseteq Segments
    BY Listed DEF TableInv, Routed
  <1>3. getRoutingTable(p) = Table(use, d, 0, val)
    BY DEF getRoutingTable
  <1>4. \A a : RoutingCell(p, a) = Cell(use, d, a)
    BY DEF RoutingCell
  <1>5. DOMAIN val = Routed(p) /\ \A s \in Routed(p) : val[s] = s.index[Len(p) + 1]
    OBVIOUS
  <1> HIDE DEF val, use, d
  <1>6. /\ Table(use, d, 0, val) = NoTable <=>
             (\E s \in DOMAIN val : Endless(s)) \/ Clash(use, d, val)
        /\ Table(use, d, 0, val) # NoTable => Holds(Table(use, d, 0, val), use, d, val)
    BY <1>1, <1>2, TableFacts
  <1>7. ASSUME getRoutingTable(p) = NoTable, \A s \in Routed(p) : ~ Endless(s)
        PROVE  \E s, t \in Routed(p) :
                    /\ s.index[Len(p) + 1] # t.index[Len(p) + 1]
                    /\ \E a \in Reached(s), b \in Reached(t) :
                          RoutingCell(p, a) = RoutingCell(p, b)
    <2>1. Clash(use, d, val)
      BY <1>3, <1>5, <1>6, <1>7
    <2> QED BY <1>4, <1>5, <2>1 DEF Clash
  <1>8. ASSUME getRoutingTable(p) # NoTable, NEW s \in Routed(p), NEW a \in Reached(s)
        PROVE  getRoutingTable(p)[RoutingCell(p, a)] = s.index[Len(p) + 1]
    <2>1. Holds(getRoutingTable(p), use, d, val)
      BY <1>3, <1>6, <1>8
    <2> QED BY <1>4, <1>5, <2>1 DEF Holds
  <1>9. ASSUME getRoutingTable(p) # NoTable, NEW s \in Routed(p) PROVE ~ Endless(s)
    BY <1>3, <1>5, <1>6, <1>9
  <1> QED BY <1>7, <1>8, <1>9

\* Each table on the way gives an address of s the next level of its index.
LEMMA RoutesRight ==
    ASSUME TableInv, Routable(Tables), NEW s \in Range(segs), NEW a \in Reached(s),
           NEW l \in 1 .. Levels
    PROVE  Tables[SubSeq(s.index, 1, l - 1)][RoutingCell(SubSeq(s.index, 1, l - 1), a)]
             = s.index[l]
  <1> DEFINE p == SubSeq(s.index, 1, l - 1)
  <1>1. p \in Clusters
    BY PrefixIsCluster
  <1>2. Tables[p] = getRoutingTable(p) /\ Tables[p] # NoTable
    BY <1>1 DEF Tables, Routable
  <1>3. /\ s.index \in Seq(Nat) /\ Len(s.index) = Levels /\ Levels \in Nat
        /\ l - 1 \in 0 .. Len(s.index)
    BY IndexShape
  <1>4. p \in Seq(Nat) /\ Len(p) = l - 1 /\ \A i \in 1 .. l - 1 : p[i] = s.index[i]
    BY <1>3, Prefix
  <1> HIDE DEF p
  <1>5. s \in Routed(p) /\ Len(p) + 1 = l
    BY <1>3, <1>4 DEF Routed, idMatches, Shorter
  <1>6. getRoutingTable(p)[RoutingCell(p, a)] = s.index[Len(p) + 1]
    BY <1>1, <1>2, <1>5, RoutingTable
  <1> QED BY <1>2, <1>5, <1>6 DEF p

\* The interconnect of the first level has looped over every segment.
LEMMA LoopsEnd ==
    ASSUME TableInv, Routable(Tables), NEW s \in Range(segs), Levels >= 1
    PROVE  ~ Endless(s)
  <1> DEFINE p == SubSeq(s.index, 1, 1 - 1)
  <1>1. s.index \in Seq(Nat) /\ Len(s.index) = Levels /\ Levels \in Nat
    BY IndexShape
  <1>2. 1 \in 1 .. Levels /\ 1 - 1 \in 0 .. Len(s.index) /\ 1 - 1 = 0
    BY <1>1
  <1>3. p \in Clusters
    BY <1>2, PrefixIsCluster
  <1>4. getRoutingTable(p) # NoTable
    BY <1>3 DEF Tables, Routable
  <1>5. p \in Seq(Nat) /\ Len(p) = 0
    BY <1>1, <1>2, Prefix
  <1> HIDE DEF p
  <1>6. s \in Routed(p)
    BY <1>1, <1>5 DEF Routed, idMatches, Shorter
  <1> QED BY <1>3, <1>4, <1>6, RoutingTable

\* RoutesToTarget is an invariant: what getRoutingTable gives the interconnects
\* leads every address of a segment that does not end at the top to its target,
\* and only the segments, not the rounding of the loops, can make it fail.
THEOREM Routing == TableSpec => []RoutesToTarget
  <1>1. ASSUME TableInv PROVE RoutesToTarget
    <2>1. ASSUME Routable(Tables), NEW x \in Targets, NEW s \in getSegmentList(x) \cap Seen,
                 NEW a \in Contents(s)
          PROVE  RoutedTo(Tables, x, a)
      <3>1. s \in Range(segs) /\ s.index = x /\ Bounded(s)
        BY DEF getSegmentList, Seen
      <3>4. a \in Reached(s)
        BY <1>1, <3>1, Listed, ReachedAll DEF TableInv
      <3>2. Len(x) = Levels
        BY <1>1, <3>1, IndexShape
      <3>3. \A l \in 1 .. Levels :
               Tables[SubSeq(x, 1, l - 1)][RoutingCell(SubSeq(x, 1, l - 1), a)] = x[l]
        BY <1>1, <2>1, <3>1, <3>4, RoutesRight
      <3> QED BY <3>2, <3>3 DEF RoutedTo
    <2>2. ASSUME NEW p \in Clusters, getRoutingTable(p) = NoTable,
                 \A s \in Range(segs) : ~ Endless(s)
          PROVE  \E s, t \in Range(segs) :
                  /\ idMatches(s.index, p) /\ idMatches(t.index, p)
                  /\ s.index[Len(p) + 1] # t.index[Len(p) + 1]
                  /\ \E a \in Contents(s), b \in Contents(t) :
                        RoutingCell(p, a) = RoutingCell(p, b)
      <3>0. \A s \in Routed(p) : s \in Range(segs) /\ idMatches(s.index, p)
        BY DEF Routed
      <3>1. PICK s, t \in Routed(p) :
                    /\ s.index[Len(p) + 1] # t.index[Len(p) + 1]
                    /\ \E a \in Reached(s), b \in Reached(t) :
                          RoutingCell(p, a) = RoutingCell(p, b)
        BY <1>1, <2>2, <3>0, RoutingTable
      <3>2. Reached(s) \subseteq Contents(s) /\ Reached(t) \subseteq Contents(t)
        BY <1>1, <3>0, Listed, ReachedAll DEF TableInv
      <3> QED BY <3>0, <3>1, <3>2
    <2>3. \A p \in Clusters : Tables[p] = getRoutingTable(p)
      BY DEF Tables
    <2> QED BY Zenon, <2>1, <2>2, <2>3 DEF RoutesToTarget
  <1> QED BY <1>1, TableInvariance, PTL

-----------------------------------------------------------------------------
(* Locality *)

\* The bits above the level of a cluster, of all the levels that lead there.
LEMMA LevelShape ==
    ASSUME TableInv, NEW x \in Targets \cup Clusters
    PROVE  /\ x \in Seq(Nat) /\ Len(x) \in 0 .. Levels /\ Levels \in Nat
           /\ Before(x) \in Nat /\ AddrWidth - Before(x) \in Nat
           /\ Fine(AddrWidth - Before(x))
           /\ \A l \in 1 .. Len(x) : SubSeq(x, 1, l - 1) \in Clusters
  <1>1. PICK s \in Range(segs), l \in 0 .. Levels : x = SubSeq(s.index, 1, l)
    BY ClusterShape
  <1>2. /\ s.index \in Seq(Nat) /\ Len(s.index) = Levels /\ Levels \in Nat
        /\ conf.addr_bits \in Seq(Nat) /\ Levels = Len(conf.addr_bits)
        /\ SumBits(conf.addr_bits, Levels) =< AddrWidth
    BY IndexShape DEF Levels
  <1>3. x \in Seq(Nat) /\ Len(x) = l /\ \A i \in 1 .. l : x[i] = s.index[i]
    BY <1>1, <1>2, Prefix
  <1>4. /\ l \in 0 .. Len(conf.addr_bits) /\ Levels \in 0 .. Len(conf.addr_bits)
        /\ l \in 0 .. Levels
    BY <1>2
  <1>5. /\ SumBits(conf.addr_bits, l) \in Nat /\ SumBits(conf.addr_bits, Levels) \in Nat
        /\ SumBits(conf.addr_bits, l) =< SumBits(conf.addr_bits, Levels)
    BY <1>2, <1>4, SumGrows, SumType
  <1>6. Before(x) = SumBits(conf.addr_bits, l)
    BY <1>3 DEF Before
  <1>7. /\ Before(x) \in Nat /\ AddrWidth - Before(x) \in Nat
        /\ AddrWidth - Before(x) >= AddrWidth - SumBits(conf.addr_bits, Levels)
    BY <1>2, <1>5, <1>6, TableAssumption
  <1>8. Fine(AddrWidth - Before(x))
    BY <1>7, Grain DEF TableInv
  <1>9. ASSUME NEW m \in 1 .. Len(x) PROVE SubSeq(x, 1, m - 1) \in Clusters
    <2>1. /\ m \in 1 .. Levels /\ m - 1 \in Nat /\ m - 1 =< Len(x) /\ m - 1 =< Len(s.index)
          /\ \A i \in 1 .. m - 1 : x[i] = s.index[i]
      BY <1>2, <1>3
    <2>2. SubSeq(x, 1, m - 1) = SubSeq(s.index, 1, m - 1)
      BY <1>2, <1>3, <2>1, SamePrefix
    <2>3. SubSeq(s.index, 1, m - 1) \in Clusters
      BY <2>1, PrefixIsCluster
    <2> QED BY Zenon, <2>2, <2>3
  <1> QED BY <1>2, <1>3, <1>7, <1>8, <1>9

\* The tables lead an address of s to the clusters of s and to no other.
LEMMA RoutedIsMatched ==
    ASSUME TableInv, Routable(Tables), NEW x \in Targets \cup Clusters,
           NEW s \in Range(segs), NEW a \in Reached(s)
    PROVE  RoutedTo(Tables, x, a) <=> idMatches(s.index, x)
  <1>1. /\ x \in Seq(Nat) /\ Len(x) \in 0 .. Levels /\ Levels \in Nat
        /\ s.index \in Seq(Nat) /\ Len(s.index) = Levels
    BY LevelShape, IndexShape
  <1>2. idMatches(s.index, x) <=> \A i \in 1 .. Len(x) : s.index[i] = x[i]
    BY <1>1 DEF idMatches, Shorter
  <1> DEFINE P(y, l) == SubSeq(y, 1, l - 1)
             Answer(y, l) == Tables[P(y, l)][RoutingCell(P(y, l), a)]
  <1>3. RoutedTo(Tables, x, a) <=> \A l \in 1 .. Len(x) : Answer(x, l) = x[l]
    BY DEF RoutedTo
  <1>4. \A l \in 1 .. Len(x) : Answer(s.index, l) = s.index[l]
    BY <1>1, RoutesRight
  <1>5. ASSUME NEW l \in 1 .. Len(x), \A i \in 1 .. l - 1 : s.index[i] = x[i]
        PROVE  Answer(x, l) = Answer(s.index, l)
    <2>1. l - 1 \in Nat /\ l - 1 =< Len(x) /\ l - 1 =< Len(s.index)
      BY <1>1
    <2>2. SubSeq(s.index, 1, l - 1) = SubSeq(x, 1, l - 1)
      BY <1>1, <1>5, <2>1, SamePrefix
    <2> QED BY Zenon, <2>2
  <1> HIDE DEF Answer
  <1>6. ASSUME \A i \in 1 .. Len(x) : s.index[i] = x[i], NEW l \in 1 .. Len(x)
        PROVE  Answer(x, l) = x[l]
    <2>1. ASSUME NEW i \in 1 .. l - 1 PROVE s.index[i] = x[i]
      <3>1. i \in 1 .. Len(x)
        BY <1>1
      <3> QED BY <1>6, <3>1
    <2> QED BY <1>4, <1>5, <1>6, <2>1
  <1>7. ASSUME \A l \in 1 .. Len(x) : Answer(x, l) = x[l]
        PROVE  \A i \in 1 .. Len(x) : s.index[i] = x[i]
    <2> DEFINE T == {n \in Nat : n > Len(x) \/ \A i \in 1 .. n : s.index[i] = x[i]}
    <2>1. 0 \in T
      OBVIOUS
    <2>2. ASSUME NEW n \in Nat, n \in T PROVE n + 1 \in T
      <3>1. CASE n + 1 > Len(x)
        BY <3>1
      <3>2. CASE n + 1 =< Len(x)
        <4>1. \A i \in 1 .. (n + 1) - 1 : s.index[i] = x[i]
          BY <1>1, <2>2, <3>2
        <4>2. n + 1 \in 1 .. Len(x)
          BY <1>1, <3>2
        <4>3. s.index[n + 1] = x[n + 1]
          BY <1>4, <1>5, <1>7, <4>1, <4>2
        <4>4. \A i \in 1 .. n + 1 : s.index[i] = x[i]
          BY <4>1, <4>3
        <4> QED BY <4>4
      <3> QED BY <1>1, <3>1, <3>2
    <2>3. Len(x) \in T
      <3>1. Len(x) \in Nat
        BY <1>1
      <3> HIDE DEF T
      <3> QED BY <2>1, <2>2, <3>1, Induction
    <2> QED BY <1>1, <2>3
  <1> QED BY <1>2, <1>3, <1>6, <1>7

\* The address bits above a cluster decide whether an address is routed there.
LEMMA TopBits ==
    ASSUME TableInv, NEW x \in Targets \cup Clusters, NEW a \in Addr, NEW b \in Addr,
           Cell(Before(x), AddrWidth - Before(x), a) = Cell(Before(x), AddrWidth - Before(x), b),
           NEW l \in 1 .. Len(x)
    PROVE  RoutingCell(SubSeq(x, 1, l - 1), a) = RoutingCell(SubSeq(x, 1, l - 1), b)
  <1> DEFINE p == SubSeq(x, 1, l - 1)
             u == Before(x)
             d == AddrWidth - Before(x)
             e == AddrWidth - At(p) - Before(p)
  <1>1. /\ x \in Seq(Nat) /\ Len(x) \in 0 .. Levels /\ Levels \in Nat
        /\ u \in Nat /\ d \in Nat /\ p \in Clusters
    BY LevelShape
  <1>2. /\ At(p) \in Nat /\ Before(p) \in Nat /\ e \in Nat
        /\ Before(p) + At(p) = SumBits(conf.addr_bits, Len(p) + 1)
    BY Zenon, <1>1, ClusterLevel
  <1>3. AddrWidth \in Nat /\ u + d = AddrWidth
    BY <1>1, TableAssumption
  <1>4. a \in Nat /\ b \in Nat /\ a < 2^AddrWidth /\ b < 2^AddrWidth
    BY <1>3, PowerType DEF Addr
  <1>5. Len(p) = l - 1
    <2>1. l - 1 \in 0 .. Len(x)
      BY <1>1
    <2> QED BY <1>1, <2>1, Prefix
  <1>6. d =< e
    <2>1. /\ conf.addr_bits \in Seq(Nat) /\ Levels = Len(conf.addr_bits)
      BY TableAssumption DEF TableInv, Built, Conf, Levels
    <2>2. l \in 0 .. Len(x) /\ Len(x) \in 0 .. Len(conf.addr_bits)
      BY <1>1, <2>1
    <2>3. /\ SumBits(conf.addr_bits, l) =< SumBits(conf.addr_bits, Len(x))
      BY <2>1, <2>2, SumGrows
    <2>4. Before(p) + At(p) = SumBits(conf.addr_bits, l)
      BY <1>1, <1>2, <1>5
    <2>5. u = SumBits(conf.addr_bits, Len(x))
      BY DEF Before
    <2> DEFINE v == At(p)
               w == Before(p)
    <2>6. w + v =< u /\ v \in Nat /\ w \in Nat /\ e = AddrWidth - v - w /\ d = AddrWidth - u
      BY <1>2, <2>3, <2>4, <2>5
    <2> HIDE DEF u, d, e, v, w
    <2> QED BY <1>1, <1>3, <2>6
  <1>7. \A c : Cell(Before(x), AddrWidth - Before(x), c) = (c \div 2^d) % 2^u
    BY DEF Cell
  <1>8. \A c : RoutingCell(p, c) = (c \div 2^e) % 2^At(p)
    BY DEF RoutingCell, Cell
  <1> HIDE DEF p, u, d, e
  <1>9. e - d \in Nat /\ d + (e - d) = e /\ d + u = AddrWidth
    BY <1>1, <1>2, <1>3, <1>6
  <1>10. 2^u \in Nat \ {0} /\ 2^d \in Nat \ {0} /\ 2^(e - d) \in Nat \ {0}
    BY <1>1, <1>9, PowerType
  <1>11. 2^AddrWidth = 2^d * 2^u /\ 2^e = 2^d * 2^(e - d)
    BY Zenon, <1>1, <1>9, PowerSum
  <1>12. (a \div 2^d) % 2^u = (b \div 2^d) % 2^u
    BY <1>7
  <1>13. a \div 2^e = b \div 2^e
    <2> DEFINE D == 2^d
               U == 2^u
               K == 2^(e - d)
    <2>1. D \in Nat \ {0} /\ U \in Nat \ {0} /\ K \in Nat \ {0}
      BY <1>10
    <2>2. a < D * U /\ b < D * U /\ (a \div D) % U = (b \div D) % U /\ 2^e = D * K
      BY <1>4, <1>11, <1>12
    <2> HIDE DEF D, U, K
    <2>3. (a \div D) % U = a \div D
      BY Zenon, <1>4, <2>1, <2>2, TopDigits
    <2>4. (b \div D) % U = b \div D
      BY Zenon, <1>4, <2>1, <2>2, TopDigits
    <2>5. (a \div D) \div K = a \div (D * K)
      BY Zenon, <1>4, <2>1, DivDiv
    <2>6. (b \div D) \div K = b \div (D * K)
      BY Zenon, <1>4, <2>1, DivDiv
    <2> QED BY <2>2, <2>3, <2>4, <2>5, <2>6
  <1> QED BY <1>8, <1>13 DEF p

\* LocalityAgrees is an invariant: where getRoutingTable does not throw,
\* getLocalityTable does not either, and the two agree on every address of a
\* segment that does not end at the top.
THEOREM Locality == TableSpec => []LocalityAgrees
  <1>1. ASSUME TableInv, Routable(Tables), NEW x \in (Targets \cup Clusters) \ {<<>>}
        PROVE  /\ getLocalityTable(x) # NoTable
               /\ \A s \in Seen : \A a \in Contents(s) :
                     getLocalityTable(x)[Cell(Before(x), AddrWidth - Before(x), a)]
                       <=> RoutedTo(Tables, x, a)
    <2> DEFINE val == [s \in Range(segs) |-> idMatches(s.index, x)]
               u == Before(x)
               d == AddrWidth - Before(x)
    <2>1. /\ u \in Nat /\ d \in Nat /\ Fine(d) /\ rt_size \in Nat \ {0}
          /\ DOMAIN val \subseteq Segments
      BY <1>1, LevelShape, Grain, Listed DEF TableInv
    <2>2. ASSUME NEW s \in Range(segs), NEW a \in Reached(s)
          PROVE  val[s] <=> RoutedTo(Tables, x, a)
      BY <1>1, RoutedIsMatched
    <2>3. ~ Clash(u, d, val)
      <3>1. ASSUME NEW s \in Range(segs), NEW t \in Range(segs),
                   NEW a \in Reached(s), NEW b \in Reached(t), Cell(u, d, a) = Cell(u, d, b)
            PROVE  val[s] = val[t]
        <4>1. a \in Addr /\ b \in Addr
          BY DEF Reached
        <4>2. \A l \in 1 .. Len(x) :
                 RoutingCell(SubSeq(x, 1, l - 1), a) = RoutingCell(SubSeq(x, 1, l - 1), b)
          BY <1>1, <3>1, <4>1, TopBits
        <4>3. RoutedTo(Tables, x, a) <=> RoutedTo(Tables, x, b)
          BY <4>2 DEF RoutedTo
        <4>4. val[s] \in BOOLEAN /\ val[t] \in BOOLEAN
          BY DEF idMatches
        <4> HIDE DEF val
        <4> QED BY <2>2, <4>3, <4>4
      <3> QED BY <3>1 DEF Clash
    <2>4. getLocalityTable(x) = Table(u, d, TRUE, val)
      BY DEF getLocalityTable
    <2>5. DOMAIN val = Range(segs)
      OBVIOUS
    <2> HIDE DEF val
    <2>9. \A s \in DOMAIN val : ~ Endless(s)
      <3>1. x \in Seq(Nat) /\ Len(x) \in 0 .. Levels /\ Levels \in Nat /\ x # <<>>
        BY <1>1, LevelShape
      <3>2. Levels >= 1
        BY <3>1
      <3> QED BY <1>1, <2>5, <3>2, LoopsEnd
    <2>6. /\ Table(u, d, TRUE, val) # NoTable
          /\ Holds(Table(u, d, TRUE, val), u, d, val)
      BY Zenon, <2>1, <2>3, <2>9, TableFacts
    <2>7. ASSUME NEW s \in Range(segs), NEW a \in Reached(s)
          PROVE  getLocalityTable(x)[Cell(u, d, a)] <=> RoutedTo(Tables, x, a)
      BY Zenon, <2>2, <2>4, <2>5, <2>6 DEF Holds
    <2>8. \A s \in Seen : s \in Range(segs) /\ Reached(s) = Contents(s)
      BY <1>1, Listed, ReachedAll DEF Seen, TableInv
    <2> QED BY Zenon, <2>4, <2>6, <2>7, <2>8
  <1>2. TableInv => LocalityAgrees
    BY <1>1 DEF LocalityAgrees
  <1> QED BY <1>2, TableInvariance, PTL

-----------------------------------------------------------------------------
(* Identifiers *)

\* The successive values of the loop of IntTab::operator*.
IsId(x, f) ==
    /\ f \in [0 .. Len(x) -> Nat] /\ f[0] = 0
    /\ \A l \in 1 .. Len(x) : f[l] = (f[l - 1] * 2^conf.id_bits[l]) + x[l]

Fits(x) == /\ x \in Seq(Nat) /\ conf.id_bits \in Seq(Nat) /\ Len(x) = Len(conf.id_bits)
           /\ \A l \in 1 .. Len(x) : x[l] < 2^conf.id_bits[l]

\* The loop of IntTab::operator* has one run.
LEMMA IdRuns ==
    ASSUME NEW x, Fits(x)
    PROVE  \E f : IsId(x, f) /\ indexForId(x) = f[Len(x)]
  <1> DEFINE n == Len(x)
             B == [l \in 1 .. n |-> 2^conf.id_bits[l]]
             G == [l \in 1 .. n |-> [i \in Nat |-> (i * B[l]) + x[l]]]
             h == CHOOSE h : h = [l \in 0 .. n |->
                     IF l = 0 THEN 0 ELSE (h[l - 1] * 2^conf.id_bits[l]) + x[l]]
  <1>1. n \in Nat /\ \A l \in 1 .. n : x[l] \in Nat /\ conf.id_bits[l] \in Nat
    BY DEF Fits
  <1>2. \A l \in 1 .. n : B[l] \in Nat /\ B[l] = 2^conf.id_bits[l]
    BY <1>1, PowerType
  <1>3. IsLoop(n, Nat, G)
    <2> HIDE DEF B, n
    <2>1. ASSUME NEW l \in 1 .. n, NEW i \in Nat PROVE (i * B[l]) + x[l] \in Nat
      BY <1>1, <1>2
    <2> QED BY <2>1 DEF IsLoop
  <1>4. \A l \in 1 .. n : \A i \in Nat : G[l][i] = (i * B[l]) + x[l]
    OBVIOUS
  <1>5. PICK f : IsRun(n, Nat, 0, G, f)
    <2> HIDE DEF G, h, n
    <2> QED BY Zenon, <1>1, <1>3, LoopRuns
  <1>6. /\ f \in [0 .. n -> Nat] /\ f[0] = 0
        /\ \A l \in 1 .. n : f[l] = (f[l - 1] * 2^conf.id_bits[l]) + x[l]
    <2>1. f \in [0 .. n -> Nat] /\ f[0] = 0 /\ \A l \in 1 .. n : f[l] = G[l][f[l - 1]]
      BY <1>5 DEF IsRun
    <2> HIDE DEF G, B, n
    <2>2. \A l \in 1 .. n : f[l - 1] \in Nat
      BY <1>1, <2>1
    <2> QED BY Zenon, <1>2, <1>4, <2>1, <2>2
  <1>7. f = [l \in 0 .. n |-> IF l = 0 THEN 0 ELSE (f[l - 1] * 2^conf.id_bits[l]) + x[l]]
    <2> HIDE DEF n
    <2>1. \A l \in 0 .. n : l # 0 => l \in 1 .. n
      BY <1>1
    <2> QED BY <1>6, <2>1
  <1>8. h = [l \in 0 .. n |-> IF l = 0 THEN 0 ELSE (h[l - 1] * 2^conf.id_bits[l]) + x[l]]
    BY Zenon, <1>7
  <1>9. indexForId(x) = h[n]
    BY DEF indexForId
  <1> HIDE DEF h, G, n
  <1>10. \A l \in 1 .. n : h[l] = (h[l - 1] * B[l]) + x[l]
    <2>1. \A l \in 1 .. n : l \in 0 .. n /\ l # 0
      BY <1>1
    <2> QED BY Zenon, <1>2, <1>8, <2>1
  <1>11. \A l \in 0 .. n : h[l] \in Nat
    <2> HIDE DEF B
    <2>1. h[0] \in Nat
      BY <1>1, <1>8
    <2>2. ASSUME NEW l \in 1 .. n, h[l - 1] \in Nat PROVE h[l] \in Nat
      BY <1>1, <1>2, <1>10, <2>2
    <2> QED BY Zenon, <1>1, <2>1, <2>2, LoopKeeps
  <1>12. h \in [0 .. n -> Nat] /\ h[0] = 0
    BY <1>1, <1>8, <1>11
  <1>13. IsId(x, h)
    BY <1>2, <1>10, <1>12 DEF IsId, n
  <1> QED BY <1>9, <1>13 DEF n

\* The last digit of an identifier, and the rest of it.
LEMMA IdDigit ==
    ASSUME NEW x, Fits(x), NEW f, IsId(x, f), NEW l \in 1 .. Len(x)
    PROVE  /\ f[l] \in Nat /\ f[l - 1] \in Nat /\ 2^conf.id_bits[l] \in Nat \ {0}
           /\ f[l - 1] = f[l] \div 2^conf.id_bits[l]
           /\ x[l] = f[l] % 2^conf.id_bits[l]
  <1> DEFINE B == 2^conf.id_bits[l]
  <1>1. conf.id_bits[l] \in Nat /\ x[l] \in Nat /\ x[l] < B
    BY DEF Fits
  <1>2. B \in Nat \ {0}
    BY <1>1, PowerType
  <1>3. f[l] = (f[l - 1] * B) + x[l] /\ f[l] \in Nat /\ f[l - 1] \in Nat
    <2>1. l \in 0 .. Len(x) /\ l - 1 \in 0 .. Len(x)
      BY DEF Fits
    <2> QED BY Zenon, <2>1 DEF IsId
  <1> DEFINE q == f[l - 1]
             r == x[l]
  <1>4. q \in Nat /\ r \in 0 .. B - 1 /\ f[l] = (q * B) + r
    BY <1>1, <1>2, <1>3
  <1> HIDE DEF B, q, r
  <1>5. q * B = B * q
    BY <1>2, <1>4
  <1>6. f[l] = (B * q) + r
    BY <1>4, <1>5
  <1>7. f[l] \div B = q /\ f[l] % B = r
    BY <1>2, <1>4, <1>6, DivUnique
  <1> QED BY <1>2, <1>3, <1>7 DEF B, q, r

\* The widths of the identifiers of the levels below, and of the last one.
LEMMA IdWidths ==
    ASSUME NEW x, Fits(x), NEW l \in 1 .. Len(x)
    PROVE  /\ IdBits(l) \in Nat /\ IdBits(l - 1) \in Nat /\ conf.id_bits[l] \in Nat
           /\ IdBits(l) = IdBits(l - 1) + conf.id_bits[l]
           /\ IdBits(l) =< IdBits(Len(x)) /\ IdBits(Len(x)) \in Nat
  <1>1. /\ conf.id_bits \in Seq(Nat) /\ Len(x) = Len(conf.id_bits) /\ Len(x) \in Nat
        /\ l \in 1 .. Len(conf.id_bits) /\ l \in 0 .. Len(x) /\ l - 1 \in 0 .. Len(x)
        /\ Len(x) \in 0 .. Len(x)
    BY DEF Fits
  <1>2. SumBits(conf.id_bits, l) = SumBits(conf.id_bits, l - 1) + conf.id_bits[l]
    BY <1>1, SumStep
  <1>3. SumBits(conf.id_bits, l) \in Nat
    BY <1>1, SumType
  <1>4. SumBits(conf.id_bits, l - 1) \in Nat
    BY <1>1, SumType
  <1>5. SumBits(conf.id_bits, Len(x)) \in Nat
    BY <1>1, SumType
  <1>6. SumBits(conf.id_bits, l) =< SumBits(conf.id_bits, Len(x))
    BY <1>1, SumGrows
  <1>7. conf.id_bits[l] \in Nat
    BY <1>1
  <1> QED BY <1>2, <1>3, <1>4, <1>5, <1>6, <1>7 DEF IdBits

\* The identifier of the first levels fits their widths.
LEMMA IdBound ==
    ASSUME NEW x, Fits(x), NEW f, IsId(x, f)
    PROVE  \A l \in 0 .. Len(x) : f[l] \in Nat /\ IdBits(l) \in Nat /\ f[l] < 2^IdBits(l)
  <1> DEFINE T == {l \in Nat : l > Len(x) \/
                      (f[l] \in Nat /\ IdBits(l) \in Nat /\ f[l] < 2^IdBits(l))}
  <1>1. 0 \in T
    <2>1. IdBits(0) = 0
      BY SumZero DEF IdBits
    <2>2. 2^IdBits(0) = 1
      BY Zenon, <2>1, PowerZero
    <2>3. f[0] = 0
      BY DEF IsId
    <2>4. f[0] \in Nat /\ IdBits(0) \in Nat /\ f[0] < 2^IdBits(0)
      BY <2>1, <2>2, <2>3
    <2> QED BY <2>4
  <1>2. ASSUME NEW n \in Nat, n \in T PROVE n + 1 \in T
    <2>1. CASE n + 1 > Len(x)
      BY <2>1
    <2>2. CASE n + 1 =< Len(x)
      <3>1. n + 1 \in 1 .. Len(x) /\ (n + 1) - 1 = n /\ Len(x) \in Nat
        BY <2>2 DEF Fits
      <3> DEFINE P == 2^IdBits(n)
                 B == 2^conf.id_bits[n + 1]
                 q == f[n]
                 r == x[n + 1]
      <3>2. f[n] \in Nat /\ IdBits(n) \in Nat /\ f[n] < P
        BY <1>2, <2>2, <3>1
      <3>3. /\ IdBits(n + 1) \in Nat /\ conf.id_bits[n + 1] \in Nat
            /\ IdBits(n + 1) = IdBits(n) + conf.id_bits[n + 1]
        BY <3>1, IdWidths
      <3>4. 2^IdBits(n + 1) = P * B /\ P \in Nat \ {0} /\ B \in Nat \ {0}
        BY <3>2, <3>3, PowerSum, PowerType
      <3>5. f[n + 1] = (q * B) + r /\ f[n + 1] \in Nat /\ r \in Nat /\ r < B
        <4>1. f[n + 1] = (f[n] * B) + x[n + 1]
          BY <3>1 DEF IsId
        <4>2. n + 1 \in 0 .. Len(x)
          BY <3>1
        <4>3. f[n + 1] \in Nat
          BY <4>2 DEF IsId
        <4>4. x[n + 1] \in Nat /\ x[n + 1] < B
          BY <3>1 DEF Fits
        <4> QED BY <4>1, <4>3, <4>4
      <3>6. q \in Nat /\ q < P
        BY <3>2
      <3> HIDE DEF P, B, q, r
      <3>7. (q * B) + r < P * B
        <4>1. q + 1 =< P
          BY <3>4, <3>6
        <4>2. \A i, j, k \in Nat : i =< j => i * k =< j * k
          OBVIOUS
        <4>3. (q + 1) * B =< P * B
          BY <3>4, <3>6, <4>1, <4>2
        <4>4. (q + 1) * B = (q * B) + B
          BY <3>4, <3>6
        <4>5. q * B \in Nat /\ P * B \in Nat
          BY <3>4, <3>6
        <4> QED BY <3>4, <3>5, <4>3, <4>4, <4>5
      <3> QED BY <3>3, <3>4, <3>5, <3>7
    <2>3. Len(x) \in Nat
      BY DEF Fits
    <2> QED BY <2>1, <2>2, <2>3
  <1>3. \A n \in Nat : n \in T
    <2> HIDE DEF T
    <2> QED BY <1>1, <1>2, Induction
  <1>4. Len(x) \in Nat
    BY DEF Fits
  <1> QED BY <1>3, <1>4

\* The identifier without its lower levels is the one of the levels above.
LEMMA IdTop ==
    ASSUME NEW x, Fits(x), NEW f, IsId(x, f), NEW l \in 0 .. Len(x)
    PROVE  /\ IdBits(Len(x)) - IdBits(l) \in Nat
           /\ f[Len(x)] \div 2^(IdBits(Len(x)) - IdBits(l)) = f[l]
  <1> DEFINE L == Len(x)
             Down(m) == IdBits(L) - IdBits(m)
             T == {k \in Nat : k > L \/ (Down(L - k) \in Nat /\ f[L] \div 2^Down(L - k) = f[L - k])}
  <1>1. L \in Nat /\ f[L] \in Nat /\ IdBits(L) \in Nat
    <2>1. L \in Nat
      BY DEF Fits
    <2> QED BY <2>1, IdBound
  <1>2. 0 \in T
    <2>1. Down(L) = 0 /\ L - 0 = L
      BY <1>1
    <2>2. 2^Down(L) = 1
      BY Zenon, <2>1, PowerZero
    <2>3. f[L] \div 2^Down(L) = f[L]
      BY <1>1, <2>2
    <2>4. Down(L - 0) \in Nat /\ f[L] \div 2^Down(L - 0) = f[L - 0]
      BY <2>1, <2>3
    <2> HIDE DEF Down
    <2> QED BY <2>4
  <1>3. ASSUME NEW k \in Nat, k \in T PROVE k + 1 \in T
    <2>1. CASE k + 1 > L
      BY <2>1
    <2>2. CASE k + 1 =< L
      <3> DEFINE m == L - k
      <3>1. m \in 1 .. L /\ m - 1 = L - (k + 1)
        BY <1>1, <2>2
      <3>2. Down(m) \in Nat /\ f[L] \div 2^Down(m) = f[m]
        BY <1>1, <1>3, <2>2
      <3> HIDE DEF m
      <3>3. /\ IdBits(m) \in Nat /\ IdBits(m - 1) \in Nat /\ conf.id_bits[m] \in Nat
            /\ IdBits(m) = IdBits(m - 1) + conf.id_bits[m]
        BY <3>1, IdWidths
      <3>4. Down(m - 1) = Down(m) + conf.id_bits[m]
        BY <1>1, <3>3
      <3>5. f[m - 1] = f[m] \div 2^conf.id_bits[m]
        BY <3>1, IdDigit
      <3> HIDE DEF Down
      <3>6. Down(m - 1) \in Nat /\ 2^Down(m - 1) = 2^Down(m) * 2^conf.id_bits[m]
        <4> DEFINE i == Down(m)
                   j == conf.id_bits[m]
        <4>1. i \in Nat /\ j \in Nat /\ Down(m - 1) = i + j
          BY <3>2, <3>3, <3>4
        <4> HIDE DEF i, j
        <4>2. 2^(i + j) = 2^i * 2^j /\ i + j \in Nat
          BY <4>1, PowerSum
        <4> QED BY <4>1, <4>2 DEF i, j
      <3>7. f[L] \div 2^Down(m - 1) = f[m - 1]
        <4> DEFINE D == 2^Down(m)
                   K == 2^conf.id_bits[m]
        <4>1. D \in Nat \ {0} /\ K \in Nat \ {0}
          BY <3>2, <3>3, PowerType
        <4>2. f[L] \div D = f[m] /\ f[m - 1] = f[m] \div K /\ 2^Down(m - 1) = D * K
          BY <3>2, <3>5, <3>6
        <4> HIDE DEF D, K
        <4>3. (f[L] \div D) \div K = f[L] \div (D * K)
          BY <1>1, <4>1, DivDiv
        <4> QED BY <4>2, <4>3
      <3> QED BY <3>1, <3>6, <3>7
    <2> QED BY <1>1, <2>1, <2>2
  <1>4. L - l \in Nat /\ L - (L - l) = l /\ L - l =< L
    BY <1>1
  <1>5. L - l \in T
    <2> HIDE DEF T
    <2> QED BY <1>2, <1>3, <1>4, Induction
  <1> QED BY <1>4, <1>5

\* Identifiers equal down to a level are those of indexes equal down to it.
LEMMA IdInjective ==
    ASSUME NEW x, Fits(x), NEW y, Fits(y), NEW f, IsId(x, f), NEW g, IsId(y, g),
           NEW m \in 0 .. Len(x), f[m] = g[m]
    PROVE  \A i \in 1 .. m : x[i] = y[i]
  <1>1. Len(x) = Len(y) /\ Len(x) \in Nat
    BY DEF Fits
  <1> DEFINE T == {k \in Nat : k > m \/ f[m - k] = g[m - k]}
  <1>2. 0 \in T
    OBVIOUS
  <1>3. ASSUME NEW k \in Nat, k \in T PROVE k + 1 \in T
    <2>1. CASE k + 1 > m
      BY <2>1
    <2>2. CASE k + 1 =< m
      <3> DEFINE l == m - k
      <3>1. l \in 1 .. Len(x) /\ l \in 1 .. Len(y) /\ f[l] = g[l] /\ m - (k + 1) = l - 1
        BY <1>1, <1>3, <2>2
      <3> HIDE DEF l
      <3>2. f[l - 1] = f[l] \div 2^conf.id_bits[l]
        BY <3>1, IdDigit
      <3>3. g[l - 1] = g[l] \div 2^conf.id_bits[l]
        BY <3>1, IdDigit
      <3> QED BY <3>1, <3>2, <3>3
    <2> QED BY <1>1, <2>1, <2>2
  <1>4. ASSUME NEW i \in 1 .. m PROVE x[i] = y[i]
    <2>1. m - i \in Nat /\ m - (m - i) = i /\ m - i =< m /\ i \in 1 .. Len(x) /\ i \in 1 .. Len(y)
      BY <1>1
    <2>2. m - i \in T
      <3> HIDE DEF T
      <3> QED BY <1>2, <1>3, <2>1, Induction
    <2>3. f[i] = g[i]
      BY <2>1, <2>2
    <2>4. x[i] = f[i] % 2^conf.id_bits[i]
      BY <2>1, IdDigit
    <2>5. y[i] = g[i] % 2^conf.id_bits[i]
      BY <2>1, IdDigit
    <2> QED BY <2>3, <2>4, <2>5
  <1> QED BY <1>4

\* The indexes fit the widths of the identifiers.
AllFit == \A x \in Targets : /\ Len(x) = Len(conf.id_bits)
                             /\ \A l \in DOMAIN x : x[l] < 2^conf.id_bits[l]

\* What the premise of IdentifiesTarget says about a target.
LEMMA TargetFits ==
    ASSUME TableInv, AllFit, NEW s \in Range(segs)
    PROVE  Fits(s.index) /\ Len(s.index) = Levels
  <1>1. s.index \in Seq(Nat) /\ Len(s.index) = Levels
    BY IndexShape
  <1>2. conf.id_bits \in Seq(Nat)
    BY TableAssumption DEF TableInv, Built, Conf
  <1>3. s.index \in Targets
    BY DEF Targets
  <1> QED BY <1>1, <1>2, <1>3 DEF AllFit, Fits

\* The cell that the getter of the localities of y writes for a segment.
IdCell(y, s) == Cell(IdBits(Len(y)), IdBits(Len(conf.id_bits)) - IdBits(Len(y)),
                     indexForId(s.index))

\* It is the identifier of the levels of y, which tells which indexes match y.
LEMMA IdCells ==
    ASSUME TableInv, AllFit, NEW y \in Targets \cup Clusters, NEW s \in Range(segs)
    PROVE  /\ IdBits(Len(y)) \in Nat /\ 2^IdBits(Len(y)) \in Nat \ {0}
           /\ IdCell(y, s) \in 0 .. 2^IdBits(Len(y)) - 1
           /\ IdCell(y, s) = indexForId(s.index)
                               \div 2^(IdBits(Len(conf.id_bits)) - IdBits(Len(y)))
           /\ \A t \in Range(segs) : IdCell(y, t) = IdCell(y, s) =>
                 (idMatches(s.index, y) <=> idMatches(t.index, y))
  <1> DEFINE m == Len(y)
             D == 2^(IdBits(Len(conf.id_bits)) - IdBits(m))
             U == 2^IdBits(m)
  <1>1. y \in Seq(Nat) /\ m \in 0 .. Levels /\ Levels \in Nat
    BY LevelShape
  <1>2. ASSUME NEW t \in Range(segs)
        PROVE  \E f : /\ IsId(t.index, f) /\ f[m] = IdCell(y, t) /\ f[m] \in Nat /\ f[m] < U
                      /\ f[m] = indexForId(t.index) \div D
                      /\ IdBits(m) \in Nat /\ U \in Nat \ {0}
    <2>1. Fits(t.index) /\ Len(t.index) = Levels /\ Len(conf.id_bits) = Levels
      BY TargetFits DEF Fits
    <2>2. PICK f : IsId(t.index, f) /\ indexForId(t.index) = f[Levels]
      BY <2>1, IdRuns
    <2>3. f[m] \in Nat /\ IdBits(m) \in Nat /\ f[m] < U
      BY <1>1, <2>1, <2>2, IdBound
    <2>4. f[Levels] \div D = f[m]
      BY <1>1, <2>1, <2>2, IdTop
    <2>5. U \in Nat \ {0}
      BY <2>3, PowerType
    <2>6. IdCell(y, t) = (f[Levels] \div D) % U
      BY <2>1, <2>2 DEF IdCell, Cell
    <2> HIDE DEF D, U
    <2>7. f[m] % U = f[m]
      BY <2>3, <2>5
    <2> QED BY <2>2, <2>3, <2>4, <2>5, <2>6, <2>7
  <1>3. ASSUME NEW t \in Range(segs), IdCell(y, t) = IdCell(y, s)
        PROVE  idMatches(s.index, y) <=> idMatches(t.index, y)
    <2>1. PICK f : IsId(s.index, f) /\ f[m] = IdCell(y, s)
      BY <1>2
    <2>2. PICK g : IsId(t.index, g) /\ g[m] = IdCell(y, t)
      BY <1>2
    <2>3. /\ Fits(s.index) /\ Len(s.index) = Levels
          /\ Fits(t.index) /\ Len(t.index) = Levels
      BY TargetFits
    <2>4. \A i \in 1 .. m : s.index[i] = t.index[i]
      BY <1>1, <1>3, <2>1, <2>2, <2>3, IdInjective
    <2>5. Shorter(s.index, y) = m /\ Shorter(t.index, y) = m
      BY <1>1, <2>3 DEF Shorter
    <2> QED BY <2>4, <2>5 DEF idMatches
  <1>4. /\ IdBits(m) \in Nat /\ U \in Nat \ {0} /\ IdCell(y, s) \in Nat /\ IdCell(y, s) < U
        /\ IdCell(y, s) = indexForId(s.index) \div D
    BY <1>2
  <1>5. IdCell(y, s) \in 0 .. U - 1
    <2> HIDE DEF U
    <2> QED BY <1>4
  <1> QED BY <1>3, <1>4, <1>5

\* The locality of the identifiers.
LEMMA IdLocality ==
    ASSUME TableInv, AllFit, NEW y \in Targets \cup Clusters, NEW t \in Range(segs)
    PROVE  /\ getIdLocalityTable(y) # NoTable
           /\ getIdLocalityTable(y)[IdCell(y, t)] <=> idMatches(t.index, y)
  <1> DEFINE Writes == {<<IdCell(y, s), idMatches(s.index, y)>> : s \in Range(segs)}
             C == 0 .. 2^IdBits(Len(y)) - 1
             table == [c \in C |-> <<c, FALSE>> \notin Writes]
  <1>1. \A s \in Range(segs) : Len(s.index) = Len(conf.id_bits)
    BY TargetFits DEF Fits
  <1>2. \A v \in Writes : \E s \in Range(segs) : v = <<IdCell(y, s), idMatches(s.index, y)>>
    OBVIOUS
  <1>3. \A s \in Range(segs) : <<IdCell(y, s), idMatches(s.index, y)>> \in Writes
    OBVIOUS
  <1>4. getIdLocalityTable(y) =
           IF \/ \E s \in Range(segs) : Len(s.index) # Len(conf.id_bits)
              \/ \E v, w \in Writes : v[1] = w[1] /\ v[2] # w[2]
           THEN NoTable ELSE table
    BY DEF getIdLocalityTable, IdCell
  <1>5. IdCell(y, t) \in C /\ 0 \in C
    <2>1. 2^IdBits(Len(y)) \in Nat \ {0} /\ IdCell(y, t) \in C
      BY IdCells
    <2> QED BY <2>1
  <1>6. DOMAIN table = C /\ table[IdCell(y, t)] = (<<IdCell(y, t), FALSE>> \notin Writes)
    BY Zenon, <1>5
  <1>7. ASSUME NEW s \in Range(segs), NEW r \in Range(segs), IdCell(y, r) = IdCell(y, s)
        PROVE  idMatches(s.index, y) <=> idMatches(r.index, y)
    BY <1>7, IdCells
  <1> HIDE DEF C, table, Writes
  <1>8. ASSUME NEW v \in Writes, NEW w \in Writes, v[1] = w[1] PROVE v[2] = w[2]
    <2>1. PICK s \in Range(segs) : v = <<IdCell(y, s), idMatches(s.index, y)>>
      BY <1>2
    <2>2. PICK r \in Range(segs) : w = <<IdCell(y, r), idMatches(r.index, y)>>
      BY <1>2
    <2>3. IdCell(y, s) = IdCell(y, r)
      BY <1>8, <2>1, <2>2
    <2>4. idMatches(s.index, y) = idMatches(r.index, y)
      <3>1. idMatches(s.index, y) <=> idMatches(r.index, y)
        BY <1>7, <2>3
      <3> QED BY <3>1 DEF idMatches
    <2> QED BY <2>1, <2>2, <2>4
  <1>9. getIdLocalityTable(y) = table
    BY <1>1, <1>4, <1>8
  <1>10. table # NoTable
    <2>1. DOMAIN NoTable = {}
      BY DEF NoTable
    <2> QED BY <1>5, <1>6, <2>1
  <1>11. <<IdCell(y, t), FALSE>> \in Writes <=> ~ idMatches(t.index, y)
    <2>1. ASSUME ~ idMatches(t.index, y) PROVE <<IdCell(y, t), FALSE>> \in Writes
      <3>1. idMatches(t.index, y) = FALSE
        BY <2>1 DEF idMatches
      <3> QED BY Zenon, <1>3, <3>1
    <2>2. ASSUME <<IdCell(y, t), FALSE>> \in Writes PROVE ~ idMatches(t.index, y)
      <3>1. PICK s \in Range(segs) :
               <<IdCell(y, t), FALSE>> = <<IdCell(y, s), idMatches(s.index, y)>>
        BY Zenon, <1>2, <2>2
      <3>2. IdCell(y, t) = IdCell(y, s) /\ ~ idMatches(s.index, y)
        BY Zenon, <3>1
      <3> QED BY <1>7, <3>2
    <2> QED BY <2>1, <2>2
  <1> QED BY Zenon, <1>6, <1>9, <1>10, <1>11

\* IdentifiesTarget is an invariant: getIdMaskingTable takes the identifier that
\* IntTab::operator* makes apart again, and getIdLocalityTable tells its
\* clusters.
THEOREM Identification == TableSpec => []IdentifiesTarget
  <1>1. ASSUME TableInv, AllFit, NEW x \in Targets
        PROVE  /\ \A l \in DOMAIN x : IdField(l, indexForId(x)) = x[l]
               /\ \A y \in Targets \cup Clusters :
                     /\ getIdLocalityTable(y) # NoTable
                     /\ getIdLocalityTable(y)[indexForId(x) \div
                             2^(IdBits(Len(conf.id_bits)) - IdBits(Len(y)))]
                          <=> idMatches(x, y)
    <2>1. PICK t \in Range(segs) : x = t.index
      BY DEF Targets
    <2>2. Fits(x) /\ Len(x) = Len(conf.id_bits) /\ DOMAIN x = 1 .. Len(x) /\ Len(x) \in Nat
      BY <1>1, <2>1, TargetFits DEF Fits
    <2>3. ASSUME NEW l \in 1 .. Len(x) PROVE IdField(l, indexForId(x)) = x[l]
      <3>1. PICK f : IsId(x, f) /\ indexForId(x) = f[Len(x)]
        BY <2>2, IdRuns
      <3>2. l \in 0 .. Len(x)
        BY <2>2
      <3>3. f[Len(x)] \div 2^(IdBits(Len(x)) - IdBits(l)) = f[l]
        BY <2>2, <3>1, <3>2, IdTop
      <3>4. x[l] = f[l] % 2^conf.id_bits[l]
        BY <2>2, <3>1, IdDigit
      <3>5. IdField(l, indexForId(x))
              = (f[Len(x)] \div 2^(IdBits(Len(x)) - IdBits(l))) % 2^conf.id_bits[l]
        BY <2>2, <3>1 DEF IdField, Cell
      <3> QED BY <3>3, <3>4, <3>5
    <2>4. ASSUME NEW y \in Targets \cup Clusters
          PROVE  /\ getIdLocalityTable(y) # NoTable
                 /\ getIdLocalityTable(y)[indexForId(x) \div
                         2^(IdBits(Len(conf.id_bits)) - IdBits(Len(y)))]
                      <=> idMatches(x, y)
      <3>1. IdCell(y, t) = indexForId(x) \div 2^(IdBits(Len(conf.id_bits)) - IdBits(Len(y)))
        BY <1>1, <2>1, IdCells
      <3>2. /\ getIdLocalityTable(y) # NoTable
            /\ getIdLocalityTable(y)[IdCell(y, t)] <=> idMatches(t.index, y)
        BY <1>1, IdLocality
      <3> QED BY <2>1, <3>1, <3>2
    <2> QED BY <2>2, <2>3, <2>4
  <1>2. TableInv => IdentifiesTarget
    BY <1>1 DEF IdentifiesTarget, AllFit
  <1> QED BY <1>2, TableInvariance, PTL

=============================================================================
