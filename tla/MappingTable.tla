---------------------------- MODULE MappingTable ----------------------------
(***************************************************************************)
(* The mapping table of the TP2 platforms (mapping_table.cpp, with segment,*)
(* int_tab, address_decoding_table and address_masking_table): the         *)
(* segments of the address space, added one by one, and the tables the     *)
(* components derive from them to decode an address.                       *)
(*                                                                         *)
(* An address is a number below 2^AddrWidth, which is the width of the     *)
(* type of addresses as well (32 bits, the Makefile says -m32): the sum of *)
(* a base and a size wraps, and is 0 for a segment that ends at the top.   *)
(* A decoding table is a function from the value of the address bits it    *)
(* uses, or NoTable.  The parameters of the constructor are in conf.       *)
(***************************************************************************)
EXTENDS Integers, Sequences, FiniteSetsExt

CONSTANTS AddrWidth,    \* m_addr_width
          Confs,        \* parameters of the constructor, see Conf
          Segments,     \* segments the platform may try to add
          MaxSegments   \* bound on the length of m_segment_list

Addr == 0 .. 2^AddrWidth - 1

\* m_level_addr_bits, m_level_id_bits and the cacheability mask, which has
\* use ones followed by drop zeros (any other mask fails an assertion).
Conf == [addr_bits : Seq(Nat), id_bits : Seq(Nat), use : Nat \ {0}, drop : Nat]

\* IntTab::sum: the widths of the first levels.
SumBits(bits, level) ==
    LET sum[l \in 0 .. level] == IF l = 0 THEN 0 ELSE sum[l - 1] + bits[l]
    IN  sum[level]

ASSUME TableAssumption ==
    /\ AddrWidth \in Nat
    /\ MaxSegments \in Nat
    /\ \A c \in Confs : /\ c \in Conf
                        /\ c.use + c.drop =< AddrWidth
                        /\ SumBits(c.addr_bits, Len(c.addr_bits)) =< AddrWidth
    /\ \A s \in Segments : /\ s.base \in Addr /\ s.size \in Nat \ {0}
                            /\ s.base + s.size =< 2^AddrWidth
                            /\ s.cacheable \in BOOLEAN /\ s.index \in Seq(Nat)

VARIABLES conf,         \* the parameters of the constructor
          rt_size,      \* m_rt_size, the step of the loops over addresses
          segs,         \* m_segment_list
          last          \* the last call of add: its argument and its outcome

tablevars == <<conf, rt_size, segs, last>>

\* The construction throws or does not end: a function with no cell, which no
\* table is.
NoTable == <<>>

-----------------------------------------------------------------------------
(* IntTab, Segment and AddressDecodingTable *)

Shorter(x, y) == IF Len(x) < Len(y) THEN Len(x) ELSE Len(y)

idMatches(x, y) == \A l \in 1 .. Shorter(x, y) : x[l] = y[l]

\* IntTab::operator*, the identifier made of an index.
indexForId(x) ==
    LET id[l \in 0 .. Len(x)] == IF l = 0 THEN 0 ELSE id[l - 1] * 2^conf.id_bits[l] + x[l]
    IN  id[Len(x)]

\* The sum of the base and the size, which wraps.
End(s) == (s.base + s.size) % 2^AddrWidth

\* Faulty variant: the end of a segment taken for its last address.
overlapsOrTouches(s, o) == ~ (End(o) < s.base) /\ ~ (End(s) < o.base)

isOverlapping(s, o) == ~ (End(o) =< s.base) /\ ~ (End(s) =< o.base)

\* AddressDecodingTable::id.
Cell(use, drop, a) == (a \div 2^drop) % 2^use

-----------------------------------------------------------------------------
(* The loop over the addresses of a segment *)

Levels == Len(conf.addr_bits)

\* Faulty variant: the loop starts at the base address.
VisitedFromBase(s) ==
    {a \in Addr : a >= s.base /\ (a - s.base) % rt_size = 0 /\ a < End(s)}

\* The addresses at which the loops stop, from the base rounded down to a
\* multiple of m_rt_size: none in a segment that ends at the top.
Visited(s) ==
    {a \in Addr : a % rt_size = 0 /\ a >= s.base - (s.base % rt_size) /\ a < End(s)}

\* From the first multiple to the last one, the address wraps to 0 with both
\* conditions of the loop still true.
Endless(s) == s.base < rt_size /\ End(s) > 2^AddrWidth - rt_size

\* The table a getter builds: it writes val[s] at every address visited in a
\* segment s of its domain, and throws when a cell would get two values.  With
\* an endless loop it throws or never returns.
Table(use, drop, default, val) ==
    LET Writers(c) == {s \in DOMAIN val : \E a \in Visited(s) : Cell(use, drop, a) = c}
        In == [c \in 0 .. 2^use - 1 |-> {val[s] : s \in Writers(c)}]
    IN  IF \/ \E s \in DOMAIN val : Endless(s)
           \/ \E c \in DOMAIN In : \E v, w \in In[c] : v # w
        THEN NoTable
        ELSE [c \in DOMAIN In |-> IF In[c] = {} THEN default ELSE CHOOSE v \in In[c] : TRUE]

-----------------------------------------------------------------------------
\* Faulty variant: the loops step over the granularity of the routing alone.
RoutingSize(c) == 2^(AddrWidth - SumBits(c.addr_bits, Len(c.addr_bits)))

StepSize(c) ==
    LET rt == 2^(AddrWidth - SumBits(c.addr_bits, Len(c.addr_bits)))
        cm == 2^c.drop
    IN  IF cm < rt THEN cm ELSE rt

TableInit == /\ conf \in Confs
        /\ rt_size = StepSize(conf)
        /\ segs = <<>>
        /\ last = [outcome |-> "none"]

\* The test of add: the two segments have different cacheability and an
\* address with the same masked bits.
cacheabilityDiffers(s, o) ==
    /\ s.cacheable # o.cacheable
    /\ \E a \in Visited(s), b \in Visited(o) :
          Cell(conf.use, conf.drop, a) = Cell(conf.use, conf.drop, b)

\* What the loop of add does at an element of the list: it throws, does not
\* end, or goes on to the next one.
Verdict(s, seg) ==
    IF isOverlapping(s, seg) THEN "Collision"
    ELSE IF cacheabilityDiffers(s, seg) THEN "RunTimeError"
    ELSE IF Endless(s) \/ (Endless(seg) /\ Visited(s) # {}) THEN "hang"
    ELSE "ok"

Bumped(seg) == {i \in DOMAIN segs : Verdict(segs[i], seg) # "ok"}

Outcome(seg) == IF Len(seg.index) # Levels THEN "ValueError"
                ELSE IF Bumped(seg) = {} THEN "ok"
                ELSE Verdict(segs[Min(Bumped(seg))], seg)

add(seg) == /\ Len(segs) < MaxSegments
            /\ last.outcome # "hang"
            /\ segs' = IF Outcome(seg) = "ok" THEN Append(segs, seg) ELSE segs
            /\ last' = [outcome |-> Outcome(seg), seg |-> seg]
            /\ UNCHANGED <<conf, rt_size>>

TableNext == \E seg \in Segments : add(seg)

TableSpec == TableInit /\ [][TableNext]_tablevars

-----------------------------------------------------------------------------
(* The getters *)

getSegmentList(x) == {s \in Range(segs) : s.index = x}

getCacheabilityTable ==
    Table(conf.use, conf.drop, FALSE, [s \in Range(segs) |-> s.cacheable])

\* Bits of the levels above, and of the level that a prefix x of an index is at.
Before(x) == SumBits(conf.addr_bits, Len(x))
At(x) == conf.addr_bits[Len(x) + 1]

\* Faulty variant: the bits of the last level only.
LocalityOfLevel(x) ==
    LET bits == conf.addr_bits[Len(x)]
    IN  Table(Before(x), AddrWidth - bits, TRUE,
              [s \in Range(segs) |-> idMatches(s.index, x)])

getLocalityTable(x) ==
    Table(Before(x), AddrWidth - Before(x), TRUE,
          [s \in Range(segs) |-> idMatches(s.index, x)])

Routed(x) == {s \in Range(segs) : idMatches(s.index, x)}

getRoutingTable(x) ==
    Table(At(x), AddrWidth - At(x) - Before(x), 0,
          [s \in Routed(x) |-> s.index[Len(x) + 1]])

IdBits(l) == SumBits(conf.id_bits, l)

\* Faulty variant: the width of the levels above is dropped.
IdFieldAbove(l, id) == Cell(conf.id_bits[l], IdBits(l), id)

\* getIdMaskingTable: the part of an identifier that belongs to a level.
IdField(l, id) == Cell(conf.id_bits[l], IdBits(Len(conf.id_bits)) - IdBits(l), id)

getIdLocalityTable(x) ==
    LET use == IdBits(Len(x))
        Written(s) == <<Cell(use, IdBits(Len(conf.id_bits)) - use, indexForId(s.index)),
                        idMatches(s.index, x)>>
        Writes == {Written(s) : s \in Range(segs)}
    IN  IF \/ \E s \in Range(segs) : Len(s.index) # Len(conf.id_bits)
           \/ \E v, w \in Writes : v[1] = w[1] /\ v[2] # w[2]
        THEN NoTable
        ELSE [c \in 0 .. 2^use - 1 |-> <<c, FALSE>> \notin Writes]

-----------------------------------------------------------------------------
(* Properties *)

\* The addresses of a segment.
Contents(s) == {a \in Addr : s.base =< a /\ a < s.base + s.size}

\* The segments whose end the type of addresses can hold.  One that ends at
\* the top has the end 0: isOverlapping and the loops see no address of it.
Bounded(s) == s.base + s.size < 2^AddrWidth
Seen == {s \in Range(segs) : Bounded(s)}

Targets == {s.index : s \in Range(segs)}
Clusters == UNION {{SubSeq(x, 1, l) : l \in 0 .. Len(x) - 1} : x \in Targets}

\* The routing tables of all the interconnects, and what the one of the
\* prefix p answers for an address.
Tables == [p \in Clusters |-> getRoutingTable(p)]
RoutingCell(p, a) == Cell(At(p), AddrWidth - At(p) - Before(p), a)

\* The tables lead an address to x, level after level.
RoutedTo(tables, x, a) ==
    \A l \in 1 .. Len(x) :
        LET p == SubSeq(x, 1, l - 1) IN tables[p][RoutingCell(p, a)] = x[l]

\* No interconnect of the hierarchy fails to build its routing table.
Routable(tables) == \A p \in Clusters : tables[p] # NoTable

\* add accepts a segment when and only when it should, after any calls.  The
\* segments of the list have the level of the table and, but for those that
\* end at the top of the address space, share no address.  A refusal is due to
\* the level, to an address shared with a segment of the list, or to an address
\* with the same masked bits as one of a segment of the other cacheability,
\* however the loops round the bases and the sums wrap.
AddIsExact ==
    /\ \A s \in Range(segs) : Len(s.index) = Levels
    /\ \A i, j \in 1 .. Len(segs) :
          i # j /\ Bounded(segs[i]) /\ Bounded(segs[j])
              => Contents(segs[i]) \cap Contents(segs[j]) = {}
    /\ last.outcome = "ValueError" => Len(last.seg.index) # Levels
    /\ last.outcome = "Collision" =>
          \E s \in Range(segs) : Contents(s) \cap Contents(last.seg) # {}
    /\ last.outcome = "RunTimeError" =>
          \E s \in Range(segs) :
              /\ s.cacheable # last.seg.cacheable
              /\ \E a \in Contents(s), b \in Contents(last.seg) :
                    Cell(conf.use, conf.drop, a) = Cell(conf.use, conf.drop, b)

\* getCacheabilityTable never throws, because add has refused every segment
\* that would make it throw, and it gives every address of a segment that does
\* not end at the top the cacheability of its segment, though it writes one
\* address in m_rt_size.  Only an endless loop keeps it from returning.
CacheabilityCoherent ==
    LET table == getCacheabilityTable
    IN  (\A s \in Range(segs) : ~ Endless(s)) =>
            /\ table # NoTable
            /\ \A s \in Seen : \A a \in Contents(s) :
                  table[Cell(conf.use, conf.drop, a)] = s.cacheable

\* When the routing tables can be built, they lead every address of a segment
\* of getSegmentList(x) that does not end at the top to the target x, level
\* after level.  A table that cannot be built is the fault of the segments: the
\* loop over one is endless, or two of them have addresses with the same
\* routing bits and different targets; rounding the bases to m_rt_size never
\* makes the constructor throw.
RoutesToTarget ==
    LET tables == Tables
    IN  /\ Routable(tables) =>
              \A x \in Targets : \A s \in getSegmentList(x) \cap Seen :
                  \A a \in Contents(s) : RoutedTo(tables, x, a)
        /\ \A p \in Clusters : tables[p] = NoTable =>
              \/ \E s \in Range(segs) : Endless(s)
              \/ \E s, t \in Range(segs) :
                    /\ idMatches(s.index, p) /\ idMatches(t.index, p)
                    /\ s.index[Len(p) + 1] # t.index[Len(p) + 1]
                    /\ \E a \in Contents(s), b \in Contents(t) :
                          RoutingCell(p, a) = RoutingCell(p, b)

\* A platform whose routing tables can be built can build the locality tables
\* of all its clusters, and an address of a segment that does not end at the
\* top is local to a cluster when and only when the routing tables lead it
\* there.
LocalityAgrees ==
    LET tables == Tables
    IN  Routable(tables) =>
            \A x \in (Targets \cup Clusters) \ {<<>>} :
                LET local == getLocalityTable(x)
                IN  /\ local # NoTable
                    /\ \A s \in Seen : \A a \in Contents(s) :
                          local[Cell(Before(x), AddrWidth - Before(x), a)]
                            <=> RoutedTo(tables, x, a)

\* When the indexes fit the widths of the identifiers, the identifier of an
\* index gives back the index, level by level (getIdMaskingTable), and an
\* identifier is local to the clusters its index belongs to, and no other.
IdentifiesTarget ==
    (\A x \in Targets : /\ Len(x) = Len(conf.id_bits)
                        /\ \A l \in DOMAIN x : x[l] < 2^conf.id_bits[l])
    => \A x \in Targets :
          /\ \A l \in DOMAIN x : IdField(l, indexForId(x)) = x[l]
          /\ \A y \in Targets \cup Clusters :
                /\ getIdLocalityTable(y) # NoTable
                /\ getIdLocalityTable(y)[indexForId(x) \div
                        2^(IdBits(Len(conf.id_bits)) - IdBits(Len(y)))]
                     <=> idMatches(x, y)

=============================================================================
