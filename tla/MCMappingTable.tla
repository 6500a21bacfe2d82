--------------------------- MODULE MCMappingTable ---------------------------
(* A 3-bit address space with one or two levels of decoding. *)
EXTENDS MappingTable

\* The cacheability mask is finer than, equal to or coarser than the routing
\* bits, and does or does not hold the most significant bit (0x03000000 in
\* tp2_parallel_top.cpp does not, 0xFF000000 in tp3_top.cpp does).
MCConfs ==
    {[addr_bits |-> <<1, 1>>, id_bits |-> <<1, 1>>, use |-> 1, drop |-> 1],
     [addr_bits |-> <<1, 1>>, id_bits |-> <<1, 1>>, use |-> 2, drop |-> 0],
     [addr_bits |-> <<2>>, id_bits |-> <<1>>, use |-> 2, drop |-> 1],
     [addr_bits |-> <<2>>, id_bits |-> <<1>>, use |-> 1, drop |-> 2]}

MCIndexes == {<<0>>, <<1>>, <<0, 0>>, <<0, 1>>, <<1, 0>>}

\* Segments that end inside the address space, segments that end at its top,
\* and segments whose loops do not end.
MCSegments ==
    {s \in [base : Addr, size : {2, 3}, index : MCIndexes, cacheable : BOOLEAN] :
        s.base + s.size =< 2^AddrWidth}
    \cup [base : {1}, size : {6}, index : MCIndexes, cacheable : BOOLEAN]

=============================================================================
