----------------------------- MODULE TaskVectors -----------------------------
(***************************************************************************)
(* The tasks of tasks.py without a reference design: what a task sets and  *)
(* the words its vector sets are made of.                                  *)
(*                                                                         *)
(* A word is the tuple of what it packs: arrays are sequences of digits,   *)
(* a graph is its set of edges, its nodes numbered from 0.                 *)
(***************************************************************************)
EXTENDS Integers, SequencesExt, FiniteSetsExt

Nibble == 0 .. 15
Byte   == 0 .. 255

\* v repeated n times, and what the packers do to their digits.
Repeated(v, n) == [i \in 1 .. n |-> v]
Masked(digits, width) == [i \in DOMAIN digits |-> digits[i] % 2 ^ width]
Nibbles(digits) == Masked(digits, 4)
Bytes(digits)   == Masked(digits, 8)

Sorted(a) == \A i, j \in DOMAIN a : i < j => a[i] <= a[j]

-----------------------------------------------------------------------------
GRAPH_REACH_4 == [random |-> 22, out_bits |-> 1, baseline_cycles |-> 384, max_cycles_per_case |-> 128]
GRAPH_TRIANGLE_5 == [random |-> 25, out_bits |-> 4, baseline_cycles |-> 300, max_cycles_per_case |-> 96]
GRAPH_BIPARTITE_6 == [random |-> 24, out_bits |-> 1, baseline_cycles |-> 600, max_cycles_per_case |-> 256]
BINSEARCH_8X4 == [random |-> 22, out_bits |-> 4, baseline_cycles |-> 240, max_cycles_per_case |-> 64]
KTH_SMALLEST_4X8 == [random |-> 20, out_bits |-> 8, baseline_cycles |-> 200, max_cycles_per_case |-> 96]
ARGMAX_8X8 == [random |-> 20, out_bits |-> 3, baseline_cycles |-> 192, max_cycles_per_case |-> 64]
HEAP_CHECK_7 == [random |-> 22, out_bits |-> 1, baseline_cycles |-> 140, max_cycles_per_case |-> 64]
LL_TRAVERSE_4 == [random |-> 23, out_bits |-> 4, baseline_cycles |-> 160, max_cycles_per_case |-> 64]
MERGE_2X4 == [random |-> 23, out_bits |-> 32, baseline_cycles |-> 320, max_cycles_per_case |-> 96]
PRIME_CHECK_U8 == [random |-> 20, out_bits |-> 1, baseline_cycles |-> 480, max_cycles_per_case |-> 256]
MODEXP_SMALL == [random |-> 20, out_bits |-> 5, baseline_cycles |-> 240, max_cycles_per_case |-> 128]
SEQ_DETECT_1011 == [random |-> 22, out_bits |-> 4, baseline_cycles |-> 180, max_cycles_per_case |-> 64]
PALINDROME_8N == [random |-> 24, out_bits |-> 1, baseline_cycles |-> 120, max_cycles_per_case |-> 32]
SUBSET_SUM_4X6 == [random |-> 21, out_bits |-> 1, baseline_cycles |-> 320, max_cycles_per_case |-> 128]
INVERSION_4X4 == [random |-> 22, out_bits |-> 3, baseline_cycles |-> 144, max_cycles_per_case |-> 64]
HISTOGRAM_4BIN == [random |-> 23, out_bits |-> 16, baseline_cycles |-> 260, max_cycles_per_case |-> 96]
ARGMAX_ARGMIN_4X8 == [random |-> 23, out_bits |-> 4, baseline_cycles |-> 120, max_cycles_per_case |-> 64]
STREAM_PACKET_FSM == [random |-> 24, out_bits |-> 64, baseline_cycles |-> 120, max_cycles_per_case |-> 256]
\* Faulty variant: no room for the index 4 of "no request".
WEIGHTED_SCHEDULER_2 == [random |-> 24, out_bits |-> 2, baseline_cycles |-> 130, max_cycles_per_case |-> 64]
WEIGHTED_SCHEDULER == [random |-> 24, out_bits |-> 3, baseline_cycles |-> 130, max_cycles_per_case |-> 64]
SLIDING_WINDOW_MAX_4 == [random |-> 25, out_bits |-> 32, baseline_cycles |-> 150, max_cycles_per_case |-> 128]
LRU_CACHE_4 == [random |-> 24, out_bits |-> 4, baseline_cycles |-> 160, max_cycles_per_case |-> 128]
PIPELINE_HAZARD_3 == [random |-> 25, out_bits |-> 2, baseline_cycles |-> 140, max_cycles_per_case |-> 64]

TASK_REGISTRY ==
  [graph_reach_4 |-> GRAPH_REACH_4, graph_triangle_5 |-> GRAPH_TRIANGLE_5,
   graph_bipartite_6 |-> GRAPH_BIPARTITE_6, binsearch_8x4 |-> BINSEARCH_8X4,
   kth_smallest_4x8 |-> KTH_SMALLEST_4X8, argmax_8x8 |-> ARGMAX_8X8,
   heap_check_7 |-> HEAP_CHECK_7, ll_traverse_4 |-> LL_TRAVERSE_4, merge_2x4 |-> MERGE_2X4,
   prime_check_u8 |-> PRIME_CHECK_U8, modexp_small |-> MODEXP_SMALL,
   seq_detect_1011 |-> SEQ_DETECT_1011, palindrome_8n |-> PALINDROME_8N,
   subset_sum_4x6 |-> SUBSET_SUM_4X6, inversion_4x4 |-> INVERSION_4X4,
   histogram_4bin |-> HISTOGRAM_4BIN, argmax_argmin_4x8 |-> ARGMAX_ARGMIN_4X8,
   stream_packet_fsm |-> STREAM_PACKET_FSM, weighted_scheduler |-> WEIGHTED_SCHEDULER,
   sliding_window_max_4 |-> SLIDING_WINDOW_MAX_4, lru_cache_4 |-> LRU_CACHE_4,
   pipeline_hazard_3 |-> PIPELINE_HAZARD_3]

-----------------------------------------------------------------------------
(***************************************************************************)
(* Graphs.  The word of an undirected one has a bit for each pair of       *)
(* nodes, in the order of EdgePairs; Graph is the one with those bits set. *)
(***************************************************************************)
EdgePairs(n) ==
  FlattenSeq([u \in 1 .. n - 1 |-> [k \in 1 .. n - u |-> <<u - 1, u + k - 1>>]])
Graph(bits, n) == LET pairs == EdgePairs(n) IN {pairs[i + 1] : i \in bits}

Complete(n) == Graph(0 .. (n * (n - 1)) \div 2 - 1, n)
Star(n)     == {<<0, v>> : v \in 1 .. n - 1}

\* <<edges, src, tgt>>
GraphReach4Corners ==
  LET all == (0 .. 3) \X (0 .. 3)
      chain == {<<0, 1>>, <<1, 2>>, <<2, 3>>}
  IN  <<<<{}, 0, 0>>, <<{}, 0, 1>>, <<all, 0, 0>>, <<all, 3, 1>>, <<{<<0, 1>>}, 1, 0>>,
        <<{<<0, 1>>}, 0, 1>>, <<chain, 0, 3>>, <<chain, 3, 0>>, <<{<<0, 0>>}, 0, 0>>>>

GraphTriangle5Corners ==
  <<{}, Complete(5), Graph({0, 1, 2}, 5), Graph({3}, 5), Graph({4, 7, 8, 9}, 5)>>

GraphBipartite6Corners ==
  <<{}, Complete(6), {<<0, 1>>, <<1, 2>>, <<0, 2>>}, {<<0, 1>>, <<1, 2>>, <<2, 3>>, <<0, 3>>},
    {<<0, 1>>, <<1, 2>>, <<2, 3>>, <<3, 4>>, <<0, 4>>}, Star(6)>>

-----------------------------------------------------------------------------
\* Search, selection, data structures.
\* <<arr, target>>
PackBinsearch(arr, target) == <<Nibbles(arr), target % 16>>
Binsearch8x4Corners ==
  <<PackBinsearch(Repeated(0, 8), 0), PackBinsearch(Repeated(0, 8), 5),
    PackBinsearch(Repeated(15, 8), 15), PackBinsearch(<<0, 1, 2, 3, 4, 5, 6, 7>>, 0),
    PackBinsearch(<<0, 1, 2, 3, 4, 5, 6, 7>>, 7), PackBinsearch(<<0, 1, 2, 3, 4, 5, 6, 7>>, 8),
    PackBinsearch(<<0, 0, 1, 1, 2, 2, 3, 3>>, 2), PackBinsearch(<<2, 4, 6, 8, 10, 12, 14, 15>>, 9)>>

\* <<vals, k>>
PackKth(vals, k) == <<Bytes(vals), k % 4>>
KthSmallestCorners ==
  <<PackKth(Repeated(0, 4), 0), PackKth(Repeated(0, 4), 3), PackKth(Repeated(255, 4), 0),
    PackKth(<<1, 2, 3, 4>>, 0), PackKth(<<1, 2, 3, 4>>, 1), PackKth(<<1, 2, 3, 4>>, 2),
    PackKth(<<1, 2, 3, 4>>, 3), PackKth(<<4, 3, 2, 1>>, 2), PackKth(<<7, 7, 3, 3>>, 1),
    PackKth(<<7, 7, 3, 3>>, 2)>>

Argmax8x8Corners ==
  <<Repeated(0, 8), Repeated(255, 8)>>
  \o [pos \in 1 .. 8 |-> [Repeated(0, 8) EXCEPT ![pos] = 255]]
  \o <<[i \in 1 .. 8 |-> i], [i \in 1 .. 8 |-> 9 - i]>>

HeapCheck7Corners ==
  <<Nibbles(Repeated(0, 7)), Nibbles(<<0, 1, 2, 3, 4, 5, 6>>), Nibbles(<<1, 2, 3, 4, 5, 6, 7>>),
    Nibbles(<<6, 5, 4, 3, 2, 1, 0>>), Nibbles(<<1, 3, 2, 5, 4, 7, 6>>),
    Nibbles(<<1, 2, 3, 4, 5, 6, 0>>), Nibbles(<<0, 1, 2, 3, 4, 5, 1>>), Nibbles(Repeated(15, 7))>>

\* <<values, next nodes, steps>>
PackLl(nodes, steps) ==
  <<[i \in 1 .. 4 |-> nodes[i][1] % 16], [i \in 1 .. 4 |-> nodes[i][2] % 4], steps % 4>>
LlTraverseCorners ==
  LET ring == <<<<5, 1>>, <<6, 2>>, <<7, 3>>, <<8, 0>>>> IN
  <<PackLl(ring, 0), PackLl(ring, 1), PackLl(ring, 2), PackLl(ring, 3),
    PackLl(<<<<9, 0>>, <<0, 0>>, <<0, 0>>, <<0, 0>>>>, 3),
    PackLl(<<<<1, 2>>, <<0, 0>>, <<3, 0>>, <<0, 0>>>>, 2),
    PackLl(<<<<15, 3>>, <<0, 0>>, <<0, 0>>, <<10, 3>>>>, 2)>>

\* <<a, b>>
PackMerge(a, b) == <<Nibbles(a), Nibbles(b)>>
Merge2x4Corners ==
  <<PackMerge(Repeated(0, 4), Repeated(0, 4)), PackMerge(Repeated(15, 4), Repeated(15, 4)),
    PackMerge(<<0, 1, 2, 3>>, <<4, 5, 6, 7>>), PackMerge(<<4, 5, 6, 7>>, <<0, 1, 2, 3>>),
    PackMerge(<<1, 3, 5, 7>>, <<2, 4, 6, 8>>), PackMerge(Repeated(0, 4), <<1, 2, 3, 4>>),
    PackMerge(Repeated(2, 4), Repeated(2, 4))>>

-----------------------------------------------------------------------------
\* Number theory, sequences, combinatorics, aggregates.
PrimeU8Corners ==
  <<0, 1, 2, 3, 5, 7, 11, 13, 4, 6, 8, 9, 15, 25, 27, 127, 128, 251, 253, 255>>

\* <<a, b, n>>
PackModexp(a, b, n) == <<a % 16, b % 16, n % 32>>
ModexpCorners ==
  <<PackModexp(0, 0, 7), PackModexp(0, 5, 7), PackModexp(5, 0, 7), PackModexp(1, 15, 31),
    PackModexp(2, 10, 31), PackModexp(3, 3, 5), PackModexp(15, 15, 31), PackModexp(4, 6, 1),
    PackModexp(7, 4, 13), PackModexp(2, 7, 11)>>

\* The bits of a 16-bit stream, least significant first; 45056 is 0xB000.
Stream16(n) == [i \in 1 .. 16 |-> (n \div 2 ^ (i - 1)) % 2]
SeqCount1011Corners ==
  <<Stream16(0), Stream16(65535), Stream16(11), Stream16(45056), Stream16(48059),
    Stream16(3003), Stream16(4113), Stream16(21845)>>

PalindromeCorners ==
  <<Nibbles(Repeated(0, 8)), Nibbles(Repeated(15, 8)), Nibbles(<<1, 2, 3, 4, 4, 3, 2, 1>>),
    Nibbles(<<1, 2, 3, 4, 5, 6, 7, 8>>), Nibbles(<<1, 2, 3, 4, 4, 3, 2, 2>>),
    Nibbles(<<10, 11, 10, 11, 11, 10, 11, 10>>)>>

\* <<vals, target>>
PackSubset(vals, target) == <<Masked(vals, 6), target % 256>>
SubsetSumCorners ==
  <<PackSubset(Repeated(0, 4), 0), PackSubset(<<1, 2, 3, 4>>, 0), PackSubset(<<1, 2, 3, 4>>, 10),
    PackSubset(<<1, 2, 3, 4>>, 11), PackSubset(<<5, 10, 15, 20>>, 25),
    PackSubset(<<5, 10, 15, 20>>, 26), PackSubset(Repeated(63, 4), 252),
    PackSubset(Repeated(63, 4), 253), PackSubset(Repeated(1, 4), 2)>>

InversionCorners ==
  <<Nibbles(Repeated(0, 4)), Nibbles(<<1, 2, 3, 4>>), Nibbles(<<4, 3, 2, 1>>),
    Nibbles(<<2, 1, 4, 3>>), Nibbles(<<1, 3, 2, 4>>), Nibbles(<<15, 0, 15, 0>>),
    Nibbles(Repeated(3, 4)), Nibbles(<<15, 15, 0, 0>>)>>

HistogramCorners ==
  <<Nibbles(Repeated(0, 8)), Nibbles(Repeated(15, 8)), Nibbles(<<0, 1, 2, 3, 4, 5, 6, 7>>),
    Nibbles(<<0, 3, 4, 7, 8, 11, 12, 15>>), Nibbles(<<0, 4, 8, 12, 0, 4, 8, 12>>),
    Nibbles(Repeated(3, 8)), Nibbles(Repeated(4, 8))>>

ArgmaxArgminCorners ==
  <<Bytes(Repeated(0, 4)), Bytes(Repeated(255, 4)), Bytes(<<1, 2, 3, 4>>), Bytes(<<4, 3, 2, 1>>),
    Bytes(<<100, 200, 50, 150>>), Bytes(<<0, 100, 0, 100>>), Bytes(<<255, 0, 255, 0>>)>>

-----------------------------------------------------------------------------
\* State machines and microarchitecture; 170 is 0xAA.
StreamPacketCorners ==
  <<Bytes(<<170, 1, 85, 0, 0, 0, 0, 0>>), Bytes(<<0, 170, 2, 17, 34, 0, 0, 0>>),
    Bytes(<<170, 3, 17, 34, 51, 170, 1, 68>>), Bytes(<<170, 0, 170, 1, 153, 0, 0, 0>>),
    Bytes(<<17, 34, 51, 68, 85, 102, 119, 136>>), Bytes(<<170, 8, 17, 34, 51, 68, 85, 102>>)>>

\* <<the requesters, weights, last served>>
PackScheduler(req, weights, ptr) == <<req, Nibbles(weights), ptr % 4>>
WeightedSchedulerCorners ==
  <<PackScheduler({}, Repeated(0, 4), 0), PackScheduler(0 .. 3, <<5, 10, 15, 5>>, 0),
    PackScheduler({0, 2}, <<8, 0, 8, 0>>, 0), PackScheduler({0, 2}, <<8, 0, 8, 0>>, 2),
    PackScheduler({0, 2}, <<8, 0, 8, 0>>, 1), PackScheduler(0 .. 3, Repeated(7, 4), 3)>>

SlidingWindowCorners ==
  <<Nibbles(Repeated(0, 8)), Nibbles(<<1, 2, 3, 4, 5, 6, 7, 8>>),
    Nibbles(<<8, 7, 6, 5, 4, 3, 2, 1>>), Nibbles(<<15, 0, 0, 0, 0, 0, 0, 0>>),
    Nibbles(<<0, 15, 0, 0, 0, 15, 0, 0>>)>>

LruCacheCorners ==
  <<Nibbles(<<0, 1, 2, 3>>), Nibbles(<<4, 5, 6, 7>>), Nibbles(<<0, 4, 0, 4>>),
    Nibbles(<<3, 2, 1, 0>>), Nibbles(<<0, 0, 0, 0>>), Nibbles(<<8, 8, 8, 8>>)>>

\* Three instructions <<valid, rd, rs1, rs2>>
PackInst(v, rd, rs1, rs2) == <<v % 2, rd % 8, rs1 % 8, rs2 % 8>>
PipelineHazardCorners ==
  <<<<PackInst(1, 1, 2, 3), PackInst(1, 4, 1, 5), PackInst(1, 6, 4, 1)>>,
    <<PackInst(1, 1, 2, 3), PackInst(1, 4, 2, 3), PackInst(1, 5, 6, 7)>>,
    <<PackInst(1, 0, 2, 3), PackInst(1, 4, 0, 5), PackInst(1, 5, 0, 0)>>,
    <<PackInst(1, 1, 2, 3), PackInst(0, 4, 1, 5), PackInst(1, 6, 1, 7)>>,
    <<PackInst(1, 2, 1, 1), PackInst(1, 3, 2, 2), PackInst(1, 4, 3, 3)>>>>

-----------------------------------------------------------------------------
CornerWords ==
  [graph_reach_4 |-> GraphReach4Corners, graph_triangle_5 |-> GraphTriangle5Corners,
   graph_bipartite_6 |-> GraphBipartite6Corners, binsearch_8x4 |-> Binsearch8x4Corners,
   kth_smallest_4x8 |-> KthSmallestCorners, argmax_8x8 |-> Argmax8x8Corners,
   heap_check_7 |-> HeapCheck7Corners, ll_traverse_4 |-> LlTraverseCorners,
   merge_2x4 |-> Merge2x4Corners, prime_check_u8 |-> PrimeU8Corners,
   modexp_small |-> ModexpCorners, seq_detect_1011 |-> SeqCount1011Corners,
   palindrome_8n |-> PalindromeCorners, subset_sum_4x6 |-> SubsetSumCorners,
   inversion_4x4 |-> InversionCorners, histogram_4bin |-> HistogramCorners,
   argmax_argmin_4x8 |-> ArgmaxArgminCorners, stream_packet_fsm |-> StreamPacketCorners,
   weighted_scheduler |-> WeightedSchedulerCorners, sliding_window_max_4 |-> SlidingWindowCorners,
   lru_cache_4 |-> LruCacheCorners, pipeline_hazard_3 |-> PipelineHazardCorners]

\* The length of the vector set of a seed.
Cases(task) == Len(CornerWords[task]) + TASK_REGISTRY[task].random

Undirected(n) == SUBSET {e \in (0 .. n - 1) \X (0 .. n - 1) : e[1] < e[2]}
Ascending(n)  == {a \in [1 .. n -> Nibble] : Sorted(a)}
Total(vals)   == FoldLeft(LAMBDA sum, v : sum + v, 0, vals)

\* What the generators draw: any word of the layout, but arrays that the
\* prompt calls sorted are, and no modulus is 0.
RandomWords(task) ==
  CASE task = "graph_reach_4"     -> (SUBSET ((0 .. 3) \X (0 .. 3))) \X (0 .. 3) \X (0 .. 3)
    [] task = "graph_triangle_5"  -> Undirected(5)
    [] task = "graph_bipartite_6" -> Undirected(6)
    [] task = "binsearch_8x4"     -> Ascending(8) \X Nibble
    [] task = "kth_smallest_4x8"  -> [1 .. 4 -> Byte] \X (0 .. 3)
    [] task = "argmax_8x8"        -> [1 .. 8 -> Byte]
    [] task = "heap_check_7"      -> [1 .. 7 -> Nibble]
    [] task = "ll_traverse_4"     -> [1 .. 4 -> Nibble] \X [1 .. 4 -> 0 .. 3] \X (0 .. 3)
    [] task = "merge_2x4"         -> Ascending(4) \X Ascending(4)
    [] task = "prime_check_u8"    -> Byte
    [] task = "modexp_small"      -> Nibble \X Nibble \X (1 .. 31)
    [] task = "seq_detect_1011"   -> [1 .. 16 -> {0, 1}]
    [] task \in {"palindrome_8n", "histogram_4bin", "sliding_window_max_4"} -> [1 .. 8 -> Nibble]
    [] task = "subset_sum_4x6"    ->
         {w \in [1 .. 4 -> 0 .. 63] \X Byte : w[2] <= Total(w[1]) + 4}
    [] task \in {"inversion_4x4", "lru_cache_4"} -> [1 .. 4 -> Nibble]
    [] task = "argmax_argmin_4x8" -> [1 .. 4 -> Byte]
    [] task = "stream_packet_fsm" -> [1 .. 8 -> Byte]
    [] task = "weighted_scheduler" -> (SUBSET (0 .. 3)) \X [1 .. 4 -> Nibble] \X (0 .. 3)
    [] task = "pipeline_hazard_3" -> [1 .. 3 -> {0, 1} \X (0 .. 7) \X (0 .. 7) \X (0 .. 7)]
=============================================================================
