------------------------------ MODULE MCOracles ------------------------------
EXTENDS Oracles

NoLoops == {e \in (0 .. 3) \X (0 .. 3) : e[1] # e[2]}

Rising(n, digits) == {a \in [1 .. n -> digits] : Sorted(a)}

Insts == {0, 1} \X {0, 3} \X {0, 3} \X {3, 5}

\* Every small graph, every number; elsewhere words of a few digits, the
\* largest one among them.
MCSmall(t) ==
  CASE t = "graph_reach_4"     -> {<<edges, 0, 3>> : edges \in SUBSET NoLoops}
    [] t = "graph_triangle_5"  -> Undirected(5)
    [] t = "graph_bipartite_6" -> UNION {kSubset(n, Complete(6)) : n \in {3, 4, 5}}
    [] t = "binsearch_8x4"     -> Rising(8, {0, 7, 15}) \X {0, 3, 7, 15}
    [] t = "kth_smallest_4x8"  -> [1 .. 4 -> {0, 1, 127, 255}] \X (0 .. 3)
    [] t = "argmax_8x8"        -> [1 .. 8 -> {0, 255}]
    [] t = "heap_check_7"      -> [1 .. 7 -> {0, 7, 15}]
    [] t = "ll_traverse_4"     -> {<<1, 2, 4, 15>>} \X [1 .. 4 -> 0 .. 3] \X (0 .. 3)
    [] t = "merge_2x4"         -> Rising(4, {0, 1, 7, 15}) \X Rising(4, {0, 1, 7, 15})
    [] t = "prime_check_u8"    -> Byte
    [] t = "modexp_small"      -> {0, 1, 2, 7, 15} \X {0, 1, 2, 5, 8, 15} \X (1 .. 31)
    [] t = "seq_detect_1011"   -> {Stream16(b * 2 ^ k) : b \in 0 .. 255, k \in {0, 4, 8}}
    [] t = "palindrome_8n"     -> [1 .. 8 -> {0, 15}]
    [] t = "subset_sum_4x6"    ->
         {<<v, n>> \in [1 .. 4 -> {0, 5, 17, 63}] \X {0, 10, 22, 68, 85, 148} : n <= Total(v) + 4}
    [] t = "inversion_4x4"     -> [1 .. 4 -> {0, 1, 7, 15}]
    [] t = "histogram_4bin"    -> [1 .. 8 -> {3, 4}] \cup [1 .. 8 -> {8, 15}]
    [] t = "argmax_argmin_4x8" -> [1 .. 4 -> {0, 1, 128, 255}]
    [] t = "stream_packet_fsm" -> [1 .. 8 -> {0, 2, 170}]
    [] t = "weighted_scheduler" -> (SUBSET (0 .. 3)) \X [1 .. 4 -> {0, 7, 15}] \X (0 .. 3)
    [] t = "sliding_window_max_4" -> [1 .. 8 -> {0, 15}] \cup [1 .. 8 -> {3, 4}]
    [] t = "lru_cache_4"       -> [1 .. 4 -> {0, 1, 2, 3, 4, 9}]
    [] t = "pipeline_hazard_3" -> [1 .. 3 -> Insts]

MCWords(t) == ToSet(CornerWords[t]) \cup MCSmall(t)
=============================================================================
