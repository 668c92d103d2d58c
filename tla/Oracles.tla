------------------------------- MODULE Oracles -------------------------------
(***************************************************************************)
(* The oracles (reference_py) of the tasks without a reference design, as  *)
(* the loops they are: an action per task, a step per iteration of its     *)
(* outer loop, the last one the return.                                    *)
(*                                                                         *)
(* The oracle decides what a submission is compared with, and no second    *)
(* implementation of it exists in the repository.  The second part of the  *)
(* module says of every task what it is that its prompt asks for.          *)
(***************************************************************************)
EXTENDS TaskVectors

CONSTANT Words(_)   \* the words the oracle of a task is called with

\* They are words that the generators draw.
ASSUME OraclesAssumption == \A t \in DOMAIN TASK_REGISTRY : Words(t) \subseteq RandomWords(t)

VARIABLES
  task, x,          \* the task and its word, unpacked
  pc,               \* "loop" or "returned"
  locals,           \* the locals of the loop
  result

vars == <<task, x, pc, locals, result>>

-----------------------------------------------------------------------------
\* The locals before the loop.
Locals(t, w) ==
  CASE t = "graph_reach_4"     -> [visited |-> {w[2]}, stack |-> <<w[2]>>]
    [] t = "graph_triangle_5"  -> [i |-> 0, count |-> 0]
    [] t = "graph_bipartite_6" -> [color |-> [v \in 0 .. 5 |-> -1], queue |-> << >>]
    [] t = "argmax_8x8"        -> [i |-> 0, best_val |-> -1, best_idx |-> 0]
    [] t = "ll_traverse_4"     -> [i |-> 0, idx |-> 0]
    [] t = "merge_2x4"         -> [i |-> 0, j |-> 0, out |-> << >>]
    [] t = "prime_check_u8"    -> [i |-> 3]
    [] t \in {"seq_detect_1011", "inversion_4x4"} -> [i |-> 0, count |-> 0]
    [] t = "histogram_4bin"    -> [i |-> 0, counts |-> <<0, 0, 0, 0>>]
    [] t = "argmax_argmin_4x8" -> [i |-> 1, max_idx |-> 0, min_idx |-> 0]
    [] t = "stream_packet_fsm" -> [i |-> 0, state |-> "WAIT_START", length |-> 0, out |-> << >>]
    [] t = "weighted_scheduler" -> [i |-> 0, max_w |-> -1, offset |-> 1]
    [] t = "sliding_window_max_4" -> [i |-> 0, buffer |-> << >>, out |-> << >>]
    [] t = "lru_cache_4"       -> [i |-> 0, cache |-> <<0, 1, 2, 3>>, hits |-> << >>]
    [] OTHER                   -> [i |-> 0]

Init ==
  /\ task \in DOMAIN TASK_REGISTRY
  /\ x \in Words(task)
  /\ pc = "loop"
  /\ locals = Locals(task, x)
  /\ result = 0

In(t) == pc = "loop" /\ task = t

Continue(new) == locals' = new /\ UNCHANGED <<task, x, pc, result>>

Return(value) == pc' = "returned" /\ result' = value /\ UNCHANGED <<task, x, locals>>

\* for i in range(n), and the i the loops stand at (arrays begin at 1).
i == locals.i
Next_i == [locals EXCEPT !.i = @ + 1]
BoolToInt(b) == IF b THEN 1 ELSE 0

\* for v in range(n): the ones in s, one appended after the other.
InOrder(s, n) ==
  LET UpTo[k \in 0 .. n] ==
        IF k = 0 THEN << >>
        ELSE IF k - 1 \in s THEN Append(UpTo[k - 1], k - 1) ELSE UpTo[k - 1]
  IN  UpTo[n]

\* sorted(s): every value goes behind the ones before it that are not greater.
Inserted(v, s) == InsertAt(s, Cardinality({m \in DOMAIN s : s[m] <= v}) + 1, v)
InsertionSort(s) ==
  LET UpTo[k \in 0 .. Len(s)] == IF k = 0 THEN << >> ELSE Inserted(s[k], UpTo[k - 1])
  IN  UpTo[Len(s)]

-----------------------------------------------------------------------------
\* The nodes an iteration pushes.  Faulty variant: visited or not.
NewFromAny(u) == {v \in 0 .. 3 : <<u, v>> \in x[1]}
New(u) == {v \in 0 .. 3 \ locals.visited : <<u, v>> \in x[1]}

GraphReach4 ==
  /\ In("graph_reach_4")
  /\ IF locals.stack # << >>
     THEN LET new == New(Last(locals.stack)) IN
          Continue([visited |-> locals.visited \cup new,
                    stack |-> Front(locals.stack) \o InOrder(new, 4)])
     ELSE Return(BoolToInt(x[3] \in locals.visited))

\* The loop over u; v and w are the loops inside it.
GraphTriangle5 ==
  /\ In("graph_triangle_5")
  /\ IF i < 5
     THEN Continue([Next_i EXCEPT !.count = @ + Cardinality(
            {e \in (i + 1 .. 4) \X (0 .. 4) :
               e[1] < e[2] /\ {<<i, e[1]>>, e, <<i, e[2]>>} \subseteq x})])
     ELSE Return(locals.count)

Neighbours(u) == {v \in 0 .. 5 : <<u, v>> \in x \/ <<v, u>> \in x}

\* An empty queue is the for loop over start.
GraphBipartite6 ==
  /\ In("graph_bipartite_6")
  /\ LET color == locals.color
         uncoloured == {v \in 0 .. 5 : color[v] = -1} IN
     IF locals.queue # << >>
     THEN LET u == Head(locals.queue)
              new == Neighbours(u) \cap uncoloured IN
          IF \E v \in Neighbours(u) : color[v] = color[u]
          THEN Return(0)
          ELSE Continue([color |-> [v \in 0 .. 5 |-> IF v \in new THEN 1 - color[u] ELSE color[v]],
                         queue |-> Tail(locals.queue) \o InOrder(new, 6)])
     ELSE IF uncoloured # {}
          THEN LET start == Min(uncoloured) IN
               Continue([color |-> [color EXCEPT ![start] = 0], queue |-> <<start>>])
          ELSE Return(1)

-----------------------------------------------------------------------------
Binsearch8x4 ==
  /\ In("binsearch_8x4")
  /\ IF i = 8 THEN Return(8)
     ELSE IF x[1][i + 1] = x[2] THEN Return(i) ELSE Continue(Next_i)

KthSmallest4x8 ==
  /\ In("kth_smallest_4x8")
  /\ Return(InsertionSort(x[1])[x[2] + 1])

\* Faulty variant: the last of equal values wins.
NoWorse(v) == v >= locals.best_val
Better(v)  == v > locals.best_val

Argmax8x8 ==
  /\ In("argmax_8x8")
  /\ IF i = 8 THEN Return(locals.best_idx)
     ELSE IF Better(x[i + 1])
          THEN Continue([i |-> i + 1, best_val |-> x[i + 1], best_idx |-> i])
          ELSE Continue(Next_i)

\* range(1, 7)
HeapCheck7 ==
  /\ In("heap_check_7")
  /\ IF i = 6 THEN Return(1)
     ELSE IF x[i \div 2 + 1] > x[i + 2] THEN Return(0) ELSE Continue(Next_i)

LlTraverse4 ==
  /\ In("ll_traverse_4")
  /\ IF i = x[3] THEN Return(x[1][locals.idx + 1])
     ELSE Continue([Next_i EXCEPT !.idx = x[2][locals.idx + 1]])

Merge2x4 ==
  /\ In("merge_2x4")
  /\ LET a == x[1]  b == x[2]  j == locals.j  out == locals.out IN
     IF i < 4 /\ j < 4
     THEN IF a[i + 1] <= b[j + 1]
          THEN Continue([Next_i EXCEPT !.out = Append(out, a[i + 1])])
          ELSE Continue([locals EXCEPT !.j = j + 1, !.out = Append(out, b[j + 1])])
     ELSE Return(Nibbles(out \o SubSeq(a, i + 1, 4) \o SubSeq(b, j + 1, 4)))

PrimeU8 ==
  /\ In("prime_check_u8")
  /\ IF x < 2 THEN Return(0)
     ELSE IF x < 4 THEN Return(1)
     ELSE IF x % 2 = 0 THEN Return(0)
     ELSE IF i * i > x THEN Return(1)
     ELSE IF x % i = 0 THEN Return(0) ELSE Continue([i |-> i + 2])

\* pow(a, b, n)
Power(a, b, n) ==
  LET To[k \in Nat] == IF k = 0 THEN 1 % n ELSE (To[k - 1] * a) % n IN To[b]

ModexpSmall ==
  /\ In("modexp_small")
  /\ LET n == IF x[3] = 0 THEN 1 ELSE x[3] IN Return(Power(x[1], x[2], n) % 32)

SeqCount1011 ==
  /\ In("seq_detect_1011")
  /\ IF i = 13 THEN Return(locals.count)
     ELSE Continue([Next_i EXCEPT !.count =
            @ + BoolToInt(SubSeq(x, i + 1, i + 4) = <<1, 1, 0, 1>>)])

Palindrome8 ==
  /\ In("palindrome_8n")
  /\ IF i = 4 THEN Return(1)
     ELSE IF x[i + 1] # x[8 - i] THEN Return(0) ELSE Continue(Next_i)

\* The sum of the values that a mask takes.
MaskSum(mask) ==
  LET Taken(k) == IF (mask \div 2 ^ k) % 2 = 1 THEN x[1][k + 1] ELSE 0
  IN  Taken(0) + Taken(1) + Taken(2) + Taken(3)

\* i is mask.
SubsetSum4x6 ==
  /\ In("subset_sum_4x6")
  /\ IF i = 16 THEN Return(0)
     ELSE IF MaskSum(i) = x[2] THEN Return(1) ELSE Continue(Next_i)

Inversion4x4 ==
  /\ In("inversion_4x4")
  /\ IF i = 4 THEN Return(locals.count)
     ELSE Continue([Next_i EXCEPT !.count =
            @ + Cardinality({j \in i + 2 .. 4 : x[i + 1] > x[j]})])

Histogram4bin ==
  /\ In("histogram_4bin")
  /\ IF i = 8 THEN Return(Nibbles(locals.counts))
     ELSE Continue([Next_i EXCEPT !.counts[x[i + 1] \div 4 + 1] = @ + 1])

ArgmaxArgmin4x8 ==
  /\ In("argmax_argmin_4x8")
  /\ IF i = 4 THEN Return(4 * locals.max_idx + locals.min_idx)
     ELSE Continue([i |-> i + 1,
            max_idx |-> IF x[i + 1] > x[locals.max_idx + 1] THEN i ELSE locals.max_idx,
            min_idx |-> IF x[i + 1] < x[locals.min_idx + 1] THEN i ELSE locals.min_idx])

-----------------------------------------------------------------------------
\* Faulty variant: a LEN of 0 begins a payload.
AlwaysPayload(len) == "PAYLOAD"
AfterLen(len) == IF len > 0 THEN "PAYLOAD" ELSE "WAIT_START"

\* A byte taken: the new state and length, the byte put out.
Takes(state, length, byte) ==
  Continue([i |-> i + 1, state |-> state, length |-> length, out |-> Append(locals.out, byte)])

StreamPacketFsm ==
  /\ In("stream_packet_fsm")
  /\ LET b == x[i + 1]  length == locals.length IN
     IF i = 8 THEN Return(locals.out)
     ELSE CASE locals.state = "WAIT_START" ->
                 Takes(IF b = 170 THEN "WAIT_LEN" ELSE "WAIT_START", length, 0)
            [] locals.state = "WAIT_LEN" -> Takes(AfterLen(b), b, 0)
            [] locals.state = "PAYLOAD" ->
                 Takes(IF length = 1 THEN "WAIT_START" ELSE "PAYLOAD", length - 1, b)

\* Two loops: i looks for the maximum, then offset for the winner.
WeightedScheduler ==
  /\ In("weighted_scheduler")
  /\ LET req == x[1]
         idx == (x[3] + locals.offset) % 4 IN
     IF req = {} \/ locals.offset > 4 THEN Return(4)
     ELSE IF i < 4
          THEN Continue([Next_i EXCEPT !.max_w =
                 IF i \in req /\ x[2][i + 1] > @ THEN x[2][i + 1] ELSE @])
          ELSE IF idx \in req /\ x[2][idx + 1] = locals.max_w
               THEN Return(idx)
               ELSE Continue([locals EXCEPT !.offset = @ + 1])

SlidingWindowMax4 ==
  /\ In("sliding_window_max_4")
  /\ LET longer == Append(locals.buffer, x[i + 1])
         buffer == IF Len(longer) > 4 THEN Tail(longer) ELSE longer IN
     IF i = 8 THEN Return(Nibbles(locals.out))
     ELSE Continue([i |-> i + 1, buffer |-> buffer, out |-> Append(locals.out, Max(ToSet(buffer)))])

\* The cache after an access, most recently used first.  Faulty variant: a hit
\* changes nothing.
AccessedFifo(cache, k) == IF k \in ToSet(cache) THEN cache ELSE <<k>> \o Front(cache)
Accessed(cache, k) ==
  <<k>> \o IF k \in ToSet(cache) THEN RemoveFirst(cache, k) ELSE Front(cache)

LruCache4 ==
  /\ In("lru_cache_4")
  /\ LET k == x[i + 1]  cache == locals.cache IN
     IF i = 4 THEN Return(locals.hits)
     ELSE Continue([i |-> i + 1, cache |-> Accessed(cache, k),
                    hits |-> Append(locals.hits, BoolToInt(k \in ToSet(cache)))])

\* insts[later] reads what insts[earlier] writes.
Depends(later, earlier) ==
  /\ later[1] = 1 /\ earlier[1] = 1 /\ earlier[2] # 0
  /\ later[3] = earlier[2] \/ later[4] = earlier[2]

PipelineHazard3 ==
  /\ In("pipeline_hazard_3")
  /\ Return(<<BoolToInt(Depends(x[2], x[1])),
              BoolToInt(Depends(x[3], x[2]) \/ Depends(x[3], x[1]))>>)

Next ==
  \/ GraphReach4 \/ GraphTriangle5 \/ GraphBipartite6
  \/ Binsearch8x4 \/ KthSmallest4x8 \/ Argmax8x8
  \/ HeapCheck7 \/ LlTraverse4 \/ Merge2x4
  \/ PrimeU8 \/ ModexpSmall
  \/ SeqCount1011 \/ Palindrome8
  \/ SubsetSum4x6 \/ Inversion4x4
  \/ Histogram4bin \/ ArgmaxArgmin4x8
  \/ StreamPacketFsm \/ WeightedScheduler \/ SlidingWindowMax4 \/ LruCache4 \/ PipelineHazard3

\* The Python interpreter runs.
Spec == Init /\ [][Next]_vars /\ WF_vars(Next)

-----------------------------------------------------------------------------
(***************************************************************************)
(* What the prompts ask for.                                               *)
(***************************************************************************)
\* tgt is in every set that holds src and is closed under the edges.
Reachable(edges, src, tgt) ==
  \A closed \in SUBSET (0 .. 3) :
    (src \in closed /\ \A e \in edges : e[1] \in closed => e[2] \in closed) => tgt \in closed

Triangles(edges) == {c \in kSubset(3, 0 .. 4) : \A u, v \in c : u < v => <<u, v>> \in edges}

TwoColours(left, edges) == \A e \in edges : (e[1] \in left) # (e[2] \in left)
Bipartite(edges) == \E left \in SUBSET (0 .. 5) : TwoColours(left, edges)

\* A search that halves the array: right only for sorted ones.
HalvingSearch(arr, target) ==
  LET below == Cardinality({k \in DOMAIN arr : arr[k] < target}) IN
  IF below < 8 /\ arr[below + 1] = target THEN below ELSE 8

RankOf(v, vals) == Cardinality({k \in DOMAIN vals : vals[k] < v})
FirstOf(P(_), n) == Min({k \in 0 .. n - 1 : P(k + 1)})
FirstMax(a) == FirstOf(LAMBDA k : \A m \in DOMAIN a : a[m] <= a[k], Len(a))
FirstMin(a) == FirstOf(LAMBDA k : \A m \in DOMAIN a : a[m] >= a[k], Len(a))

\* Every node is at least as large as every node above it.
MinHeap(a) ==
  /\ \A k \in 2 .. 7 : a[1] <= a[k]
  /\ \A k \in {4, 5} : a[2] <= a[k]
  /\ \A k \in {6, 7} : a[3] <= a[k]

Follow(next) == LET From[n \in Nat] == IF n = 0 THEN 0 ELSE next[From[n - 1] + 1] IN From

\* Square and multiply, the highest of four bits first.
SquareAndMultiply(a, b, n) ==
  FoldLeft(LAMBDA r, bit : (((r * r) % n) * IF bit = 1 THEN a ELSE 1) % n,
           1 % n, [k \in 1 .. 4 |-> (b \div 2 ^ (4 - k)) % 2])

Occurs1011(k) == x[k] = 1 /\ x[k + 1] = 1 /\ x[k + 2] = 0 /\ x[k + 3] = 1

\* Every sum of some of the values, one value after the other.
Sums(vals) == FoldLeft(LAMBDA sums, v : sums \cup {s + v : s \in sums}, {0}, vals)

\* Adjacent swaps that sorting takes: the inversions are carried along by an
\* insertion sort.
SwapsToSort(a) ==
  FoldLeft(LAMBDA r, v : [swaps |-> r.swaps + Cardinality({m \in DOMAIN r.seen : r.seen[m] > v}),
                          seen |-> Append(r.seen, v)],
           [swaps |-> 0, seen |-> << >>], a).swaps

InBin(vals, lo) == Cardinality({k \in DOMAIN vals : vals[k] \in lo .. lo + 3})

\* A START byte begins a packet unless it belongs to a packet before it.
EndOfPacket(p) == p + 1 + x[p + 2]
Starts ==
  LET IsStart[p \in 0 .. 7] ==
        /\ x[p + 1] = 170
        /\ \A q \in 0 .. p - 1 : IsStart[q] => p > EndOfPacket(q)
  IN  {p \in 0 .. 7 : IsStart[p]}
IsPayload(k) == \E p \in Starts : p + 2 <= k /\ k <= EndOfPacket(p)
PayloadBytes(n) == [k \in 1 .. n |-> IF IsPayload(k - 1) THEN x[k] ELSE 0]

\* The requester whose claim nobody beats: more weight, or the same and closer
\* after the last one served.
Beats(k, m) ==
  LET Distance(r) == (r - x[3] + 3) % 4 IN
  \/ x[2][k + 1] > x[2][m + 1]
  \/ x[2][k + 1] = x[2][m + 1] /\ Distance(k) < Distance(m)

\* The keys by their last use, as if 3, 2, 1, 0 had been accessed before.
Accesses(n) == <<3, 2, 1, 0>> \o SubSeq(x, 1, n)
DistinctSince(n) ==
  LET past == Accesses(n)
      uses == {m \in DOMAIN past : past[m] = x[n + 1]} IN
  IF uses = {} THEN 4 ELSE Cardinality({past[m] : m \in Max(uses) + 1 .. Len(past)})

WindowMax(k) == Max({x[m] : m \in Max({1, k - 3}) .. k})
Hit(n) == DistinctSince(n) < 4

Reads(inst)  == IF inst[1] = 1 THEN {inst[3], inst[4]} ELSE {}
Writes(inst) == IF inst[1] = 1 THEN {inst[2]} \ {0} ELSE {}

Described ==
  CASE task = "graph_reach_4"     -> BoolToInt(Reachable(x[1], x[2], x[3]))
    [] task = "graph_triangle_5"  -> Cardinality(Triangles(x))
    [] task = "graph_bipartite_6" -> BoolToInt(Bipartite(x))
    [] task = "binsearch_8x4"     -> HalvingSearch(x[1], x[2])
    [] task = "kth_smallest_4x8"  ->
         CHOOSE v \in ToSet(x[1]) :
           RankOf(v, x[1]) <= x[2] /\ x[2] < RankOf(v + 1, x[1])
    [] task = "argmax_8x8"        -> FirstMax(x)
    [] task = "heap_check_7"      -> BoolToInt(MinHeap(x))
    [] task = "ll_traverse_4"     -> x[1][Follow(x[2])[x[3]] + 1]
    [] task = "merge_2x4"         -> InsertionSort(x[1] \o x[2])
    [] task = "prime_check_u8"    -> BoolToInt(x > 1 /\ \A d \in 2 .. x - 1 : x % d # 0)
    [] task = "modexp_small"      -> SquareAndMultiply(x[1], x[2], x[3])
    [] task = "seq_detect_1011"   ->
         Cardinality({k \in 1 .. 13 : Occurs1011(k)})
    [] task = "palindrome_8n"     -> BoolToInt(x = Reverse(x))
    [] task = "subset_sum_4x6"    -> BoolToInt(x[2] \in Sums(x[1]))
    [] task = "inversion_4x4"     -> SwapsToSort(x)
    [] task = "histogram_4bin"    -> [b \in 1 .. 4 |-> InBin(x, 4 * b - 4)]
    [] task = "argmax_argmin_4x8" -> 4 * FirstMax(x) + FirstMin(x)
    [] task = "stream_packet_fsm" -> PayloadBytes(8)
    [] task = "weighted_scheduler" ->
         IF x[1] = {} THEN 4 ELSE CHOOSE k \in x[1] : \A m \in x[1] \ {k} : Beats(k, m)
    [] task = "sliding_window_max_4" -> [k \in 1 .. 8 |-> WindowMax(k)]
    [] task = "lru_cache_4"       -> [k \in 1 .. 4 |-> BoolToInt(Hit(k - 1))]
    [] task = "pipeline_hazard_3" ->
         [k \in 1 .. 2 |-> BoolToInt(\E m \in 1 .. k : Reads(x[k + 1]) \cap Writes(x[m]) # {})]

(***************************************************************************)
(* Every oracle computes what the prompt of its task asks for, on the      *)
(* words of the vector sets: a submission that does what it is told is not *)
(* graded INCORRECT.  The prompts promise sorted arrays and a modulus that *)
(* is not 0; a submission may rely on it.                                  *)
(***************************************************************************)
AsDescribed == pc = "returned" => result = Described

\* A result as the word it is packed into.
Digits(digits, width) ==
  /\ Len(digits) * width = TASK_REGISTRY[task].out_bits
  /\ \A k \in DOMAIN digits : digits[k] \in 0 .. 2 ^ width - 1
Fits(value) ==
  CASE task \in {"merge_2x4", "histogram_4bin", "sliding_window_max_4"} -> Digits(value, 4)
    [] task = "stream_packet_fsm" -> Digits(value, 8)
    [] task \in {"lru_cache_4", "pipeline_hazard_3"} -> Digits(value, 1)
    [] OTHER -> value \in 0 .. 2 ^ TASK_REGISTRY[task].out_bits - 1

(***************************************************************************)
(* An expected word is a word of out_bits: the testbench masks it to that  *)
(* many bits, and would compare data_out with another word.  And the       *)
(* baseline is in reach: no fewer cycles than cases, and no more than the  *)
(* cases may take before they time out.                                    *)
(***************************************************************************)
OutputFits ==
  LET perCase == TASK_REGISTRY[task].max_cycles_per_case IN
  /\ TASK_REGISTRY[task].baseline_cycles \in Cases(task) .. Cases(task) * perCase
  /\ pc = "returned" => Fits(result)

-----------------------------------------------------------------------------
(***************************************************************************)
(* Where the loops stand: what has been found in the part of the word that *)
(* is behind them.                                                         *)
(***************************************************************************)
\* Nothing but what can be reached is visited, and what has been left has no
\* edge to a node still unseen.
ReachInv ==
  /\ x[2] \in locals.visited /\ ToSet(locals.stack) \subseteq locals.visited
  /\ \A v \in locals.visited : Reachable(x[1], x[2], v)
  /\ \A e \in x[1] :
       e[1] \in locals.visited \ ToSet(locals.stack) => e[2] \in locals.visited

\* A node that has left the queue is coloured otherwise than its neighbours; and
\* the graph, if it is bipartite, can be divided as the colours say.
ColourInv ==
  LET coloured == {v \in 0 .. 5 : locals.color[v] # -1} IN
  /\ ToSet(locals.queue) \subseteq coloured
  /\ IsInjective(locals.queue)
  /\ \A v \in coloured \ ToSet(locals.queue) :
       \A u \in Neighbours(v) : locals.color[u] = 1 - locals.color[v]
  /\ Bipartite(x) =>
       \E left \in SUBSET (0 .. 5) :
         TwoColours(left, x) /\ \A v \in coloured : (v \in left) = (locals.color[v] = 1)

MergeInv ==
  LET out == locals.out
      rest == SubSeq(x[1], i + 1, 4) \o SubSeq(x[2], locals.j + 1, 4) IN
  /\ Len(out) = i + locals.j /\ Sorted(out)
  /\ \A v \in ToSet(out), r \in ToSet(rest) : v <= r
  /\ InsertionSort(out \o rest) = InsertionSort(x[1] \o x[2])

\* The header of the packet the machine is in lies where length says.
PacketInv ==
  /\ CASE locals.state = "WAIT_START" -> \A p \in Starts : p < i => EndOfPacket(p) < i
       [] locals.state = "WAIT_LEN"   -> i - 1 \in Starts
       [] locals.state = "PAYLOAD"    ->
            /\ locals.length > 0
            /\ \E p \in Starts : p + 2 <= i /\ EndOfPacket(p) = i + locals.length - 1
  /\ locals.out = PayloadBytes(i)

\* max_w is the greatest weight of the requesters before i, and nobody before
\* offset has it.
SchedulerInv ==
  LET req == x[1]  weight(k) == x[2][k + 1] IN
  /\ \A k \in req : k < i => weight(k) <= locals.max_w
  /\ locals.max_w = -1 \/ \E k \in req : k < i /\ weight(k) = locals.max_w
  /\ locals.offset > 1 => i = 4
  /\ \A o \in 1 .. locals.offset - 1 :
       LET idx == (x[3] + o) % 4 IN idx \in req => weight(idx) # locals.max_w

\* The cache holds the four keys used last, the latest first.
CacheInv ==
  LET past == Accesses(i)
      LastUse(k) == Max({m \in DOMAIN past : past[m] = k}) IN
  /\ Len(locals.cache) = 4 /\ ToSet(locals.cache) \subseteq ToSet(past)
  /\ \A k, m \in 1 .. 4 : k < m => LastUse(locals.cache[k]) > LastUse(locals.cache[m])
  /\ \A key \in ToSet(past) \ ToSet(locals.cache) : LastUse(key) < LastUse(locals.cache[4])
  /\ locals.hits = [k \in 1 .. i |-> BoolToInt(Hit(k - 1))]

LoopInv ==
  CASE task = "graph_reach_4"     -> ReachInv
    [] task = "graph_triangle_5"  -> locals.count = Cardinality({c \in Triangles(x) : Min(c) < i})
    [] task = "graph_bipartite_6" -> ColourInv
    [] task = "binsearch_8x4"     -> \A k \in 1 .. i : x[1][k] # x[2]
    [] task = "argmax_8x8"        ->
         IF i = 0 THEN locals.best_val = -1
         ELSE /\ locals.best_idx = FirstMax(SubSeq(x, 1, i))
              /\ locals.best_val = x[locals.best_idx + 1]
    [] task = "heap_check_7"      -> \A k \in 0 .. i - 1 : x[k \div 2 + 1] <= x[k + 2]
    [] task = "ll_traverse_4"     -> i <= x[3] /\ locals.idx = Follow(x[2])[i]
    [] task = "merge_2x4"         -> MergeInv
    [] task = "prime_check_u8"    ->
         i % 2 = 1 /\ (i > 3 => \A d \in 2 .. i - 1 : x % d # 0)
    [] task = "seq_detect_1011"   -> locals.count = Cardinality({k \in 1 .. i : Occurs1011(k)})
    [] task = "palindrome_8n"     -> \A k \in 1 .. i : x[k] = x[9 - k]
    [] task = "subset_sum_4x6"    -> \A mask \in 0 .. i - 1 : MaskSum(mask) # x[2]
    [] task = "inversion_4x4"     ->
         locals.count = Cardinality({e \in (1 .. i) \X (1 .. 4) : e[1] < e[2] /\ x[e[1]] > x[e[2]]})
    [] task = "histogram_4bin"    ->
         locals.counts = [b \in 1 .. 4 |-> InBin(SubSeq(x, 1, i), 4 * b - 4)]
    [] task = "argmax_argmin_4x8" ->
         locals.max_idx = FirstMax(SubSeq(x, 1, i)) /\ locals.min_idx = FirstMin(SubSeq(x, 1, i))
    [] task = "stream_packet_fsm" -> PacketInv
    [] task = "weighted_scheduler" -> SchedulerInv
    [] task = "sliding_window_max_4" ->
         /\ locals.buffer = SubSeq(x, Max({1, i - 3}), i)
         /\ locals.out = [k \in 1 .. i |-> WindowMax(k)]
    [] task = "lru_cache_4"       -> CacheInv
    [] OTHER                      -> TRUE

(***************************************************************************)
(* The words are words the generators draw; the locals stay in the ranges  *)
(* of the loops.                                                           *)
(***************************************************************************)
LocalsOf(t) ==
  CASE t = "graph_reach_4"     -> [visited : SUBSET (0 .. 3), stack : Seq(0 .. 3)]
    [] t = "graph_triangle_5"  -> [i : 0 .. 5, count : 0 .. 10]
    [] t = "graph_bipartite_6" -> [color : [0 .. 5 -> {-1, 0, 1}], queue : Seq(0 .. 5)]
    [] t = "binsearch_8x4"     -> [i : 0 .. 8]
    [] t = "argmax_8x8"        -> [i : 0 .. 8, best_val : Byte \cup {-1}, best_idx : 0 .. 7]
    [] t = "heap_check_7"      -> [i : 0 .. 6]
    [] t = "ll_traverse_4"     -> [i : 0 .. 3, idx : 0 .. 3]
    [] t = "merge_2x4"         -> [i : 0 .. 4, j : 0 .. 4, out : Seq(Nibble)]
    [] t = "prime_check_u8"    -> [i : 3 .. 17]
    [] t = "seq_detect_1011"   -> [i : 0 .. 13, count : 0 .. 13]
    [] t = "palindrome_8n"     -> [i : 0 .. 4]
    [] t = "subset_sum_4x6"    -> [i : 0 .. 16]
    [] t = "inversion_4x4"     -> [i : 0 .. 4, count : 0 .. 6]
    [] t = "histogram_4bin"    -> [i : 0 .. 8, counts : [1 .. 4 -> 0 .. 8]]
    [] t = "argmax_argmin_4x8" -> [i : 1 .. 4, max_idx : 0 .. 3, min_idx : 0 .. 3]
    [] t = "stream_packet_fsm" ->
         [i : 0 .. 8, state : {"WAIT_START", "WAIT_LEN", "PAYLOAD"}, length : Byte, out : Seq(Byte)]
    [] t = "weighted_scheduler" -> [i : 0 .. 4, max_w : Nibble \cup {-1}, offset : 1 .. 4]
    [] t = "sliding_window_max_4" -> [i : 0 .. 8, buffer : Seq(Nibble), out : Seq(Nibble)]
    [] t = "lru_cache_4"       -> [i : 0 .. 4, cache : Seq(Nibble), hits : Seq({0, 1})]
    [] OTHER                   -> [i : {0}]

TypeOK ==
  /\ task \in DOMAIN TASK_REGISTRY
  /\ x \in RandomWords(task)
  /\ pc \in {"loop", "returned"}
  /\ locals \in LocalsOf(task)

(***************************************************************************)
(* Every oracle returns, the ones with a while loop included: step_async   *)
(* calls it in the event loop, between two awaits, with no deadline.       *)
(***************************************************************************)
Returns == <>(pc = "returned")
=============================================================================
