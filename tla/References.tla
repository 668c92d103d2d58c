----------------------------- MODULE References -----------------------------
(***************************************************************************)
(* The reference designs of references.py, clock tick by clock tick,       *)
(* driven by the generated testbench through a vector set of their task.   *)
(* A case leaves its registers behind: reset clears only done and the      *)
(* state (and the output of xor_cipher16, which start writes anyway).      *)
(*                                                                         *)
(* Two kinds of designs.  In the first, start is taken at any time and     *)
(* done is raised by the last iteration; in the second, start is taken in  *)
(* state 0 only, and state 2 raises done one tick after the last one.  The *)
(* designs are modelled for words of any width w; 16 bits of div16 are w   *)
(* bits, 32 bits of isqrt32 are 2 * w bits, and so on.                     *)
(*                                                                         *)
(* The testbench is that of Harness, with a design in it: the pins are     *)
(* driven here, how the process ends is left to Harness.  That it is the   *)
(* same testbench is the property DrivenByHarness.                         *)
(***************************************************************************)
EXTENDS Tasks

CONSTANTS
  Runs   \* the <<design, width, vectors>> to run, vectors a sequence of words

Designs == DOMAIN TASK_REGISTRY

\* adler32 is four bytes wide, in the design as in its oracle.
ASSUME ReferencesAssumption ==
  \A r \in Runs :
    /\ r[1] \in Designs /\ r[2] \in 1 .. TASK_REGISTRY[r[1]].width
    /\ r[1] = "adler32" => r[2] = 4
    /\ r[3] \in Seq(RandomWords(r[1], r[2]))

VARIABLES
  design, width, vectors,  \* the run: no step changes them
  pc,      \* of the testbench: "start", "case", "wait", "wrong", "late", "ok"
  case,    \* cases passed
  cycles,  \* ticks of this case
  total,   \* total_cycles
  out,     \* the lines printed
  state,   \* the design: "idle" (also: not active), "busy", "result"
  regs,    \* the registers written so far
  data_out, done

run  == <<design, width, vectors>>
dut  == <<state, regs, data_out, done>>
vars == <<run, pc, case, cycles, total, out, dut>>

data_in == vectors[case + 1]
max_cycles_per_case == TASK_REGISTRY[design].max_cycles_per_case

-----------------------------------------------------------------------------
\* popcount32
PopcountLoad(v) == [shift |-> v, count |-> 0, idx |-> 0]
PopcountLoop(r) ==
  [shift |-> ShiftedRight(r.shift), count |-> r.count + r.shift[1], idx |-> r.idx + 1]

\* bitrev16
BitrevLoad(v, w) == [in_sr |-> v, out_sr |-> Zeros(w), idx |-> 0]
BitrevLoop(r) ==
  [out_sr |-> <<r.in_sr[1]>> \o Front(r.out_sr), in_sr |-> ShiftedRight(r.in_sr),
   idx |-> r.idx + 1]

\* gcd16: the last iteration is the one that finds a zero.
GcdLoad(v) == [a |-> v[1], b |-> v[2], k |-> 0]

GcdZero(r) == r.a = 0 \/ r.b = 0

\* Faulty variant: a common factor 2 is dropped and not counted.
GcdLoopUncounted(r) ==
  [r EXCEPT !.a = IF r.a % 2 = 0 THEN r.a \div 2
                  ELSE IF r.b % 2 = 1 /\ r.a >= r.b THEN (r.a - r.b) \div 2 ELSE r.a,
            !.b = IF r.b % 2 = 0 THEN r.b \div 2
                  ELSE IF r.a % 2 = 1 /\ r.a < r.b THEN (r.b - r.a) \div 2 ELSE r.b]

GcdLoop(r) ==
  LET evenA == r.a % 2 = 0
      evenB == r.b % 2 = 0
  IN  CASE GcdZero(r) -> r
        [] ~GcdZero(r) /\ evenA /\ evenB ->
             [r EXCEPT !.a = r.a \div 2, !.b = r.b \div 2, !.k = (r.k + 1) % 16]
        [] ~GcdZero(r) /\ evenA /\ ~evenB -> [r EXCEPT !.a = r.a \div 2]
        [] ~GcdZero(r) /\ ~evenA /\ evenB -> [r EXCEPT !.b = r.b \div 2]
        [] ~GcdZero(r) /\ ~evenA /\ ~evenB ->
             IF r.a >= r.b THEN [r EXCEPT !.a = (r.a - r.b) \div 2]
             ELSE [r EXCEPT !.b = (r.b - r.a) \div 2]

GcdOut(r, w) == ((IF r.a = 0 THEN r.b ELSE r.a) * 2 ^ r.k) % 2 ^ w

\* mul8
MulLoad(v) == [product |-> 0, mcand |-> v[1], mplier |-> v[2], idx |-> 0]
MulLoop(r, w) ==
  LET word(n) == n % 2 ^ (2 * w) IN
  [product |-> IF r.mplier % 2 = 1 THEN word(r.product + r.mcand) ELSE r.product,
   mcand |-> word(2 * r.mcand), mplier |-> r.mplier \div 2, idx |-> r.idx + 1]

\* div16: the top bit of rem is cut when the next bit of dividend comes in.
DivLoad(v) == [dividend |-> v[1], divisor |-> v[2], rem |-> 0, quot |-> 0, idx |-> 0]

\* Faulty variant: the divisor is subtracted from greater numbers only.
DivLoopGreater(r, w) ==
  LET word(n) == n % 2 ^ w
      next == word(2 * r.rem) + (r.dividend \div 2 ^ (w - 1))
      fits == next > r.divisor
  IN  [r EXCEPT !.rem = IF fits THEN next - r.divisor ELSE next,
                !.quot = word(2 * r.quot) + (IF fits THEN 1 ELSE 0),
                !.dividend = word(2 * r.dividend),
                !.idx = r.idx + 1]

DivLoop(r, w) ==
  LET word(n) == n % 2 ^ w
      next == word(2 * r.rem) + (r.dividend \div 2 ^ (w - 1))
      fits == next >= r.divisor
  IN  [r EXCEPT !.rem = IF fits THEN next - r.divisor ELSE next,
                !.quot = word(2 * r.quot) + (IF fits THEN 1 ELSE 0),
                !.dividend = word(2 * r.dividend),
                !.idx = r.idx + 1]

\* isqrt32
IsqrtLoad(v, w) == [n |-> v, bit_val |-> 2 ^ (2 * w - 2), result |-> 0, idx |-> 0]
IsqrtLoop(r) ==
  LET fits == r.n >= r.result + r.bit_val IN
  [n |-> IF fits THEN r.n - (r.result + r.bit_val) ELSE r.n,
   result |-> (r.result \div 2) + (IF fits THEN r.bit_val ELSE 0),
   bit_val |-> r.bit_val \div 4, idx |-> r.idx + 1]

\* crc8
CrcLoad(v) == [shift |-> v, crc |-> Zeros(8), idx |-> 0]
CrcLoop(r) ==
  [crc |-> IF r.crc[1] # r.shift[1]
           THEN Xor(ShiftedRight(r.crc), <<0, 0, 1, 1, 0, 0, 0, 1>>)
           ELSE ShiftedRight(r.crc),
   shift |-> ShiftedRight(r.shift), idx |-> r.idx + 1]

\* adler32: sums of two bytes are reduced by subtraction.
AdlerLoad(v) == [data |-> v, s1 |-> 1, s2 |-> 0, byte_idx |-> 0]

\* Faulty variant: one conditional subtraction.
ReducedOnce(sum) == IF sum >= 251 THEN sum - 251 ELSE sum

Reduced(sum) ==
  IF sum >= 502 THEN sum - 502 ELSE IF sum >= 251 THEN sum - 251 ELSE sum

AdlerLoop(r) ==
  LET s1_mod == Reduced((r.s1 + r.data[1]) % 512)
      s2_mod == Reduced((r.s2 + s1_mod) % 512)
  IN  [s1 |-> s1_mod % 256, s2 |-> s2_mod % 256, data |-> ShiftedRight(r.data),
       byte_idx |-> r.byte_idx + 1]

\* matvec_2x2_int4: 8-bit signed registers.
Int8(n) == SignExtended(n % 256, 8)
MatvecLoad(v) ==
  LET s == [i \in 1 .. 6 |-> SignExtended(v[i], 4)] IN
  [m00 |-> s[1], m01 |-> s[2], m10 |-> s[3], m11 |-> s[4], v0 |-> s[5], v1 |-> s[6],
   r0 |-> 0, r1 |-> 0, step |-> 0]
MatvecStep(r) ==
  [r EXCEPT !.step = r.step + 1,
            !.r0 = CASE r.step = 0 -> Int8(r.m00 * r.v0)
                     [] r.step = 1 -> Int8(r.r0 + r.m01 * r.v1)
                     [] OTHER -> r.r0,
            !.r1 = CASE r.step = 2 -> Int8(r.m10 * r.v0)
                     [] r.step = 3 -> Int8(r.r1 + r.m11 * r.v1)
                     [] OTHER -> r.r1]

\* ray_hit_2d: 32-bit signed registers, which nothing here overflows.
RayLoad(v) ==
  [ox |-> SignExtended(v[1], 8), oy |-> SignExtended(v[2], 8),
   dx |-> SignExtended(v[3], 4), dy |-> SignExtended(v[4], 4), step |-> 0]
RadiusSquared == 1024
RayStep(r) ==
  CASE r.step = 0 -> [step |-> 1, dd |-> r.dx * r.dx + r.dy * r.dy]
    [] r.step = 1 -> [step |-> 2, od |-> r.ox * r.dx + r.oy * r.dy]
    [] r.step = 2 -> [step |-> 3, oo |-> r.ox * r.ox + r.oy * r.oy]
    [] r.step = 3 -> [step |-> 4, disc |-> r.od * r.od - r.dd * (r.oo - RadiusSquared)]
    [] OTHER -> [step |-> r.step + 1]
RayOut(r) == IF r.dd # 0 /\ r.disc >= 0 /\ r.od < 0 THEN 1 ELSE 0

\* arbiter_rr: without a request the answer is there at once.
ArbiterLoad(v) ==
  IF v[2] = {} THEN [last |-> v[1], req |-> v[2]]
  ELSE [last |-> v[1], req |-> v[2], offset |-> 1]
ScanIdx(r) == (r.last + r.offset) % 8
ArbiterFound(r) == ScanIdx(r) \in r.req
ArbiterOut(r) == IF ArbiterFound(r) THEN ScanIdx(r) ELSE 8

-----------------------------------------------------------------------------
(***************************************************************************)
(* A design is what start loads, what one iteration writes, which one is   *)
(* the last, and the result: of the registers r before the last iteration, *)
(* for the designs of the second kind (TwoStage) after it.                 *)
(***************************************************************************)
TwoStage == {"div16", "isqrt32", "crc8", "adler32"}

\* The registers after `new` has been written over `old`.
Written(new, old) ==
  [x \in DOMAIN new \cup DOMAIN old |-> IF x \in DOMAIN new THEN new[x] ELSE old[x]]

Load(v) ==
  CASE design = "popcount32"      -> PopcountLoad(v)
    [] design = "bitrev16"        -> BitrevLoad(v, width)
    [] design = "gcd16"           -> GcdLoad(v)
    [] design = "mul8"            -> MulLoad(v)
    [] design = "div16"           -> DivLoad(v)
    [] design = "isqrt32"         -> IsqrtLoad(v, width)
    [] design = "crc8"            -> CrcLoad(v)
    [] design = "adler32"         -> AdlerLoad(v)
    [] design = "matvec_2x2_int4" -> MatvecLoad(v)
    [] design = "ray_hit_2d"      -> RayLoad(v)
    [] design = "arbiter_rr"      -> ArbiterLoad(v)

Loop(r) ==
  CASE design = "popcount32"      -> PopcountLoop(r)
    [] design = "bitrev16"        -> BitrevLoop(r)
    [] design = "gcd16"           -> GcdLoop(r)
    [] design = "mul8"            -> MulLoop(r, width)
    [] design = "div16"           -> DivLoop(r, width)
    [] design = "isqrt32"         -> IsqrtLoop(r)
    [] design = "crc8"            -> CrcLoop(r)
    [] design = "adler32"         -> AdlerLoop(r)
    [] design = "matvec_2x2_int4" -> MatvecStep(r)
    [] design = "ray_hit_2d"      -> RayStep(r)
    [] design = "arbiter_rr"      -> [offset |-> r.offset + 1]

\* Faulty variant: one iteration more.
LastLoopLate(r) ==
  CASE design = "gcd16"   -> GcdZero(r)
    [] design = "adler32" -> r.byte_idx = width
    [] design \in {"matvec_2x2_int4", "ray_hit_2d"} -> r.step = 4
    [] design = "arbiter_rr" -> ArbiterFound(r) \/ r.offset = 8
    [] OTHER -> r.idx = width

LastLoop(r) ==
  CASE design = "gcd16"   -> GcdZero(r)
    [] design = "adler32" -> r.byte_idx = width - 1
    [] design \in {"matvec_2x2_int4", "ray_hit_2d"} -> r.step = 4
    [] design = "arbiter_rr" -> ArbiterFound(r) \/ r.offset = 8
    [] OTHER -> r.idx = width - 1

Out(r) ==
  CASE design = "popcount32"      -> PopcountLoop(r).count
    [] design = "bitrev16"        -> BitrevLoop(r).out_sr
    [] design = "gcd16"           -> GcdOut(r, width)
    [] design = "mul8"            -> MulLoop(r, width).product
    [] design = "div16"           -> <<r.quot, r.rem>>
    [] design = "isqrt32"         -> r.result % 2 ^ width
    [] design = "crc8"            -> r.crc
    [] design = "adler32"         -> <<r.s1, r.s2>>
    [] design = "matvec_2x2_int4" -> <<r.r0 % 256, r.r1 % 256>>
    [] design = "ray_hit_2d"      -> RayOut(r)
    [] design = "arbiter_rr"      -> ArbiterOut(r)

-----------------------------------------------------------------------------
\* A clock tick with start, of a design that has been reset.
AnswerAtOnce(v) ==
  /\ design = "xor_cipher16" \/ (design = "arbiter_rr" /\ v[2] = {})
  /\ data_out' = IF design = "arbiter_rr" THEN 8 ELSE Xor(v, CipherKey)
  /\ done' = TRUE
  /\ regs' = IF design = "arbiter_rr" THEN Written(Load(v), regs) ELSE regs
  /\ UNCHANGED state

Begin(v) ==
  /\ design # "xor_cipher16"
  /\ design = "arbiter_rr" => v[2] # {}
  /\ regs' = Written(Load(v), regs)
  /\ state' = "busy" /\ done' = FALSE
  /\ UNCHANGED data_out

\* Clock ticks without start.
Iterate ==
  /\ state = "busy"
  /\ regs' = Written(Loop(regs), regs)
  /\ IF LastLoop(regs) /\ design \notin TwoStage
     THEN data_out' = Out(regs) /\ done' = TRUE /\ state' = "idle"
     ELSE /\ state' = IF LastLoop(regs) THEN "result" ELSE "busy"
          /\ UNCHANGED <<data_out, done>>

GiveResult ==
  /\ state = "result"
  /\ data_out' = Out(regs) /\ done' = TRUE /\ state' = "idle"
  /\ UNCHANGED regs

-----------------------------------------------------------------------------
\* The testbench.
Init ==
  /\ \E r \in Runs : design = r[1] /\ width = r[2] /\ vectors = r[3]
  /\ pc = "start" /\ case = 0 /\ cycles = 0 /\ total = 0 /\ out = << >>
  /\ state = "idle" /\ regs = << >> /\ data_out = "unset" /\ done = FALSE

ReadVectors ==
  /\ pc = "start"
  /\ pc' = "case"
  /\ UNCHANGED <<run, case, cycles, total, out, dut>>

\* Faulty variant: the tick with start is not charged.
StartUncharged ==
  /\ pc = "case" /\ case < Len(vectors)
  /\ pc' = "wait" /\ cycles' = 0
  /\ AnswerAtOnce(data_in) \/ Begin(data_in)
  /\ UNCHANGED <<run, case, total, out>>

StartCase ==
  /\ pc = "case" /\ case < Len(vectors)
  /\ pc' = "wait" /\ cycles' = 1
  /\ AnswerAtOnce(data_in) \/ Begin(data_in)
  /\ UNCHANGED <<run, case, total, out>>

Tick ==
  /\ pc = "wait" /\ ~done /\ cycles < max_cycles_per_case
  /\ cycles' = cycles + 1
  /\ Iterate \/ GiveResult
  /\ UNCHANGED <<run, pc, case, total, out>>

Line(kind, n) == [kind |-> kind, n |-> n]
Prints(lines) == out' = out \o lines

\* The loop is over.  The tick after a right result drops done.
Judge ==
  /\ pc = "wait"
  /\ UNCHANGED <<run, cycles, state, regs, data_out>>
  /\ \/ /\ ~done /\ cycles >= max_cycles_per_case
        /\ pc' = "late"
        /\ Prints(<<Line("TIMEOUT", case), Line("TOTAL_CYCLES", total)>>)
        /\ UNCHANGED <<case, total, done>>
     \/ /\ done /\ data_out # Oracle(design, data_in, width)
        /\ pc' = "wrong"
        /\ Prints(<<Line("CASE", cycles), Line("INCORRECT", case), Line("TOTAL_CYCLES", total)>>)
        /\ UNCHANGED <<case, total, done>>
     \/ /\ done /\ data_out = Oracle(design, data_in, width)
        /\ pc' = "case" /\ case' = case + 1 /\ total' = total + cycles
        /\ Prints(<<Line("CASE", cycles)>>)
        /\ done' = FALSE

AllCasesPassed ==
  /\ pc = "case" /\ case = Len(vectors)
  /\ pc' = "ok"
  /\ Prints(<<Line("TOTAL_CYCLES", total), Line("OK", 0)>>)
  /\ UNCHANGED <<run, case, cycles, total, dut>>

Next == ReadVectors \/ StartCase \/ Tick \/ Judge \/ AllCasesPassed

Spec == Init /\ [][Next]_vars

-----------------------------------------------------------------------------
(***************************************************************************)
(* Registers keep to their ranges: k of gcd16 and count of popcount32 do   *)
(* not wrap around, the residues of adler32 are residues of 251, the       *)
(* iterations end where they should.                                       *)
(***************************************************************************)
RegsFit(r) ==
  LET Fits(field, bound) == field \in DOMAIN r => r[field] \in 0 .. bound - 1 IN
  /\ Fits("count", 2 * width) /\ Fits("k", width) /\ Fits("idx", width + 1)
  /\ Fits("a", 2 ^ width) /\ Fits("b", 2 ^ width)
  /\ Fits("quot", 2 ^ width) /\ Fits("rem", 2 ^ width)
  /\ Fits("s1", 251) /\ Fits("s2", 251)
  /\ Fits("offset", 10) /\ Fits("step", 6)

TypeOK ==
  /\ design \in Designs /\ width \in 1 .. TASK_REGISTRY[design].width
  /\ pc \in {"start", "case", "wait", "wrong", "late", "ok"}
  /\ case \in 0 .. Len(vectors)
  /\ cycles \in 0 .. max_cycles_per_case /\ total \in Nat
  /\ state \in {"idle", "busy", "result"} /\ done \in BOOLEAN
  /\ RegsFit(regs)

(***************************************************************************)
(* A reference design passes every case of the vector set, whatever the    *)
(* cases before it left in its registers (references.py: "simple,          *)
(* correct, not optimized").                                               *)
(***************************************************************************)
Correct == pc \notin {"wrong", "late"}

(***************************************************************************)
(* Between two iterations, what a design has so far and the oracle of what *)
(* is left of the input make the oracle of the input: the reason why its   *)
(* result is right.                                                        *)
(***************************************************************************)
Remaining(word, idx) == SubSeq(word, 1, width - idx)

IsqrtInv(r, v) ==
  LET s == 2 ^ (width - r.idx)
      root == r.result \div s   \* the bits found so far
  IN  /\ root * s = r.result /\ root % s = 0
      /\ root * root + r.n = v /\ v < (root + s) * (root + s)

DivInv(r, v) ==
  /\ r.rem < r.divisor /\ r.rem < 2 ^ r.idx
  /\ (r.quot * r.divisor + r.rem) * 2 ^ (width - r.idx) + r.dividend \div 2 ^ r.idx = v[1]

LoopInv ==
  (pc = "wait" /\ state # "idle") =>
    CASE design = "popcount32" ->
           regs.count + Popcount(Remaining(regs.shift, regs.idx)) = Popcount(data_in)
      [] design = "bitrev16" ->
           Reverse(Remaining(regs.in_sr, regs.idx)) \o SubSeq(regs.out_sr, 1, regs.idx)
             = Bitrev(data_in)
      [] design = "gcd16" ->
           Gcd(regs.a, regs.b) * 2 ^ regs.k = Gcd(data_in[1], data_in[2])
      [] design = "mul8" ->
           regs.product + regs.mcand * regs.mplier = data_in[1] * data_in[2]
      [] design = "div16" -> DivInv(regs, data_in)
      [] design = "isqrt32" -> IsqrtInv(regs, data_in)
      [] design = "crc8" ->
           FoldLeft(CrcBit, regs.crc, Remaining(regs.shift, regs.idx)) = Crc8(data_in)
      [] design = "adler32" ->
           FoldLeft(AdlerByte, <<regs.s1, regs.s2>>, Remaining(regs.data, regs.byte_idx))
             = Adler(data_in)
      [] design = "arbiter_rr" ->
           /\ \A k \in 1 .. regs.offset - 1 : (regs.last + k) % 8 \notin regs.req
           /\ regs.offset = 8 => ArbiterFound(regs)
      [] OTHER -> TRUE

(***************************************************************************)
(* The cycles a case is charged.  For the designs whose time does not      *)
(* depend on the input they make up baseline_cycles over a vector set of   *)
(* the real width (references.py: "baseline_cycles values are total cycles *)
(* across all test vectors at seed=0"), so that the reference design       *)
(* scores 0.5 on every seed; gcd16 takes a cycle per bit of its operands   *)
(* at most, arbiter_rr one per index.                                      *)
(***************************************************************************)
Latency(w) ==
  CASE design \in {"popcount32", "bitrev16", "mul8"} -> w + 1
    [] design \in TwoStage -> w + 2
    [] design \in {"matvec_2x2_int4", "ray_hit_2d"} -> 6
    [] design = "xor_cipher16" -> 1

ChargedAsBaseline ==
  LET task == TASK_REGISTRY[design] IN
  (pc = "wait" /\ done) =>
    CASE design = "gcd16"      -> cycles <= 2 * width + 1
      [] design = "arbiter_rr" -> cycles <= 9
      [] OTHER -> /\ cycles = Latency(width)
                  /\ Latency(task.width) * Cases(design, width) = task.baseline_cycles

(***************************************************************************)
(* The oracles of tasks.py are what the prompts ask for: the divisor is    *)
(* the greatest (gcd16), the root the largest (isqrt32), the grant the     *)
(* first request strictly after last (arbiter_rr), and so on.              *)
(***************************************************************************)
Described(v, result) ==
  CASE design = "bitrev16" -> \A i \in 1 .. width : result[i] = v[width + 1 - i]
    [] design = "gcd16" ->
         result = Max({n \in 1 .. v[1] : v[1] % n = 0 /\ v[2] % n = 0})
    [] design = "div16" ->
         v[1] = result[1] * v[2] + result[2] /\ result[2] < v[2] /\ result[1] < 2 ^ width
    [] design = "isqrt32" -> result * result <= v /\ v < (result + 1) * (result + 1)
    [] design = "xor_cipher16" -> XorCipher(result) = v
    [] design = "adler32" ->
         /\ result[1] = (1 + v[1] + v[2] + v[3] + v[4]) % 251
         /\ result[2] = (4 + 4 * v[1] + 3 * v[2] + 2 * v[3] + v[4]) % 251
    [] design = "arbiter_rr" ->
         /\ (result = 8) <=> (v[2] = {})
         /\ v[2] # {} =>
              /\ result \in v[2]
              /\ \A i \in v[2] : (result - v[1] - 1) % 8 <= (i - v[1] - 1) % 8
    [] OTHER -> TRUE

AsDescribed ==
  (pc = "wait" /\ cycles = 1) => Described(data_in, Oracle(design, data_in, width))

(***************************************************************************)
(* A reference design in the testbench is a run of Harness, where any      *)
(* design is: it ticks, judges, counts and prints the same, so that what   *)
(* Harness says of accepted simulations is true of the references.         *)
(***************************************************************************)
Ended == pc \in {"wrong", "late", "ok"}

\* What write_vectors_bin writes before the words.
Headers == {<<Len(r[3]), TASK_REGISTRY[r[1]].max_cycles_per_case>> : r \in Runs}

H == INSTANCE Harness WITH
  NValidationSeeds <- 0, FormatBonus <- FALSE,
  Submissions <- {}, StageResults <- {}, SimResults <- {},
  VectorSets <- Headers,
  MaxOutputLines <- 0, DesignLines <- {}, MaxDisplays <- 0,
  pc <- IF Ended THEN "exiting" ELSE pc,
  n_cases <- IF pc = "start" THEN -1 ELSE Len(vectors),
  max_cycles_per_case <- IF pc = "start" THEN 0 ELSE max_cycles_per_case,
  done <- done \/ (case > 0 /\ pc \in {"case", "ok"}),
  right <- 0 .. case - 1,
  ticks <- total + (IF pc \in {"wait", "wrong", "late"} THEN cycles ELSE 0),
  displayed <- << >>,
  result <- [timed_out |-> FALSE, lines |-> {}, total |-> -1]

DrivenByHarness == H!Spec
=============================================================================
