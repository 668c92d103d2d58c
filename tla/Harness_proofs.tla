--------------------------- MODULE Harness_proofs ---------------------------
(***************************************************************************)
(* Theorems about Harness for any vectors files, any limit of the output   *)
(* and any lines the design may print.                                     *)
(*                                                                         *)
(* The argument: unless the design prints one, OK is the last line there   *)
(* can be, after the total, and cutting the output cannot make another     *)
(* line one.  So an OK that is found was printed, the output is whole, and *)
(* its first total is total_cycles or the design's.  A case that fails     *)
(* leaves a marker no other line undoes.                                   *)
(***************************************************************************)
EXTENDS Harness, SequenceTheorems, WellFoundedInduction, TLAPS

-----------------------------------------------------------------------------
\* Lines of the cases and of the design, none of the testbench's verdict.
BeforeEnd(kind) == kind = "CASE" \/ Displayed(kind)

\* OK ends the output o.
OkIsLast(o) == \A i \in DOMAIN o : o[i].kind = "OK" => i = Len(o)

\* What is printed of a run: line by line, before and after.
LEMMA PrintedLines ==
  ASSUME NEW o \in Seq(OutLine), NEW more \in Seq(OutLine)
  PROVE  /\ o \o more \in Seq(OutLine)
         /\ Len(o \o more) = Len(o) + Len(more)
         /\ \A i \in 1 .. Len(o) : (o \o more)[i] = o[i]
         /\ \A i \in 1 .. Len(more) : (o \o more)[Len(o) + i] = more[i]
  BY ConcatProperties

\* The search for the total finds a number or nothing.
LEMMA FirstTotalType ==
  ASSUME NEW o \in Seq(OutLine)
  PROVE  FirstTotal(o) \in Nat \cup {NoTotal}
<1> DEFINE T == {i \in DOMAIN o : o[i].kind = "TOTAL_CYCLES"}
<1>1. T \subseteq DOMAIN o /\ T \subseteq Nat
  OBVIOUS
<1>2. CASE T = {}
  BY <1>2 DEF FirstTotal
<1>3. CASE T # {}
  <2>1. PICK m \in T : \A j \in T : <<j, m>> \notin OpToRel(<, Nat)
    BY <1>1, <1>3, WFMin, NatLessThanWellFounded, Zenon
  <2>2. \A j \in T : m <= j
    <3> SUFFICES ASSUME NEW j \in T, j < m PROVE FALSE
      BY <1>1
    <3> QED
      BY <1>1, <2>1 DEF OpToRel
  <2>3. Min(T) \in T
    BY <2>2 DEF Min
  <2>4. o[Min(T)] \in OutLine
    BY <1>1, <2>3, ElementOfSeq
  <2> QED
    BY <1>3, <2>4 DEF FirstTotal, OutLine
<1> QED
  BY <1>2, <1>3

\* Where only one line has a total, that is the one.
LEMMA OnlyTotal ==
  ASSUME NEW o \in Seq(OutLine), NEW t \in DOMAIN o, o[t].kind = "TOTAL_CYCLES",
         \A i \in DOMAIN o : o[i].kind = "TOTAL_CYCLES" => i = t
  PROVE  FirstTotal(o) = o[t].n
<1> DEFINE T == {i \in DOMAIN o : o[i].kind = "TOTAL_CYCLES"}
<1>1. T = {t} /\ t \in Nat
  OBVIOUS
<1>2. Min({t}) = t
  BY <1>1 DEF Min
<1> QED
  BY <1>1, <1>2 DEF FirstTotal

LEMMA FoundType ==
  ASSUME NEW o \in Seq(OutLine), NEW b \in BOOLEAN
  PROVE  Found(b, o) \in SimResult
BY FirstTotalType DEF Found, SimResult

-----------------------------------------------------------------------------
\* What is left of a line that is cut is an OK only if it was one.
LEMMA CutLineHasOk ==
  ASSUME NEW l \in OutLine, NEW rest \in CutLine(l)
  PROVE  /\ rest \in Seq(OutLine) /\ Len(rest) \in {0, 1}
         /\ (Len(rest) = 1 /\ rest[1].kind = "OK") => rest[1] = l
<1>1. CASE rest = << >>
  BY <1>1, EmptySeq
<1>2. CASE rest # << >> /\ l.kind = "OK"
  <2>1. rest = <<l>>
    BY <1>2 DEF CutLine
  <2> QED
    BY <2>1
<1>3. CASE rest # << >> /\ l.kind # "OK"
  <2>1. PICK n \in 0 .. l.n : rest = <<Line(l.kind, n)>>
    BY <1>3 DEF CutLine
  <2>2. Line(l.kind, n) \in OutLine
    BY DEF Line, OutLine
  <2> QED
    BY <1>3, <2>1, <2>2 DEF Line
<1> QED
  BY <1>1, <1>2, <1>3

\* An output whose only OK can be its last line, and that is cut, has an OK
\* only if nothing is lost.
LEMMA CutHasOk ==
  ASSUME NEW o \in Seq(OutLine), NEW k \in 0 .. Len(o), NEW c \in Cut(o, k)
  PROVE  /\ c \in Seq(OutLine)
         /\ (OkIsLast(o) /\ "OK" \in Kinds(c)) => c = o
<1> DEFINE s == SubSeq(o, 1, k)
<1>1. /\ s \in Seq(OutLine) /\ Len(s) = k
      /\ \A i \in 1 .. k : s[i] = o[i]
  <2>1. \A i \in 1 .. k : o[i] \in OutLine
    BY ElementOfSeq
  <2> QED
    BY <2>1, SubSeqProperties
<1>2. CASE k = Len(o)
  <2>1. c = s \o << >>
    BY <1>2 DEF Cut
  <2>2. c = o
    BY <1>1, <1>2, <2>1, SubSeqFull, ConcatEmptySeq
  <2> QED
    BY <2>2
<1>3. CASE k < Len(o)
  <2>1. PICK rest \in CutLine(o[k + 1]) : c = s \o rest
    BY <1>3 DEF Cut
  <2>2. o[k + 1] \in OutLine
    BY <1>3, ElementOfSeq
  <2>3. /\ rest \in Seq(OutLine) /\ Len(rest) \in {0, 1}
        /\ (Len(rest) = 1 /\ rest[1].kind = "OK") => rest[1] = o[k + 1]
    BY <2>1, <2>2, CutLineHasOk
  <2> HIDE DEF s
  <2>4. /\ c \in Seq(OutLine) /\ Len(c) = k + Len(rest)
        /\ \A i \in 1 .. k : c[i] = o[i]
        /\ \A i \in 1 .. Len(rest) : c[k + i] = rest[i]
    BY <1>1, <2>1, <2>3, PrintedLines
  <2>5. ASSUME OkIsLast(o), NEW i \in DOMAIN c, c[i].kind = "OK"
        PROVE  c = o
    <3>1. i > k
      BY <1>3, <2>4, <2>5 DEF OkIsLast
    <3>2. i \in 1 .. Len(c) /\ k \in Int /\ Len(c) = k + Len(rest)
      BY <2>4, <2>5, LenProperties
    <3>3. Len(rest) # 0
      BY <3>1, <3>2
    <3>4. Len(rest) = 1
      BY ONLY <2>3, <3>3
    <3>5. i = k + 1
      BY <3>1, <3>2, <3>4
    <3>6. c[k + 1] = rest[1]
      BY <2>4, <3>4
    <3>7. c[k + 1] = o[k + 1] /\ o[k + 1].kind = "OK"
      BY <2>3, <2>5, <3>4, <3>5, <3>6
    <3>8. Len(o) = k + 1 /\ Len(c) = k + 1
      BY <1>3, <3>2, <3>4, <2>5, <3>7 DEF OkIsLast
    <3>9. \A n \in 1 .. Len(c) : c[n] = o[n]
      BY <2>4, <3>7, <3>8
    <3> QED
      BY <2>4, <3>8, <3>9, SeqEqual
  <2> QED
    BY <2>4, <2>5 DEF Kinds
<1> QED
  BY <1>2, <1>3

LEMMA TruncationHasOk ==
  ASSUME NEW o \in Seq(OutLine), NEW t \in Truncations(o)
  PROVE  /\ t \in Seq(OutLine)
         /\ (OkIsLast(o) /\ "OK" \in Kinds(t)) => t = o
<1>1. CASE Len(o) <= MaxOutputLines
  BY <1>1 DEF Truncations
<1>2. CASE ~(Len(o) <= MaxOutputLines)
  <2>1. MaxOutputLines \in 0 .. Len(o)
    BY <1>2, HarnessAssumption
  <2> QED
    BY <1>2, <2>1, CutHasOk DEF Truncations
<1> QED
  BY <1>1, <1>2

-----------------------------------------------------------------------------
\* The counters, the history and the case the testbench is at.
Counts ==
  /\ right = 0 .. case - 1
  /\ pc = "start" => n_cases = NotRead
  /\ n_cases = NotRead => /\ case = 0 /\ total = 0 /\ pc \notin {"case", "wait"}
                          /\ displayed = << >>
  /\ pc \in {"start", "case"} => ticks = total
  /\ pc = "wait" => /\ case < n_cases /\ ticks = total + cycles
                    /\ 1 <= cycles /\ (cycles <= max_cycles_per_case \/ cycles = 1)
  /\ case <= total
  /\ max_cycles_per_case > 0 => total <= case * max_cycles_per_case

\* The output of a run that has passed, and of one that has not.
Passed ==
  /\ n_cases # NotRead /\ case = n_cases /\ ticks = total
  /\ Len(out) >= 2
  /\ out[Len(out)] = Line("OK", 0)
  /\ out[Len(out) - 1] = Line("TOTAL_CYCLES", total)
  /\ \A j \in 1 .. Len(out) - 2 : BeforeEnd(out[j].kind)

FailureOfCase == IF done THEN "INCORRECT" ELSE "TIMEOUT"

Stopped ==
  /\ n_cases = NotRead \/ case < n_cases
  /\ "OK" \in Kinds(out) => Displayed("OK")
  /\ "TIMEOUT" \in Kinds(out) => Displayed("TIMEOUT") \/ (~done /\ n_cases # NotRead)
  /\ n_cases # NotRead => FailureOfCase \in Kinds(out)

Lines ==
  /\ pc \in {"start", "case", "wait"} => \A j \in DOMAIN out : BeforeEnd(out[j].kind)
  /\ pc = "exiting" => Passed \/ Stopped

Judged == AcceptedIsEarned /\ FailureIsFinal /\ MeasureInRange /\ EarnedIsAccepted

IInv == TypeOK /\ Counts /\ Lines /\ Judged

-----------------------------------------------------------------------------
\* What the testbench appends to the output.
LEMMA PrintsLines ==
  ASSUME out \in Seq(OutLine), NEW more \in Seq(OutLine), Prints(more)
  PROVE  /\ out' \in Seq(OutLine)
         /\ Len(out') = Len(out) + Len(more)
         /\ \A j \in 1 .. Len(out) : out'[j] = out[j]
         /\ \A j \in 1 .. Len(more) : out'[Len(out) + j] = more[j]
BY PrintedLines DEF Prints

LEMMA LineType ==
  ASSUME NEW n \in Nat,
         NEW kind \in {"CASE", "TOTAL_CYCLES", "INCORRECT", "TIMEOUT", "OK", "OTHER"}
  PROVE  Line(kind, n) \in OutLine /\ Line(kind, n).kind = kind /\ Line(kind, n).n = n
BY DEF Line, OutLine

\* A step that ends nothing has no result to account for.
LEMMA NotOver ==
  ASSUME ~Over'
  PROVE  Judged'
BY DEF Judged, AcceptedIsEarned, FailureIsFinal, MeasureInRange, EarnedIsAccepted, Accepted, Over

\* Before the process ends, an OK that is not the design's is the last line,
\* and all cases have passed.
LEMMA OkOnlyIfPassed ==
  ASSUME TypeOK, Lines, pc \in {"start", "case", "wait", "exiting"}, ~Displayed("OK")
  PROVE  OkIsLast(out) /\ ("OK" \in Kinds(out) => Passed)
<1>1. CASE pc # "exiting"
  BY <1>1 DEF Lines, BeforeEnd, OkIsLast, Kinds
<1>2. CASE pc = "exiting" /\ Stopped
  BY <1>2 DEF Stopped, OkIsLast, Kinds
<1>3. CASE pc = "exiting" /\ Passed
  <2>1. Line("TOTAL_CYCLES", total).kind = "TOTAL_CYCLES"
    BY DEF Line
  <2>2. ASSUME NEW j \in DOMAIN out, j # Len(out)
        PROVE  out[j].kind # "OK"
    <3>1. CASE j = Len(out) - 1
      BY <1>3, <2>1, <3>1 DEF Passed
    <3>2. CASE j \in 1 .. Len(out) - 2
      BY <1>3, <3>2 DEF Passed, BeforeEnd
    <3> QED
      BY <2>2, <3>1, <3>2 DEF TypeOK
  <2> QED
    BY <1>3, <2>2 DEF OkIsLast
<1> QED
  BY <1>1, <1>2, <1>3 DEF Lines

\* The total found in the whole output of a run that has passed.
LEMMA TotalOfPassed ==
  ASSUME TypeOK, Passed, ~Displayed("TOTAL_CYCLES")
  PROVE  FirstTotal(out) = total
<1>1. /\ Len(out) - 1 \in DOMAIN out
      /\ out[Len(out) - 1] = Line("TOTAL_CYCLES", total)
      /\ out[Len(out)] = Line("OK", 0)
  BY DEF Passed, TypeOK
<1>2. ASSUME NEW j \in DOMAIN out, out[j].kind = "TOTAL_CYCLES"
      PROVE  j = Len(out) - 1
  <2>1. j # Len(out)
    BY <1>1, <1>2, LineType
  <2>2. j \notin 1 .. Len(out) - 2
    BY <1>2 DEF Passed, BeforeEnd
  <2> QED
    BY <2>1, <2>2 DEF TypeOK
<1> QED
  BY <1>1, <1>2, OnlyTotal, LineType DEF TypeOK

\* A result made of an output with the OK that the testbench printed, if any.
LEMMA EarnedResult ==
  ASSUME TypeOK, Counts, Lines, pc \in {"start", "case", "wait", "exiting"},
         NEW o \in Seq(OutLine), "OK" \in Kinds(o) => o = out,
         NEW b \in BOOLEAN, ~Fails(Found(b, o)), ~Displayed("OK")
  PROVE  /\ AllRight /\ case = n_cases /\ ticks = total
         /\ Displayed("TOTAL_CYCLES") \/ Cycles(Found(b, o)) = ticks
<1>1. "OK" \in Kinds(o)
  BY DEF Fails, Wrong, Parse, Found
<1>2. o = out /\ Passed
  BY <1>1, OkOnlyIfPassed
<1>3. ~Displayed("TOTAL_CYCLES") => Cycles(Found(b, o)) = total
  BY <1>2, TotalOfPassed DEF Cycles, Parse, Found, TypeOK, NoTotal
<1> QED
  BY <1>2, <1>3 DEF Passed, AllRight, Counts

\* The end of the process, with any such result.
LEMMA EndsWithResult ==
  ASSUME TypeOK, Counts, Lines, pc \in {"start", "case", "wait", "exiting"},
         UNCHANGED <<file, case, cycles, done, total, out, right, ticks, displayed>>,
         pc' \in {"exited", "killed"},
         NEW o \in Seq(OutLine), ~Displayed("OK") => ("OK" \in Kinds(o) => o = out),
         NEW b \in BOOLEAN, result' = Found(b, o)
  PROVE  (TypeOK /\ Counts /\ Lines /\ AcceptedIsEarned /\ MeasureInRange)'
<1>1. TypeOK'
  BY FoundType DEF TypeOK, file
<1>2. Counts'
  BY DEF Counts, file
<1>3. Lines'
  BY DEF Lines
<1>4. AcceptedIsEarned' /\ MeasureInRange'
  <2>0. \A kind : Displayed(kind)' = Displayed(kind)
    BY DEF Displayed
  <2> SUFFICES ASSUME Accepted', ~Displayed("OK")
               PROVE  AcceptedIsEarned' /\ MeasureInRange'
    BY <2>0 DEF AcceptedIsEarned, MeasureInRange
  <2>1. ~Fails(Found(b, o))
    BY DEF Accepted
  <2>2. /\ AllRight /\ case = n_cases /\ ticks = total
        /\ Displayed("TOTAL_CYCLES") \/ Cycles(Found(b, o)) = ticks
    BY <2>1, EarnedResult
  <2>3. AllRight' /\ (Displayed("TOTAL_CYCLES") \/ Cycles(result') = ticks')
    BY <2>2 DEF AllRight, file
  <2>4. case <= total /\ (max_cycles_per_case > 0 => total <= case * max_cycles_per_case)
    BY DEF Counts
  <2>5. AcceptedIsEarned'
    BY <2>0, <2>3 DEF AcceptedIsEarned
  <2>6. MeasureInRange'
    BY <2>0, <2>2, <2>3, <2>4 DEF MeasureInRange, file
  <2> QED
    BY <2>5, <2>6
<1> QED
  BY <1>1, <1>2, <1>3, <1>4

-----------------------------------------------------------------------------
LEMMA ReadVectorsStep == IInv /\ ReadVectors => IInv'
<1> SUFFICES ASSUME IInv, ReadVectors PROVE IInv'
  OBVIOUS
<1>0. case = 0 /\ total = 0
  BY DEF ReadVectors, IInv, Counts
<1>1. n_cases' \in Nat /\ max_cycles_per_case' \in Nat
  BY HarnessAssumption DEF ReadVectors
<1>2. TypeOK'
  BY <1>0, <1>1 DEF ReadVectors, IInv, TypeOK, NotRead
<1>3. Counts'
  BY <1>0, <1>1 DEF ReadVectors, IInv, Counts, TypeOK, NotRead
<1>4. Lines'
  BY DEF ReadVectors, IInv, Lines, BeforeEnd, Displayed
<1> QED
  BY <1>2, <1>3, <1>4, NotOver DEF ReadVectors, IInv, Over

LEMMA BadVectorsStep == IInv /\ BadVectors => IInv'
<1> SUFFICES ASSUME IInv, BadVectors PROVE IInv'
  OBVIOUS
<1>1. TypeOK' /\ Counts'
  BY DEF BadVectors, IInv, TypeOK, Counts, file
<1>2. Stopped'
  <2>1. \A kind \in Kinds(out) : kind = "CASE" \/ Displayed(kind)
    BY DEF BadVectors, IInv, Lines, BeforeEnd, Kinds
  <2>2. UNCHANGED <<n_cases, out, displayed>> /\ n_cases = NotRead
    BY DEF BadVectors, IInv, Counts, file
  <2> QED
    BY <2>1, <2>2 DEF Stopped, Displayed
<1> QED
  BY <1>1, <1>2, NotOver DEF BadVectors, IInv, Lines, Over

LEMMA StartCaseStep == IInv /\ StartCase => IInv'
<1> SUFFICES ASSUME IInv, StartCase PROVE IInv'
  OBVIOUS
<1>1. TypeOK'
  BY DEF StartCase, IInv, TypeOK, file
<1>2. Counts'
  BY DEF StartCase, IInv, Counts, TypeOK, file
<1>3. Lines'
  BY DEF StartCase, IInv, Lines, BeforeEnd, Displayed
<1> QED
  BY <1>1, <1>2, <1>3, NotOver DEF StartCase, IInv, Over

LEMMA TickStep == IInv /\ Tick => IInv'
<1> SUFFICES ASSUME IInv, Tick PROVE IInv'
  OBVIOUS
<1>1. TypeOK'
  BY DEF Tick, IInv, TypeOK, file
<1>2. Counts'
  BY DEF Tick, IInv, Counts, TypeOK, file
<1>3. Lines'
  BY DEF Tick, IInv, Lines, BeforeEnd, Displayed
<1> QED
  BY <1>1, <1>2, <1>3, NotOver DEF Tick, IInv, Over

\* The kinds of lines of an output made of two.
LEMMA KindsOfBoth ==
  ASSUME NEW o \in Seq(OutLine), NEW more \in Seq(OutLine)
  PROVE  Kinds(o \o more) = Kinds(o) \cup Kinds(more)
<1> DEFINE both == o \o more
<1>1. /\ both \in Seq(OutLine)
      /\ Len(both) = Len(o) + Len(more)
      /\ \A j \in 1 .. Len(o) : both[j] = o[j]
      /\ \A j \in 1 .. Len(more) : both[Len(o) + j] = more[j]
  BY PrintedLines
<1> HIDE DEF both
<1>2. ASSUME NEW j \in DOMAIN both PROVE both[j].kind \in Kinds(o) \cup Kinds(more)
  <2>1. CASE j \in 1 .. Len(o)
    BY <1>1, <2>1 DEF Kinds
  <2>2. CASE j > Len(o)
    <3>1. j - Len(o) \in 1 .. Len(more) /\ j = Len(o) + (j - Len(o))
      BY <1>1, <1>2, <2>2
    <3> QED
      BY <1>1, <3>1 DEF Kinds
  <2> QED
    BY <1>1, <1>2, <2>1, <2>2
<1>3. ASSUME NEW j \in DOMAIN o PROVE o[j].kind \in Kinds(both)
  <2>1. j \in 1 .. Len(o) /\ j \in DOMAIN both /\ both[j] = o[j]
    BY <1>1, <1>3
  <2> QED
    BY <2>1 DEF Kinds
<1>4. ASSUME NEW j \in DOMAIN more PROVE more[j].kind \in Kinds(both)
  <2>1. Len(o) + j \in DOMAIN both /\ both[Len(o) + j] = more[j]
    BY <1>1, <1>4
  <2> QED
    BY <2>1 DEF Kinds
<1>5. Kinds(both) = Kinds(o) \cup Kinds(more)
  BY <1>2, <1>3, <1>4 DEF Kinds
<1> QED
  BY <1>5 DEF both

LEMMA DisplayStep == IInv /\ Display => IInv'
<1> SUFFICES ASSUME IInv, Display PROVE IInv'
  OBVIOUS
<1>1. PICK l \in DesignLines : Prints(<<l>>) /\ displayed' = Append(displayed, l)
  BY DEF Display
<1>2. /\ l \in OutLine /\ <<l>> \in Seq(OutLine)
      /\ out \in Seq(OutLine) /\ displayed \in Seq(OutLine)
  BY HarnessAssumption DEF IInv, TypeOK
<1>3. displayed' \in Seq(OutLine) /\ displayed' = displayed \o <<l>>
  BY <1>1, <1>2, AppendProperties, AppendIsConcat
<1>4. Kinds(<<l>>) = {l.kind}
  BY DEF Kinds
<1>5. out' \in Seq(OutLine) /\ Kinds(out') = Kinds(out) \cup {l.kind}
  BY <1>1, <1>2, <1>4, KindsOfBoth, PrintedLines DEF Prints
<1>6. Kinds(displayed') = Kinds(displayed) \cup {l.kind}
  <2>1. Kinds(displayed \o <<l>>) = Kinds(displayed) \cup Kinds(<<l>>)
    BY <1>2, KindsOfBoth
  <2> QED
    BY <1>3, <1>4, <2>1
<1>7. TypeOK'
  BY <1>3, <1>5 DEF Display, IInv, TypeOK, file
<1>8. Counts'
  BY DEF Display, IInv, Counts, file
<1>9. Lines'
  <2>1. \A kind \in Kinds(out) : kind = "CASE" \/ kind \in Kinds(displayed)
    BY DEF Display, IInv, Lines, BeforeEnd, Displayed, Kinds
  <2>2. \A kind \in Kinds(out') : kind = "CASE" \/ kind \in Kinds(displayed')
    BY <1>5, <1>6, <2>1
  <2>3. \A j \in DOMAIN out' : out'[j].kind \in Kinds(out')
    BY DEF Kinds
  <2> QED
    BY <2>2, <2>3 DEF Display, Lines, BeforeEnd, Displayed
<1> QED
  BY <1>7, <1>8, <1>9, NotOver DEF Display, IInv, Over

LEMMA RightOutputStep == IInv /\ RightOutput => IInv'
<1> SUFFICES ASSUME IInv, RightOutput PROVE IInv'
  OBVIOUS
<1>0. cycles \in Nat /\ total \in Nat /\ case \in Nat /\ case < n_cases /\ n_cases \in Nat
  BY DEF RightOutput, IInv, TypeOK, Counts, NotRead
<1> DEFINE more == <<Line("CASE", cycles)>>
<1>1. more \in Seq(OutLine) /\ Len(more) = 1 /\ more[1] = Line("CASE", cycles)
  BY <1>0, LineType
<1>2. /\ out' \in Seq(OutLine)
      /\ Len(out') = Len(out) + 1
      /\ \A j \in 1 .. Len(out) : out'[j] = out[j]
      /\ out'[Len(out) + 1] = Line("CASE", cycles)
  <2>1. Prints(more) /\ out \in Seq(OutLine)
    BY DEF RightOutput, IInv, TypeOK
  <2> HIDE DEF more
  <2>2. /\ out' \in Seq(OutLine)
        /\ Len(out') = Len(out) + Len(more)
        /\ \A j \in 1 .. Len(out) : out'[j] = out[j]
        /\ \A j \in 1 .. Len(more) : out'[Len(out) + j] = more[j]
    BY <1>1, <2>1, PrintsLines
  <2> QED
    BY <1>1, <2>2
<1>3. TypeOK'
  <2>1. out' \in Seq(OutLine)
    BY <1>2
  <2> QED
    BY <1>0, <2>1 DEF RightOutput, IInv, TypeOK, file
<1>4. Counts'
  <2>1. right' = 0 .. case' - 1
    BY <1>0 DEF RightOutput, IInv, Counts
  <2>2. case + 1 <= total + cycles
    BY <1>0 DEF RightOutput, IInv, Counts
  <2>3. ASSUME max_cycles_per_case > 0
        PROVE  total + cycles <= (case + 1) * max_cycles_per_case
    <3>1. max_cycles_per_case \in Nat
      BY DEF IInv, TypeOK
    <3>2. total <= case * max_cycles_per_case /\ cycles <= max_cycles_per_case
      BY <2>3, <3>1 DEF RightOutput, IInv, Counts
    <3>3. (case + 1) * max_cycles_per_case = case * max_cycles_per_case + max_cycles_per_case
      BY <1>0, <3>1
    <3>4. case * max_cycles_per_case \in Nat
      BY <1>0, <3>1
    <3> QED
      BY <1>0, <3>1, <3>2, <3>3, <3>4
  <2> QED
    BY <1>0, <2>1, <2>2, <2>3 DEF RightOutput, IInv, Counts, file, NotRead
<1>5. Lines'
  <2>1. \A j \in DOMAIN out : BeforeEnd(out[j].kind)
    BY DEF RightOutput, IInv, Lines
  <2>2. out \in Seq(OutLine)
    BY DEF IInv, TypeOK
  <2>3. ASSUME NEW j \in DOMAIN out' PROVE BeforeEnd(out'[j].kind)
    <3>1. CASE j = Len(out) + 1
      BY <1>0, <1>2, <3>1, LineType DEF BeforeEnd
    <3>2. CASE j \in 1 .. Len(out)
      BY <1>2, <2>1, <2>2, <3>2
    <3> QED
      BY <1>2, <2>2, <2>3, <3>1, <3>2
  <2> QED
    BY <2>3 DEF RightOutput, Lines, BeforeEnd, Displayed
<1> QED
  BY <1>3, <1>4, <1>5, NotOver DEF RightOutput, IInv, Over

\* A case that fails ends the run: done says why.
LEMMA StopsStep ==
  ASSUME IInv, pc = "wait", pc' = "exiting",
         UNCHANGED <<file, case, cycles, done, total, right, ticks, displayed, result>>,
         NEW more \in Seq(OutLine), Prints(more),
         "OK" \notin Kinds(more), "TIMEOUT" \in Kinds(more) <=> ~done,
         FailureOfCase \in Kinds(more)
  PROVE  IInv'
<1>1. out' \in Seq(OutLine) /\ Kinds(out') = Kinds(out) \cup Kinds(more)
  BY PrintsLines, KindsOfBoth DEF IInv, TypeOK, Prints
<1>2. TypeOK' /\ Counts'
  BY <1>1 DEF IInv, TypeOK, Counts, file
<1>3. Stopped'
  <2>1. \A kind \in Kinds(out) : kind = "CASE" \/ Displayed(kind)
    BY DEF IInv, Lines, BeforeEnd, Kinds
  <2>2. case < n_cases /\ n_cases # NotRead
    BY DEF IInv, Counts
  <2>3. FailureOfCase' \in Kinds(out')
    BY <1>1 DEF FailureOfCase
  <2>4. "OK" \in Kinds(out') => Displayed("OK")'
    BY <1>1, <2>1 DEF Displayed
  <2>5. "TIMEOUT" \in Kinds(out') => Displayed("TIMEOUT")' \/ ~done'
    BY <1>1, <2>1 DEF Displayed
  <2> QED
    BY <2>2, <2>3, <2>4, <2>5 DEF Stopped, file
<1> QED
  BY <1>2, <1>3, NotOver DEF IInv, Lines, Over

LEMMA NotFinishedStep == IInv /\ NotFinished => IInv'
<1> SUFFICES ASSUME IInv, NotFinished PROVE IInv'
  OBVIOUS
<1> DEFINE more == <<Line("TIMEOUT", case), Line("TOTAL_CYCLES", total)>>
<1>1. more \in Seq(OutLine)
  BY LineType DEF IInv, TypeOK
<1>2. Kinds(more) = {"TIMEOUT", "TOTAL_CYCLES"}
  BY DEF Kinds, Line
<1>3. Prints(more) /\ ~done /\ pc = "wait" /\ pc' = "exiting"
  BY DEF NotFinished
<1>4. UNCHANGED <<file, case, cycles, done, total, right, ticks, displayed, result>>
  BY DEF NotFinished
<1> HIDE DEF more
<1> QED
  BY <1>1, <1>2, <1>3, <1>4, StopsStep DEF FailureOfCase

LEMMA WrongOutputStep == IInv /\ WrongOutput => IInv'
<1> SUFFICES ASSUME IInv, WrongOutput PROVE IInv'
  OBVIOUS
<1> DEFINE more ==
      <<Line("CASE", cycles), Line("INCORRECT", case), Line("TOTAL_CYCLES", total)>>
<1>1. more \in Seq(OutLine)
  BY LineType DEF IInv, TypeOK
<1>2. Kinds(more) = {"CASE", "INCORRECT", "TOTAL_CYCLES"}
  BY DEF Kinds, Line
<1>3. Prints(more) /\ done /\ pc = "wait" /\ pc' = "exiting"
  BY DEF WrongOutput
<1>4. UNCHANGED <<file, case, cycles, done, total, right, ticks, displayed, result>>
  BY DEF WrongOutput
<1> HIDE DEF more
<1> QED
  BY <1>1, <1>2, <1>3, <1>4, StopsStep DEF FailureOfCase

LEMMA AllCasesPassedStep == IInv /\ AllCasesPassed => IInv'
<1> SUFFICES ASSUME IInv, AllCasesPassed PROVE IInv'
  OBVIOUS
<1> DEFINE more == <<Line("TOTAL_CYCLES", total), Line("OK", 0)>>
<1>1. /\ more \in Seq(OutLine) /\ Len(more) = 2
      /\ more[1] = Line("TOTAL_CYCLES", total) /\ more[2] = Line("OK", 0)
  BY LineType DEF IInv, TypeOK
<1>2. Prints(more) /\ out \in Seq(OutLine)
  BY DEF AllCasesPassed, IInv, TypeOK
<1> HIDE DEF more
<1>3. /\ out' \in Seq(OutLine)
      /\ Len(out') = Len(out) + Len(more)
      /\ \A j \in 1 .. Len(out) : out'[j] = out[j]
      /\ \A j \in 1 .. Len(more) : out'[Len(out) + j] = more[j]
  BY <1>1, <1>2, PrintsLines
<1>4. Len(out) \in Nat /\ Len(out') = Len(out) + 2
  BY <1>1, <1>2, <1>3
<1>5. out'[Len(out) + 1] = Line("TOTAL_CYCLES", total) /\ out'[Len(out) + 2] = Line("OK", 0)
  BY <1>1, <1>3
<1>6. TypeOK' /\ Counts'
  BY <1>3 DEF AllCasesPassed, IInv, TypeOK, Counts, file
<1>7. Passed'
  <2>1. \A j \in 1 .. Len(out) : BeforeEnd(out[j].kind)
    BY <1>2 DEF AllCasesPassed, IInv, Lines
  <2>2. n_cases # NotRead /\ case = n_cases /\ ticks = total
    BY DEF AllCasesPassed, IInv, Counts
  <2>3. UNCHANGED <<n_cases, case, ticks, total, displayed>>
    BY DEF AllCasesPassed, file
  <2>4. Len(out') >= 2 /\ Len(out') - 1 = Len(out) + 1 /\ Len(out') - 2 = Len(out)
    BY <1>4
  <2>5. \A j \in 1 .. Len(out') - 2 : out'[j].kind = "CASE" \/ Displayed(out'[j].kind)
    BY <1>3, <2>1, <2>4 DEF BeforeEnd
  <2>6. out'[Len(out')] = Line("OK", 0) /\ out'[Len(out') - 1] = Line("TOTAL_CYCLES", total)
    BY <1>4, <1>5, <2>4
  <2> QED
    BY <2>2, <2>3, <2>4, <2>5, <2>6 DEF Passed, Line, BeforeEnd, Displayed
<1> QED
  BY <1>6, <1>7, NotOver DEF AllCasesPassed, IInv, Lines, Over

-----------------------------------------------------------------------------
\* What the whole output of a run says of it.
LEMMA PassedIsFound ==
  ASSUME TypeOK, Counts, Passed
  PROVE  /\ AllRight
         /\ \/ ~Fails(Found(FALSE, out))
            \/ Displayed("INCORRECT") \/ Displayed("TIMEOUT")
<1>1. AllRight
  BY DEF Passed, AllRight, Counts
<1>2. Len(out) \in DOMAIN out /\ Len(out) - 1 \in DOMAIN out
  BY DEF Passed, TypeOK
<1>3. "OK" \in Kinds(out)
  BY <1>2, LineType DEF Passed, Kinds
<1>4. ASSUME NEW j \in DOMAIN out, out[j].kind \in {"INCORRECT", "TIMEOUT"}
      PROVE  Displayed(out[j].kind)
  <2>1. j # Len(out) /\ j # Len(out) - 1
    BY <1>4 DEF Passed, Line
  <2>2. j \in 1 .. Len(out) - 2
    BY <2>1 DEF TypeOK
  <2> QED
    BY <1>4, <2>2 DEF Passed, BeforeEnd
<1>5. Kinds(out) \cap {"INCORRECT", "TIMEOUT"} # {} =>
        Displayed("INCORRECT") \/ Displayed("TIMEOUT")
  BY <1>4 DEF Kinds
<1>6. Kinds(out) \cap {"INCORRECT", "TIMEOUT"} = {} => ~Fails(Found(FALSE, out))
  BY <1>3 DEF Fails, TimedOut, Wrong, Parse, Found, Marker
<1> QED
  BY <1>1, <1>5, <1>6

LEMMA StoppedIsFound ==
  ASSUME TypeOK, Counts, Stopped
  PROVE  /\ ~AllRight /\ Fails(Found(FALSE, out))
         /\ \/ Displayed("TIMEOUT")
            \/ FailureVerdict(Found(FALSE, out))
                 = IF done \/ n_cases = NotRead THEN "INCORRECT" ELSE "TIMEOUT"
<1>1. ~AllRight
  <2>1. CASE n_cases = NotRead
    BY <2>1 DEF AllRight
  <2>2. CASE n_cases # NotRead /\ case < n_cases
    <3>1. case \in 0 .. n_cases - 1 /\ case \notin right
      BY <2>2 DEF TypeOK, Counts, NotRead
    <3> QED
      BY <3>1 DEF AllRight
  <2> QED
    BY <2>1, <2>2 DEF Stopped
<1>2. Fails(Found(FALSE, out))
  <2>1. CASE n_cases = NotRead
    <3>1. "OK" \notin Kinds(out)
      BY <2>1 DEF Counts, Stopped, Displayed, Kinds
    <3> QED
      BY <3>1 DEF Fails, Wrong, Parse, Found
  <2>2. CASE n_cases # NotRead
    <3>1. "INCORRECT" \in Kinds(out) \/ "TIMEOUT" \in Kinds(out)
      BY <2>2 DEF Stopped, FailureOfCase
    <3> QED
      BY <3>1 DEF Fails, Wrong, TimedOut, Parse, Found, Marker
  <2> QED
    BY <2>1, <2>2
<1>3. ~Displayed("TIMEOUT") => ("TIMEOUT" \in Kinds(out) <=> ~done /\ n_cases # NotRead)
  BY DEF Stopped, FailureOfCase
<1> QED
  BY <1>1, <1>2, <1>3 DEF FailureVerdict, TimedOut, Parse, Found, Marker

LEMMA ExitStep == IInv /\ Exit => IInv'
<1> SUFFICES ASSUME IInv, Exit PROVE IInv'
  OBVIOUS
<1>1. PICK o \in Truncations(out) : result' = Found(FALSE, o)
  BY DEF Exit
<1>2. /\ out \in Seq(OutLine) /\ TypeOK /\ Counts /\ Lines
      /\ pc = "exiting" /\ pc' = "exited"
      /\ UNCHANGED <<file, case, cycles, done, total, out, right, ticks, displayed>>
  BY DEF IInv, TypeOK, Exit
<1>3. ~Displayed("OK") => OkIsLast(out)
  BY <1>2, OkOnlyIfPassed
<1>4. o \in Seq(OutLine) /\ (~Displayed("OK") => ("OK" \in Kinds(o) => o = out))
  BY <1>1, <1>2, <1>3, TruncationHasOk
<1>5. (TypeOK /\ Counts /\ Lines /\ AcceptedIsEarned /\ MeasureInRange)'
  BY <1>1, <1>2, <1>4, EndsWithResult
<1>6. UNCHANGED <<n_cases, done, AllRight, Displayed("INCORRECT"), Displayed("TIMEOUT")>>
  BY <1>2 DEF file, AllRight, Displayed
<1>7. Len(out) <= MaxOutputLines => result' = Found(FALSE, out)
  BY <1>1 DEF Truncations
<1>8. FailureIsFinal' /\ EarnedIsAccepted'
  <2>1. CASE Passed
    BY <1>2, <1>6, <1>7, <2>1, PassedIsFound DEF FailureIsFinal, EarnedIsAccepted, Accepted, Over
  <2>2. CASE Stopped
    <3>1. /\ ~AllRight' /\ (Len(out) <= MaxOutputLines => Fails(result'))
      BY <1>2, <1>6, <1>7, <2>2, StoppedIsFound
    <3>2. Len(out) <= MaxOutputLines =>
            \/ Displayed("TIMEOUT")
            \/ FailureVerdict(result')
                 = IF done \/ n_cases = NotRead THEN "INCORRECT" ELSE "TIMEOUT"
      BY <1>2, <1>7, <2>2, StoppedIsFound
    <3>3. FailureIsFinal'
      BY <1>2, <3>1 DEF FailureIsFinal, Accepted
    <3>4. EarnedIsAccepted'
      BY <1>2, <1>6, <3>1, <3>2 DEF EarnedIsAccepted
    <3> QED
      BY <3>3, <3>4
  <2> QED
    BY <1>2, <2>1, <2>2 DEF Lines
<1> QED
  BY <1>5, <1>8 DEF IInv, Judged

LEMMA KilledStep == IInv /\ Killed => IInv'
<1> SUFFICES ASSUME IInv, Killed PROVE IInv'
  OBVIOUS
<1>1. /\ out \in Seq(OutLine) /\ TypeOK /\ Counts /\ Lines
      /\ pc \in {"start", "case", "wait", "exiting"} /\ pc' = "killed"
      /\ UNCHANGED <<file, case, cycles, done, total, out, right, ticks, displayed>>
  BY DEF IInv, TypeOK, Killed
<1>2. ~Displayed("OK") => OkIsLast(out)
  BY <1>1, OkOnlyIfPassed
<1>3. (TypeOK /\ Counts /\ Lines /\ AcceptedIsEarned /\ MeasureInRange)'
  <2>1. CASE \E k \in 0 .. Len(out) : \E o \in Cut(out, k) : \E t \in Truncations(o) :
               result' = Found(FALSE, t)
    <3>1. PICK k \in 0 .. Len(out) :
                 \E o \in Cut(out, k) : \E t \in Truncations(o) : result' = Found(FALSE, t)
      BY <2>1
    <3>2. PICK o \in Cut(out, k) : \E t \in Truncations(o) : result' = Found(FALSE, t)
      BY <3>1
    <3>3. PICK t \in Truncations(o) : result' = Found(FALSE, t)
      BY <3>2
    <3>4. o \in Seq(OutLine) /\ (OkIsLast(out) => OkIsLast(o) /\ ("OK" \in Kinds(o) => o = out))
      BY <1>1, CutHasOk DEF Kinds, OkIsLast
    <3>5. t \in Seq(OutLine) /\ (OkIsLast(o) => ("OK" \in Kinds(t) => t = o))
      BY <3>4, TruncationHasOk
    <3>6. ~Displayed("OK") => ("OK" \in Kinds(t) => t = out)
      BY <1>2, <3>4, <3>5
    <3> QED
      BY <1>1, <3>3, <3>5, <3>6, EndsWithResult
  <2>2. CASE \E i, j \in 1 .. Len(out) + 1 : result' = Found(TRUE, SubSeq(out, i, j - 1))
    <3>1. PICK i \in 1 .. Len(out) + 1, j \in 1 .. Len(out) + 1 :
                 result' = Found(TRUE, SubSeq(out, i, j - 1))
      BY <2>2
    <3>2. \A m \in i .. j - 1 : out[m] \in OutLine
      BY <1>1, ElementOfSeq
    <3>3. SubSeq(out, i, j - 1) \in Seq(OutLine)
      BY <3>2, SubSeqProperties
    <3>4. TypeOK'
      BY <1>1, <3>1, <3>3, FoundType DEF TypeOK, file
    <3>5. ~Accepted'
      BY <3>1 DEF Accepted, Fails, TimedOut, Found
    <3> QED
      BY <1>1, <3>4, <3>5 DEF Counts, Lines, AcceptedIsEarned, MeasureInRange, file
  <2> QED
    BY <2>1, <2>2 DEF Killed
<1>4. FailureIsFinal' /\ EarnedIsAccepted'
  <2>1. pc' # "exited"
    BY <1>1
  <2> QED
    BY <2>1 DEF FailureIsFinal, EarnedIsAccepted
<1> QED
  BY <1>3, <1>4 DEF IInv, Judged

-----------------------------------------------------------------------------
\* What holds in every state of a run of the testbench.
THEOREM Invariant == Spec => []IInv
<1>1. Init => IInv
  <2> SUFFICES ASSUME Init PROVE IInv
    OBVIOUS
  <2>1. << >> \in Seq(OutLine) /\ NoResult \in SimResult
    BY EmptySeq DEF NoResult, SimResult
  <2>2. TypeOK
    BY <2>1 DEF Init, TypeOK, NotRead
  <2>3. Counts /\ Lines
    BY DEF Init, Counts, Lines, NotRead
  <2> QED
    BY <2>2, <2>3 DEF Init, IInv, Judged, AcceptedIsEarned, FailureIsFinal, MeasureInRange,
                      EarnedIsAccepted, Accepted, Over
<1>2. IInv /\ [Next]_vars => IInv'
  <2> SUFFICES ASSUME IInv, [Next]_vars PROVE IInv'
    OBVIOUS
  <2>1. CASE Run
    BY <2>1, ReadVectorsStep, BadVectorsStep, StartCaseStep, TickStep, NotFinishedStep,
       WrongOutputStep, RightOutputStep, AllCasesPassedStep, ExitStep DEF Run
  <2>2. CASE Display
    BY <2>2, DisplayStep
  <2>3. CASE Killed
    BY <2>3, KilledStep
  <2>4. CASE UNCHANGED vars
    BY <2>4 DEF vars, file, IInv, TypeOK, Counts, Lines, Passed, Stopped, BeforeEnd,
                FailureOfCase, Displayed, Judged, AcceptedIsEarned, FailureIsFinal,
                MeasureInRange, EarnedIsAccepted, Accepted, Over, AllRight
  <2> QED
    BY <2>1, <2>2, <2>3, <2>4 DEF Next
<1> QED
  BY <1>1, <1>2, PTL DEF Spec

\* The variables of the testbench keep their types.
THEOREM TypeCorrect == Spec => []TypeOK
<1>1. IInv => TypeOK
  BY DEF IInv
<1> QED
  BY <1>1, Invariant, PTL

\* Of a design that prints no OK of its own, wherever the process is killed and
\* its output is cut: what is accepted passed every case, and is charged the
\* ticks that took, or the total the design has printed.
THEOREM AcceptedIsAlwaysEarned == Spec => []AcceptedIsEarned
<1>1. IInv => AcceptedIsEarned
  BY DEF IInv, Judged
<1> QED
  BY <1>1, Invariant, PTL

\* Whatever lines the design prints: a process that ends by itself, its output
\* whole, is not accepted when a case was late, wrong or never run.
THEOREM FailureIsAlwaysFinal == Spec => []FailureIsFinal
<1>1. IInv => FailureIsFinal
  BY DEF IInv, Judged
<1> QED
  BY <1>1, Invariant, PTL

\* Of a design that prints neither an OK nor a total: the measure of an accepted
\* simulation is at least the number of cases and at most the cycles they are
\* allowed.
THEOREM MeasureAlwaysInRange == Spec => []MeasureInRange
<1>1. IInv => MeasureInRange
  BY DEF IInv, Judged
<1> QED
  BY <1>1, Invariant, PTL

\* A run that ends with its output whole gets what the design has earned,
\* unless the design prints a failure itself.
THEOREM EarnedIsAlwaysAccepted == Spec => []EarnedIsAccepted
<1>1. IInv => EarnedIsAccepted
  BY DEF IInv, Judged
<1> QED
  BY <1>1, Invariant, PTL
=============================================================================
