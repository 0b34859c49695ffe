-------------------------- MODULE CollapseRecursion --------------------------
(***************************************************************************)
(* What happens to a stack between unwinding and its trace id              *)
(* (stacktrace.cpp, algo.cpp): trailing null frames and the profiler's own *)
(* first frames are cut off, and recursion is collapsed by one of three    *)
(* implementations: CollapseRecursionOpt, CollapseRecursionAvx where the   *)
(* compiler supports AVX-512, and CollapseRecursionNaive, which only the   *)
(* tests use.  Frames are model values; positions are those of the code    *)
(* plus one.  data is the unwound stack, from the allocation outwards.     *)
(***************************************************************************)
EXTENDS Integers, Sequences, SequencesExt

CONSTANTS
  Frames,           \* return addresses
  NullFrame,        \* nullptr
  MaxUnwindDepth,   \* most frames an unwinder returns
  SkipFrames,       \* frames of the profiler itself
  MaxDepth,         \* collapse depths 0 .. MaxDepth
  Stride            \* lanes of a vector register (8 in the code)

\* dp, lastDp and maxDp have 8 bits: no run of matches is as long as that.
ASSUME UnwindAssumption == MaxUnwindDepth \in 0 .. 255
ASSUME DepthAssumption == SkipFrames \in Nat /\ MaxDepth \in Nat
ASSUME StrideAssumption == Stride \in Nat \ {0}

VARIABLES
  raw,     \* what the unwinder left in m_data
  depth,   \* collapse_depth of the configuration
  res      \* NotRun, or the traces computed from raw
collapseVars == <<raw, depth, res>>

NotRun == [span |-> <<>>, opt |-> <<>>, avx |-> <<>>, naive |-> <<>>, run |-> FALSE]

-----------------------------------------------------------------------------
(* Stacktrace::UnwindStacktrace and GetTrace.                              *)

\* resultSize after the loop that drops trailing null frames.
ResultSize(d) ==
  LET size[n \in 0 .. Len(d)] ==
        IF n > 0 /\ d[n] = NullFrame THEN size[n - 1] ELSE n
  IN  size[Len(d)]

\* A stack with fewer than SkipFrames frames is logged and leaves an empty trace.
GetTrace(d) ==
  IF ResultSize(d) < SkipFrames THEN <<>> ELSE SubSeq(d, SkipFrames + 1, ResultSize(d))

-----------------------------------------------------------------------------
(* CollapseRecursionOpt.                                                   *)

\* Run length of matches at distance shift, ending at cur.
RunLength(d, shift) ==
  LET dp[cur \in 0 .. Len(d) - shift] ==
        IF cur = 0 \/ d[cur] # d[cur + shift] THEN 0 ELSE dp[cur - 1] + 1
  IN  dp

\* maxDp[cur]: the largest shift whose block before cur is repeated at cur.
\* (mutant: single frames are not compared)
MaxDp_FromTwo(d, dep) ==
  [cur \in 0 .. Len(d) |->
     LET hits == {shift \in 2 .. dep :
                    /\ cur > 0 /\ cur + shift <= Len(d)
                    /\ RunLength(d, shift)[cur] >= shift}
     IN  IF hits = {} THEN 0 ELSE Max(hits)]
MaxDp(d, dep) ==
  [cur \in 0 .. Len(d) |->
     LET hits == {shift \in 1 .. dep :
                    /\ cur > 0 /\ cur + shift <= Len(d)
                    /\ RunLength(d, shift)[cur] >= shift}
     IN  IF hits = {} THEN 0 ELSE Max(hits)]

\* The final loop: keep a frame, or jump over a repeated block.
\* (mutant: the jump goes one too far)
Squeeze_TooFar(d, maxDp) ==
  LET kept[cur \in 1 .. 2 * Len(d) + 1] ==
        IF cur >= Len(d) THEN <<>>
        ELSE IF maxDp[cur] = 0 THEN <<d[cur + 1]>> \o kept[cur + 1]
        ELSE kept[cur + maxDp[cur] + 1]
  IN  <<d[1]>> \o kept[1]
Squeeze(d, maxDp) ==
  LET kept[cur \in 1 .. 2 * Len(d)] ==
        IF cur >= Len(d) THEN <<>>
        ELSE IF maxDp[cur] = 0 THEN <<d[cur + 1]>> \o kept[cur + 1]
        ELSE kept[cur + maxDp[cur]]
  IN  <<d[1]>> \o kept[1]

CollapseRecursionOpt(d, dep) ==
  IF dep = 0 \/ Len(d) < 2 THEN d ELSE Squeeze(d, MaxDp(d, dep))

-----------------------------------------------------------------------------
(* CollapseRecursionAvx: the matches of one shift, Stride at a time, then  *)
(* one by one; lastDp is carried over.                                     *)

\* One element: the new lastDp, and maxDp at its position.
AvxLane(st, shift, equal, i) ==
  IF ~equal THEN [st EXCEPT !.lastDp = 0]
  ELSE [lastDp |-> st.lastDp + 1,
        maxDp  |-> IF st.lastDp + 1 >= shift
                     THEN [st.maxDp EXCEPT ![i + 1] = shift] ELSE st.maxDp]

\* A full stride: its mask is computed first, then shifted out bit by bit.
\* (mutant: lastDp starts anew in every stride)
AvxStride_NoCarry(d, st, shift, i) ==
  LET mask == [j \in 0 .. Stride - 1 |-> d[i + j + 1] = d[i + j + shift + 1]]
      lanes[j \in 0 .. Stride] ==
        IF j = 0 THEN [st EXCEPT !.lastDp = 0]
        ELSE AvxLane(lanes[j - 1], shift, mask[j - 1], i + j - 1)
  IN  lanes[Stride]
AvxStride(d, st, shift, i) ==
  LET mask == [j \in 0 .. Stride - 1 |-> d[i + j + 1] = d[i + j + shift + 1]]
      lanes[j \in 0 .. Stride] ==
        IF j = 0 THEN st ELSE AvxLane(lanes[j - 1], shift, mask[j - 1], i + j - 1)
  IN  lanes[Stride]

\* One shift.  The state at i is reached by a full stride or, behind the last
\* of them, by one element.
AvxShift(d, maxDp, shift) ==
  LET at[i \in 0 .. Len(d) - shift] ==
        IF i = 0 THEN [lastDp |-> 0, maxDp |-> maxDp]
        ELSE IF i % Stride = 0 THEN AvxStride(d, at[i - Stride], shift, i - Stride)
        ELSE AvxLane(at[i - 1], shift, d[i] = d[i + shift], i - 1)
  IN  at[Len(d) - shift].maxDp

\* The loop over the shifts ends early when a shift reaches the size.
CollapseRecursionAvx(d, dep) ==
  IF dep = 0 \/ Len(d) < 2 THEN d
  ELSE LET last == Min({dep, Len(d) - 1})
           maxDp[shift \in 0 .. last] ==
             IF shift = 0 THEN [cur \in 0 .. Len(d) |-> 0]
             ELSE AvxShift(d, maxDp[shift - 1], shift)
       IN  Squeeze(d, maxDp[last])

-----------------------------------------------------------------------------
(* CollapseRecursionNaive: the shortest block at cur that repeats the end  *)
(* of what has been kept so far.                                           *)

NaiveStep(d, dep, st) ==
  LET out == st.out
      cur == st.cur
      match == {s \in 1 .. dep :
                  /\ cur + s - 1 <= Len(d) /\ s <= Len(out)
                  /\ \A p \in 0 .. s - 1 : d[cur + p] = out[Len(out) - s + 1 + p]}
  IN  IF cur > Len(d) THEN st
      ELSE IF match = {} THEN [out |-> Append(out, d[cur]), cur |-> cur + 1]
      ELSE [out |-> out, cur |-> cur + Min(match)]

\* The loop has ended after Len(d) - 1 steps.
CollapseRecursionNaive(d, dep) ==
  LET at[n \in 0 .. Len(d)] ==
        IF n = 0 THEN [out |-> <<d[1]>>, cur |-> 2]
        ELSE NaiveStep(d, dep, at[n - 1])
  IN  at[Len(d)].out

-----------------------------------------------------------------------------
CollapseInit ==
  /\ raw \in UNION {[1 .. n -> Frames \cup {NullFrame}] : n \in 0 .. MaxUnwindDepth}
  /\ depth \in 0 .. MaxDepth
  /\ res = NotRun

\* Unwinding, then Stacktrace::CollapseRecursion with ShrinkBySize.
Run ==
  /\ ~res.run
  /\ LET d == GetTrace(raw) IN
       res' = [span  |-> d,
               opt   |-> CollapseRecursionOpt(d, depth),
               avx   |-> CollapseRecursionAvx(d, depth),
               naive |-> IF d = <<>> THEN d ELSE CollapseRecursionNaive(d, depth),
               run   |-> TRUE]
  /\ UNCHANGED <<raw, depth>>

CollapseSpec == CollapseInit /\ [][Run]_collapseVars

-----------------------------------------------------------------------------
(* Properties.                                                             *)

\* Calls of a trace: adjacent frames.
Calls(d) == {<<d[i], d[i + 1]>> : i \in 1 .. Len(d) - 1}

\* The trace starts at the allocation, ends at the outermost frame that is not
\* null and names every frame in between: what UnwindStacktrace and
\* CollapseRecursion cut off is repeated elsewhere in the trace.
FramesKept ==
  res.run /\ res.span # <<>> =>
    /\ res.span[Len(res.span)] # NullFrame
    /\ ToSet(res.opt) = ToSet(res.span)
    /\ Head(res.opt) = Head(res.span)
    /\ Last(res.opt) = Last(res.span)

\* Jumping over overlapping repetitions never joins two frames of which one
\* did not call the other on the real stack (CollapseRecursionOpt).
NoInventedCall == res.run => Calls(res.opt) \subseteq Calls(res.span)

\* Direct recursion is always collapsed, whatever longer cycle it is part of.
NoDirectRecursion ==
  res.run /\ depth > 0 => \A c \in Calls(res.opt) : c[1] # c[2]

\* A build with AVX-512 and one without give a stack the same trace.
SameOnAllBuilds == res.run => res.avx = res.opt

\* tests_algo.cpp holds CollapseRecursionNaive to the expectations of the
\* others.  It agrees with them on direct recursion.  Where cycles are nested
\* in cycles either may leave less (abbab, aabaab at depth 3), but what the
\* naive one leaves is the stack without repetitions, too: no frame is lost
\* and no call invented.
NaiveAgrees ==
  res.run => /\ depth <= 1 => res.naive = res.opt
             /\ ToSet(res.naive) = ToSet(res.span)
             /\ Calls(res.naive) \subseteq Calls(res.span)

\* A collapsed trace keeps the frames and the ends of the stack, joins no two
\* frames that did not call each other, leaves no direct recursion, and is the
\* same in the vector, the scalar and, on direct recursion, the naive version
\* (CollapseRecursionOpt, CollapseRecursionAvx, CollapseRecursionNaive).
CollapseCorrect ==
  /\ FramesKept /\ NoInventedCall /\ NoDirectRecursion
  /\ SameOnAllBuilds /\ NaiveAgrees
=============================================================================
