---------------------------- MODULE MCTracePath ----------------------------
(***************************************************************************)
(* The way of a stack from the unwinder to a report, for TLC.  The parts   *)
(* that compute with a stack (CollapseRecursion, BitPacking), the caches   *)
(* and storages that number it (TraceIds), the writers and the reader of   *)
(* their files (Reports, ProtoStream) and the tool that shows them         *)
(* (FlameTrie) share no variable: one run explores each of them, from its  *)
(* own initial states, while the others rest.  TraceIds uses the collapsed *)
(* traces and the compressed sizes that the first two compute.             *)
(***************************************************************************)
EXTENDS TraceIds, CollapseRecursion, Reports, ProtoStream

VARIABLES
  part,                                                   \* the part explored
  in, dirt, out, back,                                    \* BitPacking
  stage, lines, nodes, count, queue, selected, result     \* FlameTrie

-----------------------------------------------------------------------------
B == INSTANCE BitPacking WITH
       W <- 8, Values <- {0, 1, 15, 16, 63, 64, 255, 256, 16383, 65535}, MaxLen <- 3

\* Direct recursion is collapsed.
MCCollapse(trace) == CollapseRecursionOpt(trace, 1)

\* "a" lies above "b", so that a difference wraps around.
Address(f) == CASE f = "a" -> 200 [] f = "b" -> 100 [] f = Null -> 0
MCCompressedSize(trace) == B!Compress([i \in DOMAIN trace |-> Address(trace[i])], 0).size

\* Common ends, a common beginning, recursion, a null frame, and the empty trace.
MCTraces == {<<>>, <<"a">>, <<"a", "a">>, <<"a", "b">>, <<"b", "a">>,
             <<"b", "a", "b">>, <<"a", "0", "b">>}

\* The thread trackers are interchangeable.
Symmetry == Permutations(External)

-----------------------------------------------------------------------------
(* Writers.  4 is an id of the inner tracker, 9 the unknown one.           *)

\* Two traces with a common outermost frame.
WrittenTrace == (1 :> <<"a", "b">>) @@ (2 :> <<"c", "0", "b">>) @@ (4 :> <<"b">>) @@ (9 :> <<>>)

\* An allocation, a bigger one, the free of one, and both in one period.
WrittenDeltas ==
  {[size |-> 1, active |-> 1, count |-> 1], [size |-> 2, active |-> 1, count |-> 1],
   [size |-> -2, active |-> -1, count |-> 0], [size |-> 0, active |-> 0, count |-> 1]}

\* The application's section lists one trace by size and two by count.
ListedBySize == "external" :> 1 @@ "internal" :> 1
ListedByCount == "external" :> 2 @@ "internal" :> 1

\* 0 is the empty trace; a and c are addresses of one function; b has an inlined frame.
StreamStack == (0 :> <<>>) @@ (1 :> <<"a", "b">>) @@ (2 :> <<"c", "b">>)
                 @@ (4 :> <<"a">>) @@ (9 :> <<>>)
FramesOf(addr) == CASE addr \in {"a", "c"} -> <<"f">> [] addr = "b" -> <<"g", "h">>

-----------------------------------------------------------------------------
F == INSTANCE FlameTrie WITH
       Paths <- (UNION {[1 .. n -> {1, 2}] : n \in 0 .. 2})
                  \cup {<<1, 1, 1>>, <<1, 1, 2>>, <<1, 2, 1>>},
       Values <- {2, -1}, MaxCount <- 4, MaxLines <- 3, pc <- stage

-----------------------------------------------------------------------------
idsVars == vars
packVars == <<in, dirt, out, back>>
flameVars == <<stage, lines, nodes, count, queue, selected, result>>

MCInit ==
  /\ part \in {"collapse", "pack", "ids", "reports", "stream", "flame"}
  /\ IF part = "collapse" THEN CollapseInit ELSE raw = <<>> /\ depth = 0 /\ res = NotRun
  /\ IF part = "pack" THEN B!Init ELSE in = <<>> /\ dirt = 0 /\ out = B!NotRun /\ back = <<>>
  /\ Init /\ ReportsInit /\ ProtoInit /\ F!Init

Collapsing ==
  /\ part = "collapse" /\ Run
  /\ UNCHANGED <<part, packVars, idsVars, reportVars, protoVars, flameVars>>
Packing ==
  /\ part = "pack" /\ B!Next
  /\ UNCHANGED <<part, collapseVars, idsVars, reportVars, protoVars, flameVars>>
Numbering ==
  /\ part = "ids" /\ Next
  /\ UNCHANGED <<part, collapseVars, packVars, reportVars, protoVars, flameVars>>
Reporting ==
  /\ part = "reports" /\ ReportsNext
  /\ UNCHANGED <<part, collapseVars, packVars, idsVars, protoVars, flameVars>>
Streaming ==
  /\ part = "stream" /\ ProtoNext
  /\ UNCHANGED <<part, collapseVars, packVars, idsVars, reportVars, flameVars>>
Showing ==
  /\ part = "flame" /\ F!Next
  /\ UNCHANGED <<part, collapseVars, packVars, idsVars, reportVars, protoVars>>

MCNext == Collapsing \/ Packing \/ Numbering \/ Reporting \/ Streaming \/ Showing
MCSpec == MCInit /\ [][MCNext]_<<part, collapseVars, packVars, idsVars, reportVars, protoVars, flameVars>>

-----------------------------------------------------------------------------
(* The properties of the instances.  Their parts are stated and explained  *)
(* in the module of each part.                                             *)

\* Decompress returns what Compress was given, and equal traces have equal
\* words whatever the buffer held before.
PackingCorrect == B!RoundTrip /\ B!BufferDoesNotShow

\* The flamegraph tool prints the asked number of nodes, the greatest ones,
\* each with the sums of its lines.
FlameCorrect == F!NodesAreSums /\ F!AllSelectedAreShown /\ F!TheGreatestAreShown
=============================================================================
