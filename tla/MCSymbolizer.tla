---------------------------- MODULE MCSymbolizer ----------------------------
(***************************************************************************)
(* The symbolizer service, for TLC: the runs of the service with its       *)
(* tables and its saved state (SymbolizerRuns), how a run reads a file     *)
(* that is being written (SnapshotFile), and what it does with the         *)
(* contents of a snapshot (TraceGraph).  The three share no variable: one  *)
(* run explores each of them while the others rest.                        *)
(***************************************************************************)
EXTENDS SymbolizerRuns, SnapshotFile, TraceGraph

VARIABLE part       \* the part explored

\* a and c are addresses of f; b has an inlined frame.
NamesOf(addr) == IF addr = "b" THEN <<"g", "h">> ELSE <<"f">>

\* Traces that are prefixes of each other, an indirect recursion, two addresses
\* of one function, and the empty trace.
GraphTraces == {<<>>, <<"a">>, <<"a", "b">>, <<"a", "b", "a">>, <<"c", "b">>}
MemhawkTraces == {<<"a">>}
GraphDiffs == {1, -2}

mcVars == <<part, vars, fileVars, graphVars>>

-----------------------------------------------------------------------------
MCInit ==
  /\ part \in {"runs", "file", "graph"}
  /\ Init /\ FileInit /\ GraphInit
  /\ watch => part = "file"

RestButRuns == UNCHANGED <<part, fileVars, graphVars>>
RestButFile == UNCHANGED <<part, vars, graphVars>>

Serving == part = "runs" /\ Next /\ RestButRuns
Reading == part = "file" /\ FileNext /\ RestButFile
Counting == part = "graph" /\ GraphNext /\ UNCHANGED <<part, vars, fileVars>>

MCNext == Serving \/ Reading \/ Counting

\* The fairness of SymbolizerRuns and of SnapshotFile, each for its own part.
MCSpec ==
  /\ MCInit /\ [][MCNext]_mcVars
  /\ WF_mcVars(part = "runs" /\ MainStep /\ RestButRuns)
  /\ \A t \in Table : WF_mcVars(part = "runs" /\ WorkerStep(t) /\ RestButRuns)
  /\ WF_mcVars(part = "file" /\ (Read \/ ReadTag \/ ReadMessage) /\ RestButFile)

=============================================================================
