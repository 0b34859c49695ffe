----------------------------- MODULE ModuleCache -----------------------------
(***************************************************************************)
(* The list of loaded modules that reports carry, and what the symbolizer  *)
(* makes of it.  hawk_dlopen sets the flag m_modulesCacheInvalidated       *)
(* before the real dlopen, hawk_dlclose sets it after the real dlclose     *)
(* (hawk_malloc.cpp); the worker takes the flag at the end of              *)
(* WorkerUpdateData and hands it to the writers (memhawk.cpp), which write *)
(* the list of dl_iterate_phdr when they flush.  Symbolizer::update_symbols*)
(* (memhawk_core/src/symbolizer.rs) keeps one entry per file name.         *)
(*                                                                         *)
(* The dynamic linker is external: a library has a reference count and,    *)
(* while it is loaded, an address.  Only snapshots with a list are kept in *)
(* the file.  The program itself is in every list and is left out.         *)
(***************************************************************************)
EXTENDS Integers, Sequences

CONSTANTS
  Thread, Lib,
  Unsegmented, \* libraries the linker lists without a segment
  Base,        \* addresses at which a library may be loaded
  NotLoaded,   \* no address
  MaxOps,      \* bound on the calls of dlopen and dlclose
  MaxLists     \* bound on Len(file)

ASSUME NotLoadedAssumption == NotLoaded \notin Base
ASSUME BoundsAssumption == MaxOps \in Nat /\ MaxLists \in Nat

VARIABLES
  refs, at,      \* the dynamic linker: references and address of each library
  pc, arg,       \* where a thread is in dlopen or dlclose, and its library
  flag,          \* m_modulesCacheInvalidated
  update,        \* m_updateModules of the writers
  wpc,           \* the worker: "flag" or "flush"
  listed,        \* the last list that was written
  file,          \* the lists in the report
  ops,           \* number of calls
  pos,           \* lists the symbolizer has passed
  symbols,       \* symbol_maps: the address of each file name
  used,          \* history: positions of the lists update_symbols was given
  passed,        \* history: threads whose flag the worker took before the real
                 \* dlopen was done
  raced          \* history: libraries loaded by such a thread, too late for the
                 \* list that its flag had asked for
historyVars == <<passed, raced>>
linkerVars == <<refs, at>>
writerVars == <<flag, update, wpc, listed, file>>
readerVars == <<pos, symbols, used>>
cacheVars == <<refs, at, pc, arg, flag, update, wpc, listed, file, ops, pos, symbols, used, passed, raced>>

Address == Base \cup {NotLoaded}
Nothing == [l \in Lib |-> NotLoaded]

CacheTypeOK ==
  /\ refs \in [Lib -> Nat] /\ at \in [Lib -> Address]
  /\ \A l \in Lib : refs[l] = 0 <=> at[l] = NotLoaded
  /\ pc \in [Thread -> {"idle", "open", "closed"}] /\ arg \in [Thread -> Lib]
  /\ flag \in BOOLEAN /\ update \in BOOLEAN /\ wpc \in {"flag", "flush"}
  /\ listed \in [Lib -> Address]
  /\ file \in Seq([Lib -> Address]) /\ Len(file) <= MaxLists
  /\ ops \in 0 .. MaxOps
  /\ pos \in 0 .. Len(file) /\ symbols \in [Lib -> Address] /\ used \in SUBSET (1 .. pos)
  /\ passed \in SUBSET Thread /\ raced \in SUBSET Lib

\* Both flags are true when the program starts.
CacheInit ==
  /\ refs = [l \in Lib |-> 0] /\ at = Nothing
  /\ pc = [t \in Thread |-> "idle"] /\ arg \in [Thread -> Lib]
  /\ flag = TRUE /\ update = TRUE /\ wpc = "flag"
  /\ listed = Nothing /\ file = <<>> /\ ops = 0
  /\ pos = 0 /\ symbols = Nothing /\ used = {}
  /\ passed = {} /\ raced = {}

-----------------------------------------------------------------------------
(* hawk_dlopen and hawk_dlclose                                            *)

\* InvalidateModulesCache, and then ...   (mutant: the call is missing)
FlagBeforeOpen_Kept == flag
FlagBeforeOpen == TRUE
Dlopen(t) ==
  /\ pc[t] = "idle" /\ ops < MaxOps
  /\ ops' = ops + 1
  /\ pc' = [pc EXCEPT ![t] = "open"]
  /\ \E l \in Lib : arg' = [arg EXCEPT ![t] = l]
  /\ flag' = FlagBeforeOpen
  /\ passed' = passed \ {t}
  /\ UNCHANGED <<linkerVars, update, wpc, listed, file, readerVars, raced>>

\* ... the real dlopen: it fails, counts a reference, or loads the library.
RealDlopen(t) ==
  LET l == arg[t] IN
  /\ pc[t] = "open"
  /\ pc' = [pc EXCEPT ![t] = "idle"]
  /\ \/ UNCHANGED <<refs, at, raced>>
     \/ /\ refs[l] > 0
        /\ refs' = [refs EXCEPT ![l] = @ + 1]
        /\ UNCHANGED <<at, raced>>
     \/ /\ refs[l] = 0
        /\ refs' = [refs EXCEPT ![l] = 1]
        /\ \E a \in Base \ {at[k] : k \in Lib} : at' = [at EXCEPT ![l] = a]
        /\ raced' = IF t \in passed /\ ~flag /\ ~update THEN raced \cup {l} ELSE raced
  /\ UNCHANGED <<arg, ops, writerVars, readerVars, passed>>

RealDlclose(t) ==
  /\ pc[t] = "idle" /\ ops < MaxOps
  /\ ops' = ops + 1
  /\ pc' = [pc EXCEPT ![t] = "closed"]
  /\ \E l \in Lib :
       /\ refs[l] > 0
       /\ refs' = [refs EXCEPT ![l] = @ - 1]
       /\ at' = [at EXCEPT ![l] = IF refs[l] = 1 THEN NotLoaded ELSE @]
       /\ arg' = [arg EXCEPT ![t] = l]
  /\ UNCHANGED <<writerVars, readerVars, historyVars>>

\* InvalidateModulesCache after it.   (mutant: the call is missing)
FlagAfterClose_Kept == flag
FlagAfterClose == TRUE
Dlclose(t) ==
  /\ pc[t] = "closed"
  /\ pc' = [pc EXCEPT ![t] = "idle"]
  /\ flag' = FlagAfterClose
  /\ UNCHANGED <<linkerVars, arg, update, wpc, listed, file, ops, readerVars, historyVars>>

-----------------------------------------------------------------------------
(* The worker                                                              *)

\* The end of WorkerUpdateData: exchange, UpdateModules.
UpdateModules == update \/ flag
WorkerUpdateData ==
  /\ wpc = "flag" /\ wpc' = "flush"
  /\ flag' = FALSE
  /\ update' = UpdateModules
  /\ passed' = passed \cup {t \in Thread : pc[t] = "open"}
  /\ UNCHANGED <<linkerVars, pc, arg, listed, file, ops, readerVars, raced>>

\* FlushData of the writers.
WorkerPrintData ==
  /\ wpc = "flush" /\ wpc' = "flag"
  /\ IF update
       THEN /\ Len(file) < MaxLists
            /\ listed' = at /\ file' = Append(file, at)
            /\ raced' = {}
       ELSE UNCHANGED <<listed, file, raced>>
  /\ update' = FALSE
  /\ UNCHANGED <<linkerVars, pc, arg, flag, ops, readerVars, passed>>

-----------------------------------------------------------------------------
(* Symbolizer                                                              *)

\* A listed file is loaded at its address; one without segments is passed over.
LoadBinary(list, l) == IF l \in Unsegmented THEN NotLoaded ELSE list[l]

\* update_symbols: entries whose file name is no longer listed are removed, and
\* new names added; an entry that stays keeps its address.
\* (mutant: entries are never removed)
UpdateSymbols_Keep(list) ==
  [l \in Lib |-> IF symbols[l] # NotLoaded THEN symbols[l] ELSE LoadBinary(list, l)]
UpdateSymbols(list) ==
  [l \in Lib |-> IF list[l] # NotLoaded /\ symbols[l] # NotLoaded THEN symbols[l]
                 ELSE LoadBinary(list, l)]

Process ==
  /\ pos < Len(file) /\ pos' = pos + 1
  /\ symbols' = UpdateSymbols(file[pos + 1])
  /\ used' = used \cup {pos + 1}
  /\ UNCHANGED <<linkerVars, pc, arg, writerVars, ops, historyVars>>

\* The snapshot is skipped because of its timestamp, and its list with it.
Skip ==
  /\ pos < Len(file) /\ pos' = pos + 1
  /\ UNCHANGED <<linkerVars, pc, arg, writerVars, ops, symbols, used, historyVars>>

CacheNext ==
  \/ \E t \in Thread : Dlopen(t) \/ RealDlopen(t) \/ RealDlclose(t) \/ Dlclose(t)
  \/ WorkerUpdateData \/ WorkerPrintData \/ Process \/ Skip
CacheSpec == CacheInit /\ [][CacheNext]_cacheVars

\* A call of dlopen or dlclose returns, and the worker wakes up every period.
CacheFairness ==
  /\ \A t \in Thread : WF_cacheVars(RealDlopen(t)) /\ WF_cacheVars(Dlclose(t))
  /\ WF_cacheVars(WorkerUpdateData) /\ WF_cacheVars(WorkerPrintData)
FairCacheSpec == CacheSpec /\ CacheFairness

-----------------------------------------------------------------------------
(* Properties.                                                             *)

\* The last list differs from what is loaded only while an update is on its
\* way: the flag is set, the writers have been told, or a dlclose has not yet
\* set it.  The one exception: a library whose dlopen took so long that the
\* worker took its flag and wrote the list before the library was loaded.
ListIsCurrent ==
  \A l \in Lib :
    listed[l] # at[l] =>
      flag \/ update \/ l \in raced \/ \E t \in Thread : pc[t] = "closed"

\* What the symbolizer takes for the address of a file name is where the first
\* of the lists had it that name it without a gap; names that the last list
\* did not have are forgotten, and those without segments never known.  Lists of
\* skipped snapshots do not exist for it.
EntriesAreExplained ==
  \A l \in Lib :
    LET run == {k \in used : \A j \in used : j >= k => file[j][l] # NotLoaded}
    IN  IF run = {} \/ l \in Unsegmented THEN symbols[l] = NotLoaded
        ELSE \E k \in run : symbols[l] = file[k][l] /\ \A j \in run : k <= j

\* Every library that stays loaded is listed at its address sooner or later,
\* unless its dlopen raced with the worker.
EventuallyListed ==
  \A l \in Lib :
    (at[l] # NotLoaded /\ l \notin raced) ~> (listed[l] = at[l] \/ at[l] = NotLoaded)
=============================================================================
