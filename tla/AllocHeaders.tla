---------------------------- MODULE AllocHeaders ----------------------------
(***************************************************************************)
(* The allocation hooks over the life of the library (hawk_malloc.cpp).    *)
(* Every block carries an AllocInfo in front of the user's bytes.  Before  *)
(* init_memhawk is done, blocks come from mmap and are marked with         *)
(* InvalidTraceId; afterwards they come from the C library.  free, realloc *)
(* and munmap know a block only by that header.                            *)
(*                                                                         *)
(* Abstraction.  Each block has an address range of its own, so addresses  *)
(* are offsets in it and only their alignment shows.  A hook is one step:  *)
(* it reads gl_initialised before gl_memhawkReady, a block is used by one  *)
(* thread at a time, and gl_initialised is never reset.  Requests leave    *)
(* room for the header in size_t, and alignments are powers of two that    *)
(* fit in AllocInfo::offset.                                               *)
(***************************************************************************)
EXTENDS Integers

CONSTANTS
  Block,
  AdditionalSize,   \* sizeof(AllocInfo), which is alignof(max_align_t)
  PageSize,         \* of mmap and of valloc
  Size,             \* sizes that are requested
  Alignment,        \* alignments that are requested
  Start,            \* addresses at which an allocator may place a block
  None              \* a block that does not exist, or is not accounted

\* Powers of two divide one another.
ASSUME SizesAssumption ==
  /\ AdditionalSize \in Nat \ {0} /\ PageSize \in Nat \ {0}
  /\ PageSize % AdditionalSize = 0
  /\ Size \subseteq Nat /\ Start \subseteq Nat /\ Alignment \subseteq Nat \ {0}
  /\ \A a \in Alignment : AdditionalSize % a = 0 \/ a % AdditionalSize = 0
ASSUME NoneAssumption == None \notin {"program", "memhawk"}

VARIABLES
  init,         \* where init_memhawk and deinit_memhawk are
  initialised,  \* gl_initialised
  ready,        \* gl_memhawkReady
  region,       \* what the allocator gave: [by, start, len]
  ptr,          \* the pointer the program holds
  info,         \* the AllocInfo in front of it: [size, offset, invalid]
  asked,        \* history: the size and the alignment that were requested
  kept,         \* history: how many leading bytes hold what the program wrote
  heap          \* the heap the block is accounted to, or None
lifeVars == <<init, initialised, ready>>
blockVars == <<region, ptr, info, asked, kept, heap>>
vars == <<lifeVars, blockVars>>

Least(a, b) == IF a < b THEN a ELSE b
Live(b) == region[b] # None

TypeOK ==
  /\ init \in {"begin", "constructed", "done", "stopped"}
  /\ initialised \in BOOLEAN /\ ready \in BOOLEAN
  /\ \A b \in Block :
       Live(b) =>
         /\ region[b].by \in {"mmap", "libc"} /\ region[b].len \in Nat
         /\ info[b].offset >= AdditionalSize
         /\ kept[b] \in 0 .. asked[b].size
         /\ heap[b] \in {None, "program", "memhawk"}

Init ==
  /\ init = "begin" /\ initialised = FALSE /\ ready = FALSE
  /\ region = [b \in Block |-> None] /\ ptr = [b \in Block |-> 0]
  /\ info = [b \in Block |-> None] /\ asked = [b \in Block |-> None]
  /\ kept = [b \in Block |-> 0] /\ heap = [b \in Block |-> None]

-----------------------------------------------------------------------------
(* init_memhawk and deinit_memhawk                                         *)

\* InitHooks, ParseConfig, and new MemHawk for a program whose name matches;
\* what they allocate goes through the hooks.
\* (mutant: gl_initialised is stored before gl_memhawkReady)
Construct_InitialisedFirst ==
  /\ init = "begin" /\ init' = "constructed"
  /\ initialised' = TRUE
  /\ UNCHANGED <<ready, blockVars>>
Construct ==
  /\ init = "begin" /\ init' = "constructed"
  /\ ready' = TRUE
  /\ UNCHANGED <<initialised, blockVars>>

\* From here on both flags are set.
Initialise ==
  /\ init = "constructed" /\ init' = "done"
  /\ initialised' = TRUE /\ ready' = TRUE
  /\ UNCHANGED blockVars

\* CheckProgname fails: the hooks work, without a MemHawk.
OtherProgram ==
  /\ init = "begin" /\ init' = "stopped"
  /\ initialised' = TRUE
  /\ UNCHANGED <<ready, blockVars>>

DeinitMemhawk ==
  /\ init = "done" /\ init' = "stopped"
  /\ ready' = FALSE
  /\ UNCHANGED <<initialised, blockVars>>

-----------------------------------------------------------------------------
(* Allocation                                                              *)

align_ceil(value, alignment) == ((value + alignment - 1) \div alignment) * alignment

\* Block b becomes r, with the user's bytes `offset` after its start.
Put(b, r, offset, size, invalid) ==
  /\ region' = [region EXCEPT ![b] = r]
  /\ ptr' = [ptr EXCEPT ![b] = r.start + offset]
  /\ info' = [info EXCEPT ![b] = [size |-> size, offset |-> offset, invalid |-> invalid]]

Asked(b, size, alignment, bytes) ==
  /\ asked' = [asked EXCEPT ![b] = [size |-> size, alignment |-> alignment]]
  /\ kept' = [kept EXCEPT ![b] = bytes]

\* DirectMmap returns pages, DirectMunmap takes back what the header says.
Mapped(start, len) == [by |-> "mmap", start |-> start, len |-> len]
PageStart == {s \in Start : s % PageSize = 0}
LibcStart(alignment) == {s \in Start : s % alignment = 0}
Allocated(start, len) == [by |-> "libc", start |-> start, len |-> len]

mmap_malloc(b, size) ==
  \E s \in PageStart :
    Put(b, Mapped(s, size + AdditionalSize), AdditionalSize, size, TRUE)

\* The header records the bytes up to the end of the mapping as the size.
\* (mutant: it records the size that was requested)
MappedSize_Requested(size, total, offset) == size
MappedSize(size, total, offset) == total - offset
AlignedAt(start, alignment) == align_ceil(start + AdditionalSize, alignment)

mmap_alloc_aligned(b, size, alignment) ==
  \E s \in PageStart :
    LET total == size + AdditionalSize + alignment
        offset == AlignedAt(s, alignment) - s
    IN  Put(b, Mapped(s, total), offset, MappedSize(size, total, offset), TRUE)

\* TrackAllocation: a nested hook is accounted to MemHawk itself.
TrackAllocation(b, external) ==
  heap' = [heap EXCEPT ![b] = IF ~ready THEN None ELSE IF external THEN "program" ELSE "memhawk"]

\* hawk_malloc, and hawk_calloc once its product has been checked.
Malloc(b) ==
  /\ ~Live(b)
  /\ \E size \in Size :
       /\ Asked(b, size, AdditionalSize, size)
       /\ \/ /\ ~initialised
             /\ mmap_malloc(b, size)
             /\ UNCHANGED heap
          \/ /\ initialised
             /\ \E s \in LibcStart(AdditionalSize) :
                  Put(b, Allocated(s, size + AdditionalSize), AdditionalSize, size, FALSE)
             /\ TrackAllocation(b, TRUE)
  /\ UNCHANGED lifeVars

\* What precedes the user's bytes in an aligned block of the C library.
\* (mutant: the header alone)
AlignedSize_Header(alignment) == AdditionalSize
AlignedSize(alignment) == align_ceil(AdditionalSize, alignment)

\* hawk_aligned_alloc and hawk_posix_memalign.
AlignedAlloc(b, size, alignment) ==
  /\ ~Live(b)
  /\ Asked(b, size, alignment, size)
  /\ \/ /\ ~initialised
        /\ mmap_alloc_aligned(b, size, alignment)
        /\ UNCHANGED heap
     \/ /\ initialised
        /\ \E s \in LibcStart(alignment) :
             Put(b, Allocated(s, size + AlignedSize(alignment)), AlignedSize(alignment), size, FALSE)
        /\ TrackAllocation(b, TRUE)
  /\ UNCHANGED lifeVars

\* hawk_valloc and hawk_pvalloc abort before gl_initialised.
Valloc(b) ==
  /\ initialised
  /\ \E size \in Size : AlignedAlloc(b, size, PageSize) \/ AlignedAlloc(b, align_ceil(size, PageSize), PageSize)

-----------------------------------------------------------------------------
(* Reallocation and deallocation                                           *)

\* Bytes copied out of the old mapping: the smaller size, by its header.
Copied(b, size) == Least(info[b].size, size)

\* hawk_realloc before gl_initialised: mmap_realloc.
MmapRealloc(b, size) ==
  /\ ~initialised
  /\ mmap_malloc(b, size)
  /\ Asked(b, size, AdditionalSize, Least(kept[b], Copied(b, size)))
  /\ UNCHANGED heap

\* A mapping after gl_initialised is replaced by a block of hawk_malloc, called
\* under the RecursiveStacktrace of hawk_realloc.
Launder(b, size) ==
  /\ initialised /\ info[b].invalid
  /\ \E s \in LibcStart(AdditionalSize) :
       Put(b, Allocated(s, size + AdditionalSize), AdditionalSize, size, FALSE)
  /\ Asked(b, size, AdditionalSize, Least(kept[b], Copied(b, size)))
  /\ TrackAllocation(b, FALSE)

\* The C library keeps as many bytes as both blocks have.
\* (mutant: the new block has no room for the offset)
ReallocSize_NoOffset(b, size) == size + AdditionalSize
ReallocSize(b, size) == size + info[b].offset
RealRealloc(b, size) ==
  /\ initialised /\ ~info[b].invalid
  /\ \E s \in LibcStart(AdditionalSize) :
       Put(b, Allocated(s, ReallocSize(b, size)), info[b].offset, size, FALSE)
  /\ Asked(b, size, AdditionalSize,
           Least(kept[b], Least(region[b].len, ReallocSize(b, size)) - info[b].offset))
  /\ TrackAllocation(b, TRUE)

Realloc(b) ==
  /\ Live(b)
  /\ \E size \in Size : MmapRealloc(b, size) \/ Launder(b, size) \/ RealRealloc(b, size)
  /\ UNCHANGED lifeVars

\* hawk_free; it aborts on a block of the C library before gl_initialised.
Free(b) ==
  /\ Live(b) /\ (info[b].invalid \/ initialised)
  /\ region' = [region EXCEPT ![b] = None] /\ ptr' = [ptr EXCEPT ![b] = 0]
  /\ info' = [info EXCEPT ![b] = None] /\ asked' = [asked EXCEPT ![b] = None]
  /\ kept' = [kept EXCEPT ![b] = 0] /\ heap' = [heap EXCEPT ![b] = None]
  /\ UNCHANGED lifeVars

\* The program fills the block.
Write(b) ==
  /\ Live(b) /\ kept[b] < asked[b].size
  /\ kept' = [kept EXCEPT ![b] = asked[b].size]
  /\ UNCHANGED <<lifeVars, region, ptr, info, asked, heap>>

Next ==
  \/ Construct \/ Initialise \/ OtherProgram \/ DeinitMemhawk
  \/ \E b \in Block :
       \/ Malloc(b) \/ Valloc(b) \/ Realloc(b) \/ Free(b) \/ Write(b)
       \/ \E size \in Size, alignment \in Alignment : AlignedAlloc(b, size, alignment)
Spec == Init /\ [][Next]_vars

-----------------------------------------------------------------------------
(* Properties.                                                             *)

\* hawk_free and hawk_realloc give back, by the header alone, exactly what was
\* allocated, to the allocator it came from: the whole mapping, or the pointer
\* the C library returned.
HeaderFindsTheRegion ==
  \A b \in Block :
    Live(b) =>
      /\ ptr[b] - info[b].offset = region[b].start
      /\ info[b].invalid <=> region[b].by = "mmap"
      /\ info[b].invalid => info[b].size + info[b].offset = region[b].len

\* The header, the bytes the program asked for and those malloc_usable_size
\* reports lie within what was allocated, and the pointer is aligned as asked.
UserBytesFit ==
  \A b \in Block :
    Live(b) =>
      /\ region[b].start <= ptr[b] - AdditionalSize
      /\ asked[b].size <= info[b].size
      /\ ptr[b] + info[b].size <= region[b].start + region[b].len
      /\ ptr[b] % asked[b].alignment = 0

\* A pointer the program holds and its region lead to each other.
RegionAndHeaderAgree == HeaderFindsTheRegion /\ UserBytesFit

\* Whatever the library's state was at the allocation and is now, realloc keeps
\* what the program wrote, up to the new size.
ReallocKeepsBytes ==
  [][\A b \in Block :
       Live(b) /\ Live(b)' => kept'[b] >= Least(kept[b], asked'[b].size)]_vars

\* While MemHawk is ready every block of the C library is accounted, so no
\* deallocation is tracked whose allocation was not; before gl_initialised
\* there is no such block, which hawk_free would abort on and mmap_realloc
\* would unmap.
ReadyMeansAccounted ==
  \A b \in Block :
    (Live(b) /\ region[b].by = "libc") => initialised /\ (ready => heap[b] # None)

\* "account realloc by malloc" (hawk_malloc.cpp): what the program reallocates
\* is accounted to the program.
AccountedToProgram ==
  \A b \in Block : heap[b] # "memhawk"
=============================================================================
