--------------------------- MODULE LibraryProofs ---------------------------
(***************************************************************************)
(* Proofs about the smaller parts of the library, each for any value of its*)
(* constants: the headers of allocations (AllocHeaders), the list of loaded*)
(* modules (ModuleCache) and the callbacks of finalizers (OwnedGuards).    *)
(***************************************************************************)
EXTENDS AllocHeaders, ModuleCache, OwnedGuards, SequenceTheorems, TLAPS

-----------------------------------------------------------------------------
(***************************************************************************)
(* AllocHeaders, for any number of blocks and any sizes and alignments that*)
(* divide one another as powers of two do.                                 *)
(***************************************************************************)

USE SizesAssumption

\* How far the library is and what its flags say.
LifeInv ==
  /\ init \in {"begin", "constructed", "done", "stopped"}
  /\ initialised \in BOOLEAN /\ ready \in BOOLEAN
  /\ init \in {"begin", "constructed"} => ~initialised
  /\ init = "begin" => ~ready
  /\ init \in {"done", "stopped"} => initialised
  /\ init = "stopped" => ~ready

TableInv ==
  /\ region = [b \in Block |-> region[b]] /\ ptr = [b \in Block |-> ptr[b]]
  /\ info = [b \in Block |-> info[b]] /\ asked = [b \in Block |-> asked[b]]
  /\ kept = [b \in Block |-> kept[b]] /\ heap = [b \in Block |-> heap[b]]
  /\ \A b \in Block : heap[b] \in {None, "program", "memhawk"}

\* The region r, with the header i in front of the pointer p, serves request a.
Placed(r, p, i) ==
  /\ r.start \in Nat /\ r.len \in Nat /\ r.by \in {"mmap", "libc"}
  /\ i.size \in Nat /\ i.offset \in Nat /\ i.offset >= AdditionalSize
  /\ p = r.start + i.offset
  /\ i.invalid <=> r.by = "mmap"
  /\ i.size + i.offset <= r.len
  /\ r.by = "mmap" => i.size + i.offset = r.len
  /\ r.by = "libc" => i.offset % AdditionalSize = 0
Serves(p, i, a, k) ==
  /\ a.size \in Nat /\ a.alignment \in Nat \ {0}
  /\ a.size <= i.size
  /\ p % a.alignment = 0
  /\ k \in 0 .. a.size
Accounted(r, h) ==
  /\ h \in {None, "program", "memhawk"}
  /\ r.by = "libc" => initialised /\ (ready => h # None)

BlockInv ==
  \A b \in Block :
    Live(b) =>
      /\ Placed(region[b], ptr[b], info[b])
      /\ Serves(ptr[b], info[b], asked[b], kept[b])
      /\ Accounted(region[b], heap[b])

IInv == LifeInv /\ TableInv /\ BlockInv

-----------------------------------------------------------------------------
(* Multiples.                                                              *)

LEMMA Division ==
  ASSUME NEW x \in Nat, NEW a \in Nat \ {0}
  PROVE  /\ x \div a \in Nat
         /\ (x \div a) * a <= x /\ x < (x \div a) * a + a
         /\ x = (x \div a) * a + (x % a)
  OBVIOUS

LEMMA Multiple ==
  ASSUME NEW q \in Nat, NEW a \in Nat \ {0}
  PROVE  (q * a) % a = 0
  OBVIOUS

LEMMA SumOfMultiples ==
  ASSUME NEW a \in Nat \ {0}, NEW x \in Nat, NEW y \in Nat, x % a = 0, y % a = 0
  PROVE  (x + y) % a = 0
<1> DEFINE i == x \div a
           j == y \div a
<1>1. i \in Nat /\ j \in Nat /\ x = i * a /\ y = j * a
  BY Division
<1> HIDE DEF i, j
<1>2. x + y = (i + j) * a /\ i + j \in Nat
  BY <1>1
<1> QED
  BY <1>2, Multiple

LEMMA MultipleOfMultiple ==
  ASSUME NEW a \in Nat \ {0}, NEW b \in Nat \ {0}, NEW x \in Nat, b % a = 0, x % b = 0
  PROVE  x % a = 0
<1> DEFINE i == b \div a
           j == x \div b
<1>1. i \in Nat /\ j \in Nat /\ b = i * a /\ x = j * b
  BY Division
<1> HIDE DEF i, j
<1>2. j * i \in Nat /\ x = (j * i) * a
  BY <1>1
<1> QED
  BY <1>2, Multiple

LEMMA Itself == ASSUME NEW a \in Nat \ {0} PROVE a % a = 0
  BY Division

\* align_ceil goes up to a multiple, by less than the alignment.
LEMMA AlignCeil ==
  ASSUME NEW v \in Nat, NEW a \in Nat \ {0}
  PROVE  /\ align_ceil(v, a) \in Nat /\ align_ceil(v, a) % a = 0
         /\ v <= align_ceil(v, a) /\ align_ceil(v, a) < v + a
<1> DEFINE x == v + a - 1
           q == x \div a
<1>1. x \in Nat /\ q \in Nat /\ q * a <= x /\ x < q * a + a
  BY Division
<1>2. align_ceil(v, a) = q * a
  BY DEF align_ceil
<1> HIDE DEF q
<1>3. q * a \in Nat
  BY <1>1
<1> QED
  BY <1>1, <1>2, <1>3, Multiple

\* What precedes the user's bytes in an aligned block keeps its alignment and
\* that of the header.
LEMMA AlignedSizeDivides ==
  ASSUME NEW a \in Nat \ {0}, AdditionalSize % a = 0 \/ a % AdditionalSize = 0
  PROVE  /\ AlignedSize(a) \in Nat /\ AlignedSize(a) >= AdditionalSize
         /\ AlignedSize(a) % a = 0 /\ AlignedSize(a) % AdditionalSize = 0
<1> DEFINE c == align_ceil(AdditionalSize, a)
<1>1. c \in Nat /\ c % a = 0 /\ AdditionalSize <= c /\ c < AdditionalSize + a
  BY AlignCeil
<1> HIDE DEF c
<1>2. ASSUME a % AdditionalSize = 0 PROVE c % AdditionalSize = 0
  BY <1>1, <1>2, MultipleOfMultiple
<1>3. ASSUME AdditionalSize % a = 0 PROVE c % AdditionalSize = 0
  <2> DEFINE i == c \div a
             j == AdditionalSize \div a
  <2>1. i \in Nat /\ j \in Nat /\ c = i * a /\ AdditionalSize = j * a
    BY <1>1, <1>3, Division
  <2> HIDE DEF i, j
  <2>2. i = j
    <3>1. CASE i < j
      <4>1. i + 1 <= j
        BY <2>1, <3>1
      <4>2. (i + 1) * a <= j * a
        BY <2>1, <4>1
      <4> QED
        BY <1>1, <2>1, <4>2
    <3>2. CASE i > j
      <4>1. j + 1 <= i
        BY <2>1, <3>2
      <4>2. (j + 1) * a <= i * a
        BY <2>1, <4>1
      <4> QED
        BY <1>1, <2>1, <4>2
    <3> QED
      BY <2>1, <3>1, <3>2
  <2>3. c = AdditionalSize
    BY <2>1, <2>2
  <2> QED
    BY <2>3, Itself
<1>4. c % AdditionalSize = 0
  BY <1>2, <1>3
<1> QED
  BY <1>1, <1>4 DEF c, AlignedSize

-----------------------------------------------------------------------------
(* One block at a time.                                                    *)

\* What a step that concerns block b leaves alone.
Others(b) ==
  \A c \in Block \ {b} :
    /\ region'[c] = region[c] /\ ptr'[c] = ptr[c] /\ info'[c] = info[c]
    /\ asked'[c] = asked[c] /\ kept'[c] = kept[c] /\ heap'[c] = heap[c]

LEMMA OneBlock ==
  ASSUME IInv, NEW b \in Block, UNCHANGED lifeVars, TableInv', Others(b),
         Live(b)' => /\ Placed(region'[b], ptr'[b], info'[b])
                     /\ Serves(ptr'[b], info'[b], asked'[b], kept'[b])
                     /\ Accounted(region[b], heap[b])'
  PROVE  IInv'
<1>1. UNCHANGED <<init, initialised, ready>>
  BY DEF lifeVars
<1>2. LifeInv'
  BY <1>1 DEF LifeInv, IInv
<1>3. ASSUME NEW c \in Block, c # b, Live(c)'
      PROVE  /\ Placed(region'[c], ptr'[c], info'[c])
             /\ Serves(ptr'[c], info'[c], asked'[c], kept'[c])
             /\ Accounted(region[c], heap[c])'
  <2>1. /\ region'[c] = region[c] /\ ptr'[c] = ptr[c] /\ info'[c] = info[c]
        /\ asked'[c] = asked[c] /\ kept'[c] = kept[c] /\ heap'[c] = heap[c]
    BY <1>3 DEF Others
  <2>2. Live(c)
    BY <1>3, <2>1 DEF Live
  <2>3. /\ Placed(region[c], ptr[c], info[c])
        /\ Serves(ptr[c], info[c], asked[c], kept[c])
        /\ Accounted(region[c], heap[c])
    BY <2>2 DEF IInv, BlockInv
  <2> QED
    BY <1>1, <2>1, <2>3 DEF Accounted
<1>4. BlockInv'
  BY <1>3 DEF BlockInv
<1> QED
  BY <1>2, <1>4 DEF IInv

LEMMA HeapEffect ==
  ASSUME NEW b \in Block, TableInv, heap' = heap \/ \E e \in BOOLEAN : TrackAllocation(b, e)
  PROVE  /\ heap' = [c \in Block |-> heap'[c]]
         /\ \A c \in Block \ {b} : heap'[c] = heap[c]
         /\ \A c \in Block : heap'[c] \in {None, "program", "memhawk"}
  BY DEF TableInv, TrackAllocation

\* A mapping, as mmap_malloc and mmap_alloc_aligned make it.
LEMMA MappedPlaced ==
  ASSUME NEW start \in Nat, NEW total \in Nat, NEW offset \in Nat, NEW size \in Nat,
         offset >= AdditionalSize, size + offset = total
  PROVE  Placed(Mapped(start, total), start + offset,
                [size |-> size, offset |-> offset, invalid |-> TRUE])
  BY DEF Placed, Mapped

\* A block of the C library.
LEMMA AllocatedPlaced ==
  ASSUME NEW start \in Nat, NEW total \in Nat, NEW offset \in Nat, NEW size \in Nat,
         offset >= AdditionalSize, offset % AdditionalSize = 0, size + offset = total
  PROVE  Placed(Allocated(start, total), start + offset,
                [size |-> size, offset |-> offset, invalid |-> FALSE])
  BY DEF Placed, Allocated

\* A block of the C library is tracked while MemHawk is ready.
LEMMA TrackedAccounted ==
  ASSUME TableInv, NEW b \in Block, NEW e \in BOOLEAN, TrackAllocation(b, e), UNCHANGED lifeVars,
         initialised, region'[b].by \in {"mmap", "libc"}
  PROVE  Accounted(region[b], heap[b])'
<1>1. heap'[b] = IF ~ready THEN None ELSE IF e THEN "program" ELSE "memhawk"
  BY DEF TrackAllocation, TableInv
<1>2. initialised' = initialised /\ ready' = ready
  BY DEF lifeVars
<1> QED
  BY <1>1, <1>2, NoneAssumption DEF Accounted

-----------------------------------------------------------------------------
(* The actions.                                                            *)

\* A mapping is not accounted.
LEMMA MappingAccounted ==
  ASSUME TableInv', NEW b \in Block, region'[b].by = "mmap"
  PROVE  Accounted(region[b], heap[b])'
  BY DEF TableInv, Accounted

\* hawk_malloc's block of the C library, which hawk_realloc uses, too.
LEMMA LibcBlock ==
  ASSUME IInv, NEW b \in Block, NEW size \in Nat, NEW k \in 0 .. size, NEW e \in BOOLEAN,
         initialised, UNCHANGED lifeVars, TrackAllocation(b, e),
         NEW s \in LibcStart(AdditionalSize),
         Put(b, Allocated(s, size + AdditionalSize), AdditionalSize, size, FALSE),
         Asked(b, size, AdditionalSize, k)
  PROVE  IInv'
<1> DEFINE r == Allocated(s, size + AdditionalSize)
<1>1. s \in Nat /\ s % AdditionalSize = 0
  BY DEF LibcStart
<1>2. /\ TableInv' /\ Others(b) /\ region'[b] = r /\ ptr'[b] = r.start + AdditionalSize
      /\ info'[b] = [size |-> size, offset |-> AdditionalSize, invalid |-> FALSE]
      /\ asked'[b] = [size |-> size, alignment |-> AdditionalSize] /\ kept'[b] = k
  <2>1. heap' = [c \in Block |-> heap'[c]] /\ (\A c \in Block \ {b} : heap'[c] = heap[c])
        /\ \A c \in Block : heap'[c] \in {None, "program", "memhawk"}
    BY HeapEffect DEF IInv
  <2>2. TableInv
    BY DEF IInv
  <2> QED
    BY <2>1, <2>2 DEF TableInv, Others, Put, Asked
<1>3. r.start = s /\ r.by = "libc"
  BY DEF Allocated
<1>4. Placed(region'[b], ptr'[b], info'[b])
  <2>1. size + AdditionalSize \in Nat /\ AdditionalSize % AdditionalSize = 0
    BY Itself
  <2> QED
    BY <1>1, <1>2, <1>3, <2>1, AllocatedPlaced
<1>5. Serves(ptr'[b], info'[b], asked'[b], kept'[b])
  <2>1. (s + AdditionalSize) % AdditionalSize = 0
    BY <1>1, Itself, SumOfMultiples
  <2> QED
    BY <1>2, <1>3, <2>1 DEF Serves
<1>6. Accounted(region[b], heap[b])'
  BY <1>2, <1>3, TrackedAccounted DEF IInv
<1> HIDE DEF r
<1> QED
  BY <1>2, <1>4, <1>5, <1>6, OneBlock

\* mmap_malloc's mapping, which mmap_realloc uses, too.
LEMMA MmapBlock ==
  ASSUME IInv, NEW b \in Block, NEW size \in Nat, NEW k \in 0 .. size,
         UNCHANGED lifeVars, UNCHANGED heap, mmap_malloc(b, size),
         Asked(b, size, AdditionalSize, k)
  PROVE  IInv'
<1>1. PICK s \in PageStart :
        Put(b, Mapped(s, size + AdditionalSize), AdditionalSize, size, TRUE)
  BY DEF mmap_malloc
<1> DEFINE r == Mapped(s, size + AdditionalSize)
<1>2. s \in Nat /\ s % AdditionalSize = 0
  <2>1. s \in Nat /\ s % PageSize = 0
    BY DEF PageStart
  <2> QED
    BY <2>1, MultipleOfMultiple
<1>3. /\ TableInv' /\ Others(b) /\ region'[b] = r /\ ptr'[b] = r.start + AdditionalSize
      /\ info'[b] = [size |-> size, offset |-> AdditionalSize, invalid |-> TRUE]
      /\ asked'[b] = [size |-> size, alignment |-> AdditionalSize] /\ kept'[b] = k
  <2>1. heap' = [c \in Block |-> heap'[c]] /\ (\A c \in Block \ {b} : heap'[c] = heap[c])
        /\ \A c \in Block : heap'[c] \in {None, "program", "memhawk"}
    BY <1>1, HeapEffect DEF IInv
  <2>2. TableInv
    BY DEF IInv
  <2> QED
    BY <1>1, <2>1, <2>2 DEF TableInv, Others, Put, Asked
<1>4. r.start = s /\ r.by = "mmap"
  BY DEF Mapped
<1>5. Placed(region'[b], ptr'[b], info'[b])
  <2>1. size + AdditionalSize \in Nat
    OBVIOUS
  <2> QED
    BY <1>2, <1>3, <1>4, <2>1, MappedPlaced
<1>6. Serves(ptr'[b], info'[b], asked'[b], kept'[b])
  <2>1. (s + AdditionalSize) % AdditionalSize = 0
    BY <1>2, Itself, SumOfMultiples
  <2> QED
    BY <1>3, <1>4, <2>1 DEF Serves
<1>7. Accounted(region[b], heap[b])'
  BY <1>3, <1>4, MappingAccounted
<1> HIDE DEF r
<1> QED
  BY <1>3, <1>5, <1>6, <1>7, OneBlock

LEMMA MallocStep ==
  ASSUME IInv, NEW b \in Block, Malloc(b)
  PROVE  IInv'
<1>1. PICK size \in Size :
        /\ Asked(b, size, AdditionalSize, size)
        /\ \/ ~initialised /\ mmap_malloc(b, size) /\ UNCHANGED heap
           \/ /\ initialised
              /\ \E s \in LibcStart(AdditionalSize) :
                   Put(b, Allocated(s, size + AdditionalSize), AdditionalSize, size, FALSE)
              /\ TrackAllocation(b, TRUE)
  BY DEF Malloc
<1>2. UNCHANGED lifeVars /\ size \in Nat /\ size \in 0 .. size
  BY DEF Malloc
<1> QED
  BY <1>1, <1>2, MmapBlock, LibcBlock

LEMMA AlignedAllocStep ==
  ASSUME IInv, NEW b \in Block, NEW size \in Nat, NEW alignment \in Nat \ {0},
         AdditionalSize % alignment = 0 \/ alignment % AdditionalSize = 0,
         AlignedAlloc(b, size, alignment)
  PROVE  IInv'
<1>a. UNCHANGED lifeVars /\ Asked(b, size, alignment, size)
  BY DEF AlignedAlloc
<1>1. ASSUME ~initialised, mmap_alloc_aligned(b, size, alignment), UNCHANGED heap
      PROVE  IInv'
  <2> DEFINE total == size + AdditionalSize + alignment
  <2>1. PICK s \in PageStart :
          Put(b, Mapped(s, total), AlignedAt(s, alignment) - s,
              MappedSize(size, total, AlignedAt(s, alignment) - s), TRUE)
    BY <1>1 DEF mmap_alloc_aligned
  <2> DEFINE p == AlignedAt(s, alignment)
             offset == p - s
             mapped == total - offset
             r == Mapped(s, total)
  <2>2. s \in Nat
    BY DEF PageStart
  <2>3. p \in Nat /\ p % alignment = 0 /\ s + AdditionalSize <= p /\ p < s + AdditionalSize + alignment
    <3>1. s + AdditionalSize \in Nat
      BY <2>2
    <3> QED
      BY <3>1, AlignCeil DEF AlignedAt
  <2>4. Put(b, r, offset, mapped, TRUE)
    BY <2>1 DEF MappedSize
  <2> HIDE DEF p
  <2>5. /\ total \in Nat /\ offset \in Nat /\ mapped \in Nat /\ offset >= AdditionalSize
        /\ mapped + offset = total /\ size <= mapped /\ s + offset = p
    BY <2>2, <2>3
  <2> HIDE DEF offset, mapped, total, r
  <2>6. /\ TableInv' /\ Others(b) /\ region'[b] = r /\ ptr'[b] = r.start + offset
        /\ info'[b] = [size |-> mapped, offset |-> offset, invalid |-> TRUE]
        /\ asked'[b] = [size |-> size, alignment |-> alignment] /\ kept'[b] = size
    <3>1. heap' = [c \in Block |-> heap'[c]] /\ (\A c \in Block \ {b} : heap'[c] = heap[c])
          /\ \A c \in Block : heap'[c] \in {None, "program", "memhawk"}
      BY <1>1, <1>a, <2>4, HeapEffect DEF IInv
    <3>2. TableInv
      BY DEF IInv
    <3> QED
      BY <1>1, <1>a, <2>4, <3>1, <3>2 DEF TableInv, Others, Put, Asked
  <2>7. r.start = s /\ r.by = "mmap"
    BY DEF Mapped, r
  <2>8. Placed(region'[b], ptr'[b], info'[b])
    <3>1. Placed(Mapped(s, total), s + offset, [size |-> mapped, offset |-> offset, invalid |-> TRUE])
      BY <2>2, <2>5, MappedPlaced
    <3> QED
      BY <2>6, <2>7, <3>1 DEF r
  <2>9. Serves(ptr'[b], info'[b], asked'[b], kept'[b])
    BY <2>3, <2>5, <2>6, <2>7 DEF Serves
  <2>10. Accounted(region[b], heap[b])'
    BY <2>6, <2>7, MappingAccounted
  <2> QED
    BY <1>a, <2>6, <2>8, <2>9, <2>10, OneBlock
<1>2. ASSUME initialised, TrackAllocation(b, TRUE), NEW s \in LibcStart(alignment),
             Put(b, Allocated(s, size + AlignedSize(alignment)), AlignedSize(alignment), size, FALSE)
      PROVE  IInv'
  <2> DEFINE offset == AlignedSize(alignment)
             r == Allocated(s, size + offset)
  <2>1. /\ offset \in Nat /\ offset >= AdditionalSize
        /\ offset % alignment = 0 /\ offset % AdditionalSize = 0
    BY AlignedSizeDivides
  <2>2. s \in Nat /\ s % alignment = 0
    BY DEF LibcStart
  <2>3. Put(b, r, offset, size, FALSE)
    BY <1>2
  <2> HIDE DEF offset, r
  <2>4. /\ TableInv' /\ Others(b) /\ region'[b] = r /\ ptr'[b] = r.start + offset
        /\ info'[b] = [size |-> size, offset |-> offset, invalid |-> FALSE]
        /\ asked'[b] = [size |-> size, alignment |-> alignment] /\ kept'[b] = size
    <3>1. heap' = [c \in Block |-> heap'[c]] /\ (\A c \in Block \ {b} : heap'[c] = heap[c])
          /\ \A c \in Block : heap'[c] \in {None, "program", "memhawk"}
      BY <1>2, <1>a, <2>3, HeapEffect DEF IInv
    <3>2. TableInv
      BY DEF IInv
    <3> QED
      BY <1>2, <1>a, <2>3, <3>1, <3>2 DEF TableInv, Others, Put, Asked
  <2>5. r.start = s /\ r.by = "libc"
    BY DEF Allocated, r
  <2>6. Placed(region'[b], ptr'[b], info'[b])
    <3>1. size + offset \in Nat
      BY <2>1
    <3> QED
      BY <2>1, <2>2, <2>4, <2>5, <3>1, AllocatedPlaced DEF r
  <2>7. Serves(ptr'[b], info'[b], asked'[b], kept'[b])
    <3>1. (s + offset) % alignment = 0
      BY <2>1, <2>2, SumOfMultiples
    <3> QED
      BY <2>4, <2>5, <3>1 DEF Serves
  <2>8. Accounted(region[b], heap[b])'
    BY <1>2, <1>a, <2>4, <2>5, TrackedAccounted DEF IInv
  <2> QED
    BY <1>a, <2>4, <2>6, <2>7, <2>8, OneBlock
<1> QED
  BY <1>1, <1>2 DEF AlignedAlloc

\* What hawk_realloc copies: everything that was written, up to the new size.
LEMMA CopiedBytes ==
  ASSUME IInv, NEW b \in Block, Live(b), NEW size \in Nat
  PROVE  /\ kept[b] \in Nat /\ Least(kept[b], Copied(b, size)) = Least(kept[b], size)
         /\ Least(kept[b], size) \in 0 .. size
         /\ info[b].offset \in Nat /\ region[b].len \in Nat
         /\ Least(kept[b], Least(region[b].len, ReallocSize(b, size)) - info[b].offset)
              = Least(kept[b], size)
<1>1. /\ Placed(region[b], ptr[b], info[b])
      /\ Serves(ptr[b], info[b], asked[b], kept[b])
  BY DEF IInv, BlockInv
<1>2. /\ kept[b] \in Nat /\ info[b].size \in Nat /\ info[b].offset \in Nat /\ region[b].len \in Nat
      /\ kept[b] <= info[b].size /\ info[b].size + info[b].offset <= region[b].len
  BY <1>1 DEF Placed, Serves
<1>3. Least(kept[b], Copied(b, size)) = Least(kept[b], size) /\ Least(kept[b], size) \in 0 .. size
  BY <1>2 DEF Least, Copied
<1>4. Least(kept[b], Least(region[b].len, ReallocSize(b, size)) - info[b].offset)
        = Least(kept[b], size)
  BY <1>2, SMTT(20) DEF Least, ReallocSize
<1> QED
  BY <1>2, <1>3, <1>4

\* The block that hawk_realloc gets from the C library keeps its offset.
LEMMA RealReallocStep ==
  ASSUME IInv, NEW b \in Block, Live(b), NEW size \in Nat, RealRealloc(b, size), UNCHANGED lifeVars
  PROVE  IInv'
<1> DEFINE offset == info[b].offset
           k == Least(kept[b], size)
<1>1. PICK s \in LibcStart(AdditionalSize) :
        Put(b, Allocated(s, ReallocSize(b, size)), offset, size, FALSE)
  BY DEF RealRealloc
<1>a. Asked(b, size, AdditionalSize, k) /\ TrackAllocation(b, TRUE) /\ initialised /\ ~info[b].invalid
  BY CopiedBytes DEF RealRealloc
<1>b. k \in 0 .. size
  BY CopiedBytes
<1>2. offset \in Nat /\ offset >= AdditionalSize /\ offset % AdditionalSize = 0
  <2>1. Placed(region[b], ptr[b], info[b])
    BY DEF IInv, BlockInv
  <2> QED
    BY <1>a, <2>1 DEF Placed
<1> DEFINE r == Allocated(s, size + offset)
<1>3. Put(b, r, offset, size, FALSE)
  BY <1>1 DEF ReallocSize
<1>4. s \in Nat /\ s % AdditionalSize = 0
  BY DEF LibcStart
<1> HIDE DEF offset, r, k
<1>5. /\ TableInv' /\ Others(b) /\ region'[b] = r /\ ptr'[b] = r.start + offset
      /\ info'[b] = [size |-> size, offset |-> offset, invalid |-> FALSE]
      /\ asked'[b] = [size |-> size, alignment |-> AdditionalSize] /\ kept'[b] = k
  <2>1. heap' = [c \in Block |-> heap'[c]] /\ (\A c \in Block \ {b} : heap'[c] = heap[c])
        /\ \A c \in Block : heap'[c] \in {None, "program", "memhawk"}
    BY <1>a, HeapEffect DEF IInv
  <2>2. TableInv
    BY DEF IInv
  <2> QED
    BY <1>3, <1>a, <2>1, <2>2 DEF TableInv, Others, Put, Asked
<1>6. r.start = s /\ r.by = "libc"
  BY DEF Allocated, r
<1>7. Placed(region'[b], ptr'[b], info'[b])
  <2>1. size + offset \in Nat
    BY <1>2
  <2> QED
    BY <1>2, <1>4, <1>5, <1>6, <2>1, AllocatedPlaced DEF r
<1>8. Serves(ptr'[b], info'[b], asked'[b], kept'[b])
  <2>1. (s + offset) % AdditionalSize = 0
    BY <1>2, <1>4, SumOfMultiples
  <2> QED
    BY <1>5, <1>6, <1>b, <2>1 DEF Serves
<1>9. Accounted(region[b], heap[b])'
  BY <1>5, <1>6, <1>a, TrackedAccounted DEF IInv
<1> QED
  BY <1>5, <1>7, <1>8, <1>9, OneBlock

LEMMA ReallocStep ==
  ASSUME IInv, NEW b \in Block, Realloc(b)
  PROVE  IInv'
<1>1. PICK size \in Size : MmapRealloc(b, size) \/ Launder(b, size) \/ RealRealloc(b, size)
  BY DEF Realloc
<1>2. Live(b) /\ size \in Nat /\ UNCHANGED lifeVars
  BY DEF Realloc
<1> DEFINE k == Least(kept[b], size)
<1>3. k \in 0 .. size /\ Least(kept[b], Copied(b, size)) = k
  BY <1>2, CopiedBytes
<1> HIDE DEF k
<1>4. CASE MmapRealloc(b, size)
  <2>1. mmap_malloc(b, size) /\ Asked(b, size, AdditionalSize, k) /\ UNCHANGED heap
    BY <1>3, <1>4 DEF MmapRealloc
  <2> QED
    BY <1>2, <1>3, <2>1, MmapBlock
<1>5. CASE Launder(b, size)
  <2>1. PICK s \in LibcStart(AdditionalSize) :
          Put(b, Allocated(s, size + AdditionalSize), AdditionalSize, size, FALSE)
    BY <1>5 DEF Launder
  <2>2. initialised /\ Asked(b, size, AdditionalSize, k) /\ TrackAllocation(b, FALSE)
    BY <1>3, <1>5 DEF Launder
  <2> QED
    BY <1>2, <1>3, <2>1, <2>2, LibcBlock
<1>6. CASE RealRealloc(b, size)
  BY <1>2, <1>6, RealReallocStep
<1> QED
  BY <1>1, <1>4, <1>5, <1>6

LEMMA FreeStep ==
  ASSUME IInv, NEW b \in Block, Free(b)
  PROVE  IInv'
<1>1. TableInv' /\ Others(b) /\ region'[b] = None /\ UNCHANGED lifeVars
  BY DEF Free, IInv, TableInv, Others
<1> QED
  BY <1>1, OneBlock DEF Live

LEMMA WriteStep ==
  ASSUME IInv, NEW b \in Block, Write(b)
  PROVE  IInv'
<1>1. TableInv' /\ Others(b) /\ kept'[b] = asked[b].size
      /\ UNCHANGED <<lifeVars, region, ptr, info, asked, heap>> /\ Live(b)
  BY DEF Write, IInv, TableInv, Others
<1>2. /\ Placed(region[b], ptr[b], info[b])
      /\ Serves(ptr[b], info[b], asked[b], kept[b])
      /\ Accounted(region[b], heap[b])
  BY <1>1 DEF IInv, BlockInv
<1>3. Serves(ptr'[b], info'[b], asked'[b], kept'[b])
  BY <1>1, <1>2 DEF Serves
<1>4. Accounted(region[b], heap[b])'
  BY <1>1, <1>2 DEF Accounted, lifeVars
<1> QED
  BY <1>1, <1>2, <1>3, <1>4, OneBlock

\* init_memhawk and deinit_memhawk: no block of the C library exists before
\* gl_initialised, so none becomes unaccounted when a flag is set.
LEMMA LifeStep ==
  ASSUME IInv, Construct \/ Initialise \/ OtherProgram \/ DeinitMemhawk
  PROVE  IInv'
<1>1. UNCHANGED <<region, ptr, info, asked, kept, heap>>
  BY DEF Construct, Initialise, OtherProgram, DeinitMemhawk, blockVars
<1>2. LifeInv'
  <2>1. initialised' \in BOOLEAN /\ ready' \in BOOLEAN
    BY Zenon DEF Construct, Initialise, OtherProgram, DeinitMemhawk, IInv, LifeInv
  <2> QED
    BY <2>1 DEF Construct, Initialise, OtherProgram, DeinitMemhawk, IInv, LifeInv
<1>3. TableInv'
  BY <1>1 DEF IInv, TableInv
<1>4. (initialised => initialised') /\ (initialised /\ ready' => ready)
  BY DEF Construct, Initialise, OtherProgram, DeinitMemhawk, IInv, LifeInv
<1>5. BlockInv'
  <2> SUFFICES ASSUME NEW b \in Block, Live(b)
               PROVE  /\ Placed(region[b], ptr[b], info[b])
                      /\ Serves(ptr[b], info[b], asked[b], kept[b])
                      /\ Accounted(region[b], heap[b])'
    BY <1>1 DEF BlockInv, Live
  <2>1. /\ Placed(region[b], ptr[b], info[b])
        /\ Serves(ptr[b], info[b], asked[b], kept[b])
        /\ Accounted(region[b], heap[b])
    BY DEF IInv, BlockInv
  <2> QED
    BY <1>1, <1>4, <2>1 DEF Accounted
<1> QED
  BY <1>2, <1>3, <1>5 DEF IInv

LEMMA InitInv == Init => IInv
  BY DEF Init, IInv, LifeInv, TableInv, BlockInv, Live

LEMMA NextInv == IInv /\ [Next]_vars => IInv'
<1> SUFFICES ASSUME IInv, [Next]_vars PROVE IInv'
  OBVIOUS
<1>1. ASSUME NEW b \in Block, Valloc(b) PROVE IInv'
  <2>1. PICK size \in Size :
          AlignedAlloc(b, size, PageSize) \/ AlignedAlloc(b, align_ceil(size, PageSize), PageSize)
    BY <1>1 DEF Valloc
  <2>2. size \in Nat /\ align_ceil(size, PageSize) \in Nat
    BY AlignCeil
  <2> QED
    BY <2>1, <2>2, AlignedAllocStep
<1>2. ASSUME NEW b \in Block, NEW size \in Size, NEW alignment \in Alignment,
             AlignedAlloc(b, size, alignment)
      PROVE  IInv'
  <2>1. /\ size \in Nat /\ alignment \in Nat \ {0}
        /\ AdditionalSize % alignment = 0 \/ alignment % AdditionalSize = 0
    OBVIOUS
  <2> QED
    BY <1>2, <2>1, AlignedAllocStep
<1>3. CASE UNCHANGED vars
  BY <1>3 DEF vars, lifeVars, blockVars, IInv, LifeInv, TableInv, BlockInv, Live, Accounted
<1> QED
  BY <1>1, <1>2, <1>3, LifeStep, MallocStep, ReallocStep, FreeStep, WriteStep DEF Next

\* A reallocation records what it kept.
LEMMA ReallocRecords ==
  ASSUME IInv, NEW b \in Block, Realloc(b)
  PROVE  /\ Others(b) /\ asked'[b].size \in Nat
         /\ kept'[b] = Least(kept[b], asked'[b].size)
<1>1. PICK size \in Size : MmapRealloc(b, size) \/ Launder(b, size) \/ RealRealloc(b, size)
  BY DEF Realloc
<1>2. Live(b) /\ size \in Nat
  BY DEF Realloc
<1>3. Asked(b, size, AdditionalSize, Least(kept[b], size))
  BY <1>1, <1>2, CopiedBytes DEF MmapRealloc, Launder, RealRealloc
<1>4. asked'[b].size = size /\ kept'[b] = Least(kept[b], size)
  BY <1>3 DEF Asked, IInv, TableInv
<1>5. \A c \in Block \ {b} : heap'[c] = heap[c]
  BY <1>1, HeapEffect DEF IInv, MmapRealloc, Launder, RealRealloc
<1>6. \A c \in Block \ {b} : asked'[c] = asked[c] /\ kept'[c] = kept[c]
  BY <1>3 DEF Asked, IInv, TableInv
<1>7. \E r, offset, n, invalid : Put(b, r, offset, n, invalid)
  BY <1>1 DEF MmapRealloc, mmap_malloc, Launder, RealRealloc
<1>8. \A c \in Block \ {b} : region'[c] = region[c] /\ ptr'[c] = ptr[c] /\ info'[c] = info[c]
  BY <1>7 DEF Put, IInv, TableInv
<1> QED
  BY <1>2, <1>4, <1>5, <1>6, <1>8 DEF Others

\* The bytes of a live block survive a step.
LEMMA StepKeepsBytes ==
  ASSUME IInv, [Next]_vars, NEW b \in Block, Live(b), Live(b)'
  PROVE  kept'[b] >= Least(kept[b], asked'[b].size)
<1>1. kept[b] \in Nat /\ asked[b].size \in Nat /\ kept[b] <= asked[b].size
  <2>1. Serves(ptr[b], info[b], asked[b], kept[b])
    BY DEF IInv, BlockInv
  <2> QED
    BY <2>1 DEF Serves
<1>2. ASSUME kept'[b] = kept[b], asked'[b] = asked[b] PROVE kept'[b] >= Least(kept[b], asked'[b].size)
  BY <1>1, <1>2 DEF Least
<1>3. CASE Construct \/ Initialise \/ OtherProgram \/ DeinitMemhawk \/ UNCHANGED vars
  BY <1>2, <1>3 DEF Construct, Initialise, OtherProgram, DeinitMemhawk, vars, blockVars
<1>4. ASSUME NEW c \in Block, Realloc(c) PROVE kept'[b] >= Least(kept[b], asked'[b].size)
  <2>1. CASE c = b
    BY <1>1, <1>4, <2>1, ReallocRecords DEF Least
  <2>2. CASE c # b
    BY <1>2, <1>4, <2>2, ReallocRecords DEF Others
  <2> QED
    BY <2>1, <2>2
<1>5. ASSUME NEW c \in Block, Write(c) PROVE kept'[b] >= Least(kept[b], asked'[b].size)
  <2>1. asked' = asked /\ kept'[b] = IF b = c THEN asked[b].size ELSE kept[b]
    BY <1>5 DEF Write, IInv, TableInv
  <2> QED
    BY <1>1, <2>1 DEF Least
<1>6. ASSUME NEW c \in Block, Free(c) PROVE kept'[b] >= Least(kept[b], asked'[b].size)
  <2>1. b # c
    BY <1>6 DEF Free, Live, IInv, TableInv
  <2>2. kept'[b] = kept[b] /\ asked'[b] = asked[b]
    BY <1>6, <2>1 DEF Free, IInv, TableInv
  <2> QED
    BY <1>2, <2>2
<1>7. ASSUME NEW c \in Block, ~Live(c), NEW s, NEW a, NEW k, Asked(c, s, a, k)
      PROVE  kept'[b] >= Least(kept[b], asked'[b].size)
  <2>1. kept'[b] = kept[b] /\ asked'[b] = asked[b]
    BY <1>7 DEF Asked, IInv, TableInv
  <2> QED
    BY <1>2, <2>1
<1>8. ASSUME NEW c \in Block, Malloc(c) PROVE kept'[b] >= Least(kept[b], asked'[b].size)
  BY <1>7, <1>8 DEF Malloc
<1>9. ASSUME NEW c \in Block, NEW s, NEW a, AlignedAlloc(c, s, a)
      PROVE  kept'[b] >= Least(kept[b], asked'[b].size)
  BY <1>7, <1>9 DEF AlignedAlloc
<1> QED
  BY <1>3, <1>4, <1>5, <1>6, <1>8, <1>9 DEF Next, Valloc

-----------------------------------------------------------------------------
(* The theorems.                                                           *)

LEMMA Invariance == Spec => []IInv
  BY InitInv, NextInv, PTL DEF Spec

\* The flags and the blocks keep their types.
THEOREM TypeCorrect == Spec => []TypeOK
<1>1. IInv => TypeOK
  BY DEF IInv, LifeInv, BlockInv, Placed, Serves, Accounted, TypeOK
<1> QED
  BY <1>1, Invariance, PTL

\* free and realloc find, by the header alone, what was allocated and which
\* allocator it goes back to (hawk_free, hawk_realloc, mmap_free).
THEOREM HeaderCorrect == Spec => []HeaderFindsTheRegion
<1>1. IInv => HeaderFindsTheRegion
  BY DEF IInv, BlockInv, Placed, HeaderFindsTheRegion
<1> QED
  BY <1>1, Invariance, PTL

\* The header and the user's bytes lie within what was allocated, and the pointer
\* has the alignment that was asked for (mmap_alloc_aligned, hawk_aligned_alloc,
\* hawk_realloc).
THEOREM BytesFit == Spec => []UserBytesFit
<1>1. IInv => UserBytesFit
  <2> SUFFICES ASSUME IInv, NEW b \in Block, Live(b)
               PROVE  /\ region[b].start <= ptr[b] - AdditionalSize
                      /\ asked[b].size <= info[b].size
                      /\ ptr[b] + info[b].size <= region[b].start + region[b].len
                      /\ ptr[b] % asked[b].alignment = 0
    BY DEF UserBytesFit
  <2>1. /\ Placed(region[b], ptr[b], info[b])
        /\ Serves(ptr[b], info[b], asked[b], kept[b])
    BY DEF IInv, BlockInv
  <2> QED
    BY <2>1 DEF Placed, Serves
<1> QED
  BY <1>1, Invariance, PTL

\* From the pointer the program holds to its region and back, for every header,
\* page and alignment (hawk_malloc.cpp).
THEOREM RegionsAgree == Spec => []RegionAndHeaderAgree
BY HeaderCorrect, BytesFit, PTL DEF RegionAndHeaderAgree

\* No block of the C library exists before gl_initialised, and none is
\* unaccounted while MemHawk is ready (init_memhawk).
THEOREM FlagsInOrder == Spec => []ReadyMeansAccounted
<1>1. IInv => ReadyMeansAccounted
  BY DEF IInv, BlockInv, Accounted, ReadyMeansAccounted
<1> QED
  BY <1>1, Invariance, PTL

\* realloc keeps what the program wrote, in every state of the library
\* (mmap_realloc, hawk_realloc).
THEOREM BytesKept == Spec => ReallocKeepsBytes
<1>1. IInv /\ [Next]_vars =>
        [\A b \in Block : Live(b) /\ Live(b)' => kept'[b] >= Least(kept[b], asked'[b].size)]_vars
  BY StepKeepsBytes
<1> QED
  BY <1>1, Invariance, PTL DEF Spec, ReallocKeepsBytes

-----------------------------------------------------------------------------
(***************************************************************************)
(* ModuleCache, for any number of threads, libraries, addresses and calls. *)
(***************************************************************************)

HIDE SizesAssumption
USE NotLoadedAssumption, BoundsAssumption

\* The flag that a dlopen has set is still set, unless the worker took it
\* before the library was loaded.
FlagInv == \A t \in Thread : (pc[t] = "open" /\ t \notin passed) => flag

CacheInv == CacheTypeOK /\ FlagInv /\ ListIsCurrent /\ EntriesAreExplained

-----------------------------------------------------------------------------
(* The entries of the symbolizer.                                          *)

\* The lists that name l without a gap, up to the last one.
Unbroken(l, u, f) == {k \in u : \A j \in u : j >= k => f[j][l] # NotLoaded}
Explains(a, l, u, f) ==
  IF Unbroken(l, u, f) = {} THEN a = NotLoaded
  ELSE \E k \in Unbroken(l, u, f) : a = f[k][l] /\ \A j \in Unbroken(l, u, f) : k <= j

\* A file without segments has no entry.
Explained(a, l, u, f) == IF l \in Unsegmented THEN a = NotLoaded ELSE Explains(a, l, u, f)

LEMMA EntriesDef ==
  EntriesAreExplained <=> \A l \in Lib : Explained(symbols[l], l, used, file)
  BY DEF EntriesAreExplained, Explained, Explains, Unbroken

\* An entry that is explained is empty only if no list names it without a gap.
LEMMA ExplainedIsNamed ==
  ASSUME NEW a, NEW l, NEW u \in SUBSET Nat, NEW f, Explains(a, l, u, f)
  PROVE  a = NotLoaded <=> Unbroken(l, u, f) = {}
<1>1. ASSUME NEW k \in Unbroken(l, u, f) PROVE f[k][l] # NotLoaded
  BY DEF Unbroken
<1> QED
  BY <1>1 DEF Explains

\* A list that comes after the others: update_symbols keeps the explanation.
LEMMA NextListExplains ==
  ASSUME NEW a, NEW l, NEW f, NEW p \in Nat, NEW u \in SUBSET (1 .. p), Explains(a, l, u, f)
  PROVE  Explains(IF f[p + 1][l] # NotLoaded /\ a # NotLoaded THEN a ELSE f[p + 1][l],
                  l, u \cup {p + 1}, f)
<1> DEFINE R == Unbroken(l, u, f)
           S == Unbroken(l, u \cup {p + 1}, f)
<1>1. u \in SUBSET Nat /\ \A j \in u : p + 1 >= j /\ ~(j >= p + 1)
  OBVIOUS
<1>2. a = NotLoaded <=> R = {}
  BY <1>1, ExplainedIsNamed
<1>3. CASE f[p + 1][l] = NotLoaded
  <2>1. \A k \in u \cup {p + 1} : p + 1 >= k
    BY <1>1
  <2>2. S = {}
    BY <1>3, <2>1 DEF Unbroken
  <2> QED
    BY <1>3, <2>2 DEF Explains
<1>4. CASE f[p + 1][l] # NotLoaded
  <2>1. S = R \cup {p + 1}
    <3>1. p + 1 \in S
      <4>1. \A j \in u \cup {p + 1} : j >= p + 1 => j = p + 1
        BY <1>1
      <4> QED
        BY <1>4, <4>1 DEF Unbroken
    <3>2. ASSUME NEW k \in u PROVE k \in S <=> k \in R
      BY <1>4 DEF Unbroken
    <3>3. S \subseteq u \cup {p + 1} /\ R \subseteq u
      BY DEF Unbroken
    <3> QED
      BY <3>1, <3>2, <3>3
  <2>2. R \subseteq u
    BY DEF Unbroken
  <2>3. p + 1 <= p + 1 /\ \A k \in R : k <= p + 1
    <3>1. \A k \in R : k \in Nat /\ p + 1 >= k
      BY <1>1, <2>2
    <3> HIDE DEF R
    <3> QED
      BY <3>1
  <2>4. CASE R = {}
    <3>1. S = {p + 1}
      BY <2>1, <2>4
    <3> HIDE DEF S, R
    <3>2. \E k \in S : f[p + 1][l] = f[k][l] /\ \A j \in S : k <= j
      BY <2>3, <3>1
    <3> QED
      BY <1>2, <2>4, <3>1, <3>2 DEF Explains, S
  <2>5. CASE R # {}
    <3>1. PICK k \in R : a = f[k][l] /\ \A j \in R : k <= j
      BY <2>5 DEF Explains
    <3>2. k \in S /\ \A j \in S : k <= j
      BY <2>1, <2>3, <3>1
    <3> QED
      BY <1>2, <1>4, <2>5, <3>1, <3>2 DEF Explains
  <2> QED
    BY <2>4, <2>5
<1> QED
  BY <1>3, <1>4

\* Lists that are written later do not matter for what was used.
LEMMA ExplainsSame ==
  ASSUME NEW a, NEW l, NEW u, NEW f, NEW g, \A k \in u : f[k] = g[k]
  PROVE  Explains(a, l, u, f) <=> Explains(a, l, u, g)
<1>1. Unbroken(l, u, f) = Unbroken(l, u, g)
  BY DEF Unbroken
<1>2. \A k \in Unbroken(l, u, g) : f[k] = g[k]
  BY DEF Unbroken
<1> QED
  BY <1>1, <1>2 DEF Explains

-----------------------------------------------------------------------------
(* The invariant.                                                          *)

LEMMA InitCache == CacheInit => CacheInv
<1> SUFFICES ASSUME CacheInit PROVE CacheInv
  OBVIOUS
<1>1. Nothing \in [Lib -> Address] /\ \A l \in Lib : Nothing[l] = NotLoaded
  BY DEF Nothing, Address
<1>2. flag \in BOOLEAN /\ update \in BOOLEAN
  BY Zenon DEF CacheInit
<1>3. CacheTypeOK
  BY <1>1, <1>2 DEF CacheInit, CacheTypeOK
<1>4. FlagInv /\ ListIsCurrent
  BY DEF CacheInit, FlagInv, ListIsCurrent
<1>5. EntriesAreExplained
  BY <1>1 DEF CacheInit, EntriesAreExplained
<1> QED
  BY <1>3, <1>4, <1>5 DEF CacheInv

LEMMA CacheTypeStep == CacheTypeOK /\ [CacheNext]_cacheVars => CacheTypeOK'
<1> SUFFICES ASSUME CacheTypeOK, [CacheNext]_cacheVars PROVE CacheTypeOK'
  OBVIOUS
<1> USE DEF linkerVars, writerVars, readerVars, historyVars
<1>1. ASSUME NEW t \in Thread, Dlopen(t) PROVE CacheTypeOK'
  <2>1. flag' \in BOOLEAN
    BY <1>1, Zenon DEF Dlopen, FlagBeforeOpen
  <2>2. ops' \in 0 .. MaxOps
    BY <1>1 DEF Dlopen, CacheTypeOK
  <2>3. pc' \in [Thread -> {"idle", "open", "closed"}] /\ arg' \in [Thread -> Lib]
        /\ passed' \in SUBSET Thread
    BY <1>1 DEF Dlopen, CacheTypeOK
  <2> QED
    BY <1>1, <2>1, <2>2, <2>3 DEF Dlopen, CacheTypeOK
<1>2. ASSUME NEW t \in Thread, RealDlopen(t) PROVE CacheTypeOK'
  <2> DEFINE l == arg[t]
  <2>1. l \in Lib /\ pc' \in [Thread -> {"idle", "open", "closed"}]
    BY <1>2 DEF RealDlopen, CacheTypeOK
  <2>2. /\ refs' \in [Lib -> Nat] /\ at' \in [Lib -> Address]
        /\ \A k \in Lib : refs'[k] = 0 <=> at'[k] = NotLoaded
    <3>1. CASE UNCHANGED <<refs, at>>
      BY <3>1 DEF CacheTypeOK
    <3>2. CASE refs[l] > 0 /\ refs' = [refs EXCEPT ![l] = @ + 1] /\ UNCHANGED at
      BY <2>1, <3>2 DEF CacheTypeOK
    <3>3. CASE /\ refs' = [refs EXCEPT ![l] = 1]
               /\ \E a \in Base \ {at[k] : k \in Lib} : at' = [at EXCEPT ![l] = a]
      BY <2>1, <3>3 DEF CacheTypeOK, Address
    <3> QED
      BY <1>2, <3>1, <3>2, <3>3 DEF RealDlopen
  <2>3. raced' \in SUBSET Lib
    BY <1>2, <2>1 DEF RealDlopen, CacheTypeOK
  <2> QED
    BY <1>2, <2>1, <2>2, <2>3 DEF RealDlopen, CacheTypeOK
<1>3. ASSUME NEW t \in Thread, RealDlclose(t) PROVE CacheTypeOK'
  <2>1. ops' \in 0 .. MaxOps /\ pc' \in [Thread -> {"idle", "open", "closed"}]
    BY <1>3 DEF RealDlclose, CacheTypeOK
  <2>2. PICK l \in Lib :
          /\ refs[l] > 0
          /\ refs' = [refs EXCEPT ![l] = @ - 1]
          /\ at' = [at EXCEPT ![l] = IF refs[l] = 1 THEN NotLoaded ELSE @]
          /\ arg' = [arg EXCEPT ![t] = l]
    BY <1>3 DEF RealDlclose
  <2>3. arg' \in [Thread -> Lib] /\ refs' \in [Lib -> Nat] /\ at' \in [Lib -> Address]
    BY <2>2 DEF CacheTypeOK, Address
  <2>4. \A k \in Lib : refs'[k] = 0 <=> at'[k] = NotLoaded
    BY <2>2 DEF CacheTypeOK
  <2> QED
    BY <1>3, <2>1, <2>3, <2>4 DEF RealDlclose, CacheTypeOK
<1>4. ASSUME NEW t \in Thread, Dlclose(t) PROVE CacheTypeOK'
  <2>1. flag' \in BOOLEAN
    BY <1>4, Zenon DEF Dlclose, FlagAfterClose
  <2> QED
    BY <1>4, <2>1 DEF Dlclose, CacheTypeOK
<1>5. CASE WorkerUpdateData
  <2>1. flag' \in BOOLEAN /\ update' \in BOOLEAN
    BY <1>5, Zenon DEF WorkerUpdateData, UpdateModules, CacheTypeOK
  <2>2. passed' \in SUBSET Thread
    BY <1>5 DEF WorkerUpdateData, CacheTypeOK
  <2> QED
    BY <1>5, <2>1, <2>2 DEF WorkerUpdateData, CacheTypeOK
<1>6. CASE WorkerPrintData
  <2>1. update' \in BOOLEAN
    BY <1>6, Zenon DEF WorkerPrintData
  <2>2. raced' \in SUBSET Lib /\ listed' \in [Lib -> Address]
    BY <1>6 DEF WorkerPrintData, CacheTypeOK
  <2>3. /\ file' \in Seq([Lib -> Address]) /\ Len(file') <= MaxLists
        /\ pos \in 0 .. Len(file')
    <3>1. CASE file' = file
      BY <3>1 DEF CacheTypeOK
    <3>2. CASE file' = Append(file, at) /\ Len(file) < MaxLists
      BY <3>2 DEF CacheTypeOK
    <3> QED
      BY <1>6, <3>1, <3>2 DEF WorkerPrintData
  <2> QED
    BY <1>6, <2>1, <2>2, <2>3 DEF WorkerPrintData, CacheTypeOK
<1>7. CASE Process \/ Skip
  <2>1. pos \in Nat /\ Len(file) \in Nat /\ pos' = pos + 1 /\ pos < Len(file)
    BY <1>7 DEF Process, Skip, CacheTypeOK
  <2>2. pos' \in 0 .. Len(file') /\ used' \in SUBSET (1 .. pos')
    <3>1. file' = file /\ used \in SUBSET (1 .. pos) /\ (used' = used \/ used' = used \cup {pos + 1})
      BY <1>7 DEF Process, Skip, CacheTypeOK
    <3>2. 1 .. pos \subseteq 1 .. pos + 1 /\ pos + 1 \in 1 .. pos + 1 /\ pos + 1 \in 0 .. Len(file)
      BY <2>1
    <3> QED
      BY <2>1, <3>1, <3>2
  <2>3. symbols' \in [Lib -> Address]
    <3>1. file[pos + 1] \in [Lib -> Address]
      BY <2>1 DEF CacheTypeOK
    <3>2. symbols' = symbols \/ symbols' = UpdateSymbols(file[pos + 1])
      BY <1>7 DEF Process, Skip
    <3> QED
      BY <3>1, <3>2 DEF UpdateSymbols, LoadBinary, Address, CacheTypeOK
  <2> QED
    BY <1>7, <2>2, <2>3 DEF Process, Skip, CacheTypeOK
<1>8. CASE UNCHANGED cacheVars
  BY <1>8 DEF cacheVars, CacheTypeOK
<1> QED
  BY <1>1, <1>2, <1>3, <1>4, <1>5, <1>6, <1>7, <1>8 DEF CacheNext

\* The list and the flags.
LEMMA ListStep ==
  ASSUME CacheTypeOK, FlagInv, ListIsCurrent, [CacheNext]_cacheVars
  PROVE  FlagInv' /\ ListIsCurrent'
<1> USE DEF linkerVars, writerVars, readerVars, historyVars
<1>1. ASSUME NEW t \in Thread, Dlopen(t) PROVE FlagInv' /\ ListIsCurrent'
  BY <1>1 DEF Dlopen, FlagBeforeOpen, FlagInv, ListIsCurrent
<1>2. ASSUME NEW t \in Thread, RealDlopen(t) PROVE FlagInv' /\ ListIsCurrent'
  <2> DEFINE l == arg[t]
  <2>1. /\ l \in Lib /\ pc[t] = "open" /\ UNCHANGED <<flag, update, listed, passed>>
        /\ \A u \in Thread : pc'[u] = IF u = t THEN "idle" ELSE pc[u]
    BY <1>2 DEF RealDlopen, CacheTypeOK
  <2>2. \/ at' = at /\ raced' = raced
        \/ /\ \A k \in Lib : k # l => at'[k] = at[k]
           /\ raced' = IF t \in passed /\ ~flag /\ ~update THEN raced \cup {l} ELSE raced
    BY <1>2 DEF RealDlopen, CacheTypeOK
  <2>3. FlagInv'
    BY <2>1 DEF FlagInv
  <2>4. raced \subseteq raced'
    BY <2>2
  <2>5. ASSUME NEW k \in Lib, at'[k] = at[k], listed'[k] # at'[k]
        PROVE  flag' \/ update' \/ k \in raced' \/ \E u \in Thread : pc'[u] = "closed"
    BY <2>1, <2>4, <2>5 DEF ListIsCurrent
  <2>6. ASSUME at'[l] # at[l]
        PROVE  flag' \/ update' \/ l \in raced'
    BY <2>1, <2>2, <2>6 DEF FlagInv
  <2> QED
    BY <2>2, <2>3, <2>5, <2>6 DEF ListIsCurrent
<1>3. ASSUME NEW t \in Thread, RealDlclose(t) PROVE FlagInv' /\ ListIsCurrent'
  <2>1. /\ UNCHANGED <<flag, update, listed, passed, raced>>
        /\ \A u \in Thread : pc'[u] = IF u = t THEN "closed" ELSE pc[u]
    BY <1>3 DEF RealDlclose, CacheTypeOK
  <2> QED
    BY <2>1 DEF FlagInv, ListIsCurrent
<1>4. ASSUME NEW t \in Thread, Dlclose(t) PROVE FlagInv' /\ ListIsCurrent'
  BY <1>4 DEF Dlclose, FlagAfterClose, FlagInv, ListIsCurrent
<1>5. CASE WorkerUpdateData
  BY <1>5 DEF WorkerUpdateData, UpdateModules, FlagInv, ListIsCurrent
<1>6. CASE WorkerPrintData
  <2>1. UNCHANGED <<flag, pc, passed, at>>
    BY <1>6 DEF WorkerPrintData
  <2>2. CASE update
    BY <1>6, <2>1, <2>2 DEF WorkerPrintData, FlagInv, ListIsCurrent
  <2>3. CASE ~update
    BY <1>6, <2>1, <2>3 DEF WorkerPrintData, FlagInv, ListIsCurrent
  <2> QED
    BY <2>2, <2>3
<1>7. CASE Process \/ Skip \/ UNCHANGED cacheVars
  BY <1>7 DEF Process, Skip, cacheVars, FlagInv, ListIsCurrent
<1> QED
  BY <1>1, <1>2, <1>3, <1>4, <1>5, <1>6, <1>7 DEF CacheNext

\* What the symbolizer knows and the lists it was given.
LEMMA EntriesStep ==
  ASSUME CacheTypeOK, EntriesAreExplained, [CacheNext]_cacheVars
  PROVE  EntriesAreExplained'
<1>a. \A l \in Lib : Explained(symbols[l], l, used, file)
  BY EntriesDef
<1>b. used \in SUBSET (1 .. pos) /\ pos \in 0 .. Len(file) /\ Len(file) \in Nat
  BY DEF CacheTypeOK
<1> SUFFICES ASSUME NEW l \in Lib PROVE Explained(symbols'[l], l, used', file')
  BY DEF EntriesAreExplained, Explained, Explains, Unbroken
<1>1. CASE Process
  <2>1. /\ used' = used \cup {pos + 1} /\ file' = file /\ pos \in Nat
        /\ symbols'[l] = IF file[pos + 1][l] # NotLoaded /\ symbols[l] # NotLoaded
                         THEN symbols[l] ELSE LoadBinary(file[pos + 1], l)
    BY <1>1, <1>b DEF Process, UpdateSymbols, writerVars
  <2>2. CASE l \in Unsegmented
    BY <1>a, <2>1, <2>2 DEF Explained, LoadBinary
  <2>3. CASE l \notin Unsegmented
    <3>1. symbols'[l] = IF file[pos + 1][l] # NotLoaded /\ symbols[l] # NotLoaded
                        THEN symbols[l] ELSE file[pos + 1][l]
      BY <2>1, <2>3 DEF LoadBinary
    <3>2. Explains(symbols[l], l, used, file)
      BY <1>a, <2>3 DEF Explained
    <3>3. Explains(symbols'[l], l, used \cup {pos + 1}, file)
      BY <1>b, <2>1, <3>1, <3>2, NextListExplains
    <3> QED
      BY <2>1, <2>3, <3>3 DEF Explained
  <2> QED
    BY <2>2, <2>3
<1>2. CASE WorkerPrintData
  <2>1. UNCHANGED <<symbols, used, pos>> /\ (file' = file \/ file' = Append(file, at))
    BY <1>2 DEF WorkerPrintData, readerVars
  <2>2. \A k \in 1 .. Len(file) : file'[k] = file[k]
    BY <2>1 DEF CacheTypeOK
  <2>3. \A k \in used : file[k] = file'[k]
    BY <1>b, <2>2
  <2>4. Explained(symbols[l], l, used, file')
    BY <1>a, <2>3, ExplainsSame DEF Explained
  <2> QED
    BY <2>1, <2>4
<1>3. CASE ~Process /\ ~WorkerPrintData
  <2>1. UNCHANGED <<symbols, used, file>>
    BY <1>3 DEF CacheNext, Dlopen, RealDlopen, RealDlclose, Dlclose, WorkerUpdateData, Skip, cacheVars,
                writerVars, readerVars
  <2> QED
    BY <1>a, <2>1
<1> QED
  BY <1>1, <1>2, <1>3

-----------------------------------------------------------------------------
(* The theorems.                                                           *)

LEMMA CacheInvariance == CacheSpec => []CacheInv
<1>1. CacheInv /\ [CacheNext]_cacheVars => CacheInv'
  BY CacheTypeStep, ListStep, EntriesStep DEF CacheInv
<1> QED
  BY InitCache, <1>1, PTL DEF CacheSpec

\* The state keeps its types, and a library has an address as long as it has
\* references.
THEOREM CacheTypeCorrect == CacheSpec => []CacheTypeOK
  BY CacheInvariance, PTL DEF CacheInv

\* A list that is out of date will be written again, except for a library whose
\* dlopen the worker overtook (hawk_dlopen, hawk_dlclose, WorkerUpdateData).
THEOREM ListCurrent == CacheSpec => []ListIsCurrent
  BY CacheInvariance, PTL DEF CacheInv

\* The address of a file name is the one of the first list that names it without
\* a gap, whatever lists were skipped; a file without segments has none
\* (Symbolizer::update_symbols).
THEOREM EntriesExplained == CacheSpec => []EntriesAreExplained
  BY CacheInvariance, PTL DEF CacheInv

-----------------------------------------------------------------------------
(***************************************************************************)
(* OwnedGuards, for any number of callbacks and drainers.                  *)
(***************************************************************************)

\* The flag of a callback, the life of its guard and the entries of its body
\* agree, and at most one actor is in the body.
CallbackInv ==
  \A c \in Callbacks :
    /\ runs[c] = 1 <=> executed[c]
    /\ guard[c] = "none" => runs[c] = 0
    /\ guard[c] \in {"running", "gone"} => runs[c] = 1
    /\ c \in callbacks => guard[c] = "held"
    /\ \A d \in Drainers :
         /\ c \in local[d] => guard[c] # "none"
         /\ current[d] = c => runs[c] = 1 /\ guard[c] # "running"
         /\ \A e \in Drainers : current[d] = c /\ current[e] = c => d = e

\* An idle drainer holds nothing, and a destroyed owner has no callbacks and
\* no drainers left.
OwnerInv ==
  /\ \A d \in Drainers :
       /\ dpc[d] = "idle" => local[d] = {} /\ current[d] = NoCallback
       /\ dpc[d] = "drain" => owner = "alive"
       /\ dpc[d] = "destroy" =>
            /\ owner = "drain"
            /\ \A e \in Drainers : e # d => dpc[e] = "idle"
  /\ owner # "alive" => callbacks = {}

GuardsInv == GuardsTypeOK /\ CallbackInv /\ OwnerInv /\ NoCallbackLost

-----------------------------------------------------------------------------
(* The invariant.                                                          *)

LEMMA InitGuards == GuardsInit => GuardsInv
<1> SUFFICES ASSUME GuardsInit
             PROVE  GuardsInv
  OBVIOUS
<1>1. GuardsTypeOK
  BY DEF GuardsInit, GuardsTypeOK, GuardState
<1>2. CallbackInv /\ OwnerInv /\ NoCallbackLost
  BY NoCallbackAssumption DEF GuardsInit, CallbackInv, OwnerInv, NoCallbackLost
<1> QED
  BY <1>1, <1>2 DEF GuardsInv

LEMMA NextGuards == GuardsInv /\ [GuardsNext]_guardsVars => GuardsInv'
<1> SUFFICES ASSUME GuardsInv, [GuardsNext]_guardsVars
             PROVE  GuardsInv'
  OBVIOUS
<1> USE NoCallbackAssumption DEF GuardsInv
<1>1. ASSUME NEW c \in Callbacks, Register(c)
      PROVE  GuardsInv'
  <2> USE <1>1 DEF Register, PushCallback
  <2>1. GuardsTypeOK'
    BY DEF GuardsTypeOK, GuardState
  <2>2. CallbackInv' /\ OwnerInv'
    BY DEF CallbackInv, OwnerInv, GuardsTypeOK
  <2>3. NoCallbackLost'
    BY DEF NoCallbackLost, Held, GuardsTypeOK
  <2> QED
    BY <2>1, <2>2, <2>3
<1>2. ASSUME NEW c \in Callbacks, RemoveCallback(c)
      PROVE  GuardsInv'
  <2> USE <1>2 DEF RemoveCallback, AfterRemoval
  <2>1. GuardsTypeOK'
    BY DEF GuardsTypeOK, GuardState
  <2>2. CallbackInv' /\ OwnerInv'
    BY DEF CallbackInv, OwnerInv, GuardsTypeOK
  <2>3. NoCallbackLost'
    BY DEF NoCallbackLost, Held, GuardsTypeOK
  <2> QED
    BY <2>1, <2>2, <2>3
<1>3. ASSUME NEW c \in Callbacks, GuardExecute(c)
      PROVE  GuardsInv'
  <2> USE <1>3 DEF GuardExecute, Execute, AlreadyExecuted
  <2>0. executed[c] \in BOOLEAN /\ runs[c] \in 0 .. 1
    BY DEF GuardsTypeOK
  <2>1. GuardsTypeOK'
    BY <2>0 DEF GuardsTypeOK, GuardState, CallbackInv
  <2>2. CallbackInv' /\ OwnerInv'
    BY <2>0 DEF CallbackInv, OwnerInv, GuardsTypeOK
  <2>3. NoCallbackLost'
    BY <2>0 DEF NoCallbackLost, Held, GuardsTypeOK, CallbackInv
  <2> QED
    BY <2>1, <2>2, <2>3
<1>4. ASSUME NEW c \in Callbacks, GuardCallbackReturns(c)
      PROVE  GuardsInv'
  <2> USE <1>4 DEF GuardCallbackReturns
  <2>1. GuardsTypeOK'
    BY DEF GuardsTypeOK, GuardState
  <2>2. CallbackInv' /\ OwnerInv'
    BY DEF CallbackInv, OwnerInv, GuardsTypeOK
  <2>3. NoCallbackLost'
    BY DEF NoCallbackLost, Held, GuardsTypeOK
  <2> QED
    BY <2>1, <2>2, <2>3
<1>5. ASSUME NEW d \in Drainers, Drain(d) \/ DestroyOwner(d)
      PROVE  GuardsInv'
  <2> USE <1>5 DEF Drain, DestroyOwner, SwapCallbacks, SwappedOut
  <2>0. local[d] = {} /\ current[d] = NoCallback /\ dpc[d] = "idle"
    BY DEF OwnerInv
  <2>1. GuardsTypeOK'
    BY DEF GuardsTypeOK
  <2>2. CallbackInv'
    BY DEF CallbackInv, GuardsTypeOK
  <2>3. OwnerInv'
    BY <2>0 DEF OwnerInv, GuardsTypeOK
  <2>4. NoCallbackLost'
    BY <2>0 DEF NoCallbackLost, Held, GuardsTypeOK
  <2> QED
    BY <2>1, <2>2, <2>3, <2>4
<1>6. ASSUME NEW d \in Drainers, NEW c \in Callbacks, DrainExecute(d, c)
      PROVE  GuardsInv'
  <2> USE <1>6 DEF DrainExecute, Execute, AlreadyExecuted
  <2>0. executed[c] \in BOOLEAN /\ runs[c] \in 0 .. 1
    BY DEF GuardsTypeOK
  <2>1. GuardsTypeOK'
    BY <2>0 DEF GuardsTypeOK, CallbackInv
  <2>2. CallbackInv'
    BY <2>0 DEF CallbackInv, GuardsTypeOK
  <2>3. OwnerInv'
    BY DEF OwnerInv, GuardsTypeOK
  <2>4. NoCallbackLost'
    BY <2>0 DEF NoCallbackLost, Held, GuardsTypeOK, CallbackInv
  <2> QED
    BY <2>1, <2>2, <2>3, <2>4
<1>7. ASSUME NEW d \in Drainers, DrainCallbackReturns(d)
      PROVE  GuardsInv'
  <2> USE <1>7 DEF DrainCallbackReturns
  <2>1. GuardsTypeOK'
    BY DEF GuardsTypeOK
  <2>2. CallbackInv' /\ OwnerInv'
    BY DEF CallbackInv, OwnerInv, GuardsTypeOK
  <2>3. NoCallbackLost'
    BY DEF NoCallbackLost, Held, GuardsTypeOK
  <2> QED
    BY <2>1, <2>2, <2>3
<1>8. ASSUME NEW d \in Drainers, DrainReturns(d)
      PROVE  GuardsInv'
  <2> USE <1>8 DEF DrainReturns, Drained
  <2>1. GuardsTypeOK'
    BY DEF GuardsTypeOK
  <2>2. CallbackInv' /\ OwnerInv'
    BY DEF CallbackInv, OwnerInv, GuardsTypeOK
  <2>3. NoCallbackLost'
    BY DEF NoCallbackLost, Held, GuardsTypeOK
  <2> QED
    BY <2>1, <2>2, <2>3
<1>9. CASE UNCHANGED guardsVars
  BY <1>9 DEF guardsVars, GuardsTypeOK, CallbackInv, OwnerInv, NoCallbackLost, Held
<1> QED
  BY <1>1, <1>2, <1>3, <1>4, <1>5, <1>6, <1>7, <1>8, <1>9
  DEF GuardsNext, GuardStep, DrainStep

LEMMA GuardsInvariance == GuardsSpec => []GuardsInv
  BY InitGuards, NextGuards, PTL DEF GuardsSpec

-----------------------------------------------------------------------------
(* What follows from it.                                                   *)

\* The flags and lists of OwnedGuards keep their types; in particular the
\* body of a callback is entered at most once.
THEOREM GuardsTypeCorrect == GuardsSpec => []GuardsTypeOK
<1>1. GuardsInv => GuardsTypeOK
  BY DEF GuardsInv
<1> QED
  BY <1>1, GuardsInvariance, PTL

\* A registered callback that was not executed is always on the shared list,
\* on the local list of a Drain, or with its guard's destructor.
THEOREM NothingLost == GuardsSpec => []NoCallbackLost
<1>1. GuardsInv => NoCallbackLost
  BY DEF GuardsInv
<1> QED
  BY <1>1, GuardsInvariance, PTL

\* When ~OwnedGuards has returned, only guards that were already being
\* destroyed may still enter, or be in, their callback.
THEOREM Settled == GuardsSpec => []SettledWhenDestroyed
<1>1. GuardsInv => SettledWhenDestroyed
  <2> SUFFICES ASSUME GuardsInv, owner = "destroyed", NEW c \in Callbacks,
                      runs[c] = 0 \/ Running(c)
               PROVE  guard[c] \in {"none", "removed", "running"}
    BY DEF SettledWhenDestroyed
  <2>1. \A d \in Drainers : dpc[d] = "idle"
    BY DEF GuardsInv, GuardsTypeOK, OwnerInv
  <2>2. callbacks = {} /\ \A d \in Drainers : local[d] = {} /\ current[d] = NoCallback
    BY <2>1 DEF GuardsInv, OwnerInv
  <2>3. CASE runs[c] = 0
    BY <2>2, <2>3 DEF GuardsInv, NoCallbackLost, Held
  <2>4. CASE Running(c)
    BY <2>2, <2>4, NoCallbackAssumption DEF Running
  <2> QED
    BY <2>3, <2>4
<1> QED
  BY <1>1, GuardsInvariance, PTL

\* Every step of OwnedGuards advances the phase of at most one callback, from
\* "new" to "registered" to "running" to "done".
LEMMA StepSimulation ==
  ASSUME GuardsInv, GuardsInv', [GuardsNext]_guardsVars
  PROVE  Abstract!Next \/ \A c \in Callbacks : PhaseOf(c)' = PhaseOf(c)
<1> DEFINE Same(c) == PhaseOf(c)' = PhaseOf(c)
           Moves(c, from, to) == /\ PhaseOf(c) = from
                                 /\ PhaseOf(c)' = to
                                 /\ \A b \in Callbacks \ {c} : Same(b)
<1>0. ASSUME NEW c \in Callbacks,
             \/ Moves(c, "new", "registered")
             \/ Moves(c, "registered", "running")
             \/ Moves(c, "running", "done")
      PROVE  Abstract!Next
  BY <1>0 DEF Abstract!Next, Abstract!Advance
<1> HIDE DEF Moves
<1>1. ASSUME NEW c \in Callbacks, Register(c)
      PROVE  Moves(c, "new", "registered")
  BY <1>1 DEF Register, PhaseOf, Running, Moves, GuardsInv, GuardsTypeOK, CallbackInv
<1>2. ASSUME NEW c \in Callbacks, RemoveCallback(c)
      PROVE  \A b \in Callbacks : Same(b)
  BY <1>2 DEF RemoveCallback, AfterRemoval, PhaseOf, Running, GuardsInv, GuardsTypeOK
<1>3. ASSUME NEW c \in Callbacks, GuardExecute(c)
      PROVE  \/ Moves(c, "registered", "running")
             \/ \A b \in Callbacks : Same(b)
  <2> USE <1>3 DEF GuardExecute, Execute, AlreadyExecuted
  <2>1. CASE executed[c]
    <3>1. runs' = runs /\ guard'[c] = "gone" /\ guard[c] = "removed"
          /\ \A b \in Callbacks \ {c} : guard'[b] = guard[b]
      BY <2>1 DEF GuardsInv, GuardsTypeOK
    <3> QED
      BY <3>1 DEF PhaseOf, Running
  <2>2. CASE ~executed[c]
    <3>1. runs[c] = 0 /\ runs'[c] = 1
          /\ \A b \in Callbacks \ {c} : runs'[b] = runs[b]
      BY <2>2 DEF GuardsInv, GuardsTypeOK, CallbackInv
    <3>2. guard[c] = "removed" /\ guard'[c] = "running"
          /\ \A b \in Callbacks \ {c} : guard'[b] = guard[b]
      BY <2>2 DEF GuardsInv, GuardsTypeOK
    <3> QED
      BY <3>1, <3>2 DEF PhaseOf, Running, Moves
  <2> QED
    BY <2>1, <2>2
<1>4. ASSUME NEW c \in Callbacks, GuardCallbackReturns(c)
      PROVE  Moves(c, "running", "done")
  <2>1. /\ guard[c] = "running" /\ guard'[c] = "gone" /\ runs[c] = 1
        /\ \A b \in Callbacks \ {c} : guard'[b] = guard[b]
        /\ runs' = runs /\ current' = current
    BY <1>4 DEF GuardCallbackReturns, GuardsInv, GuardsTypeOK, CallbackInv
  <2>2. \A d \in Drainers : current[d] # c
    BY <2>1 DEF GuardsInv, CallbackInv
  <2> QED
    BY <2>1, <2>2 DEF PhaseOf, Running, Moves
<1>5. ASSUME NEW d \in Drainers, Drain(d) \/ DestroyOwner(d) \/ DrainReturns(d)
      PROVE  \A b \in Callbacks : Same(b)
  BY <1>5 DEF Drain, DestroyOwner, SwapCallbacks, DrainReturns, PhaseOf, Running
<1>6. ASSUME NEW d \in Drainers, NEW c \in Callbacks, DrainExecute(d, c)
      PROVE  \/ Moves(c, "registered", "running")
             \/ \A b \in Callbacks : Same(b)
  <2> USE <1>6 DEF DrainExecute, Execute, AlreadyExecuted
  <2>1. CASE executed[c]
    <3>1. runs' = runs /\ guard' = guard /\ current' = current
      BY <2>1 DEF GuardsInv, GuardsTypeOK
    <3> QED
      BY <3>1 DEF PhaseOf, Running
  <2>2. CASE ~executed[c]
    <3>1. runs[c] = 0 /\ runs'[c] = 1
          /\ \A b \in Callbacks \ {c} : runs'[b] = runs[b]
      BY <2>2 DEF GuardsInv, GuardsTypeOK, CallbackInv
    <3>2. /\ guard[c] # "none" /\ guard' = guard
          /\ current[d] = NoCallback /\ current'[d] = c
          /\ \A e \in Drainers \ {d} : current'[e] = current[e]
      BY <2>2 DEF GuardsInv, GuardsTypeOK, CallbackInv
    <3>3. \A b \in Callbacks \ {c} : Running(b)' <=> Running(b)
      BY <3>2, NoCallbackAssumption DEF Running
    <3>4. Running(c)'
      BY <3>2 DEF Running
    <3> QED
      BY <3>1, <3>2, <3>3, <3>4 DEF PhaseOf, Moves
  <2> QED
    BY <2>1, <2>2
<1>7. ASSUME NEW d \in Drainers, NEW c \in Callbacks, current[d] = c,
             DrainCallbackReturns(d)
      PROVE  Moves(c, "running", "done")
  <2>1. runs[c] = 1 /\ guard[c] \notin {"none", "running"}
    BY <1>7 DEF DrainCallbackReturns, GuardsInv, GuardsTypeOK, CallbackInv
  <2>2. /\ guard' = guard /\ runs' = runs /\ current'[d] = NoCallback
        /\ \A e \in Drainers \ {d} : current'[e] = current[e] /\ current[e] # c
    BY <1>7, <2>1 DEF DrainCallbackReturns, GuardsInv, GuardsTypeOK, CallbackInv
  <2>3. \A b \in Callbacks \ {c} : Running(b)' <=> Running(b)
    BY <1>7, <2>2, NoCallbackAssumption DEF Running
  <2>4. Running(c) /\ ~Running(c)'
    BY <1>7, <2>1, <2>2, NoCallbackAssumption DEF Running
  <2>5. PhaseOf(c) = "running" /\ PhaseOf(c)' = "done"
    BY <2>1, <2>2, <2>4 DEF PhaseOf
  <2>6. \A b \in Callbacks \ {c} : Same(b)
    BY <2>2, <2>3 DEF PhaseOf
  <2> QED
    BY <2>5, <2>6 DEF Moves
<1>8. CASE UNCHANGED guardsVars
  BY <1>8 DEF guardsVars, PhaseOf, Running
<1>9. ASSUME NEW d \in Drainers, DrainCallbackReturns(d)
      PROVE  current[d] \in Callbacks
  BY <1>9 DEF DrainCallbackReturns, GuardsInv, GuardsTypeOK
<1> HIDE DEF Same
<1> QED
  BY <1>0, <1>1, <1>2, <1>3, <1>4, <1>5, <1>6, <1>7, <1>8, <1>9
  DEF GuardsNext, GuardStep, DrainStep, Same

\* OwnedGuards implements OnceCallbacks: the exchange in execute decides
\* between the guard's destructor and Drain, so a callback is called once.
THEOREM Refinement == GuardsSpec => CalledOnce
<1>1. GuardsInit => Abstract!Init
  BY DEF GuardsInit, Abstract!Init, PhaseOf
<1>2. GuardsInv /\ GuardsInv' /\ [GuardsNext]_guardsVars => Abstract!Next \/ UNCHANGED [c \in Callbacks |-> PhaseOf(c)]
  BY StepSimulation
<1> QED
  BY <1>1, <1>2, GuardsInvariance, PTL DEF GuardsSpec, CalledOnce, Abstract!Spec
=============================================================================
