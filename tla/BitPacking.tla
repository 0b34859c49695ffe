----------------------------- MODULE BitPacking -----------------------------
(***************************************************************************)
(* The compression of stack traces (compression.cpp) that the static       *)
(* tracker stores and compares: the differences of successive addresses,   *)
(* halves in two-bit control codes and as many data bits as the code says, *)
(* packed into words across their boundaries.  The width of a word is a    *)
(* constant (32 in the code); an address has two words.  Bit operations    *)
(* are arithmetic on powers of two.                                        *)
(***************************************************************************)
EXTENDS Integers, Sequences

CONSTANTS
  W,         \* ValueBitsSize, a multiple of 4
  Values,    \* addresses of the traces that are compressed
  MaxLen     \* bound on the length of a trace


VARIABLES in, dirt, out, back
vars == <<in, dirt, out, back>>

NotRun == [words |-> <<>>, size |-> 0]

-----------------------------------------------------------------------------
(* BitIterator: a word and a bit within it.                                *)

At(pos) == [pos |-> pos, bit |-> 0]
Advance(it, n) ==
  IF it.bit + n >= W THEN At(it.pos + 1) ELSE [it EXCEPT !.bit = @ + n]

\* Bits from .. from + n - 1 of a word.
Bits(word, from, n) == (word \div 2^from) % 2^n
ClearBits(word, from, n) == word - Bits(word, from, n) * 2^from

PutBits(word, from, n, value) == ClearBits(word, from, n) + (value % 2^n) * 2^from

\* What still fits into the word.
Chunk(it, count) == IF W - it.bit >= count THEN count ELSE W - it.bit

RECURSIVE EncodeBits(_, _, _, _)
EncodeBits(words, it, count, value) ==
  IF count = 0 THEN [words |-> words, it |-> it]
  ELSE LET n == Chunk(it, count) IN
       EncodeBits([words EXCEPT ![it.pos] = PutBits(@, it.bit, n, value) % 2^W],
                  Advance(it, n), count - n, value \div 2^n)

RECURSIVE DecodeBits(_, _, _)
DecodeBits(words, it, count) ==
  IF count = 0 THEN [value |-> 0, it |-> it]
  ELSE LET n == Chunk(it, count)
           rest == DecodeBits(words, Advance(it, n), count - n)
       IN  [value |-> Bits(words[it.pos], it.bit, n) + rest.value * 2^n, it |-> rest.it]

-----------------------------------------------------------------------------
(* Encode and Decode: a control code and its data.                         *)

\* SizeBits: Zero, TwoBytes, ThreeBytes, FourBytes.  (mutant: <= for <)
SizeBits_AtMost(value) ==
  CASE value = 0 -> 0
    [] value > 0 /\ value <= 2^(W \div 2) -> 1
    [] value > 2^(W \div 2) /\ value <= 2^(3 * (W \div 4)) -> 2
    [] OTHER -> 3
SizeBits(value) ==
  CASE value = 0 -> 0
    [] value > 0 /\ value < 2^(W \div 2) -> 1
    [] value >= 2^(W \div 2) /\ value < 2^(3 * (W \div 4)) -> 2
    [] OTHER -> 3
BitCount(code) == IF code = 0 THEN 0 ELSE (code + 1) * (W \div 4)

\* st holds the words and the two iterators.
Encode(st, value) ==
  LET code == SizeBits(value)
      c == EncodeBits(st.words, st.control, 2, code)
      d == EncodeBits(c.words, st.data, BitCount(code), value)
  IN  [words |-> d.words, control |-> c.it, data |-> d.it]

Decode(words, st) ==
  LET c == DecodeBits(words, st.control, 2)
      d == DecodeBits(words, st.data, BitCount(c.value))
  IN  [value |-> d.value, control |-> c.it, data |-> d.it]

-----------------------------------------------------------------------------
(* Compress and Decompress.                                                *)

ControlBlockSize(n) == (n * 4 + W - 1) \div W
MaxExpectedSize(n) == 1 + n * 2 + ControlBlockSize(n)

\* A word of the result may hold bits of what the buffer held before.
\* (mutant: they are left there)
ClearUnusedBits_Left(words, it) == words
ClearUnusedBits(words, it) ==
  IF it.bit = 0 THEN words
  ELSE [words EXCEPT ![it.pos] = ClearBits(@, it.bit, W - it.bit)]

Compress(trace, filler) ==
  LET n == Len(trace)
      buffer == [i \in 0 .. MaxExpectedSize(n) - 1 |-> IF i = 0 THEN n ELSE filler]
      diff[i \in 1 .. n] ==
        (trace[i] - (IF i = 1 THEN 0 ELSE trace[i - 1]) + 2^(2 * W)) % 2^(2 * W)
      st[i \in 0 .. n] ==
        IF i = 0 THEN [words |-> buffer, control |-> At(1), data |-> At(1 + ControlBlockSize(n))]
        ELSE Encode(Encode(st[i - 1], diff[i] % 2^W), diff[i] \div 2^W)
      words == ClearUnusedBits(ClearUnusedBits(st[n].words, st[n].data), st[n].control)
      size == st[n].data.pos + (IF st[n].data.bit = 0 THEN 0 ELSE 1)
  IN  [words |-> [i \in 0 .. size - 1 |-> words[i]], size |-> size]

Decompress(words) ==
  LET n == words[0]
      st[i \in 0 .. n] ==
        IF i = 0 THEN [control |-> At(1), data |-> At(1 + ControlBlockSize(n)), cur |-> 0]
        ELSE LET low == Decode(words, st[i - 1])
                 high == Decode(words, low)
             IN  [control |-> high.control, data |-> high.data,
                  cur |-> (st[i - 1].cur + low.value + high.value * 2^W) % 2^(2 * W)]
  IN  [i \in 1 .. n |-> st[i].cur]

-----------------------------------------------------------------------------
Init ==
  /\ in \in UNION {[1 .. n -> Values] : n \in 0 .. MaxLen}
  /\ dirt \in {0, 2^W - 1}
  /\ out = NotRun
  /\ back = <<>>

Pack ==
  /\ out = NotRun
  /\ out' = Compress(in, dirt)
  /\ UNCHANGED <<in, dirt, back>>

Unpack ==
  /\ out # NotRun /\ back = <<>> /\ in # <<>>
  /\ back' = Decompress(out.words)
  /\ UNCHANGED <<in, dirt, out>>

Next == Pack \/ Unpack
Spec == Init /\ [][Next]_vars

-----------------------------------------------------------------------------
(* Properties.                                                             *)

\* What the static tracker returns for a trace id is the trace it was given
\* for: differences that wrap around, codes at their limits and data that
\* cross words included.
RoundTrip == back # <<>> => back = in

\* Two traces are stored as one element exactly if they are equal, since the
\* words do not depend on what the buffer held before (find compares words).
BufferDoesNotShow == out # NotRun => out = Compress(in, 0)
=============================================================================
