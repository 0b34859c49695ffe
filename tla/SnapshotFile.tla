---------------------------- MODULE SnapshotFile ----------------------------
(***************************************************************************)
(* The file between the profiled program and the symbolizer.               *)
(* ProtobufWriter::WriteMessage (proto_writer.cpp) appends a tag with the  *)
(* size of the compressed message and the message itself; their bytes show *)
(* up in the file in pieces of any size, and the last message may never be *)
(* finished.  ProtoReader (proto/reader.rs) reads them in pieces of any    *)
(* size: read_exact gives up at the end of the file, read_retry sleeps and *)
(* tries again until the timeout of main.rs cancels it.                    *)
(*                                                                         *)
(* Abstraction.  A byte is its position in the stream.  A tag or a message *)
(* put together from other bytes than its own yields any size, or an error *)
(* of zstd or prost.                                                       *)
(***************************************************************************)
EXTENDS Integers, Sequences

CONSTANTS
  TagSize,       \* ProtoReader::TAG_SIZE
  MaxSize,       \* bound on the size of a message
  MaxMessages    \* bound on their number
ASSUME SizesAssumption == TagSize \in Nat \ {0} /\ MaxSize \in Nat \ {0} /\ MaxMessages \in Nat

VARIABLES
  ends,       \* where each message ends in the stream
  visible,    \* bytes of the stream that are in the file
  watch,      \* args.watch
  offset,        \* bytes the reader has consumed
  field,      \* what is being read: "tag" or "message"
  size,       \* length of the buffer for it
  got,        \* its bytes, so far
  out,        \* the messages read
  stop        \* "no", or why the loop of process ended
readerVars == <<offset, field, size, got, out, stop>>
fileVars == <<ends, visible, watch, readerVars>>

Begin(k) == IF k = 1 THEN 0 ELSE ends[k - 1]
Piece(from, to) == [i \in 1 .. to - from |-> from + i]
Tag(k) == Piece(Begin(k), Begin(k) + TagSize)
Message(k) == Piece(Begin(k) + TagSize, ends[k])
Written == IF ends = <<>> THEN 0 ELSE ends[Len(ends)]

FileTypeOK ==
  /\ ends \in Seq(Nat) /\ Len(ends) <= MaxMessages
  /\ visible \in 0 .. Written /\ watch \in BOOLEAN
  /\ offset \in 0 .. visible
  /\ field \in {"tag", "message"} /\ size \in 0 .. TagSize + MaxSize
  /\ got \in Seq(1 .. visible) /\ Len(got) <= size
  /\ out \in Seq(DOMAIN ends)
  /\ stop \in {"no", "eof", "timeout", "garbled"}

FileInit ==
  /\ ends = <<>> /\ visible = 0 /\ watch \in BOOLEAN
  /\ offset = 0 /\ field = "tag" /\ size = TagSize /\ got = <<>>
  /\ out = <<>> /\ stop = "no"

-----------------------------------------------------------------------------
(* The profiled program.                                                   *)

WriteMessage ==
  /\ visible = Written /\ Len(ends) < MaxMessages
  /\ \E n \in 1 .. MaxSize : ends' = Append(ends, Written + TagSize + n)
  /\ UNCHANGED <<visible, watch, readerVars>>

\* A part of what was written reaches the file.
Appear ==
  /\ \E v \in visible + 1 .. Written : visible' = v
  /\ UNCHANGED <<ends, watch, readerVars>>

-----------------------------------------------------------------------------
(* ProtoReader.                                                            *)

\* The rest of the buffer is filled.     (mutant: always from its beginning)
Filled_FromStart(piece) ==
  [i \in 1 .. Len(got) + Len(piece) |->
     IF i <= Len(piece) THEN piece[i] ELSE IF i <= Len(got) THEN got[i] ELSE 1]
Filled(piece) == got \o piece

\* What a read may return at most.        (mutant: the size of the buffer)
Rest_Whole == size
Rest == size - Len(got)

\* One read of the loops of read_exact and read_retry.
Read ==
  /\ stop = "no" /\ Len(got) < size
  /\ \E n \in 1 .. Rest :
       /\ offset + n <= visible
       /\ got' = Filled(Piece(offset, offset + n))
       /\ offset' = offset + n
  /\ UNCHANGED <<ends, visible, watch, field, size, out, stop>>

\* read_exact fails when there is nothing more to read: in read_message, which
\* is used without --watch, and for ProcessInfo.
\* (mutant: it fails when fewer bytes are left than the whole buffer takes)
AtEof_TooFew == visible - offset < size
AtEof == offset = visible
Eof ==
  /\ stop = "no" /\ Len(got) < size
  /\ ~watch \/ out = <<>>
  /\ AtEof
  /\ stop' = "eof"
  /\ UNCHANGED <<ends, visible, watch, offset, field, size, got, out>>

\* The two seconds of main.rs are over before the message was read.
Timeout ==
  /\ stop = "no" /\ watch /\ out # <<>>
  /\ stop' = "timeout"
  /\ UNCHANGED <<ends, visible, watch, offset, field, size, got, out>>

\* from_be_bytes, and the buffer resized.
ReadTag ==
  /\ stop = "no" /\ field = "tag" /\ Len(got) = size
  /\ LET whole == {k \in DOMAIN ends : got = Tag(k)} IN
       \E n \in IF whole = {} THEN 0 .. MaxSize ELSE {Len(Message(k)) : k \in whole} : size' = n
  /\ field' = "message" /\ got' = <<>>
  /\ UNCHANGED <<ends, visible, watch, offset, out, stop>>

\* decode_all and decode; Processor::process, and the next message.
ReadMessage ==
  /\ stop = "no" /\ field = "message" /\ Len(got) = size
  /\ LET whole == {k \in DOMAIN ends : got = Message(k)} IN
       \/ \E k \in whole : out' = Append(out, k) /\ UNCHANGED stop
       \/ whole = {} /\ stop' = "garbled" /\ UNCHANGED out
  /\ field' = "tag" /\ size' = TagSize /\ got' = <<>>
  /\ UNCHANGED <<ends, visible, watch, offset>>

FileNext == WriteMessage \/ Appear \/ Read \/ Eof \/ Timeout \/ ReadTag \/ ReadMessage
FileSpec == FileInit /\ [][FileNext]_fileVars

\* A read that can return bytes does; a timeout need not happen.
FileFairSpec == FileSpec /\ WF_fileVars(Read \/ ReadTag \/ ReadMessage)

-----------------------------------------------------------------------------
(* Properties.                                                             *)

\* However writes and reads are cut into pieces, the messages read are the
\* first ones written, in order, the reader stands where the writer put the
\* next one, and it never takes other bytes for a message.
YieldsThePrefix ==
  /\ stop # "garbled"
  /\ \A i \in DOMAIN out : out[i] = i
  /\ (field = "tag" /\ got = <<>>) => offset = Begin(Len(out) + 1)

\* Without --watch, the loop ends only when no complete message is left.
PlainReadsAll ==
  [][(stop = "no" /\ stop' = "eof") =>
       \A k \in DOMAIN ends : k > Len(out) => ends[k] > visible]_fileVars

\* A message that is complete in the file is read, unless the loop has ended:
\* the retries of read_retry lose nothing of what was read before.
CompleteIsRead ==
  \A k \in 1 .. MaxMessages :
    (k \in DOMAIN ends /\ ends[k] <= visible) ~> (k \in DOMAIN out \/ stop # "no")
=============================================================================
