------------------------------ MODULE FileHandle ------------------------------
(***************************************************************************)
(* The three file handles: ZipFileHandle reads a forward-only libzip       *)
(* stream and seeks by reopening it, DwarfsFileHandle and                  *)
(* SquashFSFileHandle read at their own position.  FsContext serialises    *)
(* the calls on a handle, so a call is one step.                           *)
(*                                                                         *)
(* The byte at offset i is known by i.  Library calls that can fail are    *)
(* allowed to; a library read may deliver fewer bytes than asked for, and  *)
(* none only at the end.                                                   *)
(***************************************************************************)
EXTENDS Integers

CONSTANTS
  Backends,    \* the backends handles are opened by
  MaxSize,     \* bound: file sizes
  Counts,      \* counts callers pass to read and pread
  SeekBy,      \* offsets callers pass to seek
  Word32       \* 2^32: SquashFS takes the count modulo Word32

ASSUME HandleAssumption ==
  /\ Backends \subseteq {"zip", "dwarfs", "squashfs"}
  /\ MaxSize \in Nat
  /\ Counts \subseteq Nat
  /\ SeekBy \subseteq Int
  /\ Word32 \in Nat \ {0}

VARIABLES
  backend,     \* the backend the handle was opened by
  size,        \* size_
  pos,         \* current_pos_
  eof,         \* eof_
  open,        \* file_ # nullptr (ZIP), ~closed_ (the others)
  stream,      \* position of the libzip stream, Broken after an error
  reply        \* the last call and its result: n bytes from offset from of
               \* asked, n is -1 on error

vars == <<backend, size, pos, eof, open, stream, reply>>

Broken == -1
Result(call, asked, from, n) ==
  [call |-> call, asked |-> asked, from |-> from, n |-> n]
Gets(asked, from, n) == Result("read", asked, from, n)
GetsAt(asked, from, n) == Result("pread", asked, from, n)
Error(call, asked) == Result(call, asked, 0, -1)

Lesser(a, b) == IF a <= b THEN a ELSE b
Answer(r) == reply' = r
Unmoved == UNCHANGED <<size, pos, eof, open, stream>>

\* Bytes a library read of count bytes at offset i may deliver.
Available(i, count) ==
  LET m == Lesser(count, size - i) IN IF m = 0 THEN {0} ELSE 1 .. m

\* n bytes consumed: the position moves and eof_ is set at the end.
Consume(n) ==
  /\ pos' = pos + n
  /\ eof' = (eof \/ pos + n >= size)
  /\ UNCHANGED <<size, open>>

-----------------------------------------------------------------------------
(* ZIP.                                                                    *)

ZipRead(count) ==
  \/ ~open /\ Answer(Error("read", count)) /\ Unmoved
  \/ open /\ (eof \/ count = 0) /\ Answer(Gets(count, pos, 0)) /\ Unmoved
  \/ /\ open /\ ~eof /\ count > 0              \* zip_fread fails, and keeps failing
     /\ Answer(Error("read", count))
     /\ stream' = Broken
     /\ UNCHANGED <<size, pos, eof, open>>
  \/ /\ open /\ ~eof /\ count > 0 /\ stream # Broken
     /\ \E n \in Available(stream, count) :
          /\ Answer(Gets(count, stream, n))
          /\ Consume(n)
          /\ stream' = stream + n

\* bug: the offset is not checked.
ZipPreadUnchecked(count, offset) ==
  /\ Unmoved
  /\ \/ ~open /\ Answer(Error("pread", count))
     \/ open /\ offset < size /\ Answer(GetsAt(count, offset, Lesser(count, size - offset)))
     \/ open /\ offset >= size /\ Answer(GetsAt(count, offset, 0))

\* A temporary stream: opened, skipped, read to the end of the request.
ZipPread(count, offset) ==
  /\ Unmoved
  /\ \/ (~open \/ offset < 0) /\ Answer(Error("pread", count))
     \/ open /\ offset >= 0 /\ (count = 0 \/ offset >= size) /\ Answer(GetsAt(count, offset, 0))
     \/ /\ open /\ offset \in 0 .. size - 1 /\ count > 0
        /\ Answer(Error("pread", count)) \/ Answer(GetsAt(count, offset, Lesser(count, size - offset)))

\* bug: the position is set, the stream stays where it was and eof_ is kept.
ZipSeekLazy(target) ==
  /\ open /\ target \in 0 .. size
  /\ Answer(Result("seek", 0, target, 0))
  /\ pos' = target
  /\ UNCHANGED <<size, eof, open, stream>>

\* The stream is closed, reopened and read up to the target; eof_ is set by
\* the skipping reads.  Reopening can fail, and so can a read on the way.
ZipSeekTo(target) ==
  \/ (~open \/ target \notin 0 .. size) /\ Answer(Error("seek", 0)) /\ Unmoved
  \/ open /\ target = pos /\ Answer(Result("seek", 0, pos, 0)) /\ Unmoved
  \/ /\ open /\ target \in (0 .. size) \ {pos}
     /\ \/ /\ Answer(Error("seek", 0))                               \* zip_fopen_index fails
           /\ open' = FALSE
           /\ UNCHANGED <<size, pos, eof, stream>>
        \/ /\ Answer(Error("seek", 0))                               \* a skipping read fails
           /\ pos' \in 0 .. target - 1
           /\ eof' = FALSE
           /\ stream' = Broken
           /\ UNCHANGED <<size, open>>
        \/ /\ Answer(Result("seek", 0, target, 0))
           /\ pos' = target
           /\ eof' = (target > 0 /\ target >= size)
           /\ stream' = target
           /\ UNCHANGED <<size, open>>

-----------------------------------------------------------------------------
(* DwarFS and SquashFS.                                                    *)

DwarfsRead(count) ==
  \/ ~open /\ Answer(Error("read", count)) /\ Unmoved
  \/ /\ open /\ (eof \/ pos >= size)
     /\ Answer(Gets(count, pos, 0))
     /\ eof' = TRUE
     /\ UNCHANGED <<size, pos, open, stream>>
  \/ open /\ ~eof /\ pos < size /\ count = 0 /\ Answer(Gets(count, pos, 0)) /\ Unmoved
  \/ open /\ ~eof /\ pos < size /\ count > 0 /\ Answer(Error("read", count)) /\ Unmoved
  \/ /\ open /\ ~eof /\ pos < size /\ count > 0
     /\ \E n \in Available(pos, count) : Answer(Gets(count, pos, n)) /\ Consume(n)
     /\ UNCHANGED stream

\* The count goes through a 32-bit cast.
SquashCount(i, count) == Lesser(count, size - i) % Word32

SquashRead(count) ==
  \/ ~open /\ Answer(Error("read", count)) /\ Unmoved
  \/ open /\ count = 0 /\ Answer(Gets(count, pos, 0)) /\ Unmoved
  \/ /\ open /\ count > 0 /\ pos >= size
     /\ Answer(Gets(count, pos, 0))
     /\ eof' = TRUE
     /\ UNCHANGED <<size, pos, open, stream>>
  \/ open /\ count > 0 /\ pos < size /\ Answer(Error("read", count)) /\ Unmoved
  \/ /\ open /\ count > 0 /\ pos < size
     /\ \E n \in Available(pos, SquashCount(pos, count)) :
          Answer(Gets(count, pos, n)) /\ Consume(n)
     /\ UNCHANGED stream

\* bug: the position follows an offset read.
PreadMoves(count, offset) ==
  /\ open /\ offset \in 0 .. size - 1
  /\ Answer(GetsAt(count, offset, Lesser(count, size - offset)))
  /\ pos' = offset + reply'.n
  /\ UNCHANGED <<size, eof, open, stream>>

\* One call of the library's offset read, for the count it is passed.
NativePread(count, offset) ==
  LET passed == IF backend = "squashfs" THEN SquashCount(offset, count) ELSE count
  IN  /\ Unmoved
      /\ \/ (~open \/ offset < 0) /\ Answer(Error("pread", count))
         \/ /\ open /\ offset >= 0 /\ (count = 0 \/ offset >= size)
            /\ Answer(GetsAt(count, offset, 0))
         \/ /\ open /\ offset \in 0 .. size - 1 /\ count > 0
            /\ \/ Answer(Error("pread", count))
               \/ \E n \in Available(offset, passed) : Answer(GetsAt(count, offset, n))

\* bug: eof_ is not reset.
SeekKeepsEof(target) ==
  /\ open /\ target \in 0 .. size
  /\ Answer(Result("seek", 0, target, 0))
  /\ pos' = target
  /\ UNCHANGED <<size, eof, open, stream>>

\* DwarFS does not look at closed_.
NativeSeekTo(target) ==
  LET refused == target \notin 0 .. size \/ (backend = "squashfs" /\ ~open)
  IN  \/ refused /\ Answer(Error("seek", 0)) /\ Unmoved
      \/ /\ ~refused
         /\ Answer(Result("seek", 0, target, 0))
         /\ pos' = target
         /\ eof' = (target >= size)
         /\ UNCHANGED <<size, open, stream>>

-----------------------------------------------------------------------------
Read(count) ==
  CASE backend = "zip" -> ZipRead(count)
    [] backend = "dwarfs" -> DwarfsRead(count)
    [] OTHER -> SquashRead(count)

Pread(count, offset) ==
  IF backend = "zip" THEN ZipPread(count, offset) ELSE NativePread(count, offset)

SeekTo(target) == IF backend = "zip" THEN ZipSeekTo(target) ELSE NativeSeekTo(target)

Target(whence, by) ==
  CASE whence = "SEEK_SET" -> by
    [] whence = "SEEK_CUR" -> pos + by
    [] OTHER -> size + by

Whences == {"SEEK_SET", "SEEK_CUR", "SEEK_END"}

Seek(whence, by) == SeekTo(Target(whence, by))

\* An open mode of seek that is none of the three is refused.
SeekBadWhence == Answer(Error("seek", 0)) /\ Unmoved

Close == open' = FALSE /\ UNCHANGED <<size, pos, eof, stream, reply>>

Init ==
  /\ backend \in Backends
  /\ size \in 0 .. MaxSize
  /\ pos = 0
  /\ eof = FALSE
  /\ open = TRUE
  /\ stream = 0
  /\ reply = Result("seek", 0, 0, 0)

\* One call on the handle.
Step ==
  \/ \E count \in Counts :
       \/ Read(count)
       \/ \E offset \in SeekBy : Pread(count, offset)
  \/ \E whence \in Whences, by \in SeekBy : Seek(whence, by)
  \/ SeekBadWhence
  \/ Close

Next == Step /\ UNCHANGED backend

Spec == Init /\ [][Next]_vars

-----------------------------------------------------------------------------
(* Properties.                                                             *)

Replies == [call : {"read", "pread", "seek"}, asked : Nat, from : Nat, n : Nat \cup {-1}]

TypeOK ==
  /\ backend \in Backends
  /\ size \in Nat
  /\ pos \in Nat
  /\ eof \in BOOLEAN
  /\ open \in BOOLEAN
  /\ stream \in Nat \cup {Broken}
  /\ reply \in Replies

\* The libzip stream and current_pos_ never drift apart, whatever mix of
\* reads, seeks and failures went before: a read delivers the bytes at the
\* position tell() reports.
StreamInStep == backend = "zip" => stream \in {pos, Broken}

\* eof_ is never stale: it is set only at the end of the file, so no seek
\* back leaves a handle that answers 0 for ever.
EofAtEnd == /\ pos <= size
            /\ open /\ eof => pos = size

\* The handle implements the promise of FileHandle.
Promise == INSTANCE SeekableFile WITH restarts <- backend = "zip", usable <- open
Implements == Promise!Spec

=============================================================================
