--------------------------- MODULE FileHandleProofs ---------------------------
(***************************************************************************)
(* The file handles keep the promise of SeekableFile for files of every    *)
(* size and for every count and offset, as long as no count reaches the    *)
(* 32 bits SquashFS keeps of it.                                           *)
(***************************************************************************)
EXTENDS FileHandle, TLAPS

\* No caller asks SquashFS for 2^32 bytes or more.
SmallReads == "squashfs" \in Backends => \A count \in Counts : count < Word32

Inv == TypeOK /\ StreamInStep /\ EofAtEnd

Calls == {"read", "pread", "seek"}

LEMMA ErrorType ==
  ASSUME NEW call \in Calls, NEW asked \in Nat
  PROVE  /\ Error(call, asked) \in Replies
         /\ Error(call, asked).n = -1
         /\ Error(call, asked).call = call
BY DEF Calls, Error, Result, Replies

LEMMA ResultType ==
  ASSUME NEW call \in Calls, NEW asked \in Nat, NEW from \in Nat, NEW n \in Nat
  PROVE  /\ Result(call, asked, from, n) \in Replies
         /\ Result(call, asked, from, n).call = call
         /\ Result(call, asked, from, n).asked = asked
         /\ Result(call, asked, from, n).from = from
         /\ Result(call, asked, from, n).n = n
BY DEF Calls, Result, Replies

\* What a library read may deliver lies in the file and in the request, and
\* is nothing only when the request or the rest of the file is empty.
LEMMA AvailableBytes ==
  ASSUME NEW i \in Nat, i <= size, size \in Nat, NEW count \in Nat,
         NEW n \in Available(i, count)
  PROVE  /\ n \in 0 .. count
         /\ i + n <= size
         /\ n = 0 => count = 0 \/ i = size
BY DEF Available, Lesser

LEMMA SmallCount ==
  ASSUME SmallReads, TypeOK, backend = "squashfs", NEW count \in Counts, NEW i \in Nat,
         i <= size, size \in Nat
  PROVE  SquashCount(i, count) = Lesser(count, size - i)
<1> DEFINE m == Lesser(count, size - i)
<1>1. m \in 0 .. Word32 - 1
  BY HandleAssumption DEF SmallReads, TypeOK, Lesser
<1>2. \A W \in Nat \ {0} : \A k \in 0 .. W - 1 : k % W = k
  OBVIOUS
<1> QED
  BY <1>1, <1>2, HandleAssumption DEF SquashCount

\* The count passed on and the count asked for leave the same bytes.
LEMMA SmallAvailable ==
  ASSUME SmallReads, TypeOK, backend = "squashfs", NEW count \in Counts, NEW i \in Nat,
         i <= size, size \in Nat
  PROVE  Available(i, SquashCount(i, count)) = Available(i, count)
<1>1. Lesser(SquashCount(i, count), size - i) = Lesser(count, size - i)
  BY SmallCount, HandleAssumption DEF Lesser
<1> QED
  BY <1>1 DEF Available

-----------------------------------------------------------------------------
(* Kinds of outcome: each preserves Inv and is a step of the promise.      *)

Kept == Inv' /\ Promise!Step

LEMMA RefusedStep ==
  ASSUME Inv, backend' = backend, NEW call \in Calls, NEW asked \in Nat,
         Answer(Error(call, asked)), Unmoved
  PROVE  Kept
<1>1. reply' \in Replies /\ reply'.n = -1
  BY ErrorType DEF Answer
<1>2. Inv'
  BY <1>1 DEF Inv, TypeOK, StreamInStep, EofAtEnd, Unmoved
<1>3. Promise!Refused
  BY <1>1 DEF Promise!Refused, Unmoved
<1> QED
  BY <1>2, <1>3 DEF Kept, Promise!Step

\* A read of nothing, because nothing is asked for or left; eof_ may be set
\* at the end.
LEMMA EmptyReadStep ==
  ASSUME Inv, backend' = backend, open, NEW count \in Nat, Answer(Gets(count, pos, 0)),
         count = 0 \/ pos = size,
         eof' \in BOOLEAN, eof' => eof \/ pos = size,
         UNCHANGED <<size, pos, open, stream>>
  PROVE  Kept
<1>0. pos \in Nat /\ size \in Nat
  BY DEF Inv, TypeOK
<1>1. /\ reply' \in Replies /\ reply'.call = "read" /\ reply'.asked = count
      /\ reply'.from = pos /\ reply'.n = 0
  BY <1>0, ResultType DEF Answer, Gets, Calls
<1>2. TypeOK' /\ StreamInStep'
  BY <1>1 DEF Inv, TypeOK, StreamInStep
<1>3. EofAtEnd'
  BY DEF Inv, EofAtEnd
<1>4. Promise!Read
  BY <1>0, <1>1 DEF Promise!Read, Promise!Delivers
<1> QED
  BY <1>2, <1>3, <1>4 DEF Kept, Inv, Promise!Step

\* A read of the bytes at the position.
LEMMA DeliveredStep ==
  ASSUME Inv, backend' = backend, open, NEW count \in Nat, NEW n \in Available(pos, count),
         Answer(Gets(count, pos, n)), Consume(n),
         \/ backend # "zip" /\ stream' = stream
         \/ stream' = pos + n
  PROVE  Kept
<1>0. pos \in Nat /\ size \in Nat /\ pos <= size
  BY DEF Inv, TypeOK, EofAtEnd
<1>1. n \in 0 .. count /\ pos + n <= size /\ (n = 0 => count = 0 \/ pos = size)
  BY <1>0, AvailableBytes
<1>2. /\ reply' \in Replies /\ reply'.call = "read" /\ reply'.asked = count
      /\ reply'.from = pos /\ reply'.n = n
  BY <1>0, <1>1, ResultType DEF Answer, Gets, Calls
<1>3. pos' = pos + n /\ size' = size /\ open' = open
  BY DEF Consume
<1>4. TypeOK'
  BY <1>0, <1>1, <1>2, <1>3 DEF Inv, TypeOK, Consume
<1>5. StreamInStep'
  BY <1>3 DEF Inv, StreamInStep
<1>6. EofAtEnd'
  <2>1. eof' => eof \/ pos + n >= size
    BY DEF Consume
  <2>2. open' /\ eof' => pos' = size'
    BY <1>0, <1>1, <1>3, <2>1 DEF Inv, EofAtEnd
  <2> QED
    BY <1>1, <1>3, <2>2 DEF EofAtEnd
<1>7. Promise!Read
  BY <1>0, <1>1, <1>2, <1>3 DEF Promise!Read, Promise!Delivers
<1> QED
  BY <1>4, <1>5, <1>6, <1>7 DEF Kept, Inv, Promise!Step

\* An offset read, of nothing or of what is available.
LEMMA PreadStep ==
  ASSUME Inv, backend' = backend, open, NEW count \in Nat, NEW offset \in Nat, NEW n \in 0 .. count,
         Answer(GetsAt(count, offset, n)), Unmoved,
         n > 0 => offset + n <= size,
         n = 0 => count = 0 \/ offset >= size
  PROVE  Kept
<1>1. /\ reply' \in Replies /\ reply'.call = "pread" /\ reply'.asked = count
      /\ reply'.from = offset /\ reply'.n = n
  BY ResultType DEF Answer, GetsAt, Calls
<1>2. Inv'
  BY <1>1 DEF Inv, TypeOK, StreamInStep, EofAtEnd, Unmoved
<1>3. Promise!Pread
  BY <1>1 DEF Promise!Pread, Promise!Delivers, Unmoved
<1> QED
  BY <1>2, <1>3 DEF Kept, Promise!Step

\* A seek that arrives.
LEMMA ArrivedStep ==
  ASSUME Inv, backend' = backend, NEW target \in 0 .. size,
         Answer(Result("seek", 0, target, 0)),
         pos' = target, eof' \in BOOLEAN, eof' => target = size,
         UNCHANGED <<size, open>>,
         stream' \in Nat \cup {Broken}, backend = "zip" => stream' \in {target, Broken}
  PROVE  Kept
<1>0. size \in Nat
  BY DEF Inv, TypeOK
<1>1. /\ reply' \in Replies /\ reply' = Result("seek", 0, target, 0) /\ reply'.n = 0
  BY <1>0, ResultType DEF Answer, Calls
<1>2. Inv'
  BY <1>0, <1>1 DEF Inv, TypeOK, StreamInStep, EofAtEnd
<1>3. CASE open
  <2>1. Promise!Seek
    BY <1>1, <1>3 DEF Promise!Seek, Promise!Result, Result
  <2> QED
    BY <1>2, <2>1 DEF Kept, Promise!Step
<1>4. CASE ~open
  <2>1. Promise!Invalid
    BY <1>0, <1>1, <1>4 DEF Promise!Invalid
  <2> QED
    BY <1>2, <2>1 DEF Kept, Promise!Step
<1> QED
  BY <1>3, <1>4 DEF Inv, TypeOK

-----------------------------------------------------------------------------
(* The calls.                                                              *)

LEMMA ZipReadStep ==
  ASSUME Inv, backend' = backend, backend = "zip", NEW count \in Counts, ZipRead(count)
  PROVE  Kept
<1>0. count \in Nat /\ pos \in Nat
  BY HandleAssumption DEF Inv, TypeOK
<1>1. CASE ~open /\ Answer(Error("read", count)) /\ Unmoved
  BY <1>0, <1>1, RefusedStep DEF Calls
<1>2. CASE open /\ (eof \/ count = 0) /\ Answer(Gets(count, pos, 0)) /\ Unmoved
  <2>1. count = 0 \/ pos = size
    BY <1>2 DEF Inv, EofAtEnd
  <2>2. eof' \in BOOLEAN /\ (eof' => eof \/ pos = size)
    BY <1>2 DEF Inv, TypeOK, Unmoved
  <2> QED
    BY <1>0, <1>2, <2>1, <2>2, EmptyReadStep DEF Unmoved
<1>3. CASE /\ open /\ Answer(Error("read", count))
           /\ stream' = Broken /\ UNCHANGED <<size, pos, eof, open>>
  <2>1. reply' \in Replies /\ reply'.n = -1
    BY <1>0, <1>3, ErrorType DEF Answer, Calls
  <2>2. Inv'
    BY <1>3, <2>1 DEF Inv, TypeOK, StreamInStep, EofAtEnd
  <2>3. Promise!Refused
    BY <1>3, <2>1 DEF Promise!Refused
  <2> QED
    BY <2>2, <2>3 DEF Kept, Promise!Step
<1>4. CASE /\ open /\ stream # Broken
           /\ \E n \in Available(stream, count) :
                Answer(Gets(count, stream, n)) /\ Consume(n) /\ stream' = stream + n
  <2>1. stream = pos
    BY <1>4 DEF Inv, StreamInStep
  <2> QED
    BY <1>0, <1>4, <2>1, DeliveredStep
<1> QED
  BY <1>1, <1>2, <1>3, <1>4 DEF ZipRead

LEMMA DwarfsReadStep ==
  ASSUME Inv, backend' = backend, backend = "dwarfs", NEW count \in Counts, DwarfsRead(count)
  PROVE  Kept
<1>0. count \in Nat /\ pos \in Nat /\ size \in Nat /\ pos <= size
  BY HandleAssumption DEF Inv, TypeOK, EofAtEnd
<1>1. CASE Answer(Error("read", count)) /\ Unmoved
  BY <1>0, <1>1, RefusedStep DEF Calls
<1>2. CASE /\ open /\ (eof \/ pos >= size)
           /\ Answer(Gets(count, pos, 0))
           /\ eof' = TRUE /\ UNCHANGED <<size, pos, open, stream>>
  <2>1. pos = size
    BY <1>0, <1>2 DEF Inv, EofAtEnd
  <2> QED
    BY <1>0, <1>2, <2>1, EmptyReadStep
<1>3. CASE open /\ ~eof /\ count = 0 /\ Answer(Gets(count, pos, 0)) /\ Unmoved
  <2>1. eof' \in BOOLEAN /\ (eof' => eof \/ pos = size)
    BY <1>3 DEF Inv, TypeOK, Unmoved
  <2> QED
    BY <1>0, <1>3, <2>1, EmptyReadStep DEF Unmoved
<1>4. CASE /\ open
           /\ \E n \in Available(pos, count) : Answer(Gets(count, pos, n)) /\ Consume(n)
           /\ UNCHANGED stream
  BY <1>0, <1>4, DeliveredStep
<1> QED
  BY <1>1, <1>2, <1>3, <1>4 DEF DwarfsRead

LEMMA SquashReadStep ==
  ASSUME Inv, backend' = backend, SmallReads, backend = "squashfs", NEW count \in Counts, SquashRead(count)
  PROVE  Kept
<1>0. count \in Nat /\ pos \in Nat /\ size \in Nat /\ pos <= size
  BY HandleAssumption DEF Inv, TypeOK, EofAtEnd
<1>1. CASE Answer(Error("read", count)) /\ Unmoved
  BY <1>0, <1>1, RefusedStep DEF Calls
<1>2. CASE open /\ count = 0 /\ Answer(Gets(count, pos, 0)) /\ Unmoved
  <2>1. eof' \in BOOLEAN /\ (eof' => eof \/ pos = size)
    BY <1>2 DEF Inv, TypeOK, Unmoved
  <2> QED
    BY <1>0, <1>2, <2>1, EmptyReadStep DEF Unmoved
<1>3. CASE /\ open /\ pos >= size
           /\ Answer(Gets(count, pos, 0))
           /\ eof' = TRUE /\ UNCHANGED <<size, pos, open, stream>>
  <2>1. pos = size
    BY <1>0, <1>3
  <2> QED
    BY <1>0, <1>3, <2>1, EmptyReadStep
<1>4. CASE /\ open
           /\ \E n \in Available(pos, SquashCount(pos, count)) :
                Answer(Gets(count, pos, n)) /\ Consume(n)
           /\ UNCHANGED stream
  <2>1. Available(pos, SquashCount(pos, count)) = Available(pos, count)
    BY <1>0, SmallAvailable DEF Inv
  <2> QED
    BY <1>0, <1>4, <2>1, DeliveredStep
<1> QED
  BY <1>1, <1>2, <1>3, <1>4 DEF SquashRead

LEMMA PreadCallStep ==
  ASSUME Inv, backend' = backend, SmallReads, NEW count \in Counts, NEW offset \in SeekBy,
         Pread(count, offset)
  PROVE  Kept
<1>0. count \in Nat /\ offset \in Int /\ size \in Nat
  BY HandleAssumption DEF Inv, TypeOK
<1>1. CASE Answer(Error("pread", count)) /\ Unmoved
  BY <1>0, <1>1, RefusedStep DEF Calls
<1>2. CASE /\ open /\ offset >= 0 /\ (count = 0 \/ offset >= size)
           /\ Answer(GetsAt(count, offset, 0)) /\ Unmoved
  BY <1>0, <1>2, PreadStep
<1>3. CASE /\ open /\ offset \in 0 .. size - 1 /\ count > 0
           /\ \E n \in Available(offset, count) : Answer(GetsAt(count, offset, n))
           /\ Unmoved
  <2>1. PICK n \in Available(offset, count) : Answer(GetsAt(count, offset, n))
    BY <1>3
  <2>2. n \in 0 .. count /\ offset + n <= size /\ (n = 0 => count = 0 \/ offset = size)
    BY <1>0, <1>3, <2>1, AvailableBytes
  <2> QED
    BY <1>0, <1>3, <2>1, <2>2, PreadStep
<1>4. CASE backend = "zip"
  <2>1. offset \in 0 .. size - 1 /\ count > 0
          => Lesser(count, size - offset) \in Available(offset, count)
    BY <1>0 DEF Available, Lesser
  <2> QED
    BY <1>0, <1>1, <1>2, <1>3, <1>4, <2>1 DEF Pread, ZipPread
<1>5. CASE backend = "dwarfs"
  BY <1>1, <1>2, <1>3, <1>5 DEF Pread, NativePread
<1>6. CASE backend = "squashfs"
  <2>1. offset \in 0 .. size - 1
          => Available(offset, SquashCount(offset, count)) = Available(offset, count)
    BY <1>0, <1>6, SmallAvailable DEF Inv
  <2> QED
    BY <1>1, <1>2, <1>3, <1>6, <2>1 DEF Pread, NativePread
<1> QED
  BY <1>4, <1>5, <1>6, HandleAssumption DEF Inv, TypeOK

\* Both ways eof_ is set by a seek that arrives.
LEMMA AtEnd ==
  ASSUME size \in Nat, NEW target \in 0 .. size, NEW e,
         e = (target >= size) \/ e = (target > 0 /\ target >= size)
  PROVE  e \in BOOLEAN /\ (e => target = size)
<1>1. CASE target = size
  <2>1. (target >= size) = TRUE
    BY <1>1
  <2>2. e = TRUE \/ e = (target > 0 /\ TRUE)
    BY <2>1, Zenon
  <2>3. (target > 0) \in BOOLEAN
    OBVIOUS
  <2>4. e \in BOOLEAN
    BY <2>2, <2>3, Zenon
  <2> QED
    BY <1>1, <2>4
<1>2. CASE target # size
  <2>1. (target >= size) = FALSE /\ (target > 0 /\ target >= size) = FALSE
    BY <1>2
  <2>2. e = FALSE
    BY <2>1, Zenon
  <2> QED
    BY <2>2
<1> QED
  BY <1>1, <1>2

LEMMA SeekStep ==
  ASSUME Inv, backend' = backend, NEW target, SeekTo(target)
  PROVE  Kept
<1>0. size \in Nat /\ pos \in 0 .. size
  BY DEF Inv, TypeOK, EofAtEnd
<1>1. CASE Answer(Error("seek", 0)) /\ Unmoved
  BY <1>1, RefusedStep DEF Calls
<1>2. CASE backend = "zip" /\ ZipSeekTo(target)
  <2>1. CASE open /\ target = pos /\ Answer(Result("seek", 0, pos, 0)) /\ Unmoved
    <3>1. /\ eof' \in BOOLEAN /\ (eof' => target = size)
          /\ stream' \in Nat \cup {Broken} /\ stream' \in {target, Broken}
      BY <1>2, <2>1 DEF Inv, TypeOK, EofAtEnd, StreamInStep, Unmoved
    <3> QED
      BY <1>0, <2>1, <3>1, ArrivedStep DEF Unmoved
  <2>2. CASE /\ open /\ target \in (0 .. size) \ {pos}
             /\ Answer(Error("seek", 0)) /\ open' = FALSE
             /\ UNCHANGED <<size, pos, eof, stream>>
    <3>1. reply' \in Replies /\ reply'.n = -1 /\ reply'.call = "seek"
      BY <2>2, ErrorType DEF Answer, Calls
    <3>2. Inv'
      BY <2>2, <3>1 DEF Inv, TypeOK, StreamInStep, EofAtEnd
    <3>3. Promise!SeekBreaks
      BY <1>0, <1>2, <2>2, <3>1 DEF Promise!SeekBreaks
    <3> QED
      BY <3>2, <3>3 DEF Kept, Promise!Step
  <2>3. CASE /\ open /\ target \in (0 .. size) \ {pos}
             /\ Answer(Error("seek", 0)) /\ pos' \in 0 .. target - 1 /\ eof' = FALSE
             /\ stream' = Broken /\ UNCHANGED <<size, open>>
    <3>1. reply' \in Replies /\ reply'.n = -1 /\ reply'.call = "seek"
      BY <2>3, ErrorType DEF Answer, Calls
    <3>2. pos' \in Nat /\ pos' \in 0 .. size
      BY <1>0, <2>3
    <3>3. Inv'
      <4>1. TypeOK'
        BY <2>3, <3>1, <3>2 DEF Inv, TypeOK
      <4>2. StreamInStep'
        BY <2>3 DEF StreamInStep
      <4>3. EofAtEnd'
        BY <1>0, <2>3, <3>2 DEF EofAtEnd
      <4> QED
        BY <4>1, <4>2, <4>3 DEF Inv
    <3>4. Promise!SeekBreaks
      BY <1>2, <2>3, <3>1, <3>2 DEF Promise!SeekBreaks
    <3> QED
      BY <3>3, <3>4 DEF Kept, Promise!Step
  <2>4. CASE /\ open /\ target \in (0 .. size) \ {pos}
             /\ Answer(Result("seek", 0, target, 0)) /\ pos' = target
             /\ eof' = (target > 0 /\ target >= size)
             /\ stream' = target /\ UNCHANGED <<size, open>>
    <3>1. eof' \in BOOLEAN /\ (eof' => target = size)
      BY <1>0, <2>4, AtEnd
    <3>2. stream' \in Nat \cup {Broken} /\ stream' \in {target, Broken}
      BY <1>0, <2>4
    <3>3. target \in 0 .. size
      BY <2>4
    <3> QED
      BY <2>4, <3>1, <3>2, <3>3, ArrivedStep
  <2> QED
    BY <1>1, <1>2, <2>1, <2>2, <2>3, <2>4 DEF ZipSeekTo
<1>3. CASE backend # "zip" /\ NativeSeekTo(target)
  <2>1. CASE /\ target \in 0 .. size
             /\ Answer(Result("seek", 0, target, 0)) /\ pos' = target
             /\ eof' = (target >= size) /\ UNCHANGED <<size, open, stream>>
    <3>1. stream' \in Nat \cup {Broken}
      BY <2>1 DEF Inv, TypeOK
    <3>2. eof' \in BOOLEAN /\ (eof' => target = size)
      BY <1>0, <2>1, AtEnd
    <3> QED
      BY <1>3, <2>1, <3>1, <3>2, ArrivedStep
  <2> QED
    BY <1>1, <1>3, <2>1 DEF NativeSeekTo
<1> QED
  BY <1>2, <1>3 DEF SeekTo

LEMMA CloseStep ==
  ASSUME Inv, backend' = backend, Close
  PROVE  Kept
<1>1. Inv'
  BY DEF Inv, TypeOK, StreamInStep, EofAtEnd, Close
<1>2. Promise!Close
  BY DEF Close, Promise!Close
<1> QED
  BY <1>1, <1>2 DEF Kept, Promise!Step

LEMMA CallStep ==
  ASSUME Inv, SmallReads, backend' = backend, Step
  PROVE  Kept
<1>1. ASSUME NEW count \in Counts, Read(count)
      PROVE  Kept
  BY <1>1, ZipReadStep, DwarfsReadStep, SquashReadStep, HandleAssumption DEF Inv, TypeOK, Read
<1>2. ASSUME NEW whence \in Whences, NEW by \in SeekBy, Seek(whence, by)
      PROVE  Kept
  BY <1>2, SeekStep DEF Seek
<1>3. CASE SeekBadWhence
  BY <1>3, RefusedStep DEF SeekBadWhence, Calls
<1> QED
  BY <1>1, <1>2, <1>3, PreadCallStep, CloseStep DEF Step

LEMMA InitStep == Init => Inv /\ Promise!Init
<1> SUFFICES ASSUME Init
             PROVE  Inv /\ Promise!Init
  OBVIOUS
<1>1. size \in Nat
  BY HandleAssumption DEF Init
<1>2. reply \in Replies
  BY ResultType DEF Init, Calls
<1>3. TypeOK
  BY <1>1, <1>2 DEF Init, TypeOK
<1>4. StreamInStep /\ EofAtEnd
  BY <1>1 DEF Init, StreamInStep, EofAtEnd
<1>5. Promise!Init
  BY <1>1 DEF Init, Promise!Init, Promise!Result, Result
<1> QED
  BY <1>3, <1>4, <1>5 DEF Inv

-----------------------------------------------------------------------------
(* Theorems.                                                               *)

LEMMA Steps ==
  ASSUME SmallReads
  PROVE  Inv /\ [Next]_vars => Inv' /\ [Promise!Next]_Promise!vars
<1> SUFFICES ASSUME Inv, [Next]_vars
             PROVE  Inv' /\ [Promise!Next]_Promise!vars
  OBVIOUS
<1>1. CASE Next
  BY <1>1, CallStep DEF Kept, Next, Promise!Next
<1>2. CASE UNCHANGED vars
  BY <1>2 DEF vars, Promise!vars, Inv, TypeOK, StreamInStep, EofAtEnd
<1> QED
  BY <1>1, <1>2

\* Position, end-of-file flag and libzip stream agree after any calls.
THEOREM HandleInvariant ==
  ASSUME SmallReads
  PROVE  Spec => [](TypeOK /\ StreamInStep /\ EofAtEnd)
<1>1. Inv => TypeOK /\ StreamInStep /\ EofAtEnd
  BY DEF Inv
<1>2. Inv /\ [Next]_vars => Inv'
  BY Steps
<1> QED
  BY <1>1, <1>2, InitStep, PTL DEF Spec

\* Types hold after any calls.
THEOREM HandleTypes ==
  ASSUME SmallReads
  PROVE  Spec => []TypeOK
<1> QED
  BY HandleInvariant, PTL

\* The libzip stream never drifts from the position the handle reports.
THEOREM StreamFollows ==
  ASSUME SmallReads
  PROVE  Spec => []StreamInStep
<1> QED
  BY HandleInvariant, PTL

\* The end-of-file flag is set only at the end of the file.
THEOREM EofFresh ==
  ASSUME SmallReads
  PROVE  Spec => []EofAtEnd
<1> QED
  BY HandleInvariant, PTL

\* Each backend's handle implements the promise of FileHandle: reads deliver
\* the bytes at the position, nothing only at the end, offset reads and
\* refused calls leave it alone.
THEOREM HandleImplements ==
  ASSUME SmallReads
  PROVE  Spec => Implements
<1>1. Inv /\ [Next]_vars => Inv' /\ [Promise!Next]_Promise!vars
  BY Steps
<1> QED
  BY <1>1, InitStep, PTL DEF Spec, Implements, Promise!Spec

=============================================================================
