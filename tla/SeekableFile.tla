----------------------------- MODULE SeekableFile -----------------------------
(***************************************************************************)
(* What a FileHandle promises (file_handle.h): a position in a file of a   *)
(* fixed size, reads that deliver the bytes at the position and move it by *)
(* as many, offset reads that do not move it, and seeks.  The byte at      *)
(* offset i is known by i, so a reply names the bytes it delivered.        *)
(***************************************************************************)
EXTENDS Integers

VARIABLES
  restarts,    \* TRUE if seeking restarts a forward-only stream
  size,        \* size of the file
  pos,         \* current position
  usable,      \* not closed, and not broken by a seek
  reply        \* the last call and its result

vars == <<restarts, size, pos, usable, reply>>

\* n bytes from offset from, of asked bytes; n is -1 on error.
Result(call, asked, from, n) ==
  [call |-> call, asked |-> asked, from |-> from, n |-> n]

Init ==
  /\ restarts \in BOOLEAN
  /\ size \in Nat
  /\ pos = 0
  /\ usable = TRUE
  /\ reply = Result("seek", 0, 0, 0)

\* The reply's bytes: none only at the end, or when none are asked for.
Delivers(call) ==
  LET r == reply'
  IN  /\ r.call = call
      /\ r.n \in 0 .. r.asked
      /\ r.n > 0 => r.from + r.n <= size
      /\ r.n = 0 => r.asked = 0 \/ r.from >= size

Read ==
  /\ usable
  /\ Delivers("read")
  /\ reply'.from = pos
  /\ pos' = pos + reply'.n
  /\ UNCHANGED <<size, usable>>

Pread ==
  /\ usable
  /\ Delivers("pread")
  /\ UNCHANGED <<size, pos, usable>>

Seek ==
  /\ usable
  /\ pos' \in 0 .. size
  /\ reply' = Result("seek", 0, pos', 0)
  /\ UNCHANGED <<size, usable>>

\* A call that fails leaves the position alone.
Refused == reply'.n = -1 /\ UNCHANGED <<size, pos, usable>>

\* A restart that fails leaves it anywhere, or breaks the handle.
SeekBreaks ==
  /\ restarts
  /\ usable
  /\ reply'.call = "seek"
  /\ reply'.n = -1
  /\ pos' \in 0 .. size
  /\ usable' \in BOOLEAN
  /\ UNCHANGED size

Close == usable' = FALSE /\ UNCHANGED <<size, pos, reply>>

\* After close() every method is invalid: no call delivers bytes.
Invalid ==
  /\ ~usable
  /\ pos' \in Nat
  /\ reply'.n <= 0
  /\ UNCHANGED <<size, usable>>

Step == Read \/ Pread \/ Seek \/ Refused \/ SeekBreaks \/ Close \/ Invalid

Next == Step /\ UNCHANGED restarts

Spec == Init /\ [][Next]_vars
=============================================================================
