---------------------------- MODULE MCPackageParts ----------------------------
(* PackageParts with packages that bundling made and ones that it would not  *)
(* make: gaps, slots out of order, numbers at the edges of the word.          *)
EXTENDS PackageParts

P(part, n) == [k \in 1 .. n |-> PartByte(part, k)]

Packed(payload, slots) == Write(payload, slots)

\* The payload, a table, and a header that may say anything: nothing is validated.
Odd(payload, slots, header) == payload \o Table(slots) \o HeaderBytes(header)

BadHeader == [NewHeader(1, 2) EXCEPT !.crc = FALSE]

MCFile ==
  [two      |-> Packed(P("boot", 1) \o P("a", 2) \o P("b", 1),
                       <<Slot(1, 2, 1, <<"m", 0>>), Slot(3, 1, 0, <<"n", 0>>)>>),
   one      |-> Packed(P("stub", 2) \o P("c", 1), <<Slot(2, 1, 0, <<"m", 0>>)>>),
   gaps     |-> Packed(P("boot", 3) \o P("a", 2) \o P("gap", 1), <<Slot(3, 1, 1, <<"m", 0>>)>>),
   reversed |-> Packed(P("a", 2) \o P("b", 1), <<Slot(2, 1, 0, <<"m", 0>>), Slot(0, 2, 1, <<"n", 0>>)>>),
   past     |-> Packed(P("boot", 1) \o P("a", 1), <<Slot(1, 3, 0, <<"m", 0>>)>>),
   huge     |-> Odd(P("boot", 1) \o P("a", 1), <<Slot(2, Word - 1, 0, <<"m", 0>>)>>, NewHeader(1, 2)),
   full     |-> Packed(P("boot", 1) \o P("a", 1), <<Slot(0, Word - 1, 0, <<"m", 0>>)>>),
   away     |-> Odd(P("boot", 1) \o P("a", 1), <<Slot(1, 1, 0, <<"m", 0>>)>>, NewHeader(1, 1)),
   beyond   |-> Odd(P("boot", 1) \o P("a", 1), <<Slot(1, 1, 0, <<"m", 0>>)>>, NewHeader(1, Word - 1)),
   many     |-> Odd(P("boot", 1), <<Slot(1, 0, 0, <<"m", 0>>)>>, NewHeader(MaxSlots + 1, 0)),
   corrupt  |-> Odd(P("boot", 1) \o P("a", 1), <<Slot(1, 1, 0, <<"m", 0>>)>>, BadHeader),
   plain    |-> P("boot", 3)]

\* No action reads the output: states that differ in it alone are one.
MCView == <<dir, json, pc, job, calls, whole>>

MCBinaries == DOMAIN MCFile
MCSwaps == {<<>>, P("new", 3)}
MCEdits == {<<"m", 0>>, Unset, Unterminated}
MCJunk == Slot(0, Word - 2, 0, <<"junk", 0>>)

===============================================================================
