----------------------------- MODULE PackageParts -----------------------------
(***************************************************************************)
(* Taking packages apart into a directory and putting them together again  *)
(* (package_unbundle, package_reassemble in package.cpp), with a user who  *)
(* swaps parts and edits manifest.json in between.                         *)
(*                                                                         *)
(* The packages may come from elsewhere: their trailers hold any numbers.  *)
(* Part 0 is bootstrap.bin, part i is image-<i-1>.bin; a name in           *)
(* manifest.json that leads out of the directory is Outside.  Every part   *)
(* file is one step; it may be cut short unnoticed (the result of closing  *)
(* it is not looked at), fail, or be interrupted by a crash.  The flags    *)
(* and the options of a package are copied unchanged and left out, and so  *)
(* are the entries of manifest.json that nothing reads back.               *)
(*                                                                         *)
(* reassemble's output lies outside the directory: as the path of a part   *)
(* that it reads it is refused before anything is touched, and writing     *)
(* over another file of the directory is left out.                         *)
(***************************************************************************)
EXTENDS Tpkg, SequencesExt

CONSTANTS
  Binaries,      \* paths of binaries
  File,          \* [Binaries -> their bytes]
  Swaps,         \* files a user puts in the place of a part
  Edits,         \* mount points a user writes into manifest.json, or Unset
  MaxCalls       \* bound: unbundles and edits by the user

ASSUME PartsAssumption == MaxCalls \in Nat

Payload(bytes) == \A k \in DOMAIN bytes : bytes[k].kind = "part"

Unset == <<"unset", 0>>    \* the mount point of an entry without one: no package holds it

\* A trailer holds any numbers its fields have room for.  What lies before the
\* table it points to is payload, and so is what a user puts in a part's place:
\* the parts are no packages themselves.
ASSUME FileAssumption ==
  /\ \A b \in Binaries :
       LET file == File[b]
       IN  /\ file \in Seq({file[k] : k \in DOMAIN file})
           /\ ReadError(file) = "OK" =>
                /\ Header(file).table \in 0 .. Word - 1
                /\ \A i \in DOMAIN Records(file) :
                     LET slot == Records(file)[i]
                     IN  /\ slot = Slot(slot.offset, slot.size, slot.format, slot.mount)
                         /\ slot.offset \in 0 .. Word - 1 /\ slot.size \in 0 .. Word - 1
                         /\ slot.mount # Unset
                /\ \A k \in 1 .. Header(file).table : file[k].kind = "part"
  /\ \A bytes \in Swaps : bytes \in Seq({bytes[k] : k \in DOMAIN bytes}) /\ Payload(bytes)

VARIABLES
  dir,           \* part files of the directory: number -> bytes
  json,          \* manifest.json: its slots, NoFile or Damaged
  pc,            \* "idle", or "parts" within unbundle
  job,           \* the unbundle under way: binary, table, slots, parts done
  output,        \* the file at reassemble's output path, or NoFile
  calls,
  whole          \* history: the binary whose parts lie in dir whole and untouched

vars == <<dir, json, pc, job, output, calls, whole>>

Nothing == "nothing"
NoFile == <<>>
Outside == MaxSlots + 1    \* a part's name that is not a plain file name
Damaged == <<[file |-> Outside + 1, format |-> 0, mount |-> Unset]>>
NoJob == [binary |-> Nothing, table |-> 0, slots |-> <<>>, done |-> 0, exact |-> TRUE]

With(f, x, v) == [y \in DOMAIN f \cup {x} |-> IF y = x THEN v ELSE f[y]]
Without(f, x) == [y \in DOMAIN f \ {x} |-> f[y]]
Lesser(a, b) == IF a <= b THEN a ELSE b

\* stream_part: the range, cut at the end of the file
Bytes(file, offset, size) == SubSeq(file, offset + 1, Lesser(offset + size, Len(file)))

BytesOf(file, slots, part) ==
  IF part = 0 THEN Bytes(file, 0, slots[1].offset)
  ELSE Bytes(file, slots[part].offset, slots[part].size)

-----------------------------------------------------------------------------
(* unbundle                                                                *)

\* bug: only the start of a slot is checked
StartsInRange(slots, table) == \A i \in DOMAIN slots : slots[i].offset <= table

InRange(slots, table) ==
  \A i \in DOMAIN slots :
    slots[i].offset <= table /\ slots[i].size <= table - slots[i].offset

BeginUnbundle(b) ==
  /\ pc = "idle"
  /\ calls < MaxCalls
  /\ ReadError(File[b]) = "OK"
  /\ InRange(Records(File[b]), Header(File[b]).table)
  /\ pc' = "parts"
  /\ job' = [binary |-> b, table |-> Header(File[b]).table, slots |-> Records(File[b]),
             done |-> 0, exact |-> TRUE]
  /\ calls' = calls + 1
  /\ whole' = Nothing
  /\ UNCHANGED <<dir, json, output>>

Part == BytesOf(File[job.binary], job.slots, job.done)

\* bug: a part file that is there is overwritten from its start, not truncated
OverOld(bytes) ==
  IF job.done \in DOMAIN dir
  THEN bytes \o SubSeq(dir[job.done], Len(bytes) + 1, Len(dir[job.done]))
  ELSE bytes

StreamOutKeepsTail ==
  /\ pc = "parts"
  /\ job.done <= Len(job.slots)
  /\ dir' = With(dir, job.done, OverOld(Part))
  /\ job' = [job EXCEPT !.done = @ + 1]
  /\ UNCHANGED <<json, pc, output, calls, whole>>

StreamOut ==
  /\ pc = "parts"
  /\ job.done <= Len(job.slots)
  /\ \E bytes \in Prefixes(Part) :
       /\ dir' = With(dir, job.done, bytes)
       /\ job' = [job EXCEPT !.done = @ + 1, !.exact = @ /\ bytes = Part]
  /\ UNCHANGED <<json, pc, output, calls, whole>>

Stop == pc' = "idle" /\ job' = NoJob /\ UNCHANGED <<output, calls>>

\* The part cannot be created; it fails and is removed; or a crash leaves it.
StreamOutFails ==
  /\ pc = "parts"
  /\ job.done <= Len(job.slots)
  /\ dir' \in {dir, Without(dir, job.done)}
              \cup {With(dir, job.done, bytes) : bytes \in Prefixes(Part)}
  /\ Stop
  /\ UNCHANGED <<json, whole>>

Manifest(slots) ==
  [i \in DOMAIN slots |-> [file |-> i, format |-> slots[i].format, mount |-> slots[i].mount]]

\* bug: the last part is still to come
WriteManifestEarly ==
  /\ pc = "parts"
  /\ job.done = Len(job.slots)
  /\ json' = Manifest(job.slots)
  /\ whole' = job.binary
  /\ Stop
  /\ UNCHANGED dir

\* Cut short, it cannot be parsed.
WriteManifest ==
  /\ pc = "parts"
  /\ job.done > Len(job.slots)
  /\ \/ /\ json' = Manifest(job.slots)
        /\ whole' = IF job.exact THEN job.binary ELSE Nothing
     \/ json' = Damaged /\ whole' = Nothing
     \/ UNCHANGED <<json, whole>>
  /\ Stop
  /\ UNCHANGED dir

-----------------------------------------------------------------------------
(* The user, between the calls.                                            *)

Parsed == json # NoFile /\ json # Damaged

UserEdits == pc = "idle" /\ calls < MaxCalls /\ calls' = calls + 1 /\ whole' = Nothing

SwapPart(part, bytes) ==
  /\ UserEdits
  /\ part \in DOMAIN dir
  /\ dir' = With(dir, part, bytes)
  /\ UNCHANGED <<json, pc, job, output>>

EditMount(i, mount) ==
  /\ UserEdits
  /\ Parsed /\ i \in DOMAIN json
  /\ json' = [json EXCEPT ![i].mount = mount]
  /\ UNCHANGED <<dir, pc, job, output>>

EditFile(i, part) ==
  /\ UserEdits
  /\ Parsed /\ i \in DOMAIN json
  /\ json' = [json EXCEPT ![i].file = part]
  /\ UNCHANGED <<dir, pc, job, output>>

RemoveSlot(i) ==
  /\ UserEdits
  /\ Parsed /\ i \in DOMAIN json
  /\ json' = RemoveAt(json, i)
  /\ UNCHANGED <<dir, pc, job, output>>

-----------------------------------------------------------------------------
(* reassemble: the parts the manifest names, one after the other; offsets  *)
(* and sizes are those of the files.                                       *)

DefaultMount(i) == <<"default", i - 1>>
MountOf(i) == IF json[i].mount = Unset THEN DefaultMount(i) ELSE json[i].mount

\* What package_reassemble and assemble look at before they touch the output:
\* the names of the parts are safe, the parts are there, and the output is none
\* of them.
CanReassemble ==
  /\ pc = "idle"
  /\ Parsed
  /\ Len(json) \in 1 .. MaxSlots
  /\ \A i \in DOMAIN json : json[i].file # Outside
  /\ {0} \cup {json[i].file : i \in DOMAIN json} \subseteq DOMAIN dir
  /\ \A i \in DOMAIN json : MountOf(i) # Unterminated

\* bug: the part of the slot's number is taken, whatever the manifest names
UptoByNumber(n) == dir[0] \o FlattenSeq([i \in 1 .. n |-> IF i \in DOMAIN dir THEN dir[i] ELSE <<>>])

\* The bootstrap and the first n slots.
Upto(n) == dir[0] \o FlattenSeq([i \in 1 .. n |-> dir[json[i].file]])

NewSlots ==
  [i \in DOMAIN json |->
     Slot(Len(Upto(i - 1)), Len(dir[json[i].file]), json[i].format, MountOf(i))]

Reassembled == Write(Upto(Len(json)), NewSlots)

Reassemble ==
  /\ CanReassemble
  /\ Validate(Version, NewSlots) = "OK"
  /\ output' = Reassembled
  /\ UNCHANGED <<dir, json, pc, job, calls, whole>>

\* The old output is truncated first.  The new one is removed when a part, the
\* flush or the trailer fails; a crash leaves as much as has been written.
ReassembleFails ==
  /\ CanReassemble
  /\ output' \in Prefixes(Reassembled) \ {Reassembled}
  /\ UNCHANGED <<dir, json, pc, job, calls, whole>>

-----------------------------------------------------------------------------
Init ==
  /\ dir = <<>>
  /\ json = NoFile
  /\ pc = "idle"
  /\ job = NoJob
  /\ output = NoFile
  /\ calls = 0
  /\ whole = Nothing

Next ==
  \/ \E b \in Binaries : BeginUnbundle(b)
  \/ StreamOut
  \/ StreamOutFails
  \/ WriteManifest
  \/ \E part \in 0 .. MaxSlots, bytes \in Swaps : SwapPart(part, bytes)
  \/ \E i \in 1 .. MaxSlots, mount \in Edits : EditMount(i, mount)
  \/ \E i \in 1 .. MaxSlots, part \in 0 .. Outside : EditFile(i, part)
  \/ \E i \in 1 .. MaxSlots : RemoveSlot(i)
  \/ Reassemble
  \/ ReassembleFails

Spec == Init /\ [][Next]_vars

-----------------------------------------------------------------------------
(* Properties.                                                             *)

\* Types; and while the directory counts as whole it has a manifest, and every
\* part that unbundle gave it.
TypeOK ==
  /\ DOMAIN dir \subseteq 0 .. MaxSlots
  /\ Parsed => Len(json) <= MaxSlots /\ \A i \in DOMAIN json : json[i].file \in 0 .. Outside
  /\ pc \in {"idle", "parts"}
  /\ (pc = "idle") = (job = NoJob)
  /\ job.done \in 0 .. Len(job.slots) + 1
  /\ calls \in 0 .. MaxCalls
  /\ whole # Nothing =>
       whole \in Binaries /\ Parsed /\ 0 .. Len(json) \subseteq DOMAIN dir

\* Whatever numbers a trailer holds, unbundle takes no byte of a slot table or
\* of a trailer for a part (the bounds of tpkg__read_core and package_unbundle;
\* the parts of the binaries are no packages themselves).
PartsOfPayload == \A part \in DOMAIN dir : Payload(dir[part])

\* A package as its readers see it.
Contents(file) ==
  [boot |-> BytesOf(file, Records(file), 0),
   slots |-> [i \in DOMAIN Records(file) |->
                [bytes |-> BytesOf(file, Records(file), i),
                 format |-> Records(file)[i].format,
                 mount |-> Records(file)[i].mount]]]

\* The package lies as package_bundle lays it out: one part after the other, then
\* what tpkg_write_fd appends.
Bundled(file) ==
  LET slots == Records(file)
  IN  /\ \A i \in 2 .. Len(slots) : slots[i].offset = slots[i - 1].offset + slots[i - 1].size
      /\ Header(file).table = Last(slots).offset + Last(slots).size
      /\ file = Write(SubSeq(file, 1, Header(file).table), slots)

\* Reassembling parts that nobody has touched gives a package with the same
\* parts and mounts, and the very same bytes if the package was laid out by
\* bundling, whatever an earlier or an interrupted unbundle had left in the
\* directory (package.h:107-110).
RoundTrip ==
  [][ Reassemble /\ whole # Nothing =>
        /\ Contents(output') = Contents(File[whole])
        /\ Bundled(File[whole]) => output' = File[whole] ]_vars

\* A package that reassemble reports as built can be read, and holds the parts
\* that are in the directory now, in the order of the manifest and under its
\* mount points, whichever binaries and edits they come from.
PicksUpParts ==
  [][ Reassemble =>
        /\ ReadError(output') = "OK"
        /\ Contents(output') =
             [boot |-> dir[0],
              slots |-> [i \in DOMAIN json |->
                           [bytes |-> dir[json[i].file],
                            format |-> json[i].format,
                            mount |-> MountOf(i)]]] ]_vars

=============================================================================
