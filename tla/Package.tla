------------------------------- MODULE Package -------------------------------
(***************************************************************************)
(* Bundling a three-part package and editing it in place (package.cpp):    *)
(* every edit reads the manifest, streams the parts it keeps and the new   *)
(* one to a temporary file beside the package, appends a new trailer and   *)
(* renames.  Bundling writes to the package's path itself.                 *)
(*                                                                         *)
(* Editors are processes that nothing serialises.  A package is never      *)
(* written to after it has been renamed into place, so reading a manifest  *)
(* and copying one part are single steps, but every part is opened by path *)
(* again.  A process may crash between any two steps.  Nobody bundles over *)
(* a package while an edit of it is under way.                             *)
(*                                                                         *)
(* The k-th byte of a part is <<part, k>>; the trailer counts one byte.    *)
(* Format, flags and mount point of a slot travel together as its mount,   *)
(* with a history of who chose the mount point; the options of a package   *)
(* are copied unchanged and left out.                                      *)
(***************************************************************************)
EXTENDS Naturals, Sequences

CONSTANTS
  Editors,       \* processes that edit the package
  Runtimes,      \* bootstrap and runtime files
  Images,        \* image files
  Size,          \* [Runtimes \cup Images -> size of the file]
  Mounts,        \* mount points callers give: any, default ones too
  MaxSlots,      \* TPKG_MAX_SLOTS
  MaxEdits       \* bound: number of edits begun

Parts == Runtimes \cup Images

ASSUME PartAssumption ==
  /\ "package" \notin Parts
  /\ Size \in [Parts -> Nat]
  /\ MaxSlots \in Nat \ {0}
  /\ MaxEdits \in Nat

VARIABLES
  pkg,           \* the file at the package's path, or Absent
  pc,            \* [Editors -> where the editor is]
  plan,          \* [Editors -> the parts it still has to stream]
  draft,         \* [Editors -> its temporary file, and the manifest in memory]
  edits,         \* edits begun
  want,          \* history: [Editors -> what its edit makes of the package it read]
  moved          \* history: [Editors -> another editor replaced the package since]

vars == <<pkg, pc, plan, draft, edits, want, moved>>

-----------------------------------------------------------------------------
(* Files.                                                                  *)

Trailer == <<"trailer", 0>>
PartBytes(part) == [k \in 1 .. Size[part] |-> <<part, k>>]

\* A file without a trailer has no slots; no file is like an empty one.
Absent == [bytes |-> <<>>, slots |-> <<>>]

\* package_probe
Probed(file) == file.slots # <<>>

Lesser(a, b) == IF a <= b THEN a ELSE b

\* The bytes stream_part copies: the range, cut at the end of the file.
Cut(bytes, offset, length) ==
  SubSeq(bytes, offset + 1, Lesser(offset + length, Len(bytes)))

\* What assemble writes: the bootstrap, a slot after what is there, the trailer.
Booted(bytes) == [bytes |-> bytes, slots |-> <<>>]
WithSlot(file, bytes, mount) ==
  [bytes |-> file.bytes \o bytes,
   slots |-> Append(file.slots,
               [offset |-> Len(file.bytes), size |-> Len(bytes), mount |-> mount])]
Sealed(file) == [file EXCEPT !.bytes = Append(@, Trailer)]

\* package_default_mount
DefaultMount(index) == <<"default", index>>

\* No mount point given.
Empty == <<"", 0>>

\* What a slot is mounted at, and whether the caller chose it.
ByDefault(index) == [point |-> DefaultMount(index), given |-> FALSE]
Given(point) == [point |-> point, given |-> TRUE]

\* The caller's mount point is taken as it is, the empty one is the default one
\* of the slot's place.
MountOf(point, index) == IF point = Empty THEN ByDefault(index) ELSE Given(point)

-----------------------------------------------------------------------------
(* What an edit streams.  A source is a range of the package, or a file.   *)

Package == "package"
Region(offset, length, mount) ==
  [from |-> Package, offset |-> offset, length |-> length, mount |-> mount]
WholeFile(part, mount) ==
  [from |-> part, offset |-> 0, length |-> Size[part], mount |-> mount]
NoMount == Given(Empty)
Plan(bundles, boot, slots) == [bundles |-> bundles, boot |-> boot, slots |-> slots]

NoPlan == Plan(FALSE, Region(0, 0, NoMount), <<>>)

Bundling(boot, images, points) ==
  Plan(TRUE, WholeFile(boot, NoMount),
       [i \in DOMAIN images |-> WholeFile(images[i], MountOf(points[i], i - 1))])

OldBoot(file) == Region(0, file.slots[1].offset, NoMount)

OldSlots(file) ==
  [i \in DOMAIN file.slots |->
     Region(file.slots[i].offset, file.slots[i].size, file.slots[i].mount)]

Drop(s, k) == SubSeq(s, 1, k - 1) \o SubSeq(s, k + 1, Len(s))

\* bug: the new image comes before those that are there
InsertingFirst(file, image, mount) ==
  Plan(FALSE, OldBoot(file), <<WholeFile(image, mount)>> \o OldSlots(file))

Inserting(file, image, mount) ==
  Plan(FALSE, OldBoot(file), Append(OldSlots(file), WholeFile(image, mount)))

\* bug: the bootstrap is taken to reach up to the first slot that stays
RemovingUpTo(file, k) ==
  LET rest == Drop(OldSlots(file), k)
  IN  Plan(FALSE, Region(0, rest[1].offset, NoMount), rest)

Removing(file, k) == Plan(FALSE, OldBoot(file), Drop(OldSlots(file), k))

SettingRuntime(file, runtime) ==
  Plan(FALSE, WholeFile(runtime, NoMount), OldSlots(file))

\* The source's bytes can be opened, and start inside the file.
Source(src) == IF src.from = Package THEN pkg.bytes ELSE PartBytes(src.from)
CanOpen(src) == /\ src.from = Package => pkg # Absent
                /\ src.offset <= Len(Source(src))
Streamed(src) == Cut(Source(src), src.offset, src.length)

-----------------------------------------------------------------------------
(* What a package holds: its parts, wherever they lie.                     *)

Contents(file) ==
  [boot |-> SubSeq(file.bytes, 1, file.slots[1].offset),
   slots |-> [i \in DOMAIN file.slots |->
     LET s == file.slots[i]
     IN  [mount |-> s.mount, bytes |-> SubSeq(file.bytes, s.offset + 1, s.offset + s.size)]]]

Nothing == [boot |-> <<>>, slots |-> <<>>]
Bundled(boot, images, points) ==
  [boot |-> PartBytes(boot),
   slots |-> [i \in DOMAIN images |->
     [mount |-> MountOf(points[i], i - 1), bytes |-> PartBytes(images[i])]]]
Inserted(c, image, mount) ==
  [c EXCEPT !.slots = Append(@, [mount |-> mount, bytes |-> PartBytes(image)])]
Removed(c, k) == [c EXCEPT !.slots = Drop(@, k)]
RuntimeSet(c, runtime) == [c EXCEPT !.boot = PartBytes(runtime)]

-----------------------------------------------------------------------------
(* The edits.                                                              *)

\* The manifest is read, the edit planned, the temporary file created.
Begin(e, p, c) ==
  /\ pc[e] = "idle"
  /\ edits < MaxEdits
  /\ pc' = [pc EXCEPT ![e] = "boot"]
  /\ plan' = [plan EXCEPT ![e] = p]
  /\ draft' = [draft EXCEPT ![e] = Absent]
  /\ edits' = edits + 1
  /\ want' = [want EXCEPT ![e] = c]
  /\ moved' = [moved EXCEPT ![e] = FALSE]

\* The output is truncated first.  Whoever finds it before its trailer is
\* there finds no package.
BundleImages(e, boot, images, points) ==
  /\ \A x \in Editors : pc[x] = "idle"
  /\ Begin(e, Bundling(boot, images, points), Bundled(boot, images, points))
  /\ pkg' = Absent

\* bug: the limit is looked at before the image is counted
InsertBeyond(e, image, point) ==
  /\ Probed(pkg)
  /\ Len(pkg.slots) <= MaxSlots
  /\ LET mount == MountOf(point, Len(pkg.slots))
     IN  Begin(e, Inserting(pkg, image, mount), Inserted(Contents(pkg), image, mount))
  /\ UNCHANGED pkg

InsertImage(e, image, point) ==
  /\ Probed(pkg)
  /\ Len(pkg.slots) < MaxSlots
  /\ LET mount == MountOf(point, Len(pkg.slots))
     IN  Begin(e, Inserting(pkg, image, mount), Inserted(Contents(pkg), image, mount))
  /\ UNCHANGED pkg

RemoveImage(e, k) ==
  /\ Probed(pkg)
  /\ k \in DOMAIN pkg.slots
  /\ Len(pkg.slots) > 1
  /\ Begin(e, Removing(pkg, k), Removed(Contents(pkg), k))
  /\ UNCHANGED pkg

SetRuntime(e, runtime) ==
  /\ Probed(pkg)
  /\ Begin(e, SettingRuntime(pkg, runtime), RuntimeSet(Contents(pkg), runtime))
  /\ UNCHANGED pkg

Goto(e, next) == pc' = [pc EXCEPT ![e] = next]

StreamBoot(e) ==
  /\ pc[e] = "boot"
  /\ CanOpen(plan[e].boot)
  /\ draft' = [draft EXCEPT ![e] = Booted(Streamed(plan[e].boot))]
  /\ Goto(e, "slots")
  /\ UNCHANGED <<pkg, plan, edits, want, moved>>

\* bug: the manifest gets the size planned, not the bytes written
StreamPlanned(e) ==
  LET src == Head(plan[e].slots)
      file == WithSlot(draft[e], Streamed(src), src.mount)
  IN  /\ pc[e] = "slots" /\ plan[e].slots # <<>> /\ CanOpen(src)
      /\ draft' = [draft EXCEPT ![e] =
                      [file EXCEPT !.slots[Len(file.slots)].size = src.length]]
      /\ plan' = [plan EXCEPT ![e].slots = Tail(@)]
      /\ UNCHANGED <<pkg, pc, edits, want, moved>>

StreamSlot(e) ==
  LET src == Head(plan[e].slots)
  IN  /\ pc[e] = "slots"
      /\ plan[e].slots # <<>>
      /\ CanOpen(src)
      /\ draft' = [draft EXCEPT ![e] = WithSlot(@, Streamed(src), src.mount)]
      /\ plan' = [plan EXCEPT ![e].slots = Tail(@)]
      /\ UNCHANGED <<pkg, pc, edits, want, moved>>

WriteTrailer(e) ==
  /\ pc[e] = "slots"
  /\ plan[e].slots = <<>>
  /\ ~plan[e].bundles
  /\ draft' = [draft EXCEPT ![e] = Sealed(@)]
  /\ Goto(e, "rename")
  /\ UNCHANGED <<pkg, plan, edits, want, moved>>

\* The process ends, and with it all it knew.  A temporary file it may leave
\* is truncated before anything else is done to it.
Ends(e) ==
  /\ Goto(e, "idle")
  /\ plan' = [plan EXCEPT ![e] = NoPlan]
  /\ draft' = [draft EXCEPT ![e] = Absent]
  /\ want' = [want EXCEPT ![e] = Nothing]
  /\ UNCHANGED edits

\* The package is another one for every other editor at work.
Moved(e) == moved' = [x \in Editors |-> moved[x] \/ (x # e /\ pc[x] # "idle")]

\* The first rename, or the second, puts the draft in place.
Rename(e) ==
  /\ pc[e] \in {"rename", "rename again"}
  /\ pkg' = draft[e]
  /\ Moved(e)
  /\ Ends(e)

\* Bundling has written to the package's path.
FinishBundle(e) ==
  /\ pc[e] = "slots"
  /\ plan[e].slots = <<>>
  /\ plan[e].bundles
  /\ pkg' = Sealed(draft[e])
  /\ Moved(e)
  /\ Ends(e)

\* It fails: the package is removed, and whether that worked is not looked at.
RemoveOriginal(e) ==
  /\ pc[e] = "rename"
  /\ Goto(e, "rename again")
  /\ \/ pkg' = Absent /\ Moved(e)
     \/ UNCHANGED <<pkg, moved>>
  /\ UNCHANGED <<plan, draft, edits, want>>

\* A part cannot be streamed, the trailer not written, or the second rename
\* fails: the temporary file is removed and the edit reports an error.
GiveUp(e) ==
  /\ pc[e] \in {"boot", "slots", "rename again"}
  /\ Ends(e)
  /\ UNCHANGED <<pkg, moved>>

\* The process dies.
Crash(e) ==
  /\ pc[e] # "idle"
  /\ Ends(e)
  /\ UNCHANGED <<pkg, moved>>

Points == Mounts \cup {Empty}

Init ==
  /\ pkg = Absent
  /\ pc = [e \in Editors |-> "idle"]
  /\ plan = [e \in Editors |-> NoPlan]
  /\ draft = [e \in Editors |-> Absent]
  /\ edits = 0
  /\ want = [e \in Editors |-> Nothing]
  /\ moved = [e \in Editors |-> FALSE]

Next ==
  \E e \in Editors :
    \/ \E boot \in Runtimes, n \in 1 .. MaxSlots :
         \E images \in [1 .. n -> Images], points \in [1 .. n -> Points] :
           BundleImages(e, boot, images, points)
    \/ \E image \in Images, point \in Points : InsertImage(e, image, point)
    \/ \E k \in 1 .. MaxSlots : RemoveImage(e, k)
    \/ \E runtime \in Runtimes : SetRuntime(e, runtime)
    \/ StreamBoot(e)
    \/ StreamSlot(e)
    \/ WriteTrailer(e)
    \/ Rename(e)
    \/ FinishBundle(e)
    \/ RemoveOriginal(e)
    \/ GiveUp(e)
    \/ Crash(e)

Spec == Init /\ [][Next]_vars

-----------------------------------------------------------------------------
(* Properties.                                                             *)

Cell == (Parts \X Nat) \cup {Trailer}
SlotMount == {Given(point) : point \in Points} \cup {ByDefault(i) : i \in 0 .. MaxSlots}
SlotType == [offset : Nat, size : Nat, mount : SlotMount]
FileType == [bytes : Seq(Cell), slots : Seq(SlotType)]
SourceType == [from : Parts \cup {Package}, offset : Nat, length : Nat, mount : SlotMount]
PlanType == [bundles : BOOLEAN, boot : SourceType, slots : Seq(SourceType)]

\* Files, plans and places an editor can be at.  While an editor is at work,
\* what it has streamed and what it has yet to stream make a package of one
\* slot at least and of no more than a reader takes, the limits the four
\* entry points check (package.cpp:834, 1125, 1157).
TypeOK ==
  /\ pkg \in FileType
  /\ pc \in [Editors -> {"idle", "boot", "slots", "rename", "rename again"}]
  /\ plan \in [Editors -> PlanType]
  /\ draft \in [Editors -> FileType]
  /\ \A e \in Editors :
       pc[e] # "idle" => Len(draft[e].slots) + Len(plan[e].slots) \in 1 .. MaxSlots

\* A file that ends in a trailer, whose manifest describes it: between the
\* bootstrap and the trailer one slot follows the other up to the end.
SlotEnd(slot) == slot.offset + slot.size
Contiguous(slots, end) ==
  /\ \A i \in 1 .. Len(slots) - 1 : slots[i + 1].offset = SlotEnd(slots[i])
  /\ slots # <<>> => SlotEnd(slots[Len(slots)]) = end
Fits(file) ==
  /\ Len(file.slots) \in 1 .. MaxSlots
  /\ Len(file.bytes) > 0
  /\ Contiguous(file.slots, Len(file.bytes) - 1)
  /\ file.bytes[Len(file.bytes)] = Trailer

\* Whatever editors race, crash or fail: the manifest at the package's path
\* describes the very file it ends, its slots cover all that is between the
\* bootstrap and the trailer in their order (package.h:82-83), and there are
\* no more than a reader takes.
ManifestFits == pkg # Absent => Fits(pkg)

\* When no other editor replaced the package in between, the file that an edit
\* puts in place holds exactly the parts of the one it read, with the one change
\* asked for.  (That some file is in place does not hold: an edit that removed
\* the original and then dies or gives up, package.cpp:339-345, leaves none.)
EditIsExact ==
  [][\A e \in Editors :
       (Rename(e) \/ FinishBundle(e)) /\ ~moved[e] => Contents(pkg') = want[e]]_vars

\* package.h:119, "empty = default mount for the new slot index": slots only
\* ever move down, so a slot that was left to the default one has the number of
\* its place, or a higher one if it has moved down since.  Of two such slots at
\* one mount point the first has thus moved down, which it does only when an
\* image before it is removed.  (Neither package_insert_image nor assemble
\* compares mount points: after a removal the default one may be taken, and a
\* caller may give one that is, a default one or not.)
DefaultMountsMoveDown ==
  \A k \in DOMAIN pkg.slots : \A n \in 0 .. MaxSlots :
    pkg.slots[k].mount = ByDefault(n) => n + 1 >= k
=============================================================================
