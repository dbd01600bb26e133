---------------------------- MODULE PackageProofs ----------------------------
(***************************************************************************)
(* For any number of editors and edits, files of any sizes and any limit   *)
(* of slots: a package in place always has a manifest that fits its file;  *)
(* an edit that no other editor overtook is exact; and a slot's default    *)
(* mount point has the number of its place or a higher one.                *)
(***************************************************************************)
EXTENDS Package, SequenceTheorems, TLAPS

\* What holds of a draft at each place of the edit.
DraftsFit ==
  \A e \in Editors :
    /\ pc[e] = "boot" => draft[e].slots = <<>>
    /\ pc[e] = "slots" => Contiguous(draft[e].slots, Len(draft[e].bytes))
    /\ pc[e] \in {"rename", "rename again"} => Fits(draft[e])

IndInv == TypeOK /\ ManifestFits /\ DraftsFit

-----------------------------------------------------------------------------
(* Files and sources.                                                      *)

LEMMA AbsentType == Absent \in FileType /\ Len(Absent.slots) = 0
BY EmptySeq DEF Absent, FileType

LEMMA PartType ==
  ASSUME NEW part \in Parts
  PROVE  PartBytes(part) \in Seq(Cell)
<1>1. Size[part] \in Nat
  BY PartAssumption
<1>2. \A k \in 1 .. Size[part] : <<part, k>> \in Cell
  BY <1>1 DEF Cell
<1> QED
  BY <1>1, <1>2 DEF PartBytes

LEMMA RegionType ==
  ASSUME NEW offset \in Nat, NEW length \in Nat, NEW mount \in SlotMount
  PROVE  Region(offset, length, mount) \in SourceType
BY DEF Region, SourceType, Package

LEMMA WholeFileType ==
  ASSUME NEW part \in Parts, NEW mount \in SlotMount
  PROVE  WholeFile(part, mount) \in SourceType
BY PartAssumption DEF WholeFile, SourceType

LEMMA NoMountType == NoMount \in SlotMount
BY DEF SlotMount, NoMount, Points

LEMMA MountOfType ==
  ASSUME NEW point \in Points, NEW index \in 0 .. MaxSlots
  PROVE  MountOf(point, index) \in SlotMount
BY DEF MountOf, SlotMount

LEMMA CutType ==
  ASSUME NEW bytes \in Seq(Cell), NEW offset \in Nat, NEW length \in Nat
  PROVE  Cut(bytes, offset, length) \in Seq(Cell)
<1> DEFINE end == Lesser(offset + length, Len(bytes))
<1>1. Len(bytes) \in Nat
  BY LenProperties
<1>2. end \in Nat /\ end <= Len(bytes)
  BY <1>1 DEF Lesser
<1>3. \A i \in offset + 1 .. end : bytes[i] \in Cell
  BY <1>1, <1>2, ElementOfSeq
<1>4. offset + 1 \in Int /\ end \in Int
  BY <1>2
<1> HIDE DEF end
<1>5. SubSeq(bytes, offset + 1, end) \in Seq(Cell)
  BY <1>3, <1>4, SubSeqProperties
<1> QED
  BY <1>5 DEF Cut, end

LEMMA StreamedType ==
  ASSUME pkg \in FileType, NEW src \in SourceType
  PROVE  Streamed(src) \in Seq(Cell)
<1>1. Source(src) \in Seq(Cell)
  BY PartType DEF Source, SourceType, FileType
<1> QED
  BY <1>1, CutType DEF Streamed, SourceType

\* The ranges of a manifest's slots, one for one.
LEMMA OldSlotsType ==
  ASSUME NEW file \in FileType
  PROVE  /\ OldSlots(file) \in Seq(SourceType)
         /\ Len(OldSlots(file)) = Len(file.slots)
<1>1. /\ Len(file.slots) \in Nat
      /\ DOMAIN file.slots = 1 .. Len(file.slots)
  BY LenProperties DEF FileType
<1>2. \A i \in 1 .. Len(file.slots) : file.slots[i] \in SlotType
  BY ElementOfSeq DEF FileType
<1>3. \A i \in 1 .. Len(file.slots) :
        Region(file.slots[i].offset, file.slots[i].size, file.slots[i].mount) \in SourceType
  BY <1>2, RegionType DEF SlotType
<1> QED
  BY <1>1, <1>3 DEF OldSlots

LEMMA OldBootType ==
  ASSUME NEW file \in FileType, Len(file.slots) > 0
  PROVE  OldBoot(file) \in SourceType
<1>1. file.slots[1] \in SlotType
  BY ElementOfSeq, LenProperties DEF FileType
<1> QED
  BY <1>1, RegionType, NoMountType DEF OldBoot, SlotType

LEMMA DropType ==
  ASSUME NEW S, NEW s \in Seq(S), NEW k \in 1 .. Len(s)
  PROVE  Drop(s, k) \in Seq(S) /\ Len(Drop(s, k)) = Len(s) - 1
<1> DEFINE before == SubSeq(s, 1, k - 1)
           after == SubSeq(s, k + 1, Len(s))
<1>1. Len(s) \in Nat /\ \A i \in 1 .. Len(s) : s[i] \in S
  BY LenProperties, ElementOfSeq
<1>2. before \in Seq(S) /\ Len(before) = k - 1
  <2>1. 1 \in Int /\ k - 1 \in Int /\ \A i \in 1 .. k - 1 : s[i] \in S
    BY <1>1
  <2> QED
    BY <2>1, SubSeqProperties
<1>3. after \in Seq(S) /\ Len(after) = Len(s) - k
  <2>1. k + 1 \in Int /\ Len(s) \in Int /\ \A i \in k + 1 .. Len(s) : s[i] \in S
    BY <1>1
  <2> QED
    BY <1>1, <2>1, SubSeqProperties
<1>4. Drop(s, k) = before \o after
  BY DEF Drop
<1> HIDE DEF before, after
<1>5. before \o after \in Seq(S) /\ Len(before \o after) = Len(before) + Len(after)
  BY <1>2, <1>3, ConcatProperties
<1> QED
  BY <1>1, <1>2, <1>3, <1>4, <1>5

-----------------------------------------------------------------------------
(* Writing the draft keeps its slots side by side.                         *)

LEMMA WithSlotFits ==
  ASSUME NEW file \in FileType, NEW bytes \in Seq(Cell), NEW mount \in SlotMount,
         Contiguous(file.slots, Len(file.bytes))
  PROVE  LET new == WithSlot(file, bytes, mount)
         IN  /\ new \in FileType
             /\ Len(new.slots) = Len(file.slots) + 1
             /\ Contiguous(new.slots, Len(new.bytes))
<1> DEFINE new == WithSlot(file, bytes, mount)
           slot == [offset |-> Len(file.bytes), size |-> Len(bytes), mount |-> mount]
<1>1. /\ file.bytes \in Seq(Cell)
      /\ Len(file.bytes) \in Nat
      /\ Len(bytes) \in Nat
      /\ file.slots \in Seq(SlotType)
      /\ Len(file.slots) \in Nat
  BY LenProperties DEF FileType
<1>2. slot \in SlotType
  BY <1>1 DEF SlotType
<1>3. /\ file.bytes \o bytes \in Seq(Cell)
      /\ Len(file.bytes \o bytes) = Len(file.bytes) + Len(bytes)
  BY <1>1, ConcatProperties
<1> HIDE DEF slot
<1>4. /\ Append(file.slots, slot) \in Seq(SlotType)
      /\ Len(Append(file.slots, slot)) = Len(file.slots) + 1
      /\ \A i \in 1 .. Len(file.slots) : Append(file.slots, slot)[i] = file.slots[i]
      /\ Append(file.slots, slot)[Len(file.slots) + 1] = slot
  BY <1>1, <1>2, AppendProperties
<1>5. new = [bytes |-> file.bytes \o bytes, slots |-> Append(file.slots, slot)]
  BY DEF WithSlot, slot
<1>6. new \in FileType
  BY <1>3, <1>4, <1>5 DEF FileType
<1>7. SlotEnd(slot) = Len(file.bytes) + Len(bytes)
  BY DEF SlotEnd, slot
<1>8. ASSUME NEW i \in 1 .. Len(file.slots)
      PROVE  new.slots[i + 1].offset = SlotEnd(new.slots[i])
  <2>1. CASE i = Len(file.slots)
    <3>1. file.slots # <<>>
      BY <1>1, <2>1, EmptySeq
    <3> QED
      BY <1>1, <1>4, <1>5, <2>1, <3>1 DEF Contiguous, slot
  <2>2. CASE i # Len(file.slots)
    <3>1. i \in 1 .. Len(file.slots) - 1 /\ i + 1 \in 1 .. Len(file.slots)
      BY <1>1, <2>2
    <3> QED
      BY <1>4, <1>5, <3>1 DEF Contiguous
  <2> QED
    BY <2>1, <2>2
<1>9. Contiguous(new.slots, Len(new.bytes))
  BY <1>1, <1>3, <1>4, <1>5, <1>7, <1>8 DEF Contiguous
<1> QED
  BY <1>4, <1>5, <1>6, <1>9

LEMMA SealedFits ==
  ASSUME NEW file \in FileType, Len(file.slots) \in 1 .. MaxSlots,
         Contiguous(file.slots, Len(file.bytes))
  PROVE  Sealed(file) \in FileType /\ Sealed(file).slots = file.slots /\ Fits(Sealed(file))
<1>1. file.bytes \in Seq(Cell) /\ Len(file.bytes) \in Nat
  BY LenProperties DEF FileType
<1>2. Trailer \in Cell
  BY DEF Cell
<1> DEFINE bytes == Append(file.bytes, Trailer)
<1>3. /\ bytes \in Seq(Cell)
      /\ Len(bytes) = Len(file.bytes) + 1
      /\ bytes[Len(file.bytes) + 1] = Trailer
  BY <1>1, <1>2, AppendProperties
<1> HIDE DEF bytes
<1>4. Sealed(file) = [file EXCEPT !.bytes = bytes]
  BY DEF Sealed, bytes
<1>5. /\ Sealed(file) \in FileType
      /\ Sealed(file).bytes = bytes
      /\ Sealed(file).slots = file.slots
  BY <1>3, <1>4 DEF FileType
<1>6. Len(bytes) - 1 = Len(file.bytes) /\ Len(bytes) > 0
  BY <1>1, <1>3
<1>7. bytes[Len(bytes)] = Trailer
  BY <1>1, <1>3
<1> QED
  BY <1>5, <1>6, <1>7 DEF Fits

-----------------------------------------------------------------------------
(* Beginning an edit.                                                      *)

\* A plan of at least one slot and no more than the limit is all the
\* invariant needs of the entry points.
LEMMA BeginStep ==
  ASSUME IndInv, NEW e \in Editors, NEW p \in PlanType, NEW c,
         Len(p.slots) \in 1 .. MaxSlots, Begin(e, p, c),
         pkg' = pkg \/ pkg' = Absent
  PROVE  IndInv'
<1>1. /\ pc' = [pc EXCEPT ![e] = "boot"]
      /\ plan' = [plan EXCEPT ![e] = p]
      /\ draft' = [draft EXCEPT ![e] = Absent]
  BY DEF Begin
<1>2. Absent \in FileType /\ Len(Absent.slots) = 0 /\ Absent.slots = <<>>
  BY AbsentType DEF Absent
<1>3. /\ pkg' \in FileType
      /\ pc' \in [Editors -> {"idle", "boot", "slots", "rename", "rename again"}]
      /\ plan' \in [Editors -> PlanType]
      /\ draft' \in [Editors -> FileType]
  BY <1>1, <1>2 DEF IndInv, TypeOK
<1>4. ASSUME NEW x \in Editors
      PROVE  /\ pc'[x] # "idle" => Len(draft'[x].slots) + Len(plan'[x].slots) \in 1 .. MaxSlots
             /\ pc'[x] = "boot" => draft'[x].slots = <<>>
             /\ pc'[x] = "slots" => Contiguous(draft'[x].slots, Len(draft'[x].bytes))
             /\ pc'[x] \in {"rename", "rename again"} => Fits(draft'[x])
  <2>1. CASE x = e
    <3>1. pc'[e] = "boot" /\ plan'[e] = p /\ draft'[e] = Absent
      BY <1>1 DEF IndInv, TypeOK
    <3>2. Len(draft'[e].slots) = 0 /\ draft'[e].slots = <<>>
      BY <1>2, <3>1
    <3>3. Len(draft'[e].slots) + Len(plan'[e].slots) \in 1 .. MaxSlots
      BY <3>1, <3>2
    <3> QED
      BY <2>1, <3>1, <3>2, <3>3
  <2>2. CASE x # e
    <3>1. pc'[x] = pc[x] /\ plan'[x] = plan[x] /\ draft'[x] = draft[x]
      BY <1>1, <2>2 DEF IndInv, TypeOK
    <3> QED
      BY <3>1 DEF IndInv, TypeOK, DraftsFit
  <2> QED
    BY <2>1, <2>2
<1>5. ManifestFits'
  BY DEF IndInv, ManifestFits
<1> QED
  BY <1>3, <1>4, <1>5 DEF IndInv, TypeOK, DraftsFit

LEMMA BundleStep ==
  ASSUME IndInv, NEW e \in Editors, NEW boot \in Runtimes, NEW n \in 1 .. MaxSlots,
         NEW images \in [1 .. n -> Images], NEW points \in [1 .. n -> Points],
         BundleImages(e, boot, images, points)
  PROVE  IndInv'
<1> DEFINE slots == [i \in 1 .. n |-> WholeFile(images[i], MountOf(points[i], i - 1))]
<1>1. ASSUME NEW i \in 1 .. n
      PROVE  WholeFile(images[i], MountOf(points[i], i - 1)) \in SourceType
  <2>1. images[i] \in Parts
    BY DEF Parts
  <2>2. MountOf(points[i], i - 1) \in SlotMount
    <3>1. i - 1 \in 0 .. MaxSlots
      BY PartAssumption
    <3> QED
      BY <3>1, MountOfType
  <2> QED
    BY <2>1, <2>2, WholeFileType
<1>2. slots \in Seq(SourceType) /\ Len(slots) = n
  <2>1. n \in Nat
    BY PartAssumption
  <2> QED
    BY <1>1, <2>1
<1>3. WholeFile(boot, NoMount) \in SourceType
  BY WholeFileType, NoMountType DEF Parts
<1>4. Bundling(boot, images, points) = Plan(TRUE, WholeFile(boot, NoMount), slots)
  BY DEF Bundling
<1> HIDE DEF slots
<1>5. /\ Bundling(boot, images, points) \in PlanType
      /\ Len(Bundling(boot, images, points).slots) \in 1 .. MaxSlots
  BY <1>2, <1>3, <1>4 DEF Plan, PlanType
<1> QED
  BY <1>5, BeginStep DEF BundleImages

LEMMA InsertStep ==
  ASSUME IndInv, NEW e \in Editors, NEW image \in Images,
         NEW point \in Points, InsertImage(e, image, point)
  PROVE  IndInv'
<1> DEFINE mount == MountOf(point, Len(pkg.slots))
           new == WholeFile(image, mount)
           slots == Append(OldSlots(pkg), new)
<1>1. pkg \in FileType /\ pkg.slots \in Seq(SlotType) /\ Len(pkg.slots) \in Nat
  BY LenProperties DEF IndInv, TypeOK, FileType
<1>2. Len(pkg.slots) > 0 /\ Len(pkg.slots) < MaxSlots
  BY <1>1, EmptySeq DEF InsertImage, Probed
<1>3. mount \in SlotMount
  <2>1. Len(pkg.slots) \in 0 .. MaxSlots
    BY <1>1, <1>2, PartAssumption
  <2> QED
    BY <2>1, MountOfType
<1> HIDE DEF mount
<1>4. new \in SourceType
  BY <1>3, WholeFileType DEF Parts
<1> HIDE DEF new
<1>5. slots \in Seq(SourceType) /\ Len(slots) = Len(pkg.slots) + 1
  BY <1>1, <1>4, OldSlotsType, AppendProperties
<1>6. Inserting(pkg, image, mount) = Plan(FALSE, OldBoot(pkg), slots)
  BY DEF Inserting, new
<1> HIDE DEF slots
<1>7. /\ Inserting(pkg, image, mount) \in PlanType
      /\ Len(Inserting(pkg, image, mount).slots) \in 1 .. MaxSlots
  BY <1>1, <1>2, <1>5, <1>6, OldBootType, PartAssumption DEF Plan, PlanType
<1> QED
  BY <1>7, BeginStep DEF InsertImage, mount

LEMMA RemoveStep ==
  ASSUME IndInv, NEW e \in Editors, NEW k \in 1 .. MaxSlots, RemoveImage(e, k)
  PROVE  IndInv'
<1> DEFINE slots == Drop(OldSlots(pkg), k)
<1>1. pkg \in FileType /\ Len(pkg.slots) \in Nat /\ DOMAIN pkg.slots = 1 .. Len(pkg.slots)
  BY LenProperties DEF IndInv, TypeOK, FileType
<1>2. Len(pkg.slots) > 1 /\ k \in 1 .. Len(pkg.slots) /\ Probed(pkg)
  BY <1>1 DEF RemoveImage
<1>3. Len(pkg.slots) <= MaxSlots
  BY <1>2, PartAssumption DEF IndInv, ManifestFits, Fits, Probed, Absent
<1>4. slots \in Seq(SourceType) /\ Len(slots) = Len(pkg.slots) - 1
  BY <1>1, <1>2, OldSlotsType, DropType
<1>5. Removing(pkg, k) = Plan(FALSE, OldBoot(pkg), slots)
  BY DEF Removing
<1> HIDE DEF slots
<1>6. Removing(pkg, k) \in PlanType /\ Len(Removing(pkg, k).slots) \in 1 .. MaxSlots
  BY <1>1, <1>2, <1>3, <1>4, <1>5, OldBootType, PartAssumption DEF Plan, PlanType
<1> QED
  BY <1>6, BeginStep DEF RemoveImage

LEMMA SetRuntimeStep ==
  ASSUME IndInv, NEW e \in Editors, NEW runtime \in Runtimes, SetRuntime(e, runtime)
  PROVE  IndInv'
<1>1. pkg \in FileType /\ Probed(pkg)
  BY DEF IndInv, TypeOK, SetRuntime
<1>2. Len(pkg.slots) \in 1 .. MaxSlots
  BY <1>1 DEF IndInv, ManifestFits, Fits, Probed, Absent
<1>3. WholeFile(runtime, NoMount) \in SourceType
  BY WholeFileType, NoMountType DEF Parts
<1>4. /\ SettingRuntime(pkg, runtime) \in PlanType
      /\ Len(SettingRuntime(pkg, runtime).slots) \in 1 .. MaxSlots
  BY <1>1, <1>2, <1>3, OldSlotsType DEF SettingRuntime, Plan, PlanType
<1> QED
  BY <1>4, BeginStep DEF SetRuntime

-----------------------------------------------------------------------------
(* The other steps.                                                        *)

\* A step that leaves one editor in a sound state and the others alone.
LEMMA EditorStep ==
  ASSUME IndInv, NEW e \in Editors,
         NEW next \in {"idle", "boot", "slots", "rename", "rename again"},
         NEW p \in PlanType, NEW file \in FileType,
         pc' = [pc EXCEPT ![e] = next],
         plan' = [plan EXCEPT ![e] = p],
         draft' = [draft EXCEPT ![e] = file],
         next # "idle" => Len(file.slots) + Len(p.slots) \in 1 .. MaxSlots,
         next # "boot",
         next = "slots" => Contiguous(file.slots, Len(file.bytes)),
         next \in {"rename", "rename again"} => Fits(file),
         pkg' \in FileType, ManifestFits'
  PROVE  IndInv'
<1>1. /\ pc' \in [Editors -> {"idle", "boot", "slots", "rename", "rename again"}]
      /\ plan' \in [Editors -> PlanType]
      /\ draft' \in [Editors -> FileType]
  BY DEF IndInv, TypeOK
<1>2. ASSUME NEW x \in Editors
      PROVE  /\ pc'[x] # "idle" => Len(draft'[x].slots) + Len(plan'[x].slots) \in 1 .. MaxSlots
             /\ pc'[x] = "boot" => draft'[x].slots = <<>>
             /\ pc'[x] = "slots" => Contiguous(draft'[x].slots, Len(draft'[x].bytes))
             /\ pc'[x] \in {"rename", "rename again"} => Fits(draft'[x])
  <2>1. CASE x = e
    <3>1. pc'[e] = next /\ plan'[e] = p /\ draft'[e] = file
      BY DEF IndInv, TypeOK
    <3> QED
      BY <2>1, <3>1
  <2>2. CASE x # e
    <3>1. pc'[x] = pc[x] /\ plan'[x] = plan[x] /\ draft'[x] = draft[x]
      BY <2>2 DEF IndInv, TypeOK
    <3> QED
      BY <3>1 DEF IndInv, TypeOK, DraftsFit
  <2> QED
    BY <2>1, <2>2
<1> QED
  BY <1>1, <1>2 DEF IndInv, TypeOK, DraftsFit

LEMMA StreamBootStep ==
  ASSUME IndInv, NEW e \in Editors, StreamBoot(e)
  PROVE  IndInv'
<1> DEFINE bytes == Streamed(plan[e].boot)
           file == Booted(bytes)
<1>1. /\ pc[e] = "boot" /\ plan[e] \in PlanType /\ plan[e].boot \in SourceType
      /\ Len(draft[e].slots) + Len(plan[e].slots) \in 1 .. MaxSlots
      /\ draft[e].slots = <<>>
      /\ pkg \in FileType
  BY DEF StreamBoot, IndInv, TypeOK, DraftsFit, PlanType
<1>2. bytes \in Seq(Cell)
  BY <1>1, StreamedType
<1> HIDE DEF bytes
<1>3. <<>> \in Seq(SlotType) /\ Len(<<>>) = 0
  BY EmptySeq
<1>4. file \in FileType /\ file.slots = <<>> /\ Contiguous(file.slots, Len(file.bytes))
  <2>1. file \in FileType /\ file.slots = <<>>
    BY <1>2, <1>3 DEF Booted, FileType
  <2> QED
    BY <1>3, <2>1 DEF Contiguous
<1>5. Len(file.slots) + Len(plan[e].slots) \in 1 .. MaxSlots
  BY <1>1, <1>4
<1>6. /\ pc' = [pc EXCEPT ![e] = "slots"]
      /\ plan' = [plan EXCEPT ![e] = plan[e]]
      /\ draft' = [draft EXCEPT ![e] = file]
      /\ pkg' = pkg
  BY DEF StreamBoot, Goto, IndInv, TypeOK, bytes
<1>7. ManifestFits' /\ pkg' \in FileType
  BY <1>6 DEF IndInv, TypeOK, ManifestFits
<1> HIDE DEF file
<1> QED
  BY <1>1, <1>4, <1>5, <1>6, <1>7, EditorStep

LEMMA StreamSlotStep ==
  ASSUME IndInv, NEW e \in Editors, StreamSlot(e)
  PROVE  IndInv'
<1> DEFINE src == Head(plan[e].slots)
           bytes == Streamed(src)
           file == WithSlot(draft[e], bytes, src.mount)
           p == [plan[e] EXCEPT !.slots = Tail(@)]
<1>1. /\ pc[e] = "slots" /\ plan[e].slots # <<>>
      /\ plan[e] \in PlanType /\ plan[e].slots \in Seq(SourceType)
      /\ Len(draft[e].slots) + Len(plan[e].slots) \in 1 .. MaxSlots
      /\ Contiguous(draft[e].slots, Len(draft[e].bytes))
      /\ draft[e] \in FileType /\ pkg \in FileType
  BY DEF StreamSlot, IndInv, TypeOK, DraftsFit, PlanType
<1>2. /\ src \in SourceType
      /\ Tail(plan[e].slots) \in Seq(SourceType)
      /\ Len(Tail(plan[e].slots)) = Len(plan[e].slots) - 1
  BY <1>1, HeadTailProperties
<1>3. /\ pc' = [pc EXCEPT ![e] = "slots"]
      /\ plan' = [plan EXCEPT ![e] = p]
      /\ draft' = [draft EXCEPT ![e] = file]
      /\ pkg' = pkg
  BY <1>1 DEF StreamSlot, IndInv, TypeOK
<1>4. p \in PlanType /\ p.slots = Tail(plan[e].slots)
  BY <1>1, <1>2 DEF PlanType
<1> HIDE DEF p
<1>5. bytes \in Seq(Cell) /\ src.mount \in SlotMount
  BY <1>1, <1>2, StreamedType DEF SourceType
<1> HIDE DEF src, bytes
<1>6. /\ file \in FileType
      /\ Len(file.slots) = Len(draft[e].slots) + 1
      /\ Contiguous(file.slots, Len(file.bytes))
  BY <1>1, <1>5, WithSlotFits
<1> HIDE DEF file
<1>7. Len(file.slots) + Len(p.slots) \in 1 .. MaxSlots
  <2>1. Len(draft[e].slots) \in Nat /\ Len(plan[e].slots) \in Nat
    BY <1>1, LenProperties DEF FileType
  <2>2. Len(p.slots) = Len(plan[e].slots) - 1 /\ Len(p.slots) \in Nat
    BY <1>2, <1>4, LenProperties
  <2>3. \A a, b \in Nat : a + b \in 1 .. MaxSlots => (a + 1) + (b - 1) \in 1 .. MaxSlots
    BY PartAssumption
  <2>4. (Len(draft[e].slots) + 1) + (Len(plan[e].slots) - 1) \in 1 .. MaxSlots
    BY <1>1, <2>1, <2>3
  <2> QED
    BY <1>6, <2>2, <2>4
<1>8. ManifestFits' /\ pkg' \in FileType
  BY <1>1, <1>3 DEF IndInv, ManifestFits
<1> QED
  BY <1>3, <1>4, <1>6, <1>7, <1>8, EditorStep

\* A draft with all its slots is sealed into a file that fits.
LEMMA SealedDraft ==
  ASSUME IndInv, NEW e \in Editors, pc[e] = "slots", plan[e].slots = <<>>
  PROVE  /\ Sealed(draft[e]) \in FileType
         /\ Sealed(draft[e]).slots = draft[e].slots
         /\ Fits(Sealed(draft[e]))
<1>1. /\ draft[e] \in FileType /\ draft[e].slots \in Seq(SlotType)
      /\ Len(draft[e].slots) + Len(plan[e].slots) \in 1 .. MaxSlots
      /\ Contiguous(draft[e].slots, Len(draft[e].bytes))
  BY DEF IndInv, TypeOK, DraftsFit, FileType
<1>2. Len(plan[e].slots) = 0 /\ Len(draft[e].slots) \in Nat
  BY <1>1, EmptySeq, LenProperties
<1>3. Len(draft[e].slots) \in 1 .. MaxSlots
  BY <1>1, <1>2
<1> QED
  BY <1>1, <1>3, SealedFits

LEMMA TrailerStep ==
  ASSUME IndInv, NEW e \in Editors, WriteTrailer(e)
  PROVE  IndInv'
<1> DEFINE file == Sealed(draft[e])
<1>1. /\ pc[e] = "slots" /\ plan[e].slots = <<>> /\ plan[e] \in PlanType
      /\ Len(draft[e].slots) + Len(plan[e].slots) \in 1 .. MaxSlots
  BY DEF WriteTrailer, IndInv, TypeOK
<1>2. file \in FileType /\ file.slots = draft[e].slots /\ Fits(file)
  BY <1>1, SealedDraft
<1>3. /\ pc' = [pc EXCEPT ![e] = "rename"]
      /\ plan' = [plan EXCEPT ![e] = plan[e]]
      /\ draft' = [draft EXCEPT ![e] = file]
      /\ pkg' = pkg
  BY DEF WriteTrailer, Goto, IndInv, TypeOK
<1> HIDE DEF file
<1>4. ManifestFits' /\ pkg' \in FileType
  BY <1>3 DEF IndInv, TypeOK, ManifestFits
<1> QED
  BY <1>1, <1>2, <1>3, <1>4, EditorStep

\* An edit may end anywhere, if it leaves a package that fits.
LEMMA EndsStep ==
  ASSUME IndInv, NEW e \in Editors, Ends(e), pkg' \in FileType, pkg' # Absent => Fits(pkg')
  PROVE  IndInv'
<1>1. NoPlan \in PlanType
  <2>1. Region(0, 0, NoMount) \in SourceType
    BY RegionType, NoMountType
  <2>2. <<>> \in Seq(SourceType)
    BY EmptySeq
  <2> QED
    BY <2>1, <2>2 DEF NoPlan, Plan, PlanType
<1>2. /\ pc' = [pc EXCEPT ![e] = "idle"]
      /\ plan' = [plan EXCEPT ![e] = NoPlan]
      /\ draft' = [draft EXCEPT ![e] = Absent]
  BY DEF Ends, Goto
<1>3. ManifestFits'
  BY DEF ManifestFits, Fits
<1> QED
  BY <1>1, <1>2, <1>3, AbsentType, EditorStep

LEMMA RenameStep ==
  ASSUME IndInv, NEW e \in Editors, Rename(e)
  PROVE  IndInv'
<1>1. pkg' \in FileType /\ Fits(pkg')
  BY DEF Rename, IndInv, TypeOK, DraftsFit
<1> QED
  BY <1>1, EndsStep DEF Rename

LEMMA FinishStep ==
  ASSUME IndInv, NEW e \in Editors, FinishBundle(e)
  PROVE  IndInv'
<1>1. pkg' \in FileType /\ Fits(pkg')
  BY SealedDraft DEF FinishBundle
<1> QED
  BY <1>1, EndsStep DEF FinishBundle

LEMMA QuitStep ==
  ASSUME IndInv, NEW e \in Editors, GiveUp(e) \/ Crash(e)
  PROVE  IndInv'
<1>1. Ends(e) /\ pkg' = pkg
  BY DEF GiveUp, Crash
<1>2. pkg' \in FileType /\ (pkg' # Absent => Fits(pkg'))
  BY <1>1 DEF IndInv, TypeOK, ManifestFits
<1> QED
  BY <1>1, <1>2, EndsStep

LEMMA RemoveOriginalStep ==
  ASSUME IndInv, NEW e \in Editors, RemoveOriginal(e)
  PROVE  IndInv'
<1>1. /\ pc[e] = "rename" /\ plan[e] \in PlanType /\ draft[e] \in FileType
      /\ Len(draft[e].slots) + Len(plan[e].slots) \in 1 .. MaxSlots
      /\ Fits(draft[e])
  BY DEF RemoveOriginal, IndInv, TypeOK, DraftsFit
<1>2. /\ pc' = [pc EXCEPT ![e] = "rename again"]
      /\ plan' = [plan EXCEPT ![e] = plan[e]]
      /\ draft' = [draft EXCEPT ![e] = draft[e]]
  BY DEF RemoveOriginal, Goto, IndInv, TypeOK
<1>3. pkg' \in FileType /\ ManifestFits'
  BY AbsentType DEF RemoveOriginal, IndInv, TypeOK, ManifestFits
<1> QED
  BY <1>1, <1>2, <1>3, EditorStep

-----------------------------------------------------------------------------
(* The theorem.                                                            *)

LEMMA InitInv == Init => IndInv
<1> SUFFICES ASSUME Init
             PROVE  IndInv
  OBVIOUS
<1>1. NoPlan \in PlanType
  <2>1. Region(0, 0, NoMount) \in SourceType
    BY RegionType, NoMountType
  <2> QED
    BY <2>1, EmptySeq DEF NoPlan, Plan, PlanType
<1> QED
  BY <1>1, AbsentType DEF Init, IndInv, TypeOK, ManifestFits, DraftsFit

LEMMA NextInv ==
  ASSUME IndInv, [Next]_vars
  PROVE  IndInv'
<1>1. ASSUME NEW e \in Editors,
             \E boot \in Runtimes, n \in 1 .. MaxSlots :
               \E images \in [1 .. n -> Images], points \in [1 .. n -> Points] :
                 BundleImages(e, boot, images, points)
      PROVE  IndInv'
  BY <1>1, BundleStep
<1>2. ASSUME NEW e \in Editors,
             \E image \in Images, point \in Points : InsertImage(e, image, point)
      PROVE  IndInv'
  BY <1>2, InsertStep
<1>3. ASSUME NEW e \in Editors, \E k \in 1 .. MaxSlots : RemoveImage(e, k)
      PROVE  IndInv'
  BY <1>3, RemoveStep
<1>4. ASSUME NEW e \in Editors, \E runtime \in Runtimes : SetRuntime(e, runtime)
      PROVE  IndInv'
  BY <1>4, SetRuntimeStep
<1>5. CASE UNCHANGED vars
  BY <1>5 DEF vars, IndInv, TypeOK, ManifestFits, DraftsFit
<1> QED
  BY <1>1, <1>2, <1>3, <1>4, <1>5, StreamBootStep, StreamSlotStep, TrailerStep,
     RenameStep, FinishStep, RemoveOriginalStep, QuitStep DEF Next

LEMMA Inductive == Spec => []IndInv
BY InitInv, NextInv, PTL DEF Spec

\* What an editor has streamed and has yet to stream is a package of a legal
\* number of slots.
THEOREM PackageTypes == Spec => []TypeOK
<1>1. IndInv => TypeOK
  BY DEF IndInv
<1> QED
  BY <1>1, Inductive, PTL

\* Whatever editors race, crash or fail, the manifest at the package's path
\* describes the file it ends: slots in order, without gaps, up to the trailer.
THEOREM ManifestAlwaysFits == Spec => []ManifestFits
<1>1. IndInv => ManifestFits
  BY DEF IndInv
<1> QED
  BY <1>1, Inductive, PTL

-----------------------------------------------------------------------------
(***************************************************************************)
(* Edits are exact.                                                        *)
(***************************************************************************)
-----------------------------------------------------------------------------
(* Pieces of sequences.                                                    *)

LEMMA PieceOfFirst ==
  ASSUME NEW S, NEW s \in Seq(S), NEW t \in Seq(S), NEW a \in Nat, NEW n \in Nat,
         a + n <= Len(s)
  PROVE  SubSeq(s \o t, a + 1, a + n) = SubSeq(s, a + 1, a + n)
<1> DEFINE st == s \o t
<1>1. /\ Len(s) \in Nat /\ Len(t) \in Nat
      /\ st \in Seq(S) /\ Len(st) = Len(s) + Len(t)
      /\ \A i \in 1 .. Len(s) : st[i] = s[i]
  BY ConcatProperties, LenProperties
<1> HIDE DEF st
<1>2. /\ SubSeq(st, a + 1, a + n) = [i \in 1 .. n |-> st[i + a]]
      /\ SubSeq(s, a + 1, a + n) = [i \in 1 .. n |-> s[i + a]]
  BY <1>1
<1>3. \A i \in 1 .. n : st[i + a] = s[i + a]
  BY <1>1
<1> QED
  BY <1>2, <1>3 DEF st

LEMMA PieceOfSecond ==
  ASSUME NEW S, NEW s \in Seq(S), NEW t \in Seq(S)
  PROVE  SubSeq(s \o t, Len(s) + 1, Len(s) + Len(t)) = t
<1> DEFINE st == s \o t
           n == Len(s)
           m == Len(t)
<1>1. /\ n \in Nat /\ m \in Nat
      /\ st \in Seq(S) /\ Len(st) = n + m
      /\ \A i \in 1 .. m : st[i + n] = t[i]
      /\ t = [i \in 1 .. m |-> t[i]]
  BY ConcatProperties, LenProperties
<1> HIDE DEF st, n, m
<1>2. SubSeq(st, n + 1, n + m) = [i \in 1 .. m |-> st[i + n]]
  <2>1. n \in Nat /\ m \in Nat /\ st \in Seq(S)
    BY <1>1
  <2>2. SubSeq(st, n + 1, n + m) = [i \in 1 .. n + m - (n + 1) + 1 |-> st[i + (n + 1) - 1]]
    BY <2>1
  <2>3. n + m - (n + 1) + 1 = m
    BY <2>1
  <2>4. \A i \in 1 .. m : i + (n + 1) - 1 = i + n
    BY <2>1
  <2> QED
    BY <2>2, <2>3, <2>4
<1>3. SubSeq(st, n + 1, n + m) = [i \in 1 .. m |-> t[i]]
  BY <1>1, <1>2
<1>4. SubSeq(st, n + 1, n + m) = t
  BY <1>1, <1>3
<1> QED
  BY <1>4 DEF st, n, m

LEMMA WholePiece ==
  ASSUME NEW S, NEW s \in Seq(S)
  PROVE  SubSeq(s, 1, Len(s)) = s
OBVIOUS

LEMMA ConcatElements ==
  ASSUME NEW S, NEW s \in Seq(S), NEW t \in Seq(S)
  PROVE  /\ \A j \in 1 .. Len(s) : (s \o t)[j] = s[j]
         /\ \A j \in 1 .. Len(t) : (s \o t)[Len(s) + j] = t[j]
<1> DEFINE st == s \o t
           n == Len(s)
           m == Len(t)
<1>1. n \in Nat /\ m \in Nat
  BY LenProperties
<1>2. \A i \in 1 .. n + m : st[i] = IF i <= n THEN s[i] ELSE t[i - n]
  BY ConcatProperties
<1> HIDE DEF st, n, m
<1>3. \A j \in 1 .. n : st[j] = s[j]
  BY <1>1, <1>2
<1>4. \A j \in 1 .. m : st[n + j] = t[j]
  <2> SUFFICES ASSUME NEW j \in 1 .. m
               PROVE  st[n + j] = t[j]
    OBVIOUS
  <2> DEFINE i == n + j
  <2>1. i \in 1 .. n + m /\ ~(i <= n) /\ i - n = j
    BY <1>1
  <2> HIDE DEF i
  <2>2. st[i] = t[i - n]
    BY <1>2, <2>1
  <2> QED
    BY <2>1, <2>2 DEF i
<1> QED
  BY <1>3, <1>4 DEF st, n, m

LEMMA DropElements ==
  ASSUME NEW S, NEW s \in Seq(S), NEW k \in 1 .. Len(s), NEW i \in 1 .. Len(s) - 1
  PROVE  Drop(s, k)[i] = IF i < k THEN s[i] ELSE s[i + 1]
<1> DEFINE before == SubSeq(s, 1, k - 1)
           after == SubSeq(s, k + 1, Len(s))
<1>1. Len(s) \in Nat /\ \A j \in 1 .. Len(s) : s[j] \in S
  BY LenProperties, ElementOfSeq
<1>2. before \in Seq(S) /\ Len(before) = k - 1 /\ \A j \in 1 .. k - 1 : before[j] = s[j]
  <2> HIDE DEF after
  <2> QED
    BY <1>1
<1>3. after \in Seq(S) /\ Len(after) = Len(s) - k /\ \A j \in 1 .. Len(s) - k : after[j] = s[k + j]
  <2> HIDE DEF before
  <2> QED
    BY <1>1
<1>4. Drop(s, k) = before \o after
  BY DEF Drop
<1> HIDE DEF before, after
<1>5. /\ \A j \in 1 .. k - 1 : (before \o after)[j] = before[j]
      /\ \A j \in 1 .. Len(s) - k : (before \o after)[k - 1 + j] = after[j]
  <2>1. before \in Seq(S) /\ after \in Seq(S)
    BY <1>2, <1>3
  <2>2. /\ \A j \in 1 .. Len(before) : (before \o after)[j] = before[j]
        /\ \A j \in 1 .. Len(after) : (before \o after)[Len(before) + j] = after[j]
    BY ONLY <2>1, ConcatElements
  <2> QED
    BY <1>2, <1>3, <2>2
<1>6. CASE i < k
  BY <1>1, <1>2, <1>4, <1>5, <1>6
<1>7. CASE ~(i < k)
  <2>1. PICK j \in 1 .. Len(s) - k : k - 1 + j = i
    <3>1. i - k + 1 \in 1 .. Len(s) - k /\ k - 1 + (i - k + 1) = i
      BY <1>1, <1>7
    <3> QED
      BY <3>1
  <2>2. (before \o after)[k - 1 + j] = after[j] /\ after[j] = s[k + j]
    BY <1>3, <1>5
  <2>3. k + j = i + 1
    BY <1>1, <2>1
  <2>4. Drop(s, k)[i] = s[i + 1]
    BY <1>4, <2>1, <2>2, <2>3
  <2> QED
    BY <1>7, <2>4
<1> QED
  BY <1>6, <1>7

-----------------------------------------------------------------------------
(* What a draft and a plan will make.  The operators below take the bytes  *)
(* of the package as an argument, so that the same facts serve before and  *)
(* after a step.                                                           *)

\* Streamed(src), when the package holds these bytes.
StreamedFrom(bytes, src) ==
  Cut(IF src.from = Package THEN bytes ELSE PartBytes(src.from), src.offset, src.length)

PartFrom(bytes, src) == [mount |-> src.mount, bytes |-> StreamedFrom(bytes, src)]

\* Every slot lies in the file.
Inside(file) == \A i \in 1 .. Len(file.slots) : SlotEnd(file.slots[i]) <= Len(file.bytes)

\* A slot with its bytes, and the bytes before the first one.
Slice(file, i) ==
  [mount |-> file.slots[i].mount,
   bytes |-> SubSeq(file.bytes, file.slots[i].offset + 1,
                    file.slots[i].offset + file.slots[i].size)]
BootOf(file) ==
  IF Len(file.slots) = 0 THEN file.bytes ELSE SubSeq(file.bytes, 1, file.slots[1].offset)

\* The draft, and what is still to be streamed, are the parts of c.
Made(bytes, booted, file, p, c) ==
  /\ c = [boot |-> c.boot,
          slots |-> [i \in 1 .. Len(file.slots) + Len(p.slots) |-> c.slots[i]]]
  /\ IF booted THEN BootOf(file) = c.boot ELSE StreamedFrom(bytes, p.boot) = c.boot
  /\ \A i \in 1 .. Len(file.slots) : Slice(file, i) = c.slots[i]
  /\ \A j \in 1 .. Len(p.slots) :
       PartFrom(bytes, p.slots[j]) = c.slots[Len(file.slots) + j]

LEMMA SlotFacts ==
  ASSUME NEW file \in FileType
  PROVE  /\ file.bytes \in Seq(Cell) /\ Len(file.bytes) \in Nat
         /\ file.slots \in Seq(SlotType) /\ Len(file.slots) \in Nat
         /\ DOMAIN file.slots = 1 .. Len(file.slots)
         /\ \A i \in 1 .. Len(file.slots) :
              /\ file.slots[i].offset \in Nat /\ file.slots[i].size \in Nat
              /\ file.slots[i].mount \in SlotMount
<1>1. \A i \in 1 .. Len(file.slots) : file.slots[i] \in SlotType
  BY ElementOfSeq DEF FileType
<1> QED
  BY <1>1, LenProperties DEF FileType, SlotType

LEMMA ContentsParts ==
  ASSUME NEW file \in FileType, Len(file.slots) > 0
  PROVE  Contents(file)
           = [boot |-> BootOf(file), slots |-> [i \in 1 .. Len(file.slots) |-> Slice(file, i)]]
<1>1. DOMAIN file.slots = 1 .. Len(file.slots) /\ Len(file.slots) # 0
  BY SlotFacts
<1>2. BootOf(file) = SubSeq(file.bytes, 1, file.slots[1].offset)
  BY <1>1, Zenon DEF BootOf
<1>3. Contents(file).slots = [i \in 1 .. Len(file.slots) |-> Slice(file, i)]
  BY <1>1, Zenon DEF Contents, Slice
<1>4. Contents(file)
        = [boot |-> SubSeq(file.bytes, 1, file.slots[1].offset), slots |-> Contents(file).slots]
  BY Zenon DEF Contents
<1> QED
  BY <1>2, <1>3, <1>4, Zenon

\* A finished draft holds what was wanted.
LEMMA MadeContents ==
  ASSUME NEW file \in FileType, Len(file.slots) > 0, NEW bytes, NEW p, p.slots = <<>>, NEW c,
         Made(bytes, TRUE, file, p, c)
  PROVE  Contents(file) = c
<1>1. Len(file.slots) + Len(p.slots) = Len(file.slots)
  BY SlotFacts, EmptySeq
<1>2. [i \in 1 .. Len(file.slots) |-> Slice(file, i)] = [i \in 1 .. Len(file.slots) |-> c.slots[i]]
  BY DEF Made
<1>3. c = [boot |-> BootOf(file), slots |-> [i \in 1 .. Len(file.slots) |-> c.slots[i]]]
  BY <1>1 DEF Made
<1> QED
  BY <1>2, <1>3, ContentsParts

\* Appending bytes to a file moves none of its slots.
LEMMA GrownFile ==
  ASSUME NEW file \in FileType, Inside(file), NEW more \in Seq(Cell), NEW new,
         new.bytes = file.bytes \o more, Len(new.slots) >= Len(file.slots),
         Len(new.slots) \in Nat,
         \A i \in 1 .. Len(file.slots) : new.slots[i] = file.slots[i]
  PROVE  /\ \A i \in 1 .. Len(file.slots) : Slice(new, i) = Slice(file, i)
         /\ \A i \in 1 .. Len(file.slots) : SlotEnd(new.slots[i]) <= Len(new.bytes)
         /\ Len(file.slots) > 0 => BootOf(new) = BootOf(file)
<1>1. /\ file.bytes \in Seq(Cell) /\ Len(file.bytes) \in Nat /\ Len(file.slots) \in Nat
      /\ \A i \in 1 .. Len(file.slots) :
           file.slots[i].offset \in Nat /\ file.slots[i].size \in Nat
  BY SlotFacts
<1>2. Len(new.bytes) = Len(file.bytes) + Len(more) /\ Len(more) \in Nat
  BY <1>1, ConcatProperties, LenProperties
<1>3. ASSUME NEW i \in 1 .. Len(file.slots)
      PROVE  /\ Slice(new, i) = Slice(file, i)
             /\ SlotEnd(new.slots[i]) <= Len(new.bytes)
  <2> DEFINE a == file.slots[i].offset
             n == file.slots[i].size
  <2>1. a \in Nat /\ n \in Nat /\ a + n <= Len(file.bytes) /\ new.slots[i] = file.slots[i]
    BY <1>1 DEF Inside, SlotEnd
  <2>2. SubSeq(file.bytes \o more, a + 1, a + n) = SubSeq(file.bytes, a + 1, a + n)
    <3> DEFINE bs == file.bytes
    <3>1. bs \in Seq(Cell) /\ a \in Nat /\ n \in Nat /\ a + n <= Len(bs)
      BY <1>1, <2>1
    <3> HIDE DEF a, n, bs
    <3>2. SubSeq(bs \o more, a + 1, a + n) = SubSeq(bs, a + 1, a + n)
      BY <3>1, PieceOfFirst
    <3> QED
      BY <3>2 DEF bs
  <2>3. SlotEnd(new.slots[i]) <= Len(new.bytes)
    <3>1. SlotEnd(new.slots[i]) = a + n
      BY <2>1 DEF SlotEnd
    <3> HIDE DEF a, n
    <3>2. a + n <= Len(new.bytes)
      BY <1>1, <1>2, <2>1
    <3> QED
      BY <3>1, <3>2, Zenon
  <2> QED
    BY <2>1, <2>2, <2>3 DEF Slice
<1>4. ASSUME Len(file.slots) > 0
      PROVE  BootOf(new) = BootOf(file)
  <2> DEFINE a == file.slots[1].offset
  <2>1. a \in Nat /\ a <= Len(file.bytes) /\ new.slots[1] = file.slots[1] /\ Len(new.slots) > 0
    <3>1. 1 \in 1 .. Len(file.slots)
      BY <1>1, <1>4
    <3>2. a \in Nat /\ file.slots[1].size \in Nat /\ new.slots[1] = file.slots[1]
      BY <1>1, <3>1
    <3>3. a + file.slots[1].size <= Len(file.bytes)
      <4>1. SlotEnd(file.slots[1]) = a + file.slots[1].size
        BY DEF SlotEnd
      <4>2. SlotEnd(file.slots[1]) <= Len(file.bytes)
        BY <3>1, Zenon DEF Inside
      <4> QED
        BY <4>1, <4>2
    <3>4. a <= Len(file.bytes)
      <4> DEFINE z == file.slots[1].size
                 l == Len(file.bytes)
      <4>1. a \in Nat /\ z \in Nat /\ l \in Nat /\ a + z <= l
        BY <1>1, <3>2, <3>3
      <4> HIDE DEF a, z, l
      <4>2. a <= l
        BY <4>1
      <4> QED
        BY <4>2 DEF l
    <3>5. Len(new.slots) > 0
      BY <1>1, <1>4
    <3> QED
      BY <3>2, <3>4, <3>5
  <2>2. SubSeq(file.bytes \o more, 1, a) = SubSeq(file.bytes, 1, a)
    <3> DEFINE bs == file.bytes
               cat == bs \o more
    <3>1. bs \in Seq(Cell) /\ a \in Nat /\ 0 + a <= Len(bs)
      BY <1>1, <2>1
    <3> HIDE DEF a, bs
    <3>2. SubSeq(cat, 0 + 1, 0 + a) = SubSeq(bs, 0 + 1, 0 + a)
      BY <3>1, PieceOfFirst
    <3>3. 0 + 1 = 1 /\ 0 + a = a
      BY <3>1
    <3> HIDE DEF cat
    <3>4. SubSeq(cat, 1, a) = SubSeq(bs, 1, a)
      BY <3>2, <3>3
    <3> QED
      BY <3>4 DEF cat, bs
  <2> QED
    <3>1. Len(new.slots) # 0 /\ Len(file.slots) # 0
      BY <1>1, <1>4, <2>1
    <3>2. BootOf(new) = SubSeq(new.bytes, 1, new.slots[1].offset)
      BY <3>1, Zenon DEF BootOf
    <3>3. BootOf(file) = SubSeq(file.bytes, 1, file.slots[1].offset)
      BY <3>1, Zenon DEF BootOf
    <3>4. new.slots[1].offset = a
      BY <2>1
    <3> QED
      BY <2>2, <3>2, <3>3, <3>4, Zenon
<1> QED
  BY <1>3, <1>4

\* The trailer changes none of the parts.
LEMMA SealedParts ==
  ASSUME NEW file \in FileType, Inside(file), Len(file.slots) > 0
  PROVE  LET new == Sealed(file)
         IN  /\ new.slots = file.slots
             /\ Inside(new)
             /\ BootOf(new) = BootOf(file)
             /\ \A i \in 1 .. Len(file.slots) : Slice(new, i) = Slice(file, i)
<1> DEFINE new == Sealed(file)
           more == <<Trailer>>
<1>1. file.bytes \in Seq(Cell) /\ Len(file.slots) \in Nat
  BY SlotFacts
<1>2. Append(file.bytes, Trailer) = file.bytes \o more /\ more \in Seq(Cell)
  <2>1. Trailer \in Cell
    BY DEF Cell
  <2>2. more \in Seq(Cell)
    BY <2>1
  <2>3. Append(file.bytes, Trailer) = file.bytes \o <<Trailer>>
    BY <1>1, <2>1, AppendIsConcat
  <2> QED
    BY <2>2, <2>3
<1>3. new.bytes = file.bytes \o more /\ new.slots = file.slots
  BY <1>2 DEF Sealed, FileType
<1> HIDE DEF new, more
<1>4. /\ \A i \in 1 .. Len(file.slots) : Slice(new, i) = Slice(file, i)
      /\ \A i \in 1 .. Len(file.slots) : SlotEnd(new.slots[i]) <= Len(new.bytes)
      /\ Len(file.slots) > 0 => BootOf(new) = BootOf(file)
  <2>1. /\ Len(new.slots) \in Nat /\ Len(new.slots) >= Len(file.slots)
        /\ \A i \in 1 .. Len(file.slots) : new.slots[i] = file.slots[i]
    BY <1>1, <1>3
  <2> QED
    BY <1>2, <1>3, <2>1, GrownFile
<1>5. Inside(new)
  BY <1>3, <1>4 DEF Inside
<1> QED
  BY <1>3, <1>4, <1>5 DEF new

\* A slot more: the others and the bootstrap are as they were, and the new
\* one has the bytes it was given.
LEMMA WithSlotParts ==
  ASSUME NEW file \in FileType, Inside(file), NEW bytes \in Seq(Cell), NEW mount \in SlotMount
  PROVE  LET new == WithSlot(file, bytes, mount)
         IN  /\ Len(new.slots) = Len(file.slots) + 1
             /\ Inside(new)
             /\ BootOf(new) = BootOf(file)
             /\ \A i \in 1 .. Len(file.slots) : Slice(new, i) = Slice(file, i)
             /\ Slice(new, Len(file.slots) + 1) = [mount |-> mount, bytes |-> bytes]
<1> DEFINE new == WithSlot(file, bytes, mount)
           n == Len(file.slots)
           slot == [offset |-> Len(file.bytes), size |-> Len(bytes), mount |-> mount]
<1>1. /\ file.bytes \in Seq(Cell) /\ Len(file.bytes) \in Nat /\ n \in Nat
      /\ file.slots \in Seq(SlotType) /\ Len(bytes) \in Nat
  BY SlotFacts, LenProperties
<1>2. slot \in SlotType
  BY <1>1 DEF SlotType
<1>3. slot.offset = Len(file.bytes) /\ slot.size = Len(bytes) /\ slot.mount = mount
  OBVIOUS
<1>4. new.bytes = file.bytes \o bytes /\ new.slots = Append(file.slots, slot)
  BY DEF WithSlot
<1> HIDE DEF slot, new
<1>5. /\ Len(new.slots) = n + 1
      /\ \A i \in 1 .. n : new.slots[i] = file.slots[i]
      /\ new.slots[n + 1] = slot
  BY <1>1, <1>2, <1>4, AppendProperties
<1>6. Len(new.bytes) = Len(file.bytes) + Len(bytes)
  BY <1>1, <1>4, ConcatProperties
<1> HIDE DEF n
<1>7. /\ \A i \in 1 .. n : Slice(new, i) = Slice(file, i)
      /\ \A i \in 1 .. n : SlotEnd(new.slots[i]) <= Len(new.bytes)
      /\ n > 0 => BootOf(new) = BootOf(file)
  <2>1. Len(new.slots) >= Len(file.slots) /\ Len(new.slots) \in Nat
    BY <1>1, <1>5 DEF n
  <2> QED
    BY <1>4, <1>5, <2>1, GrownFile DEF n
<1>8. SlotEnd(new.slots[n + 1]) <= Len(new.bytes)
  BY <1>1, <1>3, <1>5, <1>6 DEF SlotEnd
<1>9. Inside(new)
  <2>1. ASSUME NEW i \in 1 .. Len(new.slots)
        PROVE  SlotEnd(new.slots[i]) <= Len(new.bytes)
    <3>1. i \in 1 .. n \/ i = n + 1
      BY <1>1, <1>5
    <3> QED
      BY <1>7, <1>8, <3>1, Zenon
  <2> QED
    BY <2>1 DEF Inside
<1>10. Slice(new, n + 1) = [mount |-> mount, bytes |-> bytes]
  <2>1. SubSeq(file.bytes \o bytes, Len(file.bytes) + 1, Len(file.bytes) + Len(bytes)) = bytes
    BY <1>1, PieceOfSecond
  <2> QED
    BY <1>3, <1>4, <1>5, <2>1 DEF Slice
<1>11. ASSUME n = 0
       PROVE  BootOf(new) = BootOf(file)
  <2>1. Len(new.slots) # 0 /\ Len(file.slots) = 0
    BY <1>5, <1>11 DEF n
  <2>2. BootOf(new) = SubSeq(new.bytes, 1, new.slots[1].offset)
    BY <2>1, Zenon DEF BootOf
  <2>3. new.slots[1].offset = Len(file.bytes)
    BY <1>3, <1>5, <1>11
  <2>4. SubSeq(file.bytes \o bytes, 1, Len(file.bytes)) = file.bytes
    <3> DEFINE bs == file.bytes
               m == Len(bs)
    <3>1. bs \in Seq(Cell) /\ m \in Nat /\ 0 + m <= Len(bs)
      BY <1>1
    <3> HIDE DEF bs, m
    <3>2. SubSeq(bs \o bytes, 0 + 1, 0 + m) = SubSeq(bs, 0 + 1, 0 + m)
      BY <3>1, PieceOfFirst
    <3>3. SubSeq(bs, 1, m) = bs
      BY <3>1, WholePiece DEF m
    <3>4. 0 + 1 = 1 /\ 0 + m = m
      BY <3>1
    <3>5. SubSeq(bs \o bytes, 1, m) = bs
      BY <3>2, <3>3, <3>4
    <3> QED
      BY <3>5 DEF bs, m
  <2>5. BootOf(file) = file.bytes
    BY <2>1, Zenon DEF BootOf
  <2> QED
    BY <1>4, <2>2, <2>3, <2>4, <2>5, Zenon
<1>12. BootOf(new) = BootOf(file)
  BY <1>1, <1>7, <1>11
<1> QED
  BY <1>5, <1>7, <1>9, <1>10, <1>12 DEF new, n

-----------------------------------------------------------------------------
(* What the sources of a plan deliver.                                     *)

LEMMA WholeFileStreams ==
  ASSUME NEW part \in Parts, NEW mount, NEW bytes
  PROVE  /\ StreamedFrom(bytes, WholeFile(part, mount)) = PartBytes(part)
         /\ WholeFile(part, mount).mount = mount
<1> DEFINE pb == PartBytes(part)
           n == Size[part]
<1>1. n \in Nat /\ part # Package
  BY PartAssumption DEF Package
<1>2. pb \in Seq(Cell) /\ Len(pb) = n
  BY <1>1, PartType DEF PartBytes
<1>3. StreamedFrom(bytes, WholeFile(part, mount)) = Cut(pb, 0, n)
  BY <1>1 DEF StreamedFrom, WholeFile
<1> HIDE DEF pb, n
<1>4. Cut(pb, 0, n) = SubSeq(pb, 1, n)
  <2>1. Lesser(0 + n, Len(pb)) = n /\ 0 + 1 = 1
    BY <1>1, <1>2 DEF Lesser
  <2> QED
    BY <2>1 DEF Cut
<1>5. SubSeq(pb, 1, n) = pb
  BY <1>2, WholePiece
<1> QED
  BY <1>3, <1>4, <1>5 DEF WholeFile, pb

LEMMA RegionStreams ==
  ASSUME NEW bytes \in Seq(Cell), NEW offset \in Nat, NEW length \in Nat, NEW mount,
         offset + length <= Len(bytes)
  PROVE  /\ StreamedFrom(bytes, Region(offset, length, mount))
              = SubSeq(bytes, offset + 1, offset + length)
         /\ Region(offset, length, mount).mount = mount
<1>1. StreamedFrom(bytes, Region(offset, length, mount)) = Cut(bytes, offset, length)
  BY DEF StreamedFrom, Region
<1>2. Lesser(offset + length, Len(bytes)) = offset + length
  BY DEF Lesser
<1>3. Cut(bytes, offset, length) = SubSeq(bytes, offset + 1, offset + length)
  BY <1>2 DEF Cut
<1> QED
  BY <1>1, <1>3 DEF Region

\* The parts a package has: what its ranges deliver, and what it holds.
SliceType == [mount : SlotMount, bytes : Seq(Cell)]

LEMMA SliceIsSlice ==
  ASSUME NEW file \in FileType, Inside(file), NEW i \in 1 .. Len(file.slots)
  PROVE  Slice(file, i) \in SliceType
<1> DEFINE a == file.slots[i].offset
           n == file.slots[i].size
<1>1. /\ file.bytes \in Seq(Cell) /\ a \in Nat /\ n \in Nat
      /\ file.slots[i].mount \in SlotMount
  BY SlotFacts
<1>2. a + n <= Len(file.bytes)
  BY DEF Inside, SlotEnd
<1>3. SubSeq(file.bytes, a + 1, a + n) \in Seq(Cell)
  <2>1. \A k \in a + 1 .. a + n : file.bytes[k] \in Cell
    <3> DEFINE bs == file.bytes
    <3>1. bs \in Seq(Cell) /\ a \in Nat /\ n \in Nat /\ a + n <= Len(bs)
      BY <1>1, <1>2
    <3> HIDE DEF a, n, bs
    <3>2. \A k \in 1 .. Len(bs) : bs[k] \in Cell
      BY <3>1, ElementOfSeq
    <3>3. Len(bs) \in Nat
      BY <3>1, LenProperties
    <3>4. \A k \in a + 1 .. a + n : k \in 1 .. Len(bs)
      BY <3>1, <3>3
    <3> QED
      BY <3>2, <3>4 DEF bs
  <2>2. a + 1 \in Int /\ a + n \in Int
    BY <1>1
  <2> HIDE DEF a, n
  <2> QED
    BY <2>1, <2>2, SubSeqProperties
<1> QED
  BY <1>1, <1>3 DEF Slice, SliceType

LEMMA OldParts ==
  ASSUME NEW file \in FileType, Inside(file), Len(file.slots) > 0
  PROVE  /\ StreamedFrom(file.bytes, OldBoot(file)) = BootOf(file)
         /\ \A i \in 1 .. Len(file.slots) :
              PartFrom(file.bytes, OldSlots(file)[i]) = Slice(file, i)
<1>1. /\ file.bytes \in Seq(Cell) /\ Len(file.slots) \in Nat /\ Len(file.bytes) \in Nat
      /\ DOMAIN file.slots = 1 .. Len(file.slots)
      /\ \A i \in 1 .. Len(file.slots) :
           file.slots[i].offset \in Nat /\ file.slots[i].size \in Nat
  BY SlotFacts
<1>2. StreamedFrom(file.bytes, OldBoot(file)) = BootOf(file)
  <2> DEFINE n == file.slots[1].offset
  <2>1. n \in Nat /\ 0 + n <= Len(file.bytes)
    <3>1. 1 \in 1 .. Len(file.slots)
      BY <1>1
    <3>2. n \in Nat /\ file.slots[1].size \in Nat
      BY <1>1, <3>1
    <3>3. n + file.slots[1].size <= Len(file.bytes)
      BY <1>1, <3>1 DEF Inside, SlotEnd
    <3> HIDE DEF n
    <3> QED
      BY <1>1, <3>2, <3>3
  <2>2. OldBoot(file) = Region(0, n, NoMount)
    BY DEF OldBoot
  <2>3. Len(file.slots) # 0
    BY <1>1
  <2>4. BootOf(file) = SubSeq(file.bytes, 1, n)
    BY <2>3, Zenon DEF BootOf
  <2> HIDE DEF n
  <2>5. StreamedFrom(file.bytes, Region(0, n, NoMount)) = SubSeq(file.bytes, 0 + 1, 0 + n)
    BY <1>1, <2>1, RegionStreams
  <2>6. 0 + 1 = 1 /\ 0 + n = n
    BY <2>1
  <2> QED
    BY <2>2, <2>4, <2>5, <2>6
<1>3. ASSUME NEW i \in 1 .. Len(file.slots)
      PROVE  PartFrom(file.bytes, OldSlots(file)[i]) = Slice(file, i)
  <2> DEFINE a == file.slots[i].offset
             n == file.slots[i].size
             m == file.slots[i].mount
  <2>1. a \in Nat /\ n \in Nat /\ a + n <= Len(file.bytes)
    BY <1>1 DEF Inside, SlotEnd
  <2>2. OldSlots(file)[i] = Region(a, n, m)
    BY <1>1, Zenon DEF OldSlots
  <2>3. Slice(file, i) = [mount |-> m, bytes |-> SubSeq(file.bytes, a + 1, a + n)]
    BY DEF Slice
  <2> HIDE DEF a, n, m
  <2>4. /\ StreamedFrom(file.bytes, Region(a, n, m)) = SubSeq(file.bytes, a + 1, a + n)
        /\ Region(a, n, m).mount = m
    BY <1>1, <2>1, RegionStreams
  <2> QED
    BY <2>2, <2>3, <2>4, Zenon DEF PartFrom
<1> QED
  BY <1>2, <1>3

-----------------------------------------------------------------------------
(* Every edit plans what was asked for.                                    *)

LEMMA Planned ==
  ASSUME NEW bytes, NEW p, NEW c, Len(p.slots) \in Nat,
         c = [boot |-> c.boot, slots |-> [i \in 1 .. Len(p.slots) |-> c.slots[i]]],
         StreamedFrom(bytes, p.boot) = c.boot,
         \A j \in 1 .. Len(p.slots) : PartFrom(bytes, p.slots[j]) = c.slots[j]
  PROVE  Made(bytes, FALSE, Absent, p, c)
<1>1. Len(Absent.slots) = 0
  BY AbsentType
<1>2. Len(Absent.slots) + Len(p.slots) = Len(p.slots)
  BY <1>1
<1>3. \A j \in 1 .. Len(p.slots) : Len(Absent.slots) + j = j
  BY <1>1
<1>4. 1 .. Len(Absent.slots) = {}
  BY <1>1
<1> HIDE DEF Absent
<1> QED
  BY <1>2, <1>3, <1>4 DEF Made

LEMMA BundlingPlanned ==
  ASSUME NEW boot \in Runtimes, NEW n \in Nat, NEW images \in [1 .. n -> Images],
         NEW points \in [1 .. n -> Points], NEW bytes
  PROVE  Made(bytes, FALSE, Absent, Bundling(boot, images, points), Bundled(boot, images, points))
<1> DEFINE p == Bundling(boot, images, points)
           c == Bundled(boot, images, points)
<1>1. boot \in Parts /\ \A i \in 1 .. n : images[i] \in Parts
  BY DEF Parts
<1>2. /\ p.boot = WholeFile(boot, NoMount)
      /\ p.slots = [i \in 1 .. n |-> WholeFile(images[i], MountOf(points[i], i - 1))]
      /\ c.boot = PartBytes(boot)
      /\ c.slots = [i \in 1 .. n |-> [mount |-> MountOf(points[i], i - 1), bytes |-> PartBytes(images[i])]]
      /\ c = [boot |-> c.boot, slots |-> c.slots]
  BY DEF Bundling, Bundled, Plan
<1> HIDE DEF p, c
<1>3. Len(p.slots) = n
  BY <1>2
<1>4. c.slots = [i \in 1 .. n |-> c.slots[i]]
  BY <1>2
<1>5. StreamedFrom(bytes, p.boot) = c.boot
  BY <1>1, <1>2, WholeFileStreams
<1>6. ASSUME NEW j \in 1 .. n
      PROVE  PartFrom(bytes, p.slots[j]) = c.slots[j]
  <2>1. p.slots[j] = WholeFile(images[j], MountOf(points[j], j - 1))
    BY <1>2
  <2>2. c.slots[j] = [mount |-> MountOf(points[j], j - 1), bytes |-> PartBytes(images[j])]
    BY <1>2
  <2>3. /\ StreamedFrom(bytes, p.slots[j]) = PartBytes(images[j])
        /\ p.slots[j].mount = MountOf(points[j], j - 1)
    BY <1>1, <2>1, WholeFileStreams
  <2> QED
    BY <2>2, <2>3 DEF PartFrom
<1>7. c = [boot |-> c.boot, slots |-> [i \in 1 .. n |-> c.slots[i]]]
  BY <1>2, <1>4
<1>8. Made(bytes, FALSE, Absent, p, c)
  BY <1>3, <1>5, <1>6, <1>7, Planned
<1> QED
  BY <1>8 DEF p, c

\* The parts of a package as a sequence.
KeptParts(file) == [i \in 1 .. Len(file.slots) |-> Slice(file, i)]

LEMMA KeptType ==
  ASSUME NEW file \in FileType, Inside(file)
  PROVE  /\ Len(file.slots) \in Nat
         /\ KeptParts(file) \in Seq(SliceType)
         /\ Len(KeptParts(file)) = Len(file.slots)
         /\ \A i \in 1 .. Len(file.slots) : KeptParts(file)[i] = Slice(file, i)
<1>1. Len(file.slots) \in Nat
  BY SlotFacts
<1>2. \A i \in 1 .. Len(file.slots) : Slice(file, i) \in SliceType
  BY SliceIsSlice
<1> DEFINE n == Len(file.slots)
           kept == [i \in 1 .. n |-> Slice(file, i)]
<1>3. kept \in Seq(SliceType) /\ Len(kept) = n /\ \A i \in 1 .. n : kept[i] = Slice(file, i)
  <2> HIDE DEF n
  <2> QED
    BY <1>1, <1>2 DEF n
<1> QED
  BY <1>1, <1>3 DEF KeptParts

LEMMA InsertingPlanned ==
  ASSUME NEW file \in FileType, Inside(file), Len(file.slots) > 0,
         NEW image \in Images, NEW mount \in SlotMount
  PROVE  Made(file.bytes, FALSE, Absent,
              Inserting(file, image, mount), Inserted(Contents(file), image, mount))
<1> DEFINE p == Inserting(file, image, mount)
           c == Inserted(Contents(file), image, mount)
           n == Len(file.slots)
           kept == KeptParts(file)
           old == OldSlots(file)
           whole == WholeFile(image, mount)
           new == [mount |-> mount, bytes |-> PartBytes(image)]
<1>1. image \in Parts
  BY DEF Parts
<1>2. /\ n \in Nat /\ kept \in Seq(SliceType) /\ Len(kept) = n
      /\ \A i \in 1 .. n : kept[i] = Slice(file, i)
      /\ old \in Seq(SourceType) /\ Len(old) = n
  BY KeptType, OldSlotsType
<1>3. whole \in SourceType /\ new \in SliceType
  BY <1>1, WholeFileType, PartType DEF SliceType
<1>4. p.boot = OldBoot(file) /\ p.slots = Append(old, whole)
  BY DEF Inserting, Plan
<1>5. c = [boot |-> BootOf(file), slots |-> Append(kept, new)]
  <2>1. Contents(file) = [boot |-> BootOf(file), slots |-> kept]
    BY ContentsParts DEF KeptParts
  <2> DEFINE slots == Append(kept, new)
  <2>2. Contents(file).slots = kept
    <3> HIDE DEF kept
    <3> QED
      BY <2>1
  <2>3. c = [Contents(file) EXCEPT !.slots = Append(Contents(file).slots, new)]
    BY DEF Inserted
  <2>4. c = [Contents(file) EXCEPT !.slots = slots]
    BY <2>2, <2>3, Zenon
  <2> HIDE DEF kept, c, new, slots
  <2>5. c = [boot |-> BootOf(file), slots |-> slots]
    BY <2>1, <2>4
  <2> QED
    BY <2>5 DEF slots
<1>6. /\ StreamedFrom(file.bytes, p.boot) = BootOf(file)
      /\ \A i \in 1 .. n : PartFrom(file.bytes, old[i]) = kept[i]
  BY <1>2, <1>4, OldParts
<1>7. PartFrom(file.bytes, whole) = new
  BY <1>1, WholeFileStreams DEF PartFrom
<1> HIDE DEF p, c, n, kept, old, whole, new
<1>8. /\ Len(p.slots) = n + 1
      /\ \A i \in 1 .. n : p.slots[i] = old[i]
      /\ p.slots[n + 1] = whole
  BY <1>2, <1>3, <1>4, AppendProperties
<1>9. /\ c.slots \in Seq(SliceType) /\ Len(c.slots) = n + 1
      /\ \A i \in 1 .. n : c.slots[i] = kept[i]
      /\ c.slots[n + 1] = new
  BY <1>2, <1>3, <1>5, AppendProperties
<1>10. c.slots = [i \in 1 .. n + 1 |-> c.slots[i]]
  BY <1>9, LenProperties
<1>11. c = [boot |-> c.boot, slots |-> [i \in 1 .. n + 1 |-> c.slots[i]]]
  BY <1>5, <1>10
<1>12. ASSUME NEW j \in 1 .. n + 1
       PROVE  PartFrom(file.bytes, p.slots[j]) = c.slots[j]
  <2>1. j \in 1 .. n \/ j = n + 1
    BY <1>2
  <2> QED
    BY <1>6, <1>7, <1>8, <1>9, <2>1, Zenon
<1>13. Len(p.slots) \in Nat
  BY <1>2, <1>8
<1>14. Made(file.bytes, FALSE, Absent, p, c)
  BY <1>5, <1>6, <1>8, <1>11, <1>12, <1>13, Planned
<1> QED
  BY <1>14 DEF p, c

LEMMA RemovingPlanned ==
  ASSUME NEW file \in FileType, Inside(file), Len(file.slots) > 1,
         NEW k \in 1 .. Len(file.slots)
  PROVE  Made(file.bytes, FALSE, Absent, Removing(file, k), Removed(Contents(file), k))
<1> DEFINE p == Removing(file, k)
           c == Removed(Contents(file), k)
           n == Len(file.slots)
           kept == KeptParts(file)
           old == OldSlots(file)
<1>1. /\ n \in Nat /\ kept \in Seq(SliceType) /\ Len(kept) = n
      /\ \A i \in 1 .. n : kept[i] = Slice(file, i)
      /\ old \in Seq(SourceType) /\ Len(old) = n
  BY KeptType, OldSlotsType
<1>2. p.boot = OldBoot(file) /\ p.slots = Drop(old, k)
  BY DEF Removing, Plan
<1>3. Len(file.slots) > 0
  BY <1>1
<1>4. c = [boot |-> BootOf(file), slots |-> Drop(kept, k)]
  <2>1. Contents(file) = [boot |-> BootOf(file), slots |-> kept]
    BY <1>3, ContentsParts DEF KeptParts
  <2> HIDE DEF kept
  <2> QED
    BY <2>1 DEF Removed
<1>5. /\ StreamedFrom(file.bytes, p.boot) = BootOf(file)
      /\ \A i \in 1 .. n : PartFrom(file.bytes, old[i]) = kept[i]
  BY <1>1, <1>2, <1>3, OldParts
<1>6. k \in 1 .. n
  OBVIOUS
<1> HIDE DEF p, c, n, kept, old
<1>7. p.slots \in Seq(SourceType) /\ Len(p.slots) = n - 1
  BY <1>1, <1>2, <1>6, DropType
<1>8. c.slots \in Seq(SliceType) /\ Len(c.slots) = n - 1
  BY <1>1, <1>4, <1>6, DropType
<1>9. ASSUME NEW j \in 1 .. n - 1
      PROVE  /\ p.slots[j] = IF j < k THEN old[j] ELSE old[j + 1]
             /\ c.slots[j] = IF j < k THEN kept[j] ELSE kept[j + 1]
  <2>1. k \in 1 .. Len(old) /\ j \in 1 .. Len(old) - 1 /\ k \in 1 .. Len(kept) /\ j \in 1 .. Len(kept) - 1
    BY <1>1, <1>6
  <2>2. Drop(old, k)[j] = IF j < k THEN old[j] ELSE old[j + 1]
    BY <1>1, <2>1, DropElements
  <2>3. Drop(kept, k)[j] = IF j < k THEN kept[j] ELSE kept[j + 1]
    BY <1>1, <2>1, DropElements
  <2> QED
    BY <1>2, <1>4, <2>2, <2>3
<1>10. ASSUME NEW j \in 1 .. n - 1
       PROVE  PartFrom(file.bytes, p.slots[j]) = c.slots[j]
  <2>1. j \in 1 .. n /\ j + 1 \in 1 .. n
    BY <1>1
  <2>2. PartFrom(file.bytes, old[j]) = kept[j] /\ PartFrom(file.bytes, old[j + 1]) = kept[j + 1]
    BY <1>5, <2>1
  <2> QED
    BY <1>9, <2>2
<1>11. c.slots = [i \in 1 .. n - 1 |-> c.slots[i]]
  BY <1>8, LenProperties
<1>12. c = [boot |-> c.boot, slots |-> [i \in 1 .. n - 1 |-> c.slots[i]]]
  BY <1>4, <1>11
<1>13. Len(p.slots) \in Nat
  BY <1>7, LenProperties
<1>14. Made(file.bytes, FALSE, Absent, p, c)
  BY <1>4, <1>5, <1>7, <1>10, <1>12, <1>13, Planned
<1> QED
  BY <1>14 DEF p, c

LEMMA SettingRuntimePlanned ==
  ASSUME NEW file \in FileType, Inside(file), Len(file.slots) > 0, NEW runtime \in Runtimes
  PROVE  Made(file.bytes, FALSE, Absent,
              SettingRuntime(file, runtime), RuntimeSet(Contents(file), runtime))
<1> DEFINE p == SettingRuntime(file, runtime)
           c == RuntimeSet(Contents(file), runtime)
           n == Len(file.slots)
           kept == KeptParts(file)
           old == OldSlots(file)
<1>1. /\ n \in Nat /\ kept \in Seq(SliceType) /\ Len(kept) = n
      /\ \A i \in 1 .. n : kept[i] = Slice(file, i)
      /\ old \in Seq(SourceType) /\ Len(old) = n
  BY KeptType, OldSlotsType
<1>2. p.boot = WholeFile(runtime, NoMount) /\ p.slots = old
  BY DEF SettingRuntime, Plan
<1>3. c = [boot |-> PartBytes(runtime), slots |-> kept]
  <2>1. Contents(file) = [boot |-> BootOf(file), slots |-> kept]
    BY ContentsParts DEF KeptParts
  <2> HIDE DEF kept
  <2> QED
    BY <2>1 DEF RuntimeSet
<1>4. StreamedFrom(file.bytes, p.boot) = c.boot
  <2>1. runtime \in Parts
    BY DEF Parts
  <2> QED
    BY <1>2, <1>3, <2>1, WholeFileStreams
<1>5. \A i \in 1 .. n : PartFrom(file.bytes, old[i]) = kept[i]
  BY <1>1, OldParts
<1> HIDE DEF p, c, n, kept, old
<1>6. kept = [i \in 1 .. n |-> kept[i]]
  BY <1>1, LenProperties
<1>7. c = [boot |-> c.boot, slots |-> [i \in 1 .. n |-> c.slots[i]]]
  BY <1>3, <1>6
<1>8. Len(p.slots) = n /\ Len(p.slots) \in Nat
  BY <1>1, <1>2
<1>9. \A j \in 1 .. n : PartFrom(file.bytes, p.slots[j]) = c.slots[j]
  BY <1>2, <1>3, <1>5
<1>10. Made(file.bytes, FALSE, Absent, p, c)
  BY <1>4, <1>7, <1>8, <1>9, Planned
<1> QED
  BY <1>10 DEF p, c

-----------------------------------------------------------------------------
(* The invariant.                                                          *)

\* As long as the package an editor read is in place, what it has streamed
\* and what it has yet to stream make what was asked for.  Once it is sealed
\* nothing is left to stream.
EditSound(e) ==
  /\ Inside(draft[e])
  /\ pc[e] \in {"rename", "rename again"} => plan[e].slots = <<>>
  /\ pc[e] # "idle" /\ ~moved[e] =>
       Made(pkg.bytes, pc[e] # "boot", draft[e], plan[e], want[e])

EditInv ==
  /\ Inside(pkg)
  /\ moved = [e \in Editors |-> moved[e]]
  /\ \A e \in Editors : moved[e] \in BOOLEAN
  /\ want = [e \in Editors |-> want[e]]
  /\ \A e \in Editors : EditSound(e)

\* A step of one editor: it leaves its own edit sound, and to every other
\* edit that counts the package is as it was.
LEMMA OneEditor ==
  ASSUME TypeOK, EditInv, NEW e \in Editors, NEW next, NEW p, NEW file, NEW c,
         pc' = [pc EXCEPT ![e] = next],
         plan' = [plan EXCEPT ![e] = p],
         draft' = [draft EXCEPT ![e] = file],
         want' = [want EXCEPT ![e] = c],
         moved' = [x \in Editors |-> moved'[x]],
         \A x \in Editors : moved'[x] \in BOOLEAN,
         \A x \in Editors \ {e} :
           pc[x] # "idle" /\ ~moved'[x] => ~moved[x] /\ pkg'.bytes = pkg.bytes,
         Inside(pkg'), Inside(file),
         next \in {"rename", "rename again"} => p.slots = <<>>,
         next # "idle" /\ ~moved'[e] => Made(pkg'.bytes, next # "boot", file, p, c)
  PROVE  EditInv'
<1>1. want' = [x \in Editors |-> want'[x]]
  BY DEF EditInv
<1>2. ASSUME NEW x \in Editors
      PROVE  /\ Inside(draft'[x])
             /\ pc'[x] \in {"rename", "rename again"} => plan'[x].slots = <<>>
             /\ pc'[x] # "idle" /\ ~moved'[x] =>
                  Made(pkg'.bytes, pc'[x] # "boot", draft'[x], plan'[x], want'[x])
  <2>1. CASE x = e
    <3>1. pc'[e] = next /\ plan'[e] = p /\ draft'[e] = file /\ want'[e] = c
      BY DEF TypeOK, EditInv
    <3> QED
      BY <2>1, <3>1
  <2>2. CASE x # e
    <3>1. /\ pc'[x] = pc[x] /\ plan'[x] = plan[x] /\ draft'[x] = draft[x]
          /\ want'[x] = want[x]
      BY <2>2 DEF TypeOK, EditInv
    <3>2. /\ Inside(draft[x])
          /\ pc[x] \in {"rename", "rename again"} => plan[x].slots = <<>>
          /\ pc[x] # "idle" /\ ~moved[x] =>
               Made(pkg.bytes, pc[x] # "boot", draft[x], plan[x], want[x])
      BY DEF EditInv, EditSound
    <3>3. pc[x] # "idle" /\ ~moved'[x] => ~moved[x] /\ pkg'.bytes = pkg.bytes
      BY <2>2
    <3> QED
      BY <3>1, <3>2, <3>3
  <2> QED
    BY <2>1, <2>2
<1> QED
  BY <1>1, <1>2 DEF EditInv, EditSound

LEMMA AbsentInside == Inside(Absent)
<1>1. Len(Absent.slots) = 0
  BY AbsentType
<1>2. 1 .. Len(Absent.slots) = {}
  BY <1>1
<1> QED
  BY <1>2 DEF Inside

LEMMA BeginEdit ==
  ASSUME TypeOK, EditInv, NEW e \in Editors, NEW p, NEW c, Begin(e, p, c),
         pkg' = pkg \/ (pkg' = Absent /\ \A x \in Editors : pc[x] = "idle"),
         Made(pkg'.bytes, FALSE, Absent, p, c)
  PROVE  EditInv'
<1>1. /\ pc' = [pc EXCEPT ![e] = "boot"]
      /\ plan' = [plan EXCEPT ![e] = p]
      /\ draft' = [draft EXCEPT ![e] = Absent]
      /\ want' = [want EXCEPT ![e] = c]
      /\ moved' = [moved EXCEPT ![e] = FALSE]
  BY DEF Begin
<1>2. moved' = [x \in Editors |-> moved'[x]] /\ \A x \in Editors : moved'[x] \in BOOLEAN
  BY <1>1 DEF EditInv
<1>3. ASSUME NEW x \in Editors \ {e}, pc[x] # "idle", ~moved'[x]
      PROVE  ~moved[x] /\ pkg'.bytes = pkg.bytes
  BY <1>1, <1>3 DEF EditInv
<1>4. Inside(pkg')
  BY AbsentInside DEF EditInv
<1> DEFINE next == "boot"
<1>5. /\ pc' = [pc EXCEPT ![e] = next]
      /\ ~(next \in {"rename", "rename again"}) /\ (next # "boot") = FALSE
  BY <1>1
<1>6. next # "idle" /\ ~moved'[e] => Made(pkg'.bytes, next # "boot", Absent, p, c)
  BY <1>5
<1> HIDE DEF next
<1> QED
  BY <1>1, <1>2, <1>3, <1>4, <1>5, <1>6, AbsentInside, OneEditor

\* The package and what is known of others stay as they are.
LEMMA QuietStep ==
  ASSUME TypeOK, EditInv, NEW e \in Editors, NEW next, NEW p, NEW file,
         pc' = [pc EXCEPT ![e] = next],
         plan' = [plan EXCEPT ![e] = p],
         draft' = [draft EXCEPT ![e] = file],
         UNCHANGED <<pkg, want, moved>>,
         Inside(file),
         next \in {"rename", "rename again"} => p.slots = <<>>,
         next # "idle" /\ ~moved[e] => Made(pkg.bytes, next # "boot", file, p, want[e])
  PROVE  EditInv'
<1>1. want' = [want EXCEPT ![e] = want[e]]
  BY DEF EditInv
<1>2. moved' = [x \in Editors |-> moved'[x]] /\ \A x \in Editors : moved'[x] \in BOOLEAN
  BY DEF EditInv
<1>3. Inside(pkg')
  BY DEF EditInv
<1>4. \A x \in Editors \ {e} :
        pc[x] # "idle" /\ ~moved'[x] => ~moved[x] /\ pkg'.bytes = pkg.bytes
  OBVIOUS
<1> QED
  BY <1>1, <1>2, <1>3, <1>4, OneEditor

LEMMA BundleEdit ==
  ASSUME TypeOK, EditInv, NEW e \in Editors, NEW boot \in Runtimes, NEW n \in 1 .. MaxSlots,
         NEW images \in [1 .. n -> Images], NEW points \in [1 .. n -> Points],
         BundleImages(e, boot, images, points)
  PROVE  EditInv'
<1>1. n \in Nat
  BY PartAssumption
<1>2. Made(pkg'.bytes, FALSE, Absent, Bundling(boot, images, points), Bundled(boot, images, points))
  BY <1>1, BundlingPlanned
<1> QED
  BY <1>2, BeginEdit DEF BundleImages

LEMMA InsertEdit ==
  ASSUME TypeOK, EditInv, NEW e \in Editors, NEW image \in Images,
         NEW point \in Points, InsertImage(e, image, point)
  PROVE  EditInv'
<1>1. pkg \in FileType /\ Inside(pkg)
  BY DEF TypeOK, EditInv
<1>2. Len(pkg.slots) \in Nat /\ Len(pkg.slots) > 0 /\ Len(pkg.slots) < MaxSlots
  BY <1>1, EmptySeq DEF InsertImage, Probed, FileType
<1> DEFINE mount == MountOf(point, Len(pkg.slots))
<1>3. mount \in SlotMount
  <2>1. Len(pkg.slots) \in 0 .. MaxSlots
    BY <1>2, PartAssumption
  <2> QED
    BY <2>1, MountOfType
<1>4. Made(pkg.bytes, FALSE, Absent,
           Inserting(pkg, image, mount), Inserted(Contents(pkg), image, mount))
  BY <1>1, <1>2, <1>3, InsertingPlanned
<1>5. pkg' = pkg /\ Begin(e, Inserting(pkg, image, mount), Inserted(Contents(pkg), image, mount))
  BY DEF InsertImage
<1> HIDE DEF mount
<1> QED
  BY <1>4, <1>5, BeginEdit

LEMMA RemoveEdit ==
  ASSUME TypeOK, EditInv, NEW e \in Editors, NEW k \in 1 .. MaxSlots, RemoveImage(e, k)
  PROVE  EditInv'
<1>1. pkg \in FileType /\ Inside(pkg)
  BY DEF TypeOK, EditInv
<1>2. Len(pkg.slots) > 1 /\ k \in 1 .. Len(pkg.slots)
  BY <1>1, SlotFacts DEF RemoveImage
<1>3. Made(pkg.bytes, FALSE, Absent, Removing(pkg, k), Removed(Contents(pkg), k))
  BY <1>1, <1>2, RemovingPlanned
<1>4. pkg' = pkg /\ Begin(e, Removing(pkg, k), Removed(Contents(pkg), k))
  BY DEF RemoveImage
<1> QED
  BY <1>3, <1>4, BeginEdit

LEMMA SetRuntimeEdit ==
  ASSUME TypeOK, EditInv, NEW e \in Editors, NEW runtime \in Runtimes, SetRuntime(e, runtime)
  PROVE  EditInv'
<1>1. pkg \in FileType /\ Inside(pkg)
  BY DEF TypeOK, EditInv
<1>2. Len(pkg.slots) > 0
  BY <1>1, EmptySeq DEF SetRuntime, Probed, FileType
<1>3. Made(pkg.bytes, FALSE, Absent,
           SettingRuntime(pkg, runtime), RuntimeSet(Contents(pkg), runtime))
  BY <1>1, <1>2, SettingRuntimePlanned
<1>4. pkg' = pkg /\ Begin(e, SettingRuntime(pkg, runtime), RuntimeSet(Contents(pkg), runtime))
  BY DEF SetRuntime
<1> QED
  BY <1>3, <1>4, BeginEdit

\* The next part is written: what was to be streamed has been.
LEMMA MadeSlot ==
  ASSUME NEW file \in FileType, Inside(file), NEW bytes, NEW c,
         NEW p, p.slots \in Seq(SourceType), p.slots # <<>>,
         NEW src, src = p.slots[1], src.mount \in SlotMount,
         NEW rest, rest.slots = Tail(p.slots), rest.boot = p.boot,
         NEW more \in Seq(Cell), more = StreamedFrom(bytes, src),
         Made(bytes, TRUE, file, p, c)
  PROVE  Made(bytes, TRUE, WithSlot(file, more, src.mount), rest, c)
<1> DEFINE new == WithSlot(file, more, src.mount)
           n == Len(file.slots)
           m == Len(p.slots)
<1>1. n \in Nat /\ m \in Nat /\ m > 0
  BY SlotFacts, EmptySeq, LenProperties
<1>2. /\ Len(new.slots) = n + 1
      /\ BootOf(new) = BootOf(file)
      /\ \A i \in 1 .. n : Slice(new, i) = Slice(file, i)
      /\ Slice(new, n + 1) = [mount |-> src.mount, bytes |-> more]
  BY WithSlotParts
<1>3. /\ Len(rest.slots) = m - 1
      /\ \A j \in 1 .. m - 1 : rest.slots[j] = p.slots[j + 1]
  BY HeadTailProperties
<1>4. /\ c = [boot |-> c.boot, slots |-> [i \in 1 .. n + m |-> c.slots[i]]]
      /\ BootOf(file) = c.boot
      /\ \A i \in 1 .. n : Slice(file, i) = c.slots[i]
      /\ \A j \in 1 .. m : PartFrom(bytes, p.slots[j]) = c.slots[n + j]
  BY DEF Made
<1>5. PartFrom(bytes, src) = [mount |-> src.mount, bytes |-> more]
  BY DEF PartFrom
<1> HIDE DEF new, n, m
<1>6. (n + 1) + (m - 1) = n + m
  BY <1>1
<1>7. c.slots[n + 1] = [mount |-> src.mount, bytes |-> more]
  <2>1. 1 \in 1 .. m
    BY <1>1
  <2> QED
    BY <1>4, <1>5, <2>1
<1>8. ASSUME NEW i \in 1 .. n + 1
      PROVE  Slice(new, i) = c.slots[i]
  <2>1. i \in 1 .. n \/ i = n + 1
    BY <1>1
  <2> QED
    BY <1>2, <1>4, <1>7, <2>1, Zenon
<1>9. ASSUME NEW j \in 1 .. m - 1
      PROVE  PartFrom(bytes, rest.slots[j]) = c.slots[(n + 1) + j]
  <2>1. j + 1 \in 1 .. m /\ n + (j + 1) = (n + 1) + j
    BY <1>1
  <2>2. PartFrom(bytes, p.slots[j + 1]) = c.slots[n + (j + 1)]
    BY <1>4, <2>1
  <2>3. rest.slots[j] = p.slots[j + 1]
    BY <1>3
  <2>4. PartFrom(bytes, p.slots[j + 1]) = c.slots[(n + 1) + j]
    BY <2>1, <2>2, Zenon
  <2> QED
    BY <2>3, <2>4, Zenon
<1>10. Made(bytes, TRUE, new, rest, c)
  BY <1>2, <1>3, <1>4, <1>6, <1>8, <1>9 DEF Made
<1> QED
  BY <1>10 DEF new

LEMMA StreamBootEdit ==
  ASSUME IndInv, EditInv, NEW e \in Editors, StreamBoot(e)
  PROVE  EditInv'
<1> DEFINE bytes == Streamed(plan[e].boot)
           file == Booted(bytes)
<1>1. TypeOK /\ pc[e] = "boot" /\ draft[e].slots = <<>>
  BY DEF StreamBoot, IndInv, DraftsFit
<1>2. bytes = StreamedFrom(pkg.bytes, plan[e].boot)
  BY DEF Streamed, Source, StreamedFrom
<1>3. file.bytes = bytes /\ file.slots = <<>>
  BY DEF Booted
<1> DEFINE next == "slots"
<1>4. /\ pc' = [pc EXCEPT ![e] = next]
      /\ plan' = [plan EXCEPT ![e] = plan[e]]
      /\ draft' = [draft EXCEPT ![e] = file]
      /\ UNCHANGED <<pkg, want, moved>>
  BY <1>1 DEF StreamBoot, Goto, TypeOK
<1>5. ~(next \in {"rename", "rename again"}) /\ (next # "boot") = TRUE
  OBVIOUS
<1> HIDE DEF file, bytes, next
<1>6. Len(file.slots) = 0 /\ 1 .. Len(file.slots) = {} /\ Len(file.slots) = Len(draft[e].slots)
  BY <1>1, <1>3
<1>7. Inside(file)
  BY <1>6 DEF Inside
<1>8. BootOf(file) = bytes
  BY <1>3, <1>6 DEF BootOf
<1>9. ASSUME ~moved[e]
      PROVE  Made(pkg.bytes, next # "boot", file, plan[e], want[e])
  <2>1. Made(pkg.bytes, pc[e] # "boot", draft[e], plan[e], want[e])
    BY <1>1, <1>9 DEF EditInv, EditSound
  <2>2. (pc[e] # "boot") = FALSE
    BY <1>1
  <2>3. Made(pkg.bytes, FALSE, draft[e], plan[e], want[e])
    BY <2>1, <2>2
  <2>4. Made(pkg.bytes, TRUE, file, plan[e], want[e])
    BY <1>2, <1>6, <1>8, <2>3 DEF Made
  <2> QED
    BY <1>5, <2>4
<1> QED
  BY <1>1, <1>4, <1>5, <1>7, <1>9, QuietStep

LEMMA StreamSlotEdit ==
  ASSUME IndInv, EditInv, NEW e \in Editors, StreamSlot(e)
  PROVE  EditInv'
<1> DEFINE src == Head(plan[e].slots)
           bytes == Streamed(src)
           file == WithSlot(draft[e], bytes, src.mount)
           p == [plan[e] EXCEPT !.slots = Tail(@)]
           next == "slots"
<1>1. /\ TypeOK /\ pc[e] = "slots" /\ plan[e].slots # <<>>
      /\ plan[e] \in PlanType /\ plan[e].slots \in Seq(SourceType)
      /\ draft[e] \in FileType /\ pkg \in FileType /\ Inside(draft[e])
  BY DEF StreamSlot, IndInv, TypeOK, PlanType, EditInv, EditSound
<1>2. src \in SourceType /\ src = plan[e].slots[1]
  BY <1>1, HeadTailProperties
<1>3. /\ pc' = [pc EXCEPT ![e] = next]
      /\ plan' = [plan EXCEPT ![e] = p]
      /\ draft' = [draft EXCEPT ![e] = file]
      /\ UNCHANGED <<pkg, want, moved>>
  BY <1>1 DEF StreamSlot, TypeOK
<1>4. p.slots = Tail(plan[e].slots) /\ p.boot = plan[e].boot
  BY <1>1 DEF PlanType
<1>5. bytes \in Seq(Cell) /\ src.mount \in SlotMount
  BY <1>1, <1>2, StreamedType DEF SourceType
<1>6. bytes = StreamedFrom(pkg.bytes, src)
  BY DEF Streamed, Source, StreamedFrom
<1>7. /\ ~(next \in {"rename", "rename again"})
      /\ (next # "boot") = TRUE /\ (pc[e] # "boot") = TRUE /\ pc[e] # "idle"
  BY <1>1
<1> HIDE DEF src, bytes, p, next
<1>8. Inside(file)
  BY <1>1, <1>5, WithSlotParts
<1>9. ASSUME ~moved[e]
      PROVE  Made(pkg.bytes, next # "boot", file, p, want[e])
  <2>1. Made(pkg.bytes, TRUE, draft[e], plan[e], want[e])
    BY <1>7, <1>9 DEF EditInv, EditSound
  <2>2. Made(pkg.bytes, TRUE, file, p, want[e])
    BY <1>1, <1>2, <1>4, <1>5, <1>6, <2>1, MadeSlot
  <2> QED
    BY <1>7, <2>2
<1> HIDE DEF file
<1> QED
  BY <1>1, <1>3, <1>7, <1>8, <1>9, QuietStep

\* A draft with all its slots, once it is sealed.
LEMMA SealedEdit ==
  ASSUME IndInv, EditInv, NEW e \in Editors, pc[e] = "slots", plan[e].slots = <<>>
  PROVE  /\ Sealed(draft[e]) \in FileType
         /\ Len(Sealed(draft[e]).slots) > 0
         /\ Inside(Sealed(draft[e]))
         /\ \A bytes, c : Made(bytes, TRUE, draft[e], plan[e], c)
                            => Made(bytes, TRUE, Sealed(draft[e]), plan[e], c)
<1> DEFINE file == draft[e]
           new == Sealed(file)
<1>1. /\ file \in FileType /\ Inside(file)
      /\ Len(file.slots) + Len(plan[e].slots) \in 1 .. MaxSlots
  BY DEF IndInv, TypeOK, EditInv, EditSound
<1>2. Len(plan[e].slots) = 0 /\ Len(file.slots) \in Nat
  BY <1>1, EmptySeq, SlotFacts
<1>3. Len(file.slots) > 0
  BY <1>1, <1>2
<1>4. new \in FileType
  BY SealedDraft
<1> HIDE DEF file
<1>5. /\ new.slots = file.slots /\ Inside(new) /\ BootOf(new) = BootOf(file)
      /\ \A i \in 1 .. Len(file.slots) : Slice(new, i) = Slice(file, i)
  BY <1>1, <1>3, SealedParts
<1> HIDE DEF new
<1>6. ASSUME NEW bytes, NEW c, Made(bytes, TRUE, file, plan[e], c)
      PROVE  Made(bytes, TRUE, new, plan[e], c)
  BY <1>5, <1>6 DEF Made
<1>7. new \in FileType /\ Len(new.slots) > 0 /\ Inside(new)
  BY <1>3, <1>4, <1>5
<1> QED
  BY <1>6, <1>7 DEF new, file

LEMMA TrailerEdit ==
  ASSUME IndInv, EditInv, NEW e \in Editors, WriteTrailer(e)
  PROVE  EditInv'
<1> DEFINE file == Sealed(draft[e])
           next == "rename"
<1>1. TypeOK /\ pc[e] = "slots" /\ plan[e].slots = <<>>
  BY DEF WriteTrailer, IndInv
<1>2. /\ pc' = [pc EXCEPT ![e] = next]
      /\ plan' = [plan EXCEPT ![e] = plan[e]]
      /\ draft' = [draft EXCEPT ![e] = file]
      /\ UNCHANGED <<pkg, want, moved>>
  BY <1>1 DEF WriteTrailer, Goto, TypeOK
<1>3. /\ Inside(file)
      /\ \A bytes, c : Made(bytes, TRUE, draft[e], plan[e], c)
                         => Made(bytes, TRUE, file, plan[e], c)
  BY <1>1, SealedEdit
<1>4. (next # "boot") = TRUE /\ (pc[e] # "boot") = TRUE /\ pc[e] # "idle"
  BY <1>1
<1> HIDE DEF file, next
<1>5. ASSUME ~moved[e]
      PROVE  Made(pkg.bytes, next # "boot", file, plan[e], want[e])
  <2>1. Made(pkg.bytes, TRUE, draft[e], plan[e], want[e])
    BY <1>4, <1>5 DEF EditInv, EditSound
  <2> QED
    BY <1>3, <1>4, <2>1
<1> QED
  BY <1>1, <1>2, <1>3, <1>5, QuietStep

\* An edit may end anywhere, if it tells the others when the package changes.
LEMMA EndsEdit ==
  ASSUME IndInv, EditInv, NEW e \in Editors, Ends(e), Inside(pkg'),
         Moved(e) \/ UNCHANGED <<pkg, moved>>
  PROVE  EditInv'
<1> DEFINE next == "idle"
<1>1. /\ pc' = [pc EXCEPT ![e] = next]
      /\ plan' = [plan EXCEPT ![e] = NoPlan]
      /\ draft' = [draft EXCEPT ![e] = Absent]
      /\ want' = [want EXCEPT ![e] = Nothing]
      /\ ~(next # "idle") /\ ~(next \in {"rename", "rename again"})
  BY DEF Ends, Goto
<1>2. /\ moved' = [x \in Editors |-> moved'[x]]
      /\ \A x \in Editors : moved'[x] \in BOOLEAN
      /\ \A x \in Editors \ {e} :
           pc[x] # "idle" /\ ~moved'[x] => ~moved[x] /\ pkg'.bytes = pkg.bytes
  BY DEF Moved, EditInv
<1>3. TypeOK
  BY DEF IndInv
<1> HIDE DEF next
<1> QED
  BY <1>1, <1>2, <1>3, AbsentInside, OneEditor

LEMMA RenameEdit ==
  ASSUME IndInv, EditInv, NEW e \in Editors, Rename(e)
  PROVE  EditInv'
<1>1. Inside(pkg')
  BY DEF Rename, EditInv, EditSound
<1> QED
  BY <1>1, EndsEdit DEF Rename

LEMMA FinishEdit ==
  ASSUME IndInv, EditInv, NEW e \in Editors, FinishBundle(e)
  PROVE  EditInv'
<1>1. Inside(pkg')
  BY SealedEdit DEF FinishBundle
<1> QED
  BY <1>1, EndsEdit DEF FinishBundle

LEMMA QuitEdit ==
  ASSUME IndInv, EditInv, NEW e \in Editors, GiveUp(e) \/ Crash(e)
  PROVE  EditInv'
<1>1. Ends(e) /\ UNCHANGED <<pkg, moved>>
  BY DEF GiveUp, Crash
<1>2. Inside(pkg')
  BY <1>1 DEF EditInv
<1> QED
  BY <1>1, <1>2, EndsEdit

LEMMA RemoveOriginalEdit ==
  ASSUME IndInv, EditInv, NEW e \in Editors, RemoveOriginal(e)
  PROVE  EditInv'
<1> DEFINE next == "rename again"
<1>1. TypeOK /\ pc[e] = "rename" /\ plan[e].slots = <<>> /\ Inside(draft[e])
  BY DEF RemoveOriginal, IndInv, EditInv, EditSound
<1>2. /\ pc' = [pc EXCEPT ![e] = next]
      /\ plan' = [plan EXCEPT ![e] = plan[e]]
      /\ draft' = [draft EXCEPT ![e] = draft[e]]
      /\ want' = [want EXCEPT ![e] = want[e]]
  BY <1>1 DEF RemoveOriginal, Goto, TypeOK, EditInv
<1>3. (pkg' = Absent /\ Moved(e)) \/ UNCHANGED <<pkg, moved>>
  BY DEF RemoveOriginal
<1>4. Inside(pkg')
  BY <1>3, AbsentInside DEF EditInv
<1>5. /\ moved' = [x \in Editors |-> moved'[x]]
      /\ \A x \in Editors : moved'[x] \in BOOLEAN
      /\ \A x \in Editors \ {e} :
           pc[x] # "idle" /\ ~moved'[x] => ~moved[x] /\ pkg'.bytes = pkg.bytes
      /\ ~moved'[e] => ~moved[e]
  BY <1>3 DEF Moved, EditInv
<1>6. (next # "boot") = TRUE /\ (pc[e] # "boot") = TRUE /\ pc[e] # "idle"
  BY <1>1
<1> HIDE DEF next
\* Nothing is left to stream, so what is at the package's path is no matter.
<1>7. ASSUME ~moved'[e]
      PROVE  Made(pkg'.bytes, next # "boot", draft[e], plan[e], want[e])
  <2>1. Made(pkg.bytes, TRUE, draft[e], plan[e], want[e])
    BY <1>5, <1>6, <1>7 DEF EditInv, EditSound
  <2>2. Len(plan[e].slots) = 0 /\ 1 .. Len(plan[e].slots) = {}
    BY <1>1, EmptySeq
  <2> DEFINE now == pkg'.bytes
             old == pkg.bytes
             file == draft[e]
             p == plan[e]
             c == want[e]
  <2>3. Made(old, TRUE, file, p, c) /\ 1 .. Len(p.slots) = {}
    BY <2>1, <2>2
  <2> HIDE DEF now, old, file, p, c
  <2>4. Made(now, TRUE, file, p, c)
    BY <2>3 DEF Made
  <2> QED
    BY <1>6, <2>4 DEF now, file, p, c
<1> QED
  BY <1>1, <1>2, <1>4, <1>5, <1>7, OneEditor

-----------------------------------------------------------------------------
(* The theorem.                                                            *)

ExactInv == IndInv /\ EditInv

LEMMA InitExact == Init => ExactInv
<1> SUFFICES ASSUME Init
             PROVE  EditInv
  BY InitInv DEF ExactInv
<1> QED
  BY AbsentInside DEF Init, EditInv, EditSound

LEMMA NextExact ==
  ASSUME ExactInv, [Next]_vars
  PROVE  ExactInv'
<1>1. IndInv /\ TypeOK /\ EditInv
  BY DEF ExactInv, IndInv
<1>2. ASSUME NEW e \in Editors,
             \E boot \in Runtimes, n \in 1 .. MaxSlots :
               \E images \in [1 .. n -> Images], points \in [1 .. n -> Points] :
                 BundleImages(e, boot, images, points)
      PROVE  EditInv'
  BY <1>1, <1>2, BundleEdit
<1>3. ASSUME NEW e \in Editors,
             \E image \in Images, point \in Points : InsertImage(e, image, point)
      PROVE  EditInv'
  BY <1>1, <1>3, InsertEdit
<1>4. ASSUME NEW e \in Editors, \E k \in 1 .. MaxSlots : RemoveImage(e, k)
      PROVE  EditInv'
  BY <1>1, <1>4, RemoveEdit
<1>5. ASSUME NEW e \in Editors, \E runtime \in Runtimes : SetRuntime(e, runtime)
      PROVE  EditInv'
  BY <1>1, <1>5, SetRuntimeEdit
<1>6. ASSUME UNCHANGED vars
      PROVE  EditInv'
  BY <1>1, <1>6 DEF vars, EditInv, EditSound
<1>7. EditInv'
  BY <1>1, <1>2, <1>3, <1>4, <1>5, <1>6, StreamBootEdit, StreamSlotEdit, TrailerEdit,
     RenameEdit, FinishEdit, RemoveOriginalEdit, QuitEdit DEF Next
<1> QED
  BY <1>1, <1>7, NextInv DEF ExactInv

LEMMA ExactInductive == Spec => []ExactInv
BY InitExact, NextExact, PTL DEF Spec

\* An edit that no other editor overtook puts a file in place that holds
\* exactly the parts of the package it read, with the one change asked for.
THEOREM EditsAreExact == Spec => EditIsExact
<1>1. ASSUME ExactInv, NEW e \in Editors, Rename(e) \/ FinishBundle(e), ~moved[e]
      PROVE  Contents(pkg') = want[e]
  <2>1. IndInv /\ EditInv /\ EditSound(e)
    BY <1>1 DEF ExactInv, EditInv
  <2>2. CASE Rename(e)
    <3>1. pkg' = draft[e] /\ (pc[e] # "boot") = TRUE /\ pc[e] # "idle" /\ plan[e].slots = <<>>
      BY <2>1, <2>2 DEF Rename, EditSound
    <3>2. draft[e] \in FileType /\ Len(draft[e].slots) > 0
      <4>1. draft[e] \in FileType /\ Fits(draft[e])
        BY <2>1, <2>2 DEF Rename, IndInv, TypeOK, DraftsFit
      <4>2. Len(draft[e].slots) \in 1 .. MaxSlots
        BY <4>1 DEF Fits
      <4> QED
        BY <4>1, <4>2, PartAssumption
    <3>3. Made(pkg.bytes, TRUE, draft[e], plan[e], want[e])
      BY <1>1, <2>1, <3>1 DEF EditSound
    <3>4. Contents(draft[e]) = want[e]
      BY <3>1, <3>2, <3>3, MadeContents
    <3> QED
      BY <3>1, <3>4
  <2>3. CASE FinishBundle(e)
    <3>1. /\ pkg' = Sealed(draft[e]) /\ (pc[e] # "boot") = TRUE
          /\ pc[e] = "slots" /\ pc[e] # "idle" /\ plan[e].slots = <<>>
      BY <2>3 DEF FinishBundle
    <3>2. Made(pkg.bytes, TRUE, draft[e], plan[e], want[e])
      BY <1>1, <2>1, <3>1 DEF EditSound
    <3>3. /\ Sealed(draft[e]) \in FileType /\ Len(Sealed(draft[e]).slots) > 0
          /\ Made(pkg.bytes, TRUE, Sealed(draft[e]), plan[e], want[e])
      BY <2>1, <3>1, <3>2, SealedEdit
    <3>4. Contents(Sealed(draft[e])) = want[e]
      BY <3>1, <3>3, MadeContents
    <3> QED
      BY <3>1, <3>4
  <2> QED
    BY <1>1, <2>2, <2>3
<1>2. ExactInv => [\A e \in Editors :
        (Rename(e) \/ FinishBundle(e)) /\ ~moved[e] => Contents(pkg') = want[e]]_vars
  BY <1>1
<1> QED
  BY <1>2, ExactInductive, PTL DEF EditIsExact

-----------------------------------------------------------------------------
(***************************************************************************)
(* Default mount points.                                                   *)
(***************************************************************************)
\* Slots that follow before other slots have no default mount point of a lower
\* place.
Low(slots, before) ==
  \A j \in 1 .. Len(slots) : \A n \in 0 .. MaxSlots :
    slots[j].mount = ByDefault(n) => n + 1 >= before + j

\* So it is in the package, in every draft, and for what is still to stream.
LowDraft(file, p) == Low(file.slots, 0) /\ Low(p.slots, Len(file.slots))

MountInv == Low(pkg.slots, 0) /\ \A e \in Editors : LowDraft(draft[e], plan[e])

-----------------------------------------------------------------------------
(* Plans.                                                                  *)

LEMMA NoneLow ==
  ASSUME NEW slots, Len(slots) = 0, NEW before
  PROVE  Low(slots, before)
<1>1. 1 .. Len(slots) = {}
  BY SMT
<1> QED
  BY <1>1 DEF Low

LEMMA OldSlotsLow ==
  ASSUME NEW file \in FileType, Low(file.slots, 0)
  PROVE  Low(OldSlots(file), 0)
<1>1. /\ Len(OldSlots(file)) = Len(file.slots)
      /\ DOMAIN file.slots = 1 .. Len(file.slots)
  BY OldSlotsType, LenProperties DEF FileType
<1>2. \A j \in 1 .. Len(file.slots) : OldSlots(file)[j].mount = file.slots[j].mount
  BY <1>1 DEF OldSlots, Region
<1> QED
  BY <1>1, <1>2 DEF Low

LEMMA DropLow ==
  ASSUME NEW s \in Seq(SourceType), NEW k \in 1 .. Len(s), Low(s, 0)
  PROVE  Low(Drop(s, k), 0)
<1>1. Len(s) \in Nat /\ Len(Drop(s, k)) = Len(s) - 1
  BY LenProperties, DropType
<1> SUFFICES ASSUME NEW j \in 1 .. Len(s) - 1, NEW n \in 0 .. MaxSlots,
                    Drop(s, k)[j].mount = ByDefault(n)
             PROVE  n + 1 >= j
  BY <1>1 DEF Low
<1>2. CASE j < k
  <2>1. Drop(s, k)[j] = s[j] /\ j \in 1 .. Len(s)
    <3>1. Drop(s, k)[j] = IF j < k THEN s[j] ELSE s[j + 1]
      BY <1>1, DropElements, Zenon
    <3> QED
      BY <1>1, <1>2, <3>1
  <2>2. n + 1 >= 0 + j
    BY <2>1 DEF Low
  <2> QED
    BY <2>2
<1>3. CASE ~(j < k)
  <2>1. Drop(s, k)[j] = s[j + 1] /\ j + 1 \in 1 .. Len(s)
    BY <1>1, <1>3, DropElements
  <2>2. n + 1 >= 0 + (j + 1)
    BY <2>1 DEF Low
  <2> QED
    BY <1>1, <2>2, PartAssumption
<1> QED
  BY <1>2, <1>3

\* A slot whose mount is by default has the default one of its place.
LEMMA DefaultNumber ==
  ASSUME NEW point, NEW m, NEW n, MountOf(point, m) = ByDefault(n)
  PROVE  m = n
<1>1. MountOf(point, m) = ByDefault(m)
  <2>1. Given(point).given /\ ~ByDefault(n).given
    BY DEF Given, ByDefault
  <2> QED
    BY <2>1 DEF MountOf
<1>2. ByDefault(m).point = DefaultMount(m) /\ ByDefault(n).point = DefaultMount(n)
  BY DEF ByDefault
<1>3. DefaultMount(m) = DefaultMount(n)
  BY <1>1, <1>2
<1>4. <<"default", m>>[2] = <<"default", n>>[2]
  BY <1>3 DEF DefaultMount
<1> QED
  BY <1>4

-----------------------------------------------------------------------------
(* A step of one editor.                                                   *)

LEMMA OneDraft ==
  ASSUME TypeOK, MountInv, NEW e \in Editors, NEW p, NEW file, LowDraft(file, p),
         plan' = [plan EXCEPT ![e] = p], draft' = [draft EXCEPT ![e] = file],
         Low(pkg'.slots, 0)
  PROVE  MountInv'
<1>1. ASSUME NEW x \in Editors
      PROVE  LowDraft(draft'[x], plan'[x])
  <2>1. CASE x = e
    <3>1. plan'[x] = p /\ draft'[x] = file
      BY <2>1 DEF TypeOK
    <3> QED
      BY <3>1
  <2>2. CASE x # e
    <3>1. plan'[x] = plan[x] /\ draft'[x] = draft[x]
      BY <2>2 DEF TypeOK
    <3> QED
      BY <3>1 DEF MountInv
  <2> QED
    BY <2>1, <2>2
<1> QED
  BY <1>1 DEF MountInv, LowDraft, Low

LEMMA BeginLow ==
  ASSUME TypeOK, MountInv, NEW e \in Editors, NEW p, NEW c, Begin(e, p, c),
         pkg' = pkg \/ pkg' = Absent, Low(p.slots, 0)
  PROVE  MountInv'
<1>1. Len(Absent.slots) = 0
  BY AbsentType
<1>2. LowDraft(Absent, p)
  BY <1>1, NoneLow DEF LowDraft
<1>3. Low(pkg'.slots, 0)
  BY <1>1, NoneLow DEF MountInv
<1> QED
  BY <1>2, <1>3, OneDraft DEF Begin

LEMMA BundleLow ==
  ASSUME TypeOK, MountInv, NEW e \in Editors, NEW boot \in Runtimes, NEW n \in 1 .. MaxSlots,
         NEW images \in [1 .. n -> Images], NEW points \in [1 .. n -> Points],
         BundleImages(e, boot, images, points)
  PROVE  MountInv'
<1> DEFINE slots == [i \in 1 .. n |-> WholeFile(images[i], MountOf(points[i], i - 1))]
<1>1. n \in Nat /\ Len(slots) = n
  BY PartAssumption
<1>2. \A i \in 1 .. n : slots[i].mount = MountOf(points[i], i - 1)
  BY DEF WholeFile
<1>3. Bundling(boot, images, points).slots = slots
  BY DEF Bundling, Plan
<1> HIDE DEF slots
<1>4. ASSUME NEW j \in 1 .. n, NEW m \in 0 .. MaxSlots, slots[j].mount = ByDefault(m)
      PROVE  m + 1 >= 0 + j
  <2>1. j - 1 = m
    BY <1>2, <1>4, DefaultNumber
  <2> QED
    BY <1>1, <2>1
<1>5. Low(slots, 0)
  BY <1>1, <1>4 DEF Low
<1> QED
  BY <1>3, <1>5, BeginLow DEF BundleImages

\* An image goes to the end: its default mount point is that of its place.
LEMMA InsertLow ==
  ASSUME TypeOK, MountInv, NEW e \in Editors, NEW image \in Images,
         NEW point \in Points, InsertImage(e, image, point)
  PROVE  MountInv'
<1> DEFINE old == OldSlots(pkg)
           mount == MountOf(point, Len(pkg.slots))
           new == WholeFile(image, mount)
           slots == Append(old, new)
<1>1. /\ pkg \in FileType /\ Len(pkg.slots) \in Nat /\ Len(pkg.slots) < MaxSlots
      /\ old \in Seq(SourceType) /\ Len(old) = Len(pkg.slots)
  BY OldSlotsType, LenProperties DEF TypeOK, FileType, InsertImage
<1>2. new.mount = mount
  BY DEF WholeFile
<1>3. Low(old, 0)
  BY <1>1, OldSlotsLow DEF MountInv
<1> HIDE DEF old, new
<1>4. /\ Len(slots) = Len(old) + 1 /\ slots[Len(old) + 1] = new
      /\ \A j \in 1 .. Len(old) : slots[j] = old[j]
  BY <1>1
<1>5. Inserting(pkg, image, mount).slots = slots
  BY DEF Inserting, Plan, old, new
<1> HIDE DEF slots
<1>6. ASSUME NEW j \in 1 .. Len(slots), NEW n \in 0 .. MaxSlots, slots[j].mount = ByDefault(n)
      PROVE  n + 1 >= 0 + j
  <2>1. CASE j \in 1 .. Len(old)
    BY <1>3, <1>4, <1>6, <2>1 DEF Low
  <2>2. CASE j = Len(old) + 1
    <3>1. MountOf(point, Len(pkg.slots)) = ByDefault(n)
      BY <1>2, <1>4, <1>6, <2>2
    <3>2. n = Len(pkg.slots)
      BY <3>1, DefaultNumber
    <3> QED
      BY <1>1, <2>2, <3>2
  <2> QED
    BY <1>1, <1>4, <2>1, <2>2
<1>7. Low(slots, 0)
  BY <1>6 DEF Low
<1> QED
  BY <1>5, <1>7, BeginLow DEF InsertImage

LEMMA RemoveLow ==
  ASSUME TypeOK, MountInv, NEW e \in Editors, NEW k \in 1 .. MaxSlots, RemoveImage(e, k)
  PROVE  MountInv'
<1>1. /\ pkg \in FileType /\ DOMAIN pkg.slots = 1 .. Len(pkg.slots)
      /\ OldSlots(pkg) \in Seq(SourceType) /\ Len(OldSlots(pkg)) = Len(pkg.slots)
  BY OldSlotsType, LenProperties DEF TypeOK, FileType
<1>2. Low(Drop(OldSlots(pkg), k), 0)
  BY <1>1, OldSlotsLow, DropLow DEF RemoveImage, MountInv
<1>3. Removing(pkg, k).slots = Drop(OldSlots(pkg), k)
  BY DEF Removing, Plan
<1> QED
  BY <1>2, <1>3, BeginLow DEF RemoveImage

LEMMA SetRuntimeLow ==
  ASSUME TypeOK, MountInv, NEW e \in Editors, NEW runtime \in Runtimes, SetRuntime(e, runtime)
  PROVE  MountInv'
<1>1. Low(OldSlots(pkg), 0)
  BY OldSlotsLow DEF TypeOK, MountInv
<1>2. SettingRuntime(pkg, runtime).slots = OldSlots(pkg)
  BY DEF SettingRuntime, Plan
<1> QED
  BY <1>1, <1>2, BeginLow DEF SetRuntime

LEMMA StreamBootLow ==
  ASSUME IndInv, MountInv, NEW e \in Editors, StreamBoot(e)
  PROVE  MountInv'
<1> DEFINE file == Booted(Streamed(plan[e].boot))
<1>1. /\ TypeOK /\ draft[e].slots = <<>> /\ plan[e] \in PlanType
      /\ pkg' = pkg /\ draft' = [draft EXCEPT ![e] = file] /\ plan' = [plan EXCEPT ![e] = plan[e]]
  BY DEF StreamBoot, IndInv, TypeOK, DraftsFit
<1>2. file.slots = <<>>
  BY DEF Booted
<1> HIDE DEF file
<1>3. LowDraft(file, plan[e])
  BY <1>1, <1>2 DEF MountInv, LowDraft
<1> QED
  BY <1>1, <1>3, OneDraft DEF MountInv

\* The slot that is streamed keeps its place.
LEMMA StreamSlotLow ==
  ASSUME IndInv, MountInv, NEW e \in Editors, StreamSlot(e)
  PROVE  MountInv'
<1> DEFINE todo == plan[e].slots
           done == draft[e].slots
           src == Head(todo)
           file == WithSlot(draft[e], Streamed(src), src.mount)
           p == [plan[e] EXCEPT !.slots = Tail(@)]
           slot == [offset |-> Len(draft[e].bytes), size |-> Len(Streamed(src)), mount |-> src.mount]
<1>1. /\ TypeOK /\ todo \in Seq(SourceType) /\ todo # <<>> /\ done \in Seq(SlotType)
      /\ plan[e] \in PlanType /\ pkg' = pkg
      /\ draft' = [draft EXCEPT ![e] = file] /\ plan' = [plan EXCEPT ![e] = p]
  BY DEF StreamSlot, IndInv, TypeOK, PlanType, FileType
<1>2. /\ Len(todo) \in Nat /\ Len(done) \in Nat /\ Len(Tail(todo)) = Len(todo) - 1 /\ Len(todo) >= 1
      /\ \A j \in 1 .. Len(todo) - 1 : Tail(todo)[j] = todo[j + 1]
      /\ src = todo[1]
  BY <1>1
<1>3. p.slots = Tail(todo)
  BY <1>1 DEF PlanType
<1>4. file.slots = Append(done, slot) /\ slot.mount = src.mount
  BY DEF WithSlot
<1>5. Low(done, 0) /\ Low(todo, Len(done))
  BY DEF MountInv, LowDraft
<1> HIDE DEF todo, done, src, file, p, slot
<1>6. /\ Len(file.slots) = Len(done) + 1 /\ file.slots[Len(done) + 1] = slot
      /\ \A j \in 1 .. Len(done) : file.slots[j] = done[j]
  BY <1>1, <1>2, <1>4
<1>7. ASSUME NEW j \in 1 .. Len(done) + 1, NEW n \in 0 .. MaxSlots,
             file.slots[j].mount = ByDefault(n)
      PROVE  n + 1 >= 0 + j
  <2>1. CASE j \in 1 .. Len(done)
    BY <1>5, <1>6, <1>7, <2>1 DEF Low
  <2>2. CASE j = Len(done) + 1
    <3>1. todo[1].mount = ByDefault(n) /\ 1 \in 1 .. Len(todo)
      BY <1>2, <1>4, <1>6, <1>7, <2>2
    <3>2. n + 1 >= Len(done) + 1
      BY <1>5, <3>1 DEF Low
    <3> QED
      BY <1>2, <2>2, <3>2
  <2> QED
    BY <1>2, <2>1, <2>2
<1>8. ASSUME NEW j \in 1 .. Len(todo) - 1, NEW n \in 0 .. MaxSlots,
             Tail(todo)[j].mount = ByDefault(n)
      PROVE  n + 1 >= (Len(done) + 1) + j
  <2>1. todo[j + 1].mount = ByDefault(n) /\ j + 1 \in 1 .. Len(todo)
    BY <1>2, <1>8
  <2>2. n + 1 >= Len(done) + (j + 1)
    BY <1>5, <2>1 DEF Low
  <2>3. Len(done) + (j + 1) = (Len(done) + 1) + j
    BY <1>2
  <2> QED
    BY <2>2, <2>3
<1>9. LowDraft(file, p)
  BY <1>2, <1>3, <1>6, <1>7, <1>8 DEF LowDraft, Low
<1> QED
  BY <1>1, <1>9, OneDraft DEF MountInv

LEMMA SealedSlots ==
  ASSUME NEW file \in FileType
  PROVE  Sealed(file).slots = file.slots
BY DEF Sealed, FileType

LEMMA TrailerLow ==
  ASSUME IndInv, MountInv, NEW e \in Editors, WriteTrailer(e)
  PROVE  MountInv'
<1>1. /\ TypeOK /\ draft[e] \in FileType /\ pkg' = pkg
      /\ draft' = [draft EXCEPT ![e] = Sealed(draft[e])] /\ plan' = [plan EXCEPT ![e] = plan[e]]
  BY DEF WriteTrailer, IndInv, TypeOK
<1>2. LowDraft(Sealed(draft[e]), plan[e])
  BY <1>1, SealedSlots DEF MountInv, LowDraft
<1> QED
  BY <1>1, <1>2, OneDraft DEF MountInv

LEMMA EndsLow ==
  ASSUME IndInv, MountInv, NEW e \in Editors, Ends(e), Low(pkg'.slots, 0)
  PROVE  MountInv'
<1>1. Len(Absent.slots) = 0 /\ Len(NoPlan.slots) = 0
  BY AbsentType, EmptySeq DEF NoPlan, Plan
<1>2. LowDraft(Absent, NoPlan)
  BY <1>1, NoneLow DEF LowDraft
<1> QED
  BY <1>2, OneDraft DEF Ends, IndInv

LEMMA RemoveOriginalLow ==
  ASSUME IndInv, MountInv, NEW e \in Editors, RemoveOriginal(e)
  PROVE  MountInv'
<1>1. UNCHANGED <<plan, draft>> /\ (pkg' = Absent \/ pkg' = pkg)
  BY DEF RemoveOriginal
<1>2. Low(pkg'.slots, 0)
  BY <1>1, AbsentType, NoneLow DEF MountInv
<1> QED
  BY <1>1, <1>2 DEF MountInv, LowDraft, Low

-----------------------------------------------------------------------------
(* The theorem.                                                            *)

LEMMA InitLow == Init => MountInv
<1> SUFFICES ASSUME Init PROVE MountInv
  OBVIOUS
<1>1. Len(Absent.slots) = 0 /\ Len(NoPlan.slots) = 0
  BY AbsentType, EmptySeq DEF NoPlan, Plan
<1>2. Low(Absent.slots, 0) /\ LowDraft(Absent, NoPlan)
  BY <1>1, NoneLow DEF LowDraft
<1> QED
  BY <1>2 DEF Init, MountInv

LEMMA NextLow ==
  ASSUME IndInv, MountInv, [Next]_vars
  PROVE  MountInv'
<1>1. TypeOK
  BY DEF IndInv
<1>2. ASSUME NEW e \in Editors,
             \E boot \in Runtimes, n \in 1 .. MaxSlots :
               \E images \in [1 .. n -> Images], points \in [1 .. n -> Points] :
                 BundleImages(e, boot, images, points)
      PROVE  MountInv'
  BY <1>1, <1>2, BundleLow
<1>3. ASSUME NEW e \in Editors,
             \E image \in Images, point \in Points : InsertImage(e, image, point)
      PROVE  MountInv'
  BY <1>1, <1>3, InsertLow
<1>4. ASSUME NEW e \in Editors, \E k \in 1 .. MaxSlots : RemoveImage(e, k)
      PROVE  MountInv'
  BY <1>1, <1>4, RemoveLow
<1>5. ASSUME NEW e \in Editors, \E runtime \in Runtimes : SetRuntime(e, runtime)
      PROVE  MountInv'
  BY <1>1, <1>5, SetRuntimeLow
<1>6. ASSUME NEW e \in Editors, Rename(e)
      PROVE  MountInv'
  BY <1>6, EndsLow DEF Rename, MountInv, LowDraft
<1>7. ASSUME NEW e \in Editors, FinishBundle(e)
      PROVE  MountInv'
  <2>1. Low(pkg'.slots, 0)
    BY <1>1, <1>7, SealedSlots DEF FinishBundle, TypeOK, MountInv, LowDraft
  <2> QED
    BY <1>7, <2>1, EndsLow DEF FinishBundle
<1>8. ASSUME NEW e \in Editors, GiveUp(e) \/ Crash(e)
      PROVE  MountInv'
  BY <1>8, EndsLow DEF GiveUp, Crash, MountInv
<1>9. CASE UNCHANGED vars
  BY <1>9 DEF vars, MountInv, LowDraft, Low
<1> QED
  BY <1>2, <1>3, <1>4, <1>5, <1>6, <1>7, <1>8, <1>9, StreamBootLow, StreamSlotLow, TrailerLow,
     RemoveOriginalLow DEF Next

\* A slot that was left to its default mount point never has the number of a
\* place before its own, whoever edits, whatever mount points callers give to
\* other slots, in whatever order, and however the edits end.
THEOREM DefaultMountsKeptLow == Spec => []DefaultMountsMoveDown
<1>1. Init => IndInv /\ MountInv
  BY InitInv, InitLow
<1>2. IndInv /\ MountInv /\ [Next]_vars => (IndInv /\ MountInv)'
  BY NextInv, NextLow
<1>3. IndInv /\ MountInv => DefaultMountsMoveDown
  <2> SUFFICES ASSUME IndInv, MountInv PROVE DefaultMountsMoveDown
    OBVIOUS
  <2>1. DOMAIN pkg.slots = 1 .. Len(pkg.slots) /\ Len(pkg.slots) \in Nat
    BY LenProperties DEF IndInv, TypeOK, FileType
  <2> QED
    BY <2>1 DEF MountInv, Low, DefaultMountsMoveDown
<1> QED
  BY <1>1, <1>2, <1>3, PTL DEF Spec

=============================================================================
