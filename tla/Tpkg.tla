-------------------------------- MODULE Tpkg --------------------------------
(***************************************************************************)
(* The manifest trailer of a package (include/tebako/tpkg.h): a table of   *)
(* slot records, and a header in the last bytes of the file that says      *)
(* where the table starts.                                                 *)
(*                                                                         *)
(* A file is a sequence of bytes, and a byte is known by where it comes    *)
(* from: the k-th of a part, of a slot record or of a header.  A header    *)
(* says if its magic number is whole and its checksum right; bytes that    *)
(* are no record, read as one, give the record Junk.  Offsets and sizes    *)
(* are uint64_t, taken modulo Word.                                        *)
(***************************************************************************)
EXTENDS Naturals, Sequences

CONSTANTS
  HeaderSize,    \* TPKG_HEADER_SIZE
  SlotSize,      \* TPKG_SLOT_SIZE
  MaxSlots,      \* TPKG_MAX_SLOTS
  MaxFormat,     \* TPKG_FORMAT_RUNTIME
  Word,          \* 2^64
  Junk           \* the record read where there is none

ASSUME TpkgAssumption ==
  /\ HeaderSize \in Nat \ {0}
  /\ SlotSize \in Nat \ {0}
  /\ MaxSlots \in Nat \ {0}
  /\ MaxFormat \in Nat
  /\ Word \in Nat \ {0}

Version == 1
Unterminated == <<"unterminated", 0>>      \* a mount point that fills its whole field

PartByte(part, k) == [kind |-> "part", part |-> part, k |-> k]
SlotBytes(slot) == [k \in 1 .. SlotSize |-> [kind |-> "slot", slot |-> slot, k |-> k]]
HeaderBytes(header) ==
  [k \in 1 .. HeaderSize |-> [kind |-> "header", header |-> header, k |-> k]]

-----------------------------------------------------------------------------
(* tpkg_validate                                                           *)

Slot(offset, size, format, mount) ==
  [offset |-> offset, size |-> size, format |-> format, mount |-> mount]

ValidSlot(s) ==
  /\ s.size <= Word - 1 - s.offset
  /\ s.format <= MaxFormat
  /\ s.mount # Unterminated

Validate(version, slots) ==
  IF version # Version THEN "VERSION"
  ELSE IF Len(slots) \notin 1 .. MaxSlots THEN "SLOTS"
  ELSE IF \E i \in DOMAIN slots : ~ValidSlot(slots[i]) THEN "INVALID"
  ELSE "OK"

-----------------------------------------------------------------------------
(* tpkg_read_fd, tpkg_read_mem                                             *)

TableFits(table, count, avail) ==
  table <= avail /\ count <= (avail - table) \div SlotSize

RecordAt(file, offset) ==
  IF offset < Len(file) /\ file[offset + 1].kind = "slot" /\ file[offset + 1].k = 1
  THEN file[offset + 1].slot
  ELSE Junk

HasHeader(file) ==
  /\ Len(file) >= HeaderSize
  /\ file[Len(file) - HeaderSize + 1].kind = "header"
  /\ file[Len(file) - HeaderSize + 1].k = 1
Header(file) == file[Len(file) - HeaderSize + 1].header

HeaderError(file) ==
  IF ~HasHeader(file) THEN "NO_TRAILER"
  ELSE LET h == Header(file)
       IN  IF ~h.magic THEN "MAGIC"
           ELSE IF ~h.crc THEN "CRC"
           ELSE IF h.version # Version THEN "VERSION"
           ELSE IF h.count \notin 1 .. MaxSlots THEN "SLOTS"
           ELSE IF ~TableFits(h.table, h.count, Len(file) - HeaderSize) THEN "BOUNDS"
           ELSE "OK"

Records(file) ==
  [i \in 1 .. Header(file).count |->
     RecordAt(file, Header(file).table + ((i - 1) * SlotSize))]

ReadError(file) ==
  IF HeaderError(file) # "OK" THEN HeaderError(file)
  ELSE Validate(Header(file).version, Records(file))

-----------------------------------------------------------------------------
(* tpkg_write_fd: the table goes to the end of the file, the header after  *)
(* it.  An invalid manifest appends nothing.                               *)

NewHeader(count, table) ==
  [magic |-> TRUE, crc |-> TRUE, version |-> Version, count |-> count, table |-> table]

Table(slots) ==
  [k \in 1 .. Len(slots) * SlotSize |->
     SlotBytes(slots[1 + ((k - 1) \div SlotSize)])[1 + ((k - 1) % SlotSize)]]

Write(file, slots) ==
  IF Validate(Version, slots) # "OK" THEN file
  ELSE file \o Table(slots) \o HeaderBytes(NewHeader(Len(slots), Len(file)))

=============================================================================
