------------------------------ MODULE Namespace ------------------------------
(***************************************************************************)
(* What the three backends answer about the names in an image: exists,     *)
(* is_file, is_directory, list_directory, open, permissions and            *)
(* modification_time (backends/*_backend.cpp).                             *)
(*                                                                         *)
(* A path is the sequence of components below the mount point; the root is *)
(* the empty sequence.  A ZIP archive is a list of names, and a name with  *)
(* a trailing slash is a directory; it may name a file and none of the     *)
(* directories above it.  DwarFS and SquashFS hold a tree.  An entry of    *)
(* type "other" is a symbolic link, a device and the like.  A mode is      *)
(* "ro" if the owner may not write.                                        *)
(***************************************************************************)
EXTENDS Naturals, SequencesExt

CONSTANTS
  Names,         \* the components of paths
  Image          \* [images -> [backend, entries: sequence of [path, type, mode, mtime]]]

Entries(img) == Image[img].entries
Paths(img) == {Entries(img)[i].path : i \in DOMAIN Entries(img)}
Parent(path) == Front(path)

\* A path in a ZIP archive may be named twice, but not as a file and as a
\* directory; a tree names every path once, and the directories above it.
ASSUME ImageAssumption ==
  \A img \in DOMAIN Image :
    LET entries == Image[img].entries
    IN  /\ Image[img].backend \in {"zip", "dwarfs", "squashfs"}
        /\ Len(entries) \in Nat /\ DOMAIN entries = 1 .. Len(entries)
        /\ \A i \in DOMAIN entries :
             /\ entries[i].path \in Seq(Names) /\ entries[i].path # <<>>
             /\ entries[i].type \in {"file", "dir", "other"}
             /\ entries[i].mode \in {"rw", "ro"}
        /\ \A i, j \in DOMAIN entries :
             entries[i].path = entries[j].path =>
               entries[i].type = entries[j].type /\ (Image[img].backend # "zip" => i = j)
        /\ Image[img].backend = "zip" => \A i \in DOMAIN entries : entries[i].type # "other"
        /\ Image[img].backend # "zip" =>
             \A i \in DOMAIN entries :
               \/ Parent(entries[i].path) = <<>>
               \/ \E j \in DOMAIN entries :
                    entries[j].path = Parent(entries[i].path) /\ entries[j].type = "dir"

-----------------------------------------------------------------------------
(* ZipBackend.                                                             *)

None == 0
Numbered(S) == IF S = {} THEN None ELSE CHOOSE i \in S : \A j \in S : i <= j

\* The first entry of this name, with or without the trailing slash.
ZipNameLocate(img, path, slash) ==
  Numbered({i \in DOMAIN Entries(img) :
              Entries(img)[i].path = path /\ (Entries(img)[i].type = "dir") = slash})

\* bug: a name without the slash is not tried with it
LocateExactly(img, path) == ZipNameLocate(img, path, FALSE)

LocateEntry(img, path) ==
  IF ZipNameLocate(img, path, FALSE) # None THEN ZipNameLocate(img, path, FALSE)
  ELSE ZipNameLocate(img, path, TRUE)

ZipExists(img, path) == path = <<>> \/ LocateEntry(img, path) # None
ZipIsFile(img, path) ==
  LocateEntry(img, path) # None /\ Entries(img)[LocateEntry(img, path)].type = "file"
ZipIsDirectory(img, path) ==
  \/ path = <<>>
  \/ ZipNameLocate(img, path, TRUE) # None
  \/ \E p \in Paths(img) : p # path /\ IsPrefix(path, p)
ZipListErrno(img, path) ==
  IF path = <<>> \/ ZipNameLocate(img, path, TRUE) # None THEN "OK"
  ELSE IF LocateEntry(img, path) # None THEN "ENOTDIR" ELSE "ENOENT"
ZipOpenErrno(img, path) ==
  IF LocateEntry(img, path) = None THEN "ENOENT"
  ELSE IF Entries(img)[LocateEntry(img, path)].type = "dir" THEN "EISDIR" ELSE "OK"
ZipPermissions(img, path) == "rw"
ZipMtime(img, path) == Entries(img)[LocateEntry(img, path)].mtime

\* The members of S, the least first.
Ascending(S) ==
  [k \in 1 .. Cardinality(S) |-> CHOOSE i \in S : Cardinality({j \in S : j <= i}) = k]

\* The iterator over these entries, in the order of the archive.
Listing(img, S) ==
  [k \in 1 .. Cardinality(S) |->
     LET e == Entries(img)[Ascending(S)[k]] IN [name |-> Last(e.path), dir |-> e.type = "dir"]]

Below(img, path) == {i \in DOMAIN Entries(img) : Parent(Entries(img)[i].path) = path}

\* Immediate children, each name once.
ZipChildren(img, path) ==
  Listing(img, {i \in Below(img, path) :
                  \A j \in 1 .. i - 1 : Entries(img)[j].path # Entries(img)[i].path})

-----------------------------------------------------------------------------
(* DwarfsBackend, SquashFSBackend.                                         *)

LookupInode(img, path) ==
  Numbered({i \in DOMAIN Entries(img) : Entries(img)[i].path = path})
TypeAt(img, path) ==
  IF path = <<>> THEN "dir"
  ELSE IF LookupInode(img, path) = None THEN "none"
  ELSE Entries(img)[LookupInode(img, path)].type

TreeExists(img, path) == TypeAt(img, path) # "none"
TreeIsFile(img, path) == TypeAt(img, path) = "file"
TreeIsDirectory(img, path) == TypeAt(img, path) = "dir"
DwarfsListErrno(img, path) == IF TreeIsDirectory(img, path) THEN "OK" ELSE "ENOTDIR"
SquashListErrno(img, path) ==
  IF ~TreeExists(img, path) THEN "ENOENT"
  ELSE IF TreeIsDirectory(img, path) THEN "OK" ELSE "ENOTDIR"
TreeOpenErrno(img, path) ==
  IF ~TreeExists(img, path) THEN "ENOENT"
  ELSE IF TreeIsFile(img, path) THEN "OK" ELSE "EISDIR"
TreePermissions(img, path) == Entries(img)[LookupInode(img, path)].mode
TreeMtime(img, path) == Entries(img)[LookupInode(img, path)].mtime
TreeChildren(img, path) == Listing(img, Below(img, path))

-----------------------------------------------------------------------------
(* FileSystem: the backend of the image.                                   *)

IsZip(img) == Image[img].backend = "zip"

Exists(img, path) == IF IsZip(img) THEN ZipExists(img, path) ELSE TreeExists(img, path)
IsFile(img, path) == IF IsZip(img) THEN ZipIsFile(img, path) ELSE TreeIsFile(img, path)
IsDirectory(img, path) ==
  IF IsZip(img) THEN ZipIsDirectory(img, path) ELSE TreeIsDirectory(img, path)
ListErrno(img, path) ==
  CASE Image[img].backend = "zip" -> ZipListErrno(img, path)
    [] Image[img].backend = "dwarfs" -> DwarfsListErrno(img, path)
    [] Image[img].backend = "squashfs" -> SquashListErrno(img, path)
Children(img, path) == IF IsZip(img) THEN ZipChildren(img, path) ELSE TreeChildren(img, path)
OpenErrno(img, path) == IF IsZip(img) THEN ZipOpenErrno(img, path) ELSE TreeOpenErrno(img, path)
Permissions(img, path) ==
  IF IsZip(img) THEN ZipPermissions(img, path) ELSE TreePermissions(img, path)
ModificationTime(img, path) == IF IsZip(img) THEN ZipMtime(img, path) ELSE TreeMtime(img, path)

-----------------------------------------------------------------------------
(* What the image holds, whatever the backend makes of it.                 *)

HasDirectory(img, path) ==
  path = <<>> \/ \E i \in DOMAIN Entries(img) :
                   Entries(img)[i].path = path /\ Entries(img)[i].type = "dir"

\* Every directory above the path has an entry.
Anchored(img, path) == \A n \in 0 .. Len(path) - 1 : HasDirectory(img, SubSeq(path, 1, n))

\* The answers about one path, as every caller combines them: what is listed
\* exists and has the type it is listed with, a directory can be listed, a file
\* and only a file can be opened, and what exists in a directory that has an
\* entry is in its listing.
AnswersAt(img, path) ==
  /\ IsFile(img, path) = (OpenErrno(img, path) = "OK")
  /\ ListErrno(img, path) = "OK" => IsDirectory(img, path) /\ Exists(img, path)
  /\ IsDirectory(img, path) /\ Exists(img, path) => ListErrno(img, path) = "OK"
  /\ IsFile(img, path) => Exists(img, path) /\ ~IsDirectory(img, path)
  /\ ListErrno(img, path) = "OK" =>
       \A i \in DOMAIN Children(img, path) :
         LET child == Children(img, path)[i]
             p == Append(path, child.name)
         IN  /\ Exists(img, p)
             /\ IsDirectory(img, p) = child.dir
             /\ \A j \in DOMAIN Children(img, path) :
                  Children(img, path)[j].name = child.name => j = i
  /\ path # <<>> /\ Exists(img, path) /\ ListErrno(img, Parent(path)) = "OK" =>
       \E i \in DOMAIN Children(img, Parent(path)) :
         Children(img, Parent(path))[i].name = Last(path)

=============================================================================
