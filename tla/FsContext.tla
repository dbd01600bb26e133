------------------------------ MODULE FsContext ------------------------------
(***************************************************************************)
(* The mount table and the descriptor tables behind the libtfs C API       *)
(* (class FsContext, src/src/c_api/fs_context.cpp).                        *)
(*                                                                         *)
(* Every entry point takes mutex_ for its whole body, so one call is one   *)
(* action and the threads of the embedding program are the order in which  *)
(* calls are taken.  The only unlocked entry point, fd_is_embedded, is a   *)
(* pure function of its argument.                                          *)
(*                                                                         *)
(* Data is abstracted to what the calls tell apart: a path is the sequence *)
(* of its components, a mount point also says whether it was spelled with  *)
(* a trailing slash, an image is a set of files and a set of directories,  *)
(* file contents and cursors are in module FileHandle.                     *)
(***************************************************************************)
EXTENDS Integers, Sequences, FiniteSets

CONSTANTS
  Name,          \* path components
  Paths,         \* the paths callers pass in
  MountPoints,   \* the mount points callers pass in
  Images,        \* archive images
  Status,        \* [Images -> how the backends take the image]
  Files,         \* [Images -> set of relative file paths]
  Dirs,          \* [Images -> set of relative directory paths]
  HostFiles,     \* files of the host that callers name as archives
  Host,          \* [HostFiles -> what the host file holds]
  Word,          \* 2^64: uint64_t offsets and lengths are taken modulo Word
  Offsets,       \* offsets and lengths callers pass in
  SeekArgs,      \* positions callers pass to seekdir
  FdFlag,        \* TEBAKO_FD_FLAG
  FdMax,         \* TEBAKO_FD_MAX
  MaxHandles,    \* bound: number of successful mounts
  MaxFds,        \* bound: value next_fd_ stops at
  MaxDirs        \* bound: value next_dir_id_ stops at

ASSUME PathAssumption ==
  /\ Paths \subseteq Seq(Name)
  /\ MountPoints \subseteq [comps : Seq(Name), slash : BOOLEAN]

ASSUME ImageAssumption ==
  /\ Status \in [Images -> {"ok", "unknown", "unsupported", "broken"}]
  /\ Files \in [Images -> SUBSET Seq(Name)]
  /\ Dirs \in [Images -> SUBSET Seq(Name)]
  /\ \A i \in Images : IsFiniteSet(Files[i]) /\ IsFiniteSet(Dirs[i])

\* A host file has a size below 2^64 and holds images at some offsets: the
\* magic number at the offset tells which, and a region shorter than the
\* image truncates it.
ASSUME HostAssumption ==
  /\ Word \in Nat \ {0}
  /\ Offsets \subseteq 0 .. Word - 1
  /\ \A f \in HostFiles :
       /\ Host[f].exists \in BOOLEAN
       /\ Host[f].size \in 0 .. Word - 1
       /\ Host[f].whole \in Images
       /\ \A off \in DOMAIN Host[f].at :
            Host[f].at[off] \in [image : Images, len : Nat]

ASSUME BoundAssumption ==
  /\ FdFlag \in Nat \ {0}
  /\ FdMax \in Nat
  /\ SeekArgs \subseteq Int
  /\ MaxHandles \in Nat
  /\ MaxFds \in Nat
  /\ MaxDirs \in Nat

VARIABLES
  mounts,        \* mounts_: mount handle -> [mp, image]
  fdTable,       \* fd_table_: internal fd -> [owner, path]
  dirTable,      \* dir_table_: directory id -> [owner, path, count, iter, position]
  compat,        \* compat_handle_
  nextHandle,    \* next_handle_
  nextFd,        \* next_fd_
  nextDir,       \* next_dir_id_
  errno,         \* g_tebako_errno of the caller, "OK" for 0
  orphans,       \* history: descriptors unmount_handle closed under their holder
  lost           \* history: descriptors unmount() closed under their holder

vars == <<mounts, fdTable, dirTable, compat, nextHandle, nextFd, nextDir,
          errno, orphans, lost>>
tables == <<mounts, fdTable, dirTable, compat, nextHandle, nextFd, nextDir>>
history == <<orphans, lost>>

-----------------------------------------------------------------------------
(* Paths, mount points and dispatch.                                       *)

NoMount == -1
NoMountPoint == [comps |-> <<>>, slash |-> FALSE]      \* the empty string

IsPrefixOf(s, t) == Len(s) <= Len(t) /\ \A i \in 1 .. Len(s) : s[i] = t[i]

PathIsInMount(path, mp) ==
  /\ mp # NoMountPoint
  /\ IsPrefixOf(mp.comps, path)
  /\ mp.slash => Len(path) > Len(mp.comps)

\* Length of the string, up to a monotone map: "/m" < "/m/" < "/m/x".
MountPointSize(mp) == 2 * Len(mp.comps) + (IF mp.slash THEN 1 ELSE 0)

RelPath(path, mp) == SubSeq(path, Len(mp.comps) + 1, Len(path))

Covering(path) == {h \in DOMAIN mounts : PathIsInMount(path, mounts[h].mp)}

\* The scan of find_mount: ascending handles, replaced only by a longer one.
FindMount(path) ==
  IF Covering(path) = {} THEN NoMount
  ELSE CHOOSE h \in Covering(path) : \A g \in Covering(path) :
         LET sh == MountPointSize(mounts[h].mp)
             sg == MountPointSize(mounts[g].mp)
         IN  sg < sh \/ (sg = sh /\ h <= g)

NeverTaken(mp) == FALSE          \* bug: the duplicate check is missing
MountPointTaken(mp) == \E h \in DOMAIN mounts : mounts[h].mp = mp

IsMounted == DOMAIN mounts # {}
PathIsEmbedded(path) == FindMount(path) # NoMount
Rel(h, path) == RelPath(path, mounts[h].mp)

\* Names a backend finds in a directory of an image.
Children(image, dir) ==
  {c \in Files[image] \cup Dirs[image] :
     Len(c) = Len(dir) + 1 /\ IsPrefixOf(dir, c)}

-----------------------------------------------------------------------------
(* Descriptor numbers.                                                     *)

Flagged(n) == IF n >= FdFlag THEN n ELSE n + FdFlag    \* n | TEBAKO_FD_FLAG
Unflagged(fd) == fd % FdFlag                           \* fd & ~TEBAKO_FD_FLAG
FdIsEmbedded(fd) == fd >= FdFlag                       \* fd & TEBAKO_FD_FLAG
FdValues == 0 .. 2 * FdFlag - 1                        \* non-negative ints

NoFd == -1
LookupFd(fd) ==
  IF FdIsEmbedded(fd) /\ Unflagged(fd) \in DOMAIN fdTable
  THEN Unflagged(fd) ELSE NoFd

Least(S) == CHOOSE n \in S : \A k \in S : n <= k

\* bug: the lowest free number, as POSIX open does
LowestFree == Least({n \in 1 .. MaxFds : n \notin DOMAIN fdTable})

FreeFds(lo) == {n \in lo .. FdMax : n \notin DOMAIN fdTable}

\* bug: the wrap-around resets next_fd_ whenever it passes TEBAKO_FD_MAX
WrapsAround ==
  IF nextFd <= FdMax THEN nextFd ELSE Least(FreeFds(1) \cup {nextFd})

\* allocate_fd: next_fd_ when it is free, however large it is; the
\* wrap-around test is reached only from inside the search for a free number.
AllocateFd ==
  IF nextFd \notin DOMAIN fdTable THEN nextFd
  ELSE IF FreeFds(nextFd) # {} THEN Least(FreeFds(nextFd)) ELSE Least(FreeFds(1))

AllocateDir == nextDir

DirIsEmbedded(d) == d \in DOMAIN dirTable

-----------------------------------------------------------------------------
(* Tables as functions over a varying domain.                              *)

Without(f, S) == [x \in DOMAIN f \ S |-> f[x]]
With(f, x, v) == [y \in DOMAIN f \cup {x} |-> IF y = x THEN v ELSE f[y]]

NoFdsOf(h) == {}                     \* bug: the scan of fd_table_ is missing
FdsOf(h) == {n \in DOMAIN fdTable : fdTable[n].owner = h}
AllDirs(h) == DOMAIN dirTable        \* bug: it does not compare the owner
DirsOf(h) == {d \in DOMAIN dirTable : dirTable[d].owner = h}

\* Descriptors as callers hold them, of either kind.
Held(fds, dirs) == {<<"fd", n>> : n \in fds} \cup {<<"dir", d>> : d \in dirs}

Return(e) == errno' = e
Fail(e) == Return(e) /\ UNCHANGED <<tables, history>>

-----------------------------------------------------------------------------
(* Mounting.                                                               *)

\* A failed backend creation or backend mount, as errno.
MountErrno == [ok |-> "OK", unknown |-> "EINVAL", unsupported |-> "ENOTSUP",
               broken |-> "EIO"]

\* uint64_t subtraction, modulo Word
Minus(a, b) == IF b <= a THEN a - b ELSE a - b + Word

\* bug: the end of the region is computed in uint64_t
RegionLengthWraps(size, off, len) ==
  IF (off + len) % Word > size THEN 0
  ELSE IF len = 0 THEN Minus(size, off) ELSE len

\* std::numeric_limits<std::streamsize>::max(), what ifstream::read can take
StreamsizeMax == Word \div 2 - 1

\* Length of the region [off, off + len) of a file, 0 when it is refused.
RegionLength(size, off, len) ==
  LET region == IF len = 0 THEN Minus(size, off) ELSE len
  IN  IF \/ off > size
         \/ len > Minus(size, off)
         \/ region > StreamsizeMax
      THEN 0 ELSE region

\* create_from_file, then mount: a file that cannot be opened has no backend.
WholeFileErrno(f) ==
  IF ~Host[f].exists THEN "EINVAL" ELSE MountErrno[Status[Host[f].whole]]

\* The checks of mount_from_file_at_locked, in their order.
RegionErrno(f, off, len) ==
  LET n == RegionLength(Host[f].size, off, len)
  IN  IF ~Host[f].exists THEN "ENOENT"
      ELSE IF n = 0 THEN "EINVAL"
      ELSE IF off + n > Host[f].size THEN "EIO"          \* the read comes up short
      ELSE IF off \notin DOMAIN Host[f].at THEN "EINVAL"
      ELSE IF n < Host[f].at[off].len THEN "EIO"
      ELSE MountErrno[Status[Host[f].at[off].image]]

\* bug: handles of unmounted mounts are taken again
InsertLowest(mp, image) ==
  /\ Cardinality(DOMAIN mounts) < MaxHandles
  /\ LET h == Least(0 .. MaxHandles \ DOMAIN mounts)
     IN  /\ mounts' = With(mounts, h, [mp |-> mp, image |-> image])
         /\ nextHandle' = h + 1
  /\ Return("OK")
  /\ UNCHANGED <<fdTable, dirTable, nextFd, nextDir, history>>

InsertMount(mp, image) ==
  /\ nextHandle < MaxHandles
  /\ mounts' = With(mounts, nextHandle, [mp |-> mp, image |-> image])
  /\ nextHandle' = nextHandle + 1
  /\ Return("OK")
  /\ UNCHANGED <<fdTable, dirTable, nextFd, nextDir, history>>

\* The three mount paths; c is what becomes of compat_handle_ on success.
MountWholeFile(f, mp, c) ==
  LET e == IF MountPointTaken(mp) THEN "EEXIST" ELSE WholeFileErrno(f)
  IN  \/ e # "OK" /\ Fail(e)
      \/ /\ e = "OK"
         /\ InsertMount(mp, Host[f].whole)
         /\ compat' = c

MountRegionErrno(f, off, len, mp) ==
  IF MountPointTaken(mp) THEN "EEXIST" ELSE RegionErrno(f, off, len)

MountRegion(f, off, len, mp, c) ==
  LET e == MountRegionErrno(f, off, len, mp)
  IN  \/ e # "OK" /\ Fail(e)
      \/ e = "OK" /\ Fail("EIO")                 \* seekg or read fails
      \/ /\ e = "OK"
         /\ InsertMount(mp, Host[f].at[off].image)
         /\ compat' = c

MountMemory(i, mp, c) ==
  LET e == IF MountPointTaken(mp) THEN "EEXIST" ELSE MountErrno[Status[i]]
  IN  \/ e # "OK" /\ Fail(e)
      \/ /\ e = "OK"
         /\ InsertMount(mp, i)
         /\ compat' = c

\* mount_from_file is mount_from_file_at with offset and length 0.
MountFromFileAt(f, off, len, mp) ==
  \/ mp = NoMountPoint /\ Fail("EINVAL")
  \/ mp # NoMountPoint /\ off = 0 /\ len = 0 /\ MountWholeFile(f, mp, compat)
  \/ /\ mp # NoMountPoint /\ ~(off = 0 /\ len = 0)
     /\ MountRegion(f, off, len, mp, compat)

MountFromMemory(i, mp) ==
  \/ mp = NoMountPoint /\ Fail("EINVAL")
  \/ mp # NoMountPoint /\ MountMemory(i, mp, compat)

\* init*: single mount, and no check of the mount point.
InitFromFileAt(f, off, len, mp) ==
  \/ IsMounted /\ Fail("EEXIST")
  \/ ~IsMounted /\ off = 0 /\ len = 0 /\ MountWholeFile(f, mp, nextHandle)
  \/ ~IsMounted /\ ~(off = 0 /\ len = 0) /\ MountRegion(f, off, len, mp, nextHandle)

InitFromMemory(i, mp) ==
  \/ IsMounted /\ Fail("EEXIST")
  \/ ~IsMounted /\ MountMemory(i, mp, nextHandle)

Dangling(h) == compat                \* bug: the handle is left behind
CompatAfter(h) == IF compat = h THEN NoMount ELSE compat

UnmountHandle(h) ==
  \/ h \notin DOMAIN mounts /\ Fail("ENODEV")
  \/ /\ h \in DOMAIN mounts
     /\ fdTable' = Without(fdTable, FdsOf(h))
     /\ dirTable' = Without(dirTable, DirsOf(h))
     /\ mounts' = Without(mounts, {h})
     /\ compat' = CompatAfter(h)
     /\ Return("OK")
     /\ orphans' = orphans \cup Held(FdsOf(h), DirsOf(h))
     /\ UNCHANGED <<nextHandle, nextFd, nextDir, lost>>

\* bug: every counter restarts, and from 0
RestartsAll ==
  /\ mounts' = <<>> /\ fdTable' = <<>> /\ dirTable' = <<>>
  /\ nextHandle' = 0 /\ nextFd' = 0 /\ nextDir' = 0
  /\ compat' = NoMount /\ orphans' = {}
  /\ UNCHANGED <<errno, lost>>

\* unmount() leaves errno alone and restarts the descriptor counters.
Unmount ==
  /\ mounts' = <<>>
  /\ fdTable' = <<>>
  /\ dirTable' = <<>>
  /\ nextFd' = 1
  /\ nextDir' = 1
  /\ compat' = NoMount
  /\ orphans' = {}
  /\ lost' = lost \cup orphans \cup Held(DOMAIN fdTable, DOMAIN dirTable)
  /\ UNCHANGED <<nextHandle, errno>>

-----------------------------------------------------------------------------
(* Files.                                                                  *)

OpenErrno(path, accmode) ==
  LET h == FindMount(path)
  IN  IF ~IsMounted THEN "ENODEV"
      ELSE IF accmode # "O_RDONLY" THEN "EROFS"
      ELSE IF h = NoMount THEN "ENOENT"
      ELSE IF Rel(h, path) \in Files[mounts[h].image] THEN "OK"
      ELSE IF Rel(h, path) \in Dirs[mounts[h].image] THEN "EISDIR"
      ELSE "ENOENT"

Open(path, accmode) ==
  LET e == OpenErrno(path, accmode)
      n == AllocateFd
  IN  \/ e # "OK" /\ Fail(e)
      \/ e = "EISDIR" /\ Fail("ENOENT")  \* ZIP: the root, or no entry of its own
      \/ e = "OK" /\ Fail("EIO")                 \* the backend's open fails
      \/ /\ e = "OK"
         /\ nextFd < MaxFds
         /\ fdTable' = With(fdTable, n, [owner |-> FindMount(path), path |-> path])
         /\ nextFd' = n + 1
         /\ Return("OK")
         /\ UNCHANGED <<mounts, dirTable, compat, nextHandle, nextDir, history>>

\* read, pread and lseek change nothing in FsContext; what they do to the
\* handle is module FileHandle.  bad is the errno of a failing handle call.
OnHandle(fd, bad) ==
  \/ LookupFd(fd) = NoFd /\ Fail("EBADF")
  \/ LookupFd(fd) # NoFd /\ \E e \in {"OK", bad} : Fail(e)

Read(fd) == OnHandle(fd, "EIO")

Lseek(fd) == OnHandle(fd, "EINVAL")

Pread(fd, offset) ==
  \/ OnHandle(fd, "EIO") /\ (LookupFd(fd) # NoFd => offset >= 0)
  \/ LookupFd(fd) # NoFd /\ offset < 0 /\ Fail("EINVAL")

Close(fd) ==
  \/ LookupFd(fd) = NoFd /\ Fail("EBADF")
  \/ /\ LookupFd(fd) # NoFd
     /\ fdTable' = Without(fdTable, {Unflagged(fd)})
     /\ Return("OK")
     /\ UNCHANGED <<mounts, dirTable, compat, nextHandle, nextFd, nextDir, history>>

\* stat of the file a mount dispatches the path to.
StatErrno(path) ==
  LET h == FindMount(path)
  IN  IF h = NoMount THEN "ENOENT"
      ELSE IF Rel(h, path) \in Files[mounts[h].image] \cup Dirs[mounts[h].image]
           THEN "OK" ELSE "ENOENT"

\* The backend may lack the time, size or permissions of what exists, and
\* what exists may be neither a file nor a directory for it.
Stat(path) ==
  \/ Fail(StatErrno(path))
  \/ StatErrno(path) = "OK" /\ \E e \in {"ENOENT", "EIO", "EINVAL"} : Fail(e)

FileStat(path) ==
  \/ ~IsMounted /\ Fail("ENODEV")
  \/ IsMounted /\ Stat(path)

\* fstat dispatches the path of the open file again.
FdStat(fd) ==
  \/ LookupFd(fd) = NoFd /\ Fail("EBADF")
  \/ LookupFd(fd) # NoFd /\ Stat(fdTable[LookupFd(fd)].path)

-----------------------------------------------------------------------------
(* Directories.                                                            *)

OpendirErrno(path) ==
  LET h == FindMount(path)
  IN  IF ~IsMounted THEN "ENODEV"
      ELSE IF h = NoMount THEN "ENOENT"
      ELSE IF Rel(h, path) \in Dirs[mounts[h].image] THEN "OK"
      ELSE IF Rel(h, path) \in Files[mounts[h].image] THEN "ENOTDIR"
      ELSE "ENOENT"

\* The backend snapshots the listing: count entries, the iterator before
\* the first one.
Opendir(path) ==
  LET e == OpendirErrno(path)
      h == FindMount(path)
  IN  \/ e # "OK" /\ Fail(e)
      \/ e = "OK" /\ Fail("EIO")                 \* the backend's listing fails
      \/ /\ e = "OK"
         /\ nextDir < MaxDirs
         /\ dirTable' = With(dirTable, AllocateDir,
              [owner |-> h, path |-> path, iter |-> 0, position |-> 0,
               count |-> Cardinality(Children(mounts[h].image, Rel(h, path)))])
         /\ nextDir' = AllocateDir + 1
         /\ Return("OK")
         /\ UNCHANGED <<mounts, fdTable, compat, nextHandle, nextFd, history>>

SetDir(d, state) ==
  /\ dirTable' = With(dirTable, d, state)
  /\ Return("OK")
  /\ UNCHANGED <<mounts, fdTable, compat, nextHandle, nextFd, nextDir, history>>

HasNext(state) == state.iter < state.count
\* bug: only the iterator is rewound
IterReset(state) == [state EXCEPT !.iter = 0]
Reset(state) == [state EXCEPT !.iter = 0, !.position = 0]
\* k calls of iterator->next(), each counted in position
Advance(state, k) == [state EXCEPT !.iter = @ + k, !.position = @ + k]

Readdir(d) ==
  \/ ~DirIsEmbedded(d) /\ Fail("EBADF")
  \/ DirIsEmbedded(d) /\ ~HasNext(dirTable[d]) /\ Fail("OK")
  \/ DirIsEmbedded(d) /\ HasNext(dirTable[d]) /\ SetDir(d, Advance(dirTable[d], 1))

Rewinddir(d) ==
  \/ ~DirIsEmbedded(d) /\ Fail("EBADF")
  \/ DirIsEmbedded(d) /\ SetDir(d, Reset(dirTable[d]))

Telldir(d) == Fail(IF DirIsEmbedded(d) THEN "OK" ELSE "EBADF")

\* Backward seeks restart the forward-only iterator; entries are consumed
\* until the position or the end is reached.
SeekFrom(state, pos) ==
  LET start == IF pos < state.position THEN Reset(state) ELSE state
      wanted == pos - start.position
      left == start.count - start.iter
  IN  Advance(start, IF wanted <= left THEN wanted ELSE left)

Seekdir(d, pos) ==
  \/ ~DirIsEmbedded(d) /\ Fail("EBADF")
  \/ DirIsEmbedded(d) /\ pos < 0 /\ Fail("EINVAL")
  \/ DirIsEmbedded(d) /\ pos >= 0 /\ SetDir(d, SeekFrom(dirTable[d], pos))

Closedir(d) ==
  \/ ~DirIsEmbedded(d) /\ Fail("EBADF")
  \/ /\ DirIsEmbedded(d)
     /\ dirTable' = Without(dirTable, {d})
     /\ Return("OK")
     /\ UNCHANGED <<mounts, fdTable, compat, nextHandle, nextFd, nextDir, history>>

-----------------------------------------------------------------------------
Init ==
  /\ mounts = <<>>
  /\ fdTable = <<>>
  /\ dirTable = <<>>
  /\ compat = NoMount
  /\ nextHandle = 0
  /\ nextFd = 1
  /\ nextDir = 1
  /\ errno = "OK"
  /\ orphans = {}
  /\ lost = {}

Mounting ==
  \E mp \in MountPoints :
    \/ \E f \in HostFiles, off \in Offsets, len \in Offsets :
         MountFromFileAt(f, off, len, mp) \/ InitFromFileAt(f, off, len, mp)
    \/ \E i \in Images : MountFromMemory(i, mp) \/ InitFromMemory(i, mp)

Unmounting == Unmount \/ \E h \in 0 .. MaxHandles : UnmountHandle(h)

OnPath ==
  \E path \in Paths :
    \/ \E accmode \in {"O_RDONLY", "O_RDWR"} : Open(path, accmode)
    \/ Opendir(path)
    \/ FileStat(path)

OnFd ==
  \E fd \in FdValues :
    \/ Read(fd)
    \/ \E offset \in {-1, 0} : Pread(fd, offset)
    \/ Lseek(fd)
    \/ Close(fd)
    \/ FdStat(fd)

OnDir ==
  \E d \in 0 .. MaxDirs :
    \/ Readdir(d)
    \/ Rewinddir(d)
    \/ Telldir(d)
    \/ \E pos \in SeekArgs : Seekdir(d, pos)
    \/ Closedir(d)

Next == Mounting \/ Unmounting \/ OnPath \/ OnFd \/ OnDir

Spec == Init /\ [][Next]_vars

-----------------------------------------------------------------------------
(* Properties.                                                             *)

MountRecord == [mp : MountPoints, image : Images]
FdRecord == [owner : Nat, path : Paths]
DirRecord == [owner : Nat, path : Paths, iter : Nat, position : Nat, count : Nat]
Descriptors == {"fd", "dir"} \X Nat
Errnos == {"OK", "EBADF", "EEXIST", "EINVAL", "EIO", "EISDIR", "ENODEV",
           "ENOENT", "ENOTDIR", "ENOTSUP", "EROFS"}

\* Type invariant of the state FsContext keeps (fs_context.h:464-475).
TypeOK ==
  /\ DOMAIN mounts \subseteq Nat
  /\ mounts \in [DOMAIN mounts -> MountRecord]
  /\ DOMAIN fdTable \subseteq Nat
  /\ fdTable \in [DOMAIN fdTable -> FdRecord]
  /\ DOMAIN dirTable \subseteq Nat
  /\ dirTable \in [DOMAIN dirTable -> DirRecord]
  /\ compat \in Nat \cup {NoMount}
  /\ nextHandle \in Nat
  /\ nextFd \in Nat \ {0}
  /\ nextDir \in Nat \ {0}
  /\ errno \in Errnos
  /\ orphans \subseteq Descriptors
  /\ lost \subseteq Descriptors

\* No descriptor outlives the filesystem it reads from: the owner of every
\* open file and directory is mounted, and still holds the entry the
\* descriptor was opened on (the handles borrow the owner's archive).
OwnerHolds(t, kind) ==
  \A x \in DOMAIN t :
    LET m == t[x].owner
    IN  /\ m \in DOMAIN mounts
        /\ PathIsInMount(t[x].path, mounts[m].mp)
        /\ Rel(m, t[x].path) \in kind[mounts[m].image]
DescriptorsOwned == OwnerHolds(fdTable, Files) /\ OwnerHolds(dirTable, Dirs)

\* A path has one owning mount: two mounts that cover the same path never
\* tie in find_mount, so dispatch does not hang on the order of the scan.
DispatchUnambiguous ==
  \A path \in Paths : \A g, h \in Covering(path) :
    MountPointSize(mounts[g].mp) = MountPointSize(mounts[h].mp) => g = h

\* mount_from_file_at compares without overflow: a region of an existing file
\* that is empty, or does not lie in the file in unbounded arithmetic, is
\* refused before anything is allocated or read for it.
LiesIn(f, off, len) == off < Host[f].size /\ off + len <= Host[f].size
BadRegions ==
  {r \in HostFiles \X Offsets \X Offsets :
     /\ Host[r[1]].exists
     /\ r[2] # 0 \/ r[3] # 0
     /\ ~LiesIn(r[1], r[2], r[3])}
RegionsChecked ==
  \A r \in BadRegions, mp \in MountPoints :
    MountRegionErrno(r[1], r[2], r[3], mp) \in {"EEXIST", "EINVAL"}

\* The compatibility accessors (mount point, archive path, backend name)
\* speak of a live mount, the oldest one, and only init* can have mounted
\* at the empty mount point, which no path reaches.
CompatIsFirst ==
  /\ compat # NoMount => /\ compat \in DOMAIN mounts
                         /\ \A h \in DOMAIN mounts : compat <= h
  /\ \A h \in DOMAIN mounts : mounts[h].mp = NoMountPoint => h = compat

\* Descriptors force-closed by unmount_handle keep failing with EBADF: no
\* later open or opendir hands the same number out again (c_api.h:310-312).
OrphansStayInvalid ==
  orphans \cap Held(DOMAIN fdTable, DOMAIN dirTable) = {}

\* next_fd_ is above every open descriptor, so the search for a free number
\* in allocate_fd, and the wrap-around inside it, never run: not even when
\* next_fd_ has passed TEBAKO_FD_MAX (fs_context.cpp:1311-1321), so that a
\* number in use is never handed out twice, and no limit is kept.
CounterAboveFds ==
  /\ \A n \in DOMAIN fdTable : n < nextFd
  /\ \A d \in DOMAIN dirTable : d < nextDir

\* The cookie telldir returns is the ordinal of the entry readdir returns
\* next, through any mix of reads, rewinds and seeks (c_api.h:519-523).
CookieIsOrdinal ==
  \A d \in DOMAIN dirTable :
    /\ dirTable[d].position = dirTable[d].iter
    /\ dirTable[d].iter <= dirTable[d].count

\* A call closes a descriptor of another mount than the one it unmounts
\* only if it is the close of that descriptor: unmount_handle leaves the
\* other mounts' open files and directory positions alone (c_api.h:310-312).
OthersUndisturbed ==
  [][\A h \in DOMAIN mounts \cap DOMAIN mounts' :
       /\ mounts'[h] = mounts[h]
       /\ DOMAIN mounts' # DOMAIN mounts =>
            /\ \A n \in FdsOf(h) : n \in DOMAIN fdTable' /\ fdTable'[n] = fdTable[n]
            /\ \A d \in DirsOf(h) : d \in DOMAIN dirTable' /\ dirTable'[d] = dirTable[d]
    ]_vars

\* A mount handle names one mount for the life of the process: once it is
\* unmounted no later mount gets it, not even after unmount() (c_api.h:220).
HandlesNeverReused ==
  [][/\ nextHandle' >= nextHandle
     /\ \A h \in DOMAIN mounts' \ DOMAIN mounts : h >= nextHandle /\ h < nextHandle']_vars

\* c_api.h:198, "After unmount, all file descriptors and directory handles
\* become invalid": a descriptor unmount() closed is never accepted again.
LostStayInvalid == lost \cap Held(DOMAIN fdTable, DOMAIN dirTable) = {}

\* fstat dispatches the path of an open file again.  It speaks of another
\* file than the open one only when a mount made after the file's own has
\* taken the path over; an older mount never does, not even when mounts
\* between the two go away.
ShadowedOnlyByNewer ==
  \A n \in DOMAIN fdTable : FindMount(fdTable[n].path) >= fdTable[n].owner

-----------------------------------------------------------------------------
(* The inductive invariant: the properties above and what they rest on.    *)

HandlesBelowCounter == \A h \in DOMAIN mounts : h < nextHandle

MountPointsDistinct ==
  \A g, h \in DOMAIN mounts : mounts[g].mp = mounts[h].mp => g = h

\* An orphan's number has been passed by the counter it came from.
OrphansBelowCounters ==
  \A o \in orphans : o[2] < (IF o[1] = "fd" THEN nextFd ELSE nextDir)

IndInv ==
  /\ TypeOK
  /\ HandlesBelowCounter
  /\ MountPointsDistinct
  /\ CompatIsFirst
  /\ DescriptorsOwned
  /\ CounterAboveFds
  /\ OrphansBelowCounters
  /\ OrphansStayInvalid
  /\ CookieIsOrdinal

=============================================================================
