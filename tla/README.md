# A TLA+ model of libtfs

libtfs gives a program the files of archive images (ZIP, DwarFS, SquashFS) that
are mounted inside its process, through a POSIX-like C API, and ships the tool
that glues a program and its images into one *package* file. This directory
holds TLA+ modules of its core, configurations that TLC checks, and proofs that
TLAPS checks. Everything is read from `src/` and `include/tebako/`; the map from
definitions to lines of code is `PROJECT.json`, `map`.

    tlc -config fs_descriptors.cfg MCFsContext.tla
    tlapm FsContextProofs.tla

## 1. The system

| Component | Code | State | Operations | Interacts with |
|---|---|---|---|---|
| FsContext | `src/c_api/fs_context.cpp` | mount table, fd table, directory table, three counters, compatibility handle | mount (whole file, region, memory), init*, unmount_handle, unmount, open, read, pread, lseek, close, stat, fstat, opendir, readdir, seekdir, telldir, rewinddir, closedir, accessors | the C API calls it; its mutex covers every call; it dispatches a path to the backend of the longest mount point that covers it |
| dlmap2file | `fs_context.cpp:913` | path cache, temporary directory | extract one file to the host, tear down at exit | mount table, host file system |
| extract_all | `fs_context.cpp:267`, `:862` | none | copy every mount to a directory | backends, host file system |
| File handles | `src/backends/*_backend.cpp` | size, position, end-of-file flag, libzip stream | read, pread, seek, tell, close | the fd table owns them; they borrow the archive of their backend |
| Backend name spaces | the same files | archive index | exists, is_directory, list_directory, sizes, times, permissions | FsContext, DirectoryIterator |
| Backend locks | the same files | archive, its name, a `shared_mutex` | mount, unmount and every query | called under FsContext's mutex, or directly by C++ programs |
| Backend factory | `backend_factory.cpp` | none | detect by magic number or extension | FsContext's mount path |
| Backend registry | `backend_registry.cpp` | list of backends, mutex | register, clear, create by file, name or extension, get_info | C++ programs and tests |
| C API | `src/c_api.cpp` | two static strings | argument checks, errno, accessors | FsContext |
| tpkg | `include/tebako/tpkg.h` | global error code | read, validate, append the trailer of a package | package tooling, launchers |
| Package tooling | `src/cli/package.cpp` | none but files | bundle, insert-image, remove-image, set-runtime, unbundle, reassemble | tpkg, host file system, other processes |
| LRU cache | `fs/cache/lru_cache.h` | list, map, capacity, statistics, mutex | get, put, erase, clear, set_max_size, get_or_compute | C++ programs |
| Path, config, errors, CLI | `src/core`, `src/cli/tebakofs.cpp` | none shared | string functions, option parsing, printing | all |

What is hard in it, and what makes each part correct:

* **FsContext** serialises its calls, so nothing goes wrong *within* a call; what
  goes wrong is between calls. A mount can disappear while descriptors into it
  are held, numbers can come back, a nested mount can take a path over from an
  open file, a seek on a forward-only iterator restarts it. Correct means: no
  descriptor outlives its archive, an unmount touches nothing of another mount,
  a closed number stays closed, a path has one owner, regions never leave the
  file, cookies name entries.
* **File handles** present three libraries (a forward-only stream, and two with
  offset reads) as one seekable file. Correct means: they implement one promise,
  after any mix of calls and library failures.
* **Locks.** A backend may be used without FsContext, so it has a shared mutex of
  its own, which some of its queries take twice. The registry's mutex is taken
  twice by one call. Some accessors read or hand out memory without a lock.
  Correct means: an archive in use is open, whoever holds a lock gives it back,
  and memory that is written is guarded.
* **dlmap2file** keeps host files for the life of the process and looks them up
  by a path whose meaning changes. Correct means: the file returned is the one
  the path means, and it stays as it was.
* **Packages** are edited by processes that know nothing of each other, and that
  may die or meet a full disk at any step. Correct means: a file in place can
  always be read, and holds exactly what the edit that put it there was asked for.
* **The LRU cache** keeps iterators of a list in a map, and evicts while it
  inserts. Correct means: the two agree, and only the keys used least go.
* **ZIP archives** may imply directories they have no entry for.

`PROJECT.json`, `hazards`, lists the places one by one.

## 2. Modules

    SeekableFile <--refines-- FileHandle   <-- MCFileHandle,   FileHandleProofs
    BoundedCache <--refines-- LruCache     <-- MCLruCache,     LruCacheProofs
                              FsContext    <-- MCFsContext,    FsContextProofs
                              DlCache      <-- MCDlCache,      DlCacheProofs
                              Package      <-- MCPackage,      PackageProofs
                              Threads      <--                 ThreadsProofs
    Tpkg         <--extends-- PackageParts <-- MCPackageParts, PackagePartsProofs
    Namespace    <--extends-- ExtractAll   <-- MCExtractAll,   ExtractAllProofs

### FsContext

The variables are the members of `FsContext` (`fs_context.h:464-475`): `mounts`,
`fdTable`, `dirTable`, `compat`, `nextHandle`, `nextFd`, `nextDir`, and the
caller's `errno`. Each entry point locks `mutex_` for its whole body, so each is
one action, and the threads of the program are the order of actions. The
disjuncts of an action are the paths through its function: the early returns in
their order (with the errno they set), the backend calls that can fail, and the
path that changes tables.

Data is abstracted to what dispatch and tables tell apart. A path is a sequence
of components; a mount point also says if it was spelled with a trailing slash,
because `path_is_in_mount` does; an image is two sets of relative paths; what a
host file holds is a table from offsets to images, so that regions can be cut
short. `MountErrno` stands for the factory and the backends' `mount`. `read`,
`pread` and `lseek` change nothing here; `OnHandle` lets them fail. What a failed
open or query answers may differ from backend to backend, so the actions allow each
answer that one of them gives. `orphans` and
`lost` are history variables: descriptors that `unmount_handle`, and `unmount`,
closed under their holders.

### FileHandle and SeekableFile

`SeekableFile` is the promise of `file_handle.h`: a position in a file of a fixed
size, reads that deliver the bytes at the position and move it by as many, offset
reads that do not, seeks within the file, and nothing after `close`. The byte at
offset *i* is known by *i*, so a reply `[from, n]` names the bytes delivered.

`FileHandle` is the three implementations; the variable `backend` says which one
a behaviour is about. `ZipRead`, `ZipPread` and `ZipSeekTo` follow libzip's
forward-only stream: a seek closes it, opens it again and reads up to the target,
and can fail at each of the three. `DwarfsRead`, `SquashRead`, `NativePread` and
`NativeSeekTo` are the other two. Libraries may fail, and may deliver fewer bytes
than asked for but none only at the end. The refinement maps `usable` to `open`
and `restarts` to `backend = "zip"`; the abstract `SeekBreaks` (a failed restart
leaves the position anywhere, or the handle unusable) is allowed to ZIP alone.
SquashFS casts the count to 32 bits; `Word32` is that modulus.

### Threads

The other modules take a call as one step, because a mutex covers it. `Threads`
is about the mutexes. A call is the sequence of lock operations and accesses to
shared memory that its code performs, in order (`Query`, `Permissions`,
`ApiMount`, ... are those sequences), `todo` is what each thread has left of its
call, and one step of one thread performs one of them. A check that fails, or a
library that does, unwinds the call: its lock guards release what it holds.

A program uses the library in one of three ways, chosen in the initial state
(`mode`): through the C API, where FsContext's `mutex_` is taken first and released last;
a backend directly from C++, where only the backend's `shared_mutex` is taken
(SquashFS takes it exclusively for queries as well); or the registry. The C++
standard leaves open whom a `shared_mutex` admits first, so `prefers` is either. The
sequences of the C API are those of FsContext with the backend's calls in them.
`Reads` and `Writes` say which memory each step touches; a race is two threads
about to touch the same memory, one of them to change it. `InLibrary` is the part of
`Writes` that lies behind an archive: every call into libzip on one archive, a
query, an open or a read of a file, and every use of the reader that SquashFS's queries
share, counts as a write, because neither library locks it. `handle` and `pointer`
follow an open file and the string of `tebako_get_mount_point` until what they
point into is gone.

### LruCache and BoundedCache

`BoundedCache` is the promise: each key held has an age, the number of held keys used since; a
use makes a key the youngest; what is lost is what the capacity leaves
no room for. No order of storage occurs in it. `LruCache` is the list of
nodes, where the freed ones are used again, and the map from keys to nodes; `ToFront` is the
`splice`, `Insert` the eviction followed by `emplace_front`. The refinement maps the
age of a key to the place of its node in the list. `get_or_compute` is `Get`
when the key is there and `Compute` when not.

### DlCache

`dlmap2file` with as much of the mount table as it depends on. A host path is the
base name of the mount point and the relative path, as in
`fs_context.cpp:950-963`. The copy may fail before or after it creates the file,
and the removal of a failed copy may fail, because the code does not look. The
`close` of the stream is not looked at either, so the model says which file the
bytes on the host come from (`Copy` adds whether the copy was seen through), and not
that all of them are there. At the end of the process any of the files may be left: no
error of a removal is looked at. A path can be
spelled with a slash written twice or with a `.`: the cache is asked for the
spelling, while the host, and the backends where they normalise, read both as one
path. A backend that does not find the odd spelling is one whose open fails.
`under` and `asked` are history variables: the mounts a base name has stood for,
and the paths that were extracted.

### Package

One `pc` per editing process: read the manifest and plan (`Begin`), stream the
bootstrap, stream each slot, append the trailer, rename; the fallback when the
rename fails (remove the package, rename again); giving up; and `Crash` between
any two steps. A package is never written to once it is in place, so reading a
manifest and copying one part are single steps; but the parts are opened *by
path* again, which is what lets two editors meet. `draft[e]` is the temporary
file and the manifest being collected for it. `want` and `moved` are history
variables: what the edit should make of the package it read, and whether another
editor has replaced that package since. A caller gives any mount point, one that is the
default of some slot too, or the empty one, and a slot records whether it was left to
the default (`MountOf`). Left out: the options (copied
unchanged), the permissions of the file, and bundling over a package that is
being edited: bundling writes to the package's path itself, and `BundleImages`
begins only while no edit is under way.

### Tpkg and PackageParts

`Tpkg` is the trailer as `tpkg.h` reads, validates and appends it. A file is a
sequence of bytes, and a byte is known by where it comes from: the *k*-th of a
part, of a slot record or of a header. That is enough to say whether unbundle
mistakes a table for an image. A header holds any numbers, and a table offset
that points where there is no record reads as the record `Junk`; offsets and sizes are
numbers below `Word`, the modulus of `uint64_t`. The checksum is a flag of the
header; what it covers is not modelled.

`PackageParts` is `unbundle` into a directory, what a user may do to it, and
`reassemble`. Unbundle takes one step for each part file, which can be cut short
unnoticed (the result of the final `close` is not looked at), fail, or be
interrupted by a crash; reassemble is one step to its output, or leaves part of it.
Between calls the user swaps a part, edits the mount point or the file of an entry
of `manifest.json`, or removes an entry. The file may be another part, one that is not
there, or a name that leads out of the directory (`Outside`), which `safe_part_name`
refuses. The output of `reassemble` lies outside the directory: the path of a part that it
reads is refused (`package.cpp:230-239`), which changes nothing, and writing over
another file of the directory is left out. `whole` is a history variable: the
package whose parts lie in the directory complete and untouched. Left out: flags
and options, which are copied, and the checksums of parts in the manifest, which
nothing reads back. The package is not changed while it is unbundled.

### Namespace and ExtractAll

`Namespace` is what the backends answer about names. A path is a sequence of components
and how it is spelled is left out. A ZIP archive is a list of entries, in which a
directory may be implied by what lies in it; DwarFS and SquashFS hold a tree. The
definitions follow each backend's own way to an answer: `locate_entry` with and
without the slash, the scan for implied directories in `is_directory`, the
iterator of a ZIP directory, and the inode lookups of the other two. Entries are files,
directories, or "other" (symbolic links and devices).

`ExtractAll` is `FsContext::extract_all` on top of them, one step for each entry,
with `stack` for the recursion. A destination that is not there is made first
(`DestinationReady`), though `c_api.h:662` says that it must exist. Host files have a type, a mode (may the owner
write), a time and the origin of their bytes. The process is privileged or not;
the host can fail at any entry, noticed or not (metadata is set as far as it
goes, and the result of closing a file is not looked at). `before`, `injected` and `lost`
are history variables: the disk when the extraction began, its destination made, and
whether the host failed in the call, noticed or not.

A host path is a sequence of names. The code joins strings and does not look at the
names of an image, so one called `..` would not be the child that `Target` makes of it;
`NameAssumption` says that no image has such a name (`PathAssumption` in `DlCache`), and
what the library does with one is not modelled.

## 3. Runs

| Run | Checks | What it shows |
|---|---|---|
| `fs_descriptors` | `TypeOK` `DescriptorsOwned` `OrphansStayInvalid` `CounterAboveFds` `CookieIsOrdinal` `ShadowedOnlyByNewer` `OthersUndisturbed` | files and directory streams on two nested mounts, through any mounts, unmounts and remounts |
| `fs_mounts` | `DispatchUnambiguous` `CompatIsFirst` `RegionsChecked` `HandlesNeverReused` | the three ways to mount, with hosts and images that are missing, cut, corrupt or unknown |
| `handles` | `TypeOK` `EofAtEnd` `StreamInStep` `Implements` | the three handles implement `SeekableFile` |
| `dl_cache` | `CachedFilesKept` `LeftoversRewritten` `ReturnsOwnersFile` | cached host files are kept, and returned for the mount that owns the path, while their base name stands for one mount and they are spelled in one way; what a failed copy left behind is never taken for a library |
| `package` | `TypeOK` `ManifestFits` `DefaultMountsMoveDown` `EditIsExact` | two editors with crashes and failures: a package in place is readable, a file put in place by an undisturbed edit is exact, slots left to the default mount point have that of their place or of one they have moved down from |
| `package_parts` | `TypeOK` `PartsOfPayload` `RoundTrip` `PicksUpParts` | whatever a trailer says, no byte of a table becomes a part; untouched parts give the same package, edited ones a package of exactly those parts |
| `extract` | `TypeOK` `AnswersAgree` `SuccessIsComplete` `OnlyTargetsTouched` `FailsForReason` | answers of a backend fit together; extraction fails exactly when a listed obstacle is in its way, is complete when it succeeds, and touches nothing else |
| `threads` | `TypeOK` `ArchiveOpenInUse` `ApiNeverWaits` `OnlyUnlockedDataRaces` `NothingHeldAfterCall` `LocksReleased` | archives in use are open, behind the C API no backend lock is ever waited for, the only races are on memory the code leaves unguarded (libzip, in direct use), no call leaves a lock behind, and locks are given back but for two nestings |
| `lru_cache` | `TypeOK` `MapMatchesList` `Implements` | map and list agree, and the cache implements `BoundedCache` |
| `vio_lost` | `LostStayInvalid` | **violated**: numbers come back after `unmount()` |
| `vio_hidden` | `EveryFileExtracted` | **violated**: files in a directory that a ZIP archive only implies are left out of a successful extraction |
| `vio_nested` | `EveryLockReleased` | **violated**: with a `shared_mutex` that prefers writers, `permissions()` of a ZIP backend and `unmount()` of another thread wait for each other for ever |

The violated properties state what a header, a comment or a document says; each
is quoted under `findings` in `PROJECT.json`. Three more findings are about what properties
that hold have to say in order to hold:

* `CounterAboveFds`: `TEBAKO_FD_MAX` is called the maximum of internal numbers
  (`c_api.h:73`), and no code keeps it. The wrap-around (`fs_context.cpp:1316`) sits in a
  search that is never entered; the run goes past its maximum.
* `FailsForReason`: a file where a directory without entries belongs passes for it
  (`exists`, `fs_context.cpp:284`), and `extract_all` reports success without the
  directory. `Obstructed` excepts that case.
* `OnlyUnlockedDataRaces`: `zip_backend.h:53` and `filesystem.h:61` promise thread safety, and two
  threads that query or read one ZIP archive directly are inside libzip together. The test of
  just that opens under a mutex of its own (`tests/test_zip_backend.cpp:558`) or was given fewer
  threads "to avoid libzip race conditions" (`:594`).

Some properties hold only in the form they have, and the form tells where the
code stops:

* `ReturnsOwnersFile` and `CachedFilesKept` speak of base names that stood for one
  mount only. A path that was extracted, and then unmounted and mounted again from
  another image, or shadowed by a nested mount, is answered from the cache with
  the file of the old image (`fs_context.cpp:924`). And a path of which another
  spelling was extracted may have lost its file: `/m//x` after `/m/x` misses the
  cache and is written over the same host file, which is removed if that copy fails
  (`fs_context.cpp:972`, `:998`). Without the condition `SpelledOnce`, TLC shows that in three
  steps, with `/m/x` still cached.
* `EditIsExact` speaks of edits that no other one overtook. The manifest is read
  once and the parts are opened by path again, so of two editors the later may copy
  pieces of images; the package it makes still has a manifest that fits.
* `ManifestFits` allows the package to be gone: when the first rename fails, the
  package is removed before the second is tried (`package.cpp:339`), and a crash
  or a failure there leaves neither.
* `DefaultMountsMoveDown` is what is left of one image for each mount point, and it is about
  slots left to the default only: after a removal an inserted image can share its default
  mount point with a slot that moved down, and with no other of them. A mount point that a
  caller gives may be any slot's; nothing compares them.
* `LeftoversRewritten` counts a file that was cut short when it was closed as copied
  (`fs_context.cpp:996`): such a file is cached and returned. Nothing is claimed of what is left at
  exit.
* `SuccessIsComplete` claims the permissions of directories and not their times, which the
  files put into them change again (`fs_context.cpp:301-312`).
* A part that was cut short when it was closed (`package.cpp:944`) is described and not
  caught: `RoundTrip` claims nothing of such an unbundle, and `PicksUpParts` takes the part
  as it lies.
* `OnlyUnlockedDataRaces` lists what two threads may race on: the static
  strings of `c_api.cpp:477-492`, the mount point string that
  `tebako_get_mount_point` hands out, and, for a backend used directly, its
  unguarded strings, an archive unmounted under an open file, and all of libzip.
* `LocksReleased` excepts the nested shared lock of `vio_nested` and
  `create_from_file`, which locks the registry's mutex a second time when no
  detector knows the file (`backend_registry.cpp:80`).

### Bounds, and why they are enough

* `fs_descriptors`: mount points `/m` and `/m/n`, images that both hold the file
  that is reachable through either, three mounts per run of the process, three files and
  two directory streams opened between two calls of `unmount()`. The root of one image
  lists three entries, so that `seekdir` goes back to the middle, forward and past the end. Every hazard
  of the tables needs at most two mounts that overlap, one that went away, and
  one descriptor on each; three mounts allow a mount, its removal, and its return
  under a new handle. Descriptor numbers go up to 3, past `FdMax`, which is 2, with and without
  `TEBAKO_FD_FLAG`. The run's VIEW leaves out `errno` and `lost`: no action and no property
  of the run reads them.
* `fs_mounts`: four mount points (`/m`, `/m/`, `/` and the empty one, which
  `init*` accepts), a package with three regions of which one is corrupt, a plain
  image and a missing file, and offsets before, at and past the edges.
  The word is 2^4 in place of 2^64, small enough that offset plus length
  overflows; the theorem `RegionsRefused` is for every word size.
* `handles`: files of up to 4 bytes, counts below, at and above the size, offsets
  from before the start to past the end. The handles compare positions with 0 and
  with the size and nothing else. `Word32` is 8, above every count: a read of
  2^32 bytes asks SquashFS for nothing and is answered like the end of the file,
  which the promise does not allow (`SmallReads`, below).
* `dl_cache`: mount points with equal base names (`/a/b`, `/b`), one of them nested
  in a third, two images that share a relative path, and paths in two spellings and with a `..`. The run's VIEW leaves out the last answer, which no
  action reads and no invariant, and of a process that has ended all but the disk.
* `package`: two editors, three edits with the bundling that makes the package, mount points
  left to the default or given as the very one that is the second slot's default,
  up to three slots of parts of size 1 and 2. Parts of two sizes are enough to
  shift every later offset. An edit has at most seven steps and two edits
  interleave at every one of them.
* `threads`: two threads, each call of each of the three uses, the three kinds of
  backend and both ways a `shared_mutex` may admit. A race and each of the
  nestings need two threads: one inside, and one that waits or writes.
* `lru_cache`: three keys, two values, capacities asked for from 0 to 3 and four
  nodes, so that a freed node is used again while the list is full. Nodes and
  values are symmetric: no property tells them apart.
* `package_parts`: headers and records of two bytes, at most two slots, a word of
  16, and twelve files: two that bundling made, and ones with a gap, with slots out of
  order, with slots past the end, as large as the word or all but, with a table elsewhere or
  beyond the end, with too many slots, with a wrong checksum, and without a trailer. Four
  calls (unbundles and edits) allow one package to be unbundled over another and
  then edited twice. No action reads the output, so the run's VIEW leaves it out.
* `extract`: five images (a ZIP archive with its directories out of order and one
  that implies a directory, a tree with a read-only file and directory, one with a
  file in a read-only directory, one with a link), eight mount tables of up to two
  mounts, six destinations (missing, empty, with the user's own files, with a file where a
  directory belongs, read-only, and one that is itself a file). Two calls, so that an extraction meets what
  another, or half of one, has left; one failure of the host.

`MaxHandles`, `MaxFds`, `MaxDirs`, `MaxSize`, `MaxEdits`, `MaxCalls` and `MaxFaults` are bounds of the runs
and occur in guards only. Deadlock is checked for the context and the handles. It
is not for `dl_cache`, where a process ends, nor for `package`, where editing ends
with the last edit, or once the package is lost, nor for `package_parts` and
`extract`, which end with the last call, nor for `threads`, where a program may
stop for ever in the two nestings; there `LocksReleased` says who never does.

### Fairness

`Threads` assumes weak fairness of each thread's `Step`: a thread that is inside a
call and can go on does go on, as any operating system's scheduler gives it. A step
that waits for a lock cannot run while the lock is taken, and nothing is assumed of the
order in which a lock admits those who wait, nor that a program makes another
call (`Call` is not fair). `LocksReleased` follows without more, because every
call is finite. Nothing else is fair: the calls of the C API run when
the program makes them, and an edit is a process that may die at any step.

## 4. Proofs

### FsContextProofs: every property of FsContext's passing runs

The claims in the runs are not inductive as they stand. `OrphansStayInvalid`, for
one, holds because the counter has passed every orphan, and `DescriptorsOwned`
because mounts keep their handle and handles are never given twice. `IndInv`
(module FsContext) is the conjunction of the types, handles below their counter,
distinct mount points, the oldest mount as compatibility handle, owners that
hold what was opened, counters above descriptors and above orphans, and cookies in
step with iterators. The proof has one lemma for each operation that changes a table
(`InsertStep`, `UnmountHandleStep`, `UnmountStep`, `OpenStep`, `CloseStep`,
`OpendirStep`, `ClosedirStep`, `SetDirStep`), with one step for each conjunct, and
`NextStep` collects them.

* `Inductive`, `TypeCorrect`, `OwnersLive`, `CompatLive`, `OrphansRejected`,
  `CountersAhead`, `CookiesOrdinal`: from `IndInv`.
* `DispatchDetermined`: distinct mount points of equal length cannot cover one
  path (`DispatchLemma`); `FindMountCovers` shows that the scan finds a mount
  whenever there is one to find.
* `LongestPrefixWins` and `DispatchStable`, about dispatch itself: however mounts are nested
  and in whatever order they came, the owner of a path has a mount point strictly longer
  than that of every other mount that covers it; so a path changes hands only when its
  owner is unmounted or to a mount just made. The first follows from `FindMountCovers`
  and `DispatchLemma`, the second from the first in the two states of a step and
  `OthersLeftAlone`. No run checks them: they are about what the runs' properties rest on.
* `RegionsRefused`: arithmetic, for every word size (`RegionSound`).
* `OthersLeftAlone`: `StepKinds` sorts the steps by what they do to the tables (the mounts
  stay and no file is opened, a mount is added, one goes, all go, a file is opened), and
  each kind leaves the descriptors of the mounts that stay.
* `ShadowedByNewer`: the mount that now owns the path of an open file is the
  file's own or was made later. Not inductive alone: `OlderShorter` adds that a
  mount older than the file's that covers its path has a shorter mount point.
* `HandlesFresh`: the action property, from the invariant and `MountsGrow`: only
  mounting adds to the table, and it adds the counter.

Assumed: the types of the constants (`PathAssumption`, `ImageAssumption`,
`HostAssumption`, `BoundAssumption`), which TLC evaluates in every run.
`AllocateFdIsNext` is a result of its own: the search for a free number, and the
wrap-around at `TEBAKO_FD_MAX` inside it, are never reached.

### FileHandleProofs

`HandleInvariant` and `HandleImplements`: for files of any size and calls with
any argument, a handle of each backend implements `SeekableFile`, under the
assumption `SmallReads` that no count passed to SquashFS reaches 2^32. It is needed:
the cast to 32 bits turns a count of 2^32 into 0. The lemmas are one for each kind of outcome
(a refusal, a read of nothing, a read of bytes, an offset read, a seek that
arrives), each of which keeps the invariant and is a step of the promise; then one
for each call. `HandleTypes`, `StreamFollows` and `EofFresh` are the run's three
invariants, from the same induction.

### LruCacheProofs

`TypeCorrect`, `MapAndListAgree` and `KeepsThePromise`, for any keys, values, nodes
and sizes. The invariant is the two of the run. For the refinement, each list
operation is described by the place every node has after it
(moved to the front, added first, erased, cut), and a place less one is an age; so
each call of `LruCache` is the step of `BoundedCache` of the same name.

### DlCacheProofs

`KeepsCachedFiles`, `LeftoversNeverCached` and `AnswersForOwner`, for any paths, mount points
and images. The inductive invariant says that a cached path lies below a mount point its host
path is named after (`CachedBelow`), that a host file is named after a mount its bytes
came from (`DiskBelow`), and that a cached path's host file is there while its base
name stood for one mount only and no other spelling of it was extracted
(`CachedThere`). Two paths of one mount share a host path only if they are the
same but for their spelling (`SoleHost`), so no other extraction removes or
overwrites the file.

### PackageProofs

`PackageTypes` and `ManifestAlwaysFits`, for any number of editors and edits,
files of any size and any limit of slots. `ManifestFits` alone is not inductive:
the file renamed into place is an editor's draft, so `IndInv` adds what a draft
satisfies at each `pc` (`DraftsFit`): its slots lie side by side up to its end
while they are streamed, and once it has its trailer it fits. With the limits of
the four entry points (`TypeOK`) this needs nothing of where the streamed bytes
came from, which is why a race that tears images apart still leaves a manifest
that fits.

`EditsAreExact` is about those bytes. `Made` says that what a draft holds, followed
by what its plan would stream from the package now in place, is what the edit was
asked to make; `EditInv` claims it of every edit that nobody overtook. The four
entry points establish it (`BundlingPlanned`, `InsertingPlanned`,
`RemovingPlanned`, `SettingRuntimePlanned`), streaming a part keeps it
(`MadeSlot`: appending moves no earlier slot), and replacing the package touches only
edits that are from then on overtaken. When nothing is left to stream, `Made` is the
claim (`MadeContents`).

`DefaultMountsKeptLow`: a default mount point that is in the package says a place not
before its slot's. Of a draft alone that is not inductive: the slots that are still to
stream count as well, at the places they will take. `MountInv` says it of the package,
of every draft, and of the rest of every plan after its draft. Inserting
adds at the end, removing moves slots down, and streaming moves a slot from the
plan to the place it was counted for. Nothing is assumed of the mount points that callers
give: the theorem is about the slots that were left to the default.

### PackagePartsProofs

`PartsTypes`, `OnlyPayloadTaken`, `PartsPickedUp` and `PackageRoundTrip`: every property of the
run `package_parts`, for any packages and any limit of slots; and `WrittenIsRead`,
`TableFitsExactly` and `ReadsStayInside`, which are about `Tpkg` alone.

**The numbers.** The reader's bound on the table divides, so that nothing wraps in 64 bits, and it
accepts exactly the tables that end before the header (`TableFitsExactly`, for every width of a
record). So whatever numbers a file holds, a reader that reports no error has read its records
inside the file, no slot's end wraps, and the slots that unbundle finds in range are copied
whole (`ReadsStayInside`).

**What is taken.** A package that
`ReadError` accepts has records that `InRange` checks against the table's offset, so each
range that is streamed ends before the table (`RangeOfPayload`), whatever the numbers in
it are. `FileAssumption` says what lies there: before the table that a readable
package's header points to there is payload only, and so it is in the parts a user swaps
in. The invariant adds to the two properties that a running job works
on a package that was checked (`JobChecked`, `JobIsRecord`) and that manifest.json is a
list of entries that name files (`JsonIsSeq`).

**What is written can be read.** For any bytes and any manifest that `Validate` accepts,
`ReadError` finds nothing wrong with what `Write` makes of them, the header points to the end
of the old bytes, `Records` are the slots that were written, and no byte before the table has moved
(`WrittenIsRead`). It rests on the arithmetic of records of one width (`Cells`, `TableCells`).

**What is built.** The body of a package is what `FlattenSeq` makes of the parts, a recursive
function. That there is such a function, and what it is for one part more, follows without an
induction principle: the least length at which it would fail (`LeastOf`) cannot be
there (`JoinsExists`, `FlattenGrows`). So every body is the one before with one part
appended (`Growing`), every part is found in the last of them where it was put (`GrowingPieces`),
and with `WrittenIsRead` the readers of the new package find the parts of the directory:
`PartsPickedUp`, whatever binaries and edits they come from.

**The round trip.** Here the invariant has to say what the part files hold (`CInv`): while an
unbundle has gone well, the parts it has passed are byte for byte those of the package
(`JobExact`), and if the directory counts as whole all are, and manifest.json is the one that
unbundle wrote (`WholeHolds`). For a package laid out as bundling does, the body up to
each slot is the beginning of the package (`WholeBodies`), so the new file is the old one.
`FileAssumption` adds that a record is nothing but its offset, size, format and mount point,
and that no package holds the mark `Unset`, which stands for an entry that is not in
manifest.json.

### ThreadsProofs

`TypeCorrect`, `ArchiveStaysOpen`, `NeverWaits`, `RacesAreUnlocked` and `NoLockLeaks`, for any number of
threads, each use of the library, each kind of backend and either preference of its
lock. A call is a sequence of steps, so the proof is in the manner of Hoare: an
assertion (`InCall`) says of a thread what it holds and knows before the steps it has
left, `Pre` and `After` carry an assertion over one step, and `CallsRun` shows once for
every call in the program text that it runs from holding nothing to holding nothing, where
a check that fails or a library that does leads to `UnwindRuns`. The inductive
invariant adds to `InCall` that a lock has one writer or readers (`OneWriter`), that
whoever is in no call holds nothing (`TidyBetweenCalls`), and that a live file handle belongs
to the archive that is open (`LiveIsOpen`), which is what `unmount_handle` keeps by
closing the files before the archive. Other threads cannot disturb an assertion, because it
speaks only of what the thread's own locks protect.

`NoLockLeaks` is that assertion at the end of a call: no steps are left, so nothing is held,
whatever failed on the way. `NeverWaits` is that a thread about to take the backend's lock holds `mutex_`, so no
other holds the backend's. For `RacesAreUnlocked`, the memory that a step touches
is paired with the lock its thread holds, and two conflicting steps under one lock
contradict `OneWriter`.

### ExtractAllProofs

`TypeCorrect`, `BackendsAgree`, `NothingElseTouched`, `SuccessComplete` and
`FailuresHaveReasons`: every property of the run `extract`, for all images, mount tables and
destinations, any number of calls and failures. Assumed are `ImageAssumption` (what an
archive of each kind can hold), `ExtractAssumption` (a destination is a tree, or missing)
and, for the faithfulness of host paths, `NameAssumption` (a name is no `..`).

First come the images: an iterator delivers each name of a directory once, with its type
(`ChildrenOf`, from counting: `AscendingEnumerates`), and what the functions of a backend answer
follows from the type of the entry (`AnswersOfEntry`, `AnswersOfRoot`, `AnswersOfNothing`).
`BackendsAgree` is about those alone.

The recursion has no bound, so the invariant speaks of the stack as a whole. A path is
*awaited* (`Awaited`) when it lies at or below an entry that some active call has still
to take. `Nested` says that the calls follow one branch of one image and that no call
awaits the directory it is in. Taking an entry removes exactly that path from what is
awaited: entering a directory, because its listing has every entry below it once
(`EnteredAwaits`); extracting a file, because nothing is below it (`ConsumedAwaits`).
`Base` is this together with the host being a tree in which only hosts of wanted paths differ from
before. Two wanted paths never share a host while the mounts are apart (`HostDistinct`).

* `SuccessComplete`: of each mount that was started, every wanted path is done or, for the
  last one, awaited (`Progress`). What is done stays done, since a step touches only
  the host of the entry it takes, and the time of the directory it lies in
  (`Touched`). At the end nothing is awaited.
* `FailuresHaveReasons`: while the host works, what is awaited or belongs to a later
  mount is on the host as it was before the call, the directories of the active calls
  have got the permissions of the image, and nothing that is past was obstructed
  (`Reason`). So the conditions the code finds at an entry are the ones the
  property states of the host before (`EntryBlocked`, `MountBlocked`): both directions of
  *fails exactly when* follow, and so does that the order of the entries does not matter.

### Model-checked only

`LocksReleased` of `Threads` is liveness, under the fairness of the scheduler; its safety
half, that a call which has returned holds no lock, is proved (`NoLockLeaks`). The
properties of the three runs that end in a violation have no theorem, as they do not hold.

## 5. Plan

In the order of what matters most:

1. `Tpkg` used by `Package` in place of `Probed`, so that an edit is one of bytes
   and a package that is read is one that was written.
2. The composition of `Package` and `FsContext`: mounting the slots of an edited
   package, where default mount points may collide.
3. `Path::normalize` as an operator checked against a reference definition, and
   the extraction commands of `tebakofs`.

## 6. Not modelled

* Formats and compression inside the images: the libraries are external, and a
  call to one succeeds or fails. `deps-stage` holds headers of such libraries.
* Option parsing and printing of `tebakofs`, `mkimage` (it runs an external
  program), logging, `Synchronized` (unused in the library), configuration, value types of
  errors and results.
* Permissions and times, but in `ExtractAll`, where they decide what can be put
  where.
* What symbolic links point to: to the code they are entries that are neither
  files nor directories ("other" in `Namespace`).
* `Path` and `normalize_path`: string functions without state. Paths are sequences
  of components here.
* The order in which the registry asks its detectors, and the statistics of the
  LRU cache.
