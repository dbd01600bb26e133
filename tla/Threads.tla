------------------------------- MODULE Threads -------------------------------
(***************************************************************************)
(* The locks of the library, and what threads touch while they hold them.  *)
(* One filesystem is used by several threads, in one of the two ways the   *)
(* library offers: through the C API, where FsContext's mutex_ covers each *)
(* call (fs_context.cpp), or directly, as a C++ FileSystem with the shared *)
(* mutex_ of the backend only (filesystem.h:61 promises that this is safe).*)
(* Or the threads use the registry of backends, which has a mutex_ too     *)
(* (backend_registry.cpp).                                                 *)
(*                                                                         *)
(* A call is the sequence of the lock operations and accesses to shared    *)
(* memory that the code performs; a thread performs one of them at a time. *)
(* The names of the steps:                                                 *)
(*   lock, unlock                mutex_ of the FsContext or the registry   *)
(*   shared, exclusive, release  the shared_mutex of the backend           *)
(*   check, vacant               is the archive open / not yet open        *)
(*   open, close, use            the archive and its library               *)
(*   begin, reopen               the library opens a file: in open(), and  *)
(*                               in pread and seek of a ZIP file           *)
(*   rename, peek                archive_path_ and mount_point_            *)
(*   absent, find, insert, free  the mount table                           *)
(*   handle, lookup, read, drop, forget   open files                       *)
(*   point, follow               the string of tebako_get_mount_point      *)
(*   assign, look                the static strings of c_api.cpp           *)
(*   scan, grow, peruse          the registered backends, and the info of  *)
(*                               one that get_info has handed out          *)
(***************************************************************************)
EXTENDS Naturals, Sequences

CONSTANTS Threads,    \* the threads of the program
          NoThread    \* who holds a free mutex

ASSUME NoThreadIsNone == NoThread \notin Threads

VARIABLES
  mode,       \* how the program uses the library: "api", "direct" or "registry"
  kind,       \* the backend: "zip", "dwarfs" or "squashfs"
  prefers,    \* whom the shared_mutex lets in first: "readers" or "writers"
  todo,       \* the steps each thread has left of its call
  holder,     \* who holds the mutex_ of the FsContext or the registry
  sharers,    \* how often each thread holds the backend's mutex shared
  writer,     \* who holds it exclusively
  archive,    \* the backend has an open archive
  mounted,    \* the mount table has the mount
  handle,     \* each thread's open file
  pointer     \* the mount point string each thread was given

program == <<mode, kind, prefers>>
locks == <<holder, sharers, writer>>
data == <<archive, mounted, handle, pointer>>
vars == <<program, todo, locks, data>>

-----------------------------------------------------------------------------
(* The calls. Every backend method takes its lock first and looks whether  *)
(* an archive is open; the SquashFS backend never shares its lock.         *)

\* bug: SquashFS shares its lock like the others
AlwaysShared == "shared"

QueryLock == IF kind = "squashfs" THEN "exclusive" ELSE "shared"

Query == <<QueryLock, "check", "use", "release">>

OpenFile == <<QueryLock, "check", "use", "begin", "handle", "release">>

IsMounted == <<"shared", "check", "release">>

\* bug: every backend nests its queries
PermissionsNested == <<QueryLock, "check">> \o Query \o Query \o <<"release">>

\* The ZIP backend asks exists() and is_directory() with its lock held
Permissions ==
  IF kind = "zip" THEN <<QueryLock, "check">> \o Query \o Query \o <<"release">>
                  ELSE Query

\* The DwarFS backend asks is_directory() with its lock held
ListDirectory ==
  IF kind = "dwarfs" THEN <<QueryLock, "check">> \o Query \o <<"use", "release">>
                     ELSE Query

BackendMount == <<"exclusive", "vacant", "open", "rename", "release">>

BackendUnmount == <<"exclusive", "close", "rename", "release">>

\* The calls of the C API hold mutex_ from the first step to the last
\* but one: the strings are handed out under it and read after it.
Locked(steps) == <<"lock">> \o steps \o <<"unlock">>

\* bug: mutex_ covers only the lookup
StatUnlocked ==
  Locked(<<"find">>) \o Query \o Permissions \o Query \o Query \o Query

Stat == Locked(<<"find">> \o Query \o Permissions \o Query \o Query \o Query)

\* The destructor of the backend unmounts again before its memory goes
Destroy == BackendUnmount \o BackendUnmount \o <<"free">>

\* bug: the files of the mount stay open
UnmountKeepsFiles == Locked(<<"find">> \o Destroy)

UnmountHandle == Locked(<<"find", "forget">> \o Destroy)

Unmount == Locked(<<"find">> \o Destroy \o <<"forget">>)

ApiMount == Locked(<<"absent">> \o BackendMount \o <<"insert">>)

GetMountPoint == Locked(<<"find", "point">>) \o <<"follow">>

GetArchivePath == Locked(<<"find", "peek">>) \o <<"assign", "look">>

ApiCalls ==
  { ApiMount, UnmountHandle, Unmount, Stat, GetMountPoint, GetArchivePath,
    Locked(<<"find">> \o OpenFile), Locked(<<"find">> \o ListDirectory),
    Locked(<<"lookup", "read">>), Locked(<<"lookup", "reopen">>),
    Locked(<<"lookup", "drop">>) }

\* A FileHandle has no lock, and the getters of the strings take none
DirectCalls ==
  { BackendMount, BackendUnmount, IsMounted, Query, Permissions,
    ListDirectory, OpenFile, <<"peek">>, <<"read">>, <<"reopen">>, <<"drop">> }

\* create_by_name, create_by_extension, has_backend; register_backend, clear
Consult == Locked(<<"scan">>)
Register == Locked(<<"scan", "grow">>)

\* get_info hands out the address of an element of the vector
GetInfo == Locked(<<"scan">>) \o <<"peruse">>

\* create_from_file asks create_by_extension with mutex_ held when no
\* detector knows the file
CreateUnknown == Locked(<<"scan">> \o Consult)

RegistryCalls == { Consult, Register, GetInfo, CreateUnknown }

Calls == CASE mode = "api" -> ApiCalls
           [] mode = "direct" -> DirectCalls
           [] mode = "registry" -> RegistryCalls

-----------------------------------------------------------------------------
At(t, step) == todo[t] # <<>> /\ Head(todo[t]) = step

Go(t) == todo' = [todo EXCEPT ![t] = Tail(@)]

\* bug: a lock taken twice is released once
UnwindOnce(t) ==
  todo' = [todo EXCEPT ![t] =
    (IF writer = t \/ sharers[t] > 0 THEN <<"release">> ELSE <<>>)
      \o IF holder = t THEN <<"unlock">> ELSE <<>>]

\* A call that fails returns, and the lock guards on its stack release
\* what it holds
Unwind(t) ==
  todo' = [todo EXCEPT ![t] =
    [i \in 1..(sharers[t] + IF writer = t THEN 1 ELSE 0) |-> "release"]
      \o IF holder = t THEN <<"unlock">> ELSE <<>>]

GoIf(t, condition) == IF condition THEN Go(t) ELSE Unwind(t)

-----------------------------------------------------------------------------
(* The locks. Which waiting thread a shared_mutex admits is up to the      *)
(* implementation: some let no reader in while a writer waits.             *)

Lock(t) ==
  /\ At(t, "lock")
  /\ holder = NoThread
  /\ holder' = t
  /\ Go(t)
  /\ UNCHANGED <<program, sharers, writer, data>>

Unlock(t) ==
  /\ At(t, "unlock")
  /\ holder' = NoThread
  /\ Go(t)
  /\ UNCHANGED <<program, sharers, writer, data>>

WriterWaits(t) == \E u \in Threads \ {t} : At(u, "exclusive")

MayShare(t) == writer = NoThread /\ ~(prefers = "writers" /\ WriterWaits(t))

MayWrite == writer = NoThread /\ \A u \in Threads : sharers[u] = 0

Share(t) ==
  /\ At(t, "shared")
  /\ MayShare(t)
  /\ sharers' = [sharers EXCEPT ![t] = @ + 1]
  /\ Go(t)
  /\ UNCHANGED <<program, holder, writer, data>>

Exclude(t) ==
  /\ At(t, "exclusive")
  /\ MayWrite
  /\ writer' = t
  /\ Go(t)
  /\ UNCHANGED <<program, holder, sharers, data>>

\* bug: every guard releases a shared lock
ReleaseShared(t) ==
  /\ At(t, "release")
  /\ sharers' = [sharers EXCEPT ![t] = @ - 1]
  /\ Go(t)
  /\ UNCHANGED <<program, holder, writer, data>>

Release(t) ==
  /\ At(t, "release")
  /\ IF writer = t
       THEN writer' = NoThread /\ UNCHANGED sharers
       ELSE sharers' = [sharers EXCEPT ![t] = @ - 1] /\ UNCHANGED writer
  /\ Go(t)
  /\ UNCHANGED <<program, holder, data>>

-----------------------------------------------------------------------------
(* The archive. The library may fail wherever it is used.                  *)

Check(t) ==
  /\ \/ At(t, "check") /\ GoIf(t, archive)
     \/ At(t, "vacant") /\ GoIf(t, ~archive)
  /\ UNCHANGED <<program, locks, data>>

Use(t) ==
  /\ At(t, "use") \/ At(t, "begin")
  /\ Go(t) \/ Unwind(t)
  /\ UNCHANGED <<program, locks, data>>

OpenArchive(t) ==
  /\ At(t, "open")
  /\ \/ archive' = TRUE /\ Go(t)
     \/ UNCHANGED archive /\ Unwind(t)
  /\ UNCHANGED <<program, locks, mounted, handle, pointer>>

\* Open handles keep their pointers into the archive
CloseArchive(t) ==
  /\ At(t, "close")
  /\ archive' = FALSE
  /\ handle' = [u \in Threads |-> IF handle[u] = "live" THEN "dangling" ELSE handle[u]]
  /\ Go(t)
  /\ UNCHANGED <<program, locks, mounted, pointer>>

\* Strings and backends that are written, copied or looked at
Touch(t) ==
  /\ \E step \in {"rename", "peek", "assign", "look", "scan", "grow", "peruse"} : At(t, step)
  /\ Go(t)
  /\ UNCHANGED <<program, locks, data>>

-----------------------------------------------------------------------------
(* The mount table and the open files.                                     *)

FindMount(t) ==
  /\ \/ At(t, "find") /\ GoIf(t, mounted)
     \/ At(t, "absent") /\ GoIf(t, ~mounted)
  /\ UNCHANGED <<program, locks, data>>

InsertMount(t) ==
  /\ At(t, "insert")
  /\ mounted' = TRUE
  /\ Go(t)
  /\ UNCHANGED <<program, locks, archive, handle, pointer>>

FreeMount(t) ==
  /\ At(t, "free")
  /\ mounted' = FALSE
  /\ pointer' = [u \in Threads |-> IF pointer[u] = "live" THEN "dangling" ELSE pointer[u]]
  /\ Go(t)
  /\ UNCHANGED <<program, locks, archive, handle>>

NewHandle(t) ==
  /\ At(t, "handle")
  /\ handle' = [handle EXCEPT ![t] = "live"]
  /\ Go(t)
  /\ UNCHANGED <<program, locks, archive, mounted, pointer>>

DropHandle(t) ==
  /\ At(t, "drop")
  /\ handle' = [handle EXCEPT ![t] = "none"]
  /\ Go(t)
  /\ UNCHANGED <<program, locks, archive, mounted, pointer>>

ForgetHandles(t) ==
  /\ At(t, "forget")
  /\ handle' = [u \in Threads |-> "none"]
  /\ Go(t)
  /\ UNCHANGED <<program, locks, archive, mounted, pointer>>

LookupHandle(t) ==
  /\ At(t, "lookup")
  /\ GoIf(t, handle[t] # "none")
  /\ UNCHANGED <<program, locks, data>>

ReadHandle(t) ==
  /\ At(t, "read") \/ At(t, "reopen")
  /\ Go(t)
  /\ UNCHANGED <<program, locks, data>>

TakePointer(t) ==
  /\ At(t, "point")
  /\ pointer' = [pointer EXCEPT ![t] = "live"]
  /\ Go(t)
  /\ UNCHANGED <<program, locks, archive, mounted, handle>>

FollowPointer(t) ==
  /\ At(t, "follow")
  /\ pointer' = [pointer EXCEPT ![t] = "none"]
  /\ Go(t)
  /\ UNCHANGED <<program, locks, archive, mounted, handle>>

-----------------------------------------------------------------------------
Init ==
  /\ mode \in {"api", "direct", "registry"}
  /\ kind \in {"zip", "dwarfs", "squashfs"}
  /\ prefers \in {"readers", "writers"}
  /\ todo = [t \in Threads |-> <<>>]
  /\ holder = NoThread /\ writer = NoThread
  /\ sharers = [t \in Threads |-> 0]
  /\ archive = FALSE /\ mounted = FALSE
  /\ handle = [t \in Threads |-> "none"]
  /\ pointer = [t \in Threads |-> "none"]

\* A program reads and closes only files it has opened; through the C API
\* it may also try
Call(t) ==
  /\ todo[t] = <<>>
  /\ \E call \in Calls :
       /\ call \in {<<"read">>, <<"reopen">>, <<"drop">>} => handle[t] # "none"
       /\ todo' = [todo EXCEPT ![t] = call]
  /\ UNCHANGED <<program, locks, data>>

Step(t) ==
  \/ Lock(t) \/ Unlock(t) \/ Share(t) \/ Exclude(t) \/ Release(t)
  \/ Check(t) \/ Use(t) \/ OpenArchive(t) \/ CloseArchive(t) \/ Touch(t)
  \/ FindMount(t) \/ InsertMount(t) \/ FreeMount(t)
  \/ NewHandle(t) \/ DropHandle(t) \/ ForgetHandles(t)
  \/ LookupHandle(t) \/ ReadHandle(t) \/ TakePointer(t) \/ FollowPointer(t)

Next == \E t \in Threads : Call(t) \/ Step(t)

\* A thread inside a call that can run does run. Nothing is assumed of the
\* order in which a mutex admits the threads that wait for it.
Spec == Init /\ [][Next]_vars /\ \A t \in Threads : WF_vars(Step(t))

-----------------------------------------------------------------------------
(* What each step reads and writes: "file" is what an open file uses of    *)
(* its archive, "point" the mount point string in the mount table, "info"  *)
(* what get_info has pointed at.                                           *)

\* What the libraries keep behind an archive and change in every call:
\* libsquashfs the state of the readers all queries share
\* (squashfs_backend.h:57-59; an open file has a reader of its own), libzip
\* that of the struct zip, on which its files read and which it does not
\* lock (test_zip_backend.cpp:558, 594). libdwarfs locks its own.
InLibrary(t) ==
  CASE kind = "squashfs" /\ (At(t, "use") \/ At(t, "begin"))     -> {"reader"}
    [] kind = "zip" /\ (At(t, "use") \/ At(t, "begin") \/ At(t, "close")) -> {"libzip"}
    [] /\ kind = "zip" /\ handle[t] = "live"
       /\ At(t, "read") \/ At(t, "reopen") \/ At(t, "drop")     -> {"libzip"}
    [] OTHER                                                    -> {}

Reads(t) ==
  CASE At(t, "check") \/ At(t, "vacant")         -> {"archive"}
    [] At(t, "use") \/ At(t, "begin")            -> {"archive", "strings"}
    [] (At(t, "read") \/ At(t, "reopen")) /\ handle[t] = "live" -> {"file"}
    [] At(t, "peek")                             -> {"strings"}
    [] At(t, "find") \/ At(t, "absent")           -> {"table"}
    [] At(t, "lookup")                           -> {"files"}
    [] At(t, "follow") /\ pointer[t] = "live"    -> {"point"}
    [] At(t, "look")                             -> {"static"}
    [] At(t, "scan")                             -> {"backends"}
    [] At(t, "peruse")                           -> {"info"}
    [] OTHER                                     -> {}

Stores(t) ==
  CASE At(t, "open")                             -> {"archive"}
    [] At(t, "close")                            -> {"archive", "file"}
    [] At(t, "rename")                           -> {"strings"}
    [] At(t, "insert")                           -> {"table"}
    [] At(t, "free")                             -> {"table", "point"}
    [] At(t, "forget")                           -> {"files"}
    [] mode = "api" /\ (At(t, "handle") \/ At(t, "drop")) -> {"files"}
    [] At(t, "assign")                           -> {"static"}
    [] At(t, "grow")                             -> {"backends", "info"}
    [] OTHER                                     -> {}

Writes(t) == Stores(t) \cup InLibrary(t)

\* What one thread is about to change while another reads or changes it
Raced ==
  UNION { Writes(p[1]) \cap (Reads(p[2]) \cup Writes(p[2])) :
            p \in {q \in Threads \X Threads : q[1] # q[2]} }

-----------------------------------------------------------------------------
(* Properties                                                              *)

BackendSteps ==
  {"shared", "exclusive", "release", "check", "vacant", "open", "close", "use",
   "begin", "reopen", "rename", "peek", "handle", "read", "drop"}
TableSteps ==
  {"lock", "unlock", "absent", "find", "insert", "free", "lookup", "forget",
   "point", "follow", "assign", "look"}
RegistrySteps == {"lock", "unlock", "scan", "grow", "peruse"}
Steps == BackendSteps \cup TableSteps \cup RegistrySteps

\* The steps are those of the calls above, and the locks are held by
\* threads of the program.
TypeOK ==
  /\ mode \in {"api", "direct", "registry"}
  /\ kind \in {"zip", "dwarfs", "squashfs"}
  /\ prefers \in {"readers", "writers"}
  /\ todo \in [Threads -> Seq(Steps)]
  /\ holder \in Threads \cup {NoThread}
  /\ sharers \in [Threads -> 0..2]
  /\ writer \in Threads \cup {NoThread}
  /\ archive \in BOOLEAN /\ mounted \in BOOLEAN
  /\ handle \in [Threads -> {"none", "live", "dangling"}]
  /\ pointer \in [Threads -> {"none", "live", "dangling"}]

\* No query runs on an archive that another thread has closed, and through
\* the C API no read of a file does either: the mutex_ held from the lookup
\* to the read and unmount_handle forgetting the files before it unmounts
\* (fs_context.cpp:423-461, 581-599) are both needed for it.
ArchiveOpenInUse ==
  \A t \in Threads :
    /\ At(t, "use") \/ At(t, "begin") => archive
    /\ mode = "api" /\ (At(t, "read") \/ At(t, "reopen")) => handle[t] = "live" /\ archive

\* Behind the C API no thread ever waits for the lock of a backend: so the
\* nested shared locks of ZipBackend::permissions and
\* DwarfsBackend::list_directory cannot deadlock there, whatever the
\* shared_mutex prefers (zip_backend.cpp:739-760, dwarfs_backend.cpp:531-547).
ApiNeverWaits ==
  mode = "api" =>
    \A t \in Threads :
      /\ At(t, "shared") => MayShare(t)
      /\ At(t, "exclusive") => MayWrite

\* The only memory two threads can race on: through the C API the static
\* strings of tebako_get_archive_path and tebako_get_backend_name
\* (c_api.cpp:477-492) and the string of tebako_get_mount_point
\* (fs_context.cpp:1026); in direct use the strings that archive_path() and
\* mount_point() read without the lock (zip_backend.h:236, 243), what a file
\* uses of an archive that is unmounted while it is read, and libzip itself:
\* the queries of the ZIP backend share their lock and its files take none, so
\* that zip_backend.h:53 and filesystem.h:61 promise more than the lock gives.
\* In particular no query races with an unmount, two threads are never inside
\* libsquashfs together, and through the C API none are inside libzip. In the
\* registry it is the BackendInfo that get_info points at
\* (backend_registry.cpp:145).
Unlocked ==
  CASE mode = "api"      -> {"static", "point"}
    [] mode = "direct"   -> {"strings", "file"} \cup {x \in {"libzip"} : kind = "zip"}
    [] mode = "registry" -> {"info"}
OnlyUnlockedDataRaces == Raced \subseteq Unlocked

Holds(t) == holder = t \/ writer = t \/ sharers[t] > 0

\* A call that returns, by its last step or because something failed in the
\* middle, leaves no lock behind: the guards of the calls that nest their locks
\* (zip_backend.cpp:739-760, dwarfs_backend.cpp:531-547) give back each of them.
NothingHeldAfterCall == \A t \in Threads : todo[t] = <<>> => ~Holds(t)

\* A nested shared lock can be refused only in direct use, by a mutex that
\* prefers writers, and never in the SquashFS backend.
NestingIsSafe == mode # "direct" \/ prefers = "readers" \/ kind = "squashfs"

\* create_from_file has reached the call that locks mutex_ again.
LocksTwice(t) == mode = "registry" /\ holder = t /\ At(t, "lock")

\* Whoever holds a lock gives it back: no thread waits for a lock it holds
\* itself and no two threads wait for each other, but for the two nestings
\* above (zip_backend.cpp:748, backend_registry.cpp:80).
LocksReleased ==
  \A t \in Threads : (NestingIsSafe /\ Holds(t)) ~> (~Holds(t) \/ LocksTwice(t))

\* zip_backend.h:53 says "All methods are thread-safe for concurrent access
\* using std::shared_mutex". With a shared_mutex that prefers writers a
\* method of the backend may wait for ever for the lock it holds.
EveryLockReleased ==
  \A t \in Threads : (mode = "direct" /\ Holds(t)) ~> ~Holds(t)

=============================================================================
