------------------------------ MODULE ExtractAll ------------------------------
(***************************************************************************)
(* Extracting every mount to a directory of the host (FsContext::          *)
(* extract_all and extract_dir_recursive in fs_context.cpp), by a user who *)
(* may or may not be subject to permissions, onto what earlier extractions *)
(* and others have left there.                                             *)
(*                                                                         *)
(* A call holds mutex_, so the mounts stay; each entry is one step.  A host*)
(* path is a sequence of components below the destination, a host file is  *)
(* [type, mode, mtime, data], and data is the image and the path the bytes *)
(* come from.  Creating a name in a directory changes the directory's time *)
(* to Now.                                                                 *)
(***************************************************************************)
EXTENDS Namespace

CONSTANTS
  Tables,        \* mount tables: sequences of [base, image] in handle order
  Disks,         \* what may lie at the destination at first
  MaxCalls,      \* bound: calls of extract_all
  MaxFaults      \* bound: failures of the host

ASSUME ExtractAssumption ==
  /\ MaxCalls \in Nat /\ MaxFaults \in Nat
  /\ Tables \subseteq Seq([base : Names, image : DOMAIN Image])
  /\ \A d \in Disks :
       /\ <<>> \in DOMAIN d \/ DOMAIN d = {}
       /\ DOMAIN d \subseteq Seq(Names)
       /\ \A h \in DOMAIN d :
            /\ h # <<>> => Parent(h) \in DOMAIN d /\ d[Parent(h)].type = "dir"
            /\ d[h] = [type |-> d[h].type, mode |-> d[h].mode, mtime |-> d[h].mtime, data |-> d[h].data]
            /\ d[h].type \in {"file", "dir"} /\ d[h].mode \in {"rw", "ro"}

\* The names in the images are names.  The library does not ask that: the name
\* of an entry is put behind the host path as it comes (fs_context.cpp:280), a
\* ZIP archive's too (zip_backend.cpp:340-375), and "." and ".." mean something
\* else to the host.  What extract_all does with such an image is not modelled.
ASSUME NameAssumption == Names \cap {"", ".", ".."} = {}

VARIABLES
  table,         \* mounts_, in the order of the handles
  disk,          \* host path -> file
  stack,         \* the active calls of extract_dir_recursive, innermost first
  next,          \* the next mount to extract
  ret,           \* "running", or what the last call returned
  privileged,    \* permissions do not bind the process
  calls,
  faults,        \* failures of the host so far
  before,        \* history: disk when the extraction began, the destination made
  injected,      \* history: the host failed in this call
  lost           \* history: and the call did not notice

vars == <<table, disk, stack, next, ret, privileged, calls, faults, before, injected, lost>>

Now == "now"
NoData == <<>>
Half(data) == <<"half", data>>
Node(type, mode, mtime, data) == [type |-> type, mode |-> mode, mtime |-> mtime, data |-> data]

\* Put a file; a new name changes its directory.
Put(d, h, node) ==
  [q \in DOMAIN d \cup {h} |->
     IF q = h THEN node
     ELSE IF h \notin DOMAIN d /\ q = Parent(h) THEN [d[q] EXCEPT !.mtime = Now]
     ELSE d[q]]

Fault == faults < MaxFaults /\ faults' = faults + 1 /\ injected' = TRUE

CanCreate(h) ==
  /\ Parent(h) \in DOMAIN disk
  /\ disk[Parent(h)].type = "dir"
  /\ privileged \/ disk[Parent(h)].mode = "rw"

WithDirectory(h) ==
  IF h \in DOMAIN disk THEN disk ELSE Put(disk, h, Node("dir", "rw", Now, NoData))

CanOverwrite(h) == disk[h].type = "file" /\ (privileged \/ disk[h].mode = "rw")

-----------------------------------------------------------------------------
(* extract_dir_recursive.  A frame is a call: its directory in the image   *)
(* and on the host, and the entries its iterator has left.                 *)

Frame(img, path, host) ==
  [image |-> img, path |-> path, host |-> host, left |-> Children(img, path)]

Entry == Head(stack[1].left)
Pending == ret = "running" /\ stack # <<>> /\ stack[1].left # <<>>
From == Append(stack[1].path, Entry.name)

\* bug: the path below the mount is lost
FlatTarget == <<Entry.name>>
Target == Append(stack[1].host, Entry.name)
Consumed == <<[stack[1] EXCEPT !.left = Tail(@)]>> \o Tail(stack)

\* Permissions and times are set as far as the host lets them.
WithMetadata(d) ==
  [d EXCEPT ![Target].mode = Permissions(stack[1].image, From),
            ![Target].mtime = ModificationTime(stack[1].image, From)]

\* bug: create_directories, which creates nothing for a directory that is
\* there, is asked anyway
DirectoryIsNew ==
  Entry.dir /\ ListErrno(stack[1].image, From) = "OK"
            /\ Target \notin DOMAIN disk /\ CanCreate(Target)

DirectoryReady ==
  Entry.dir /\ ListErrno(stack[1].image, From) = "OK"
            /\ (Target \in DOMAIN disk \/ CanCreate(Target))

FileReady ==
  ~Entry.dir /\ OpenErrno(stack[1].image, From) = "OK"
             /\ IF Target \in DOMAIN disk THEN CanOverwrite(Target) ELSE CanCreate(Target)

\* bug: a directory that is there is taken to be extracted
EnterDirectoryOnce ==
  /\ Pending
  /\ DirectoryReady
  /\ disk' = WithMetadata(WithDirectory(Target))
  /\ stack' = IF Target \in DOMAIN disk THEN Consumed
              ELSE <<Frame(stack[1].image, From, Target)>> \o Consumed
  /\ UNCHANGED <<table, next, ret, privileged, calls, faults, before, injected, lost>>

EnterDirectory ==
  /\ Pending
  /\ DirectoryReady
  /\ \/ disk' = WithMetadata(WithDirectory(Target)) /\ UNCHANGED <<faults, injected, lost>>
     \/ disk' = WithDirectory(Target) /\ Fault /\ lost' = TRUE
  /\ stack' = <<Frame(stack[1].image, From, Target)>> \o Consumed
  /\ UNCHANGED <<table, next, ret, privileged, calls, before>>

\* The old file is truncated.  The last bytes may be lost unnoticed when the
\* stream is closed.
ExtractFile ==
  /\ Pending
  /\ FileReady
  /\ LET data == <<stack[1].image, From>>
         Made(bytes) == Put(disk, Target, Node("file", "rw", Now, bytes))
     IN  \/ disk' = WithMetadata(Made(data)) /\ UNCHANGED <<faults, injected, lost>>
         \/ disk' \in {Made(data), WithMetadata(Made(Half(data)))}
            /\ Fault /\ lost' = TRUE
  /\ stack' = Consumed
  /\ UNCHANGED <<table, next, ret, privileged, calls, before>>

LeaveDirectory ==
  /\ ret = "running" /\ stack # <<>> /\ stack[1].left = <<>>
  /\ stack' = Tail(stack)
  /\ UNCHANGED <<table, disk, next, ret, privileged, calls, faults, before, injected, lost>>

\* bug: the call returns, its frames stay
GiveUpLater == ret' = "failed" /\ UNCHANGED stack

GiveUp == ret' = "failed" /\ stack' = <<>>

\* The entry is no file the backend can open, or the host refuses its name.
EntryFails ==
  /\ Pending
  /\ ~DirectoryReady /\ ~FileReady
  /\ GiveUp
  /\ UNCHANGED <<table, disk, next, privileged, calls, faults, before, injected, lost>>

\* A full disk or an error of a library: what was made stays, without its
\* metadata, and a file keeps what was written.
HostFails ==
  /\ Pending
  /\ \/ disk' = disk
     \/ FileReady /\ disk' = Put(disk, Target, Node("file", "rw", Now, Half(<<stack[1].image, From>>)))
     \/ DirectoryReady /\ disk' = WithDirectory(Target)
  /\ Fault
  /\ GiveUp
  /\ UNCHANGED <<table, next, privileged, calls, before, lost>>

-----------------------------------------------------------------------------
(* extract_all.                                                            *)

Root(k) == IF Len(table) = 1 THEN <<>> ELSE <<table[k].base>>

Destination == <<>>

NothingMounted ==
  /\ ret' = "failed" /\ injected' = FALSE
  /\ UNCHANGED <<disk, faults>>

\* A destination that is not there is made, with the directories above it.
DestinationReady ==
  /\ ret' = "running" /\ injected' = FALSE
  /\ disk' = WithDirectory(Destination)
  /\ UNCHANGED faults

DestinationFails ==
  /\ Destination \notin DOMAIN disk
  /\ ret' = "failed" /\ Fault
  /\ disk' \in {disk, WithDirectory(Destination)}

ExtractAll(t) ==
  /\ ret # "running"
  /\ calls < MaxCalls
  /\ table' = t
  /\ next' = 1
  /\ calls' = calls + 1
  /\ \/ t = <<>> /\ NothingMounted
     \/ t # <<>> /\ (DestinationReady \/ DestinationFails)
  /\ before' = disk'
  /\ lost' = FALSE
  /\ UNCHANGED <<stack, privileged>>

StartMount ==
  /\ ret = "running" /\ stack = <<>> /\ next <= Len(table)
  /\ Root(next) \notin DOMAIN disk => CanCreate(Root(next))
  /\ disk' = WithDirectory(Root(next))
  /\ stack' = <<Frame(table[next].image, <<>>, Root(next))>>
  /\ next' = next + 1
  /\ UNCHANGED <<table, ret, privileged, calls, faults, before, injected, lost>>

SubtreeFails ==
  /\ ret = "running" /\ stack = <<>> /\ next <= Len(table)
  /\ \/ /\ Root(next) \notin DOMAIN disk /\ ~CanCreate(Root(next))
        /\ UNCHANGED <<disk, faults, injected>>
     \/ /\ disk' = disk \/ (CanCreate(Root(next)) /\ disk' = WithDirectory(Root(next)))
        /\ Fault
  /\ GiveUp
  /\ UNCHANGED <<table, next, privileged, calls, before, lost>>

Finish ==
  /\ ret = "running" /\ stack = <<>> /\ next > Len(table)
  /\ ret' = "ok"
  /\ UNCHANGED <<table, disk, stack, next, privileged, calls, faults, before, injected, lost>>

Init ==
  /\ table = <<>>
  /\ disk \in Disks
  /\ stack = <<>>
  /\ next = 1
  /\ ret = "ok"
  /\ privileged \in BOOLEAN
  /\ calls = 0
  /\ faults = 0
  /\ before = disk
  /\ injected = FALSE
  /\ lost = FALSE

Next ==
  \/ \E t \in Tables : ExtractAll(t)
  \/ StartMount
  \/ SubtreeFails
  \/ EnterDirectory
  \/ ExtractFile
  \/ LeaveDirectory
  \/ EntryFails
  \/ HostFails
  \/ Finish

Spec == Init /\ [][Next]_vars

-----------------------------------------------------------------------------
(* Properties.                                                             *)

\* Types, and the recursion follows the directories on the host.
TypeOK ==
  /\ table \in Tables \cup {<<>>}
  /\ ret = "running" => Destination \in DOMAIN disk
  /\ \A h \in DOMAIN disk :
       /\ h # <<>> => Parent(h) \in DOMAIN disk
       /\ disk[h].type \in {"file", "dir"} /\ disk[h].mode \in {"rw", "ro"}
  /\ \A k \in DOMAIN stack :
       /\ stack[k].host \in DOMAIN disk
       /\ k < Len(stack) => stack[k].path = Append(stack[k + 1].path, Last(stack[k].path))
  /\ next \in 1 .. Len(table) + 1
  /\ ret \in {"running", "ok", "failed"}
  /\ ret # "running" => stack = <<>>
  /\ privileged \in BOOLEAN /\ injected \in BOOLEAN /\ lost \in BOOLEAN
  /\ calls \in 0 .. MaxCalls /\ faults \in 0 .. MaxFaults

\* The answers of a backend fit together, unless a ZIP archive names something
\* in a directory that has no entry.
AnswersAgree ==
  ret = "running" /\ next = 1 =>
    \A k \in DOMAIN table :
      LET img == table[k].image
      IN  (\A p \in Paths(img) : Anchored(img, p)) =>
             \A path \in Paths(img) \cup {<<>>, <<"absent">>} : AnswersAt(img, path)

\* The mounts do not share a subtree.
Apart == \A j, k \in DOMAIN table : j # k => table[j].base # table[k].base

\* The paths that are to be extracted from the k-th mount.
Wanted(k) == {p \in Paths(table[k].image) : Anchored(table[k].image, p)}
Host(k, path) == Root(k) \o path
WantedType(k, path) == TypeAt(table[k].image, path)

\* c_api.h:659, 667: when extract_all reports success, every file that the
\* directories of its image lead to is on the host with its bytes, permissions
\* and time, and every directory with its permissions, on whatever earlier
\* extractions have left.  (A host that drops data or metadata unnoticed is
\* excluded, and so is an empty directory where a file lay.)
SuccessIsComplete ==
  ret = "ok" /\ ~lost /\ Apart =>
    \A k \in DOMAIN table : \A path \in Wanted(k) :
      /\ Host(k, path) \in DOMAIN disk
      /\ LET node == disk[Host(k, path)]
             img == table[k].image
         IN  /\ node.mode = Permissions(img, path)
             /\ IF WantedType(k, path) = "file"
                THEN node = Node("file", node.mode, ModificationTime(img, path), <<img, path>>)
                ELSE \/ node.type = "dir"
                     \/ before[Host(k, path)].type = "file"

\* c_api.h:659, "Recursively extracts all files from the embedded filesystem":
\* success means that every file of the images is on the host.
EveryFileExtracted ==
  ret = "ok" /\ ~lost /\ Apart =>
    \A k \in DOMAIN table : \A path \in Paths(table[k].image) :
      IsFile(table[k].image, path) => Host(k, path) \in DOMAIN disk

\* Whatever fails, once the destination is there nothing is touched but the
\* paths of the images below it, and nothing is created beside them.  (For
\* images whose names are names, NameAssumption.)
OnlyTargetsTouched ==
  LET Targets == UNION {{Host(k, path) : path \in Wanted(k) \cup {<<>>}} : k \in DOMAIN table}
  IN  /\ DOMAIN before \subseteq DOMAIN disk
      /\ DOMAIN disk \subseteq DOMAIN before \cup Targets
      /\ \A h \in DOMAIN before \ Targets : [disk[h] EXCEPT !.mtime = before[h].mtime] = before[h]

\* What keeps the path of the k-th mount from being extracted to this host.
\* The permissions of a directory are set before anything is put in it.  A file
\* where a directory belongs is in the way of what goes in there; if nothing
\* does, exists() takes the file for the directory (fs_context.cpp:284).
ParentMode(k, path) ==
  IF Len(path) > 1 THEN Permissions(table[k].image, Parent(path))
  ELSE IF Root(k) \in DOMAIN before THEN before[Root(k)].mode ELSE "rw"
Obstructed(k, path) ==
  LET h == Host(k, path)
  IN  \/ WantedType(k, path) = "other"
      \/ h \notin DOMAIN before /\ ~privileged /\ ParentMode(k, path) = "ro"
      \/ Parent(h) \in DOMAIN before /\ before[Parent(h)].type = "file"
      \/ /\ h \in DOMAIN before
         /\ WantedType(k, path) = "file"
         /\ before[h].type = "dir" \/ (~privileged /\ before[h].mode = "ro")

\* On a host that works, extract_all fails exactly when one of these obstacles
\* was there: none of them is passed over, nor is a tree refused that an earlier
\* extraction has left half done.  (A file where a directory without entries
\* belongs is none of them: the call succeeds and leaves the file.)
FailsForReason ==
  ret # "running" /\ calls > 0 /\ ~injected /\ Apart /\ table # <<>> =>
    (ret = "failed") =
      (\/ \E k \in DOMAIN table :
              /\ Root(k) \notin DOMAIN before
              /\ before[<<>>].type = "file" \/ (~privileged /\ before[<<>>].mode = "ro")
       \/ \E k \in DOMAIN table : \E path \in Wanted(k) : Obstructed(k, path))

=============================================================================
