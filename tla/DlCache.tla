------------------------------- MODULE DlCache -------------------------------
(***************************************************************************)
(* dlmap2file: files of mounted images extracted to the host for dlopen,   *)
(* and the cache of host paths (fs_context.cpp).                           *)
(*                                                                         *)
(* A path and a mount point are sequences of components; "" stands for a   *)
(* slash written twice.  A host path below the temporary directory is a    *)
(* directory and the path in it; a host file is known by the image and the *)
(* relative path its bytes came from, and whether its copy ended.          *)
(* Each call holds mutex_, so it is one step.                              *)
(***************************************************************************)
EXTENDS Naturals, SequencesExt

CONSTANTS
  MountPoints,   \* mount points callers use
  Images,
  Files,         \* [Images -> set of relative file paths]
  Paths          \* paths callers pass to dlmap2file

\* The names in the images are names: the library takes an entry called ".."
\* as it comes, and its host file would lie elsewhere than modelled.
ASSUME PathAssumption ==
  /\ \A path \in MountPoints \cup Paths : path \in Seq(STRING)
  /\ DOMAIN Files = Images
  /\ \A image \in Images : \A file \in Files[image] :
       file # <<>> /\ \A k \in DOMAIN file : file[k] \notin {"", ".", ".."}

VARIABLES
  mounts,        \* mounts_: mount point -> image
  cache,         \* dl_cache_: path -> host path
  tmpdir,        \* dl_tmpdir_ has been created
  disk,          \* host path below it -> [image, rel, done]
  answer,        \* the host path the last call returned, or NoAnswer
  alive,         \* the process runs
  under,         \* history: base name -> the <<mount point, image>> it stood for
  asked          \* history: the paths an extraction was begun for

vars == <<mounts, cache, tmpdir, disk, answer, alive, under, asked>>

NoAnswer == [dir |-> "", rel |-> <<>>]

With(f, x, v) == [y \in DOMAIN f \cup {x} |-> IF y = x THEN v ELSE f[y]]

Without(f, S) == Restrict(f, DOMAIN f \ S)

\* The last component of the mount point, "root" for "/".
MountPointBasename(mp) == IF mp = <<>> THEN "root" ELSE Last(mp)

Covering(path) == {mp \in DOMAIN mounts : IsPrefix(mp, path)}

Owner(path) == CHOOSE mp \in Covering(path) : \A m \in Covering(path) : Len(m) <= Len(mp)

\* The relative path, in the image and on the host.  The host reads a doubled
\* slash and "." as nothing, and so do the backends, some of them only in some
\* places: elsewhere their open fails, as it may at any time.  They look ".."
\* up as a name, which no image has, so such a path is refused.
Rel(mp, path) == SelectSeq(SubSeq(path, Len(mp) + 1, Len(path)), LAMBDA c : c \notin {"", "."})

\* bug: files of one mount share a directory
FlatHostPath(mp, path) == [dir |-> MountPointBasename(mp), rel |-> <<Last(path)>>]

HostPath(mp, path) == [dir |-> MountPointBasename(mp), rel |-> Rel(mp, path)]

\* A host file after a copy that was seen through, or that broke off.  The
\* first may miss its last buffer: that the stream wrote it when it was closed
\* is not checked.
Copy(bytes, done) == [image |-> bytes.image, rel |-> bytes.rel, done |-> done]

-----------------------------------------------------------------------------
Mount(mp, image) ==
  /\ mp \notin DOMAIN mounts
  /\ mounts' = With(mounts, mp, image)
  /\ under' = [under EXCEPT ![MountPointBasename(mp)] = @ \cup {<<mp, image>>}]
  /\ answer' = NoAnswer
  /\ UNCHANGED <<cache, tmpdir, disk, alive, asked>>

\* unmount_handle, and unmount() (fs_context.cpp:517): neither looks at
\* dl_cache_.
Unmount(S) ==
  /\ mounts' = Without(mounts, S)
  /\ answer' = NoAnswer
  /\ UNCHANGED <<cache, tmpdir, disk, alive, under, asked>>

Refused ==
  /\ answer' = NoAnswer
  /\ UNCHANGED <<mounts, cache, tmpdir, disk, alive, under, asked>>

Cached(path) ==
  /\ answer' = cache[path]
  /\ UNCHANGED <<mounts, cache, tmpdir, disk, alive, under, asked>>

\* The copy fails: the host file cannot be created, or it is removed again,
\* or the removal fails as well, which nothing checks, and leaves a part.
CopyFails(host, bytes) ==
  /\ answer' = NoAnswer
  /\ disk' \in {disk, Without(disk, {host}), With(disk, host, Copy(bytes, FALSE))}
  /\ UNCHANGED <<mounts, cache, alive, under>>

CopyDone(path, host, bytes) ==
  /\ answer' = host
  /\ disk' = With(disk, host, Copy(bytes, TRUE))
  /\ cache' = With(cache, path, host)
  /\ UNCHANGED <<mounts, alive, under>>

\* bug: the path is entered in the cache before the bytes are copied.
EnteredEarly(path, host, bytes) ==
  /\ tmpdir' = TRUE
  /\ asked' = asked \cup {path}
  /\ cache' = With(cache, path, host)
  /\ \/ answer' = NoAnswer /\ disk' = Without(disk, {host})
     \/ answer' = host /\ disk' = With(disk, host, Copy(bytes, TRUE))
  /\ UNCHANGED <<mounts, alive, under>>

\* bug: a host file that is there already is not copied again.
CopiedOnce(path, host, bytes) ==
  /\ tmpdir' = TRUE
  /\ asked' = asked \cup {path}
  /\ \/ /\ host \in DOMAIN disk
        /\ answer' = host /\ cache' = With(cache, path, host)
        /\ UNCHANGED <<mounts, disk, alive, under>>
     \/ host \notin DOMAIN disk /\ (CopyFails(host, bytes) \/ CopyDone(path, host, bytes))

Extract(path, host, bytes) ==
  /\ tmpdir' = TRUE
  /\ asked' = asked \cup {path}
  /\ CopyFails(host, bytes) \/ CopyDone(path, host, bytes)

\* Not mounted; extracted before; the image's open or the temporary directory
\* fails; or the file is copied.  That the relative path is empty, EISDIR, is
\* asked only after an open that succeeded (line 957), and no image has a file
\* of that path.
Dlmap2file(path) ==
  \/ Covering(path) = {} /\ Refused
  \/ Covering(path) # {} /\ path \in DOMAIN cache /\ Cached(path)
  \/ /\ Covering(path) # {} /\ path \notin DOMAIN cache
     /\ LET mp == Owner(path)
            rel == Rel(mp, path)
        IN  \/ Refused
            \/ /\ rel \in Files[mounts[mp]]
               /\ Extract(path, HostPath(mp, path),
                          [image |-> mounts[mp], rel |-> rel])

\* ~FsContext: unmount(), the cached files, then the whole directory.  No
\* error of a removal is looked at, so that anything may be left.
Teardown ==
  /\ alive' = FALSE
  /\ mounts' = <<>>
  /\ cache' = <<>>
  /\ \E removed \in SUBSET DOMAIN disk : disk' = Without(disk, removed)
  /\ answer' = NoAnswer
  /\ UNCHANGED <<tmpdir, under, asked>>

Init ==
  /\ mounts = <<>>
  /\ cache = <<>>
  /\ tmpdir = FALSE
  /\ disk = <<>>
  /\ answer = NoAnswer
  /\ alive = TRUE
  /\ under = [b \in {MountPointBasename(mp) : mp \in MountPoints} |-> {}]
  /\ asked = {}

Next ==
  /\ alive
  /\ \/ \E mp \in MountPoints, image \in Images : Mount(mp, image)
     \/ \E S \in {{mp} : mp \in DOMAIN mounts} \cup {DOMAIN mounts} : Unmount(S)
     \/ \E path \in Paths : Dlmap2file(path)
     \/ Teardown

Spec == Init /\ [][Next]_vars

-----------------------------------------------------------------------------
(* Properties.                                                             *)

\* The cache is keyed by the path as it is spelled, the host file is not: the
\* extraction of a second spelling writes the file of the first again, or
\* removes it.
SpelledOnce(path) ==
  \A q \in asked \ {path}, mp \in MountPoints :
    IsPrefix(mp, path) /\ IsPrefix(mp, q) => Rel(mp, q) # Rel(mp, path)

\* A cached path's host file stays on disk with the bytes of the file it was
\* made from, through every later unmount, failed extraction and extraction
\* from another mount, as long as its base name stood for one mount only and
\* no other spelling of the path was extracted.
CachedFilesKept ==
  \A path \in {p \in DOMAIN cache : SpelledOnce(p)} :
    LET host == cache[path]
    IN  \A mp \in MountPoints, image \in Images :
          under[host.dir] = {<<mp, image>>} =>
            /\ host \in DOMAIN disk
            /\ disk[host].image = image
            /\ disk[host].rel = Rel(mp, path)

\* The base name has stood for one mount only.
Sole(b) == \E e \in under[b] : under[b] = {e}

\* What a failed copy left on the host, where the removal failed as well
\* (fs_context.cpp:998), looks like a library there and is none.  No later call
\* takes it for one: before its path is cached it has been written anew.  (Under
\* the exceptions of CachedFilesKept; a file that was cut short when it was
\* closed, fs_context.cpp:996, counts as done and is cached.)
LeftoversRewritten ==
  \A path \in {p \in DOMAIN cache : SpelledOnce(p)} :
    LET host == cache[path]
    IN  Sole(host.dir) /\ host \in DOMAIN disk => disk[host].done

\* c_api.h:679, "the file at `path` (dispatched to its owning mount ...)": the
\* cache is asked by path and survives unmounts, so what is returned is the
\* owner's file where the subtree it lies in was never that of another mount.
\* (A path that is shadowed or remounted since it was cached is not covered:
\* then the call returns the file of the mount that owned it before.  Nor is
\* one whose other spelling was extracted: that may have removed the file.)
ReturnsOwnersFile ==
  [][\A path \in Paths :
       /\ answer' # NoAnswer
       /\ Dlmap2file(path)
       /\ SpelledOnce(path)'
       /\ under[answer'.dir] = {<<Owner(path), mounts[Owner(path)]>>}
       => /\ answer' \in DOMAIN disk'
          /\ disk'[answer'].image = mounts[Owner(path)]
          /\ disk'[answer'].rel = Rel(Owner(path), path)]_vars

=============================================================================
