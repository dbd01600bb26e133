---------------------------- MODULE DlCacheProofs ----------------------------
(***************************************************************************)
(* What dlmap2file guarantees for every set of mount points, paths and     *)
(* images.                                                                 *)
(***************************************************************************)
EXTENDS DlCache, WellFoundedInduction, TLAPS

-----------------------------------------------------------------------------
(* The invariant.                                                          *)

\* e is a mount that b, the base name of its mount point, has stood for.
StoodFor(b, mp, image) ==
  /\ mp \in MountPoints /\ image \in Images
  /\ b = MountPointBasename(mp) /\ <<mp, image>> \in under[b]

Types ==
  /\ DOMAIN mounts \subseteq MountPoints
  /\ \A mp \in DOMAIN mounts : StoodFor(MountPointBasename(mp), mp, mounts[mp])
  /\ DOMAIN cache \subseteq Paths
  /\ \A b \in DOMAIN under : under[b] \subseteq MountPoints \X Images
  /\ DOMAIN under = {MountPointBasename(mp) : mp \in MountPoints}
  /\ tmpdir \in BOOLEAN

\* A cached path lies below a mount point that its host path is named after,
CachedBelow ==
  \A path \in DOMAIN cache :
    \E mp \in MountPoints, image \in Images :
      /\ StoodFor(cache[path].dir, mp, image)
      /\ IsPrefix(mp, path)
      /\ cache[path] = HostPath(mp, path)

\* and so is a host file, with the bytes of one of its mounts.
DiskBelow ==
  \A host \in DOMAIN disk :
    \E mp \in MountPoints :
      /\ StoodFor(host.dir, mp, disk[host].image)
      /\ host = [dir |-> MountPointBasename(mp), rel |-> disk[host].rel]

\* The host file of a cached path is there, and its copy ended, if its base
\* name stood for one mount only and no other spelling of it was extracted.
CachedThere ==
  \A path \in DOMAIN cache :
    Sole(cache[path].dir) /\ SpelledOnce(path) =>
      cache[path] \in DOMAIN disk /\ disk[cache[path]].done

IInv == Types /\ CachedBelow /\ DiskBelow /\ CachedThere

\* Two cached paths share a host file only if two mounts share a base name, or
\* they are two spellings of one path.
LEMMA SoleHost ==
  ASSUME NEW mp \in MountPoints, NEW mq \in MountPoints, NEW im, NEW iq, NEW p, NEW q,
         IsPrefix(mp, p), IsPrefix(mq, q), HostPath(mp, p) = HostPath(mq, q),
         StoodFor(HostPath(mp, p).dir, mp, im), StoodFor(HostPath(mq, q).dir, mq, iq),
         Sole(HostPath(mp, p).dir)
  PROVE  mp = mq /\ Rel(mp, p) = Rel(mp, q)
  <1>1. mp = mq
    BY DEF Sole, StoodFor
  <1> DEFINE a == HostPath(mp, p)
             b == HostPath(mp, q)
  <1>2. a.rel = Rel(mp, p) /\ b.rel = Rel(mp, q)
    BY DEF HostPath
  <1> QED
    BY <1>1, <1>2

\* The invariant implies what the runs check of cached paths.
LEMMA InvKeeps ==
  ASSUME IInv
  PROVE  CachedFilesKept
  <1> SUFFICES ASSUME NEW path \in DOMAIN cache, SpelledOnce(path),
                      NEW mp \in MountPoints, NEW image \in Images,
                      under[cache[path].dir] = {<<mp, image>>}
               PROVE  /\ cache[path] \in DOMAIN disk
                      /\ disk[cache[path]].image = image
                      /\ disk[cache[path]].rel = Rel(mp, path)
    BY DEF CachedFilesKept
  <1> DEFINE host == cache[path]
  <1>1. host \in DOMAIN disk
    BY DEF IInv, CachedThere, Sole
  <1>2. PICK mc \in MountPoints, ic \in Images :
          StoodFor(host.dir, mc, ic) /\ IsPrefix(mc, path) /\ host = HostPath(mc, path)
    BY DEF IInv, CachedBelow
  <1>3. PICK md \in MountPoints :
          /\ StoodFor(host.dir, md, disk[host].image)
          /\ host = [dir |-> MountPointBasename(md), rel |-> disk[host].rel]
    BY <1>1 DEF IInv, DiskBelow
  <1>4. mc = mp /\ md = mp /\ disk[host].image = image
    BY <1>2, <1>3 DEF StoodFor
  <1>5. host.rel = Rel(mp, path) /\ host.rel = disk[host].rel
    <2> HIDE DEF host
    <2>1. host.rel = Rel(mp, path)
      BY <1>2, <1>4 DEF HostPath
    <2>2. host.rel = disk[host].rel
      BY <1>3
    <2> QED
      BY <2>1, <2>2
  <1> QED
    BY <1>1, <1>4, <1>5

-----------------------------------------------------------------------------
(* The owner of a path.                                                    *)

\* A set of natural numbers that is not empty has a least element.
LEMMA LeastNatural ==
  ASSUME NEW S, S \subseteq Nat, S # {}
  PROVE  \E n \in S : \A k \in S : n <= k
  <1> DEFINE R == {ss \in Nat \X Nat : ss[1] < ss[2]}
  <1>1. IsWellFoundedOn(R, Nat)
    BY NatLessThanWellFounded DEF OpToRel
  <1> HIDE DEF R
  <1>2. PICK n \in S : \A k \in S : <<k, n>> \notin R
    BY <1>1, WFMin
  <1>3. \A k \in S : ~(k < n)
    BY <1>2 DEF R
  <1> QED
    BY <1>3

\* Of the mount points that cover a path one is the longest.
LEMMA OwnerCovers ==
  ASSUME Types, NEW path \in Paths, Covering(path) # {}
  PROVE  /\ Owner(path) \in DOMAIN mounts /\ Owner(path) \in MountPoints
         /\ IsPrefix(Owner(path), path)
         /\ StoodFor(MountPointBasename(Owner(path)), Owner(path), mounts[Owner(path)])
  <1> DEFINE short(mp) == Len(path) - Len(mp)
             S == {short(mp) : mp \in Covering(path)}
  <1>1. ASSUME NEW mp \in Covering(path)
        PROVE  Len(mp) \in Nat /\ Len(path) \in Nat /\ short(mp) \in Nat
    <2>1. mp \in Seq(STRING) /\ path \in Seq(STRING) /\ IsPrefix(mp, path)
      BY PathAssumption DEF Types, Covering
    <2>2. Len(mp) \in Nat /\ Len(path) \in Nat /\ Len(mp) <= Len(path)
      BY <2>1 DEF IsPrefix
    <2> QED
      BY <2>2
  <1>2. S \subseteq Nat /\ S # {}
    BY <1>1
  <1>3. PICK n \in S : \A k \in S : n <= k
    <2> HIDE DEF S
    <2> QED
      BY <1>2, LeastNatural
  <1>4. PICK mp \in Covering(path) : n = short(mp)
    BY <1>3
  <1>5. ASSUME NEW m \in Covering(path)
        PROVE  Len(m) <= Len(mp)
    <2>1. short(mp) <= short(m)
      BY <1>3, <1>4
    <2> QED
      BY <1>1, <2>1
  <1>6. Owner(path) \in Covering(path)
    BY <1>5 DEF Owner
  <1> QED
    BY <1>6 DEF Covering, Types

-----------------------------------------------------------------------------
(* The invariant is inductive.                                             *)

LEMMA Start == Init => IInv
  <1> SUFFICES ASSUME Init PROVE IInv
    OBVIOUS
  <1>1. DOMAIN mounts = {} /\ DOMAIN cache = {} /\ DOMAIN disk = {} /\ disk = <<>>
    BY DEF Init
  <1>2. Types
    BY <1>1 DEF Init, Types
  <1> QED
    BY <1>1, <1>2 DEF Init, IInv, CachedBelow, DiskBelow, CachedThere

LEMMA MountStep ==
  ASSUME IInv, alive, NEW mp \in MountPoints, NEW image \in Images, Mount(mp, image)
  PROVE  IInv'
  <1> DEFINE base == MountPointBasename(mp)
  <1>1. /\ base \in DOMAIN under
        /\ DOMAIN under' = DOMAIN under
        /\ under'[base] = under[base] \cup {<<mp, image>>}
        /\ \A b \in DOMAIN under : b # base => under'[b] = under[b]
    BY DEF Mount, IInv, Types
  <1> HIDE DEF base
  <1>2. ASSUME NEW b, NEW m, NEW i, StoodFor(b, m, i)
        PROVE  StoodFor(b, m, i)'
    <2>1. b \in DOMAIN under
      BY <1>2 DEF StoodFor, IInv, Types
    <2> QED
      BY <1>1, <1>2, <2>1 DEF StoodFor
  <1>3. /\ DOMAIN mounts' = DOMAIN mounts \cup {mp} /\ mounts'[mp] = image
        /\ \A m \in DOMAIN mounts : m # mp => mounts'[m] = mounts[m]
    BY Zenon DEF Mount, With
  <1>4. StoodFor(MountPointBasename(mp), mp, image)'
    BY <1>1 DEF StoodFor, base
  <1>5. Types'
    <2>1. DOMAIN mounts' \subseteq MountPoints
      BY <1>3 DEF IInv, Types
    <2>2. \A m \in DOMAIN mounts' : StoodFor(MountPointBasename(m), m, mounts[m])'
      <3> SUFFICES ASSUME NEW m \in DOMAIN mounts'
                   PROVE  StoodFor(MountPointBasename(m), m, mounts[m])'
        OBVIOUS
      <3>1. CASE m = mp
        BY <1>3, <1>4, <3>1
      <3>2. CASE m # mp
        <4>1. m \in DOMAIN mounts /\ mounts'[m] = mounts[m]
          BY <1>3, <3>2
        <4>2. StoodFor(MountPointBasename(m), m, mounts[m])
          BY <4>1 DEF IInv, Types
        <4>3. StoodFor(MountPointBasename(m), m, mounts'[m])
          BY <4>1, <4>2
        <4> QED
          BY <1>2, <4>1, <4>2
      <3> QED
        BY <3>1, <3>2
    <2>3. \A b \in DOMAIN under' : under'[b] \subseteq MountPoints \X Images
      BY <1>1 DEF IInv, Types
    <2> QED
      BY <1>1, <2>1, <2>2, <2>3 DEF IInv, Types, Mount
  <1>6. CachedBelow'
    BY <1>2 DEF IInv, CachedBelow, Mount, HostPath
  <1>7. DiskBelow'
    BY <1>2 DEF IInv, DiskBelow, Mount
  <1>8. CachedThere'
    <2> SUFFICES ASSUME NEW path \in DOMAIN cache, Sole(cache[path].dir)', SpelledOnce(path)
                 PROVE  cache[path] \in DOMAIN disk /\ disk[cache[path]].done
      BY DEF CachedThere, Mount, SpelledOnce
    <2> DEFINE b == cache[path].dir
    <2>1. PICK m \in MountPoints, i \in Images : StoodFor(b, m, i)
      BY DEF IInv, CachedBelow
    <2>2. b \in DOMAIN under /\ <<m, i>> \in under[b] /\ under[b] \subseteq under'[b]
      BY <1>1, <2>1 DEF StoodFor, IInv, Types
    <2>3. PICK e \in under'[b] : under'[b] = {e}
      BY DEF Sole, Mount
    <2>4. under[b] = {e}
      BY <2>2, <2>3
    <2> QED
      BY <2>4 DEF Sole, IInv, CachedThere
  <1> QED
    BY <1>5, <1>6, <1>7, <1>8 DEF IInv

LEMMA UnmountStep ==
  ASSUME IInv, NEW S, Unmount(S)
  PROVE  IInv'
  <1>1. /\ DOMAIN mounts' \subseteq DOMAIN mounts
        /\ \A m \in DOMAIN mounts' : mounts'[m] = mounts[m]
    <2>1. mounts' = [m \in DOMAIN mounts \ S |-> mounts[m]]
      BY Zenon DEF Unmount, Without, Restrict
    <2> QED
      BY <2>1
  <1>2. Types'
    BY <1>1 DEF IInv, Types, StoodFor, Unmount
  <1>3. CachedBelow' /\ DiskBelow' /\ CachedThere'
    BY DEF IInv, CachedBelow, DiskBelow, CachedThere, Sole,
           StoodFor, Unmount, SpelledOnce, HostPath
  <1> QED
    BY <1>2, <1>3 DEF IInv

\* A call that answers without extracting changes nothing but the answer.
LEMMA AnswerStep ==
  ASSUME IInv, UNCHANGED <<mounts, cache, tmpdir, disk, alive, under, asked>>
  PROVE  IInv'
  <1>1. Types'
    BY DEF IInv, Types, StoodFor
  <1>2. CachedBelow' /\ DiskBelow' /\ CachedThere'
    BY DEF IInv, CachedBelow, DiskBelow, CachedThere, Sole,
           StoodFor, SpelledOnce, HostPath
  <1> QED
    BY <1>1, <1>2 DEF IInv

LEMMA TeardownStep ==
  ASSUME IInv, Teardown
  PROVE  IInv'
  <1>1. PICK removed : disk' = Without(disk, removed)
    BY DEF Teardown
  <1>2. /\ DOMAIN disk' \subseteq DOMAIN disk
        /\ \A host \in DOMAIN disk' : disk'[host] = disk[host]
    <2>1. disk' = [h \in DOMAIN disk \ removed |-> disk[h]]
      BY <1>1 DEF Without, Restrict
    <2> QED
      BY <2>1
  <1>3. DOMAIN mounts' = {} /\ DOMAIN cache' = {}
    <2>1. mounts' = <<>> /\ cache' = <<>> /\ DOMAIN <<>> = {}
      BY DEF Teardown
    <2> QED
      BY <2>1, Zenon
  <1>4. Types'
    BY <1>3 DEF IInv, Types, Teardown
  <1>5. DiskBelow'
    BY <1>2 DEF IInv, DiskBelow, StoodFor, Teardown
  <1> QED
    BY <1>3, <1>4, <1>5 DEF IInv, CachedBelow, CachedThere

\* One host file appears: named after a mount point and holding the bytes of
\* one of its mounts.
LEMMA FileAppears ==
  ASSUME IInv, NEW path \in Paths, Covering(path) # {},
         NEW host, host = HostPath(Owner(path), path),
         NEW bytes, bytes.image = mounts[Owner(path)], bytes.rel = Rel(Owner(path), path),
         NEW done, disk' = With(disk, host, Copy(bytes, done)), under' = under
  PROVE  DiskBelow'
  <1> DEFINE mp == Owner(path)
  <1>1. /\ mp \in MountPoints /\ IsPrefix(mp, path)
        /\ StoodFor(MountPointBasename(mp), mp, mounts[mp])
    BY OwnerCovers DEF IInv
  <1>2. host = [dir |-> MountPointBasename(mp), rel |-> Rel(mp, path)]
    BY DEF HostPath
  <1>3. StoodFor(host.dir, mp, bytes.image)
    BY <1>1, <1>2
  <1> DEFINE copy == Copy(bytes, done)
  <1>7. copy.image = bytes.image /\ copy.rel = bytes.rel
    BY DEF Copy
  <1> HIDE DEF copy
  <1>8. disk' = With(disk, host, copy)
    BY DEF copy
  <1>4. /\ DOMAIN disk' = DOMAIN disk \cup {host} /\ disk'[host] = copy
        /\ \A h \in DOMAIN disk : h # host => disk'[h] = disk[h]
    BY <1>8, Zenon DEF With
  <1> SUFFICES ASSUME NEW h \in DOMAIN disk'
               PROVE  \E m \in MountPoints :
                        /\ StoodFor(h.dir, m, disk'[h].image)
                        /\ h = [dir |-> MountPointBasename(m), rel |-> disk'[h].rel]
    BY DEF DiskBelow, StoodFor
  <1>5. CASE h = host
    <2>1. disk'[h].image = bytes.image /\ disk'[h].rel = Rel(mp, path)
      BY <1>4, <1>5, <1>7
    <2> QED
      BY <1>1, <1>2, <1>3, <1>5, <2>1
  <1>6. CASE h # host
    <2>1. h \in DOMAIN disk /\ disk'[h] = disk[h]
      BY <1>4, <1>6
    <2>2. PICK m \in MountPoints :
            /\ StoodFor(h.dir, m, disk[h].image)
            /\ h = [dir |-> MountPointBasename(m), rel |-> disk[h].rel]
      BY <2>1 DEF IInv, DiskBelow
    <2> QED
      BY <2>1, <2>2
  <1> QED
    BY <1>5, <1>6

LEMMA CopyFailsStep ==
  ASSUME IInv, alive, NEW path \in Paths, Covering(path) # {}, path \notin DOMAIN cache,
         NEW bytes, bytes.image = mounts[Owner(path)], bytes.rel = Rel(Owner(path), path),
         tmpdir' = TRUE, asked' = asked \cup {path}, CopyFails(HostPath(Owner(path), path), bytes)
  PROVE  IInv'
  <1> DEFINE mp == Owner(path)
             host == HostPath(mp, path)
  <1>1. UNCHANGED <<mounts, cache, alive, under>>
    BY DEF CopyFails
  <1>2. Types'
    BY <1>1 DEF IInv, Types, StoodFor
  <1>3. CachedBelow'
    BY <1>1 DEF IInv, CachedBelow, StoodFor, HostPath
  <1>4. /\ mp \in MountPoints /\ IsPrefix(mp, path)
        /\ StoodFor(MountPointBasename(mp), mp, mounts[mp])
        /\ StoodFor(host.dir, mp, mounts[mp])
    BY OwnerCovers DEF IInv, HostPath
  <1>5. ASSUME NEW p \in DOMAIN cache, Sole(cache[p].dir), SpelledOnce(p)'
        PROVE  cache[p] \in DOMAIN disk /\ disk[cache[p]].done /\ cache[p] # host
    <2>1. PICK m \in MountPoints, i \in Images :
            StoodFor(cache[p].dir, m, i) /\ IsPrefix(m, p) /\ cache[p] = HostPath(m, p)
      BY DEF IInv, CachedBelow
    <2>2. path \in asked' \ {p}
      OBVIOUS
    <2>3. cache[p] # host
      <3> SUFFICES ASSUME HostPath(m, p) = host PROVE FALSE
        BY <2>1
      <3>1. /\ StoodFor(HostPath(m, p).dir, m, i) /\ Sole(HostPath(m, p).dir)
            /\ HostPath(m, p) = HostPath(mp, path)
        BY <1>5, <2>1
      <3> HIDE DEF host, mp
      <3>2. StoodFor(HostPath(mp, path).dir, mp, mounts[mp])
        BY <1>4 DEF host
      <3>3. m = mp /\ Rel(m, p) = Rel(m, path)
        BY <1>4, <2>1, <3>1, <3>2, SoleHost
      <3>4. Rel(m, path) # Rel(m, p)
        BY <1>4, <1>5, <2>1, <2>2, <3>3 DEF SpelledOnce
      <3> QED
        BY <3>3, <3>4
    <2>4. SpelledOnce(p)
      BY <1>5 DEF SpelledOnce
    <2> QED
      BY <1>5, <2>3, <2>4 DEF IInv, CachedThere
  <1>6. disk' = disk \/ disk' = Without(disk, {host}) \/ disk' = With(disk, host, Copy(bytes, FALSE))
    BY DEF CopyFails
  <1> HIDE DEF host
  <1>7. CASE disk' = disk
    <2>1. DiskBelow' /\ CachedThere'
      BY <1>1, <1>5, <1>7 DEF IInv, DiskBelow, CachedThere, Sole, StoodFor
    <2> QED
      BY <1>1, <1>2, <1>3, <2>1 DEF IInv
  <1>8. CASE disk' = Without(disk, {host})
    <2>1. disk' = [h \in DOMAIN disk \ {host} |-> disk[h]]
      BY <1>8 DEF Without, Restrict
    <2>2. /\ DOMAIN disk' = DOMAIN disk \ {host}
          /\ \A h \in DOMAIN disk' : disk'[h] = disk[h]
      BY <2>1
    <2>3. DiskBelow'
      BY <1>1, <2>2 DEF IInv, DiskBelow, StoodFor
    <2>4. CachedThere'
      BY <1>1, <1>5, <2>2 DEF CachedThere, Sole
    <2> QED
      BY <1>1, <1>2, <1>3, <2>3, <2>4 DEF IInv
  <1>9. CASE disk' = With(disk, host, Copy(bytes, FALSE))
    <2>2. DiskBelow'
      BY <1>1, <1>9, FileAppears DEF host
    <2>3. /\ DOMAIN disk \subseteq DOMAIN disk'
          /\ \A h \in DOMAIN disk : h # host => disk'[h] = disk[h]
      BY <1>9 DEF With
    <2>4. CachedThere'
      BY <1>1, <1>5, <2>3 DEF CachedThere, Sole
    <2> QED
      BY <1>1, <1>2, <1>3, <2>2, <2>4 DEF IInv
  <1> QED
    BY <1>6, <1>7, <1>8, <1>9

LEMMA CopyDoneStep ==
  ASSUME IInv, alive, NEW path \in Paths, Covering(path) # {}, path \notin DOMAIN cache,
         NEW bytes, bytes = [image |-> mounts[Owner(path)], rel |-> Rel(Owner(path), path)],
         tmpdir' = TRUE, asked' = asked \cup {path}, CopyDone(path, HostPath(Owner(path), path), bytes)
  PROVE  IInv'
  <1> DEFINE mp == Owner(path)
             host == HostPath(mp, path)
  <1>1. UNCHANGED <<mounts, alive, under>>
    BY DEF CopyDone
  <1>2. disk' = With(disk, host, Copy(bytes, TRUE))
    BY DEF CopyDone
  <1>3. /\ mp \in MountPoints /\ IsPrefix(mp, path)
        /\ StoodFor(MountPointBasename(mp), mp, mounts[mp])
        /\ StoodFor(host.dir, mp, mounts[mp])
    BY OwnerCovers DEF IInv, HostPath
  <1>4. cache' = With(cache, path, host)
    BY DEF CopyDone
  <1> HIDE DEF host
  <1>7. DiskBelow'
    BY <1>1, <1>2, FileAppears DEF host
  <1>8. /\ DOMAIN cache' = DOMAIN cache \cup {path} /\ cache'[path] = host
        /\ \A p \in DOMAIN cache : cache'[p] = cache[p]
    BY <1>4 DEF With
  <1>9. /\ DOMAIN disk' = DOMAIN disk \cup {host} /\ disk'[host].done
        /\ \A h \in DOMAIN disk : disk[h].done => disk'[h].done
    <2> DEFINE copy == Copy(bytes, TRUE)
    <2>1. copy.done
      BY DEF Copy
    <2> HIDE DEF copy
    <2>2. /\ DOMAIN disk' = DOMAIN disk \cup {host} /\ disk'[host] = copy
          /\ \A h \in DOMAIN disk : h # host => disk'[h] = disk[h]
      BY <1>2, Zenon DEF With, copy
    <2> QED
      BY <2>1, <2>2
  <1>10. Types'
    BY <1>1, <1>8 DEF IInv, Types, StoodFor
  <1>11. CachedBelow'
    <2> SUFFICES ASSUME NEW p \in DOMAIN cache'
                 PROVE  \E m \in MountPoints, image \in Images :
                          /\ StoodFor(cache'[p].dir, m, image)
                          /\ IsPrefix(m, p)
                          /\ cache'[p] = HostPath(m, p)
      BY <1>1 DEF CachedBelow, StoodFor, HostPath
    <2>1. CASE p = path
      <3>1. mounts[mp] \in Images
        BY <1>3 DEF StoodFor
      <3> QED
        BY <1>3, <1>8, <2>1, <3>1 DEF host
    <2>2. CASE p # path
      <3>1. p \in DOMAIN cache /\ cache'[p] = cache[p]
        BY <1>8, <2>2
      <3> QED
        BY <3>1 DEF IInv, CachedBelow
    <2> QED
      BY <2>1, <2>2
  <1>12. CachedThere'
    <2>1. ASSUME NEW p \in DOMAIN cache, SpelledOnce(p)' PROVE SpelledOnce(p)
      BY <2>1 DEF SpelledOnce
    <2> QED
      BY <1>1, <1>8, <1>9, <2>1 DEF IInv, CachedThere, Sole
  <1> QED
    BY <1>1, <1>7, <1>10, <1>11, <1>12 DEF IInv

LEMMA ExtractStep ==
  ASSUME IInv, alive, NEW path \in Paths, Dlmap2file(path)
  PROVE  IInv'
  <1>1. CASE Refused
    BY <1>1, AnswerStep DEF Refused
  <1>2. CASE Cached(path)
    BY <1>2, AnswerStep DEF Cached
  <1> DEFINE mp == Owner(path)
             bytes == [image |-> mounts[mp], rel |-> Rel(mp, path)]
  <1>3. CASE /\ Covering(path) # {} /\ path \notin DOMAIN cache
             /\ Extract(path, HostPath(mp, path), bytes)
    <2>1. CASE CopyFails(HostPath(mp, path), bytes)
      BY <1>3, <2>1, CopyFailsStep DEF Extract
    <2>2. CASE CopyDone(path, HostPath(mp, path), bytes)
      BY <1>3, <2>2, CopyDoneStep DEF Extract
    <2> QED
      BY <1>3, <2>1, <2>2 DEF Extract
  <1> QED
    BY <1>1, <1>2, <1>3 DEF Dlmap2file

\* Every step keeps the invariant.
LEMMA Inductive == IInv /\ [Next]_vars => IInv'
  <1> SUFFICES ASSUME IInv, [Next]_vars PROVE IInv'
    OBVIOUS
  <1>1. CASE UNCHANGED vars
    BY <1>1, AnswerStep DEF vars
  <1>2. ASSUME alive, NEW mp \in MountPoints, NEW image \in Images, Mount(mp, image)
        PROVE  IInv'
    BY <1>2, MountStep
  <1>3. ASSUME NEW S, Unmount(S)
        PROVE  IInv'
    BY <1>3, UnmountStep
  <1>4. ASSUME alive, NEW path \in Paths, Dlmap2file(path)
        PROVE  IInv'
    BY <1>4, ExtractStep
  <1>5. CASE Teardown
    BY <1>5, TeardownStep
  <1> QED
    BY <1>1, <1>2, <1>3, <1>4, <1>5 DEF Next

-----------------------------------------------------------------------------
(* The theorems.                                                           *)

LEMMA Always == Spec => []IInv
  BY Start, Inductive, PTL DEF Spec

\* A cached path keeps its host file, with the bytes of the file of that path,
\* while one mount only has used the directory it lies in.
THEOREM KeepsCachedFiles == Spec => []CachedFilesKept
  BY Always, InvKeeps, PTL

\* What a failed copy left on the host is written anew before its path is
\* cached.
THEOREM LeftoversNeverCached == Spec => []LeftoversRewritten
  <1>1. IInv => LeftoversRewritten
    BY DEF IInv, CachedThere, LeftoversRewritten
  <1> QED
    BY <1>1, Always, PTL

\* dlmap2file returns the file of the mount that owns the path, fresh or from
\* the cache, while one mount only has used the directory it lies in.
THEOREM AnswersForOwner == Spec => ReturnsOwnersFile
  <1> DEFINE Right(path) ==
        /\ answer' # NoAnswer
        /\ Dlmap2file(path)
        /\ SpelledOnce(path)'
        /\ under[answer'.dir] = {<<Owner(path), mounts[Owner(path)]>>}
        => /\ answer' \in DOMAIN disk'
           /\ disk'[answer'].image = mounts[Owner(path)]
           /\ disk'[answer'].rel = Rel(Owner(path), path)
  <1>1. ASSUME IInv, NEW path \in Paths
        PROVE  Right(path)
    <2> SUFFICES ASSUME Dlmap2file(path), answer' # NoAnswer, SpelledOnce(path)',
                        under[answer'.dir] = {<<Owner(path), mounts[Owner(path)]>>}
                 PROVE  /\ answer' \in DOMAIN disk'
                        /\ disk'[answer'].image = mounts[Owner(path)]
                        /\ disk'[answer'].rel = Rel(Owner(path), path)
      OBVIOUS
    <2> DEFINE mp == Owner(path)
               host == HostPath(mp, path)
               bytes == [image |-> mounts[mp], rel |-> Rel(mp, path)]
               copy == Copy(bytes, TRUE)
    <2>1. CASE Covering(path) # {} /\ path \in DOMAIN cache /\ Cached(path)
      <3>1. answer' = cache[path] /\ disk' = disk /\ SpelledOnce(path)
        BY <2>1 DEF Cached, SpelledOnce
      <3>2. mp \in MountPoints /\ mounts[mp] \in Images
        BY <1>1, <2>1, OwnerCovers DEF IInv, StoodFor
      <3>3. CachedFilesKept
        BY <1>1, InvKeeps
      <3> QED
        BY <2>1, <3>1, <3>2, <3>3 DEF CachedFilesKept
    <2>2. CASE CopyDone(path, host, bytes)
      <3>1. disk' = With(disk, host, copy) /\ copy.image = mounts[mp] /\ copy.rel = Rel(mp, path)
        BY <2>2 DEF CopyDone, Copy
      <3>2. answer' = host
        BY <2>2 DEF CopyDone
      <3>3. host \in DOMAIN disk' /\ disk'[host] = copy
        <4> HIDE DEF host, copy
        <4> QED
          BY <3>1 DEF With
      <3> HIDE DEF copy
      <3> QED
        BY <3>1, <3>2, <3>3
    <2>3. CASE Refused \/ CopyFails(host, bytes)
      BY <2>3 DEF Refused, CopyFails
    <2> QED
      BY <2>1, <2>2, <2>3 DEF Dlmap2file, Extract
  <1>2. IInv => [\A path \in Paths : Right(path)]_vars
    BY <1>1
  <1> QED
    BY <1>2, Always, PTL DEF ReturnsOwnersFile
===============================================================================
