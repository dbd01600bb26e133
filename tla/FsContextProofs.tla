--------------------------- MODULE FsContextProofs ---------------------------
(***************************************************************************)
(* What FsContext guarantees for every set of paths, mount points and      *)
(* images, every TEBAKO_FD_FLAG and every bound.                           *)
(***************************************************************************)
EXTENDS FsContext, TLAPS, FiniteSetTheorems, SequenceTheorems, WellFoundedInduction

\* A set of natural numbers that is not empty has a least element.
LEMMA LeastNatural ==
  ASSUME NEW S, S \subseteq Nat, S # {}
  PROVE  \E n \in S : \A k \in S : n <= k
<1> DEFINE R == {ss \in Nat \X Nat : ss[1] < ss[2]}
<1>1. IsWellFoundedOn(R, Nat)
  BY NatLessThanWellFounded DEF OpToRel
<1> HIDE DEF R
<1>2. PICK n \in S : \A k \in S : <<k, n>> \notin R
  BY <1>1, WFMin
<1>3. \A k \in S : ~(k < n)
  BY <1>2 DEF R
<1> QED
  BY <1>3

-----------------------------------------------------------------------------
(* Dispatch.                                                               *)

\* Twice a number plus one or not: the sum determines both.
LEMMA EvenOdd ==
  ASSUME NEW a \in Nat, NEW b \in Nat, NEW s \in BOOLEAN, NEW t \in BOOLEAN,
         2 * a + (IF s THEN 1 ELSE 0) = 2 * b + (IF t THEN 1 ELSE 0)
  PROVE  a = b /\ s = t
<1> DEFINE u == IF s THEN 1 ELSE 0
           v == IF t THEN 1 ELSE 0
<1>1. u \in {0, 1} /\ v \in {0, 1} /\ (u = 1 <=> s) /\ (v = 1 <=> t)
  <2>1. CASE s
    BY <2>1
  <2>2. CASE ~s
    BY <2>2
  <2> QED
    BY <2>1, <2>2
<1>2. 2 * a + u = 2 * b + v
  OBVIOUS
<1> HIDE DEF u, v
<1>3. a = b /\ u = v
  BY <1>1, <1>2
<1> QED
  BY <1>1, <1>3, Zenon

LEMMA SizeBounds ==
  ASSUME NEW mp, Len(mp.comps) \in Nat
  PROVE  /\ MountPointSize(mp) \in Nat
         /\ MountPointSize(mp) <= 2 * Len(mp.comps) + 1
<1> DEFINE u == IF mp.slash THEN 1 ELSE 0
<1>1. u \in {0, 1}
  OBVIOUS
<1>2. MountPointSize(mp) = 2 * Len(mp.comps) + u
  BY DEF MountPointSize
<1> HIDE DEF u
<1> QED
  BY <1>1, <1>2

\* No mount that covers the path is spelled longer, and none of that length
\* has a lower handle.
Size(h) == MountPointSize(mounts[h].mp)
Longest(path, h) ==
  \A g \in Covering(path) : Size(g) < Size(h) \/ (Size(g) = Size(h) /\ h <= g)

\* The scan of find_mount ends on such a mount whenever one covers the path:
\* of the longest spellings there is a least handle.
LEMMA FindMountCovers ==
  ASSUME TypeOK, NEW path \in Paths, Covering(path) # {}
  PROVE  /\ FindMount(path) \in Covering(path)
         /\ Longest(path, FindMount(path))
         /\ \A h \in Covering(path) : Size(h) \in Nat
<1> DEFINE Bound == 2 * Len(path) + 1
           Slack == {Bound - Size(h) : h \in Covering(path)}
<1>1. /\ Covering(path) \subseteq Nat
      /\ Bound \in Nat
      /\ \A h \in Covering(path) : Size(h) \in Nat /\ Size(h) <= Bound
  <2>1. Len(path) \in Nat
    BY PathAssumption, LenProperties
  <2>2. Covering(path) \subseteq Nat
    BY DEF TypeOK, Covering
  <2>3. ASSUME NEW h \in Covering(path)
        PROVE  Size(h) \in Nat /\ Size(h) <= Bound
    <3>1. /\ Len(mounts[h].mp.comps) \in Nat
          /\ mounts[h].mp.slash \in BOOLEAN
      BY PathAssumption, LenProperties DEF TypeOK, MountRecord, Covering
    <3>2. Len(mounts[h].mp.comps) <= Len(path)
      BY DEF Covering, PathIsInMount, IsPrefixOf
    <3>3. /\ MountPointSize(mounts[h].mp) \in Nat
          /\ MountPointSize(mounts[h].mp) <= 2 * Len(mounts[h].mp.comps) + 1
      BY <3>1, SizeBounds
    <3> QED
      BY <2>1, <3>1, <3>2, <3>3 DEF Size
  <2> QED
    BY <2>1, <2>2, <2>3
<1>2. Slack \subseteq Nat /\ Slack # {}
  BY <1>1
<1>3. PICK k \in Slack : \A j \in Slack : k <= j
  BY <1>2, LeastNatural
<1> DEFINE Tallest == {h \in Covering(path) : Bound - Size(h) = k}
<1>4. Tallest \subseteq Nat /\ Tallest # {}
  BY <1>1, <1>3
<1>5. PICK h \in Tallest : \A g \in Tallest : h <= g
  BY <1>4, LeastNatural
<1>6. \A g \in Covering(path) : Size(g) < Size(h) \/ (Size(g) = Size(h) /\ h <= g)
  <2> TAKE g \in Covering(path)
  <2>1. Bound - Size(h) <= Bound - Size(g)
    BY <1>3, <1>5
  <2>2. CASE Size(g) = Size(h)
    BY <2>2, <1>5
  <2>3. CASE Size(g) # Size(h)
    BY <2>1, <2>3, <1>1, <1>5
  <2> QED
    BY <2>2, <2>3
<1>7. \E x \in Covering(path) : Longest(path, x)
  BY <1>5, <1>6 DEF Longest
<1>8. FindMount(path) = CHOOSE x \in Covering(path) : Longest(path, x)
  BY DEF FindMount, Longest, Size
<1> QED
  BY <1>1, <1>7, <1>8

\* An owner that find_mount returns is mounted and covers the path.
LEMMA FindMountOwner ==
  ASSUME TypeOK, NEW path \in Paths, FindMount(path) # NoMount
  PROVE  /\ FindMount(path) \in DOMAIN mounts
         /\ PathIsInMount(path, mounts[FindMount(path)].mp)
<1>1. Covering(path) # {}
  BY DEF FindMount
<1> QED
  BY <1>1, FindMountCovers DEF Covering

\* Two mounts that cover a path and have spellings of one length are spelled
\* alike, and no mount point is mounted twice.
LEMMA DispatchLemma ==
  ASSUME TypeOK, MountPointsDistinct
  PROVE  DispatchUnambiguous
<1> SUFFICES ASSUME NEW path \in Paths, NEW g \in Covering(path), NEW h \in Covering(path),
                    MountPointSize(mounts[g].mp) = MountPointSize(mounts[h].mp)
             PROVE  g = h
  BY DEF DispatchUnambiguous
<1> DEFINE p == mounts[g].mp
           q == mounts[h].mp
<1>1. /\ g \in DOMAIN mounts /\ h \in DOMAIN mounts
      /\ IsPrefixOf(p.comps, path) /\ IsPrefixOf(q.comps, path)
  BY DEF Covering, PathIsInMount
<1>2. /\ p \in [comps : Seq(Name), slash : BOOLEAN]
      /\ q \in [comps : Seq(Name), slash : BOOLEAN]
  BY <1>1, PathAssumption DEF TypeOK, MountRecord
<1> HIDE DEF p, q
<1>3. Len(p.comps) = Len(q.comps) /\ p.slash = q.slash
  <2>1. /\ Len(p.comps) \in Nat /\ Len(q.comps) \in Nat
        /\ p.slash \in BOOLEAN /\ q.slash \in BOOLEAN
    BY <1>2, LenProperties
  <2>2. 2 * Len(p.comps) + (IF p.slash THEN 1 ELSE 0)
          = 2 * Len(q.comps) + (IF q.slash THEN 1 ELSE 0)
    BY DEF p, q, MountPointSize
  <2> QED
    BY <2>1, <2>2, EvenOdd
<1>4. \A i \in 1 .. Len(p.comps) : p.comps[i] = q.comps[i]
  BY <1>1, <1>3 DEF IsPrefixOf
<1>5. p.comps = q.comps
  BY <1>2, <1>3, <1>4, SeqEqual
<1>6. p = q
  BY <1>2, <1>3, <1>5
<1> QED
  BY <1>1, <1>6 DEF MountPointsDistinct, p, q

-----------------------------------------------------------------------------
(* Regions.                                                                *)

\* The comparisons accept exactly the regions that are not empty, lie in the
\* file in unbounded arithmetic and can be read in one call, and length 0
\* means the rest of the file.
RegionSound ==
  \A size, off, len \in 0 .. Word - 1 :
    LET region == IF len = 0 THEN size - off ELSE len
    IN  RegionLength(size, off, len) =
          IF off < size /\ off + len <= size /\ region <= StreamsizeMax
          THEN region ELSE 0

LEMMA RegionSoundLemma == RegionSound
<1>1. StreamsizeMax \in Int
  BY HostAssumption DEF StreamsizeMax
<1> QED
  BY <1>1, HostAssumption DEF RegionSound, RegionLength, Minus

-----------------------------------------------------------------------------
(* Every errno a call can end with is one of Errnos.                       *)

LEMMA MountErrnoType ==
  ASSUME NEW i \in Images
  PROVE  MountErrno[Status[i]] \in Errnos
BY ImageAssumption DEF MountErrno, Errnos

LEMMA WholeFileErrnoType ==
  ASSUME NEW f \in HostFiles
  PROVE  WholeFileErrno(f) \in Errnos
BY HostAssumption, MountErrnoType DEF WholeFileErrno, Errnos

LEMMA RegionErrnoType ==
  ASSUME NEW f \in HostFiles, NEW off, NEW len
  PROVE  RegionErrno(f, off, len) \in Errnos
<1>1. off \in DOMAIN Host[f].at => Host[f].at[off].image \in Images
  BY HostAssumption
<1>2. off \in DOMAIN Host[f].at => MountErrno[Status[Host[f].at[off].image]] \in Errnos
  BY <1>1, MountErrnoType
<1> QED
  BY <1>2 DEF RegionErrno, Errnos

\* A region mount that succeeds found an image at its offset.
LEMMA RegionImage ==
  ASSUME NEW f \in HostFiles, NEW off, NEW len, RegionErrno(f, off, len) = "OK"
  PROVE  Host[f].at[off].image \in Images
<1>1. off \in DOMAIN Host[f].at
  BY DEF RegionErrno
<1> QED
  BY <1>1, HostAssumption

LEMMA PathErrnoTypes ==
  ASSUME NEW path, NEW accmode
  PROVE  /\ OpenErrno(path, accmode) \in Errnos
         /\ OpendirErrno(path) \in Errnos
         /\ StatErrno(path) \in Errnos
BY DEF OpenErrno, OpendirErrno, StatErrno, Errnos

-----------------------------------------------------------------------------
(* The steps preserve IndInv: calls that change no table.                  *)

LEMMA FailStep ==
  ASSUME IndInv, NEW e \in Errnos, Fail(e)
  PROVE  IndInv'
BY DEF IndInv, Fail, Return, tables, history, TypeOK, HandlesBelowCounter,
       MountPointsDistinct, CompatIsFirst, DescriptorsOwned, OwnerHolds, Rel,
       CounterAboveFds, OrphansBelowCounters, OrphansStayInvalid, CookieIsOrdinal

LEMMA InitStep == Init => IndInv
BY DEF Init, IndInv, TypeOK, HandlesBelowCounter, MountPointsDistinct, CompatIsFirst,
       DescriptorsOwned, OwnerHolds, CounterAboveFds, OrphansBelowCounters,
       OrphansStayInvalid, CookieIsOrdinal, NoMount, Errnos, Held

\* insert_mount: the new handle is above every other one, its mount point is
\* new, and the descriptors keep their owners.
LEMMA InsertStep ==
  ASSUME IndInv, NEW mp \in MountPoints, NEW image \in Images, NEW c,
         ~MountPointTaken(mp), InsertMount(mp, image), compat' = c,
         \/ c = compat /\ mp # NoMountPoint
         \/ c = nextHandle /\ ~IsMounted
  PROVE  IndInv'
<1>1. /\ nextHandle \in Nat /\ DOMAIN mounts \subseteq Nat
      /\ nextHandle \notin DOMAIN mounts
      /\ \A h \in DOMAIN mounts : h < nextHandle
  BY DEF IndInv, TypeOK, HandlesBelowCounter
<1>2. /\ DOMAIN mounts' = DOMAIN mounts \cup {nextHandle}
      /\ mounts' \in [DOMAIN mounts' -> MountRecord]
      /\ mounts'[nextHandle] = [mp |-> mp, image |-> image]
      /\ \A h \in DOMAIN mounts : mounts'[h] = mounts[h]
  BY <1>1 DEF InsertMount, With, IndInv, TypeOK, MountRecord
<1>3. TypeOK'
  <2>1. compat' \in Nat \cup {NoMount}
    BY <1>1 DEF IndInv, TypeOK
  <2> QED
    BY <1>1, <1>2, <2>1 DEF IndInv, TypeOK, InsertMount, Return, history, Errnos
<1>4. HandlesBelowCounter'
  BY <1>1, <1>2 DEF HandlesBelowCounter, InsertMount
<1>5. MountPointsDistinct'
  BY <1>1, <1>2 DEF IndInv, MountPointsDistinct, MountPointTaken
<1>6. CompatIsFirst'
  <2>1. CASE c = compat /\ mp # NoMountPoint
    BY <1>1, <1>2, <2>1 DEF IndInv, CompatIsFirst
  <2>2. CASE c = nextHandle /\ ~IsMounted
    BY <1>1, <1>2, <2>2 DEF CompatIsFirst, IsMounted
  <2> QED
    BY <2>1, <2>2
<1>7. DescriptorsOwned'
  BY <1>1, <1>2 DEF IndInv, DescriptorsOwned, OwnerHolds, Rel, InsertMount
<1>8. /\ CounterAboveFds' /\ OrphansBelowCounters'
      /\ OrphansStayInvalid' /\ CookieIsOrdinal'
  BY DEF IndInv, InsertMount, history, CounterAboveFds, OrphansBelowCounters,
         OrphansStayInvalid, CookieIsOrdinal
<1> QED
  BY <1>3, <1>4, <1>5, <1>6, <1>7, <1>8 DEF IndInv

\* unmount_handle takes the mount, its descriptors and nothing else.
LEMMA UnmountHandleStep ==
  ASSUME IndInv, NEW h \in Nat, UnmountHandle(h)
  PROVE  IndInv'
<1>1. CASE h \notin DOMAIN mounts
  <2>1. Fail("ENODEV")
    BY <1>1 DEF UnmountHandle
  <2> QED
    BY <2>1, FailStep DEF Errnos
<1>2. CASE h \in DOMAIN mounts
  <2>1. /\ mounts' = Without(mounts, {h})
        /\ fdTable' = Without(fdTable, FdsOf(h))
        /\ dirTable' = Without(dirTable, DirsOf(h))
        /\ compat' = IF compat = h THEN NoMount ELSE compat
        /\ orphans' = orphans \cup Held(FdsOf(h), DirsOf(h))
        /\ errno' = "OK"
        /\ nextHandle' = nextHandle /\ nextFd' = nextFd /\ nextDir' = nextDir
        /\ lost' = lost
    BY <1>2 DEF UnmountHandle, CompatAfter, Return
  <2>2. /\ DOMAIN mounts' = DOMAIN mounts \ {h}
        /\ \A m \in DOMAIN mounts' : mounts'[m] = mounts[m]
        /\ mounts' \in [DOMAIN mounts' -> MountRecord]
    BY <2>1 DEF Without, IndInv, TypeOK
  <2>3. /\ DOMAIN fdTable' = {n \in DOMAIN fdTable : fdTable[n].owner # h}
        /\ \A n \in DOMAIN fdTable' : fdTable'[n] = fdTable[n]
        /\ fdTable' \in [DOMAIN fdTable' -> FdRecord]
    BY <2>1 DEF Without, FdsOf, IndInv, TypeOK
  <2>4. /\ DOMAIN dirTable' = {d \in DOMAIN dirTable : dirTable[d].owner # h}
        /\ \A d \in DOMAIN dirTable' : dirTable'[d] = dirTable[d]
        /\ dirTable' \in [DOMAIN dirTable' -> DirRecord]
    BY <2>1 DEF Without, DirsOf, IndInv, TypeOK
  <2>5. /\ FdsOf(h) \subseteq DOMAIN fdTable /\ FdsOf(h) \cap DOMAIN fdTable' = {}
        /\ DirsOf(h) \subseteq DOMAIN dirTable /\ DirsOf(h) \cap DOMAIN dirTable' = {}
    BY <2>3, <2>4 DEF FdsOf, DirsOf
  <2>6. TypeOK'
    <3>1. orphans' \subseteq Descriptors
      BY <2>1, <2>5 DEF Held, Descriptors, IndInv, TypeOK
    <3> QED
      BY <2>1, <2>2, <2>3, <2>4, <3>1 DEF IndInv, TypeOK, Errnos
  <2>7. HandlesBelowCounter' /\ MountPointsDistinct' /\ CompatIsFirst'
    <3>0. HandlesBelowCounter'
      BY <2>1, <2>2 DEF IndInv, HandlesBelowCounter
    <3>1. HandlesBelowCounter' /\ MountPointsDistinct'
      BY <2>2, <3>0 DEF IndInv, MountPointsDistinct
    <3>2. CASE compat = h
      BY <2>1, <2>2, <3>1, <3>2 DEF IndInv, CompatIsFirst
    <3>3. CASE compat # h
      BY <2>1, <2>2, <3>1, <3>3 DEF IndInv, CompatIsFirst
    <3> QED
      BY <3>2, <3>3
  <2>8. DescriptorsOwned'
    <3>1. OwnerHolds(fdTable, Files)'
      BY <2>2, <2>3 DEF IndInv, DescriptorsOwned, OwnerHolds, Rel
    <3>2. OwnerHolds(dirTable, Dirs)'
      BY <2>2, <2>4 DEF IndInv, DescriptorsOwned, OwnerHolds, Rel
    <3> QED
      BY <3>1, <3>2 DEF DescriptorsOwned
  <2>9. CounterAboveFds' /\ CookieIsOrdinal'
    BY <2>1, <2>3, <2>4 DEF IndInv, CounterAboveFds, CookieIsOrdinal
  <2>10. OrphansBelowCounters'
    BY <2>1, <2>5 DEF IndInv, OrphansBelowCounters, CounterAboveFds, Held
  <2>11. OrphansStayInvalid'
    BY <2>1, <2>3, <2>4, <2>5 DEF IndInv, OrphansStayInvalid, Held
  <2> QED
    BY <2>6, <2>7, <2>8, <2>9, <2>10, <2>11 DEF IndInv
<1> QED
  BY <1>1, <1>2

\* unmount() leaves nothing to own, and nothing to be orphaned.
LEMMA UnmountStep ==
  ASSUME IndInv, Unmount
  PROVE  IndInv'
<1>1. /\ DOMAIN mounts' = {} /\ DOMAIN fdTable' = {} /\ DOMAIN dirTable' = {}
      /\ mounts' \in [DOMAIN mounts' -> MountRecord]
      /\ fdTable' \in [DOMAIN fdTable' -> FdRecord]
      /\ dirTable' \in [DOMAIN dirTable' -> DirRecord]
  BY DEF Unmount
<1>2. TypeOK'
  <2>1. lost' \subseteq Descriptors
    BY DEF Unmount, Held, Descriptors, IndInv, TypeOK
  <2> QED
    BY <1>1, <2>1 DEF Unmount, IndInv, TypeOK
<1>3. DescriptorsOwned'
  BY <1>1 DEF DescriptorsOwned, OwnerHolds
<1>4. /\ HandlesBelowCounter' /\ MountPointsDistinct' /\ CompatIsFirst'
      /\ CounterAboveFds' /\ CookieIsOrdinal'
  BY <1>1 DEF Unmount, HandlesBelowCounter, MountPointsDistinct, CompatIsFirst,
              CounterAboveFds, CookieIsOrdinal
<1>5. OrphansBelowCounters' /\ OrphansStayInvalid'
  BY DEF Unmount, OrphansBelowCounters, OrphansStayInvalid
<1> QED
  BY <1>2, <1>3, <1>4, <1>5 DEF IndInv

\* The number allocate_fd returns is next_fd_: the search for another one
\* never starts.
LEMMA AllocateFdIsNext ==
  ASSUME IndInv
  PROVE  AllocateFd = nextFd
BY DEF IndInv, TypeOK, CounterAboveFds, AllocateFd

\* open, close, and the three calls that move a directory position keep the
\* mounts and the other table.
Unmoved ==
  UNCHANGED <<mounts, compat, nextHandle, orphans, lost>>

LEMMA UnmovedStep ==
  ASSUME IndInv, Unmoved
  PROVE  HandlesBelowCounter' /\ MountPointsDistinct' /\ CompatIsFirst'
BY DEF IndInv, Unmoved, HandlesBelowCounter, MountPointsDistinct, CompatIsFirst

LEMMA OpenStep ==
  ASSUME IndInv, NEW path \in Paths, NEW accmode, Open(path, accmode)
  PROVE  IndInv'
<1> DEFINE h == FindMount(path)
<1>1. CASE \E e \in Errnos : Fail(e)
  BY <1>1, FailStep
<1>2. CASE /\ OpenErrno(path, accmode) = "OK"
           /\ fdTable' = With(fdTable, nextFd, [owner |-> h, path |-> path])
           /\ nextFd' = nextFd + 1
           /\ errno' = "OK"
           /\ UNCHANGED <<mounts, dirTable, compat, nextHandle, nextDir, history>>
  <2>1. /\ h \in DOMAIN mounts /\ h \in Nat
        /\ PathIsInMount(path, mounts[h].mp)
        /\ Rel(h, path) \in Files[mounts[h].image]
    <3>1. h # NoMount /\ Rel(h, path) \in Files[mounts[h].image]
      BY <1>2 DEF OpenErrno
    <3> QED
      BY <3>1, FindMountOwner DEF IndInv, TypeOK
  <2>2. /\ nextFd \in Nat \ {0} /\ DOMAIN fdTable \subseteq Nat
        /\ \A n \in DOMAIN fdTable : n < nextFd
    BY DEF IndInv, TypeOK, CounterAboveFds
  <2> HIDE DEF h
  <2>3. /\ DOMAIN fdTable' = DOMAIN fdTable \cup {nextFd}
        /\ fdTable'[nextFd] = [owner |-> h, path |-> path]
        /\ \A n \in DOMAIN fdTable : fdTable'[n] = fdTable[n]
        /\ fdTable' \in [DOMAIN fdTable' -> FdRecord]
    BY <1>2, <2>1, <2>2 DEF With, FdRecord, IndInv, TypeOK
  <2>4. TypeOK'
    BY <1>2, <2>2, <2>3 DEF IndInv, TypeOK, Errnos, history
  <2>5. HandlesBelowCounter' /\ MountPointsDistinct' /\ CompatIsFirst'
    BY <1>2, UnmovedStep DEF Unmoved, history
  <2>6. DescriptorsOwned'
    <3>1. OwnerHolds(fdTable, Files)'
      BY <1>2, <2>1, <2>3 DEF IndInv, DescriptorsOwned, OwnerHolds, Rel
    <3>2. OwnerHolds(dirTable, Dirs)'
      BY <1>2 DEF IndInv, DescriptorsOwned, OwnerHolds, Rel
    <3> QED
      BY <3>1, <3>2 DEF DescriptorsOwned
  <2>7. CounterAboveFds'
    BY <1>2, <2>2, <2>3 DEF IndInv, CounterAboveFds
  <2>8. OrphansBelowCounters'
    BY <1>2, <2>2 DEF IndInv, TypeOK, Descriptors, OrphansBelowCounters, history
  <2>9. OrphansStayInvalid'
    <3>1. <<"fd", nextFd>> \notin orphans
      BY <2>2 DEF IndInv, OrphansBelowCounters
    <3> QED
      BY <1>2, <2>3, <3>1 DEF IndInv, OrphansStayInvalid, Held, history
  <2>10. CookieIsOrdinal'
    BY <1>2 DEF IndInv, CookieIsOrdinal
  <2> QED
    BY <2>4, <2>5, <2>6, <2>7, <2>8, <2>9, <2>10 DEF IndInv
<1> QED
  BY <1>1, <1>2, AllocateFdIsNext, PathErrnoTypes DEF Open, Return, Errnos

LEMMA CloseStep ==
  ASSUME IndInv, NEW fd, Close(fd)
  PROVE  IndInv'
<1>1. CASE Fail("EBADF")
  BY <1>1, FailStep DEF Errnos
<1>2. CASE /\ fdTable' = Without(fdTable, {Unflagged(fd)})
           /\ errno' = "OK"
           /\ UNCHANGED <<mounts, dirTable, compat, nextHandle, nextFd, nextDir, history>>
  <2>1. /\ DOMAIN fdTable' \subseteq DOMAIN fdTable
        /\ \A n \in DOMAIN fdTable' : fdTable'[n] = fdTable[n]
        /\ fdTable' \in [DOMAIN fdTable' -> FdRecord]
    BY <1>2 DEF Without, IndInv, TypeOK
  <2>2. TypeOK'
    BY <1>2, <2>1 DEF IndInv, TypeOK, Errnos, history
  <2>3. HandlesBelowCounter' /\ MountPointsDistinct' /\ CompatIsFirst'
    BY <1>2, UnmovedStep DEF Unmoved, history
  <2>4. DescriptorsOwned'
    BY <1>2, <2>1 DEF IndInv, DescriptorsOwned, OwnerHolds, Rel
  <2>5. CounterAboveFds' /\ OrphansBelowCounters' /\ CookieIsOrdinal'
    BY <1>2, <2>1 DEF IndInv, CounterAboveFds, OrphansBelowCounters, history,
                      CookieIsOrdinal
  <2>6. OrphansStayInvalid'
    BY <1>2, <2>1 DEF IndInv, history, OrphansStayInvalid, Held
  <2> QED
    BY <2>2, <2>3, <2>4, <2>5, <2>6 DEF IndInv
<1> QED
  BY <1>1, <1>2 DEF Close, Return

LEMMA OpendirStep ==
  ASSUME IndInv, NEW path \in Paths, Opendir(path)
  PROVE  IndInv'
<1> DEFINE h == FindMount(path)
           count == Cardinality(Children(mounts[h].image, Rel(h, path)))
           entry == [owner |-> h, path |-> path, iter |-> 0, position |-> 0,
                     count |-> count]
<1>1. CASE \E e \in Errnos : Fail(e)
  BY <1>1, FailStep
<1>2. CASE /\ OpendirErrno(path) = "OK"
           /\ dirTable' = With(dirTable, nextDir, entry)
           /\ nextDir' = nextDir + 1
           /\ errno' = "OK"
           /\ UNCHANGED <<mounts, fdTable, compat, nextHandle, nextFd, history>>
  <2>1. /\ h \in DOMAIN mounts /\ h \in Nat
        /\ PathIsInMount(path, mounts[h].mp)
        /\ Rel(h, path) \in Dirs[mounts[h].image]
    <3>1. h # NoMount /\ Rel(h, path) \in Dirs[mounts[h].image]
      BY <1>2 DEF OpendirErrno
    <3> QED
      BY <3>1, FindMountOwner DEF IndInv, TypeOK
  <2>2. count \in Nat
    <3>1. mounts[h].image \in Images
      BY <2>1 DEF IndInv, TypeOK, MountRecord
    <3>2. IsFiniteSet(Files[mounts[h].image] \cup Dirs[mounts[h].image])
      BY <3>1, ImageAssumption, FS_Union
    <3>3. IsFiniteSet(Children(mounts[h].image, Rel(h, path)))
      BY <3>2, FS_Subset DEF Children
    <3> QED
      BY <3>3, FS_CardinalityType
  <2>3. /\ nextDir \in Nat \ {0} /\ DOMAIN dirTable \subseteq Nat
        /\ \A d \in DOMAIN dirTable : d < nextDir
    BY DEF IndInv, TypeOK, CounterAboveFds
  <2> HIDE DEF h, count
  <2>4. /\ DOMAIN dirTable' = DOMAIN dirTable \cup {nextDir}
        /\ dirTable'[nextDir] = entry
        /\ \A d \in DOMAIN dirTable : dirTable'[d] = dirTable[d]
        /\ dirTable' \in [DOMAIN dirTable' -> DirRecord]
    BY <1>2, <2>1, <2>2, <2>3 DEF With, DirRecord, IndInv, TypeOK
  <2>5. TypeOK'
    BY <1>2, <2>3, <2>4 DEF IndInv, TypeOK, Errnos, history
  <2>6. HandlesBelowCounter' /\ MountPointsDistinct' /\ CompatIsFirst'
    BY <1>2, UnmovedStep DEF Unmoved, history
  <2>7. DescriptorsOwned'
    <3>1. OwnerHolds(dirTable, Dirs)'
      BY <1>2, <2>1, <2>4 DEF IndInv, DescriptorsOwned, OwnerHolds, Rel
    <3>2. OwnerHolds(fdTable, Files)'
      BY <1>2 DEF IndInv, DescriptorsOwned, OwnerHolds, Rel
    <3> QED
      BY <3>1, <3>2 DEF DescriptorsOwned
  <2>8. CounterAboveFds'
    BY <1>2, <2>3, <2>4 DEF IndInv, CounterAboveFds
  <2>9. OrphansBelowCounters'
    BY <1>2, <2>3 DEF IndInv, TypeOK, Descriptors, OrphansBelowCounters, history
  <2>10. OrphansStayInvalid'
    <3>1. <<"dir", nextDir>> \notin orphans
      BY <2>3 DEF IndInv, OrphansBelowCounters
    <3> QED
      BY <1>2, <2>4, <3>1 DEF IndInv, OrphansStayInvalid, Held, history
  <2>11. CookieIsOrdinal'
    BY <1>2, <2>2, <2>4 DEF IndInv, CookieIsOrdinal
  <2> QED
    BY <2>5, <2>6, <2>7, <2>8, <2>9, <2>10, <2>11 DEF IndInv
<1> QED
  BY <1>1, <1>2, PathErrnoTypes DEF Opendir, AllocateDir, Return, Errnos

LEMMA ClosedirStep ==
  ASSUME IndInv, NEW d, Closedir(d)
  PROVE  IndInv'
<1>1. CASE Fail("EBADF")
  BY <1>1, FailStep DEF Errnos
<1>2. CASE /\ dirTable' = Without(dirTable, {d})
           /\ errno' = "OK"
           /\ UNCHANGED <<mounts, fdTable, compat, nextHandle, nextFd, nextDir, history>>
  <2>1. /\ DOMAIN dirTable' \subseteq DOMAIN dirTable
        /\ \A x \in DOMAIN dirTable' : dirTable'[x] = dirTable[x]
        /\ dirTable' \in [DOMAIN dirTable' -> DirRecord]
    BY <1>2 DEF Without, IndInv, TypeOK
  <2>2. TypeOK'
    BY <1>2, <2>1 DEF IndInv, TypeOK, Errnos, history
  <2>3. HandlesBelowCounter' /\ MountPointsDistinct' /\ CompatIsFirst'
    BY <1>2, UnmovedStep DEF Unmoved, history
  <2>4. DescriptorsOwned'
    BY <1>2, <2>1 DEF IndInv, DescriptorsOwned, OwnerHolds, Rel
  <2>5. CounterAboveFds' /\ OrphansBelowCounters' /\ CookieIsOrdinal'
    BY <1>2, <2>1 DEF IndInv, CounterAboveFds, OrphansBelowCounters, history,
                      CookieIsOrdinal
  <2>6. OrphansStayInvalid'
    BY <1>2, <2>1 DEF IndInv, history, OrphansStayInvalid, Held
  <2> QED
    BY <2>2, <2>3, <2>4, <2>5, <2>6 DEF IndInv
<1> QED
  BY <1>1, <1>2 DEF Closedir, Return

\* A directory record that differs in its position only, and whose cookie is
\* an ordinal of the listing.
Moved(s, state) ==
  /\ state \in DirRecord
  /\ state.owner = s.owner /\ state.path = s.path /\ state.count = s.count
  /\ state.position = state.iter /\ state.iter <= state.count

LEMMA SetDirStep ==
  ASSUME IndInv, NEW d \in DOMAIN dirTable, NEW state, Moved(dirTable[d], state),
         SetDir(d, state)
  PROVE  IndInv'
<1>1. /\ dirTable' = With(dirTable, d, state)
      /\ errno' = "OK"
      /\ UNCHANGED <<mounts, fdTable, compat, nextHandle, nextFd, nextDir, history>>
  BY DEF SetDir, Return
<1>2. /\ DOMAIN dirTable' = DOMAIN dirTable
      /\ dirTable'[d] = state
      /\ \A x \in DOMAIN dirTable : x # d => dirTable'[x] = dirTable[x]
  BY <1>1 DEF With
<1>3. dirTable' \in [DOMAIN dirTable' -> DirRecord]
  BY <1>1 DEF With, Moved, IndInv, TypeOK
<1>4. TypeOK'
  BY <1>1, <1>2, <1>3 DEF IndInv, TypeOK, Errnos, history
<1>5. HandlesBelowCounter' /\ MountPointsDistinct' /\ CompatIsFirst'
  BY <1>1, UnmovedStep DEF Unmoved, history
<1>6. DescriptorsOwned'
  <2>1. \A x \in DOMAIN dirTable : /\ dirTable'[x].owner = dirTable[x].owner
                                   /\ dirTable'[x].path = dirTable[x].path
    BY <1>2 DEF Moved
  <2>2. OwnerHolds(dirTable, Dirs)'
    BY <1>1, <1>2, <2>1 DEF IndInv, DescriptorsOwned, OwnerHolds, Rel
  <2>3. OwnerHolds(fdTable, Files)'
    BY <1>1 DEF IndInv, DescriptorsOwned, OwnerHolds, Rel
  <2> QED
    BY <2>2, <2>3 DEF DescriptorsOwned
<1>7. CounterAboveFds' /\ OrphansBelowCounters'
  BY <1>1, <1>2 DEF IndInv, CounterAboveFds, OrphansBelowCounters, history
<1>8. OrphansStayInvalid'
  BY <1>1, <1>2 DEF IndInv, history, OrphansStayInvalid, Held
<1>9. CookieIsOrdinal'
  BY <1>2 DEF IndInv, CookieIsOrdinal, Moved
<1> QED
  BY <1>4, <1>5, <1>6, <1>7, <1>8, <1>9 DEF IndInv

LEMMA AdvanceMoves ==
  ASSUME NEW s, NEW r, Moved(s, r), NEW k \in Nat, r.iter + k <= r.count
  PROVE  Moved(s, Advance(r, k))
<1> DEFINE i == r.iter + k
           a == [r EXCEPT !.iter = i]
           b == [a EXCEPT !.position = i]
<1>1. /\ r \in DirRecord /\ i \in Nat /\ i <= r.count /\ r.position + k = i
  BY DEF Moved, DirRecord
<1>2. Advance(r, k) = b
  BY <1>1 DEF Advance
<1> HIDE DEF i
<1>3. /\ a \in DirRecord /\ a.iter = i
      /\ a.owner = r.owner /\ a.path = r.path /\ a.count = r.count
  BY <1>1 DEF DirRecord
<1> HIDE DEF a
<1>4. /\ b \in DirRecord /\ b.iter = i /\ b.position = i
      /\ b.owner = r.owner /\ b.path = r.path /\ b.count = r.count
  BY <1>1, <1>3 DEF DirRecord
<1> QED
  BY <1>1, <1>2, <1>4 DEF Moved

LEMMA ResetMoves ==
  ASSUME NEW s, NEW r, Moved(s, r)
  PROVE  Moved(s, Reset(r)) /\ Reset(r).iter = 0
<1> DEFINE a == [r EXCEPT !.iter = 0]
           b == [a EXCEPT !.position = 0]
<1>1. r \in DirRecord /\ r.count \in Nat
  BY DEF Moved, DirRecord
<1>2. Reset(r) = b
  BY DEF Reset
<1>3. /\ a \in DirRecord /\ a.iter = 0
      /\ a.owner = r.owner /\ a.path = r.path /\ a.count = r.count
  BY <1>1 DEF DirRecord
<1> HIDE DEF a
<1>4. /\ b \in DirRecord /\ b.iter = 0 /\ b.position = 0
      /\ b.owner = r.owner /\ b.path = r.path /\ b.count = r.count
  BY <1>3 DEF DirRecord
<1> QED
  BY <1>1, <1>2, <1>4 DEF Moved

\* seekdir restarts a backward seek and then consumes entries up to the
\* position wanted or the end of the listing.
LEMMA SeekMoves ==
  ASSUME NEW s, Moved(s, s), NEW pos \in Nat
  PROVE  Moved(s, SeekFrom(s, pos))
<1> DEFINE r == IF pos < s.position THEN Reset(s) ELSE s
           wanted == pos - r.position
           left == r.count - r.iter
           k == IF wanted <= left THEN wanted ELSE left
<1>1. Moved(s, r) /\ r.position <= pos
  <2>1. CASE pos < s.position
    BY <2>1, ResetMoves DEF Moved
  <2>2. CASE ~(pos < s.position)
    BY <2>2 DEF Moved, DirRecord
  <2> QED
    BY <2>1, <2>2
<1>2. SeekFrom(s, pos) = Advance(r, k)
  BY DEF SeekFrom
<1> HIDE DEF r
<1>3. k \in Nat /\ r.iter + k <= r.count
  BY <1>1 DEF Moved, DirRecord
<1> HIDE DEF k
<1> QED
  BY <1>1, <1>2, <1>3, AdvanceMoves

LEMMA DirStep ==
  ASSUME IndInv, NEW d \in Nat,
         \/ Readdir(d) \/ Rewinddir(d) \/ Telldir(d)
         \/ \E pos \in SeekArgs : Seekdir(d, pos)
  PROVE  IndInv'
<1> DEFINE s == dirTable[d]
<1>1. CASE \E e \in Errnos : Fail(e)
  BY <1>1, FailStep
<1>2. CASE /\ d \in DOMAIN dirTable
           /\ \/ HasNext(s) /\ SetDir(d, Advance(s, 1))
              \/ SetDir(d, Reset(s))
              \/ \E pos \in Nat : SetDir(d, SeekFrom(s, pos))
  <2>1. Moved(s, s)
    BY <1>2 DEF IndInv, TypeOK, CookieIsOrdinal, Moved
  <2>2. CASE HasNext(s) /\ SetDir(d, Advance(s, 1))
    <3>1. s.iter + 1 <= s.count
      BY <2>1, <2>2 DEF Moved, HasNext, DirRecord
    <3>2. Moved(s, Advance(s, 1))
      BY <2>1, <3>1, AdvanceMoves
    <3> QED
      BY <1>2, <2>2, <3>2, SetDirStep
  <2>3. CASE SetDir(d, Reset(s))
    BY <1>2, <2>1, <2>3, ResetMoves, SetDirStep
  <2>4. CASE \E pos \in Nat : SetDir(d, SeekFrom(s, pos))
    BY <1>2, <2>1, <2>4, SeekMoves, SetDirStep
  <2> QED
    BY <1>2, <2>2, <2>3, <2>4
<1>3. (\E e \in Errnos : Fail(e)) \/ d \in DOMAIN dirTable
  BY DEF Readdir, Rewinddir, Telldir, Seekdir, DirIsEmbedded, Errnos
<1>4. CASE Readdir(d)
  BY <1>1, <1>2, <1>3, <1>4 DEF Readdir, DirIsEmbedded, Errnos
<1>5. CASE Rewinddir(d)
  BY <1>1, <1>2, <1>3, <1>5 DEF Rewinddir, DirIsEmbedded
<1>6. CASE Telldir(d)
  BY <1>1, <1>6 DEF Telldir, Errnos
<1>7. ASSUME NEW pos \in SeekArgs, Seekdir(d, pos)
      PROVE  IndInv'
  BY <1>1, <1>2, <1>3, <1>7, BoundAssumption DEF Seekdir, DirIsEmbedded, Errnos
<1> QED
  BY <1>4, <1>5, <1>6, <1>7

-----------------------------------------------------------------------------
(* Every step.                                                             *)

\* The four ways to mount: each fails and changes nothing, or inserts a
\* mount at a mount point that is not taken.
LEMMA MountFileStep ==
  ASSUME IndInv, NEW mp \in MountPoints, NEW f \in HostFiles,
         NEW off \in Offsets, NEW len \in Offsets,
         MountFromFileAt(f, off, len, mp) \/ InitFromFileAt(f, off, len, mp)
  PROVE  IndInv'
<1>1. CASE \E e \in Errnos : Fail(e)
  BY <1>1, FailStep
<1>2. CASE \E image \in Images, c \in {compat, nextHandle} :
             /\ ~MountPointTaken(mp) /\ InsertMount(mp, image) /\ compat' = c
             /\ \/ c = compat /\ mp # NoMountPoint
                \/ c = nextHandle /\ ~IsMounted
  BY <1>2, InsertStep
<1>3. ASSUME NEW c \in {compat, nextHandle},
             \/ c = compat /\ mp # NoMountPoint
             \/ c = nextHandle /\ ~IsMounted,
             MountWholeFile(f, mp, c) \/ MountRegion(f, off, len, mp, c)
      PROVE  IndInv'
  <2>1. CASE MountWholeFile(f, mp, c)
    <3>1. \/ \E e \in Errnos : Fail(e)
          \/ ~MountPointTaken(mp) /\ InsertMount(mp, Host[f].whole) /\ compat' = c
      BY <2>1, WholeFileErrnoType DEF MountWholeFile, Errnos
    <3> QED
      BY <1>1, <1>2, <1>3, <3>1, HostAssumption
  <2>2. CASE MountRegion(f, off, len, mp, c)
    <3>1. \/ \E e \in Errnos : Fail(e)
          \/ /\ RegionErrno(f, off, len) = "OK"
             /\ ~MountPointTaken(mp)
             /\ InsertMount(mp, Host[f].at[off].image) /\ compat' = c
      BY <2>2, RegionErrnoType DEF MountRegion, MountRegionErrno, Errnos
    <3> QED
      BY <1>1, <1>2, <1>3, <3>1, RegionImage
  <2> QED
    BY <1>3, <2>1, <2>2
<1>4. CASE MountFromFileAt(f, off, len, mp)
  BY <1>1, <1>3, <1>4 DEF MountFromFileAt, Errnos
<1>5. CASE InitFromFileAt(f, off, len, mp)
  BY <1>1, <1>3, <1>5 DEF InitFromFileAt, Errnos
<1> QED
  BY <1>4, <1>5

LEMMA MountMemoryStep ==
  ASSUME IndInv, NEW mp \in MountPoints, NEW i \in Images,
         MountFromMemory(i, mp) \/ InitFromMemory(i, mp)
  PROVE  IndInv'
<1>1. CASE \E e \in Errnos : Fail(e)
  BY <1>1, FailStep
<1>2. ASSUME NEW c,
             \/ c = compat /\ mp # NoMountPoint
             \/ c = nextHandle /\ ~IsMounted,
             MountMemory(i, mp, c)
      PROVE  IndInv'
  <2>1. \/ \E e \in Errnos : Fail(e)
        \/ ~MountPointTaken(mp) /\ InsertMount(mp, i) /\ compat' = c
    BY <1>2, MountErrnoType DEF MountMemory, Errnos
  <2> QED
    BY <1>1, <1>2, <2>1, InsertStep
<1>3. CASE MountFromMemory(i, mp)
  BY <1>1, <1>2, <1>3 DEF MountFromMemory, Errnos
<1>4. CASE InitFromMemory(i, mp)
  BY <1>1, <1>2, <1>4 DEF InitFromMemory, Errnos
<1> QED
  BY <1>3, <1>4

\* read, pread, lseek and fstat fail or answer; either way no table changes.
LEMMA FdStep ==
  ASSUME IndInv, NEW fd,
         \/ Read(fd) \/ Lseek(fd) \/ FdStat(fd)
         \/ \E offset \in {-1, 0} : Pread(fd, offset)
  PROVE  IndInv'
<1>1. \E e \in Errnos : Fail(e)
  <2>1. CASE FdStat(fd)
    BY <2>1, PathErrnoTypes DEF FdStat, Stat, Errnos
  <2>2. CASE \/ Read(fd) \/ Lseek(fd)
             \/ \E offset \in {-1, 0} : Pread(fd, offset)
    BY <2>2 DEF Read, Lseek, Pread, OnHandle, Errnos
  <2> QED
    BY <2>1, <2>2
<1> QED
  BY <1>1, FailStep

LEMMA StutterStep ==
  ASSUME IndInv, UNCHANGED vars
  PROVE  IndInv'
BY DEF IndInv, vars, TypeOK, HandlesBelowCounter, MountPointsDistinct, CompatIsFirst,
       DescriptorsOwned, OwnerHolds, Rel, CounterAboveFds, OrphansBelowCounters,
       OrphansStayInvalid, CookieIsOrdinal

LEMMA NextStep ==
  ASSUME IndInv, [Next]_vars
  PROVE  IndInv'
<1>1. CASE Mounting
  BY <1>1, MountFileStep, MountMemoryStep DEF Mounting
<1>2. CASE Unmounting
  BY <1>2, UnmountStep, UnmountHandleStep, BoundAssumption DEF Unmounting
<1>3. CASE OnPath
  <2>1. ASSUME NEW path \in Paths, FileStat(path)
        PROVE  IndInv'
    BY <2>1, PathErrnoTypes, FailStep DEF FileStat, Stat, Errnos
  <2> QED
    BY <1>3, <2>1, OpenStep, OpendirStep DEF OnPath
<1>4. CASE OnFd
  BY <1>4, FdStep, CloseStep DEF OnFd
<1>5. CASE OnDir
  <2>1. PICK d \in 0 .. MaxDirs :
          \/ \/ Readdir(d) \/ Rewinddir(d) \/ Telldir(d)
             \/ \E pos \in SeekArgs : Seekdir(d, pos)
          \/ Closedir(d)
    BY <1>5 DEF OnDir
  <2>2. d \in Nat
    BY BoundAssumption
  <2> QED
    BY <2>1, <2>2, DirStep, ClosedirStep
<1>6. CASE UNCHANGED vars
  BY <1>6, StutterStep
<1> QED
  BY <1>1, <1>2, <1>3, <1>4, <1>5, <1>6 DEF Next

\* Only the mounting calls add to the mount table, and they add next_handle_.
LEMMA MountsGrow ==
  ASSUME IndInv, Next
  PROVE  \/ DOMAIN mounts' \subseteq DOMAIN mounts /\ nextHandle' = nextHandle
         \/ \E mp, image : InsertMount(mp, image)
<1> DEFINE Same == mounts' = mounts /\ nextHandle' = nextHandle
           Inserted == \E mp, image : InsertMount(mp, image)
<1>1. CASE Mounting
  <2>1. ASSUME NEW f, NEW mp, NEW c, MountWholeFile(f, mp, c)
        PROVE  Same \/ Inserted
    BY <2>1 DEF MountWholeFile, Fail, tables
  <2>2. ASSUME NEW f, NEW off, NEW len, NEW mp, NEW c, MountRegion(f, off, len, mp, c)
        PROVE  Same \/ Inserted
    BY <2>2 DEF MountRegion, MountRegionErrno, Fail, tables
  <2>3. ASSUME NEW i, NEW mp, NEW c, MountMemory(i, mp, c)
        PROVE  Same \/ Inserted
    BY <2>3 DEF MountMemory, Fail, tables
  <2>4. ASSUME NEW f, NEW off, NEW len, NEW mp,
               MountFromFileAt(f, off, len, mp) \/ InitFromFileAt(f, off, len, mp)
        PROVE  Same \/ Inserted
    BY <2>1, <2>2, <2>4 DEF MountFromFileAt, InitFromFileAt, Fail, tables
  <2>5. ASSUME NEW i, NEW mp, MountFromMemory(i, mp) \/ InitFromMemory(i, mp)
        PROVE  Same \/ Inserted
    BY <2>3, <2>5 DEF MountFromMemory, InitFromMemory, Fail, tables
  <2> QED
    BY <1>1, <2>4, <2>5 DEF Mounting
<1>2. CASE Unmounting
  <2>1. CASE Unmount
    BY <2>1 DEF Unmount
  <2>2. ASSUME NEW h, UnmountHandle(h)
        PROVE  DOMAIN mounts' \subseteq DOMAIN mounts /\ nextHandle' = nextHandle
    BY <2>2 DEF UnmountHandle, Without, Fail, tables
  <2> QED
    BY <1>2, <2>1, <2>2 DEF Unmounting
<1>3. CASE OnPath
  <2>1. ASSUME NEW path, NEW accmode, Open(path, accmode)
        PROVE  Same
    BY <2>1 DEF Open, Fail, tables
  <2>2. ASSUME NEW path, Opendir(path)
        PROVE  Same
    BY <2>2 DEF Opendir, Fail, tables
  <2>3. ASSUME NEW path, FileStat(path)
        PROVE  Same
    BY <2>3 DEF FileStat, Stat, Fail, tables
  <2> QED
    BY <1>3, <2>1, <2>2, <2>3 DEF OnPath
<1>4. CASE OnFd
  BY <1>4 DEF OnFd, Read, Lseek, Pread, OnHandle, Close, FdStat, Stat,
              Fail, tables
<1>5. CASE OnDir
  BY <1>5 DEF OnDir, Readdir, Rewinddir, Telldir, Seekdir, Closedir, SetDir, Fail, tables
<1> QED
  BY <1>1, <1>2, <1>3, <1>4, <1>5 DEF Next

-----------------------------------------------------------------------------
(* What a call does to the mounts and to the open files.                   *)

\* Open files that are there after the call were there before, unchanged.
FilesShrink ==
  /\ DOMAIN fdTable' \subseteq DOMAIN fdTable
  /\ \A n \in DOMAIN fdTable' : fdTable'[n] = fdTable[n]

\* The open succeeds.
Opened(path) ==
  /\ FindMount(path) # NoMount
  /\ mounts' = mounts
  /\ fdTable' = With(fdTable, AllocateFd, [owner |-> FindMount(path), path |-> path])

\* The mount is there and goes.
Unmounted(h) == h \in DOMAIN mounts /\ UnmountHandle(h)

LEMMA StepKinds ==
  ASSUME IndInv, Next
  PROVE  \/ mounts' = mounts /\ FilesShrink
         \/ \E mp, image : InsertMount(mp, image)
         \/ \E h : Unmounted(h)
         \/ Unmount
         \/ \E path \in Paths : Opened(path)
<1> DEFINE Kept == mounts' = mounts /\ FilesShrink
           Inserted == \E mp, image : InsertMount(mp, image)
<1>1. ASSUME NEW e, Fail(e)
      PROVE  Kept
  BY <1>1 DEF Fail, tables, FilesShrink
<1>2. CASE Mounting
  <2>1. ASSUME NEW f, NEW mp, NEW c, MountWholeFile(f, mp, c)
        PROVE  Kept \/ Inserted
    BY <1>1, <2>1 DEF MountWholeFile
  <2>2. ASSUME NEW f, NEW off, NEW len, NEW mp, NEW c, MountRegion(f, off, len, mp, c)
        PROVE  Kept \/ Inserted
    BY <1>1, <2>2 DEF MountRegion
  <2>3. ASSUME NEW i, NEW mp, NEW c, MountMemory(i, mp, c)
        PROVE  Kept \/ Inserted
    BY <1>1, <2>3 DEF MountMemory
  <2>4. ASSUME NEW f, NEW off, NEW len, NEW mp,
               MountFromFileAt(f, off, len, mp) \/ InitFromFileAt(f, off, len, mp)
        PROVE  Kept \/ Inserted
    BY <1>1, <2>1, <2>2, <2>4 DEF MountFromFileAt, InitFromFileAt
  <2>5. ASSUME NEW i, NEW mp, MountFromMemory(i, mp) \/ InitFromMemory(i, mp)
        PROVE  Kept \/ Inserted
    BY <1>1, <2>3, <2>5 DEF MountFromMemory, InitFromMemory
  <2> QED
    BY <1>2, <2>4, <2>5 DEF Mounting
<1>3. CASE Unmounting
  <2>1. ASSUME NEW h, UnmountHandle(h), h \notin DOMAIN mounts
        PROVE  Kept
    BY <1>1, <2>1 DEF UnmountHandle
  <2> QED
    BY <1>3, <2>1 DEF Unmounting, Unmounted
<1>4. CASE OnPath
  <2>1. ASSUME NEW path \in Paths, NEW accmode, Open(path, accmode)
        PROVE  Kept \/ Opened(path)
    <3>1. ASSUME OpenErrno(path, accmode) = "OK"
          PROVE  FindMount(path) # NoMount
      BY <3>1 DEF OpenErrno
    <3> QED
      BY <1>1, <2>1, <3>1 DEF Open, Opened
  <2>2. ASSUME NEW path, Opendir(path)
        PROVE  Kept
    BY <1>1, <2>2 DEF Opendir, FilesShrink
  <2>3. ASSUME NEW path, FileStat(path)
        PROVE  Kept
    BY <1>1, <2>3 DEF FileStat, Stat
  <2> QED
    BY <1>4, <2>1, <2>2, <2>3 DEF OnPath
<1>5. CASE OnFd
  <2>1. ASSUME NEW fd, Close(fd)
        PROVE  Kept
    BY <1>1, <2>1 DEF Close, FilesShrink, Without
  <2>2. ASSUME NEW fd, NEW e, OnHandle(fd, e)
        PROVE  Kept
    BY <1>1, <2>2 DEF OnHandle
  <2> QED
    BY <1>1, <1>5, <2>1, <2>2 DEF OnFd, Read, Lseek, Pread, FdStat, Stat
<1>6. CASE OnDir
  BY <1>1, <1>6 DEF OnDir, Readdir, Rewinddir, Telldir, Seekdir, Closedir, SetDir, FilesShrink
<1> QED
  BY <1>2, <1>3, <1>4, <1>5, <1>6 DEF Next

\* Of the mounts that cover the path of an open file, those older than its
\* own are spelled shorter.
OlderShorter ==
  \A n \in DOMAIN fdTable : \A g \in DOMAIN mounts :
    /\ PathIsInMount(fdTable[n].path, mounts[g].mp)
    /\ g < fdTable[n].owner
    => MountPointSize(mounts[g].mp) < MountPointSize(mounts[fdTable[n].owner].mp)

LEMMA InsertedMount ==
  ASSUME NEW mp, NEW image, InsertMount(mp, image)
  PROVE  /\ fdTable' = fdTable
         /\ DOMAIN mounts' = DOMAIN mounts \cup {nextHandle}
         /\ \A h \in DOMAIN mounts : h # nextHandle => mounts'[h] = mounts[h]
<1>1. mounts' = With(mounts, nextHandle, [mp |-> mp, image |-> image]) /\ fdTable' = fdTable
  BY DEF InsertMount
<1> QED
  BY <1>1 DEF With

LEMMA UnmountedMount ==
  ASSUME NEW h, Unmounted(h)
  PROVE  /\ DOMAIN mounts' = DOMAIN mounts \ {h}
         /\ \A g \in DOMAIN mounts' : mounts'[g] = mounts[g]
         /\ DOMAIN fdTable' = DOMAIN fdTable \ FdsOf(h)
         /\ \A n \in DOMAIN fdTable' : fdTable'[n] = fdTable[n]
         /\ DOMAIN dirTable' = DOMAIN dirTable \ DirsOf(h)
         /\ \A d \in DOMAIN dirTable' : dirTable'[d] = dirTable[d]
<1>1. /\ mounts' = Without(mounts, {h})
      /\ fdTable' = Without(fdTable, FdsOf(h))
      /\ dirTable' = Without(dirTable, DirsOf(h))
  BY DEF Unmounted, UnmountHandle, Fail
<1> HIDE DEF FdsOf, DirsOf
<1> QED
  BY <1>1 DEF Without

LEMMA OlderShorterStep ==
  ASSUME IndInv, OlderShorter, [Next]_vars
  PROVE  OlderShorter'
<1>1. ASSUME NEW n \in DOMAIN fdTable
      PROVE  /\ fdTable[n].owner \in DOMAIN mounts
             /\ fdTable[n].path \in Paths
  BY DEF IndInv, DescriptorsOwned, OwnerHolds, TypeOK, FdRecord
<1>2. DOMAIN mounts \subseteq Nat /\ nextHandle \in Nat /\ \A h \in DOMAIN mounts : h < nextHandle
  BY DEF IndInv, TypeOK, HandlesBelowCounter
<1>3. ASSUME FilesShrink, DOMAIN mounts' \subseteq DOMAIN mounts,
             \A g \in DOMAIN mounts' : mounts'[g] = mounts[g],
             \A n \in DOMAIN fdTable' : fdTable[n].owner \in DOMAIN mounts'
      PROVE  OlderShorter'
  BY <1>3 DEF OlderShorter, FilesShrink
<1>4. CASE mounts' = mounts /\ FilesShrink
  <2>1. \A n \in DOMAIN fdTable' : fdTable[n].owner \in DOMAIN mounts'
    BY <1>1, <1>4 DEF FilesShrink
  <2> QED
    BY <1>3, <1>4, <2>1
<1>5. ASSUME NEW mp, NEW image, InsertMount(mp, image)
      PROVE  OlderShorter'
  <2>1. /\ fdTable' = fdTable
        /\ DOMAIN mounts' = DOMAIN mounts \cup {nextHandle}
        /\ \A h \in DOMAIN mounts : mounts'[h] = mounts[h]
    <3>1. nextHandle \notin DOMAIN mounts
      BY <1>2
    <3> QED
      BY <1>5, <3>1, InsertedMount
  <2> SUFFICES ASSUME NEW n \in DOMAIN fdTable, NEW g \in DOMAIN mounts',
                      PathIsInMount(fdTable[n].path, mounts'[g].mp),
                      g < fdTable[n].owner
               PROVE  MountPointSize(mounts'[g].mp) < MountPointSize(mounts'[fdTable[n].owner].mp)
    BY <2>1 DEF OlderShorter
  <2>2. g \in DOMAIN mounts
    BY <1>1, <1>2, <2>1
  <2>3. mounts'[g] = mounts[g] /\ mounts'[fdTable[n].owner] = mounts[fdTable[n].owner]
    BY <1>1, <2>1, <2>2
  <2> QED
    BY <2>2, <2>3 DEF OlderShorter
<1>6. ASSUME NEW h, Unmounted(h)
      PROVE  OlderShorter'
  <2>1. FilesShrink
    BY <1>6, UnmountedMount DEF FilesShrink
  <2>2. \A n \in DOMAIN fdTable' : fdTable[n].owner \in DOMAIN mounts'
    BY <1>1, <1>6, UnmountedMount DEF FdsOf
  <2>3. DOMAIN mounts' \subseteq DOMAIN mounts /\ \A g \in DOMAIN mounts' : mounts'[g] = mounts[g]
    BY <1>6, UnmountedMount
  <2> QED
    BY <1>3, <2>1, <2>2, <2>3
<1>7. CASE Unmount
  <2>1. fdTable' = <<>> /\ DOMAIN <<>> = {}
    BY <1>7 DEF Unmount
  <2>2. DOMAIN fdTable' = {}
    BY <2>1, Zenon
  <2> QED
    BY <2>2 DEF OlderShorter
<1>8. ASSUME NEW path \in Paths, Opened(path)
      PROVE  OlderShorter'
  <2> DEFINE owner == FindMount(path)
             k == AllocateFd
  <2>1. owner \in Covering(path)
    BY <1>8, FindMountCovers DEF Opened, FindMount, IndInv
  <2>2. /\ mounts' = mounts
        /\ fdTable' = With(fdTable, k, [owner |-> owner, path |-> path])
    BY <1>8 DEF Opened
  <2> HIDE DEF k
  <2>3. ASSUME NEW g \in Covering(path), g < owner
        PROVE  MountPointSize(mounts[g].mp) < MountPointSize(mounts[owner].mp)
    <3>1. Longest(path, owner)
      BY <2>1, FindMountCovers DEF IndInv
    <3>2. DispatchUnambiguous
      BY DispatchLemma DEF IndInv
    <3>3. owner = g \/ Size(g) < Size(owner)
      BY <2>1, <2>3, <3>1, <3>2 DEF DispatchUnambiguous, Longest, Size
    <3>4. g # owner
      BY <1>2, <2>1, <2>3 DEF Covering
    <3> QED
      BY <3>3, <3>4 DEF Size
  <2> HIDE DEF owner
  <2> SUFFICES ASSUME NEW n \in DOMAIN fdTable', NEW g \in DOMAIN mounts,
                      PathIsInMount(fdTable'[n].path, mounts[g].mp),
                      g < fdTable'[n].owner
               PROVE  MountPointSize(mounts[g].mp) < MountPointSize(mounts[fdTable'[n].owner].mp)
    BY <2>2 DEF OlderShorter
  <2>4. CASE n = k
    <3>1. fdTable'[n] = [owner |-> owner, path |-> path]
      BY <2>2, <2>4 DEF With
    <3>2. g \in Covering(path) /\ g < owner
      BY <3>1 DEF Covering
    <3> QED
      BY <2>3, <3>1, <3>2
  <2>5. CASE n # k
    <3>1. n \in DOMAIN fdTable /\ fdTable'[n] = fdTable[n]
      BY <2>2, <2>5 DEF With
    <3> QED
      BY <3>1 DEF OlderShorter
  <2> QED
    BY <2>4, <2>5
<1>9. CASE UNCHANGED vars
  BY <1>9 DEF vars, OlderShorter
<1> QED
  BY <1>4, <1>5, <1>6, <1>7, <1>8, <1>9, StepKinds

LEMMA ShadowsAreNewer ==
  ASSUME IndInv, OlderShorter
  PROVE  ShadowedOnlyByNewer
<1> SUFFICES ASSUME NEW n \in DOMAIN fdTable
             PROVE  FindMount(fdTable[n].path) >= fdTable[n].owner
  BY DEF ShadowedOnlyByNewer
<1> DEFINE path == fdTable[n].path
           own == fdTable[n].owner
           found == FindMount(path)
<1>1. path \in Paths /\ own \in Covering(path) /\ own \in Nat
  BY DEF IndInv, DescriptorsOwned, OwnerHolds, TypeOK, FdRecord, Covering
<1>2. /\ found \in Covering(path) /\ Longest(path, found)
      /\ Size(own) \in Nat /\ Size(found) \in Nat
  BY <1>1, FindMountCovers DEF IndInv
<1>3. found \in Nat
  BY <1>2 DEF IndInv, TypeOK, Covering
<1>4. ~(Size(found) < Size(own))
  BY <1>1, <1>2 DEF Longest
<1>5. found < own => Size(found) < Size(own)
  BY <1>2 DEF OlderShorter, Covering, Size
<1> QED
  BY <1>1, <1>3, <1>4, <1>5

-----------------------------------------------------------------------------
(* Theorems.                                                               *)

\* The invariant everything rests on holds of every reachable state.
THEOREM Inductive == Spec => []IndInv
<1>1. IndInv /\ [Next]_vars => IndInv'
  BY NextStep
<1> QED
  BY <1>1, InitStep, PTL DEF Spec

\* Every table of the context holds records of its kind and every counter
\* stays a number, whatever callers mount, open and unmount.
THEOREM TypeCorrect == Spec => []TypeOK
<1>1. IndInv => TypeOK
  BY DEF IndInv
<1> QED
  BY <1>1, Inductive, PTL

\* No open file or directory outlives its mount or changes owner, however
\* mounts nest (unmount_handle's force-close, open, opendir).
THEOREM OwnersLive == Spec => []DescriptorsOwned
<1>1. IndInv => DescriptorsOwned
  BY DEF IndInv
<1> QED
  BY <1>1, Inductive, PTL

\* find_mount never has to break a tie.
THEOREM DispatchDetermined == Spec => []DispatchUnambiguous
<1>1. IndInv => DispatchUnambiguous
  BY DispatchLemma DEF IndInv
<1> QED
  BY <1>1, Inductive, PTL

\* The compatibility accessors speak of a live mount, the oldest one.
THEOREM CompatLive == Spec => []CompatIsFirst
<1>1. IndInv => CompatIsFirst
  BY DEF IndInv
<1> QED
  BY <1>1, Inductive, PTL

\* A descriptor unmount_handle force-closed is never accepted again before
\* an unmount().
THEOREM OrphansRejected == Spec => []OrphansStayInvalid
<1>1. IndInv => OrphansStayInvalid
  BY DEF IndInv
<1> QED
  BY <1>1, Inductive, PTL

\* The counters stay above every open descriptor, so allocate_fd never looks
\* for another number and its wrap-around never runs.
THEOREM CountersAhead == Spec => []CounterAboveFds
<1>1. IndInv => CounterAboveFds
  BY DEF IndInv
<1> QED
  BY <1>1, Inductive, PTL

\* telldir cookies are ordinals of the listing, for listings of any length.
THEOREM CookiesOrdinal == Spec => []CookieIsOrdinal
<1>1. IndInv => CookieIsOrdinal
  BY DEF IndInv
<1> QED
  BY <1>1, Inductive, PTL

\* The region check of mount_from_file_at refuses every region that is empty
\* or not in the file, for every width of the machine word.
THEOREM RegionsRefused == Spec => []RegionsChecked
<1>1. ASSUME NEW f \in HostFiles, NEW off \in Offsets, NEW len \in Offsets,
             Host[f].exists, ~LiesIn(f, off, len)
      PROVE  RegionErrno(f, off, len) = "EINVAL"
  <2>1. Host[f].size \in 0 .. Word - 1 /\ off \in 0 .. Word - 1 /\ len \in 0 .. Word - 1
    BY HostAssumption
  <2>2. RegionLength(Host[f].size, off, len) = 0
    BY <1>1, <2>1, RegionSoundLemma DEF RegionSound, LiesIn
  <2> QED
    BY <1>1, <2>2 DEF RegionErrno
<1>2. RegionsChecked
  BY <1>1 DEF RegionsChecked, BadRegions, MountRegionErrno
<1> QED
  BY <1>2, PTL

\* A mount handle, once given out, is never given out again, not even after
\* unmount().
THEOREM HandlesFresh == Spec => HandlesNeverReused
<1> DEFINE Fresh == /\ nextHandle' >= nextHandle
                    /\ \A h \in DOMAIN mounts' \ DOMAIN mounts : h >= nextHandle /\ h < nextHandle'
<1>1. IndInv /\ [Next]_vars => [Fresh]_vars
  <2> SUFFICES ASSUME IndInv, Next
               PROVE  Fresh
    OBVIOUS
  <2>1. nextHandle \in Nat
    BY DEF IndInv, TypeOK
  <2>2. ASSUME NEW mp, NEW image, InsertMount(mp, image)
        PROVE  Fresh
    BY <2>1, <2>2 DEF InsertMount, With
  <2>3. ASSUME DOMAIN mounts' \subseteq DOMAIN mounts, nextHandle' = nextHandle
        PROVE  Fresh
    <3>1. DOMAIN mounts' \ DOMAIN mounts = {}
      BY <2>3
    <3> QED
      BY <2>1, <2>3, <3>1
  <2>4. \/ DOMAIN mounts' \subseteq DOMAIN mounts /\ nextHandle' = nextHandle
        \/ \E mp, image : InsertMount(mp, image)
    BY MountsGrow
  <2> HIDE DEF Fresh
  <2> QED
    BY <2>2, <2>3, <2>4
<1> QED
  BY <1>1, Inductive, PTL DEF Spec, HandlesNeverReused

\* fstat of an open file speaks of another file only when a mount newer than
\* the file's own has taken its path over.
THEOREM ShadowedByNewer == Spec => []ShadowedOnlyByNewer
<1>1. Init => OlderShorter
  <2>1. Init => fdTable = <<>> /\ DOMAIN <<>> = {}
    BY DEF Init
  <2>2. Init => DOMAIN fdTable = {}
    BY <2>1, Zenon
  <2> QED
    BY <2>2 DEF OlderShorter
<1>2. IndInv /\ OlderShorter /\ [Next]_vars => OlderShorter'
  BY OlderShorterStep
<1>3. IndInv /\ OlderShorter => ShadowedOnlyByNewer
  BY ShadowsAreNewer
<1> QED
  BY <1>1, <1>2, <1>3, Inductive, PTL DEF Spec

\* A call that adds or removes mounts leaves the open files and directories of
\* every mount that stays as they are.
THEOREM OthersLeftAlone == Spec => OthersUndisturbed
<1> DEFINE Undisturbed ==
      \A h \in DOMAIN mounts \cap DOMAIN mounts' :
        /\ mounts'[h] = mounts[h]
        /\ DOMAIN mounts' # DOMAIN mounts =>
             /\ \A n \in FdsOf(h) : n \in DOMAIN fdTable' /\ fdTable'[n] = fdTable[n]
             /\ \A d \in DirsOf(h) : d \in DOMAIN dirTable' /\ dirTable'[d] = dirTable[d]
<1>1. ASSUME IndInv, Next
      PROVE  Undisturbed
  <2>1. CASE mounts' = mounts
    BY <2>1
  <2>2. ASSUME NEW mp, NEW image, InsertMount(mp, image)
        PROVE  Undisturbed
    <3>1. nextHandle \notin DOMAIN mounts
      BY <1>1 DEF IndInv, HandlesBelowCounter, TypeOK
    <3>2. /\ fdTable' = fdTable /\ dirTable' = dirTable
          /\ \A h \in DOMAIN mounts : mounts'[h] = mounts[h]
      BY <2>2, <3>1, InsertedMount DEF InsertMount
    <3> QED
      BY <3>2 DEF FdsOf, DirsOf
  <2>3. ASSUME NEW g, Unmounted(g)
        PROVE  Undisturbed
    <3>1. /\ DOMAIN mounts' = DOMAIN mounts \ {g}
          /\ \A h \in DOMAIN mounts' : mounts'[h] = mounts[h]
          /\ DOMAIN fdTable' = DOMAIN fdTable \ FdsOf(g)
          /\ \A n \in DOMAIN fdTable' : fdTable'[n] = fdTable[n]
          /\ DOMAIN dirTable' = DOMAIN dirTable \ DirsOf(g)
          /\ \A d \in DOMAIN dirTable' : dirTable'[d] = dirTable[d]
      BY <2>3, UnmountedMount
    <3> QED
      BY <3>1 DEF FdsOf, DirsOf
  <2>4. CASE Unmount
    <3>1. mounts' = <<>> /\ DOMAIN <<>> = {}
      BY <2>4 DEF Unmount
    <3>2. DOMAIN mounts' = {}
      BY <3>1, Zenon
    <3> QED
      BY <3>2
  <2> HIDE DEF Undisturbed
  <2> QED
    BY <1>1, <2>1, <2>2, <2>3, <2>4, StepKinds DEF Opened
<1>2. IndInv /\ [Next]_vars => [Undisturbed]_vars
  BY <1>1
<1> QED
  BY <1>2, Inductive, PTL DEF Spec, OthersUndisturbed

\* The mount of the longest mount point owns a path.
Innermost ==
  \A path \in Paths :
    IF Covering(path) = {}
    THEN FindMount(path) = NoMount
    ELSE /\ FindMount(path) \in Covering(path)
         /\ \A g \in Covering(path) \ {FindMount(path)} : Size(g) < Size(FindMount(path))

Sized == \A path \in Paths : \A h \in Covering(path) : Size(h) \in Nat

\* Longest prefix wins (c_api.h:242): for any nesting of mounts and in whatever
\* order they were made, a path that some mount covers is dispatched to the
\* one whose mount point is strictly longer than that of every other.
THEOREM LongestPrefixWins == Spec => []Innermost
<1>1. IndInv => Innermost
  <2> SUFFICES ASSUME IndInv, NEW path \in Paths
               PROVE  IF Covering(path) = {}
                      THEN FindMount(path) = NoMount
                      ELSE /\ FindMount(path) \in Covering(path)
                           /\ \A g \in Covering(path) \ {FindMount(path)} :
                                Size(g) < Size(FindMount(path))
    BY DEF Innermost
  <2>1. CASE Covering(path) = {}
    BY <2>1 DEF FindMount
  <2>2. CASE Covering(path) # {}
    <3>1. FindMount(path) \in Covering(path) /\ Longest(path, FindMount(path))
      BY <2>2, FindMountCovers DEF IndInv
    <3>2. DispatchUnambiguous
      BY DispatchLemma DEF IndInv
    <3>3. ASSUME NEW g \in Covering(path) \ {FindMount(path)}
          PROVE  Size(g) < Size(FindMount(path))
      <4>1. Size(g) # Size(FindMount(path))
        BY <3>1, <3>2 DEF DispatchUnambiguous, Size
      <4> QED
        BY <3>1, <4>1 DEF Longest
    <3> QED
      BY <2>2, <3>1, <3>3
  <2> QED
    BY <2>1, <2>2
<1> QED
  BY <1>1, Inductive, PTL

\* A path changes hands only when its owner is unmounted, or for a mount just
\* made: mounting and unmounting anything else never redirects it.
OwnerMoves ==
  [][\A path \in Paths :
       FindMount(path)' # FindMount(path) =>
         \/ FindMount(path) \in DOMAIN mounts \ DOMAIN mounts'
         \/ FindMount(path)' \in DOMAIN mounts' \ DOMAIN mounts]_vars

\* In every program of mounts and unmounts, dispatch is stable in this sense.
THEOREM DispatchStable == Spec => OwnerMoves
<1> DEFINE Kept == \A h \in DOMAIN mounts \cap DOMAIN mounts' : mounts'[h] = mounts[h]
           Moves == \A path \in Paths :
             FindMount(path)' # FindMount(path) =>
               \/ FindMount(path) \in DOMAIN mounts \ DOMAIN mounts'
               \/ FindMount(path)' \in DOMAIN mounts' \ DOMAIN mounts
<1>1. IndInv => Sized
  <2> SUFFICES ASSUME IndInv, NEW path \in Paths, NEW h \in Covering(path)
               PROVE  Size(h) \in Nat
    BY DEF Sized
  <2> QED
    BY FindMountCovers DEF IndInv
<1>2. ASSUME Innermost, Innermost', Sized, Kept
      PROVE  Moves
  <2> SUFFICES ASSUME NEW path \in Paths, NEW f, NEW g,
                      f = FindMount(path), g = FindMount(path)',
                      f \notin DOMAIN mounts \ DOMAIN mounts',
                      g \notin DOMAIN mounts' \ DOMAIN mounts
               PROVE  g = f
    OBVIOUS
  <2>1. /\ Covering(path) = {} => f = NoMount
        /\ Covering(path) # {} => f \in Covering(path)
        /\ \A h \in Covering(path) \ {f} : Size(h) < Size(f)
    BY <1>2 DEF Innermost
  <2>2. /\ Covering(path)' = {} => g = NoMount
        /\ Covering(path)' # {} => g \in Covering(path)'
        /\ \A h \in Covering(path)' \ {g} : Size(h)' < Size(g)'
    BY <1>2 DEF Innermost
  <2>3. \A h \in DOMAIN mounts \cap DOMAIN mounts' :
          /\ h \in Covering(path) <=> h \in Covering(path)'
          /\ Size(h)' = Size(h)
    BY <1>2 DEF Covering, Size
  <2>4. Covering(path) \subseteq DOMAIN mounts /\ Covering(path)' \subseteq DOMAIN mounts'
    BY DEF Covering
  <2>5. f \notin DOMAIN mounts \ DOMAIN mounts' /\ g \notin DOMAIN mounts' \ DOMAIN mounts
    OBVIOUS
  <2>6. \A h \in Covering(path) : Size(h) \in Nat
    BY <1>2 DEF Sized
  <2>7. CASE Covering(path) = {}
    <3>1. Covering(path)' = {}
      BY <2>2, <2>3, <2>4, <2>5, <2>7
    <3> QED
      BY <2>1, <2>2, <2>7, <3>1
  <2>8. CASE Covering(path) # {}
    <3>1. f \in Covering(path) /\ f \in Covering(path)' /\ f \in DOMAIN mounts \cap DOMAIN mounts'
      BY <2>1, <2>3, <2>4, <2>5, <2>8
    <3>2. g \in Covering(path)' /\ g \in Covering(path) /\ g \in DOMAIN mounts \cap DOMAIN mounts'
      BY <2>2, <2>3, <2>4, <2>5, <3>1
    <3>3. ASSUME g # f
          PROVE  FALSE
      <4>1. Size(g) < Size(f)
        BY <2>1, <3>2, <3>3
      <4>2. Size(f)' < Size(g)'
        BY <2>2, <3>1, <3>3
      <4>3. Size(f)' = Size(f) /\ Size(g)' = Size(g)
        BY <2>3, <3>1, <3>2
      <4> QED
        BY <2>6, <3>1, <3>2, <4>1, <4>2, <4>3
    <3> QED
      BY <3>3
  <2> QED
    BY <2>7, <2>8
<1>3. OthersUndisturbed => [][Kept]_vars
  <2> DEFINE Undisturbed ==
        \A h \in DOMAIN mounts \cap DOMAIN mounts' :
          /\ mounts'[h] = mounts[h]
          /\ DOMAIN mounts' # DOMAIN mounts =>
               /\ \A n \in FdsOf(h) : n \in DOMAIN fdTable' /\ fdTable'[n] = fdTable[n]
               /\ \A d \in DirsOf(h) : d \in DOMAIN dirTable' /\ dirTable'[d] = dirTable[d]
  <2>1. [Undisturbed]_vars => [Kept]_vars
    OBVIOUS
  <2> QED
    BY <2>1, PTL DEF OthersUndisturbed
<1>4. Innermost /\ Innermost' /\ Sized /\ [Kept]_vars => [Moves]_vars
  <2> HIDE DEF Kept, Moves
  <2> QED
    BY <1>2
<1> QED
  BY <1>1, <1>3, <1>4, Inductive, LongestPrefixWins, OthersLeftAlone, PTL DEF OwnerMoves

=============================================================================
