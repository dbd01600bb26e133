--------------------------- MODULE ExtractAllProofs ---------------------------
(***************************************************************************)
(* The safety of ExtractAll, for every image, mount table and disk.        *)
(*                                                                         *)
(* First what the names of an image and their listings are, then the       *)
(* recursion: at every moment a path that is to be extracted from the      *)
(* current mount either is on the host already or lies below an entry      *)
(* that some active call has still to take.                                *)
(***************************************************************************)
EXTENDS ExtractAll, SequenceTheorems, FiniteSetTheorems, WellFoundedInduction, TLAPS

-----------------------------------------------------------------------------
(* Numbers and enumerations.                                               *)

\* A set of numbers has a least one.
LEMMA LeastOf ==
  ASSUME NEW S, S \subseteq Nat, S # {}
  PROVE  \E x \in S : \A y \in S : x <= y
<1> DEFINE R == OpToRel(<, Nat)
<1>1. IsWellFoundedOn(R, Nat)
  BY NatLessThanWellFounded
<1>2. \A x, y \in Nat : x < y => <<x, y>> \in R
  BY DEF OpToRel
<1> HIDE DEF R
<1>3. PICK x \in S : \A y \in S : ~(<<y, x>> \in R)
  BY <1>1, WFMin
<1>4. \A y \in S : ~(y < x)
  BY <1>2, <1>3
<1>5. \A y \in S : x <= y
  BY <1>4
<1> QED
  BY <1>5

LEMMA NumberedIsLeast ==
  ASSUME NEW S, S \subseteq Nat, S # {}
  PROVE  Numbered(S) \in S /\ \A y \in S : Numbered(S) <= y
<1>1. \E x \in S : \A y \in S : x <= y
  BY LeastOf
<1>2. Numbered(S) = CHOOSE x \in S : \A y \in S : x <= y
  BY DEF Numbered
<1> QED
  BY <1>1, <1>2

\* Ascending(S) takes every member of S once.
LEMMA AscendingEnumerates ==
  ASSUME NEW n \in Nat, NEW S \in SUBSET (1 .. n)
  PROVE  /\ Cardinality(S) \in Nat
         /\ \A k \in 1 .. Cardinality(S) : Ascending(S)[k] \in S
         /\ \A i \in S : \E k \in 1 .. Cardinality(S) : Ascending(S)[k] = i
         /\ \A k, l \in 1 .. Cardinality(S) : Ascending(S)[k] = Ascending(S)[l] => k = l
<1> DEFINE c == Cardinality(S)
           UpTo(i) == {j \in S : j <= i}
           r == [i \in S |-> Cardinality(UpTo(i))]
<1>1. IsFiniteSet(S) /\ c \in Nat
  <2>1. IsFiniteSet(1 .. n)
    BY FS_Interval
  <2>2. IsFiniteSet(S)
    BY <2>1, FS_Subset
  <2> QED
    BY <2>2, FS_CardinalityType
<1>2. ASSUME NEW i \in S
      PROVE  /\ IsFiniteSet(UpTo(i)) /\ Cardinality(UpTo(i)) \in 1 .. c
             /\ UpTo(i) \in SUBSET S
  <2>1. IsFiniteSet(UpTo(i)) /\ Cardinality(UpTo(i)) <= c
    BY <1>1, FS_Subset
  <2>2. UpTo(i) # {}
    OBVIOUS
  <2>3. Cardinality(UpTo(i)) \in Nat /\ Cardinality(UpTo(i)) # 0
    BY <2>1, <2>2, FS_CardinalityType, FS_EmptySet
  <2> HIDE DEF c
  <2> QED
    BY <1>1, <2>1, <2>3
<1>3. ASSUME NEW i \in S, NEW j \in S, i < j
      PROVE  Cardinality(UpTo(i)) # Cardinality(UpTo(j))
  <2>0. i \in Nat /\ j \in Nat
    OBVIOUS
  <2>1. UpTo(i) \in SUBSET UpTo(j) /\ j \in UpTo(j) /\ j \notin UpTo(i)
    <3>1. \A k \in S : k \in Nat
      OBVIOUS
    <3>2. \A k \in S : k <= i => k <= j
      BY <1>3, <2>0, <3>1
    <3>3. ~(j <= i) /\ j <= j
      BY <1>3, <2>0
    <3> QED
      BY <3>2, <3>3
  <2>2. IsFiniteSet(UpTo(j))
    BY <1>2
  <2> HIDE DEF UpTo
  <2> QED
    BY <2>1, <2>2, FS_Subset
<1>4. /\ r \in [S -> 1 .. c]
      /\ \A i \in S : r[i] = Cardinality(UpTo(i))
  BY <1>2
<1> HIDE DEF r, UpTo
<1>5. \A i, j \in S : r[i] = r[j] => i = j
  <2>1. \A i, j \in S : i < j => r[i] # r[j]
    BY <1>3, <1>4
  <2>2. \A i, j \in S : i = j \/ i < j \/ j < i
    OBVIOUS
  <2> QED
    BY <2>1, <2>2
<1>6. \A k \in 1 .. c : \E i \in S : r[i] = k
  <2>1. r \in Injection(S, 1 .. c)
    BY <1>4, <1>5 DEF Injection, IsInjective
  <2>2. IsFiniteSet(1 .. c) /\ Cardinality(1 .. c) = c
    BY <1>1, FS_Interval
  <2>3. r \in Surjection(S, 1 .. c)
    BY <2>1, <2>2, FS_Injection
  <2> QED
    BY <2>3 DEF Surjection
<1>7. \A k \in 1 .. c : Ascending(S)[k] \in S /\ r[Ascending(S)[k]] = k
  <2> SUFFICES ASSUME NEW k \in 1 .. c
               PROVE  Ascending(S)[k] \in S /\ r[Ascending(S)[k]] = k
    OBVIOUS
  <2>1. Ascending(S)[k] = CHOOSE i \in S : Cardinality({j \in S : j <= i}) = k
    BY DEF Ascending
  <2>2. \E i \in S : Cardinality({j \in S : j <= i}) = k
    BY <1>4, <1>6 DEF UpTo
  <2>3. /\ Ascending(S)[k] \in S
        /\ Cardinality({j \in S : j <= Ascending(S)[k]}) = k
    BY <2>1, <2>2
  <2> QED
    BY <1>4, <2>3 DEF UpTo
<1>8. \A i \in S : Ascending(S)[r[i]] = i /\ r[i] \in 1 .. c
  BY <1>4, <1>5, <1>7
<1> QED
  BY <1>1, <1>7, <1>8

-----------------------------------------------------------------------------
(* Paths.                                                                  *)

\* Concatenation is associative.
Associates(a, b, c) == (a \o b) \o c = a \o (b \o c)

LEMMA ConcatsAssociate ==
  ASSUME NEW S, NEW a \in Seq(S), NEW b \in Seq(S), NEW c \in Seq(S)
  PROVE  Associates(a, b, c)
BY DEF Associates

LEMMA FirstOfConcat ==
  ASSUME NEW S, NEW a \in Seq(S), NEW b \in Seq(S), Len(a) = 1
  PROVE  (a \o b)[1] = a[1]
<1> DEFINE ab == a \o b
<1>1. \A i \in 1 .. Len(a) + Len(b) : ab[i] = IF i <= Len(a) THEN a[i] ELSE b[i - Len(a)]
  BY ConcatProperties
<1>2. 1 \in 1 .. Len(a) + Len(b)
  BY LenProperties
<1> HIDE DEF ab
<1>3. ab[1] = a[1]
  BY <1>1, <1>2
<1> QED
  BY <1>3 DEF ab

LEMMA PrefixOf ==
  ASSUME NEW S, NEW q \in Seq(S), NEW n \in 0 .. Len(q)
  PROVE  /\ SubSeq(q, 1, n) \in Seq(S) /\ Len(SubSeq(q, 1, n)) = n
         /\ \A i \in 1 .. n : SubSeq(q, 1, n)[i] = q[i]
<1>1. 1 \in 1 .. Len(q) + 1 /\ n \in 1 - 1 .. Len(q)
  BY LenProperties
<1> QED
  BY <1>1, SubSeqProperties

LEMMA PrefixOfPrefix ==
  ASSUME NEW S, NEW q \in Seq(S), NEW n \in 0 .. Len(q), NEW m \in 0 .. n
  PROVE  SubSeq(SubSeq(q, 1, n), 1, m) = SubSeq(q, 1, m)
<1>1. m \in 0 .. Len(q) /\ Len(q) \in Nat
  BY LenProperties
<1> DEFINE u == SubSeq(q, 1, n)
           v == SubSeq(q, 1, m)
           w == SubSeq(u, 1, m)
<1>2. /\ u \in Seq(S) /\ Len(u) = n /\ \A i \in 1 .. n : u[i] = q[i]
      /\ v \in Seq(S) /\ Len(v) = m /\ \A i \in 1 .. m : v[i] = q[i]
  BY <1>1, PrefixOf
<1> HIDE DEF u, v
<1>3. w \in Seq(S) /\ Len(w) = m /\ \A i \in 1 .. m : w[i] = u[i]
  BY <1>2, PrefixOf
<1> HIDE DEF w
<1>4. \A i \in 1 .. m : w[i] = v[i]
  BY <1>1, <1>2, <1>3
<1>5. w = v
  BY <1>2, <1>3, <1>4, SeqEqual
<1> QED
  BY <1>5 DEF u, v, w

LEMMA WholePrefix ==
  ASSUME NEW S, NEW q \in Seq(S)
  PROVE  SubSeq(q, 1, Len(q)) = q
BY SubSeqFull

LEMMA LongerPrefix ==
  ASSUME NEW S, NEW q \in Seq(S), NEW n \in 0 .. Len(q), n < Len(q)
  PROVE  /\ q[n + 1] \in S
         /\ SubSeq(q, 1, n + 1) = Append(SubSeq(q, 1, n), q[n + 1])
<1> DEFINE u == SubSeq(q, 1, n)
           v == SubSeq(q, 1, n + 1)
           e == q[n + 1]
           w == Append(u, e)
<1>1. /\ n \in Nat /\ Len(q) \in Nat /\ n + 1 \in 0 .. Len(q) /\ n + 1 \in 1 .. Len(q)
  BY LenProperties
<1>2. /\ u \in Seq(S) /\ Len(u) = n /\ \A i \in 1 .. n : u[i] = q[i]
      /\ v \in Seq(S) /\ Len(v) = n + 1 /\ \A i \in 1 .. n + 1 : v[i] = q[i]
  BY <1>1, PrefixOf
<1>3. e \in S
  BY <1>1, ElementOfSeq
<1> HIDE DEF u, v, e
<1>4. w \in Seq(S) /\ Len(w) = n + 1 /\ (\A i \in 1 .. n : w[i] = u[i]) /\ w[n + 1] = e
  BY <1>2, <1>3, AppendProperties
<1> HIDE DEF w
<1>5. \A i \in 1 .. n + 1 : w[i] = v[i]
  <2> SUFFICES ASSUME NEW i \in 1 .. n + 1
               PROVE  w[i] = v[i]
    OBVIOUS
  <2>1. CASE i = n + 1
    BY <1>1, <1>2, <1>4, <2>1 DEF e
  <2>2. CASE i # n + 1
    <3>1. i \in 1 .. n
      BY <1>1, <2>2
    <3> QED
      BY <1>2, <1>4, <3>1
  <2> QED
    BY <2>1, <2>2
<1>6. w = v
  BY <1>2, <1>4, <1>5, SeqEqual
<1> QED
  BY <1>3, <1>6 DEF u, v, w, e

LEMMA ParentOf ==
  ASSUME NEW S, NEW p \in Seq(S), p # <<>>
  PROVE  /\ Parent(p) \in Seq(S) /\ Last(p) \in S /\ Len(p) \in Nat \ {0}
         /\ Append(Parent(p), Last(p)) = p
         /\ Len(Parent(p)) = Len(p) - 1
<1>1. Len(p) \in Nat \ {0}
  BY LenProperties, EmptySeq
<1> DEFINE n == Len(p) - 1
<1>2. n \in 0 .. Len(p) /\ n < Len(p) /\ n + 1 = Len(p)
  BY <1>1
<1>3. /\ p[n + 1] \in S /\ SubSeq(p, 1, n + 1) = Append(SubSeq(p, 1, n), p[n + 1])
      /\ SubSeq(p, 1, n) \in Seq(S) /\ Len(SubSeq(p, 1, n)) = n
  BY <1>2, LongerPrefix, PrefixOf
<1>4. SubSeq(p, 1, Len(p)) = p
  BY WholePrefix
<1> QED
  BY <1>1, <1>2, <1>3, <1>4 DEF Parent, Front, Last

LEMMA ChildOf ==
  ASSUME NEW S, NEW p \in Seq(S), NEW e \in S
  PROVE  /\ Append(p, e) \in Seq(S) /\ Append(p, e) # <<>>
         /\ Parent(Append(p, e)) = p /\ Last(Append(p, e)) = e
         /\ Len(Append(p, e)) = Len(p) + 1 /\ Len(p) \in Nat
<1>1. /\ Append(p, e) \in Seq(S) /\ Append(p, e) # <<>>
      /\ Len(Append(p, e)) = Len(p) + 1 /\ Len(p) \in Nat
  BY AppendProperties, LenProperties
<1>2. /\ Parent(Append(p, e)) \in Seq(S) /\ Last(Append(p, e)) \in S
      /\ Append(Parent(Append(p, e)), Last(Append(p, e))) = Append(p, e)
  BY <1>1, ParentOf
<1> QED
  BY <1>1, <1>2, AppendInjective

-----------------------------------------------------------------------------
(* Images: what a name locates.                                            *)

LEMMA ImageEntries ==
  ASSUME NEW img \in DOMAIN Image
  PROVE  /\ Image[img].backend \in {"zip", "dwarfs", "squashfs"}
         /\ Len(Entries(img)) \in Nat /\ DOMAIN Entries(img) = 1 .. Len(Entries(img))
         /\ \A i \in DOMAIN Entries(img) :
              /\ Entries(img)[i].path \in Seq(Names) /\ Entries(img)[i].path # <<>>
              /\ Entries(img)[i].type \in {"file", "dir", "other"}
              /\ Entries(img)[i].mode \in {"rw", "ro"}
         /\ \A i, j \in DOMAIN Entries(img) :
              Entries(img)[i].path = Entries(img)[j].path =>
                Entries(img)[i].type = Entries(img)[j].type
         /\ ~IsZip(img) =>
              \A i, j \in DOMAIN Entries(img) : Entries(img)[i].path = Entries(img)[j].path => i = j
         /\ IsZip(img) => \A i \in DOMAIN Entries(img) : Entries(img)[i].type # "other"
BY ImageAssumption DEF Entries, IsZip

LEMMA PathsType ==
  ASSUME NEW img \in DOMAIN Image, NEW p \in Paths(img)
  PROVE  p \in Seq(Names) /\ p # <<>>
BY ImageEntries DEF Paths

\* The first number of some entries is one of them; None stands for none.
LEMMA NumberedEntry ==
  ASSUME NEW img \in DOMAIN Image, NEW S \in SUBSET DOMAIN Entries(img)
  PROVE  /\ S = {} => Numbered(S) = None
         /\ S # {} => Numbered(S) \in S /\ Numbered(S) # None
<1>1. CASE S = {}
  BY <1>1 DEF Numbered
<1>2. CASE S # {}
  <2>1. S \subseteq Nat /\ 0 \notin S
    BY ImageEntries
  <2>2. Numbered(S) \in S
    BY <1>2, <2>1, NumberedIsLeast
  <2> QED
    BY <1>2, <2>1, <2>2 DEF None
<1> QED
  BY <1>1, <1>2

LEMMA TypeOfEntry ==
  ASSUME NEW img \in DOMAIN Image, NEW i \in DOMAIN Entries(img), NEW p,
         p = Entries(img)[i].path
  PROVE  /\ TypeAt(img, p) = Entries(img)[i].type
         /\ HasDirectory(img, p) <=> TypeAt(img, p) = "dir"
         /\ LookupInode(img, p) \in DOMAIN Entries(img)
         /\ Entries(img)[LookupInode(img, p)].path = p
<1> DEFINE S == {k \in DOMAIN Entries(img) : Entries(img)[k].path = p}
<1>1. S \in SUBSET DOMAIN Entries(img) /\ S # {}
  OBVIOUS
<1>2. LookupInode(img, p) \in S /\ LookupInode(img, p) # None
  BY <1>1, NumberedEntry DEF LookupInode
<1>3. p # <<>> /\ \A j \in S : Entries(img)[j].type = Entries(img)[i].type
  BY ImageEntries
<1>4. TypeAt(img, p) = Entries(img)[i].type
  BY <1>2, <1>3 DEF TypeAt
<1>5. HasDirectory(img, p) <=> \E j \in S : Entries(img)[j].type = "dir"
  BY <1>3 DEF HasDirectory
<1> QED
  BY <1>2, <1>3, <1>4, <1>5

LEMMA NoEntry ==
  ASSUME NEW img \in DOMAIN Image, NEW p, p \notin Paths(img), p # <<>>
  PROVE  TypeAt(img, p) = "none" /\ ~HasDirectory(img, p)
<1> DEFINE S == {k \in DOMAIN Entries(img) : Entries(img)[k].path = p}
<1>1. S \in SUBSET DOMAIN Entries(img) /\ S = {}
  BY DEF Paths
<1>2. LookupInode(img, p) = None
  BY <1>1, NumberedEntry DEF LookupInode
<1> QED
  BY <1>1, <1>2 DEF TypeAt, HasDirectory

\* A name in a ZIP archive, with and without the trailing slash.
LEMMA ZipEntry ==
  ASSUME NEW img \in DOMAIN Image, NEW p \in Paths(img)
  PROVE  /\ ZipNameLocate(img, p, TRUE) # None <=> TypeAt(img, p) = "dir"
         /\ LocateEntry(img, p) # None /\ LocateEntry(img, p) \in DOMAIN Entries(img)
         /\ Entries(img)[LocateEntry(img, p)].type = TypeAt(img, p)
         /\ Entries(img)[LocateEntry(img, p)].path = p
<1> DEFINE D == {k \in DOMAIN Entries(img) :
                   Entries(img)[k].path = p /\ (Entries(img)[k].type = "dir") = TRUE}
           F == {k \in DOMAIN Entries(img) :
                   Entries(img)[k].path = p /\ (Entries(img)[k].type = "dir") = FALSE}
           t == TypeAt(img, p)
<1>0. PICK i \in DOMAIN Entries(img) : p = Entries(img)[i].path
  BY DEF Paths
<1>1. \A k \in DOMAIN Entries(img) : Entries(img)[k].path = p => Entries(img)[k].type = t
  BY TypeOfEntry
<1>2. /\ D \in SUBSET DOMAIN Entries(img) /\ F \in SUBSET DOMAIN Entries(img)
      /\ D # {} <=> t = "dir"
      /\ F # {} <=> t # "dir"
      /\ \A k \in D \cup F : Entries(img)[k].path = p /\ Entries(img)[k].type = t
  BY <1>0, <1>1
<1>3. ZipNameLocate(img, p, TRUE) = Numbered(D) /\ ZipNameLocate(img, p, FALSE) = Numbered(F)
  BY DEF ZipNameLocate
<1> HIDE DEF D, F, t
<1>4. /\ Numbered(D) # None <=> t = "dir"
      /\ Numbered(F) # None <=> t # "dir"
      /\ Numbered(D) # None => Numbered(D) \in D
      /\ Numbered(F) # None => Numbered(F) \in F
  BY <1>2, NumberedEntry
<1>5. LocateEntry(img, p) = IF Numbered(F) # None THEN Numbered(F) ELSE Numbered(D)
  BY <1>3 DEF LocateEntry
<1>6. LocateEntry(img, p) \in D \cup F /\ LocateEntry(img, p) # None
  BY <1>4, <1>5
<1> QED
  BY <1>2, <1>3, <1>4, <1>6 DEF t

LEMMA ZipNoEntry ==
  ASSUME NEW img \in DOMAIN Image, NEW p, p \notin Paths(img)
  PROVE  ZipNameLocate(img, p, TRUE) = None /\ LocateEntry(img, p) = None
<1> DEFINE D == {k \in DOMAIN Entries(img) :
                   Entries(img)[k].path = p /\ (Entries(img)[k].type = "dir") = TRUE}
           F == {k \in DOMAIN Entries(img) :
                   Entries(img)[k].path = p /\ (Entries(img)[k].type = "dir") = FALSE}
<1>1. D = {} /\ F = {}
  BY DEF Paths
<1>2. Numbered(D) = None /\ Numbered(F) = None
  BY <1>1 DEF Numbered
<1> QED
  BY <1>2 DEF ZipNameLocate, LocateEntry

-----------------------------------------------------------------------------
(* Listings.                                                               *)

Item == [name : Names, dir : BOOLEAN]

\* The entries a listing is made from: one for each path below the directory.
Listed(img, path) ==
  IF IsZip(img)
  THEN {i \in Below(img, path) : \A j \in 1 .. i - 1 : Entries(img)[j].path # Entries(img)[i].path}
  ELSE Below(img, path)

LEMMA ListedOnce ==
  ASSUME NEW img \in DOMAIN Image, NEW path
  PROVE  /\ Listed(img, path) \in SUBSET (1 .. Len(Entries(img)))
         /\ \A i \in Listed(img, path) : Parent(Entries(img)[i].path) = path
         /\ \A i, j \in Listed(img, path) : Entries(img)[i].path = Entries(img)[j].path => i = j
         /\ \A p \in Paths(img) : Parent(p) = path =>
              \E i \in Listed(img, path) : Entries(img)[i].path = p
<1>1. Below(img, path) \in SUBSET (1 .. Len(Entries(img)))
  BY ImageEntries DEF Below
<1>2. CASE ~IsZip(img)
  BY <1>1, <1>2, ImageEntries DEF Listed, Below, Paths
<1>3. CASE IsZip(img)
  <2>1. /\ Listed(img, path) \in SUBSET (1 .. Len(Entries(img)))
        /\ \A i \in Listed(img, path) : Parent(Entries(img)[i].path) = path
    BY <1>1, <1>3 DEF Listed, Below
  <2>2. ASSUME NEW i \in Listed(img, path), NEW j \in Listed(img, path),
               Entries(img)[i].path = Entries(img)[j].path
        PROVE  i = j
    <3>1. i \in Nat \ {0} /\ j \in Nat \ {0}
      BY <2>1
    <3>2. ~(i \in 1 .. j - 1) /\ ~(j \in 1 .. i - 1)
      BY <1>3, <2>2 DEF Listed
    <3> QED
      BY <3>1, <3>2
  <2>3. ASSUME NEW p \in Paths(img), Parent(p) = path
        PROVE  \E i \in Listed(img, path) : Entries(img)[i].path = p
    <3> DEFINE S == {k \in DOMAIN Entries(img) : Entries(img)[k].path = p}
    <3>1. S # {} /\ S \subseteq Nat /\ DOMAIN Entries(img) = 1 .. Len(Entries(img))
          /\ Len(Entries(img)) \in Nat
      BY ImageEntries DEF Paths
    <3>2. PICK i \in S : \A k \in S : i <= k
      BY <3>1, LeastOf
    <3>3. \A j \in 1 .. i - 1 : j \in DOMAIN Entries(img) /\ ~(i <= j)
      BY <3>1
    <3>4. \A j \in 1 .. i - 1 : Entries(img)[j].path # Entries(img)[i].path
      BY <3>2, <3>3
    <3>5. i \in Below(img, path)
      BY <2>3 DEF Below
    <3> QED
      BY <1>3, <3>4, <3>5 DEF Listed
  <2> QED
    BY <2>1, <2>2, <2>3
<1> QED
  BY <1>2, <1>3

\* A listing names each path below the directory once, with its type.
LEMMA ChildrenOf ==
  ASSUME NEW img \in DOMAIN Image, NEW path
  PROVE  /\ Children(img, path) \in Seq(Item)
         /\ \A k \in 1 .. Len(Children(img, path)) :
              LET p == Append(path, Children(img, path)[k].name)
              IN  /\ p \in Paths(img) /\ Parent(p) = path /\ Last(p) = Children(img, path)[k].name
                  /\ Children(img, path)[k].dir <=> TypeAt(img, p) = "dir"
         /\ \A p \in Paths(img) : Parent(p) = path =>
              \E k \in 1 .. Len(Children(img, path)) : Children(img, path)[k].name = Last(p)
         /\ \A k, l \in 1 .. Len(Children(img, path)) :
              Children(img, path)[k].name = Children(img, path)[l].name => k = l
<1> DEFINE S == Listed(img, path)
           n == Cardinality(S)
           A == Ascending(S)
           C == Children(img, path)
           At(k) == Entries(img)[A[k]]
<1>1. C = Listing(img, S)
  BY DEF Children, ZipChildren, TreeChildren, Listed
<1>2. /\ n \in Nat
      /\ \A k \in 1 .. n : A[k] \in S
      /\ \A i \in S : \E k \in 1 .. n : A[k] = i
      /\ \A k, l \in 1 .. n : A[k] = A[l] => k = l
  <2>1. Len(Entries(img)) \in Nat /\ S \in SUBSET (1 .. Len(Entries(img)))
    BY ImageEntries, ListedOnce
  <2> HIDE DEF S
  <2> QED
    BY <2>1, AscendingEnumerates
<1>3. C = [k \in 1 .. n |-> [name |-> Last(At(k).path), dir |-> At(k).type = "dir"]]
  BY <1>1 DEF Listing
<1>4. ASSUME NEW k \in 1 .. n
      PROVE  /\ A[k] \in DOMAIN Entries(img) /\ Parent(At(k).path) = path
             /\ At(k).path \in Seq(Names) /\ At(k).path # <<>>
             /\ Last(At(k).path) \in Names
             /\ Append(path, Last(At(k).path)) = At(k).path
             /\ At(k).path \in Paths(img)
  <2>1. A[k] \in S /\ A[k] \in DOMAIN Entries(img) /\ Parent(At(k).path) = path
    BY <1>2, ListedOnce, ImageEntries
  <2>2. At(k).path \in Seq(Names) /\ At(k).path # <<>>
    BY <2>1, ImageEntries
  <2>3. At(k).path \in Paths(img)
    BY <2>1 DEF Paths
  <2> QED
    BY <2>1, <2>2, <2>3, ParentOf
<1>5. \A k \in 1 .. n : C[k].name = Last(At(k).path) /\ (C[k].dir <=> At(k).type = "dir")
  <2> HIDE DEF C, A, n, At
  <2>1. \A k \in 1 .. n :
          C[k] = [name |-> Last(At(k).path), dir |-> At(k).type = "dir"]
    BY <1>3
  <2> SUFFICES ASSUME NEW k \in 1 .. n
               PROVE  C[k].name = Last(At(k).path) /\ (C[k].dir <=> At(k).type = "dir")
    OBVIOUS
  <2>2. C[k] = [name |-> Last(At(k).path), dir |-> At(k).type = "dir"]
    BY <2>1
  <2>3. C[k].name = Last(At(k).path)
    BY <2>2
  <2>4. C[k].dir = (At(k).type = "dir")
    BY <2>2
  <2> QED
    BY <2>3, <2>4
<1>6. C \in Seq(Item) /\ Len(C) = n
  <2>1. \A k \in 1 .. n : [name |-> Last(At(k).path), dir |-> At(k).type = "dir"] \in Item
    BY <1>4 DEF Item
  <2> HIDE DEF A, C, n, At
  <2>2. C \in [1 .. n -> Item]
    BY <1>3, <2>1
  <2> QED
    BY <1>2, <2>2
<1> HIDE DEF C, n
<1>7. ASSUME NEW k \in 1 .. n
      PROVE  LET p == Append(path, C[k].name)
             IN  /\ p \in Paths(img) /\ Parent(p) = path /\ Last(p) = C[k].name
                 /\ C[k].dir <=> TypeAt(img, p) = "dir"
  <2>1. TypeAt(img, At(k).path) = At(k).type
    BY <1>4, TypeOfEntry
  <2>2. Append(path, C[k].name) = At(k).path
    BY <1>4, <1>5
  <2>3. At(k).path \in Paths(img) /\ Parent(At(k).path) = path /\ Last(At(k).path) = C[k].name
    BY <1>4, <1>5
  <2> HIDE DEF A, At
  <2> QED
    BY <1>5, <2>1, <2>2, <2>3
<1>8. ASSUME NEW p \in Paths(img), Parent(p) = path
      PROVE  \E k \in 1 .. n : C[k].name = Last(p)
  <2>1. PICK i \in S : Entries(img)[i].path = p
    BY <1>8, ListedOnce
  <2>2. PICK k \in 1 .. n : A[k] = i
    BY <1>2
  <2> QED
    BY <1>5, <2>1, <2>2
<1>9. ASSUME NEW k \in 1 .. n, NEW l \in 1 .. n, C[k].name = C[l].name
      PROVE  k = l
  <2>1. At(k).path = At(l).path
    BY <1>4, <1>5, <1>9
  <2>2. A[k] = A[l]
    BY <1>2, <2>1, ListedOnce
  <2> QED
    BY <1>2, <2>2
<1> QED
  BY <1>6, <1>7, <1>8, <1>9 DEF C

-----------------------------------------------------------------------------
(* The answers of the backends.                                            *)

\* What is asked about the path of an entry is answered by its type.
LEMMA AnswersOfEntry ==
  ASSUME NEW img \in DOMAIN Image, NEW path \in Paths(img)
  PROVE  /\ Exists(img, path)
         /\ IsFile(img, path) <=> TypeAt(img, path) = "file"
         /\ ListErrno(img, path) = "OK" <=> TypeAt(img, path) = "dir"
         /\ OpenErrno(img, path) = "OK" <=> TypeAt(img, path) = "file"
         /\ TypeAt(img, path) = "dir" => IsDirectory(img, path)
         /\ IsDirectory(img, path) =>
              \/ TypeAt(img, path) = "dir"
              \/ \E p \in Paths(img) : p # path /\ IsPrefix(path, p)
         /\ Permissions(img, path) \in {"rw", "ro"}
         /\ TypeAt(img, path) \in {"file", "dir", "other"}
<1>1. PICK i \in DOMAIN Entries(img) : path = Entries(img)[i].path
  BY DEF Paths
<1>2. path # <<>> /\ Entries(img)[i].type \in {"file", "dir", "other"}
  BY <1>1, ImageEntries
<1>3. /\ TypeAt(img, path) = Entries(img)[i].type
      /\ LookupInode(img, path) \in DOMAIN Entries(img)
  BY <1>1, TypeOfEntry
<1>4. CASE IsZip(img)
  <2>1. /\ ZipNameLocate(img, path, TRUE) # None <=> TypeAt(img, path) = "dir"
        /\ LocateEntry(img, path) # None
        /\ Entries(img)[LocateEntry(img, path)].type = TypeAt(img, path)
    BY ZipEntry
  <2>2. TypeAt(img, path) # "other" /\ Image[img].backend = "zip"
    BY <1>3, <1>4, ImageEntries DEF IsZip
  <2>3. Exists(img, path)
    BY <1>4, <2>1 DEF Exists, ZipExists
  <2>4. IsFile(img, path) <=> TypeAt(img, path) = "file"
    BY <1>4, <2>1 DEF IsFile, ZipIsFile
  <2>5. ListErrno(img, path) = "OK" <=> TypeAt(img, path) = "dir"
    BY <1>2, <2>1, <2>2 DEF ListErrno, ZipListErrno
  <2>6. OpenErrno(img, path) = "OK" <=> TypeAt(img, path) = "file"
    BY <1>2, <1>3, <1>4, <2>1, <2>2 DEF OpenErrno, ZipOpenErrno
  <2>7. /\ TypeAt(img, path) = "dir" => IsDirectory(img, path)
        /\ IsDirectory(img, path) =>
             \/ TypeAt(img, path) = "dir"
             \/ \E p \in Paths(img) : p # path /\ IsPrefix(path, p)
    BY <1>2, <1>4, <2>1 DEF IsDirectory, ZipIsDirectory
  <2>8. Permissions(img, path) \in {"rw", "ro"}
    BY <1>4 DEF Permissions, ZipPermissions
  <2> QED
    BY <1>2, <1>3, <2>3, <2>4, <2>5, <2>6, <2>7, <2>8
<1>5. CASE ~IsZip(img)
  <2>1. Image[img].backend \in {"dwarfs", "squashfs"}
    BY <1>5, ImageEntries DEF IsZip
  <2>2. Exists(img, path)
    BY <1>2, <1>3, <1>5 DEF Exists, TreeExists
  <2>3. IsFile(img, path) <=> TypeAt(img, path) = "file"
    BY <1>5 DEF IsFile, TreeIsFile
  <2>4. IsDirectory(img, path) <=> TypeAt(img, path) = "dir"
    BY <1>5 DEF IsDirectory, TreeIsDirectory
  <2>5. ListErrno(img, path) = "OK" <=> TypeAt(img, path) = "dir"
    <3>1. CASE Image[img].backend = "dwarfs"
      BY <3>1 DEF ListErrno, DwarfsListErrno, TreeIsDirectory
    <3>2. CASE Image[img].backend = "squashfs"
      BY <3>2 DEF ListErrno, SquashListErrno, TreeIsDirectory, TreeExists
    <3> QED
      BY <2>1, <3>1, <3>2
  <2>6. OpenErrno(img, path) = "OK" <=> TypeAt(img, path) = "file"
    BY <1>5 DEF OpenErrno, TreeOpenErrno, TreeExists, TreeIsFile
  <2>7. Permissions(img, path) \in {"rw", "ro"}
    BY <1>3, <1>5, ImageEntries DEF Permissions, TreePermissions
  <2> QED
    BY <1>2, <1>3, <2>2, <2>3, <2>4, <2>5, <2>6, <2>7
<1> QED
  BY <1>4, <1>5

LEMMA AnswersOfRoot ==
  ASSUME NEW img \in DOMAIN Image
  PROVE  /\ Exists(img, <<>>) /\ IsDirectory(img, <<>>) /\ ListErrno(img, <<>>) = "OK"
         /\ ~IsFile(img, <<>>) /\ OpenErrno(img, <<>>) # "OK"
         /\ TypeAt(img, <<>>) = "dir"
<1>0. Image[img].backend \in {"zip", "dwarfs", "squashfs"}
  BY ImageEntries
<1>1. <<>> \notin Paths(img)
  BY PathsType
<1>2. LocateEntry(img, <<>>) = None
  BY <1>1, ZipNoEntry
<1>3. TypeAt(img, <<>>) = "dir"
  BY DEF TypeAt
<1>4. Exists(img, <<>>) /\ IsDirectory(img, <<>>)
  BY <1>3 DEF Exists, ZipExists, TreeExists, IsDirectory, ZipIsDirectory, TreeIsDirectory
<1>5. ~IsFile(img, <<>>)
  BY <1>2, <1>3 DEF IsFile, ZipIsFile, TreeIsFile
<1>6. OpenErrno(img, <<>>) # "OK"
  BY <1>2, <1>3 DEF OpenErrno, ZipOpenErrno, TreeOpenErrno, TreeExists, TreeIsFile
<1>7. ListErrno(img, <<>>) = "OK"
  <2>1. CASE Image[img].backend = "zip"
    BY <2>1 DEF ListErrno, ZipListErrno
  <2>2. CASE Image[img].backend = "dwarfs"
    BY <1>3, <2>2 DEF ListErrno, DwarfsListErrno, TreeIsDirectory
  <2>3. CASE Image[img].backend = "squashfs"
    BY <1>3, <2>3 DEF ListErrno, SquashListErrno, TreeIsDirectory, TreeExists
  <2> QED
    BY <1>0, <2>1, <2>2, <2>3
<1> QED
  BY <1>3, <1>4, <1>5, <1>6, <1>7

LEMMA AnswersOfNothing ==
  ASSUME NEW img \in DOMAIN Image, NEW path, path \notin Paths(img), path # <<>>
  PROVE  /\ ~Exists(img, path) /\ ListErrno(img, path) # "OK"
         /\ ~IsFile(img, path) /\ OpenErrno(img, path) # "OK"
<1>0. Image[img].backend \in {"zip", "dwarfs", "squashfs"}
  BY ImageEntries
<1>1. LocateEntry(img, path) = None /\ ZipNameLocate(img, path, TRUE) = None
  BY ZipNoEntry
<1>2. TypeAt(img, path) = "none"
  BY NoEntry
<1>3. ~Exists(img, path) /\ ~IsFile(img, path)
  BY <1>1, <1>2 DEF Exists, ZipExists, TreeExists, IsFile, ZipIsFile, TreeIsFile
<1>4. OpenErrno(img, path) # "OK"
  BY <1>1, <1>2 DEF OpenErrno, ZipOpenErrno, TreeOpenErrno, TreeExists
<1>5. ListErrno(img, path) # "OK"
  <2>1. CASE Image[img].backend = "zip"
    BY <1>1, <2>1 DEF ListErrno, ZipListErrno
  <2>2. CASE Image[img].backend = "dwarfs"
    BY <1>2, <2>2 DEF ListErrno, DwarfsListErrno, TreeIsDirectory
  <2>3. CASE Image[img].backend = "squashfs"
    BY <1>2, <2>3 DEF ListErrno, SquashListErrno, TreeExists
  <2> QED
    BY <1>0, <2>1, <2>2, <2>3
<1> QED
  BY <1>3, <1>4, <1>5

\* A path that lies above an anchored one is a directory.
LEMMA AboveAnchored ==
  ASSUME NEW img \in DOMAIN Image, NEW path \in Paths(img), NEW p \in Paths(img),
         Anchored(img, p), p # path, IsPrefix(path, p)
  PROVE  TypeAt(img, path) = "dir"
<1> DEFINE n == Len(path)
<1>1. path \in Seq(Names) /\ path # <<>> /\ p \in Seq(Names)
  BY PathsType
<1>2. n \in Nat /\ Len(p) \in Nat /\ n <= Len(p)
      /\ SubSeq(path, 1, n) = SubSeq(p, 1, n)
  BY <1>1, LenProperties DEF IsPrefix
<1>3. SubSeq(path, 1, n) = path
  BY <1>1, WholePrefix
<1>4. n # Len(p)
  <2>1. SubSeq(p, 1, Len(p)) = p
    BY <1>1, WholePrefix
  <2> QED
    BY <1>2, <1>3, <2>1, Zenon
<1>5. n \in 0 .. Len(p) - 1
  BY <1>2, <1>4
<1>6. HasDirectory(img, path)
  BY <1>2, <1>3, <1>5 DEF Anchored
<1> QED
  BY <1>6, TypeOfEntry DEF Paths

\* An image all of whose entries can be reached by directories answers
\* consistently.
LEMMA AnswersFit ==
  ASSUME NEW img \in DOMAIN Image, \A p \in Paths(img) : Anchored(img, p), NEW path
  PROVE  AnswersAt(img, path)
<1> DEFINE C == Children(img, path)
           Asked == /\ IsFile(img, path) <=> OpenErrno(img, path) = "OK"
                    /\ ListErrno(img, path) = "OK" => IsDirectory(img, path) /\ Exists(img, path)
                    /\ IsDirectory(img, path) /\ Exists(img, path) => ListErrno(img, path) = "OK"
                    /\ IsFile(img, path) => Exists(img, path) /\ ~IsDirectory(img, path)
<1>1. ASSUME NEW p \in Paths(img)
      PROVE  IsDirectory(img, p) <=> TypeAt(img, p) = "dir"
  BY AnswersOfEntry, AboveAnchored
<1>2. Asked
  <2>1. CASE path = <<>>
    BY <2>1, AnswersOfRoot
  <2>2. CASE path \in Paths(img)
    BY <1>1, <2>2, AnswersOfEntry
  <2>3. CASE path \notin Paths(img) /\ path # <<>>
    BY <2>3, AnswersOfNothing
  <2> QED
    BY <2>1, <2>2, <2>3
<1>3. ASSUME NEW i \in DOMAIN C
      PROVE  /\ Exists(img, Append(path, C[i].name))
             /\ IsDirectory(img, Append(path, C[i].name)) <=> C[i].dir
             /\ \A j \in DOMAIN C : C[j].name = C[i].name => j = i
  <2>1. DOMAIN C = 1 .. Len(C)
    BY ChildrenOf, LenProperties
  <2>2. /\ Append(path, C[i].name) \in Paths(img)
        /\ C[i].dir <=> TypeAt(img, Append(path, C[i].name)) = "dir"
        /\ \A j \in DOMAIN C : C[j].name = C[i].name => j = i
    BY <2>1, ChildrenOf
  <2> HIDE DEF C
  <2>3. /\ Exists(img, Append(path, C[i].name))
        /\ IsDirectory(img, Append(path, C[i].name)) <=> TypeAt(img, Append(path, C[i].name)) = "dir"
    BY <1>1, <2>2, AnswersOfEntry
  <2> QED
    BY <2>2, <2>3
<1>4. ASSUME path # <<>>, Exists(img, path)
      PROVE  \E i \in DOMAIN Children(img, Parent(path)) :
               Children(img, Parent(path))[i].name = Last(path)
  <2>1. path \in Paths(img)
    BY <1>4, AnswersOfNothing
  <2>2. DOMAIN Children(img, Parent(path)) = 1 .. Len(Children(img, Parent(path)))
    BY ChildrenOf, LenProperties
  <2> QED
    BY <2>1, <2>2, ChildrenOf
<1>5. \A i \in DOMAIN C : C[i] \in Item
  BY ChildrenOf, ElementOfSeq, LenProperties
<1>6. ASSUME NEW i \in DOMAIN C
      PROVE  IsDirectory(img, Append(path, C[i].name)) = C[i].dir
  <2>1. IsDirectory(img, Append(path, C[i].name)) \in BOOLEAN
    BY DEF IsDirectory, ZipIsDirectory, TreeIsDirectory
  <2>2. C[i].dir \in BOOLEAN
    BY <1>5 DEF Item
  <2> QED
    BY <1>3, <2>1, <2>2
<1>7. IsFile(img, path) = (OpenErrno(img, path) = "OK")
  <2>1. IsFile(img, path) \in BOOLEAN
    BY DEF IsFile, ZipIsFile, TreeIsFile
  <2> QED
    BY <1>2, <2>1
<1> QED
  BY <1>2, <1>3, <1>4, <1>6, <1>7 DEF AnswersAt

-----------------------------------------------------------------------------
(* Mount tables, and the hosts of their paths.                             *)

Mounts == Seq([base : Names, image : DOMAIN Image])
RootIn(T, k) == IF Len(T) = 1 THEN <<>> ELSE <<T[k].base>>
HostIn(T, k, path) == RootIn(T, k) \o path
WantedIn(T, k) == {p \in Paths(T[k].image) : Anchored(T[k].image, p)}
TypeIn(T, k, path) == TypeAt(T[k].image, path)
ApartIn(T) == \A j, k \in DOMAIN T : j # k => T[j].base # T[k].base

\* A directory whose listing is extracted.
Branch(T, k, path) == path = <<>> \/ (path \in WantedIn(T, k) /\ TypeIn(T, k, path) = "dir")

LEMMA Singleton ==
  ASSUME NEW S, NEW e \in S
  PROVE  <<e>> \in Seq(S) /\ <<e>> # <<>> /\ Len(<<e>>) = 1 /\ <<e>>[1] = e
OBVIOUS

LEMMA MountOf ==
  ASSUME NEW T \in Mounts, NEW k \in DOMAIN T
  PROVE  /\ Len(T) \in Nat /\ DOMAIN T = 1 .. Len(T)
         /\ T[k].base \in Names /\ T[k].image \in DOMAIN Image
         /\ RootIn(T, k) \in Seq(Names)
         /\ Len(T) # 1 => Parent(RootIn(T, k)) = <<>> /\ RootIn(T, k) # <<>>
<1>1. Len(T) \in Nat /\ DOMAIN T = 1 .. Len(T)
  BY LenProperties DEF Mounts
<1>2. T[k] \in [base : Names, image : DOMAIN Image]
  BY <1>1, ElementOfSeq DEF Mounts
<1>3. T[k].base \in Names
  BY <1>2
<1> DEFINE b == <<T[k].base>>
<1>4. b \in Seq(Names) /\ b # <<>> /\ Len(b) = 1
  BY <1>3, Singleton
<1>5. <<>> \in Seq(Names) /\ Len(<<>>) = 0
  BY EmptySeq
<1> HIDE DEF b
<1>6. Parent(b) \in Seq(Names) /\ Len(Parent(b)) = 0
  BY <1>4, ParentOf
<1>7. Parent(b) = <<>>
  BY <1>6, EmptySeq
<1> QED
  BY <1>1, <1>2, <1>4, <1>5, <1>7 DEF RootIn, b

LEMMA WantedPath ==
  ASSUME NEW T \in Mounts, NEW k \in DOMAIN T, NEW p \in WantedIn(T, k)
  PROVE  /\ p \in Seq(Names) /\ p # <<>> /\ p \in Paths(T[k].image)
         /\ \A n \in 0 .. Len(p) - 1 : HasDirectory(T[k].image, SubSeq(p, 1, n))
<1>1. p \in Paths(T[k].image) /\ Anchored(T[k].image, p)
  BY DEF WantedIn
<1> QED
  BY <1>1, MountOf, PathsType DEF Anchored

\* The host of an entry lies in the host of its directory.
LEMMA HostChild ==
  ASSUME NEW T \in Mounts, NEW k \in DOMAIN T, NEW p \in Seq(Names), NEW e \in Names
  PROVE  /\ HostIn(T, k, p) \in Seq(Names)
         /\ HostIn(T, k, Append(p, e)) = Append(HostIn(T, k, p), e)
         /\ Parent(HostIn(T, k, Append(p, e))) = HostIn(T, k, p)
         /\ HostIn(T, k, Append(p, e)) # <<>>
         /\ HostIn(T, k, Append(p, e)) \in Seq(Names)
<1> DEFINE r == RootIn(T, k)
<1>1. r \in Seq(Names)
  BY MountOf
<1>2. <<e>> \in Seq(Names)
  BY Singleton
<1>3. r \o p \in Seq(Names)
  BY <1>1, ConcatProperties
<1> HIDE DEF r
<1>4. Append(p, e) = p \o <<e>>
  BY AppendIsConcat
<1>5. (r \o p) \o <<e>> = r \o (p \o <<e>>)
  <2>1. Associates(r, p, <<e>>)
    BY <1>1, <1>2, ConcatsAssociate
  <2> QED
    BY <2>1 DEF Associates
<1>6. Append(r \o p, e) = (r \o p) \o <<e>>
  BY <1>3, AppendIsConcat
<1>7. r \o Append(p, e) = Append(r \o p, e)
  BY <1>4, <1>5, <1>6
<1>8. /\ Parent(Append(r \o p, e)) = r \o p /\ Append(r \o p, e) # <<>>
      /\ Append(r \o p, e) \in Seq(Names)
  BY <1>3, ChildOf
<1> QED
  BY <1>3, <1>7, <1>8 DEF HostIn, r

LEMMA HostRoot ==
  ASSUME NEW T \in Mounts, NEW k \in DOMAIN T
  PROVE  HostIn(T, k, <<>>) = RootIn(T, k)
BY MountOf, ConcatEmptySeq DEF HostIn

\* Mounts with different names share no host.
LEMMA HostDistinct ==
  ASSUME NEW T \in Mounts, ApartIn(T), NEW k \in DOMAIN T, NEW l \in DOMAIN T,
         NEW p \in Seq(Names), NEW q \in Seq(Names), HostIn(T, k, p) = HostIn(T, l, q)
  PROVE  k = l /\ p = q
<1>1. RootIn(T, k) \in Seq(Names) /\ RootIn(T, l) \in Seq(Names)
  BY MountOf
<1>2. k = l
  <2>1. CASE Len(T) = 1
    BY <2>1, MountOf
  <2>2. CASE Len(T) # 1
    <3> DEFINE b == <<T[k].base>>
               c == <<T[l].base>>
    <3>1. /\ b \in Seq(Names) /\ Len(b) = 1 /\ b[1] = T[k].base
          /\ c \in Seq(Names) /\ Len(c) = 1 /\ c[1] = T[l].base
      BY MountOf, Singleton
    <3>2. b \o p = c \o q
      BY <2>2 DEF HostIn, RootIn
    <3>3. Len(p) \in Nat /\ Len(q) \in Nat
      BY LenProperties
    <3> HIDE DEF b, c
    <3>4. 1 \in 1 .. Len(b) + Len(p) /\ 1 \in 1 .. Len(c) + Len(q)
      BY <3>1, <3>3
    <3>5. (b \o p)[1] = b[1] /\ (c \o q)[1] = c[1]
      <4>1. (b \o p)[1] = b[1]
        BY <3>1, FirstOfConcat
      <4>2. (c \o q)[1] = c[1]
        BY <3>1, FirstOfConcat
      <4> QED
        BY <4>1, <4>2
    <3> QED
      BY <3>1, <3>2, <3>5 DEF ApartIn
  <2> QED
    BY <2>1, <2>2
<1>3. RootIn(T, k) \o p = RootIn(T, k) \o q
  BY <1>2 DEF HostIn
<1>4. \A U : \A u, v, w \in Seq(U) : u \o v = u \o w => v = w
  BY ConcatSimplifications
<1> QED
  BY <1>1, <1>2, <1>3, <1>4

\* The entries of a branch are wanted.
LEMMA BelowBranch ==
  ASSUME NEW T \in Mounts, NEW k \in DOMAIN T, NEW path, Branch(T, k, path),
         NEW p \in Paths(T[k].image), Parent(p) = path
  PROVE  p \in WantedIn(T, k)
<1> DEFINE img == T[k].image
<1>1. img \in DOMAIN Image
  BY MountOf
<1>2. p \in Seq(Names) /\ p # <<>>
  BY <1>1, PathsType
<1>3. /\ Len(p) \in Nat \ {0} /\ Len(path) = Len(p) - 1 /\ path \in Seq(Names)
  BY <1>2, ParentOf
<1>4. path = SubSeq(p, 1, Len(p) - 1)
  BY DEF Parent, Front
<1>5. HasDirectory(img, path)
  <2>1. CASE path = <<>>
    BY <2>1 DEF HasDirectory
  <2>2. CASE path \in WantedIn(T, k) /\ TypeIn(T, k, path) = "dir"
    <3>1. PICK i \in DOMAIN Entries(img) : path = Entries(img)[i].path
      BY <2>2 DEF WantedIn, Paths
    <3> QED
      BY <1>1, <2>2, <3>1, TypeOfEntry DEF TypeIn
  <2> QED
    BY <2>1, <2>2 DEF Branch
<1>6. ASSUME NEW n \in 0 .. Len(p) - 1
      PROVE  HasDirectory(img, SubSeq(p, 1, n))
  <2>1. CASE n = Len(p) - 1
    BY <1>4, <1>5, <2>1
  <2>2. CASE n # Len(p) - 1
    <3>1. n \in 0 .. Len(path) - 1 /\ Len(p) - 1 \in 0 .. Len(p) /\ n \in 0 .. Len(p) - 1
      BY <1>3, <2>2
    <3>2. SubSeq(path, 1, n) = SubSeq(p, 1, n)
      BY <1>2, <1>4, <3>1, PrefixOfPrefix
    <3>3. path # <<>>
      BY <3>1, EmptySeq
    <3>4. path \in WantedIn(T, k)
      BY <3>3 DEF Branch
    <3> QED
      BY <3>1, <3>2, <3>4, WantedPath
  <2> QED
    BY <2>1, <2>2
<1> QED
  BY <1>6 DEF WantedIn, Anchored

\* A wanted path is reached by listings from the root.
LEMMA OneDown ==
  ASSUME NEW T \in Mounts, NEW k \in DOMAIN T, NEW p \in WantedIn(T, k),
         NEW n \in 0 .. Len(p) - 1
  PROVE  /\ SubSeq(p, 1, n + 1) \in Paths(T[k].image)
         /\ Parent(SubSeq(p, 1, n + 1)) = SubSeq(p, 1, n)
         /\ n + 1 \in 1 .. Len(p)
<1> DEFINE q == SubSeq(p, 1, n + 1)
<1>1. p \in Seq(Names) /\ p # <<>> /\ p \in Paths(T[k].image)
  BY WantedPath
<1>2. Len(p) \in Nat \ {0} /\ n \in 0 .. Len(p) /\ n < Len(p) /\ n + 1 \in 0 .. Len(p)
  BY <1>1, ParentOf
<1>3. p[n + 1] \in Names /\ q = Append(SubSeq(p, 1, n), p[n + 1]) /\ SubSeq(p, 1, n) \in Seq(Names)
  BY <1>1, <1>2, LongerPrefix, PrefixOf
<1> HIDE DEF q
<1>4. Parent(q) = SubSeq(p, 1, n) /\ q # <<>>
  BY <1>3, ChildOf
<1>5. q \in Paths(T[k].image)
  <2>1. CASE n + 1 = Len(p)
    BY <1>1, <2>1, WholePrefix DEF q
  <2>2. CASE n + 1 # Len(p)
    <3>1. n + 1 \in 0 .. Len(p) - 1
      BY <1>2, <2>2
    <3>2. HasDirectory(T[k].image, q)
      BY <3>1, WantedPath DEF q
    <3> QED
      BY <1>4, <3>2 DEF HasDirectory, Paths
  <2> QED
    BY <2>1, <2>2
<1> QED
  BY <1>2, <1>4, <1>5 DEF q

-----------------------------------------------------------------------------
(* The active calls.                                                       *)

Frames == [image : DOMAIN Image, path : Seq(Names), host : Seq(Names), left : Seq(Item)]
Stacks == Seq(Frames)

\* An entry that some active call has still to take, and a path below one.
Waits(s, p) ==
  \E j \in DOMAIN s : \E i \in DOMAIN s[j].left : p = Append(s[j].path, s[j].left[i].name)
Awaited(s, path) == \E n \in 1 .. Len(path) : Waits(s, SubSeq(path, 1, n))

\* The calls follow a branch of the m-th mount, innermost first, and none waits
\* for an entry that leads to one of them.
FrameFits(T, m, f) ==
  /\ f.image = T[m].image
  /\ Branch(T, m, f.path)
  /\ f.host = HostIn(T, m, f.path)
  /\ \A i \in DOMAIN f.left :
       LET p == Append(f.path, f.left[i].name)
       IN  p \in WantedIn(T, m) /\ (f.left[i].dir <=> TypeIn(T, m, p) = "dir")
  /\ \A i, l \in DOMAIN f.left : f.left[i].name = f.left[l].name => i = l
Nested(T, m, s) ==
  /\ \A j \in DOMAIN s :
       /\ FrameFits(T, m, s[j])
       /\ Len(s[j].path) = Len(s) - j
       /\ j < Len(s) => Parent(s[j].path) = s[j + 1].path
  /\ \A j \in DOMAIN s : ~Awaited(s, s[j].path)

ConsumedOf(s) == <<[s[1] EXCEPT !.left = Tail(@)]>> \o Tail(s)
FromOf(s) == Append(s[1].path, Head(s[1].left).name)

LEMMA PushProperties ==
  ASSUME NEW S, NEW f \in S, NEW s \in Seq(S)
  PROVE  /\ <<f>> \o s \in Seq(S) /\ Len(<<f>> \o s) = Len(s) + 1
         /\ (<<f>> \o s)[1] = f
         /\ \A j \in 1 .. Len(s) : (<<f>> \o s)[j + 1] = s[j]
         /\ Len(s) \in Nat
<1> DEFINE g == <<f>>
           r == g \o s
<1>1. g \in Seq(S) /\ Len(g) = 1 /\ g[1] = f
  BY Singleton
<1>2. Len(s) \in Nat
  BY LenProperties
<1> HIDE DEF g
<1>3. /\ r \in Seq(S) /\ Len(r) = 1 + Len(s)
      /\ \A i \in 1 .. 1 + Len(s) : r[i] = IF i <= 1 THEN g[i] ELSE s[i - 1]
  <2>1. /\ r \in Seq(S) /\ Len(r) = Len(g) + Len(s)
        /\ \A i \in 1 .. Len(g) + Len(s) : r[i] = IF i <= Len(g) THEN g[i] ELSE s[i - Len(g)]
    BY <1>1, ConcatProperties
  <2> HIDE DEF r
  <2> QED
    BY <1>1, <2>1
<1> HIDE DEF r
<1>4. ASSUME NEW j \in 1 .. Len(s)
      PROVE  r[j + 1] = s[j]
  <2>1. j + 1 \in 1 .. 1 + Len(s) /\ ~(j + 1 <= 1) /\ (j + 1) - 1 = j
    BY <1>2
  <2>2. r[j + 1] = s[(j + 1) - 1]
    BY <1>3, <2>1
  <2> QED
    BY <2>1, <2>2
<1>5. r[1] = f
  BY <1>1, <1>2, <1>3
<1> QED
  BY <1>2, <1>3, <1>4, <1>5 DEF g, r

LEMMA ConsumedShape ==
  ASSUME NEW s \in Stacks, s # <<>>, s[1].left # <<>>
  PROVE  /\ ConsumedOf(s) \in Stacks /\ Len(ConsumedOf(s)) = Len(s) /\ Len(s) \in Nat \ {0}
         /\ ConsumedOf(s)[1] = [s[1] EXCEPT !.left = Tail(@)]
         /\ \A j \in 2 .. Len(s) : ConsumedOf(s)[j] = s[j]
<1> DEFINE f == [s[1] EXCEPT !.left = Tail(@)]
           t == Tail(s)
<1>1. Len(s) \in Nat \ {0} /\ 1 \in 1 .. Len(s)
  BY EmptySeq DEF Stacks
<1>2. s[1] \in Frames
  BY <1>1, ElementOfSeq DEF Stacks
<1>3. f \in Frames
  <2>1. Tail(s[1].left) \in Seq(Item)
    BY <1>2, HeadTailProperties DEF Frames
  <2> QED
    BY <1>2, <2>1 DEF Frames
<1>4. t \in Seq(Frames) /\ Len(t) = Len(s) - 1 /\ \A i \in 1 .. Len(t) : t[i] = s[i + 1]
  <2>1. s \in Seq(Frames)
    BY DEF Stacks
  <2> HIDE DEF f
  <2> QED
    BY <2>1, HeadTailProperties
<1> HIDE DEF f, t
<1>5. /\ <<f>> \o t \in Stacks /\ Len(<<f>> \o t) = Len(t) + 1
      /\ (<<f>> \o t)[1] = f
      /\ \A j \in 1 .. Len(t) : (<<f>> \o t)[j + 1] = t[j]
  BY <1>3, <1>4, PushProperties DEF Stacks
<1>6. ASSUME NEW j \in 2 .. Len(s)
      PROVE  (<<f>> \o t)[j] = s[j]
  <2>1. j - 1 \in 1 .. Len(t) /\ (j - 1) + 1 = j
    BY <1>1, <1>4
  <2> QED
    BY <1>4, <1>5, <2>1
<1> QED
  BY <1>1, <1>4, <1>5, <1>6 DEF ConsumedOf, f, t

\* The entry that the innermost call takes is taken from the front of its list.
LEMMA LeftShape ==
  ASSUME NEW s \in Stacks, s # <<>>, s[1].left # <<>>
  PROVE  /\ 1 \in DOMAIN s /\ DOMAIN s = 1 .. Len(s) /\ s[1] \in Frames
         /\ 1 \in DOMAIN s[1].left /\ Head(s[1].left) = s[1].left[1]
         /\ DOMAIN Tail(s[1].left) = 1 .. Len(s[1].left) - 1
         /\ DOMAIN s[1].left = 1 .. Len(s[1].left) /\ Len(s[1].left) \in Nat \ {0}
         /\ \A i \in DOMAIN Tail(s[1].left) : Tail(s[1].left)[i] = s[1].left[i + 1]
         /\ s[1].left[1] \in Item
<1>1. Len(s) \in Nat \ {0} /\ DOMAIN s = 1 .. Len(s)
  BY EmptySeq, LenProperties DEF Stacks
<1>2. s[1] \in Frames
  BY <1>1, ElementOfSeq DEF Stacks
<1> DEFINE l == s[1].left
<1>3. l \in Seq(Item)
  BY <1>2 DEF Frames
<1> HIDE DEF l
<1>4. l # <<>>
  BY DEF l
<1>5. Len(l) \in Nat \ {0} /\ DOMAIN l = 1 .. Len(l)
  BY <1>3, <1>4, EmptySeq, LenProperties
<1>6. /\ Tail(l) \in Seq(Item) /\ Len(Tail(l)) = Len(l) - 1
      /\ \A i \in 1 .. Len(Tail(l)) : Tail(l)[i] = l[i + 1]
  BY <1>3, <1>4, HeadTailProperties
<1>7. DOMAIN Tail(l) = 1 .. Len(Tail(l))
  BY <1>6, LenProperties
<1>8. Head(l) = l[1] /\ l[1] \in Item
  BY <1>3, <1>5, ElementOfSeq
<1> QED
  BY <1>1, <1>2, <1>5, <1>6, <1>7, <1>8 DEF l

\* The entry that is taken leads to a wanted path.
LEMMA FromIs ==
  ASSUME NEW T \in Mounts, NEW m \in DOMAIN T, NEW s \in Stacks, s # <<>>, s[1].left # <<>>,
         Nested(T, m, s)
  PROVE  /\ FromOf(s) \in WantedIn(T, m) /\ Waits(s, FromOf(s))
         /\ Head(s[1].left).dir <=> TypeIn(T, m, FromOf(s)) = "dir"
         /\ Head(s[1].left).name \in Names /\ s[1].path \in Seq(Names)
         /\ Parent(FromOf(s)) = s[1].path /\ Len(FromOf(s)) = Len(s[1].path) + 1
         /\ FromOf(s) \in Seq(Names) /\ FromOf(s) \in Paths(T[m].image) /\ FromOf(s) # <<>>
         /\ s[1].image = T[m].image /\ s[1].host = HostIn(T, m, s[1].path)
         /\ Append(s[1].host, Head(s[1].left).name) = HostIn(T, m, FromOf(s))
         /\ Parent(HostIn(T, m, FromOf(s))) = s[1].host /\ HostIn(T, m, FromOf(s)) \in Seq(Names)
         /\ HostIn(T, m, FromOf(s)) # <<>>
<1>1. /\ 1 \in DOMAIN s /\ s[1] \in Frames /\ 1 \in DOMAIN s[1].left
      /\ Head(s[1].left) = s[1].left[1] /\ s[1].left[1] \in Item
  BY LeftShape
<1>2. FrameFits(T, m, s[1])
  BY <1>1 DEF Nested
<1>3. FromOf(s) = Append(s[1].path, s[1].left[1].name)
  BY <1>1 DEF FromOf
<1>4. /\ FromOf(s) \in WantedIn(T, m)
      /\ s[1].left[1].dir <=> TypeIn(T, m, FromOf(s)) = "dir"
  BY <1>1, <1>2, <1>3 DEF FrameFits
<1>5. Waits(s, FromOf(s))
  BY <1>1, <1>3 DEF Waits
<1>6. s[1].left[1].name \in Names /\ s[1].path \in Seq(Names)
  BY <1>1 DEF Item, Frames
<1>7. Parent(FromOf(s)) = s[1].path /\ Len(FromOf(s)) = Len(s[1].path) + 1
  BY <1>3, <1>6, ChildOf
<1>8. s[1].image = T[m].image /\ s[1].host = HostIn(T, m, s[1].path)
  BY <1>2 DEF FrameFits
<1>9. /\ HostIn(T, m, FromOf(s)) = Append(s[1].host, s[1].left[1].name)
      /\ Parent(HostIn(T, m, FromOf(s))) = s[1].host
      /\ HostIn(T, m, FromOf(s)) # <<>> /\ HostIn(T, m, FromOf(s)) \in Seq(Names)
  BY <1>3, <1>6, <1>8, HostChild
<1>10. FromOf(s) \in Seq(Names) /\ FromOf(s) \in Paths(T[m].image) /\ FromOf(s) # <<>>
  BY <1>4, WantedPath
<1>11. Append(s[1].host, Head(s[1].left).name) = HostIn(T, m, FromOf(s))
  BY <1>1, <1>9
<1> QED
  BY <1>1, <1>4, <1>5, <1>6, <1>7, <1>8, <1>9, <1>10, <1>11

\* Taking it is all that changes in what the calls wait for.
LEMMA ConsumedWaits ==
  ASSUME NEW T \in Mounts, NEW m \in DOMAIN T, NEW s \in Stacks, s # <<>>, s[1].left # <<>>,
         Nested(T, m, s), NEW p
  PROVE  Waits(ConsumedOf(s), p) <=> Waits(s, p) /\ p # FromOf(s)
<1> DEFINE c == ConsumedOf(s)
           l == s[1].left
<1>1. /\ DOMAIN s = 1 .. Len(s) /\ Len(s) \in Nat \ {0} /\ 1 \in DOMAIN s /\ s[1] \in Frames
      /\ 1 \in DOMAIN l /\ Head(l) = l[1] /\ DOMAIN l = 1 .. Len(l) /\ Len(l) \in Nat \ {0}
      /\ DOMAIN Tail(l) = 1 .. Len(l) - 1
      /\ \A i \in DOMAIN Tail(l) : Tail(l)[i] = l[i + 1]
  BY LeftShape, ConsumedShape
<1>2. DOMAIN c = 1 .. Len(s)
  <2>1. c \in Seq(Frames) /\ Len(c) = Len(s)
    BY ConsumedShape DEF Stacks
  <2> HIDE DEF c
  <2> QED
    BY <2>1, LenProperties
<1>3. /\ c[1].path = s[1].path /\ c[1].left = Tail(l)
      /\ \A j \in 2 .. Len(s) : c[j] = s[j]
  <2>1. c[1] = [s[1] EXCEPT !.left = Tail(@)] /\ \A j \in 2 .. Len(s) : c[j] = s[j]
    BY ConsumedShape
  <2> HIDE DEF c
  <2> QED
    BY <1>1, <2>1 DEF Frames
<1>4. FromOf(s) = Append(s[1].path, l[1].name)
  BY <1>1 DEF FromOf
<1>5. \A j \in DOMAIN s : /\ \A i \in DOMAIN s[j].left : s[j].left[i] \in Item
                          /\ s[j].path \in Seq(Names) /\ Len(s[j].path) = Len(s) - j
  <2> SUFFICES ASSUME NEW j \in DOMAIN s
               PROVE  /\ \A i \in DOMAIN s[j].left : s[j].left[i] \in Item
                      /\ s[j].path \in Seq(Names) /\ Len(s[j].path) = Len(s) - j
    OBVIOUS
  <2>1. s[j] \in Frames
    BY <1>1, ElementOfSeq DEF Stacks
  <2>2. s[j].left \in Seq(Item) /\ s[j].path \in Seq(Names)
    BY <2>1 DEF Frames
  <2> QED
    BY <2>2, LenProperties, ElementOfSeq DEF Nested
<1> HIDE DEF c
<1>6. ASSUME Waits(c, p)
      PROVE  Waits(s, p) /\ p # FromOf(s)
  <2>0. PICK j \in DOMAIN c : \E i \in DOMAIN c[j].left : p = Append(c[j].path, c[j].left[i].name)
    BY <1>6 DEF Waits
  <2>1. PICK i \in DOMAIN c[j].left : p = Append(c[j].path, c[j].left[i].name)
    BY <2>0
  <2>2. CASE j = 1
    <3>0. i \in DOMAIN Tail(l)
      BY <1>3, <2>1, <2>2
    <3> HIDE DEF l
    <3>1. i \in DOMAIN Tail(l) /\ i + 1 \in DOMAIN l /\ i + 1 # 1
      BY <1>1, <3>0
    <3> USE DEF l
    <3>2. p = Append(s[1].path, l[i + 1].name)
      BY <1>1, <1>3, <2>1, <2>2, <3>1
    <3>3. Waits(s, p)
      BY <1>1, <3>1, <3>2 DEF Waits
    <3>4. l[i + 1].name # l[1].name
      <4>1. FrameFits(T, m, s[1])
        BY <1>1 DEF Nested
      <4> QED
        BY <1>1, <3>1, <4>1 DEF FrameFits
    <3>5. s[1].path \in Seq(Names) /\ l[i + 1].name \in Names /\ l[1].name \in Names
      BY <1>1, <1>5, <3>1 DEF Item
    <3> DEFINE v == s[1].path
               x == l[i + 1].name
               y == l[1].name
    <3>6. v \in Seq(Names) /\ x \in Names /\ y \in Names /\ x # y
      BY <3>4, <3>5
    <3>7. p = Append(v, x) /\ FromOf(s) = Append(v, y)
      BY <1>4, <3>2
    <3> HIDE DEF v, x, y
    <3>8. Append(v, x) # Append(v, y)
      BY <3>6, AppendInjective
    <3>9. p # FromOf(s)
      BY <3>7, <3>8
    <3> QED
      BY <3>3, <3>9
  <2>3. CASE j # 1
    <3>1. j \in 2 .. Len(s) /\ j \in DOMAIN s /\ 1 \in DOMAIN s
      BY <1>1, <1>2, <2>1, <2>3
    <3>2. i \in DOMAIN s[j].left /\ p = Append(s[j].path, s[j].left[i].name)
      BY <1>3, <2>1, <3>1
    <3>3. Waits(s, p)
      BY <3>1, <3>2 DEF Waits
    <3>t. s[j].left[i] \in Item /\ l[1] \in Item
      BY <1>1, <1>5, <3>1, <3>2, Zenon
    <3>4. s[j].path \in Seq(Names) /\ s[j].left[i].name \in Names
          /\ s[1].path \in Seq(Names) /\ l[1].name \in Names
          /\ Len(s[j].path) = Len(s) - j /\ Len(s[1].path) = Len(s) - 1
      <4>1. s[j].left[i].name \in Names /\ l[1].name \in Names
        BY <3>t DEF Item
      <4> QED
        BY <1>1, <1>5, <3>1, <4>1, Zenon
    <3>5. s[j].path # s[1].path
      <4>1. Len(s) - j # Len(s) - 1
        BY <1>1, <3>1
      <4> QED
        BY <3>4, <4>1
    <3> DEFINE u == s[j].path
               v == s[1].path
               x == s[j].left[i].name
               y == l[1].name
    <3>6. u \in Seq(Names) /\ v \in Seq(Names) /\ x \in Names /\ y \in Names /\ u # v
      BY <3>4, <3>5
    <3>8. p = Append(u, x) /\ FromOf(s) = Append(v, y)
      BY <1>4, <3>2
    <3> HIDE DEF u, v, x, y
    <3>7. Append(u, x) # Append(v, y)
      BY <3>6, AppendInjective
    <3>9. p # FromOf(s)
      BY <3>7, <3>8
    <3> QED
      BY <3>3, <3>9
  <2> QED
    BY <2>2, <2>3
<1>7. ASSUME Waits(s, p), p # FromOf(s)
      PROVE  Waits(c, p)
  <2>0. PICK j \in DOMAIN s : \E i \in DOMAIN s[j].left : p = Append(s[j].path, s[j].left[i].name)
    BY <1>7 DEF Waits
  <2>1. PICK i \in DOMAIN s[j].left : p = Append(s[j].path, s[j].left[i].name)
    BY <2>0
  <2>2. CASE j = 1
    <3>1. i \in DOMAIN l /\ i # 1
      BY <1>4, <1>7, <2>1, <2>2
    <3>2. i - 1 \in DOMAIN Tail(l) /\ (i - 1) + 1 = i
      BY <1>1, <3>1
    <3>3. Tail(l)[i - 1] = l[i]
      BY <1>1, <3>2
    <3>4. 1 \in DOMAIN c
      BY <1>1, <1>2
    <3>5. /\ i - 1 \in DOMAIN c[1].left
          /\ p = Append(c[1].path, c[1].left[i - 1].name)
      BY <1>3, <2>1, <2>2, <3>2, <3>3
    <3> HIDE DEF c
    <3> QED
      BY <3>4, <3>5 DEF Waits
  <2>3. CASE j # 1
    <3>1. j \in 2 .. Len(s) /\ j \in DOMAIN c
      BY <1>1, <1>2, <2>1, <2>3
    <3> QED
      BY <1>3, <2>1, <3>1 DEF Waits
  <2> QED
    BY <2>2, <2>3
<1> QED
  BY <1>6, <1>7 DEF c

\* A new call waits for the entries of its directory.
LEMMA NewFrame ==
  ASSUME NEW img \in DOMAIN Image, NEW path \in Seq(Names), NEW host \in Seq(Names), NEW f,
         f = Frame(img, path, host)
  PROVE  /\ f \in Frames /\ f.image = img /\ f.path = path /\ f.host = host
         /\ f.left = Children(img, path) /\ DOMAIN f.left = 1 .. Len(f.left)
         /\ \A p : (\E i \in DOMAIN f.left : p = Append(path, f.left[i].name))
                     <=> p \in Paths(img) /\ Parent(p) = path
<1> DEFINE C == Children(img, path)
<1>1. C \in Seq(Item)
  BY ChildrenOf
<1>2. DOMAIN C = 1 .. Len(C)
  BY <1>1, LenProperties
<1>3. ASSUME NEW k \in 1 .. Len(C)
      PROVE  Append(path, C[k].name) \in Paths(img) /\ Parent(Append(path, C[k].name)) = path
  BY ChildrenOf
<1>4. ASSUME NEW p \in Paths(img), Parent(p) = path
      PROVE  \E k \in 1 .. Len(C) : p = Append(path, C[k].name)
  <2>1. PICK k \in 1 .. Len(C) : C[k].name = Last(p)
    BY <1>4, ChildrenOf
  <2>2. p = Append(path, Last(p))
    BY <1>4, PathsType, ParentOf
  <2> QED
    BY <2>1, <2>2
<1> HIDE DEF C
<1>5. f = [image |-> img, path |-> path, host |-> host, left |-> C]
  BY DEF Frame, C
<1>6. f \in Frames /\ f.image = img /\ f.path = path /\ f.host = host /\ f.left = C
  BY <1>1, <1>5 DEF Frames
<1>7. ASSUME NEW p
      PROVE  (\E i \in DOMAIN C : p = Append(path, C[i].name)) <=> p \in Paths(img) /\ Parent(p) = path
  BY <1>2, <1>3, <1>4
<1> QED
  BY <1>2, <1>6, <1>7 DEF C

LEMMA PushedWaits ==
  ASSUME NEW f \in Frames, NEW s \in Stacks, NEW p
  PROVE  Waits(<<f>> \o s, p) <=>
           Waits(s, p) \/ \E i \in DOMAIN f.left : p = Append(f.path, f.left[i].name)
<1> DEFINE e == <<f>> \o s
<1>1. /\ e \in Stacks /\ Len(e) = Len(s) + 1 /\ e[1] = f /\ Len(s) \in Nat
      /\ \A j \in 1 .. Len(s) : e[j + 1] = s[j]
  BY PushProperties DEF Stacks
<1>2. DOMAIN e = 1 .. Len(s) + 1 /\ DOMAIN s = 1 .. Len(s)
  BY <1>1, LenProperties DEF Stacks
<1> HIDE DEF e
<1>3. ASSUME Waits(e, p)
      PROVE  Waits(s, p) \/ \E i \in DOMAIN f.left : p = Append(f.path, f.left[i].name)
  <2>1. PICK j \in DOMAIN e : \E i \in DOMAIN e[j].left : p = Append(e[j].path, e[j].left[i].name)
    BY <1>3 DEF Waits
  <2>2. CASE j = 1
    BY <1>1, <2>1, <2>2
  <2>3. CASE j # 1
    <3>1. j - 1 \in 1 .. Len(s) /\ (j - 1) + 1 = j
      BY <1>1, <1>2, <2>3
    <3>2. e[j] = s[j - 1] /\ j - 1 \in DOMAIN s
      BY <1>1, <1>2, <3>1
    <3> QED
      BY <2>1, <3>2 DEF Waits
  <2> QED
    BY <2>2, <2>3
<1>4. ASSUME Waits(s, p)
      PROVE  Waits(e, p)
  <2>1. PICK j \in DOMAIN s : \E i \in DOMAIN s[j].left : p = Append(s[j].path, s[j].left[i].name)
    BY <1>4 DEF Waits
  <2>2. j + 1 \in DOMAIN e /\ e[j + 1] = s[j]
    BY <1>1, <1>2
  <2> QED
    BY <2>1, <2>2 DEF Waits
<1>5. ASSUME \E i \in DOMAIN f.left : p = Append(f.path, f.left[i].name)
      PROVE  Waits(e, p)
  <2>1. 1 \in DOMAIN e /\ e[1] = f
    BY <1>1, <1>2
  <2> QED
    BY <1>5, <2>1 DEF Waits
<1> QED
  BY <1>3, <1>4, <1>5 DEF e

LEMMA PoppedShape ==
  ASSUME NEW s \in Stacks, s # <<>>
  PROVE  /\ Tail(s) \in Stacks /\ Len(Tail(s)) = Len(s) - 1 /\ Len(s) \in Nat \ {0}
         /\ DOMAIN s = 1 .. Len(s) /\ DOMAIN Tail(s) = 1 .. Len(s) - 1
         /\ \A j \in DOMAIN Tail(s) : Tail(s)[j] = s[j + 1] /\ j + 1 \in DOMAIN s
<1>1. /\ Tail(s) \in Stacks /\ Len(Tail(s)) = Len(s) - 1
      /\ \A j \in 1 .. Len(Tail(s)) : Tail(s)[j] = s[j + 1]
  BY HeadTailProperties DEF Stacks
<1>2. Len(s) \in Nat \ {0} /\ DOMAIN s = 1 .. Len(s)
  BY EmptySeq, LenProperties DEF Stacks
<1>3. DOMAIN Tail(s) = 1 .. Len(s) - 1
  BY <1>1, LenProperties DEF Stacks
<1>4. \A j \in 1 .. Len(s) - 1 : j + 1 \in DOMAIN s
  BY <1>2
<1>5. \A j \in DOMAIN Tail(s) : Tail(s)[j] = s[j + 1] /\ j + 1 \in DOMAIN s
  <2>1. 1 .. Len(Tail(s)) = DOMAIN Tail(s)
    BY <1>1, <1>3, Zenon
  <2> QED
    BY <1>1, <1>3, <1>4, <2>1, Zenon
<1> QED
  BY <1>1, <1>2, <1>3, <1>5, Zenon

LEMMA PoppedWaits ==
  ASSUME NEW s \in Stacks, s # <<>>, s[1].left = <<>>, NEW p
  PROVE  Waits(Tail(s), p) <=> Waits(s, p)
<1> DEFINE t == Tail(s)
<1>1. /\ Len(s) \in Nat \ {0} /\ DOMAIN s = 1 .. Len(s) /\ DOMAIN t = 1 .. Len(s) - 1
      /\ \A j \in DOMAIN t : t[j] = s[j + 1] /\ j + 1 \in DOMAIN s
  BY PoppedShape
<1> HIDE DEF t
<1>2. Waits(t, p) => Waits(s, p)
  BY <1>1 DEF Waits
<1>3. ASSUME Waits(s, p)
      PROVE  Waits(t, p)
  <2>1. PICK j \in DOMAIN s : \E i \in DOMAIN s[j].left : p = Append(s[j].path, s[j].left[i].name)
    BY <1>3 DEF Waits
  <2>2. j # 1
    <3>1. DOMAIN <<>> = {}
      OBVIOUS
    <3> QED
      BY <2>1, <3>1
  <2>3. j - 1 \in DOMAIN t /\ (j - 1) + 1 = j
    BY <1>1, <2>2
  <2>4. t[j - 1] = s[j]
    BY <1>1, <2>3
  <2> QED
    BY <2>1, <2>3, <2>4 DEF Waits
<1> QED
  BY <1>2, <1>3 DEF t

EnteredOf(T, m, s) ==
  <<Frame(T[m].image, FromOf(s), HostIn(T, m, FromOf(s)))>> \o ConsumedOf(s)

LEMMA EnteredWaits ==
  ASSUME NEW T \in Mounts, NEW m \in DOMAIN T, NEW s \in Stacks, s # <<>>, s[1].left # <<>>,
         Nested(T, m, s), NEW p
  PROVE  Waits(EnteredOf(T, m, s), p) <=>
           \/ Waits(s, p) /\ p # FromOf(s)
           \/ p \in Paths(T[m].image) /\ Parent(p) = FromOf(s)
<1> DEFINE f == Frame(T[m].image, FromOf(s), HostIn(T, m, FromOf(s)))
<1>1. /\ f \in Frames /\ f.path = FromOf(s)
      /\ (\E i \in DOMAIN f.left : p = Append(FromOf(s), f.left[i].name))
           <=> p \in Paths(T[m].image) /\ Parent(p) = FromOf(s)
  BY FromIs, MountOf, NewFrame
<1> HIDE DEF f
<1>2. ConsumedOf(s) \in Stacks
  BY ConsumedShape
<1>3. Waits(<<f>> \o ConsumedOf(s), p) <=>
        Waits(ConsumedOf(s), p) \/ \E i \in DOMAIN f.left : p = Append(f.path, f.left[i].name)
  BY <1>1, <1>2, PushedWaits
<1> QED
  BY <1>1, <1>3, ConsumedWaits DEF EnteredOf, f

\* Nothing above the entry that is taken is waited for.
LEMMA NothingAbove ==
  ASSUME NEW T \in Mounts, NEW m \in DOMAIN T, NEW s \in Stacks, s # <<>>, s[1].left # <<>>,
         Nested(T, m, s), NEW n \in 1 .. Len(FromOf(s)), Waits(s, SubSeq(FromOf(s), 1, n))
  PROVE  n = Len(FromOf(s)) /\ SubSeq(FromOf(s), 1, n) = FromOf(s)
<1> DEFINE p == FromOf(s)
           q == s[1].path
<1>1. p \in Seq(Names) /\ Len(p) = Len(q) + 1 /\ q \in Seq(Names) /\ Parent(p) = q
  BY FromIs
<1>2. Len(q) \in Nat /\ Len(p) \in Nat
  BY <1>1, LenProperties
<1>3. SubSeq(p, 1, Len(p)) = p
  BY <1>1, WholePrefix
<1>4. CASE n # Len(p)
  <2>1. n \in 1 .. Len(q) /\ Len(p) - 1 \in 0 .. Len(p) /\ n \in 0 .. Len(p) - 1
    <3>1. Len(p) = Len(q) + 1 /\ n \in 1 .. Len(p) /\ n # Len(p)
      BY <1>1, <1>4
    <3> HIDE DEF p, q
    <3> QED
      BY <1>2, <3>1
  <2>2. q = SubSeq(p, 1, Len(p) - 1)
    BY <1>1 DEF Parent, Front
  <2>3. SubSeq(q, 1, n) = SubSeq(p, 1, n)
    BY <1>1, <2>1, <2>2, PrefixOfPrefix
  <2>4. Awaited(s, q)
    BY <2>1, <2>3, Zenon DEF Awaited
  <2>5. 1 \in DOMAIN s
    BY LeftShape
  <2> QED
    BY <2>4, <2>5, Zenon DEF Nested
<1> QED
  BY <1>3, <1>4, Zenon

\* What the calls wait for once a directory is entered.
LEMMA EnteredAwaits ==
  ASSUME NEW T \in Mounts, NEW m \in DOMAIN T, NEW s \in Stacks, s # <<>>, s[1].left # <<>>,
         Nested(T, m, s)
  PROVE  /\ ~Awaited(EnteredOf(T, m, s), FromOf(s))
         /\ \A path \in WantedIn(T, m) :
              /\ Awaited(s, path) => path = FromOf(s) \/ Awaited(EnteredOf(T, m, s), path)
              /\ Awaited(EnteredOf(T, m, s), path) => Awaited(s, path)
<1> DEFINE p == FromOf(s)
           e == EnteredOf(T, m, s)
<1>1. /\ p \in Seq(Names) /\ p # <<>> /\ Waits(s, p) /\ p \in Paths(T[m].image)
  BY FromIs
<1>2. Len(p) \in Nat \ {0}
  BY <1>1, EmptySeq
<1>3. \A q : Waits(e, q) <=> \/ Waits(s, q) /\ q # p
                             \/ q \in Paths(T[m].image) /\ Parent(q) = p
  BY EnteredWaits
<1>4. ASSUME Awaited(e, p)
      PROVE  FALSE
  <2>1. PICK n \in 1 .. Len(p) : Waits(e, SubSeq(p, 1, n))
    BY <1>4 DEF Awaited
  <2>2. CASE Waits(s, SubSeq(p, 1, n)) /\ SubSeq(p, 1, n) # p
    BY <2>2, NothingAbove
  <2>3. CASE SubSeq(p, 1, n) \in Paths(T[m].image) /\ Parent(SubSeq(p, 1, n)) = p
    <3>1. n \in 0 .. Len(p)
      BY <1>2, <2>1
    <3>2. SubSeq(p, 1, n) \in Seq(Names) /\ Len(SubSeq(p, 1, n)) = n
      BY <1>1, <3>1, PrefixOf
    <3>3. SubSeq(p, 1, n) # <<>>
      BY <2>3, MountOf, PathsType
    <3>4. Len(p) = n - 1
      BY <2>3, <3>2, <3>3, ParentOf
    <3> QED
      BY <1>2, <2>1, <3>4
  <2> QED
    BY <1>3, <2>1, <2>2, <2>3
<1>5. ASSUME NEW path \in WantedIn(T, m), Awaited(s, path), path # p
      PROVE  Awaited(e, path)
  <2>1. path \in Seq(Names)
    BY WantedPath
  <2>2. PICK n \in 1 .. Len(path) : Waits(s, SubSeq(path, 1, n))
    BY <1>5 DEF Awaited
  <2>3. Len(path) \in Nat
    BY <2>1, LenProperties
  <2>4. CASE SubSeq(path, 1, n) # p
    BY <1>3, <2>2, <2>4 DEF Awaited
  <2>5. CASE SubSeq(path, 1, n) = p
    <3>1. n # Len(path)
      BY <1>5, <2>1, <2>5, WholePrefix
    <3>2. n \in 0 .. Len(path) - 1
      BY <2>2, <2>3, <3>1
    <3>3. /\ SubSeq(path, 1, n + 1) \in Paths(T[m].image) /\ n + 1 \in 1 .. Len(path)
          /\ Parent(SubSeq(path, 1, n + 1)) = p
      BY <2>5, <3>2, OneDown
    <3> QED
      BY <1>3, <3>3 DEF Awaited
  <2> QED
    BY <2>4, <2>5
<1>6. ASSUME NEW path \in WantedIn(T, m), Awaited(e, path)
      PROVE  Awaited(s, path)
  <2>1. path \in Seq(Names)
    BY WantedPath
  <2>2. PICK n \in 1 .. Len(path) : Waits(e, SubSeq(path, 1, n))
    BY <1>6 DEF Awaited
  <2>3. Len(path) \in Nat
    BY <2>1, LenProperties
  <2>4. CASE Waits(s, SubSeq(path, 1, n))
    BY <2>2, <2>4 DEF Awaited
  <2>5. CASE Parent(SubSeq(path, 1, n)) = p
    <3>1. n - 1 \in 0 .. Len(path) - 1 /\ (n - 1) + 1 = n
      BY <2>2, <2>3
    <3>2. SubSeq(path, 1, n - 1) = p
      BY <2>5, <3>1, OneDown
    <3>3. n - 1 \in 0 .. Len(path)
      BY <2>3, <3>1
    <3>4. Len(p) = n - 1
      BY <2>1, <3>2, <3>3, PrefixOf
    <3>5. n - 1 \in 1 .. Len(path)
      BY <1>2, <3>3, <3>4
    <3> QED
      BY <1>1, <3>2, <3>5 DEF Awaited
  <2> QED
    BY <1>3, <2>2, <2>4, <2>5
<1> QED
  BY <1>4, <1>5, <1>6

\* What they wait for once a file is taken.
LEMMA ConsumedAwaits ==
  ASSUME NEW T \in Mounts, NEW m \in DOMAIN T, NEW s \in Stacks, s # <<>>, s[1].left # <<>>,
         Nested(T, m, s), TypeIn(T, m, FromOf(s)) # "dir"
  PROVE  /\ ~Awaited(ConsumedOf(s), FromOf(s))
         /\ \A path \in WantedIn(T, m) :
              /\ Awaited(s, path) => path = FromOf(s) \/ Awaited(ConsumedOf(s), path)
              /\ Awaited(ConsumedOf(s), path) => Awaited(s, path)
<1> DEFINE p == FromOf(s)
           c == ConsumedOf(s)
<1>1. \A q : Waits(c, q) <=> Waits(s, q) /\ q # p
  BY ConsumedWaits
<1>2. ~Awaited(c, p)
  BY <1>1, NothingAbove DEF Awaited
<1>3. ASSUME NEW path \in WantedIn(T, m), Awaited(s, path), path # p
      PROVE  Awaited(c, path)
  <2>1. path \in Seq(Names)
    BY WantedPath
  <2>2. PICK n \in 1 .. Len(path) : Waits(s, SubSeq(path, 1, n))
    BY <1>3 DEF Awaited
  <2>3. SubSeq(path, 1, n) # p
    <3>1. SUFFICES ASSUME SubSeq(path, 1, n) = p
                   PROVE  FALSE
      OBVIOUS
    <3>2. n # Len(path) /\ Len(path) \in Nat
      BY <1>3, <2>1, <3>1, WholePrefix, LenProperties
    <3>3. n \in 0 .. Len(path) - 1
      BY <2>2, <3>2
    <3>4. HasDirectory(T[m].image, p)
      BY <3>1, <3>3, WantedPath
    <3>5. PICK i \in DOMAIN Entries(T[m].image) : p = Entries(T[m].image)[i].path
      BY FromIs DEF Paths
    <3> QED
      BY <3>4, <3>5, TypeOfEntry, MountOf DEF TypeIn
  <2> QED
    BY <1>1, <2>2, <2>3 DEF Awaited
<1> QED
  BY <1>1, <1>2, <1>3 DEF Awaited

LEMMA PoppedAwaits ==
  ASSUME NEW s \in Stacks, s # <<>>, s[1].left = <<>>, NEW path
  PROVE  Awaited(Tail(s), path) <=> Awaited(s, path)
BY PoppedWaits DEF Awaited

LEMMA NewFrameFits ==
  ASSUME NEW T \in Mounts, NEW m \in DOMAIN T, NEW path \in Seq(Names), Branch(T, m, path)
  PROVE  FrameFits(T, m, Frame(T[m].image, path, HostIn(T, m, path)))
<1> DEFINE img == T[m].image
           host == HostIn(T, m, path)
           f == Frame(img, path, host)
           C == Children(img, path)
<1>1. img \in DOMAIN Image
  BY MountOf
<1>2. f.image = img /\ f.path = path /\ f.host = host /\ f.left = C
  BY DEF Frame
<1>3. DOMAIN C = 1 .. Len(C)
  BY <1>1, ChildrenOf, LenProperties
<1>4. ASSUME NEW i \in DOMAIN C
      PROVE  /\ Append(path, C[i].name) \in WantedIn(T, m)
             /\ C[i].dir <=> TypeIn(T, m, Append(path, C[i].name)) = "dir"
             /\ \A l \in DOMAIN C : C[i].name = C[l].name => i = l
  <2>1. /\ Append(path, C[i].name) \in Paths(img) /\ Parent(Append(path, C[i].name)) = path
        /\ C[i].dir <=> TypeAt(img, Append(path, C[i].name)) = "dir"
    <3>1. \A k \in 1 .. Len(C) :
             LET p == Append(path, C[k].name)
             IN  /\ p \in Paths(img) /\ Parent(p) = path
                 /\ C[k].dir <=> TypeAt(img, p) = "dir"
      BY <1>1, ChildrenOf
    <3> HIDE DEF C
    <3> QED
      BY <1>3, <3>1
  <2>2. \A l \in DOMAIN C : C[i].name = C[l].name => i = l
    BY <1>1, <1>3, ChildrenOf
  <2>3. Append(path, C[i].name) \in WantedIn(T, m)
    <3> DEFINE p == Append(path, C[i].name)
    <3>1. p \in Paths(T[m].image) /\ Parent(p) = path
      BY <2>1
    <3> HIDE DEF p
    <3>2. p \in WantedIn(T, m)
      BY <3>1, BelowBranch
    <3> QED
      BY <3>2 DEF p
  <2> QED
    BY <2>1, <2>2, <2>3 DEF TypeIn
<1> HIDE DEF f, C
<1>5. \A i \in DOMAIN f.left :
        LET p == Append(f.path, f.left[i].name)
        IN  p \in WantedIn(T, m) /\ (f.left[i].dir <=> TypeIn(T, m, p) = "dir")
  BY <1>2, <1>4
<1>6. \A i, l \in DOMAIN f.left : f.left[i].name = f.left[l].name => i = l
  BY <1>2, <1>4
<1>7. FrameFits(T, m, f)
  BY <1>2, <1>5, <1>6 DEF FrameFits
<1> QED
  BY <1>7 DEF f

LEMMA NestedConsumed ==
  ASSUME NEW T \in Mounts, NEW m \in DOMAIN T, NEW s \in Stacks, s # <<>>, s[1].left # <<>>,
         Nested(T, m, s)
  PROVE  Nested(T, m, ConsumedOf(s))
<1> DEFINE c == ConsumedOf(s)
           l == s[1].left
<1>1. /\ c \in Stacks /\ Len(c) = Len(s) /\ Len(s) \in Nat \ {0} /\ DOMAIN s = 1 .. Len(s)
      /\ c[1] = [s[1] EXCEPT !.left = Tail(@)] /\ \A j \in 2 .. Len(s) : c[j] = s[j]
  BY ConsumedShape, LeftShape
<1>2. DOMAIN c = 1 .. Len(s)
  BY <1>1, LenProperties DEF Stacks
<1>3. /\ s[1] \in Frames /\ DOMAIN l = 1 .. Len(l) /\ Len(l) \in Nat \ {0}
      /\ DOMAIN Tail(l) = 1 .. Len(l) - 1 /\ \A i \in DOMAIN Tail(l) : Tail(l)[i] = l[i + 1]
  BY LeftShape
<1> HIDE DEF c
<1>4. /\ c[1].image = s[1].image /\ c[1].path = s[1].path /\ c[1].host = s[1].host
      /\ c[1].left = Tail(l)
  BY <1>1, <1>3 DEF Frames
<1>5. \A j \in DOMAIN s : c[j].path = s[j].path
  <2>1. \A j \in DOMAIN s : j = 1 \/ j \in 2 .. Len(s)
    BY <1>1
  <2> QED
    BY <1>1, <1>4, <2>1
<1>6. FrameFits(T, m, c[1])
  <2>1. FrameFits(T, m, s[1])
    BY <1>1 DEF Nested
  <2> HIDE DEF l
  <2>2. \A i \in DOMAIN Tail(l) : i + 1 \in DOMAIN l /\ Tail(l)[i] = l[i + 1]
    BY <1>3
  <2>3. /\ \A i \in DOMAIN l :
             LET p == Append(s[1].path, l[i].name)
             IN  p \in WantedIn(T, m) /\ (l[i].dir <=> TypeIn(T, m, p) = "dir")
        /\ \A i, k \in DOMAIN l : l[i].name = l[k].name => i = k
    BY <2>1 DEF FrameFits, l
  <2>4. \A i \in DOMAIN Tail(l) :
             LET p == Append(s[1].path, Tail(l)[i].name)
             IN  p \in WantedIn(T, m) /\ (Tail(l)[i].dir <=> TypeIn(T, m, p) = "dir")
    BY <2>2, <2>3
  <2>5. ASSUME NEW i \in DOMAIN Tail(l), NEW k \in DOMAIN Tail(l), Tail(l)[i].name = Tail(l)[k].name
        PROVE  i = k
    <3>1. i + 1 = k + 1
      BY <2>2, <2>3, <2>5
    <3> QED
      BY <1>3, <3>1
  <2> QED
    BY <1>4, <2>1, <2>4, <2>5 DEF FrameFits
<1>7. \A j \in DOMAIN c : FrameFits(T, m, c[j])
  BY <1>1, <1>2, <1>6 DEF Nested
<1>8. \A j \in DOMAIN c : /\ Len(c[j].path) = Len(c) - j
                          /\ j < Len(c) => Parent(c[j].path) = c[j + 1].path
  <2> SUFFICES ASSUME NEW j \in DOMAIN c
               PROVE  /\ Len(c[j].path) = Len(c) - j
                      /\ j < Len(c) => Parent(c[j].path) = c[j + 1].path
    OBVIOUS
  <2>1. j \in DOMAIN s /\ (j < Len(c) => j + 1 \in DOMAIN s)
    BY <1>1, <1>2
  <2>2. Len(s[j].path) = Len(s) - j /\ (j < Len(s) => Parent(s[j].path) = s[j + 1].path)
    BY <2>1 DEF Nested
  <2> QED
    BY <1>1, <1>5, <2>1, <2>2
<1>9. ASSUME NEW j \in DOMAIN c, Awaited(c, c[j].path)
      PROVE  FALSE
  <2>1. \A p : Waits(c, p) => Waits(s, p)
    BY ConsumedWaits DEF c
  <2>2. j \in DOMAIN s /\ c[j].path = s[j].path
    BY <1>1, <1>2, <1>5
  <2>3. Awaited(s, s[j].path)
    BY <1>9, <2>1, <2>2 DEF Awaited
  <2> QED
    BY <2>2, <2>3 DEF Nested
<1> QED
  BY <1>7, <1>8, <1>9 DEF Nested, c

LEMMA NestedEntered ==
  ASSUME NEW T \in Mounts, NEW m \in DOMAIN T, NEW s \in Stacks, s # <<>>, s[1].left # <<>>,
         Nested(T, m, s), TypeIn(T, m, FromOf(s)) = "dir"
  PROVE  EnteredOf(T, m, s) \in Stacks /\ Nested(T, m, EnteredOf(T, m, s))
<1> DEFINE c == ConsumedOf(s)
           q == FromOf(s)
           f == Frame(T[m].image, q, HostIn(T, m, q))
           e == EnteredOf(T, m, s)
<1>0. c \in Stacks /\ Len(c) = Len(s) /\ Len(s) \in Nat \ {0} /\ Nested(T, m, c)
  BY ConsumedShape, NestedConsumed
<1>1. /\ q \in WantedIn(T, m) /\ q \in Seq(Names) /\ HostIn(T, m, q) \in Seq(Names)
      /\ Parent(q) = s[1].path /\ Len(q) = Len(s[1].path) + 1
  BY FromIs
<1>2. FrameFits(T, m, f) /\ f \in Frames /\ f.path = q
  BY <1>1, NewFrameFits, MountOf, NewFrame DEF Branch
<1>3. c[1].path = s[1].path /\ Len(s[1].path) = Len(s) - 1 /\ 1 \in DOMAIN s
  <2>1. c[1] = [s[1] EXCEPT !.left = Tail(@)] /\ s[1] \in Frames /\ 1 \in DOMAIN s
    BY ConsumedShape, LeftShape
  <2> HIDE DEF c
  <2> QED
    BY <2>1 DEF Nested, Frames
<1> HIDE DEF c, f
<1>4. /\ e \in Stacks /\ Len(e) = Len(s) + 1 /\ e[1] = f
      /\ \A j \in 1 .. Len(s) : e[j + 1] = c[j]
  BY <1>0, <1>2, PushProperties DEF Stacks, EnteredOf, c, f
<1>5. DOMAIN e = 1 .. Len(s) + 1 /\ DOMAIN c = 1 .. Len(s)
  BY <1>0, <1>4, LenProperties DEF Stacks
<1>6. ~Awaited(e, q) /\ \A p : Waits(e, p) => Waits(s, p) \/ (Parent(p) = q /\ p \in Paths(T[m].image))
  BY EnteredAwaits, EnteredWaits
<1> HIDE DEF e, q
<1>7. ASSUME NEW j \in 2 .. Len(s) + 1
      PROVE  /\ FrameFits(T, m, e[j]) /\ Len(e[j].path) = Len(e) - j
             /\ j < Len(e) => Parent(e[j].path) = e[j + 1].path
             /\ ~Awaited(e, e[j].path)
  <2> DEFINE i == j - 1
  <2>1. /\ i \in DOMAIN c /\ i + 1 = j /\ e[j] = c[i]
        /\ j < Len(e) => e[j + 1] = c[i + 1] /\ i < Len(s)
    <3>1. i \in 1 .. Len(s) /\ i + 1 = j
      BY <1>0
    <3>2. j < Len(e) => j \in 1 .. Len(s) /\ i < Len(s)
      BY <1>0, <1>4
    <3> HIDE DEF i
    <3> QED
      BY <1>4, <1>5, <3>1, <3>2
  <2>2. FrameFits(T, m, c[i]) /\ Len(c[i].path) = Len(s) - i
        /\ (i < Len(s) => Parent(c[i].path) = c[i + 1].path)
    BY <1>0, <2>1 DEF Nested
  <2>3. Len(s) - i = Len(e) - j
    BY <1>0, <1>4
  <2>4. ~Awaited(e, e[j].path)
    <3> SUFFICES ASSUME NEW n \in 1 .. Len(e[j].path), Waits(e, SubSeq(e[j].path, 1, n))
                 PROVE  FALSE
      BY DEF Awaited
    <3>0. i \in DOMAIN s /\ c[i].path = s[i].path
      <4>1. c[1] = [s[1] EXCEPT !.left = Tail(@)] /\ s[1] \in Frames /\ \A k \in 2 .. Len(s) : c[k] = s[k]
            /\ DOMAIN s = 1 .. Len(s)
        BY ConsumedShape, LeftShape DEF c
      <4>2. i \in 1 .. Len(s)
        BY <1>5, <2>1
      <4> HIDE DEF i
      <4>3. i = 1 \/ i \in 2 .. Len(s)
        BY <1>0, <4>2
      <4> QED
        BY <1>3, <4>1, <4>2, <4>3
    <3>1. c[i].path \in Seq(Names) /\ Len(c[i].path) \in Nat
      <4>1. c[i] \in Frames
        BY <1>0, <1>5, <2>1, ElementOfSeq DEF Stacks
      <4> QED
        BY <4>1, LenProperties DEF Frames
    <3>2. CASE Waits(s, SubSeq(e[j].path, 1, n))
      <4>1. Awaited(s, s[i].path)
        BY <2>1, <3>0, <3>2 DEF Awaited
      <4> QED
        BY <3>0, <4>1 DEF Nested
    <3>3. CASE /\ Parent(SubSeq(e[j].path, 1, n)) = q
               /\ SubSeq(e[j].path, 1, n) \in Paths(T[m].image)
      <4> DEFINE u == SubSeq(e[j].path, 1, n)
      <4>1. n \in 0 .. Len(c[i].path) /\ e[j].path = c[i].path
        BY <2>1, <3>1
      <4>2. u \in Seq(Names) /\ Len(u) = n
        BY <3>1, <4>1, PrefixOf
      <4>3. u # <<>>
        BY <3>3, MountOf, PathsType
      <4>4. Len(Parent(u)) = n - 1
        BY <4>2, <4>3, ParentOf
      <4>5. Len(q) = n - 1
        BY <3>3, <4>4
      <4>6. Len(q) = Len(s)
        BY <1>0, <1>1, <1>3
      <4>7. n <= Len(s) - i /\ i >= 1 /\ i \in Nat
        BY <1>0, <1>5, <2>1, <2>2, <4>1
      <4> HIDE DEF i
      <4> QED
        BY <1>0, <4>5, <4>6, <4>7
    <3> QED
      BY <1>6, <3>2, <3>3
  <2> HIDE DEF i
  <2> QED
    BY <2>1, <2>2, <2>3, <2>4
<1>8. /\ FrameFits(T, m, e[1]) /\ Len(e[1].path) = Len(e) - 1
      /\ 1 < Len(e) => Parent(e[1].path) = e[1 + 1].path
      /\ ~Awaited(e, e[1].path)
  <2>1. e[1 + 1] = c[1]
    BY <1>0, <1>4
  <2>2. Len(q) = Len(e) - 1
    BY <1>0, <1>1, <1>3, <1>4
  <2> QED
    BY <1>1, <1>2, <1>3, <1>4, <1>6, <2>1, <2>2
<1>9. \A j \in DOMAIN e : j = 1 \/ j \in 2 .. Len(s) + 1
  BY <1>0, <1>5
<1> QED
  BY <1>4, <1>7, <1>8, <1>9 DEF Nested, e

LEMMA NestedPopped ==
  ASSUME NEW T \in Mounts, NEW m \in DOMAIN T, NEW s \in Stacks, s # <<>>, s[1].left = <<>>,
         Nested(T, m, s)
  PROVE  Nested(T, m, Tail(s))
<1> DEFINE t == Tail(s)
<1>1. /\ Len(t) = Len(s) - 1 /\ Len(s) \in Nat \ {0} /\ DOMAIN t = 1 .. Len(s) - 1
      /\ \A j \in DOMAIN t : t[j] = s[j + 1] /\ j + 1 \in DOMAIN s
  BY PoppedShape
<1>2. \A path : Awaited(t, path) <=> Awaited(s, path)
  BY PoppedAwaits
<1> HIDE DEF t
<1>3. ASSUME NEW j \in DOMAIN t
      PROVE  /\ FrameFits(T, m, t[j]) /\ Len(t[j].path) = Len(t) - j
             /\ j < Len(t) => Parent(t[j].path) = t[j + 1].path
             /\ ~Awaited(t, t[j].path)
  <2>1. /\ FrameFits(T, m, s[j + 1]) /\ Len(s[j + 1].path) = Len(s) - (j + 1)
        /\ j + 1 < Len(s) => Parent(s[j + 1].path) = s[(j + 1) + 1].path
        /\ ~Awaited(s, s[j + 1].path)
    BY <1>1 DEF Nested
  <2>2. Len(s) - (j + 1) = Len(t) - j /\ (j < Len(t) => j + 1 < Len(s) /\ j + 1 \in DOMAIN t)
    BY <1>1
  <2> QED
    BY <1>1, <1>2, <2>1, <2>2
<1> QED
  BY <1>3 DEF Nested, t

StartedOf(T, m) == <<Frame(T[m].image, <<>>, RootIn(T, m))>>

LEMMA StartedIs ==
  ASSUME NEW T \in Mounts, NEW m \in DOMAIN T
  PROVE  /\ StartedOf(T, m) \in Stacks /\ Nested(T, m, StartedOf(T, m))
         /\ Len(StartedOf(T, m)) = 1 /\ StartedOf(T, m)[1].host = RootIn(T, m)
         /\ StartedOf(T, m)[1].path = <<>> /\ StartedOf(T, m) # <<>>
         /\ \A path \in WantedIn(T, m) : Awaited(StartedOf(T, m), path)
<1> DEFINE z == <<>>
           f == Frame(T[m].image, z, RootIn(T, m))
           e == StartedOf(T, m)
<1>1. z \in Seq(Names) /\ z \in Seq(Frames) /\ Len(z) = 0 /\ DOMAIN z = {}
  BY EmptySeq
<1>2. /\ f \in Frames /\ f.path = z /\ f.host = RootIn(T, m)
      /\ \A p : (\E i \in DOMAIN f.left : p = Append(z, f.left[i].name))
                  <=> p \in Paths(T[m].image) /\ Parent(p) = z
  <2>1. T[m].image \in DOMAIN Image /\ RootIn(T, m) \in Seq(Names)
    BY MountOf
  <2>2. ASSUME NEW y \in Seq(Names)
        PROVE  LET g == Frame(T[m].image, y, RootIn(T, m))
               IN  /\ g \in Frames /\ g.path = y /\ g.host = RootIn(T, m)
                   /\ \A p : (\E i \in DOMAIN g.left : p = Append(y, g.left[i].name))
                               <=> p \in Paths(T[m].image) /\ Parent(p) = y
    BY <2>1, NewFrame
  <2> HIDE DEF z
  <2> QED
    BY <1>1, <2>2
<1>3. FrameFits(T, m, f)
  BY <1>1, HostRoot, NewFrameFits DEF Branch
<1> HIDE DEF f
<1>4. e \in Stacks /\ e # <<>> /\ Len(e) = 1 /\ e[1] = f
  BY <1>2, Singleton DEF Stacks, StartedOf, f
<1>5. DOMAIN e = {1}
  BY <1>4
<1> HIDE DEF e, z
<1>6. \A p : Waits(e, p) <=> p \in Paths(T[m].image) /\ Parent(p) = z
  BY <1>2, <1>4, <1>5 DEF Waits
<1>7. ~Awaited(e, z)
  BY <1>1 DEF Awaited
<1>8. Nested(T, m, e)
  BY <1>1, <1>2, <1>3, <1>4, <1>5, <1>7 DEF Nested
<1>9. ASSUME NEW path \in WantedIn(T, m)
      PROVE  Awaited(e, path)
  <2>1. path \in Seq(Names) /\ path # z
    BY WantedPath DEF z
  <2>2. Len(path) \in Nat \ {0}
    BY <2>1, EmptySeq DEF z
  <2>3. 0 \in 0 .. Len(path) - 1
    BY <2>2
  <2>4. /\ SubSeq(path, 1, 0 + 1) \in Paths(T[m].image) /\ 0 + 1 \in 1 .. Len(path)
        /\ Parent(SubSeq(path, 1, 0 + 1)) = SubSeq(path, 1, 0)
    BY <2>3, OneDown
  <2>5. SubSeq(path, 1, 0) = z
    BY SubSeqEmpty DEF z
  <2> QED
    BY <1>6, <2>4, <2>5 DEF Awaited
<1> QED
  BY <1>2, <1>4, <1>8, <1>9 DEF e, z

-----------------------------------------------------------------------------
(* The host.                                                               *)

IsNode(x) ==
  /\ x = Node(x.type, x.mode, x.mtime, x.data)
  /\ x.type \in {"file", "dir"} /\ x.mode \in {"rw", "ro"}
HostTree(d) ==
  /\ <<>> \in DOMAIN d \/ DOMAIN d = {}
  /\ DOMAIN d \subseteq Seq(Names)
  /\ \A h \in DOMAIN d : /\ IsNode(d[h])
                         /\ h # <<>> => Parent(h) \in DOMAIN d /\ d[Parent(h)].type = "dir"

\* A file may be made, and it may get other permissions, bytes and another
\* time; a directory also gets a new time from what is put in it.
Alike(d, e, q) ==
  /\ e[q].type = d[q].type /\ e[q].mode = d[q].mode /\ e[q].data = d[q].data
  /\ d[q].type = "dir" \/ e[q].mtime = d[q].mtime
Touched(d, e, h) ==
  /\ HostTree(e)
  /\ DOMAIN e = DOMAIN d \cup {h}
  /\ h \in DOMAIN d => e[h].type = d[h].type
  /\ \A q \in DOMAIN d : q # h => Alike(d, e, q)

MadeDirectory(d, h) == IF h \in DOMAIN d THEN d ELSE Put(d, h, Node("dir", "rw", Now, NoData))

LEMMA NodeFields ==
  ASSUME NEW t, NEW m, NEW c, NEW x
  PROVE  /\ Node(t, m, c, x).type = t /\ Node(t, m, c, x).mode = m
         /\ Node(t, m, c, x).mtime = c /\ Node(t, m, c, x).data = x
         /\ t \in {"file", "dir"} /\ m \in {"rw", "ro"} => IsNode(Node(t, m, c, x))
BY DEF Node, IsNode

LEMMA Retimed ==
  ASSUME NEW x, IsNode(x), NEW c
  PROVE  [x EXCEPT !.mtime = c] = Node(x.type, x.mode, c, x.data)
<1>1. x = [type |-> x.type, mode |-> x.mode, mtime |-> x.mtime, data |-> x.data]
  BY DEF IsNode, Node
<1> DEFINE t == x.type
           m == x.mode
           o == x.mtime
           a == x.data
<1>2. x = [type |-> t, mode |-> m, mtime |-> o, data |-> a]
  BY <1>1
<1> HIDE DEF t, m, o, a
<1>3. [x EXCEPT !.mtime = c] = [type |-> t, mode |-> m, mtime |-> c, data |-> a]
  BY <1>2
<1> QED
  BY <1>3 DEF Node, t, m, a

LEMMA Remoded ==
  ASSUME NEW x, IsNode(x), NEW c, NEW y
  PROVE  [[x EXCEPT !.mode = y] EXCEPT !.mtime = c] = Node(x.type, y, c, x.data)
<1>1. x = [type |-> x.type, mode |-> x.mode, mtime |-> x.mtime, data |-> x.data]
  BY DEF IsNode, Node
<1> DEFINE t == x.type
           m == x.mode
           o == x.mtime
           a == x.data
           z == [x EXCEPT !.mode = y]
<1>2. x = [type |-> t, mode |-> m, mtime |-> o, data |-> a]
  BY <1>1
<1> HIDE DEF t, m, o, a
<1>3. z = [type |-> t, mode |-> y, mtime |-> o, data |-> a]
  BY <1>2
<1> HIDE DEF z
<1>4. [z EXCEPT !.mtime = c] = [type |-> t, mode |-> y, mtime |-> c, data |-> a]
  BY <1>3
<1> QED
  BY <1>4 DEF Node, t, a, z

\* Putting a file where it fits.
LEMMA PutTouches ==
  ASSUME NEW d, HostTree(d), NEW h \in Seq(Names), NEW node, IsNode(node),
         h \in DOMAIN d => d[h].type = node.type,
         h \notin DOMAIN d => Parent(h) \in DOMAIN d /\ d[Parent(h)].type = "dir"
  PROVE  Touched(d, Put(d, h, node), h) /\ Put(d, h, node)[h] = node
<1> DEFINE e == Put(d, h, node)
           new(q) == [d[q] EXCEPT !.mtime = Now]
<1>1. /\ DOMAIN e = DOMAIN d \cup {h} /\ e[h] = node
      /\ \A q \in DOMAIN d : q # h => e[q] = d[q] \/ (e[q] = new(q) /\ h \notin DOMAIN d /\ q = Parent(h))
  <2> HIDE DEF new
  <2> QED
    BY DEF Put, new
<1>2. \A q \in DOMAIN d : new(q) = Node(d[q].type, d[q].mode, Now, d[q].data)
  BY Retimed DEF HostTree
<1> HIDE DEF e, new
<1>3. ASSUME NEW q \in DOMAIN d, q # h
      PROVE  Alike(d, e, q) /\ IsNode(e[q])
  <2>1. IsNode(d[q])
    BY DEF HostTree
  <2>2. CASE e[q] = d[q]
    BY <2>1, <2>2 DEF Alike
  <2>3. CASE e[q] = new(q) /\ h \notin DOMAIN d /\ q = Parent(h)
    <3>1. e[q] = Node(d[q].type, d[q].mode, Now, d[q].data) /\ d[q].type = "dir"
      BY <1>2, <2>3
    <3>2. d[q].type \in {"file", "dir"} /\ d[q].mode \in {"rw", "ro"}
      BY <2>1 DEF IsNode
    <3> QED
      BY <3>1, <3>2, NodeFields DEF Alike
  <2> QED
    BY <1>1, <1>3, <2>2, <2>3
<1>4. \A q \in DOMAIN d : e[q].type = d[q].type
  BY <1>1, <1>3 DEF Alike
<1>5. HostTree(e)
  <2>1. <<>> \in DOMAIN e /\ DOMAIN e \subseteq Seq(Names)
    <3>1. DOMAIN d # {}
      OBVIOUS
    <3> QED
      BY <1>1, <3>1 DEF HostTree
  <2>2. ASSUME NEW q \in DOMAIN e
        PROVE  IsNode(e[q]) /\ (q # <<>> => Parent(q) \in DOMAIN e /\ e[Parent(q)].type = "dir")
    <3>1. IsNode(e[q])
      BY <1>1, <1>3
    <3>2. q # <<>> => Parent(q) \in DOMAIN d /\ d[Parent(q)].type = "dir"
      BY <1>1 DEF HostTree
    <3> QED
      BY <1>1, <1>4, <3>1, <3>2
  <2> QED
    BY <2>1, <2>2 DEF HostTree
<1> QED
  BY <1>1, <1>3, <1>4, <1>5 DEF Touched, e

\* Setting the metadata of a file.
Metadata(d, h, y, c) == [d EXCEPT ![h].mode = y, ![h].mtime = c]

LEMMA MetadataTouches ==
  ASSUME NEW d, HostTree(d), NEW h \in DOMAIN d, NEW y \in {"rw", "ro"}, NEW c
  PROVE  /\ Touched(d, Metadata(d, h, y, c), h) /\ DOMAIN Metadata(d, h, y, c) = DOMAIN d
         /\ Metadata(d, h, y, c)[h].type = d[h].type
         /\ Metadata(d, h, y, c)[h].mode = y
         /\ Metadata(d, h, y, c)[h] = Node(d[h].type, y, c, d[h].data)
<1> DEFINE x == [[d[h] EXCEPT !.mode = y] EXCEPT !.mtime = c]
           e == Metadata(d, h, y, c)
<1>1. DOMAIN e = DOMAIN d /\ e[h] = x /\ \A q \in DOMAIN d : q # h => e[q] = d[q]
  BY DEF Metadata
<1> HIDE DEF e
<1>2. IsNode(d[h])
  BY DEF HostTree
<1>3. x = Node(d[h].type, y, c, d[h].data)
  BY <1>2, Remoded
<1> HIDE DEF x
<1>4. d[h].type \in {"file", "dir"}
  BY <1>2 DEF IsNode
<1>5. /\ e[h].type = d[h].type /\ e[h].mode = y /\ e[h].mtime = c /\ e[h].data = d[h].data
      /\ IsNode(e[h])
  <2> DEFINE t == d[h].type
             a == d[h].data
  <2>1. e[h] = Node(t, y, c, a) /\ t \in {"file", "dir"}
    BY <1>1, <1>3, <1>4
  <2> HIDE DEF t, a
  <2>2. e[h].type = t /\ e[h].mode = y /\ e[h].mtime = c /\ e[h].data = a /\ IsNode(e[h])
    <3> DEFINE n == Node(t, y, c, a)
    <3>1. n.type = t /\ n.mode = y /\ n.mtime = c /\ n.data = a
      BY NodeFields
    <3>2. IsNode(n)
      BY <2>1, NodeFields
    <3> HIDE DEF n
    <3>3. e[h] = n
      BY <2>1 DEF n
    <3> QED
      BY <3>1, <3>2, <3>3
  <2> QED
    BY <2>2 DEF t, a
<1>6. \A q \in DOMAIN d : e[q].type = d[q].type /\ IsNode(e[q]) /\ (q # h => Alike(d, e, q))
  BY <1>1, <1>5 DEF HostTree, Alike
<1>7. HostTree(e)
  BY <1>1, <1>6 DEF HostTree
<1> QED
  BY <1>1, <1>3, <1>5, <1>6, <1>7 DEF Touched, e

LEMMA TouchedTwice ==
  ASSUME NEW d, NEW e, NEW f, NEW h, Touched(d, e, h), Touched(e, f, h)
  PROVE  Touched(d, f, h)
<1>1. DOMAIN e = DOMAIN d \cup {h} /\ DOMAIN f = DOMAIN d \cup {h} /\ HostTree(f)
  BY DEF Touched
<1>2. h \in DOMAIN d => f[h].type = d[h].type
  BY <1>1 DEF Touched
<1>3. ASSUME NEW q \in DOMAIN d, q # h
      PROVE  Alike(d, f, q)
  <2>1. Alike(d, e, q) /\ Alike(e, f, q)
    BY <1>1, <1>3 DEF Touched
  <2> QED
    BY <2>1 DEF Alike
<1> QED
  BY <1>1, <1>2, <1>3 DEF Touched

LEMMA DirectoryTouches ==
  ASSUME NEW d, HostTree(d), NEW h \in Seq(Names),
         h \notin DOMAIN d => Parent(h) \in DOMAIN d /\ d[Parent(h)].type = "dir"
  PROVE  /\ Touched(d, MadeDirectory(d, h), h) /\ h \in DOMAIN MadeDirectory(d, h)
         /\ h \notin DOMAIN d => /\ MadeDirectory(d, h)[h].type = "dir"
                                 /\ MadeDirectory(d, h)[h].mode = "rw"
         /\ h \in DOMAIN d => MadeDirectory(d, h) = d
<1>1. CASE h \in DOMAIN d
  <2>1. MadeDirectory(d, h) = d
    BY <1>1 DEF MadeDirectory
  <2> QED
    BY <1>1, <2>1 DEF Touched, Alike
<1>2. CASE h \notin DOMAIN d
  <2> DEFINE x == Node("dir", "rw", Now, NoData)
  <2>1. IsNode(x) /\ x.type = "dir" /\ x.mode = "rw"
    BY NodeFields
  <2> HIDE DEF x
  <2>2. Touched(d, Put(d, h, x), h) /\ Put(d, h, x)[h] = x
    BY <1>2, <2>1, PutTouches
  <2>3. MadeDirectory(d, h) = Put(d, h, x)
    BY <1>2 DEF MadeDirectory, x
  <2> QED
    BY <1>2, <2>1, <2>2, <2>3 DEF Touched
<1> QED
  BY <1>1, <1>2

\* The destination itself.
LEMMA DestinationMade ==
  ASSUME NEW d, HostTree(d)
  PROVE  HostTree(MadeDirectory(d, <<>>)) /\ <<>> \in DOMAIN MadeDirectory(d, <<>>)
<1>1. CASE <<>> \in DOMAIN d
  BY <1>1 DEF MadeDirectory
<1>2. CASE <<>> \notin DOMAIN d
  <2> DEFINE x == Node("dir", "rw", Now, NoData)
             e == MadeDirectory(d, <<>>)
  <2>1. IsNode(x)
    BY NodeFields
  <2> HIDE DEF x
  <2>2. e = Put(d, <<>>, x)
    BY <1>2 DEF MadeDirectory, x
  <2>3. DOMAIN e = {<<>>} /\ e[<<>>] = x
    BY <1>2, <2>2 DEF HostTree, Put
  <2> HIDE DEF e
  <2>4. <<>> \in Seq(Names)
    BY EmptySeq
  <2>5. HostTree(e)
    BY <2>1, <2>3, <2>4 DEF HostTree
  <2> QED
    BY <2>3, <2>5 DEF e
<1> QED
  BY <1>1, <1>2

-----------------------------------------------------------------------------
(* The invariant of the recursion.                                         *)

\* Only hosts of wanted paths are made or changed, with the type of what
\* is wanted there.
IsSpot(T, h) == \E k \in DOMAIN T : \E p \in WantedIn(T, k) \cup {<<>>} : h = HostIn(T, k, p)
KeptIn(T, b, d) ==
  /\ DOMAIN b \subseteq DOMAIN d
  /\ \A h \in DOMAIN b : /\ d[h].type = b[h].type
                         /\ ~IsSpot(T, h) => d[h].mode = b[h].mode /\ d[h].data = b[h].data
  /\ \A h \in DOMAIN d \ DOMAIN b :
       \E k \in DOMAIN T : \E p \in WantedIn(T, k) \cup {<<>>} :
         h = HostIn(T, k, p) /\ d[h].type = TypeIn(T, k, p)

Control ==
  /\ table \in Tables \cup {<<>>}
  /\ next \in 1 .. Len(table) + 1
  /\ ret \in {"running", "ok", "failed"}
  /\ ret = "ok" => next = Len(table) + 1
  /\ privileged \in BOOLEAN /\ injected \in BOOLEAN /\ lost \in BOOLEAN
  /\ calls \in 0 .. MaxCalls /\ faults \in 0 .. MaxFaults
  /\ lost => injected
Recursion ==
  /\ stack \in Stacks
  /\ stack # <<>> => ret = "running" /\ next > 1 /\ Nested(table, next - 1, stack)
  /\ \A j \in DOMAIN stack : stack[j].host \in DOMAIN disk
Kept ==
  /\ HostTree(disk) /\ HostTree(before) /\ KeptIn(table, before, disk)
  /\ ret = "running" => <<>> \in DOMAIN before
Base == Control /\ Recursion /\ Kept

LEMMA TableIs ==
  ASSUME Control
  PROVE  table \in Mounts /\ Len(table) \in Nat /\ DOMAIN table = 1 .. Len(table)
<1>1. <<>> \in Mounts
  BY EmptySeq DEF Mounts
<1>2. Tables \subseteq Mounts
  BY ExtractAssumption DEF Mounts
<1>3. table \in Mounts
  BY <1>1, <1>2 DEF Control
<1> QED
  BY <1>3, LenProperties DEF Mounts

\* What is at hand when an entry is taken.
LEMMA Taking ==
  ASSUME Base, Pending
  PROVE  /\ table \in Mounts /\ next - 1 \in DOMAIN table
         /\ stack \in Stacks /\ stack # <<>> /\ stack[1].left # <<>>
         /\ Nested(table, next - 1, stack)
         /\ From = FromOf(stack) /\ Target = HostIn(table, next - 1, From)
         /\ Target \in Seq(Names) /\ Target # <<>> /\ Parent(Target) = stack[1].host
         /\ Parent(Target) \in DOMAIN disk
         /\ stack[1].image = table[next - 1].image
         /\ From \in WantedIn(table, next - 1)
         /\ Entry.dir <=> TypeIn(table, next - 1, From) = "dir"
         /\ Consumed = ConsumedOf(stack)
         /\ Permissions(stack[1].image, From) \in {"rw", "ro"}
<1>1. table \in Mounts /\ Len(table) \in Nat /\ DOMAIN table = 1 .. Len(table)
  BY TableIs DEF Base
<1>2. /\ stack \in Stacks /\ stack # <<>> /\ stack[1].left # <<>>
      /\ Nested(table, next - 1, stack) /\ next > 1 /\ next \in 1 .. Len(table) + 1
  BY DEF Base, Recursion, Control, Pending
<1>3. next - 1 \in DOMAIN table
  BY <1>1, <1>2
<1>4. From = FromOf(stack) /\ Target = Append(stack[1].host, Head(stack[1].left).name)
  BY DEF From, FromOf, Entry, Target
<1>5. /\ Target = HostIn(table, next - 1, From) /\ Parent(Target) = stack[1].host
      /\ Target \in Seq(Names) /\ Target # <<>>
      /\ stack[1].image = table[next - 1].image /\ From \in WantedIn(table, next - 1)
      /\ Head(stack[1].left).dir <=> TypeIn(table, next - 1, From) = "dir"
      /\ From \in Paths(table[next - 1].image)
  <2> DEFINE m == next - 1
  <2>1. m \in DOMAIN table /\ Nested(table, m, stack) /\ stack \in Stacks
        /\ stack # <<>> /\ stack[1].left # <<>> /\ table \in Mounts
    BY <1>1, <1>2, <1>3
  <2> HIDE DEF m
  <2>2. /\ From \in WantedIn(table, m) /\ From \in Paths(table[m].image)
        /\ Head(stack[1].left).dir <=> TypeIn(table, m, From) = "dir"
        /\ stack[1].image = table[m].image
    BY <1>4, <2>1, FromIs
  <2>3. /\ Target = HostIn(table, m, From) /\ Parent(Target) = stack[1].host
        /\ Target \in Seq(Names) /\ Target # <<>>
    <3> DEFINE up == HostIn(table, m, FromOf(stack))
    <3>1. /\ Append(stack[1].host, Head(stack[1].left).name) = up
          /\ Parent(up) = stack[1].host /\ up \in Seq(Names) /\ up # <<>>
      BY <2>1, FromIs
    <3> HIDE DEF up
    <3>2. Target = up
      BY <1>4, <3>1
    <3>3. up = HostIn(table, m, From)
      BY <1>4 DEF up
    <3> QED
      BY <3>1, <3>2, <3>3
  <2> QED
    BY <2>2, <2>3 DEF m
<1>6. stack[1].host \in DOMAIN disk
  BY <1>2, LeftShape DEF Base, Recursion
<1>7. Permissions(stack[1].image, From) \in {"rw", "ro"}
  <2>1. table[next - 1].image \in DOMAIN Image
    BY <1>1, <1>3, MountOf
  <2> QED
    BY <1>5, <2>1, AnswersOfEntry
<1>8. Consumed = ConsumedOf(stack)
  BY DEF Consumed, ConsumedOf
<1> QED
  BY <1>1, <1>2, <1>3, <1>4, <1>5, <1>6, <1>7, <1>8 DEF Entry

LEMMA MetadataOf ==
  ASSUME Base, Pending, NEW d, HostTree(d), Target \in DOMAIN d
  PROVE  /\ Touched(d, WithMetadata(d), Target) /\ Target \in DOMAIN WithMetadata(d)
         /\ WithMetadata(d)[Target].type = d[Target].type
         /\ WithMetadata(d)[Target] =
              Node(d[Target].type, Permissions(stack[1].image, From),
                   ModificationTime(stack[1].image, From), d[Target].data)
         /\ WithMetadata(d)[Target].mode = Permissions(stack[1].image, From)
<1> DEFINE h == Target
           y == Permissions(stack[1].image, From)
           c == ModificationTime(stack[1].image, From)
           e == Metadata(d, h, y, c)
<1>1. y \in {"rw", "ro"} /\ h \in DOMAIN d
  BY Taking
<1>2. WithMetadata(d) = e
  BY DEF WithMetadata, Metadata
<1> HIDE DEF h, y, c
<1>3. /\ Touched(d, e, h) /\ DOMAIN e = DOMAIN d
      /\ e[h].type = d[h].type /\ e[h].mode = y
      /\ e[h] = Node(d[h].type, y, c, d[h].data)
  BY <1>1, MetadataTouches
<1> QED
  BY <1>1, <1>2, <1>3 DEF h, y, c

\* A wanted directory or file is all that an entry touches.
LEMMA EnterEffect ==
  ASSUME Base, EnterDirectory
  PROVE  /\ Pending
         /\ Target \in DOMAIN disk \/ CanCreate(Target)
         /\ TypeIn(table, next - 1, From) = "dir"
         /\ Touched(disk, disk', Target) /\ Target \in DOMAIN disk'
         /\ Target \notin DOMAIN disk => disk'[Target].type = "dir"
         /\ disk'[Target].mode = Permissions(stack[1].image, From)
              \/ (lost' = TRUE /\ injected' = TRUE)
         /\ stack' = EnteredOf(table, next - 1, stack)
<1> DEFINE d == MadeDirectory(disk, Target)
<1>1. Pending /\ DirectoryReady
  BY DEF EnterDirectory
<1>2. /\ Target \in DOMAIN disk \/ CanCreate(Target)
      /\ Entry.dir
  BY <1>1 DEF DirectoryReady
<1>3. HostTree(disk) /\ Target \in Seq(Names)
      /\ (Target \notin DOMAIN disk => Parent(Target) \in DOMAIN disk /\ disk[Parent(Target)].type = "dir")
  BY <1>1, <1>2, Taking DEF Base, Kept, CanCreate
<1>4. /\ Touched(disk, d, Target) /\ Target \in DOMAIN d
      /\ Target \notin DOMAIN disk => d[Target].type = "dir"
  BY <1>3, DirectoryTouches
<1>5. WithDirectory(Target) = d
  BY DEF WithDirectory, MadeDirectory
<1> HIDE DEF d
<1>6. HostTree(d)
  BY <1>4 DEF Touched
<1>7. /\ Touched(d, WithMetadata(d), Target) /\ Target \in DOMAIN WithMetadata(d)
      /\ WithMetadata(d)[Target].type = d[Target].type
      /\ WithMetadata(d)[Target].mode = Permissions(stack[1].image, From)
  BY <1>1, <1>4, <1>6, MetadataOf
<1>8. stack' = EnteredOf(table, next - 1, stack)
  <2>1. stack' = <<Frame(stack[1].image, From, Target)>> \o Consumed
    BY DEF EnterDirectory
  <2> QED
    BY <1>1, <2>1, Taking DEF EnteredOf
<1>9. \/ disk' = WithMetadata(d)
      \/ disk' = d /\ lost' = TRUE /\ injected' = TRUE
  BY <1>5 DEF EnterDirectory, Fault
<1>10. TypeIn(table, next - 1, From) = "dir"
  BY <1>1, <1>2, Taking
<1>11. CASE disk' = WithMetadata(d)
  BY <1>1, <1>2, <1>4, <1>7, <1>8, <1>10, <1>11, TouchedTwice
<1>12. CASE disk' = d /\ lost' = TRUE /\ injected' = TRUE
  BY <1>1, <1>2, <1>4, <1>8, <1>10, <1>12
<1> QED
  BY <1>9, <1>11, <1>12

LEMMA FileMade ==
  ASSUME Base, Pending, FileReady, NEW bytes
  PROVE  LET d == Put(disk, Target, Node("file", "rw", Now, bytes))
         IN  /\ Touched(disk, d, Target) /\ Target \in DOMAIN d /\ HostTree(d)
             /\ d[Target].type = "file" /\ d[Target].data = bytes
             /\ TypeIn(table, next - 1, From) = "file"
             /\ \/ Target \in DOMAIN disk /\ CanOverwrite(Target)
                \/ Target \notin DOMAIN disk /\ CanCreate(Target)
<1> DEFINE x == Node("file", "rw", Now, bytes)
           d == Put(disk, Target, x)
<1>1. IsNode(x) /\ x.type = "file" /\ x.data = bytes
  BY NodeFields
<1>2. /\ \/ Target \in DOMAIN disk /\ CanOverwrite(Target)
         \/ Target \notin DOMAIN disk /\ CanCreate(Target)
      /\ OpenErrno(stack[1].image, From) = "OK"
  BY DEF FileReady
<1>3. TypeIn(table, next - 1, From) = "file"
  <2>1. /\ stack[1].image = table[next - 1].image /\ From \in WantedIn(table, next - 1)
        /\ table \in Mounts /\ next - 1 \in DOMAIN table
    BY Taking
  <2>2. From \in Paths(table[next - 1].image) /\ table[next - 1].image \in DOMAIN Image
    BY <2>1, WantedPath, MountOf
  <2> QED
    BY <1>2, <2>1, <2>2, AnswersOfEntry DEF TypeIn
<1>4. HostTree(disk) /\ Target \in Seq(Names)
  BY Taking DEF Base, Kept
<1> HIDE DEF x
<1>5. Touched(disk, d, Target) /\ d[Target] = x
  BY <1>1, <1>2, <1>4, PutTouches DEF CanOverwrite, CanCreate
<1> HIDE DEF d
<1>6. HostTree(d) /\ Target \in DOMAIN d
  BY <1>5 DEF Touched
<1> QED
  BY <1>1, <1>2, <1>3, <1>5, <1>6 DEF d, x

LEMMA ExtractEffect ==
  ASSUME Base, ExtractFile
  PROVE  /\ Pending
         /\ \/ Target \in DOMAIN disk /\ CanOverwrite(Target)
            \/ Target \notin DOMAIN disk /\ CanCreate(Target)
         /\ TypeIn(table, next - 1, From) = "file"
         /\ Touched(disk, disk', Target) /\ Target \in DOMAIN disk'
         /\ disk'[Target].type = "file"
         /\ \/ disk'[Target] = Node("file", Permissions(stack[1].image, From),
                                    ModificationTime(stack[1].image, From), <<stack[1].image, From>>)
            \/ lost' = TRUE /\ injected' = TRUE
         /\ stack' = ConsumedOf(stack)
<1> DEFINE Made(bytes) == Put(disk, Target, Node("file", "rw", Now, bytes))
           data == <<stack[1].image, From>>
<1>1. Pending /\ FileReady
  BY DEF ExtractFile
<1>2. ASSUME NEW bytes
      PROVE  /\ Touched(disk, Made(bytes), Target) /\ Target \in DOMAIN Made(bytes) /\ HostTree(Made(bytes))
             /\ Made(bytes)[Target].type = "file" /\ Made(bytes)[Target].data = bytes
             /\ TypeIn(table, next - 1, From) = "file"
             /\ \/ Target \in DOMAIN disk /\ CanOverwrite(Target)
                \/ Target \notin DOMAIN disk /\ CanCreate(Target)
  BY <1>1, FileMade
<1>3. \/ disk' = WithMetadata(Made(data))
      \/ /\ disk' = Made(data) \/ disk' = WithMetadata(Made(Half(data)))
         /\ lost' = TRUE /\ injected' = TRUE
  BY DEF ExtractFile, Fault
<1>4. stack' = ConsumedOf(stack)
  BY <1>1, Taking DEF ExtractFile
<1> HIDE DEF Made, data
<1>5. ASSUME NEW bytes
      PROVE  LET e == WithMetadata(Made(bytes))
             IN  /\ Touched(disk, e, Target) /\ Target \in DOMAIN e /\ e[Target].type = "file"
                 /\ e[Target] = Node("file", Permissions(stack[1].image, From),
                                     ModificationTime(stack[1].image, From), bytes)
  <2> DEFINE d == Made(bytes)
             e == WithMetadata(d)
  <2>1. Touched(disk, d, Target) /\ HostTree(d) /\ Target \in DOMAIN d
        /\ d[Target].type = "file" /\ d[Target].data = bytes
    BY <1>2
  <2> HIDE DEF d
  <2>2. /\ Touched(d, WithMetadata(d), Target) /\ Target \in DOMAIN WithMetadata(d)
        /\ WithMetadata(d)[Target].type = d[Target].type
        /\ WithMetadata(d)[Target] =
              Node(d[Target].type, Permissions(stack[1].image, From),
                   ModificationTime(stack[1].image, From), d[Target].data)
    BY <1>1, <2>1, MetadataOf
  <2> HIDE DEF e
  <2>3. Touched(disk, e, Target)
    BY <2>1, <2>2, TouchedTwice DEF e
  <2> QED
    BY <2>1, <2>2, <2>3 DEF d, e
<1>6. CASE disk' = WithMetadata(Made(data))
  BY <1>1, <1>2, <1>4, <1>5, <1>6 DEF data
<1>7. CASE /\ disk' = Made(data) \/ disk' = WithMetadata(Made(Half(data)))
           /\ lost' = TRUE /\ injected' = TRUE
  BY <1>1, <1>2, <1>4, <1>5, <1>7
<1> QED
  BY <1>3, <1>6, <1>7

LEMMA FailEffect ==
  ASSUME Base, HostFails
  PROVE  /\ Pending /\ injected' = TRUE /\ ret' = "failed" /\ stack' = <<>>
         /\ \/ disk' = disk
            \/ /\ Touched(disk, disk', Target)
               /\ disk'[Target].type = TypeIn(table, next - 1, From) \/ Target \in DOMAIN disk
<1>1. Pending /\ injected' = TRUE /\ ret' = "failed" /\ stack' = <<>>
  BY DEF HostFails, Fault, GiveUp
<1>2. CASE FileReady /\ disk' = Put(disk, Target, Node("file", "rw", Now, Half(<<stack[1].image, From>>)))
  BY <1>1, <1>2, FileMade
<1>3. CASE DirectoryReady /\ disk' = WithDirectory(Target)
  <2>1. Entry.dir /\ (Target \in DOMAIN disk \/ CanCreate(Target))
    BY <1>3 DEF DirectoryReady
  <2>2. disk' = MadeDirectory(disk, Target)
    BY <1>3 DEF WithDirectory, MadeDirectory
  <2>3. /\ HostTree(disk) /\ Target \in Seq(Names)
        /\ Target \notin DOMAIN disk => Parent(Target) \in DOMAIN disk /\ disk[Parent(Target)].type = "dir"
        /\ TypeIn(table, next - 1, From) = "dir"
    BY <1>1, <2>1, Taking DEF Base, Kept, CanCreate
  <2>4. /\ Touched(disk, MadeDirectory(disk, Target), Target)
        /\ Target \notin DOMAIN disk => MadeDirectory(disk, Target)[Target].type = "dir"
    BY <2>3, DirectoryTouches
  <2> QED
    BY <1>1, <2>2, <2>3, <2>4
<1> QED
  BY <1>1, <1>2, <1>3 DEF HostFails

LEMMA StartEffect ==
  ASSUME Base, StartMount
  PROVE  /\ table \in Mounts /\ next \in DOMAIN table /\ Root(next) = RootIn(table, next)
         /\ Touched(disk, disk', Root(next)) /\ Root(next) \in DOMAIN disk'
         /\ Root(next) \notin DOMAIN disk =>
              CanCreate(Root(next)) /\ disk'[Root(next)].type = "dir" /\ disk'[Root(next)].mode = "rw"
         /\ Root(next) \in DOMAIN disk => disk' = disk
         /\ stack' = StartedOf(table, next)
<1>1. table \in Mounts /\ Len(table) \in Nat /\ DOMAIN table = 1 .. Len(table)
  BY TableIs DEF Base
<1>2. next \in DOMAIN table
  BY <1>1 DEF StartMount, Base, Control
<1>3. Root(next) = RootIn(table, next) /\ Root(next) \in Seq(Names)
  BY <1>1, <1>2, MountOf DEF Root, RootIn
<1>4. Root(next) \notin DOMAIN disk => CanCreate(Root(next))
  BY DEF StartMount
<1>5. disk' = MadeDirectory(disk, Root(next)) /\ stack' = StartedOf(table, next)
  BY <1>3 DEF StartMount, WithDirectory, MadeDirectory, StartedOf
<1>6. HostTree(disk)
  BY DEF Base, Kept
<1> DEFINE h == Root(next)
<1>7. /\ h \in Seq(Names)
      /\ h \notin DOMAIN disk => Parent(h) \in DOMAIN disk /\ disk[Parent(h)].type = "dir"
  BY <1>3, <1>4 DEF CanCreate
<1> HIDE DEF h
<1>8. /\ Touched(disk, MadeDirectory(disk, h), h) /\ h \in DOMAIN MadeDirectory(disk, h)
      /\ h \notin DOMAIN disk => /\ MadeDirectory(disk, h)[h].type = "dir"
                                 /\ MadeDirectory(disk, h)[h].mode = "rw"
      /\ h \in DOMAIN disk => MadeDirectory(disk, h) = disk
  BY <1>6, <1>7, DirectoryTouches
<1> QED
  BY <1>1, <1>2, <1>3, <1>4, <1>5, <1>8 DEF h

LEMMA SubtreeEffect ==
  ASSUME Base, SubtreeFails
  PROVE  /\ table \in Mounts /\ next \in DOMAIN table /\ Root(next) = RootIn(table, next)
         /\ ret' = "failed" /\ stack' = <<>>
         /\ \/ disk' = disk
            \/ /\ Touched(disk, disk', Root(next)) /\ injected' = TRUE
               /\ Root(next) \in DOMAIN disk \/ disk'[Root(next)].type = "dir"
         /\ injected' = TRUE \/ (/\ Root(next) \notin DOMAIN disk /\ ~CanCreate(Root(next))
                                 /\ injected' = injected /\ faults' = faults)
<1>1. table \in Mounts /\ Len(table) \in Nat /\ DOMAIN table = 1 .. Len(table)
  BY TableIs DEF Base
<1>2. next \in DOMAIN table
  BY <1>1 DEF SubtreeFails, Base, Control
<1>3. Root(next) = RootIn(table, next) /\ Root(next) \in Seq(Names)
  BY <1>1, <1>2, MountOf DEF Root, RootIn
<1>4. ret' = "failed" /\ stack' = <<>>
  BY DEF SubtreeFails, GiveUp
<1>5. HostTree(disk)
  BY DEF Base, Kept
<1>6. \/ disk' = disk
      \/ CanCreate(Root(next)) /\ disk' = MadeDirectory(disk, Root(next)) /\ injected' = TRUE
  BY DEF SubtreeFails, Fault, WithDirectory, MadeDirectory
<1>7. injected' = TRUE \/ (/\ Root(next) \notin DOMAIN disk /\ ~CanCreate(Root(next))
                           /\ injected' = injected /\ faults' = faults)
  BY DEF SubtreeFails, Fault
<1>8. CASE disk' = disk
  BY <1>1, <1>2, <1>3, <1>4, <1>7, <1>8
<1>9. CASE CanCreate(Root(next)) /\ disk' = MadeDirectory(disk, Root(next)) /\ injected' = TRUE
  <2> DEFINE h == Root(next)
  <2>1. /\ h \in Seq(Names)
        /\ h \notin DOMAIN disk => Parent(h) \in DOMAIN disk /\ disk[Parent(h)].type = "dir"
    BY <1>3, <1>9 DEF CanCreate
  <2> HIDE DEF h
  <2>2. /\ Touched(disk, MadeDirectory(disk, h), h)
        /\ h \notin DOMAIN disk => MadeDirectory(disk, h)[h].type = "dir"
    BY <1>5, <2>1, DirectoryTouches
  <2> QED
    BY <1>1, <1>2, <1>3, <1>4, <1>7, <1>9, <2>2 DEF h
<1> QED
  BY <1>6, <1>8, <1>9

\* Touching the host of a wanted path keeps to what is wanted.
LEMMA KeptTouched ==
  ASSUME NEW T, NEW b, NEW d, NEW e, KeptIn(T, b, d), NEW h, Touched(d, e, h),
         NEW k \in DOMAIN T, NEW p \in WantedIn(T, k) \cup {<<>>}, h = HostIn(T, k, p),
         h \notin DOMAIN d => e[h].type = TypeIn(T, k, p)
  PROVE  KeptIn(T, b, e)
<1>1. /\ DOMAIN e = DOMAIN d \cup {h} /\ DOMAIN b \subseteq DOMAIN d
      /\ \A q \in DOMAIN d : e[q].type = d[q].type
      /\ \A q \in DOMAIN d : q # h => e[q].mode = d[q].mode /\ e[q].data = d[q].data
  BY DEF Touched, KeptIn, Alike
<1>2. IsSpot(T, h)
  BY DEF IsSpot
<1>3. ASSUME NEW q \in DOMAIN b
      PROVE  /\ e[q].type = b[q].type
             /\ ~IsSpot(T, q) => e[q].mode = b[q].mode /\ e[q].data = b[q].data
  BY <1>1, <1>2 DEF KeptIn
<1>4. ASSUME NEW q \in DOMAIN e \ DOMAIN b
      PROVE  \E l \in DOMAIN T : \E r \in WantedIn(T, l) \cup {<<>>} :
               q = HostIn(T, l, r) /\ e[q].type = TypeIn(T, l, r)
  <2>1. CASE q \in DOMAIN d
    <3>1. PICK l \in DOMAIN T : \E r \in WantedIn(T, l) \cup {<<>>} :
                 q = HostIn(T, l, r) /\ d[q].type = TypeIn(T, l, r)
      BY <2>1 DEF KeptIn
    <3> QED
      BY <1>1, <2>1, <3>1
  <2>2. CASE q \notin DOMAIN d
    <3>1. q = h
      BY <1>1, <2>2
    <3> QED
      BY <2>2, <3>1
  <2> QED
    BY <2>1, <2>2
<1> QED
  BY <1>1, <1>3, <1>4 DEF KeptIn

\* The hosts of the calls.
LEMMA ConsumedHosts ==
  ASSUME NEW s \in Stacks, s # <<>>, s[1].left # <<>>, NEW j \in DOMAIN ConsumedOf(s)
  PROVE  j \in DOMAIN s /\ ConsumedOf(s)[j].host = s[j].host /\ ConsumedOf(s)[j].path = s[j].path
<1> DEFINE c == ConsumedOf(s)
<1>1. /\ c \in Stacks /\ Len(c) = Len(s) /\ Len(s) \in Nat \ {0} /\ DOMAIN s = 1 .. Len(s)
      /\ c[1] = [s[1] EXCEPT !.left = Tail(@)] /\ \A i \in 2 .. Len(s) : c[i] = s[i]
      /\ s[1] \in Frames
  BY ConsumedShape, LeftShape
<1>2. j \in 1 .. Len(s)
  BY <1>1, LenProperties DEF Stacks
<1> HIDE DEF c
<1>3. j = 1 \/ j \in 2 .. Len(s)
  BY <1>1, <1>2
<1>4. c[1].host = s[1].host /\ c[1].path = s[1].path
  BY <1>1 DEF Frames
<1> QED
  BY <1>1, <1>2, <1>3, <1>4 DEF c

LEMMA EnteredHosts ==
  ASSUME NEW T \in Mounts, NEW m \in DOMAIN T, NEW s \in Stacks, s # <<>>, s[1].left # <<>>,
         Nested(T, m, s), NEW j \in DOMAIN EnteredOf(T, m, s)
  PROVE  \/ /\ EnteredOf(T, m, s)[j].host = HostIn(T, m, FromOf(s))
            /\ EnteredOf(T, m, s)[j].path = FromOf(s)
         \/ \E i \in DOMAIN s : /\ EnteredOf(T, m, s)[j].host = s[i].host
                                /\ EnteredOf(T, m, s)[j].path = s[i].path
<1> DEFINE c == ConsumedOf(s)
           f == Frame(T[m].image, FromOf(s), HostIn(T, m, FromOf(s)))
           e == EnteredOf(T, m, s)
<1>1. f \in Frames /\ f.path = FromOf(s) /\ f.host = HostIn(T, m, FromOf(s))
  BY FromIs, MountOf, NewFrame
<1>2. c \in Stacks
  BY ConsumedShape
<1> HIDE DEF c, f
<1>3. /\ e \in Stacks /\ Len(e) = Len(c) + 1 /\ Len(c) \in Nat /\ e[1] = f
      /\ \A i \in 1 .. Len(c) : e[i + 1] = c[i]
  BY <1>1, <1>2, PushProperties DEF Stacks, EnteredOf, c, f
<1>4. DOMAIN e = 1 .. Len(c) + 1 /\ DOMAIN c = 1 .. Len(c)
  BY <1>2, <1>3, LenProperties DEF Stacks
<1> HIDE DEF e
<1>5. j \in DOMAIN e
  BY DEF e
<1>6. CASE j = 1
  BY <1>1, <1>3, <1>6 DEF e
<1>7. CASE j # 1
  <2>1. j - 1 \in 1 .. Len(c) /\ (j - 1) + 1 = j
    BY <1>3, <1>4, <1>5, <1>7
  <2>2. e[j] = c[j - 1] /\ j - 1 \in DOMAIN c
    BY <1>3, <1>4, <2>1
  <2>3. j - 1 \in DOMAIN s /\ c[j - 1].host = s[j - 1].host /\ c[j - 1].path = s[j - 1].path
    BY <2>2, ConsumedHosts DEF c
  <2> QED
    BY <2>2, <2>3 DEF e
<1> QED
  BY <1>6, <1>7

-----------------------------------------------------------------------------
(* Every step keeps the invariant.                                         *)

LEMMA BaseInit ==
  ASSUME Init
  PROVE  Base
<1>1. disk \in Disks /\ before = disk /\ table = <<>> /\ stack = <<>> /\ next = 1 /\ ret = "ok"
  BY DEF Init
<1>2. HostTree(disk)
  BY <1>1, ExtractAssumption DEF HostTree, IsNode, Node
<1>3. Control
  <2>1. Len(table) = 0 /\ MaxCalls \in Nat /\ MaxFaults \in Nat
    BY <1>1, ExtractAssumption
  <2>2. next \in 1 .. Len(table) + 1 /\ (ret = "ok" => next = Len(table) + 1)
    BY <1>1, <2>1
  <2>3. calls \in 0 .. MaxCalls /\ faults \in 0 .. MaxFaults
    BY <2>1 DEF Init
  <2>4. /\ privileged \in BOOLEAN /\ injected \in BOOLEAN /\ lost \in BOOLEAN
        /\ lost => injected
    BY DEF Init
  <2> QED
    BY <1>1, <2>2, <2>3, <2>4 DEF Control
<1>4. Recursion
  <2>1. stack \in Stacks /\ DOMAIN stack = {}
    BY <1>1, EmptySeq DEF Stacks
  <2> QED
    BY <1>1, <2>1 DEF Recursion
<1>5. KeptIn(table, before, disk)
  BY <1>1 DEF KeptIn
<1> QED
  BY <1>1, <1>2, <1>3, <1>4, <1>5 DEF Base, Kept

LEMMA BaseExtractAll ==
  ASSUME Base, NEW t \in Tables, ExtractAll(t)
  PROVE  Base'
<1>1. /\ table' = t /\ next' = 1 /\ calls < MaxCalls /\ calls' = calls + 1 /\ before' = disk'
      /\ lost' = FALSE /\ stack' = stack /\ privileged' = privileged /\ ret # "running"
  BY DEF ExtractAll
<1>2. /\ injected' \in BOOLEAN /\ ret' \in {"running", "failed"}
      /\ faults' = faults \/ (faults < MaxFaults /\ faults' = faults + 1)
      /\ disk' = disk \/ disk' = MadeDirectory(disk, <<>>)
      /\ ret' = "running" => disk' = MadeDirectory(disk, <<>>)
  BY DEF ExtractAll, NothingMounted, DestinationReady, DestinationFails, Destination, Fault,
         WithDirectory, MadeDirectory
<1>3. stack = <<>>
  BY <1>1 DEF Base, Recursion
<1>4. HostTree(disk') /\ (ret' = "running" => <<>> \in DOMAIN disk')
  <2>1. HostTree(disk)
    BY DEF Base, Kept
  <2> DEFINE e == MadeDirectory(disk, <<>>)
  <2>2. HostTree(e) /\ <<>> \in DOMAIN e
    BY <2>1, DestinationMade
  <2> HIDE DEF e
  <2> QED
    BY <1>2, <2>1, <2>2 DEF e
<1>5. Control'
  <2>1. calls' \in 0 .. MaxCalls
    BY <1>1, ExtractAssumption DEF Base, Control
  <2>2. next' \in 1 .. Len(table') + 1
    <3>1. t \in Seq([base : Names, image : DOMAIN Image])
      BY ExtractAssumption
    <3>2. Len(t) \in Nat
      BY <3>1, LenProperties
    <3> QED
      BY <1>1, <3>2
  <2>3. faults' \in 0 .. MaxFaults
    BY <1>2, ExtractAssumption DEF Base, Control
  <2> QED
    BY <1>1, <1>2, <2>1, <2>2, <2>3 DEF Base, Control
<1>6. Recursion'
  <2>1. stack' \in Stacks /\ DOMAIN stack' = {}
    BY <1>1, <1>3, EmptySeq DEF Stacks
  <2> QED
    BY <1>1, <1>3, <2>1 DEF Recursion
<1>7. Kept'
  BY <1>1, <1>4 DEF Kept, KeptIn
<1> QED
  BY <1>5, <1>6, <1>7 DEF Base

LEMMA BaseEnterDirectory ==
  ASSUME Base, EnterDirectory
  PROVE  Base'
<1> DEFINE m == next - 1
           e == EnteredOf(table, m, stack)
<1>1. /\ table' = table /\ next' = next /\ ret' = ret /\ privileged' = privileged
      /\ calls' = calls /\ before' = before
      /\ \/ UNCHANGED <<faults, injected, lost>>
         \/ faults < MaxFaults /\ faults' = faults + 1 /\ injected' = TRUE /\ lost' = TRUE
  BY DEF EnterDirectory, Fault
<1>2. /\ Pending /\ TypeIn(table, m, From) = "dir"
      /\ Touched(disk, disk', Target) /\ Target \in DOMAIN disk'
      /\ Target \notin DOMAIN disk => disk'[Target].type = "dir"
      /\ stack' = e
  BY EnterEffect
<1>3. /\ table \in Mounts /\ m \in DOMAIN table /\ stack \in Stacks /\ stack # <<>>
      /\ stack[1].left # <<>> /\ Nested(table, m, stack)
      /\ From = FromOf(stack) /\ Target = HostIn(table, m, From) /\ From \in WantedIn(table, m)
  BY <1>2, Taking
<1>4. e \in Stacks /\ Nested(table, m, e)
  BY <1>2, <1>3, NestedEntered
<1>5. ret = "running" /\ next > 1
  BY <1>2 DEF Base, Recursion, Pending
<1>6. DOMAIN disk' = DOMAIN disk \cup {Target} /\ HostTree(disk')
  BY <1>2 DEF Touched
<1>7. ASSUME NEW j \in DOMAIN e
      PROVE  e[j].host \in DOMAIN disk'
  BY <1>3, <1>6, EnteredHosts DEF Base, Recursion
<1>8. KeptIn(table, before, disk')
  BY <1>2, <1>3, KeptTouched DEF Base, Kept
<1>9. Control'
  <2>1. faults' \in 0 .. MaxFaults
    BY <1>1, ExtractAssumption DEF Base, Control
  <2>2. injected' \in BOOLEAN /\ lost' \in BOOLEAN /\ (lost' => injected')
    <3>1. injected \in BOOLEAN /\ lost \in BOOLEAN /\ (lost => injected)
      BY DEF Base, Control
    <3>2. CASE injected' = injected /\ lost' = lost
      BY <3>1, <3>2, Zenon
    <3>3. CASE injected' = TRUE /\ (lost' = TRUE \/ lost' = lost)
      BY <3>1, <3>3, Zenon
    <3> QED
      BY <1>1, <3>2, <3>3
  <2> QED
    BY <1>1, <1>5, <2>1, <2>2 DEF Base, Control
<1> HIDE DEF e
<1>10. Recursion'
  BY <1>1, <1>2, <1>4, <1>5, <1>7 DEF Recursion
<1>11. Kept'
  BY <1>1, <1>6, <1>8 DEF Base, Kept
<1> QED
  BY <1>9, <1>10, <1>11 DEF Base

LEMMA BaseExtractFile ==
  ASSUME Base, ExtractFile
  PROVE  Base'
<1> DEFINE m == next - 1
           c == ConsumedOf(stack)
<1>1. /\ table' = table /\ next' = next /\ ret' = ret /\ privileged' = privileged
      /\ calls' = calls /\ before' = before
      /\ \/ UNCHANGED <<faults, injected, lost>>
         \/ faults < MaxFaults /\ faults' = faults + 1 /\ injected' = TRUE /\ lost' = TRUE
  BY DEF ExtractFile, Fault
<1>2. /\ Pending /\ TypeIn(table, m, From) = "file"
      /\ Touched(disk, disk', Target) /\ Target \in DOMAIN disk'
      /\ disk'[Target].type = "file"
      /\ stack' = c
  BY ExtractEffect
<1>3. /\ table \in Mounts /\ m \in DOMAIN table /\ stack \in Stacks /\ stack # <<>>
      /\ stack[1].left # <<>> /\ Nested(table, m, stack)
      /\ From = FromOf(stack) /\ Target = HostIn(table, m, From) /\ From \in WantedIn(table, m)
  BY <1>2, Taking
<1>4. c \in Stacks /\ Nested(table, m, c)
  BY <1>3, NestedConsumed, ConsumedShape
<1>5. ret = "running" /\ next > 1
  BY <1>2 DEF Base, Recursion, Pending
<1>6. DOMAIN disk' = DOMAIN disk \cup {Target} /\ HostTree(disk')
  BY <1>2 DEF Touched
<1>7. ASSUME NEW j \in DOMAIN c
      PROVE  c[j].host \in DOMAIN disk'
  BY <1>3, <1>6, ConsumedHosts DEF Base, Recursion
<1>8. KeptIn(table, before, disk')
  BY <1>2, <1>3, KeptTouched DEF Base, Kept
<1>9. Control'
  <2>1. faults' \in 0 .. MaxFaults
    BY <1>1, ExtractAssumption DEF Base, Control
  <2>2. injected' \in BOOLEAN /\ lost' \in BOOLEAN /\ (lost' => injected')
    <3>1. injected \in BOOLEAN /\ lost \in BOOLEAN /\ (lost => injected)
      BY DEF Base, Control
    <3>2. CASE injected' = injected /\ lost' = lost
      BY <3>1, <3>2, Zenon
    <3>3. CASE injected' = TRUE /\ (lost' = TRUE \/ lost' = lost)
      BY <3>1, <3>3, Zenon
    <3> QED
      BY <1>1, <3>2, <3>3
  <2> QED
    BY <1>1, <1>5, <2>1, <2>2 DEF Base, Control
<1> HIDE DEF c
<1>10. Recursion'
  BY <1>1, <1>2, <1>4, <1>5, <1>7 DEF Recursion
<1>11. Kept'
  BY <1>1, <1>6, <1>8 DEF Base, Kept
<1> QED
  BY <1>9, <1>10, <1>11 DEF Base

LEMMA BaseLeaveDirectory ==
  ASSUME Base, LeaveDirectory
  PROVE  Base'
<1>1. /\ UNCHANGED <<table, disk, next, ret, privileged, calls, faults, before, injected, lost>>
      /\ stack' = Tail(stack) /\ stack # <<>> /\ stack[1].left = <<>>
  BY DEF LeaveDirectory
<1>2. Control' /\ Kept'
  BY <1>1 DEF Base, Control, Kept
<1>3. /\ table \in Mounts /\ next - 1 \in DOMAIN table /\ next > 1 /\ ret = "running"
      /\ stack \in Stacks /\ Nested(table, next - 1, stack)
  BY <1>1, TableIs DEF Base, Control, Recursion
<1>4. Tail(stack) \in Stacks /\ Nested(table, next - 1, Tail(stack))
  BY <1>1, <1>3, NestedPopped, PoppedShape
<1>5. \A j \in DOMAIN Tail(stack) : Tail(stack)[j].host \in DOMAIN disk
  BY <1>1, <1>3, PoppedShape DEF Base, Recursion
<1>6. Recursion'
  BY <1>1, <1>3, <1>4, <1>5 DEF Recursion
<1> QED
  BY <1>2, <1>6 DEF Base

LEMMA BaseStartMount ==
  ASSUME Base, StartMount
  PROVE  Base'
<1> DEFINE e == StartedOf(table, next)
           r == RootIn(table, next)
<1>1. /\ UNCHANGED <<table, ret, privileged, calls, faults, before, injected, lost>>
      /\ next' = next + 1 /\ next <= Len(table) /\ ret = "running"
  BY DEF StartMount
<1>2. /\ table \in Mounts /\ next \in DOMAIN table /\ Touched(disk, disk', r) /\ r \in DOMAIN disk'
      /\ r \notin DOMAIN disk => disk'[r].type = "dir"
      /\ stack' = e
  BY StartEffect
<1>3. next \in 1 .. Len(table) /\ Len(table) \in Nat
  BY <1>1, <1>2, MountOf
<1>4. /\ e \in Stacks /\ Nested(table, next, e) /\ Len(e) = 1 /\ e[1].host = r
  BY <1>2, StartedIs
<1>5. r = HostIn(table, next, <<>>) /\ TypeIn(table, next, <<>>) = "dir"
  BY <1>2, HostRoot DEF TypeIn, TypeAt
<1>6. KeptIn(table, before, disk')
  BY <1>2, <1>5, KeptTouched DEF Base, Kept
<1>7. HostTree(disk')
  BY <1>2 DEF Touched
<1>8. Control'
  BY <1>1, <1>3 DEF Base, Control
<1>9. \A j \in DOMAIN e : e[j].host \in DOMAIN disk'
  <2>1. DOMAIN e = 1 .. 1
    BY <1>4, LenProperties DEF Stacks
  <2>2. \A j \in DOMAIN e : j = 1
    BY <2>1
  <2> QED
    BY <1>2, <1>4, <2>2
<1> HIDE DEF e, r
<1>10. next' > 1 /\ next' - 1 = next
  BY <1>1, <1>3
<1>11. Nested(table', next' - 1, stack')
  BY <1>1, <1>2, <1>4, <1>10
<1>12. Recursion'
  BY <1>1, <1>2, <1>4, <1>9, <1>10, <1>11 DEF Recursion
<1>13. Kept'
  BY <1>1, <1>6, <1>7 DEF Base, Kept
<1> QED
  BY <1>8, <1>12, <1>13 DEF Base

\* A call that fails has no frame left.
LEMMA BaseFailed ==
  ASSUME Base, stack' = <<>>, ret' = "failed", UNCHANGED <<table, next, privileged, calls, before>>,
         UNCHANGED <<faults, injected, lost>>
           \/ (faults < MaxFaults /\ faults' = faults + 1 /\ injected' = TRUE /\ lost' = lost),
         HostTree(disk'), KeptIn(table, before, disk')
  PROVE  Base'
<1>1. Control'
  <2>1. faults' \in 0 .. MaxFaults
    BY ExtractAssumption DEF Base, Control
  <2>2. injected' \in BOOLEAN /\ lost' \in BOOLEAN /\ (lost' => injected')
    <3>1. injected \in BOOLEAN /\ lost \in BOOLEAN /\ (lost => injected)
      BY DEF Base, Control
    <3>2. CASE injected' = injected /\ lost' = lost
      BY <3>1, <3>2, Zenon
    <3>3. CASE injected' = TRUE /\ (lost' = TRUE \/ lost' = lost)
      BY <3>1, <3>3, Zenon
    <3> QED
      BY <3>2, <3>3
  <2> QED
    BY <2>1, <2>2 DEF Base, Control
<1>2. Recursion'
  <2>1. stack' \in Stacks /\ DOMAIN stack' = {}
    BY EmptySeq DEF Stacks
  <2> QED
    BY <2>1 DEF Recursion
<1>3. Kept'
  BY DEF Base, Kept
<1> QED
  BY <1>1, <1>2, <1>3 DEF Base

LEMMA BaseFails ==
  ASSUME Base, SubtreeFails \/ EntryFails \/ HostFails
  PROVE  Base'
<1>1. /\ stack' = <<>> /\ ret' = "failed" /\ UNCHANGED <<table, next, privileged, calls, before>>
      /\ \/ UNCHANGED <<faults, injected, lost>>
         \/ faults < MaxFaults /\ faults' = faults + 1 /\ injected' = TRUE /\ lost' = lost
  BY DEF SubtreeFails, EntryFails, HostFails, GiveUp, Fault
<1>2. HostTree(disk) /\ KeptIn(table, before, disk)
  BY DEF Base, Kept
<1>3. HostTree(disk') /\ KeptIn(table, before, disk')
  <2>1. CASE disk' = disk
    BY <1>2, <2>1
  <2>2. CASE SubtreeFails /\ disk' # disk
    <3> DEFINE r == RootIn(table, next)
    <3>1. /\ table \in Mounts /\ next \in DOMAIN table /\ Touched(disk, disk', r)
          /\ r \in DOMAIN disk \/ disk'[r].type = "dir"
      BY <2>2, SubtreeEffect
    <3>2. r = HostIn(table, next, <<>>) /\ TypeIn(table, next, <<>>) = "dir"
      BY <3>1, HostRoot DEF TypeIn, TypeAt
    <3> HIDE DEF r
    <3>3. KeptIn(table, before, disk')
      BY <1>2, <3>1, <3>2, KeptTouched
    <3> QED
      BY <3>1, <3>3 DEF Touched
  <2>3. CASE HostFails /\ disk' # disk
    <3>1. /\ Pending /\ Touched(disk, disk', Target)
          /\ disk'[Target].type = TypeIn(table, next - 1, From) \/ Target \in DOMAIN disk
      BY <2>3, FailEffect
    <3>2. /\ next - 1 \in DOMAIN table /\ Target = HostIn(table, next - 1, From)
          /\ From \in WantedIn(table, next - 1)
      BY <3>1, Taking
    <3>3. KeptIn(table, before, disk')
      BY <1>2, <3>1, <3>2, KeptTouched
    <3> QED
      BY <3>1, <3>3 DEF Touched
  <2>4. EntryFails => disk' = disk
    BY DEF EntryFails
  <2> QED
    BY <2>1, <2>2, <2>3, <2>4
<1> QED
  BY <1>1, <1>3, BaseFailed

LEMMA BaseFinish ==
  ASSUME Base, Finish
  PROVE  Base'
<1>1. /\ UNCHANGED <<table, disk, stack, next, privileged, calls, faults, before, injected, lost>>
      /\ ret' = "ok" /\ stack = <<>> /\ next > Len(table)
  BY DEF Finish
<1>2. next = Len(table) + 1
  BY <1>1, TableIs DEF Base, Control
<1>3. Control' /\ Recursion' /\ Kept'
  BY <1>1, <1>2 DEF Base, Control, Recursion, Kept
<1> QED
  BY <1>3 DEF Base

LEMMA BaseNext ==
  ASSUME Base, [Next]_vars
  PROVE  Base'
<1>1. CASE UNCHANGED vars
  BY <1>1 DEF Base, Control, Recursion, Kept, vars
<1>2. CASE Next
  BY <1>2, BaseExtractAll, BaseEnterDirectory, BaseExtractFile, BaseLeaveDirectory, BaseStartMount,
     BaseFails, BaseFinish DEF Next
<1> QED
  BY <1>1, <1>2

LEMMA AlwaysBase == Spec => []Base
<1>1. Init => Base
  BY BaseInit
<1>2. Base /\ [Next]_vars => Base'
  BY BaseNext
<1> QED
  BY <1>1, <1>2, PTL DEF Spec

\* fs_context.cpp:267, 312: the recursion is on the branch of the tree it
\* extracts, every directory on that branch is on the host, and nothing is left
\* of it when extract_all returns.
THEOREM TypeCorrect == Spec => []TypeOK
<1>1. Base => TypeOK
  <2> SUFFICES ASSUME Base
               PROVE  TypeOK
    OBVIOUS
  <2>1. ASSUME NEW k \in DOMAIN stack, k < Len(stack)
        PROVE  stack[k].path = Append(stack[k + 1].path, Last(stack[k].path))
    <3>1. stack \in Stacks /\ stack # <<>> /\ Len(stack) \in Nat /\ DOMAIN stack = 1 .. Len(stack)
      <4>1. stack \in Stacks
        BY DEF Base, Recursion
      <4>2. Len(stack) \in Nat /\ DOMAIN stack = 1 .. Len(stack)
        BY <4>1, LenProperties DEF Stacks
      <4> QED
        BY <2>1, <4>1, <4>2, EmptySeq
    <3>2. Nested(table, next - 1, stack)
      BY <3>1 DEF Base, Recursion
    <3>3. Parent(stack[k].path) = stack[k + 1].path /\ Len(stack[k].path) = Len(stack) - k
      BY <2>1, <3>2 DEF Nested
    <3>4. stack[k].path \in Seq(Names)
      <4>1. stack[k] \in Frames
        BY <2>1, <3>1, ElementOfSeq DEF Stacks
      <4> QED
        BY <4>1 DEF Frames
    <3>5. stack[k].path # <<>>
      BY <2>1, <3>1, <3>3, EmptySeq
    <3> QED
      BY <3>3, <3>4, <3>5, ParentOf
  <2>2. \A k \in DOMAIN stack : stack[k].host \in DOMAIN disk
    BY DEF Base, Recursion
  <2>3. /\ ret = "running" => Destination \in DOMAIN disk
        /\ \A h \in DOMAIN disk :
             /\ h # <<>> => Parent(h) \in DOMAIN disk
             /\ disk[h].type \in {"file", "dir"} /\ disk[h].mode \in {"rw", "ro"}
    BY DEF Base, Kept, KeptIn, HostTree, IsNode, Destination
  <2>4. ret # "running" => stack = <<>>
    BY DEF Base, Recursion
  <2> QED
    BY <2>1, <2>2, <2>3, <2>4 DEF TypeOK, Base, Control
<1> QED
  BY <1>1, AlwaysBase, PTL

\* Whatever the images hold: what one function of a backend says of a path, the
\* others agree with, as long as every entry has the directories above it.
THEOREM BackendsAgree == Spec => []AnswersAgree
<1>1. Base => AnswersAgree
  <2> SUFFICES ASSUME Base
               PROVE  AnswersAgree
    OBVIOUS
  <2>1. ASSUME NEW k \in DOMAIN table
        PROVE  table[k].image \in DOMAIN Image
    BY TableIs, MountOf DEF Base
  <2> QED
    BY <2>1, AnswersFit DEF AnswersAgree
<1> QED
  BY <1>1, AlwaysBase, PTL

LEMMA Renamed ==
  /\ \A k : Root(k) = RootIn(table, k) /\ Wanted(k) = WantedIn(table, k)
  /\ \A k, p : Host(k, p) = HostIn(table, k, p) /\ WantedType(k, p) = TypeIn(table, k, p)
  /\ Apart <=> ApartIn(table)
BY DEF Root, RootIn, Wanted, WantedIn, Host, HostIn, WantedType, TypeIn, Apart, ApartIn

\* Whatever fails and however the host lies: once the destination is there,
\* extract_all changes and makes only the hosts of paths that its mounts lead
\* to.  It rests on NameAssumption: no name of an image is empty, "." or "..",
\* which the library does not check.
THEOREM NothingElseTouched == Spec => []OnlyTargetsTouched
<1>1. Base => OnlyTargetsTouched
  <2> SUFFICES ASSUME Base
               PROVE  OnlyTargetsTouched
    OBVIOUS
  <2> DEFINE Targets == UNION {{Host(k, path) : path \in Wanted(k) \cup {<<>>}} : k \in DOMAIN table}
  <2>1. KeptIn(table, before, disk) /\ HostTree(before) /\ HostTree(disk)
    BY DEF Base, Kept
  <2>2. \A h : h \in Targets <=> IsSpot(table, h)
    BY Renamed DEF IsSpot
  <2> HIDE DEF Targets
  <2>3. DOMAIN before \subseteq DOMAIN disk
    BY <2>1 DEF KeptIn
  <2>4. DOMAIN disk \subseteq DOMAIN before \cup Targets
    BY <2>1, <2>2 DEF KeptIn, IsSpot
  <2>5. ASSUME NEW h \in DOMAIN before \ Targets
        PROVE  [disk[h] EXCEPT !.mtime = before[h].mtime] = before[h]
    <3>1. /\ disk[h].type = before[h].type /\ disk[h].mode = before[h].mode
          /\ disk[h].data = before[h].data
      BY <2>1, <2>2 DEF KeptIn
    <3>2. IsNode(disk[h]) /\ IsNode(before[h])
      BY <2>1, <2>3 DEF HostTree
    <3>3. [disk[h] EXCEPT !.mtime = before[h].mtime]
            = Node(disk[h].type, disk[h].mode, before[h].mtime, disk[h].data)
      BY <3>2, Retimed
    <3>4. before[h] = Node(before[h].type, before[h].mode, before[h].mtime, before[h].data)
      BY <3>2 DEF IsNode
    <3> QED
      BY <3>1, <3>3, <3>4
  <2> QED
    BY <2>3, <2>4, <2>5 DEF OnlyTargetsTouched, Targets
<1> QED
  BY <1>1, AlwaysBase, PTL

-----------------------------------------------------------------------------
(* Success is complete.                                                    *)

\* The path is on the host as the image has it.
DoneIn(T, b, d, k, p) ==
  LET h == HostIn(T, k, p)
      img == T[k].image
  IN  /\ h \in DOMAIN d
      /\ d[h].mode = Permissions(img, p)
      /\ IF TypeIn(T, k, p) = "file"
         THEN d[h] = Node("file", d[h].mode, ModificationTime(img, p), <<img, p>>)
         ELSE d[h].type = "dir" \/ b[h].type = "file"

\* What is done stays done, and the rest is awaited by an active call.
Progress ==
  ApartIn(table) /\ ~lost /\ ret # "failed" =>
    \A k \in 1 .. next - 1 : \A p \in WantedIn(table, k) :
      DoneIn(table, before, disk, k, p) \/ (k = next - 1 /\ Awaited(stack, p))

LEMMA DoneKept ==
  ASSUME NEW T \in Mounts, ApartIn(T), NEW b, NEW d, NEW e, HostTree(d),
         NEW m \in DOMAIN T, NEW q \in Seq(Names), NEW h, h = HostIn(T, m, q), Touched(d, e, h),
         NEW k \in DOMAIN T, NEW p \in WantedIn(T, k), k # m \/ p # q, DoneIn(T, b, d, k, p)
  PROVE  DoneIn(T, b, e, k, p)
<1> DEFINE g == HostIn(T, k, p)
           img == T[k].image
<1>1. p \in Seq(Names)
  BY WantedPath
<1>2. g # h
  BY <1>1, HostDistinct
<1>3. g \in DOMAIN d /\ d[g].mode = Permissions(img, p)
  BY DEF DoneIn
<1>4. Alike(d, e, g) /\ g \in DOMAIN e /\ IsNode(e[g])
  BY <1>2, <1>3 DEF Touched, HostTree
<1>5. CASE TypeIn(T, k, p) = "file"
  <2>1. d[g] = Node("file", d[g].mode, ModificationTime(img, p), <<img, p>>)
    BY <1>5 DEF DoneIn
  <2> DEFINE y == d[g].mode
             c == ModificationTime(img, p)
             x == <<img, p>>
  <2>2. d[g] = Node("file", y, c, x)
    BY <2>1
  <2> HIDE DEF y, c, x
  <2>3. Node("file", y, c, x).type = "file" /\ Node("file", y, c, x).mtime = c
        /\ Node("file", y, c, x).data = x /\ Node("file", y, c, x).mode = y
    BY NodeFields
  <2>4. e[g].type = "file" /\ e[g].mode = y /\ e[g].mtime = c /\ e[g].data = x
    BY <1>4, <2>2, <2>3 DEF Alike
  <2>5. e[g] = Node("file", y, c, x)
    BY <1>4, <2>4 DEF IsNode
  <2>6. e[g] = Node("file", e[g].mode, ModificationTime(img, p), <<img, p>>)
    BY <2>4, <2>5 DEF c, x
  <2> HIDE DEF g
  <2>7. e[g].mode = Permissions(img, p)
    BY <1>3, <1>4 DEF Alike
  <2> QED
    BY <1>4, <1>5, <2>6, <2>7 DEF DoneIn, g
<1>6. CASE TypeIn(T, k, p) # "file"
  <2>1. d[g].type = "dir" \/ b[g].type = "file"
    BY <1>6 DEF DoneIn
  <2> QED
    BY <1>3, <1>4, <1>6, <2>1 DEF DoneIn, Alike
<1> QED
  BY <1>5, <1>6

\* What is wanted at a host is there, unless something else lay there before.
LEMMA AsWanted ==
  ASSUME NEW T \in Mounts, ApartIn(T), NEW b, NEW d, KeptIn(T, b, d),
         NEW m \in DOMAIN T, NEW q \in WantedIn(T, m) \cup {<<>>}, HostIn(T, m, q) \in DOMAIN d
  PROVE  \/ /\ HostIn(T, m, q) \notin DOMAIN b
            /\ d[HostIn(T, m, q)].type = TypeIn(T, m, q)
         \/ /\ HostIn(T, m, q) \in DOMAIN b
            /\ d[HostIn(T, m, q)].type = b[HostIn(T, m, q)].type
<1> DEFINE h == HostIn(T, m, q)
<1>1. CASE h \in DOMAIN b
  BY <1>1 DEF KeptIn
<1>2. CASE h \notin DOMAIN b
  <2>1. PICK k \in DOMAIN T : \E p \in WantedIn(T, k) \cup {<<>>} :
               h = HostIn(T, k, p) /\ d[h].type = TypeIn(T, k, p)
    BY <1>2 DEF KeptIn
  <2>2. PICK p \in WantedIn(T, k) \cup {<<>>} : h = HostIn(T, k, p) /\ d[h].type = TypeIn(T, k, p)
    BY <2>1
  <2>3. p \in Seq(Names) /\ q \in Seq(Names)
    BY WantedPath, EmptySeq
  <2>4. k = m /\ p = q
    BY <2>2, <2>3, HostDistinct
  <2> QED
    BY <1>2, <2>2, <2>4
<1> QED
  BY <1>1, <1>2

LEMMA ProgressEnter ==
  ASSUME Base, Progress, EnterDirectory
  PROVE  Progress'
<1> DEFINE m == next - 1
           e == EnteredOf(table, m, stack)
<1>1. /\ table' = table /\ next' = next /\ ret' = ret /\ before' = before
      /\ lost' = lost \/ lost' = TRUE
  BY DEF EnterDirectory
<1>2. /\ Pending /\ TypeIn(table, m, From) = "dir"
      /\ Touched(disk, disk', Target) /\ Target \in DOMAIN disk'
      /\ Target \notin DOMAIN disk => disk'[Target].type = "dir"
      /\ disk'[Target].mode = Permissions(stack[1].image, From) \/ lost' = TRUE
      /\ stack' = e
  BY EnterEffect
<1>3. /\ table \in Mounts /\ m \in DOMAIN table /\ stack \in Stacks /\ stack # <<>>
      /\ stack[1].left # <<>> /\ Nested(table, m, stack)
      /\ From = FromOf(stack) /\ Target = HostIn(table, m, From) /\ From \in WantedIn(table, m)
      /\ stack[1].image = table[m].image
  BY <1>2, Taking
<1>4. \A p \in WantedIn(table, m) : Awaited(stack, p) => p = From \/ Awaited(e, p)
  BY <1>3, EnteredAwaits
<1>5. HostTree(disk) /\ HostTree(before) /\ KeptIn(table, before, disk)
  BY DEF Base, Kept
<1> HIDE DEF e
<1>6. SUFFICES ASSUME ApartIn(table), ~lost, lost' # TRUE, ret # "failed",
                      NEW k \in 1 .. m, NEW p \in WantedIn(table, k)
               PROVE  DoneIn(table, before, disk', k, p) \/ (k = m /\ Awaited(e, p))
  BY <1>1, <1>2 DEF Progress
<1>7. DoneIn(table, before, disk, k, p) \/ (k = m /\ Awaited(stack, p))
  BY <1>6 DEF Progress
<1>8. k \in DOMAIN table /\ From \in Seq(Names)
  BY <1>3, MountOf, WantedPath
<1>9. CASE k = m /\ p = From
  <2>1. disk'[Target].type = "dir" \/ before[Target].type = "file"
    <3>1. CASE Target \in DOMAIN disk
      <4>1. disk'[Target].type = disk[Target].type
        BY <1>2, <3>1 DEF Touched
      <4>2. CASE Target \in DOMAIN before
        <5>1. disk[Target].type = before[Target].type /\ before[Target].type \in {"file", "dir"}
          BY <1>5, <4>2 DEF KeptIn, HostTree, IsNode
        <5> QED
          BY <4>1, <5>1
      <4>3. CASE Target \notin DOMAIN before
        BY <1>2, <1>3, <1>5, <1>6, <3>1, <4>1, <4>3, AsWanted
      <4> QED
        BY <4>2, <4>3
    <3> QED
      BY <1>2, <3>1
  <2> QED
    BY <1>2, <1>3, <1>6, <1>9, <2>1 DEF DoneIn
<1>10. CASE ~(k = m /\ p = From)
  <2>1. DoneIn(table, before, disk, k, p) => DoneIn(table, before, disk', k, p)
    BY <1>2, <1>3, <1>5, <1>6, <1>8, <1>10, DoneKept
  <2> QED
    BY <1>4, <1>7, <1>10, <2>1
<1> QED
  BY <1>9, <1>10

LEMMA ProgressExtract ==
  ASSUME Base, Progress, ExtractFile
  PROVE  Progress'
<1> DEFINE m == next - 1
           e == ConsumedOf(stack)
<1>1. /\ table' = table /\ next' = next /\ ret' = ret /\ before' = before
      /\ lost' = lost \/ lost' = TRUE
  BY DEF ExtractFile
<1>2. /\ Pending /\ TypeIn(table, m, From) = "file"
      /\ Touched(disk, disk', Target) /\ Target \in DOMAIN disk'
      /\ \/ disk'[Target] = Node("file", Permissions(stack[1].image, From),
                                 ModificationTime(stack[1].image, From), <<stack[1].image, From>>)
         \/ lost' = TRUE
      /\ stack' = e
  BY ExtractEffect
<1>3. /\ table \in Mounts /\ m \in DOMAIN table /\ stack \in Stacks /\ stack # <<>>
      /\ stack[1].left # <<>> /\ Nested(table, m, stack)
      /\ From = FromOf(stack) /\ Target = HostIn(table, m, From) /\ From \in WantedIn(table, m)
      /\ stack[1].image = table[m].image
  BY <1>2, Taking
<1>4. \A p \in WantedIn(table, m) : Awaited(stack, p) => p = From \/ Awaited(e, p)
  BY <1>2, <1>3, ConsumedAwaits
<1>5. HostTree(disk)
  BY DEF Base, Kept
<1> HIDE DEF e
<1>6. SUFFICES ASSUME ApartIn(table), ~lost, lost' # TRUE, ret # "failed",
                      NEW k \in 1 .. m, NEW p \in WantedIn(table, k)
               PROVE  DoneIn(table, before, disk', k, p) \/ (k = m /\ Awaited(e, p))
  BY <1>1, <1>2 DEF Progress
<1>7. DoneIn(table, before, disk, k, p) \/ (k = m /\ Awaited(stack, p))
  BY <1>6 DEF Progress
<1>8. k \in DOMAIN table /\ From \in Seq(Names)
  BY <1>3, MountOf, WantedPath
<1>9. CASE k = m /\ p = From
  <2> DEFINE y == Permissions(table[m].image, From)
             c == ModificationTime(table[m].image, From)
             x == <<table[m].image, From>>
  <2>1. disk'[Target] = Node("file", y, c, x)
    BY <1>2, <1>3, <1>6
  <2>2. Node("file", y, c, x).mode = y
    BY NodeFields
  <2>3. disk'[Target].mode = y /\ disk'[Target] = Node("file", disk'[Target].mode, c, x)
    BY <2>1, <2>2
  <2> QED
    BY <1>2, <1>3, <1>9, <2>3 DEF DoneIn
<1>10. CASE ~(k = m /\ p = From)
  <2>1. DoneIn(table, before, disk, k, p) => DoneIn(table, before, disk', k, p)
    BY <1>2, <1>3, <1>5, <1>6, <1>8, <1>10, DoneKept
  <2> QED
    BY <1>4, <1>7, <1>10, <2>1
<1> QED
  BY <1>9, <1>10

LEMMA ProgressLeave ==
  ASSUME Base, Progress, LeaveDirectory
  PROVE  Progress'
<1>1. /\ UNCHANGED <<table, disk, next, ret, before, lost>>
      /\ stack' = Tail(stack) /\ stack # <<>> /\ stack[1].left = <<>>
  BY DEF LeaveDirectory
<1>2. stack \in Stacks
  BY DEF Base, Recursion
<1>3. \A p : Awaited(Tail(stack), p) <=> Awaited(stack, p)
  BY <1>1, <1>2, PoppedAwaits
<1> QED
  BY <1>1, <1>3 DEF Progress

LEMMA ProgressStart ==
  ASSUME Base, Progress, StartMount
  PROVE  Progress'
<1> DEFINE e == StartedOf(table, next)
           r == RootIn(table, next)
           z == <<>>
<1>1. /\ UNCHANGED <<table, ret, before, lost>>
      /\ next' = next + 1 /\ stack = <<>>
  BY DEF StartMount
<1>2. /\ table \in Mounts /\ next \in DOMAIN table /\ Touched(disk, disk', r) /\ stack' = e
  BY StartEffect
<1>3. next \in Nat /\ next' - 1 = next
  BY <1>1, <1>2, MountOf
<1>4. \A p \in WantedIn(table, next) : Awaited(e, p)
  BY <1>2, StartedIs
<1>5. \A p : ~Awaited(stack, p)
  BY <1>1 DEF Awaited, Waits
<1>6. z \in Seq(Names) /\ r = HostIn(table, next, z)
  BY <1>2, HostRoot, EmptySeq
<1>7. HostTree(disk)
  BY DEF Base, Kept
<1> HIDE DEF e, r
<1>8. SUFFICES ASSUME ApartIn(table), ~lost, ret # "failed",
                      NEW k \in 1 .. next, NEW p \in WantedIn(table, k)
               PROVE  DoneIn(table, before, disk', k, p) \/ (k = next /\ Awaited(e, p))
  BY <1>1, <1>2, <1>3 DEF Progress
<1>9. CASE k = next
  BY <1>4, <1>9
<1>10. CASE k # next
  <2>1. k \in 1 .. next - 1
    BY <1>3, <1>10
  <2>2. DoneIn(table, before, disk, k, p)
    BY <1>5, <1>8, <2>1 DEF Progress
  <2>3. k \in DOMAIN table
    <3>1. DOMAIN table = 1 .. Len(table) /\ Len(table) \in Nat
      BY TableIs DEF Base
    <3> QED
      BY <1>2, <1>3, <2>1, <3>1
  <2> HIDE DEF z
  <2> QED
    BY <1>2, <1>6, <1>7, <1>8, <1>10, <2>2, <2>3, DoneKept
<1> QED
  BY <1>9, <1>10

LEMMA ProgressNext ==
  ASSUME Base, Progress, [Next]_vars
  PROVE  Progress'
<1>1. CASE UNCHANGED vars
  BY <1>1 DEF Progress, vars
<1>2. ASSUME NEW t \in Tables, ExtractAll(t)
      PROVE  Progress'
  <2>1. next' - 1 = 0
    BY <1>2 DEF ExtractAll
  <2>2. 1 .. next' - 1 = {}
    BY <2>1
  <2> QED
    BY <2>2 DEF Progress
<1>3. CASE SubtreeFails \/ EntryFails \/ HostFails
  <2>1. ret' = "failed"
    BY <1>3 DEF SubtreeFails, EntryFails, HostFails, GiveUp
  <2> QED
    BY <2>1 DEF Progress
<1>4. CASE Finish
  <2>1. UNCHANGED <<table, disk, stack, next, before, lost>> /\ ret = "running"
    BY <1>4 DEF Finish
  <2> QED
    BY <2>1 DEF Progress
<1>5. CASE Next
  BY <1>2, <1>3, <1>4, <1>5, ProgressEnter, ProgressExtract, ProgressLeave, ProgressStart DEF Next
<1> QED
  BY <1>1, <1>5

\* c_api.h:659, 667, for all images, tables and disks: when extract_all reports
\* success and the host did not lie, every file that the directories of its
\* image lead to is on the host with its bytes, permissions and time, and every
\* directory with its permissions.  The time of a directory is not claimed, and
\* a file that lay where an empty directory belongs may have stayed.
THEOREM SuccessComplete == Spec => []SuccessIsComplete
<1>1. Init => Progress
  <2>1. Init => 1 .. next - 1 = {}
    BY DEF Init
  <2> QED
    BY <2>1 DEF Progress
<1>2. Base /\ Progress /\ [Next]_vars => Progress'
  BY ProgressNext
<1>3. Base /\ Progress => SuccessIsComplete
  <2> SUFFICES ASSUME Base, Progress, ret = "ok", ~lost, Apart,
                      NEW k \in DOMAIN table, NEW path \in Wanted(k)
               PROVE  /\ Host(k, path) \in DOMAIN disk
                      /\ LET node == disk[Host(k, path)]
                             img == table[k].image
                         IN  /\ node.mode = Permissions(img, path)
                             /\ IF WantedType(k, path) = "file"
                                THEN node = Node("file", node.mode, ModificationTime(img, path), <<img, path>>)
                                ELSE \/ node.type = "dir"
                                     \/ before[Host(k, path)].type = "file"
    BY DEF SuccessIsComplete
  <2>1. next = Len(table) + 1 /\ stack = <<>>
    BY DEF Base, Control, Recursion
  <2>2. k \in 1 .. next - 1
    BY <2>1, TableIs DEF Base
  <2>3. ApartIn(table) /\ path \in WantedIn(table, k)
    BY Renamed
  <2>4. ~Awaited(stack, path)
    BY <2>1 DEF Awaited, Waits
  <2>5. DoneIn(table, before, disk, k, path)
    BY <2>2, <2>3, <2>4 DEF Progress
  <2>6. Host(k, path) = HostIn(table, k, path) /\ WantedType(k, path) = TypeIn(table, k, path)
    BY Renamed
  <2> QED
    BY <2>5, <2>6 DEF DoneIn
<1> QED
  BY <1>1, <1>2, <1>3, AlwaysBase, PTL DEF Spec

-----------------------------------------------------------------------------
(* A failure has its reason, and nothing else fails.                       *)

\* The permissions of the host of a directory once it is ready to be filled.
ModeIn(T, b, k, p) ==
  IF p # <<>> THEN Permissions(T[k].image, p)
  ELSE IF RootIn(T, k) \in DOMAIN b THEN b[RootIn(T, k)].mode ELSE "rw"

RootBlocked(T, b, u, k) ==
  RootIn(T, k) \notin DOMAIN b /\ (b[<<>>].type = "file" \/ (~u /\ b[<<>>].mode = "ro"))
Blocked(T, b, u, k, p) ==
  LET h == HostIn(T, k, p)
  IN  \/ TypeIn(T, k, p) = "other"
      \/ h \notin DOMAIN b /\ ~u /\ ModeIn(T, b, k, Parent(p)) = "ro"
      \/ Parent(h) \in DOMAIN b /\ b[Parent(h)].type = "file"
      \/ /\ h \in DOMAIN b
         /\ TypeIn(T, k, p) = "file"
         /\ b[h].type = "dir" \/ (~u /\ b[h].mode = "ro")

\* With m mounts started: there was no obstacle to what is done, what is to be
\* done is on the host as it was before the call, and the directories of the
\* active calls have got their permissions.
PassedIn(T, b, u, m, s) ==
  \A k \in 1 .. m :
    /\ ~RootBlocked(T, b, u, k)
    /\ \A p \in WantedIn(T, k) : Blocked(T, b, u, k, p) => k = m /\ Awaited(s, p)
AsBefore(b, d, h) == (h \in DOMAIN d <=> h \in DOMAIN b) /\ (h \in DOMAIN b => d[h].mode = b[h].mode)
AheadIn(T, b, d, m, s) ==
  \A k \in DOMAIN T : \A p \in WantedIn(T, k) \cup {<<>>} :
    k > m \/ (k = m /\ Awaited(s, p)) => AsBefore(b, d, HostIn(T, k, p))
ModesIn(T, b, d, m, s) == \A j \in DOMAIN s : d[s[j].host].mode = ModeIn(T, b, m, s[j].path)

Reason ==
  ApartIn(table) /\ ~injected =>
    IF ret = "failed"
    THEN \/ table = <<>>
         \/ \E k \in DOMAIN table : RootBlocked(table, before, privileged, k)
         \/ \E k \in DOMAIN table : \E p \in WantedIn(table, k) :
              Blocked(table, before, privileged, k, p)
    ELSE /\ PassedIn(table, before, privileged, next - 1, stack)
         /\ AheadIn(table, before, disk, next - 1, stack)
         /\ ModesIn(table, before, disk, next - 1, stack)

\* The entry that is taken is the last to be as before, and where it goes
\* nothing else is.
LEMMA ReasonTaken ==
  ASSUME NEW T \in Mounts, ApartIn(T), NEW b, NEW d, NEW e, HostTree(d), NEW u, NEW m \in DOMAIN T,
         NEW s \in Stacks, s # <<>>, s[1].left # <<>>, Nested(T, m, s),
         \A j \in DOMAIN s : s[j].host \in DOMAIN d,
         Touched(d, e, HostIn(T, m, FromOf(s))),
         e[HostIn(T, m, FromOf(s))].mode = Permissions(T[m].image, FromOf(s)),
         NEW t, ~Awaited(t, FromOf(s)),
         \A p \in WantedIn(T, m) : /\ Awaited(s, p) => p = FromOf(s) \/ Awaited(t, p)
                                   /\ Awaited(t, p) => Awaited(s, p),
         \A j \in DOMAIN t :
           \/ t[j].host = HostIn(T, m, FromOf(s)) /\ t[j].path = FromOf(s)
           \/ \E i \in DOMAIN s : t[j].host = s[i].host /\ t[j].path = s[i].path,
         ~Blocked(T, b, u, m, FromOf(s)),
         PassedIn(T, b, u, m, s), AheadIn(T, b, d, m, s), ModesIn(T, b, d, m, s)
  PROVE  PassedIn(T, b, u, m, t) /\ AheadIn(T, b, e, m, t) /\ ModesIn(T, b, e, m, t)
<1> DEFINE q == FromOf(s)
           h == HostIn(T, m, q)
<1>1. q \in Seq(Names) /\ q # <<>> /\ q \in WantedIn(T, m) /\ Len(q) = Len(s[1].path) + 1
  BY FromIs
<1>2. ASSUME NEW k \in 1 .. m, NEW p \in WantedIn(T, k), Blocked(T, b, u, k, p)
      PROVE  k = m /\ Awaited(t, p)
  <2>1. k = m /\ Awaited(s, p)
    BY <1>2 DEF PassedIn
  <2>2. p # q
    BY <1>2, <2>1
  <2> QED
    BY <2>1, <2>2
<1>3. PassedIn(T, b, u, m, t)
  BY <1>2 DEF PassedIn
<1>4. ASSUME NEW k \in DOMAIN T, NEW p \in WantedIn(T, k) \cup {<<>>}, k > m \/ (k = m /\ Awaited(t, p))
      PROVE  AsBefore(b, e, HostIn(T, k, p))
  <2>1. p \in Seq(Names)
    BY WantedPath, EmptySeq
  <2>0. k \in Nat /\ m \in Nat
    BY MountOf
  <2>2. k # m \/ p # q
    BY <1>4, <2>0
  <2>3. HostIn(T, k, p) # h
    BY <1>1, <2>1, <2>2, HostDistinct
  <2>4. k > m \/ (k = m /\ Awaited(s, p))
    <3>1. p = <<>> => ~Awaited(t, p)
      BY DEF Awaited
    <3> QED
      BY <1>4, <3>1
  <2>5. AsBefore(b, d, HostIn(T, k, p))
    BY <2>4 DEF AheadIn
  <2>6. /\ HostIn(T, k, p) \in DOMAIN e <=> HostIn(T, k, p) \in DOMAIN d
        /\ HostIn(T, k, p) \in DOMAIN d => e[HostIn(T, k, p)].mode = d[HostIn(T, k, p)].mode
    BY <2>3 DEF Touched, Alike
  <2> QED
    BY <2>5, <2>6 DEF AsBefore
<1>5. AheadIn(T, b, e, m, t)
  BY <1>4 DEF AheadIn
<1>6. ASSUME NEW j \in DOMAIN t
      PROVE  e[t[j].host].mode = ModeIn(T, b, m, t[j].path)
  <2>1. CASE t[j].host = h /\ t[j].path = q
    BY <1>1, <2>1 DEF ModeIn
  <2>2. ASSUME NEW i \in DOMAIN s, t[j].host = s[i].host, t[j].path = s[i].path
        PROVE  e[t[j].host].mode = ModeIn(T, b, m, t[j].path)
    <3>1. s[i].host = HostIn(T, m, s[i].path) /\ Len(s[i].path) = Len(s) - i
          /\ Len(s[1].path) = Len(s) - 1
      BY LeftShape DEF Nested, FrameFits
    <3>2. s[i] \in Frames /\ i \in 1 .. Len(s) /\ Len(s) \in Nat
      BY LeftShape, ElementOfSeq, LenProperties DEF Stacks
    <3>3. s[i].path \in Seq(Names)
      BY <3>2 DEF Frames
    <3>4. s[i].path # q
      BY <1>1, <3>1, <3>2
    <3>5. s[i].host # h
      BY <1>1, <3>1, <3>3, <3>4, HostDistinct
    <3>6. e[s[i].host].mode = d[s[i].host].mode
      BY <3>5 DEF Touched, Alike
    <3>7. d[s[i].host].mode = ModeIn(T, b, m, s[i].path)
      BY DEF ModesIn
    <3> QED
      BY <2>2, <3>6, <3>7
  <2> QED
    BY <2>1, <2>2
<1>7. ModesIn(T, b, e, m, t)
  BY <1>6 DEF ModesIn
<1> QED
  BY <1>3, <1>5, <1>7

\* An entry is refused exactly when there was an obstacle to it.
LEMMA EntryBlocked ==
  ASSUME Base, Reason, Pending, ApartIn(table), ~injected
  PROVE  /\ PassedIn(table, before, privileged, next - 1, stack)
         /\ AheadIn(table, before, disk, next - 1, stack)
         /\ ModesIn(table, before, disk, next - 1, stack)
         /\ Blocked(table, before, privileged, next - 1, From) <=>
              \/ TypeIn(table, next - 1, From) = "other"
              \/ Target \notin DOMAIN disk /\ ~CanCreate(Target)
              \/ /\ Target \in DOMAIN disk /\ TypeIn(table, next - 1, From) = "file"
                 /\ ~CanOverwrite(Target)
<1> DEFINE m == next - 1
           g == stack[1].host
           h == Target
<1>1. ret = "running"
  BY DEF Pending
<1>2. /\ PassedIn(table, before, privileged, m, stack) /\ AheadIn(table, before, disk, m, stack)
      /\ ModesIn(table, before, disk, m, stack)
  BY <1>1 DEF Reason
<1>3. /\ table \in Mounts /\ m \in DOMAIN table /\ stack \in Stacks /\ stack # <<>>
      /\ stack[1].left # <<>> /\ Nested(table, m, stack)
      /\ From = FromOf(stack) /\ h = HostIn(table, m, From) /\ From \in WantedIn(table, m)
      /\ Parent(h) = g /\ g \in DOMAIN disk /\ h # <<>> /\ h \in Seq(Names)
  BY Taking
<1>4. HostTree(disk) /\ HostTree(before) /\ KeptIn(table, before, disk)
  BY DEF Base, Kept
<1>5. /\ Parent(From) = stack[1].path /\ Waits(stack, From) /\ g = HostIn(table, m, stack[1].path)
      /\ From \in Seq(Names) /\ From # <<>>
  BY <1>3, FromIs
<1>6. 1 \in DOMAIN stack /\ Branch(table, m, stack[1].path)
  BY <1>3, LeftShape DEF Nested, FrameFits
<1>7. AsBefore(before, disk, h)
  <2>1. SubSeq(From, 1, Len(From)) = From /\ Len(From) \in 1 .. Len(From)
    BY <1>5, WholePrefix, EmptySeq, LenProperties
  <2>2. Awaited(stack, From)
    BY <1>5, <2>1 DEF Awaited
  <2> QED
    BY <1>2, <1>3, <2>2 DEF AheadIn
<1>8. disk[g].mode = ModeIn(table, before, m, Parent(From)) /\ disk[g].mode \in {"rw", "ro"}
      /\ disk[g].type \in {"file", "dir"}
  BY <1>2, <1>3, <1>4, <1>5, <1>6 DEF ModesIn, HostTree, IsNode
<1>9. disk[g].type # "dir" <=> g \in DOMAIN before /\ before[g].type = "file"
  <2> DEFINE q == stack[1].path
  <2>1. q \in WantedIn(table, m) \cup {<<>>} /\ TypeIn(table, m, q) = "dir"
    <3>1. TypeIn(table, m, <<>>) = "dir"
      BY DEF TypeIn, TypeAt
    <3> QED
      BY <1>6, <3>1 DEF Branch
  <2>2. HostIn(table, m, q) \in DOMAIN disk
    BY <1>3, <1>5
  <2> HIDE DEF q
  <2>3. \/ /\ HostIn(table, m, q) \notin DOMAIN before
           /\ disk[HostIn(table, m, q)].type = TypeIn(table, m, q)
        \/ /\ HostIn(table, m, q) \in DOMAIN before
           /\ disk[HostIn(table, m, q)].type = before[HostIn(table, m, q)].type
    BY <1>3, <1>4, <2>1, <2>2, AsWanted
  <2> QED
    BY <1>5, <1>8, <2>1, <2>3 DEF q
<1>10. CanCreate(h) <=> disk[g].type = "dir" /\ (privileged \/ disk[g].mode = "rw")
  BY <1>3 DEF CanCreate
<1> HIDE DEF g, m
<1>11. CASE h \notin DOMAIN disk
  <2>1. h \notin DOMAIN before
    BY <1>7, <1>11 DEF AsBefore
  <2>2. Blocked(table, before, privileged, m, From) <=>
           \/ TypeIn(table, m, From) = "other"
           \/ ~privileged /\ disk[g].mode = "ro"
           \/ g \in DOMAIN before /\ before[g].type = "file"
    BY <1>3, <1>8, <2>1 DEF Blocked
  <2> QED
    BY <1>2, <1>8, <1>9, <1>10, <1>11, <2>2 DEF m
<1>12. CASE h \in DOMAIN disk
  <2>1. h \in DOMAIN before /\ disk[h].mode = before[h].mode /\ disk[h].type = before[h].type
    BY <1>4, <1>7, <1>12 DEF AsBefore, KeptIn
  <2>2. disk[h].type \in {"file", "dir"} /\ disk[h].mode \in {"rw", "ro"} /\ disk[g].type = "dir"
    BY <1>3, <1>4, <1>12 DEF HostTree, IsNode
  <2>3. Blocked(table, before, privileged, m, From) <=>
           \/ TypeIn(table, m, From) = "other"
           \/ /\ TypeIn(table, m, From) = "file"
              /\ disk[h].type = "dir" \/ (~privileged /\ disk[h].mode = "ro")
    BY <1>3, <1>9, <2>1, <2>2 DEF Blocked
  <2>4. CanOverwrite(h) <=> disk[h].type = "file" /\ (privileged \/ disk[h].mode = "rw")
    BY DEF CanOverwrite
  <2> QED
    BY <1>2, <1>12, <2>2, <2>3, <2>4 DEF m
<1> QED
  BY <1>11, <1>12

LEMMA ReasonEnter ==
  ASSUME Base, Reason, EnterDirectory
  PROVE  Reason'
<1> DEFINE m == next - 1
           e == EnteredOf(table, m, stack)
<1>1. UNCHANGED <<table, next, ret, before, privileged>> /\ (injected' = injected \/ injected' = TRUE)
  BY DEF EnterDirectory, Fault
<1>2. /\ Pending /\ TypeIn(table, m, From) = "dir"
      /\ Target \in DOMAIN disk \/ CanCreate(Target)
      /\ Touched(disk, disk', Target)
      /\ disk'[Target].mode = Permissions(stack[1].image, From) \/ injected' = TRUE
      /\ stack' = e
  BY EnterEffect
<1>3. /\ table \in Mounts /\ m \in DOMAIN table /\ stack \in Stacks /\ stack # <<>>
      /\ stack[1].left # <<>> /\ Nested(table, m, stack)
      /\ From = FromOf(stack) /\ Target = HostIn(table, m, From)
      /\ stack[1].image = table[m].image
  BY <1>2, Taking
<1>4. ret = "running" /\ HostTree(disk) /\ \A j \in DOMAIN stack : stack[j].host \in DOMAIN disk
  BY <1>2 DEF Pending, Base, Kept, Recursion
<1>5. SUFFICES ASSUME ApartIn(table), ~injected, injected' # TRUE
               PROVE  /\ PassedIn(table, before, privileged, m, e)
                      /\ AheadIn(table, before, disk', m, e)
                      /\ ModesIn(table, before, disk', m, e)
  BY <1>1, <1>2, <1>4 DEF Reason
<1>6. /\ PassedIn(table, before, privileged, m, stack)
      /\ AheadIn(table, before, disk, m, stack)
      /\ ModesIn(table, before, disk, m, stack)
      /\ ~Blocked(table, before, privileged, m, From)
  BY <1>2, <1>5, EntryBlocked
<1>7. /\ ~Awaited(e, From)
      /\ \A p \in WantedIn(table, m) : /\ Awaited(stack, p) => p = From \/ Awaited(e, p)
                                       /\ Awaited(e, p) => Awaited(stack, p)
  BY <1>3, EnteredAwaits
<1>8. \A j \in DOMAIN e :
        \/ e[j].host = Target /\ e[j].path = From
        \/ \E i \in DOMAIN stack : e[j].host = stack[i].host /\ e[j].path = stack[i].path
  BY <1>3, EnteredHosts
<1> HIDE DEF e, m
<1> QED
  BY <1>2, <1>3, <1>4, <1>5, <1>6, <1>7, <1>8, ReasonTaken

LEMMA ReasonExtract ==
  ASSUME Base, Reason, ExtractFile
  PROVE  Reason'
<1> DEFINE m == next - 1
           e == ConsumedOf(stack)
<1>1. UNCHANGED <<table, next, ret, before, privileged>> /\ (injected' = injected \/ injected' = TRUE)
  BY DEF ExtractFile, Fault
<1>2. /\ Pending /\ TypeIn(table, m, From) = "file"
      /\ \/ Target \in DOMAIN disk /\ CanOverwrite(Target)
         \/ Target \notin DOMAIN disk /\ CanCreate(Target)
      /\ Touched(disk, disk', Target)
      /\ \/ disk'[Target] = Node("file", Permissions(stack[1].image, From),
                                 ModificationTime(stack[1].image, From), <<stack[1].image, From>>)
         \/ injected' = TRUE
      /\ stack' = e
  BY ExtractEffect
<1>3. /\ table \in Mounts /\ m \in DOMAIN table /\ stack \in Stacks /\ stack # <<>>
      /\ stack[1].left # <<>> /\ Nested(table, m, stack)
      /\ From = FromOf(stack) /\ Target = HostIn(table, m, From)
      /\ stack[1].image = table[m].image
  BY <1>2, Taking
<1>4. ret = "running" /\ HostTree(disk) /\ \A j \in DOMAIN stack : stack[j].host \in DOMAIN disk
  BY <1>2 DEF Pending, Base, Kept, Recursion
<1>5. SUFFICES ASSUME ApartIn(table), ~injected, injected' # TRUE
               PROVE  /\ PassedIn(table, before, privileged, m, e)
                      /\ AheadIn(table, before, disk', m, e)
                      /\ ModesIn(table, before, disk', m, e)
  BY <1>1, <1>2, <1>4 DEF Reason
<1>6. /\ PassedIn(table, before, privileged, m, stack)
      /\ AheadIn(table, before, disk, m, stack)
      /\ ModesIn(table, before, disk, m, stack)
      /\ ~Blocked(table, before, privileged, m, From)
  BY <1>2, <1>5, EntryBlocked
<1>7. /\ ~Awaited(e, From)
      /\ \A p \in WantedIn(table, m) : /\ Awaited(stack, p) => p = From \/ Awaited(e, p)
                                       /\ Awaited(e, p) => Awaited(stack, p)
  BY <1>2, <1>3, ConsumedAwaits
<1>8. \A j \in DOMAIN e : \E i \in DOMAIN stack : e[j].host = stack[i].host /\ e[j].path = stack[i].path
  BY <1>3, ConsumedHosts
<1>9. disk'[Target].mode = Permissions(table[m].image, From)
  <2> DEFINE y == Permissions(stack[1].image, From)
             c == ModificationTime(stack[1].image, From)
             x == <<stack[1].image, From>>
  <2>1. disk'[Target] = Node("file", y, c, x)
    BY <1>2, <1>5
  <2> HIDE DEF y, c, x
  <2>2. disk'[Target].mode = y
    BY <2>1, NodeFields
  <2> QED
    BY <1>3, <2>2 DEF y
<1> HIDE DEF e, m
<1> QED
  BY <1>2, <1>3, <1>4, <1>5, <1>6, <1>7, <1>8, <1>9, ReasonTaken

LEMMA ReasonLeave ==
  ASSUME Base, Reason, LeaveDirectory
  PROVE  Reason'
<1> DEFINE t == Tail(stack)
           m == next - 1
<1>1. /\ UNCHANGED <<table, disk, next, ret, privileged, before, injected>>
      /\ stack' = t /\ stack # <<>> /\ stack[1].left = <<>> /\ ret = "running"
  BY DEF LeaveDirectory
<1>2. stack \in Stacks
  BY DEF Base, Recursion
<1>3. \A p : Awaited(t, p) <=> Awaited(stack, p)
  BY <1>1, <1>2, PoppedAwaits
<1>4. \A j \in DOMAIN t : t[j] = stack[j + 1] /\ j + 1 \in DOMAIN stack
  BY <1>1, <1>2, PoppedShape
<1> HIDE DEF t
<1>5. SUFFICES ASSUME ApartIn(table), ~injected
               PROVE  /\ PassedIn(table, before, privileged, m, t)
                      /\ AheadIn(table, before, disk, m, t)
                      /\ ModesIn(table, before, disk, m, t)
  BY <1>1 DEF Reason
<1>6. /\ PassedIn(table, before, privileged, m, stack)
      /\ AheadIn(table, before, disk, m, stack)
      /\ ModesIn(table, before, disk, m, stack)
  BY <1>1, <1>5 DEF Reason
<1> HIDE DEF m
<1>7. PassedIn(table, before, privileged, m, t)
  BY <1>3, <1>6 DEF PassedIn
<1>8. AheadIn(table, before, disk, m, t)
  BY <1>3, <1>6 DEF AheadIn
<1>9. ModesIn(table, before, disk, m, t)
  BY <1>4, <1>6 DEF ModesIn
<1> QED
  BY <1>7, <1>8, <1>9

\* The directory of a mount is refused exactly when there was an obstacle to it.
LEMMA MountBlocked ==
  ASSUME Base, Reason, ret = "running", next \in DOMAIN table, ApartIn(table), ~injected
  PROVE  /\ PassedIn(table, before, privileged, next - 1, stack)
         /\ AheadIn(table, before, disk, next - 1, stack)
         /\ AsBefore(before, disk, Root(next))
         /\ RootBlocked(table, before, privileged, next) <=>
              Root(next) \notin DOMAIN disk /\ ~CanCreate(Root(next))
<1> DEFINE r == RootIn(table, next)
           z == <<>>
<1>1. PassedIn(table, before, privileged, next - 1, stack) /\ AheadIn(table, before, disk, next - 1, stack)
  BY DEF Reason
<1>2. table \in Mounts /\ Root(next) = r
  BY TableIs, Renamed DEF Base
<1>3. next \in Nat /\ HostIn(table, next, z) = r
  BY <1>2, MountOf, HostRoot
<1>4. AsBefore(before, disk, r)
  <2>1. next > next - 1 /\ z \in WantedIn(table, next) \cup {<<>>}
    BY <1>3
  <2> HIDE DEF z
  <2> QED
    BY <1>1, <1>3, <2>1 DEF AheadIn
<1>5. HostTree(disk) /\ HostTree(before) /\ KeptIn(table, before, disk)
  BY DEF Base, Kept
<1>6. /\ z \in DOMAIN disk /\ z \in DOMAIN before /\ disk[z].type = before[z].type
      /\ disk[z].type \in {"file", "dir"} /\ disk[z].mode \in {"rw", "ro"}
  <2>1. z \in DOMAIN before
    BY DEF Base, Kept
  <2> HIDE DEF z
  <2> QED
    BY <1>5, <2>1 DEF HostTree, KeptIn, IsNode
<1>7. CASE Len(table) = 1
  <2>1. r = z
    BY <1>7 DEF RootIn
  <2> HIDE DEF r, z
  <2>2. Root(next) \in DOMAIN disk /\ r \in DOMAIN before
    BY <1>2, <1>6, <2>1
  <2>3. ~RootBlocked(table, before, privileged, next)
    BY <2>2 DEF RootBlocked, r
  <2> QED
    BY <1>1, <1>2, <1>4, <2>2, <2>3
<1>8. CASE Len(table) # 1
  <2>1. Parent(r) = z /\ r # z
    BY <1>2, <1>8, MountOf
  <2>2. ~IsSpot(table, z)
    <3>1. ASSUME NEW k \in DOMAIN table, NEW p \in WantedIn(table, k) \cup {z}, z = HostIn(table, k, p)
          PROVE  FALSE
      <4>1. CASE p = z
        <5>1. HostIn(table, k, z) = RootIn(table, k) /\ RootIn(table, k) # z
          BY <1>2, <1>8, HostRoot, MountOf
        <5> QED
          BY <3>1, <4>1, <5>1
      <4>2. CASE p \in WantedIn(table, k)
        <5>1. p \in Seq(Names) /\ p # <<>>
          BY <1>2, <4>2, WantedPath
        <5>2. Parent(p) \in Seq(Names) /\ Last(p) \in Names /\ Append(Parent(p), Last(p)) = p
          BY <5>1, ParentOf
        <5>3. HostIn(table, k, Append(Parent(p), Last(p))) # <<>>
          BY <1>2, <5>2, HostChild
        <5> QED
          BY <3>1, <5>2, <5>3
      <4> QED
        BY <4>1, <4>2
    <3> QED
      BY <3>1 DEF IsSpot
  <2>3. disk[z].mode = before[z].mode
    BY <1>5, <1>6, <2>2 DEF KeptIn
  <2> HIDE DEF r
  <2>4. CanCreate(r) <=> disk[z].type = "dir" /\ (privileged \/ disk[z].mode = "rw")
    BY <1>6, <2>1 DEF CanCreate
  <2>5. r \in DOMAIN disk <=> r \in DOMAIN before
    BY <1>4 DEF AsBefore
  <2>6. RootBlocked(table, before, privileged, next) <=>
          r \notin DOMAIN before /\ (before[z].type = "file" \/ (~privileged /\ before[z].mode = "ro"))
    BY DEF RootBlocked, r
  <2> HIDE DEF z
  <2>7. RootBlocked(table, before, privileged, next) <=> r \notin DOMAIN disk /\ ~CanCreate(r)
    BY <1>6, <2>3, <2>4, <2>5, <2>6
  <2> QED
    BY <1>1, <1>2, <1>4, <2>7
<1> QED
  BY <1>7, <1>8

LEMMA ReasonStart ==
  ASSUME Base, Reason, StartMount
  PROVE  Reason'
<1> DEFINE e == StartedOf(table, next)
           r == RootIn(table, next)
           z == <<>>
<1>1. /\ UNCHANGED <<table, ret, privileged, before, injected>>
      /\ next' = next + 1 /\ stack = <<>> /\ ret = "running"
  BY DEF StartMount
<1>2. /\ table \in Mounts /\ next \in DOMAIN table /\ Root(next) = r
      /\ Touched(disk, disk', r) /\ r \in DOMAIN disk'
      /\ r \notin DOMAIN disk => CanCreate(r) /\ disk'[r].mode = "rw"
      /\ r \in DOMAIN disk => disk' = disk
      /\ stack' = e
  BY StartEffect
<1>3. next \in Nat /\ next' - 1 = next /\ HostIn(table, next, z) = r /\ z \in Seq(Names)
  BY <1>1, <1>2, MountOf, HostRoot, EmptySeq
<1>4. /\ \A p \in WantedIn(table, next) : Awaited(e, p)
      /\ e \in Stacks /\ Len(e) = 1 /\ e[1].host = r /\ e[1].path = z
  BY <1>2, StartedIs
<1>5. \A p : ~Awaited(stack, p)
  BY <1>1 DEF Awaited, Waits
<1>6. HostTree(disk)
  BY DEF Base, Kept
<1> HIDE DEF e, r
<1>7. SUFFICES ASSUME ApartIn(table), ~injected
               PROVE  /\ PassedIn(table, before, privileged, next, e)
                      /\ AheadIn(table, before, disk', next, e)
                      /\ ModesIn(table, before, disk', next, e)
  BY <1>1, <1>2, <1>3 DEF Reason
<1>8. /\ PassedIn(table, before, privileged, next - 1, stack)
      /\ AheadIn(table, before, disk, next - 1, stack)
      /\ AsBefore(before, disk, r)
      /\ ~RootBlocked(table, before, privileged, next)
  BY <1>1, <1>2, <1>7, MountBlocked
<1>9. ASSUME NEW k \in 1 .. next
      PROVE  /\ ~RootBlocked(table, before, privileged, k)
             /\ \A p \in WantedIn(table, k) :
                  Blocked(table, before, privileged, k, p) => k = next /\ Awaited(e, p)
  <2>1. CASE k = next
    BY <1>4, <1>8, <2>1
  <2>2. CASE k # next
    <3>1. k \in 1 .. next - 1
      BY <1>3, <2>2
    <3> QED
      BY <1>5, <1>8, <3>1 DEF PassedIn
  <2> QED
    BY <2>1, <2>2
<1>10. PassedIn(table, before, privileged, next, e)
  BY <1>9 DEF PassedIn
<1>11. ASSUME NEW k \in DOMAIN table, NEW p \in WantedIn(table, k) \cup {<<>>},
              k > next \/ (k = next /\ Awaited(e, p))
       PROVE  AsBefore(before, disk', HostIn(table, k, p))
  <2>1. p \in Seq(Names)
    BY <1>2, WantedPath, EmptySeq
  <2>0. k \in Nat
    BY <1>2, MountOf
  <2>2. k # next \/ p # z
    <3>1. ~Awaited(e, z)
      BY DEF Awaited
    <3> HIDE DEF z
    <3> QED
      BY <1>3, <1>11, <2>0, <3>1
  <2> HIDE DEF z
  <2>3. HostIn(table, k, p) # r
    BY <1>2, <1>3, <1>7, <2>1, <2>2, HostDistinct
  <2>4. k > next - 1
    BY <1>3, <1>11, <2>0
  <2>5. AsBefore(before, disk, HostIn(table, k, p))
    BY <1>8, <2>4 DEF AheadIn
  <2>6. /\ HostIn(table, k, p) \in DOMAIN disk' <=> HostIn(table, k, p) \in DOMAIN disk
        /\ HostIn(table, k, p) \in DOMAIN disk =>
             disk'[HostIn(table, k, p)].mode = disk[HostIn(table, k, p)].mode
    BY <1>2, <2>3 DEF Touched, Alike
  <2> QED
    BY <2>5, <2>6 DEF AsBefore
<1>12. AheadIn(table, before, disk', next, e)
  BY <1>11 DEF AheadIn
<1>13. disk'[r].mode = ModeIn(table, before, next, z)
  <2>1. ModeIn(table, before, next, z) = IF r \in DOMAIN before THEN before[r].mode ELSE "rw"
    BY DEF ModeIn, r
  <2> HIDE DEF z
  <2>2. CASE r \in DOMAIN disk
    BY <1>2, <1>8, <2>1, <2>2 DEF AsBefore
  <2>3. CASE r \notin DOMAIN disk
    BY <1>2, <1>8, <2>1, <2>3 DEF AsBefore
  <2> QED
    BY <2>2, <2>3
<1>14. \A j \in DOMAIN e : j = 1
  <2>1. DOMAIN e = 1 .. 1
    BY <1>4, LenProperties DEF Stacks
  <2> QED
    BY <2>1
<1> HIDE DEF z
<1>15. ModesIn(table, before, disk', next, e)
  BY <1>4, <1>13, <1>14 DEF ModesIn
<1> QED
  BY <1>10, <1>12, <1>15

LEMMA ReasonEntryFails ==
  ASSUME Base, Reason, EntryFails
  PROVE  Reason'
<1> DEFINE m == next - 1
<1>1. /\ UNCHANGED <<table, privileged, before, injected>> /\ ret' = "failed"
      /\ Pending /\ ~DirectoryReady /\ ~FileReady
  BY DEF EntryFails, GiveUp
<1>2. SUFFICES ASSUME ApartIn(table), ~injected
               PROVE  \E k \in DOMAIN table : \E p \in WantedIn(table, k) :
                        Blocked(table, before, privileged, k, p)
  BY <1>1 DEF Reason
<1>3. /\ table \in Mounts /\ m \in DOMAIN table /\ From \in WantedIn(table, m)
      /\ stack[1].image = table[m].image
      /\ Entry.dir <=> TypeIn(table, m, From) = "dir"
  BY <1>1, Taking
<1>4. From \in Paths(table[m].image) /\ table[m].image \in DOMAIN Image
  BY <1>3, WantedPath, MountOf
<1>5. /\ ListErrno(table[m].image, From) = "OK" <=> TypeIn(table, m, From) = "dir"
      /\ OpenErrno(table[m].image, From) = "OK" <=> TypeIn(table, m, From) = "file"
      /\ TypeIn(table, m, From) \in {"file", "dir", "other"}
  BY <1>4, AnswersOfEntry DEF TypeIn
<1>6. \/ TypeIn(table, m, From) = "other"
      \/ Target \notin DOMAIN disk /\ ~CanCreate(Target)
      \/ Target \in DOMAIN disk /\ TypeIn(table, m, From) = "file" /\ ~CanOverwrite(Target)
  <2>1. CASE TypeIn(table, m, From) = "dir"
    BY <1>1, <1>3, <1>5, <2>1 DEF DirectoryReady
  <2>2. CASE TypeIn(table, m, From) = "file"
    BY <1>1, <1>3, <1>5, <2>2 DEF FileReady
  <2> QED
    BY <1>5, <2>1, <2>2
<1>7. Blocked(table, before, privileged, m, From)
  BY <1>1, <1>2, <1>6, EntryBlocked
<1> QED
  BY <1>3, <1>7

LEMMA ReasonSubtreeFails ==
  ASSUME Base, Reason, SubtreeFails
  PROVE  Reason'
<1>1. /\ UNCHANGED <<table, next, privileged, before>> /\ ret = "running" /\ ret' = "failed"
  BY DEF SubtreeFails, GiveUp
<1>2. /\ next \in DOMAIN table
      /\ injected' = TRUE \/ (/\ Root(next) \notin DOMAIN disk /\ ~CanCreate(Root(next))
                              /\ injected' = injected)
  BY SubtreeEffect
<1>3. SUFFICES ASSUME ApartIn(table), injected' # TRUE, ~injected
               PROVE  \E k \in DOMAIN table : RootBlocked(table, before, privileged, k)
  <2>1. CASE injected' = TRUE
    BY <2>1 DEF Reason
  <2>2. CASE injected' # TRUE
    BY <1>1, <1>2, <2>2 DEF Reason
  <2> QED
    BY <2>1, <2>2
<1>4. RootBlocked(table, before, privileged, next)
  BY <1>1, <1>2, <1>3, MountBlocked
<1> QED
  BY <1>2, <1>4

LEMMA ReasonExtractAll ==
  ASSUME Base, NEW t \in Tables, ExtractAll(t)
  PROVE  Reason'
<1>1. /\ table' = t /\ next' = 1 /\ before' = disk' /\ stack' = stack /\ ret # "running"
      /\ privileged' = privileged
  BY DEF ExtractAll
<1>2. \/ ret' = "failed" /\ (t = <<>> \/ injected' = TRUE)
      \/ ret' = "running"
  BY DEF ExtractAll, NothingMounted, DestinationReady, DestinationFails, Fault
<1>3. stack = <<>>
  BY <1>1 DEF Base, Recursion
<1>4. next' - 1 = 0 /\ 1 .. 0 = {}
  BY <1>1
<1>5. PassedIn(t, disk', privileged, 0, stack)
  BY <1>4 DEF PassedIn
<1>6. AheadIn(t, disk', disk', 0, stack)
  BY DEF AheadIn, AsBefore
<1>7. ModesIn(t, disk', disk', 0, stack)
  BY <1>3 DEF ModesIn
<1>8. CASE ret' = "failed" /\ (t = <<>> \/ injected' = TRUE)
  BY <1>1, <1>8 DEF Reason
<1>9. CASE ret' = "running"
  BY <1>1, <1>4, <1>5, <1>6, <1>7, <1>9 DEF Reason
<1> QED
  BY <1>2, <1>8, <1>9

LEMMA ReasonInit ==
  ASSUME Init
  PROVE  Reason
<1>1. table = <<>> /\ ret = "ok" /\ next = 1 /\ stack = <<>>
  BY DEF Init
<1>2. next - 1 = 0 /\ 1 .. 0 = {} /\ DOMAIN table = {} /\ DOMAIN stack = {}
  BY <1>1
<1>3. /\ PassedIn(table, before, privileged, 0, stack)
      /\ AheadIn(table, before, disk, 0, stack)
      /\ ModesIn(table, before, disk, 0, stack)
  BY <1>2 DEF PassedIn, AheadIn, ModesIn
<1> QED
  BY <1>1, <1>2, <1>3 DEF Reason

LEMMA ReasonNext ==
  ASSUME Base, Reason, [Next]_vars
  PROVE  Reason'
<1>1. CASE UNCHANGED vars
  BY <1>1 DEF Reason, vars
<1>2. CASE HostFails
  <2>1. injected' = TRUE
    BY <1>2, FailEffect
  <2> QED
    BY <2>1 DEF Reason
<1>3. CASE Finish
  <2>1. UNCHANGED <<table, disk, stack, next, privileged, before, injected>>
        /\ ret = "running" /\ ret' = "ok"
    BY <1>3 DEF Finish
  <2> QED
    BY <2>1 DEF Reason
<1>4. CASE Next
  BY <1>2, <1>3, <1>4, ReasonEnter, ReasonExtract, ReasonLeave, ReasonStart, ReasonEntryFails,
     ReasonSubtreeFails, ReasonExtractAll DEF Next
<1> QED
  BY <1>1, <1>4

\* The directories above a path, as the property sees them.
LEMMA ObstructedIs ==
  ASSUME Base, NEW k \in DOMAIN table, NEW p \in WantedIn(table, k)
  PROVE  Obstructed(k, p) <=> Blocked(table, before, privileged, k, p)
<1>1. table \in Mounts
  BY TableIs DEF Base
<1>2. p \in Seq(Names) /\ p # <<>>
  BY <1>1, WantedPath
<1>3. /\ Parent(p) \in Seq(Names) /\ Len(Parent(p)) = Len(p) - 1 /\ Len(p) \in Nat \ {0}
  BY <1>2, ParentOf
<1>4. Len(p) > 1 <=> Parent(p) # <<>>
  <2>1. Len(Parent(p)) = 0 <=> Parent(p) = <<>>
    BY <1>3, EmptySeq
  <2> QED
    BY <1>3, <2>1
<1>5. ParentMode(k, p) = ModeIn(table, before, k, Parent(p))
  BY <1>4, Renamed DEF ParentMode, ModeIn
<1>6. Host(k, p) = HostIn(table, k, p) /\ WantedType(k, p) = TypeIn(table, k, p)
  BY Renamed
<1> QED
  BY <1>5, <1>6 DEF Obstructed, Blocked

\* fs_context.cpp:286, 327, for all images, tables and disks: on a host that
\* works, extract_all fails exactly when the directory of a mount cannot be
\* made or an entry meets one of the obstacles of Obstructed, and that is
\* decided by what was on the host when the call began.  A file where an empty
\* directory belongs is no such obstacle: fs_context.cpp:284 passes over it.
THEOREM FailuresHaveReasons == Spec => []FailsForReason
<1>1. Init => Reason
  BY ReasonInit
<1>2. Base /\ Reason /\ [Next]_vars => Reason'
  BY ReasonNext
<1>3. Base /\ Reason => FailsForReason
  <2> DEFINE RootBlock == \E k \in DOMAIN table :
                /\ Root(k) \notin DOMAIN before
                /\ before[<<>>].type = "file" \/ (~privileged /\ before[<<>>].mode = "ro")
             Block == \E k \in DOMAIN table : \E path \in Wanted(k) : Obstructed(k, path)
  <2> SUFFICES ASSUME Base, Reason, ret # "running", ~injected, Apart, table # <<>>
               PROVE  (ret = "failed") = (RootBlock \/ Block)
    BY DEF FailsForReason
  <2>1. ApartIn(table) /\ DOMAIN table = 1 .. Len(table) /\ Len(table) \in Nat
    BY Renamed, TableIs DEF Base
  <2>2. RootBlock <=> \E k \in DOMAIN table : RootBlocked(table, before, privileged, k)
    BY Renamed DEF RootBlocked
  <2>3. Block <=> \E k \in DOMAIN table : \E p \in WantedIn(table, k) :
                    Blocked(table, before, privileged, k, p)
    BY Renamed, ObstructedIs
  <2> HIDE DEF RootBlock, Block
  <2>4. CASE ret = "failed"
    BY <2>1, <2>2, <2>3, <2>4 DEF Reason
  <2>5. CASE ret # "failed"
    <3>1. ret = "ok" /\ next = Len(table) + 1 /\ stack = <<>>
      BY <2>5 DEF Base, Control, Recursion
    <3>2. next - 1 = Len(table)
      BY <2>1, <3>1
    <3>3. \A p : ~Awaited(stack, p)
      BY <3>1 DEF Awaited, Waits
    <3>4. PassedIn(table, before, privileged, Len(table), stack)
      BY <2>1, <2>5, <3>2 DEF Reason
    <3>5. ~RootBlock /\ ~Block
      BY <2>1, <2>2, <2>3, <3>3, <3>4, Zenon DEF PassedIn
    <3> QED
      BY <2>5, <3>5, Zenon
  <2> QED
    BY <2>4, <2>5, Zenon
<1> QED
  BY <1>1, <1>2, <1>3, AlwaysBase, PTL DEF Spec

================================================================================
