----------------------------- MODULE ThreadsProofs -----------------------------
(***************************************************************************)
(* The safety of Threads, for any number of threads.                       *)
(*                                                                         *)
(* A call is proved as a program is: what a thread knows before a step     *)
(* (which locks it holds, that the archive is open, what the table of open *)
(* files is like) has to be enough for the step (Pre), and After is what it*)
(* knows once the step is done.  The calls are put together from pieces.   *)
(* The invariant is that every thread knows something true from which the  *)
(* rest of its call runs to its end.                                       *)
(***************************************************************************)
EXTENDS Threads, SequenceTheorems, TLAPS

-----------------------------------------------------------------------------
(* What a thread knows.                                                    *)

\* How often it has locked mutex_ (twice is never reached) and the backend's
\* lock, if it is sure the archive is open, and of the open files of the C API: nothing that
\* dangles ("any"), nothing that dangles and its own file is live ("mine"),
\* none at all, or that they may dangle ("stale").
Knowledge ==
  [mutex : 0 .. 2, excl : 0 .. 1, shared : 0 .. 2, open : 0 .. 1,
   files : {"any", "mine", "none", "stale"}]

Idle == [mutex |-> 0, excl |-> 0, shared |-> 0, open |-> 0, files |-> "any"]

InMode(step) ==
  \/ mode = "api" /\ step \in BackendSteps \cup TableSteps
  \/ mode = "direct" /\ step \in BackendSteps
  \/ mode = "registry" /\ step \in RegistrySteps

\* The steps that mutex_ covers.
Covered(step) ==
  \/ mode = "api" /\ step \notin {"lock", "follow", "assign", "look"}
  \/ mode = "registry" /\ step \notin {"lock", "peruse"}

MayFail == {"check", "vacant", "use", "begin", "open", "find", "absent", "lookup"}

\* What a step needs. (The registry locks its mutex_ again while it holds it,
\* and never gets past that.)
Pre(p, step) ==
  /\ InMode(step)
  /\ Covered(step) => p.mutex > 0
  /\ step = "lock" => p.mutex = 0 \/ (mode = "registry" /\ p.mutex = 1)
  /\ step \in {"lock", "unlock", "exclusive"} => p.excl = 0 /\ p.shared = 0
  /\ step = "shared" => p.excl = 0 /\ p.shared < 2
  /\ step \in {"release", "check"} => p.excl = 1 \/ p.shared > 0
  /\ step \in {"vacant", "open", "close", "rename"} => p.excl = 1
  /\ step \in {"use", "begin", "handle"} => p.open = 1 /\ (kind = "squashfs" => p.excl = 1)
  /\ step \in MayFail \cup {"unlock"} => p.files # "stale"
  /\ step \in {"handle", "lookup"} => p.files = "any"
  /\ step = "drop" => p.files \in {"any", "mine"}
  /\ mode = "api" /\ step \in {"read", "reopen"} => p.files = "mine"

\* What the thread knows when the step is done.
After(p, step) ==
  [mutex  |-> IF step = "lock" THEN p.mutex + 1
              ELSE IF step = "unlock" THEN p.mutex - 1 ELSE p.mutex,
   excl   |-> IF step = "exclusive" THEN 1 ELSE IF step = "release" THEN 0 ELSE p.excl,
   shared |-> IF step = "shared" THEN p.shared + 1
              ELSE IF step = "release" /\ p.excl = 0 THEN p.shared - 1 ELSE p.shared,
   open   |-> IF step \in {"check", "open"} THEN 1
              ELSE IF step = "close" \/ (step = "release" /\ (p.excl = 1 \/ p.shared = 1))
                   THEN 0 ELSE p.open,
   files  |-> IF step \in {"unlock", "drop"} THEN "any"
              ELSE IF step = "forget" THEN "none"
              ELSE IF step = "lookup" THEN "mine"
              ELSE IF step = "close" /\ mode = "api" /\ p.files # "none" THEN "stale"
              ELSE p.files]

Goes(p, step, q) == Pre(p, step) /\ After(p, step) = q

\* The steps s can be made one after the other.
Runs(p, s, q) ==
  \E a \in [1 .. Len(s) + 1 -> Knowledge] :
    /\ a[1] = p /\ a[Len(s) + 1] = q
    /\ \A i \in 1 .. Len(s) : Goes(a[i], s[i], a[i + 1])

-----------------------------------------------------------------------------
(* Putting runs together.                                                  *)

LEMMA RunsAs ==
  ASSUME NEW s, NEW n \in Nat, Len(s) = n, NEW a \in [1 .. n + 1 -> Knowledge],
         \A i \in 1 .. n : Goes(a[i], s[i], a[i + 1])
  PROVE  Runs(a[1], s, a[n + 1])
BY DEF Runs

LEMMA RunsNothing ==
  ASSUME NEW p \in Knowledge
  PROVE  Runs(p, <<>>, p)
<1> DEFINE a == [i \in 1 .. 0 + 1 |-> p]
<1>1. /\ a \in [1 .. 0 + 1 -> Knowledge] /\ a[1] = p /\ a[0 + 1] = p
      /\ Len(<<>>) = 0 /\ \A i \in 1 .. 0 : FALSE
  OBVIOUS
<1> HIDE DEF a
<1>2. Runs(a[1], <<>>, a[0 + 1])
  BY <1>1, RunsAs
<1> QED
  BY <1>1, <1>2

\* Short pieces of code.
LEMMA RunsOne ==
  ASSUME NEW p \in Knowledge, NEW q \in Knowledge, NEW s, Goes(p, s, q)
  PROVE  Runs(p, <<s>>, q)
<1> DEFINE a == [i \in 1 .. 1 + 1 |-> IF i = 1 THEN p ELSE q]
           t == <<s>>
<1>1. /\ a \in [1 .. 1 + 1 -> Knowledge] /\ a[1] = p /\ a[1 + 1] = q
      /\ Len(t) = 1 /\ t[1] = s
  OBVIOUS
<1> HIDE DEF a, t
<1>2. \A i \in 1 .. 1 : Goes(a[i], t[i], a[i + 1])
  BY <1>1
<1>3. Runs(a[1], t, a[1 + 1])
  BY <1>1, <1>2, RunsAs
<1> QED
  BY <1>1, <1>3 DEF t

LEMMA RunsTwo ==
  ASSUME NEW p \in Knowledge, NEW q \in Knowledge, NEW r \in Knowledge,
         NEW s1, NEW s2,
         Goes(p, s1, q), Goes(q, s2, r)
  PROVE  Runs(p, <<s1, s2>>, r)
<1> DEFINE a == [i \in 1 .. 2 + 1 |-> IF i = 1 THEN p ELSE IF i = 2 THEN q ELSE r]
           t == <<s1, s2>>
<1>1. /\ a \in [1 .. 2 + 1 -> Knowledge]
      /\ a[1] = p /\ a[2] = q /\ a[3] = r
      /\ Len(t) = 2 /\ t[1] = s1 /\ t[2] = s2
  OBVIOUS
<1> HIDE DEF a, t
<1>2. \A i \in 1 .. 2 : Goes(a[i], t[i], a[i + 1])
  BY <1>1
<1>3. Runs(a[1], t, a[2 + 1])
  BY <1>1, <1>2, RunsAs
<1> QED
  BY <1>1, <1>3 DEF t

LEMMA RunsThree ==
  ASSUME NEW p \in Knowledge, NEW q \in Knowledge, NEW r \in Knowledge,
         NEW x \in Knowledge,
         NEW s1, NEW s2, NEW s3,
         Goes(p, s1, q), Goes(q, s2, r), Goes(r, s3, x)
  PROVE  Runs(p, <<s1, s2, s3>>, x)
<1> DEFINE a == [i \in 1 .. 3 + 1 |-> IF i = 1 THEN p ELSE IF i = 2 THEN q ELSE
                                      IF i = 3 THEN r ELSE x]
           t == <<s1, s2, s3>>
<1>1. /\ a \in [1 .. 3 + 1 -> Knowledge]
      /\ a[1] = p /\ a[2] = q /\ a[3] = r /\ a[4] = x
      /\ Len(t) = 3 /\ t[1] = s1 /\ t[2] = s2 /\ t[3] = s3
  OBVIOUS
<1> HIDE DEF a, t
<1>2. \A i \in 1 .. 3 : Goes(a[i], t[i], a[i + 1])
  BY <1>1
<1>3. Runs(a[1], t, a[3 + 1])
  BY <1>1, <1>2, RunsAs
<1> QED
  BY <1>1, <1>3 DEF t

LEMMA RunsFour ==
  ASSUME NEW p \in Knowledge, NEW q \in Knowledge, NEW r \in Knowledge,
         NEW x \in Knowledge, NEW y \in Knowledge,
         NEW s1, NEW s2, NEW s3, NEW s4,
         Goes(p, s1, q), Goes(q, s2, r), Goes(r, s3, x),
         Goes(x, s4, y)
  PROVE  Runs(p, <<s1, s2, s3, s4>>, y)
<1> DEFINE a == [i \in 1 .. 4 + 1 |-> IF i = 1 THEN p ELSE IF i = 2 THEN q ELSE
                                      IF i = 3 THEN r ELSE IF i = 4 THEN x ELSE y]
           t == <<s1, s2, s3, s4>>
<1>1. /\ a \in [1 .. 4 + 1 -> Knowledge]
      /\ a[1] = p /\ a[2] = q /\ a[3] = r /\ a[4] = x /\ a[5] = y
      /\ Len(t) = 4 /\ t[1] = s1 /\ t[2] = s2 /\ t[3] = s3 /\ t[4] = s4
  OBVIOUS
<1> HIDE DEF a, t
<1>2. \A i \in 1 .. 4 : Goes(a[i], t[i], a[i + 1])
  BY <1>1
<1>3. Runs(a[1], t, a[4 + 1])
  BY <1>1, <1>2, RunsAs
<1> QED
  BY <1>1, <1>3 DEF t

LEMMA RunsFive ==
  ASSUME NEW p \in Knowledge, NEW q \in Knowledge, NEW r \in Knowledge,
         NEW x \in Knowledge, NEW y \in Knowledge, NEW z \in Knowledge,
         NEW s1, NEW s2, NEW s3, NEW s4, NEW s5,
         Goes(p, s1, q), Goes(q, s2, r), Goes(r, s3, x),
         Goes(x, s4, y), Goes(y, s5, z)
  PROVE  Runs(p, <<s1, s2, s3, s4, s5>>, z)
<1> DEFINE a == [i \in 1 .. 5 + 1 |-> IF i = 1 THEN p ELSE IF i = 2 THEN q ELSE
                                      IF i = 3 THEN r ELSE IF i = 4 THEN x ELSE
                                      IF i = 5 THEN y ELSE z]
           t == <<s1, s2, s3, s4, s5>>
<1>1. /\ a \in [1 .. 5 + 1 -> Knowledge]
      /\ a[1] = p /\ a[2] = q /\ a[3] = r /\ a[4] = x /\ a[5] = y /\ a[6] = z
      /\ Len(t) = 5 /\ t[1] = s1 /\ t[2] = s2 /\ t[3] = s3 /\ t[4] = s4 /\ t[5] = s5
  OBVIOUS
<1> HIDE DEF a, t
<1>2. \A i \in 1 .. 5 : Goes(a[i], t[i], a[i + 1])
  BY <1>1
<1>3. Runs(a[1], t, a[5 + 1])
  BY <1>1, <1>2, RunsAs
<1> QED
  BY <1>1, <1>3 DEF t

LEMMA RunsSix ==
  ASSUME NEW p \in Knowledge, NEW q \in Knowledge, NEW r \in Knowledge,
         NEW x \in Knowledge, NEW y \in Knowledge, NEW z \in Knowledge, NEW w \in Knowledge,
         NEW s1, NEW s2, NEW s3, NEW s4, NEW s5, NEW s6,
         Goes(p, s1, q), Goes(q, s2, r), Goes(r, s3, x),
         Goes(x, s4, y), Goes(y, s5, z), Goes(z, s6, w)
  PROVE  Runs(p, <<s1, s2, s3, s4, s5, s6>>, w)
<1> DEFINE a == [i \in 1 .. 6 + 1 |-> IF i = 1 THEN p ELSE IF i = 2 THEN q ELSE
                                      IF i = 3 THEN r ELSE IF i = 4 THEN x ELSE
                                      IF i = 5 THEN y ELSE IF i = 6 THEN z ELSE w]
           t == <<s1, s2, s3, s4, s5, s6>>
<1>1. /\ a \in [1 .. 6 + 1 -> Knowledge]
      /\ a[1] = p /\ a[2] = q /\ a[3] = r /\ a[4] = x /\ a[5] = y /\ a[6] = z /\ a[7] = w
      /\ Len(t) = 6 /\ t[1] = s1 /\ t[2] = s2 /\ t[3] = s3 /\ t[4] = s4 /\ t[5] = s5 /\ t[6] = s6
  OBVIOUS
<1> HIDE DEF a, t
<1>2. \A i \in 1 .. 6 : Goes(a[i], t[i], a[i + 1])
  BY <1>1
<1>3. Runs(a[1], t, a[6 + 1])
  BY <1>1, <1>2, RunsAs
<1> QED
  BY <1>1, <1>3 DEF t

LEMMA TuplesAreSequences ==
  ASSUME NEW S, NEW s1 \in S, NEW s2 \in S, NEW s3 \in S, NEW s4 \in S, NEW s5 \in S,
         NEW s6 \in S
  PROVE  /\ <<>> \in Seq(S) /\ <<s1>> \in Seq(S) /\ <<s1, s2>> \in Seq(S)
         /\ <<s1, s2, s3>> \in Seq(S) /\ <<s1, s2, s3, s4>> \in Seq(S)
         /\ <<s1, s2, s3, s4, s5>> \in Seq(S) /\ <<s1, s2, s3, s4, s5, s6>> \in Seq(S)
OBVIOUS

LEMMA RunsBoth ==
  ASSUME NEW p, NEW q, NEW r, NEW s \in Seq(Steps), NEW t \in Seq(Steps),
         Runs(p, s, q), Runs(q, t, r)
  PROVE  Runs(p, s \o t, r)
<1> DEFINE n == Len(s)
           m == Len(t)
           st == s \o t
<1>1. /\ n \in Nat /\ m \in Nat /\ Len(st) = n + m
      /\ \A i \in 1 .. n + m : st[i] = IF i <= n THEN s[i] ELSE t[i - n]
  BY ConcatProperties, LenProperties
<1>2. PICK a \in [1 .. n + 1 -> Knowledge] :
        /\ a[1] = p /\ a[n + 1] = q
        /\ \A i \in 1 .. n : Goes(a[i], s[i], a[i + 1])
  BY DEF Runs
<1>3. PICK b \in [1 .. m + 1 -> Knowledge] :
        /\ b[1] = q /\ b[m + 1] = r
        /\ \A i \in 1 .. m : Goes(b[i], t[i], b[i + 1])
  BY DEF Runs
<1> DEFINE c == [i \in 1 .. n + m + 1 |-> IF i <= n THEN a[i] ELSE b[i - n]]
<1> HIDE DEF n, m, st
<1>4. c \in [1 .. n + m + 1 -> Knowledge]
  BY <1>1
<1>5. c[1] = p /\ c[n + m + 1] = r
  BY <1>1, <1>2, <1>3
<1>6. ASSUME NEW i \in 1 .. n + m
      PROVE  Goes(c[i], st[i], c[i + 1])
  <2>1. CASE i < n
    <3>1. c[i] = a[i] /\ c[i + 1] = a[i + 1] /\ st[i] = s[i] /\ i \in 1 .. n
      BY <1>1, <2>1
    <3> QED
      BY <1>2, <3>1
  <2>2. CASE i = n
    <3>1. c[i] = a[i] /\ c[i + 1] = b[1] /\ st[i] = s[i] /\ i \in 1 .. n
      BY <1>1, <2>2
    <3>2. b[1] = a[i + 1]
      BY <1>2, <1>3, <2>2
    <3> QED
      BY <1>2, <3>1, <3>2
  <2>3. CASE i > n
    <3> DEFINE j == i - n
    <3>1. j \in 1 .. m /\ i = n + j
      BY <1>1, <2>3
    <3>2. /\ i \in 1 .. n + m + 1 /\ i + 1 \in 1 .. n + m + 1 /\ i \in 1 .. n + m
          /\ ~(i <= n) /\ ~(i + 1 <= n) /\ i + 1 - n = j + 1
      BY <1>1, <2>3
    <3> HIDE DEF j
    <3>4. c[i] = b[i - n] /\ c[i + 1] = b[(i + 1) - n]
      <4>1. c[i] = b[i - n]
        BY <3>2
      <4>2. c[i + 1] = b[(i + 1) - n]
        BY <3>2
      <4> QED
        BY <4>1, <4>2
    <3>5. i - n = j /\ (i + 1) - n = j + 1
      BY <1>1, <3>1
    <3> HIDE DEF c
    <3>6. c[i] = b[j] /\ c[i + 1] = b[j + 1]
      BY <3>4, <3>5
    <3>7. st[i] = t[j]
      <4>1. st[i] = t[i - n]
        BY <1>1, <3>2
      <4> QED
        BY <3>5, <4>1
    <3> QED
      BY <1>3, <3>1, <3>6, <3>7
  <2> QED
    BY <1>1, <2>1, <2>2, <2>3
<1>7. \E x \in [1 .. Len(st) + 1 -> Knowledge] :
        /\ x[1] = p /\ x[Len(st) + 1] = r
        /\ \A i \in 1 .. Len(st) : Goes(x[i], st[i], x[i + 1])
  BY <1>1, <1>4, <1>5, <1>6
<1> QED
  BY <1>7 DEF Runs, st

\* What is left after a step.
LEMMA RunsFirst ==
  ASSUME NEW p, NEW r, NEW s \in Seq(Steps), s # <<>>, Runs(p, s, r)
  PROVE  /\ Pre(p, Head(s)) /\ After(p, Head(s)) \in Knowledge
         /\ Runs(After(p, Head(s)), Tail(s), r)
         /\ Tail(s) \in Seq(Steps)
<1> DEFINE n == Len(s)
           rest == Tail(s)
<1>1. /\ n \in Nat /\ n >= 1 /\ Len(rest) = n - 1 /\ Head(s) = s[1]
      /\ \A i \in 1 .. n - 1 : rest[i] = s[i + 1]
      /\ rest \in Seq(Steps)
  BY HeadTailProperties, LenProperties, EmptySeq
<1>2. PICK a \in [1 .. n + 1 -> Knowledge] :
        /\ a[1] = p /\ a[n + 1] = r
        /\ \A i \in 1 .. n : Goes(a[i], s[i], a[i + 1])
  BY DEF Runs
<1> DEFINE b == [i \in 1 .. n |-> a[i + 1]]
<1> HIDE DEF n, rest
<1>3. b \in [1 .. n -> Knowledge] /\ b[1] = a[2] /\ b[n] = r
  BY <1>1, <1>2
<1>4. \A i \in 1 .. n - 1 : Goes(b[i], rest[i], b[i + 1])
  <2> SUFFICES ASSUME NEW i \in 1 .. n - 1
               PROVE  Goes(b[i], rest[i], b[i + 1])
    OBVIOUS
  <2>1. b[i] = a[i + 1] /\ b[i + 1] = a[i + 1 + 1] /\ rest[i] = s[i + 1] /\ i + 1 \in 1 .. n
    BY <1>1
  <2> QED
    BY <1>2, <2>1
<1>5. Goes(p, s[1], a[2]) /\ a[2] \in Knowledge
  BY <1>1, <1>2
<1>6. Len(rest) + 1 = n
  BY <1>1
<1>7. Runs(a[2], rest, r)
  <2>1. \A i \in 1 .. Len(rest) : Goes(b[i], rest[i], b[i + 1])
    BY <1>1, <1>4
  <2> QED
    BY <1>3, <1>6, <2>1 DEF Runs
<1> QED
  BY <1>1, <1>5, <1>7 DEF Goes, rest

LEMMA RunsOver ==
  ASSUME NEW p, NEW r, Runs(p, <<>>, r)
  PROVE  p = r
<1>1. Len(<<>>) = 0
  OBVIOUS
<1> QED
  BY <1>1 DEF Runs

-----------------------------------------------------------------------------
(* What the backends do, with or without mutex_ around it.                 *)

Backend == mode \in {"api", "direct"} /\ kind \in {"zip", "dwarfs", "squashfs"}

Know(excl, shared, open, files) ==
  [mutex |-> IF mode = "direct" THEN 0 ELSE 1, excl |-> excl, shared |-> shared,
   open |-> open, files |-> files]

Base == Know(0, 0, 0, "any")

LEMMA KnowType ==
  ASSUME NEW x \in 0 .. 1, NEW n \in 0 .. 2, NEW o \in 0 .. 1,
         NEW f \in {"any", "mine", "none", "stale"}
  PROVE  Know(x, n, o, f) \in Knowledge
BY DEF Know, Knowledge

\* The steps of a query: with the lock shared,
LEMMA SharedGoes ==
  ASSUME Backend, NEW n \in 0 .. 1, NEW o \in 0 .. 1
  PROVE  /\ Goes(Know(0, n, o, "any"), "shared", Know(0, n + 1, o, "any"))
         /\ Goes(Know(0, n + 1, o, "any"), "check", Know(0, n + 1, 1, "any"))
         /\ kind # "squashfs" =>
              Goes(Know(0, n + 1, 1, "any"), "use", Know(0, n + 1, 1, "any"))
         /\ Goes(Know(0, n + 1, 1, "any"), "release", Know(0, n, n, "any"))
<1> USE DEF Backend, Goes, Pre, Know, InMode, Covered, MayFail, BackendSteps, TableSteps
<1>1. Goes(Know(0, n, o, "any"), "shared", Know(0, n + 1, o, "any"))
  BY DEF After
<1>2. Goes(Know(0, n + 1, o, "any"), "check", Know(0, n + 1, 1, "any"))
  BY DEF After
<1>3. kind # "squashfs" => Goes(Know(0, n + 1, 1, "any"), "use", Know(0, n + 1, 1, "any"))
  BY DEF After
<1>4. Goes(Know(0, n + 1, 1, "any"), "release", Know(0, n, n, "any"))
  BY DEF After
<1> QED
  BY <1>1, <1>2, <1>3, <1>4

\* with the lock taken exclusively, which leaves open what is known of files,
LEMMA ExclusiveGoes ==
  ASSUME Backend, NEW f \in {"any", "none", "stale"}, NEW o \in 0 .. 1
  PROVE  /\ Goes(Know(0, 0, 0, f), "exclusive", Know(1, 0, 0, f))
         /\ Goes(Know(1, 0, o, f), "release", Know(0, 0, 0, f))
         /\ Goes(Know(1, 0, o, f), "rename", Know(1, 0, o, f))
<1> USE DEF Backend, Goes, Pre, Know, InMode, Covered, MayFail, BackendSteps, TableSteps
<1>1. Goes(Know(0, 0, 0, f), "exclusive", Know(1, 0, 0, f))
  BY DEF After
<1>2. Goes(Know(1, 0, o, f), "release", Know(0, 0, 0, f))
  BY DEF After
<1>3. Goes(Know(1, 0, o, f), "rename", Know(1, 0, o, f))
  BY DEF After
<1> QED
  BY <1>1, <1>2, <1>3

\* and what may be done with it.
LEMMA ArchiveGoes ==
  ASSUME Backend
  PROVE  /\ Goes(Know(1, 0, 0, "any"), "check", Know(1, 0, 1, "any"))
         /\ Goes(Know(1, 0, 1, "any"), "use", Know(1, 0, 1, "any"))
         /\ Goes(Know(1, 0, 0, "any"), "vacant", Know(1, 0, 0, "any"))
         /\ Goes(Know(1, 0, 0, "any"), "open", Know(1, 0, 1, "any"))
<1> USE DEF Backend, Goes, Pre, Know, InMode, Covered, MayFail, BackendSteps, TableSteps
<1>1. Goes(Know(1, 0, 0, "any"), "check", Know(1, 0, 1, "any"))
  BY DEF After
<1>2. Goes(Know(1, 0, 1, "any"), "use", Know(1, 0, 1, "any"))
  BY DEF After
<1>3. Goes(Know(1, 0, 0, "any"), "vacant", Know(1, 0, 0, "any"))
  BY DEF After
<1>4. Goes(Know(1, 0, 0, "any"), "open", Know(1, 0, 1, "any"))
  BY DEF After
<1> QED
  BY <1>1, <1>2, <1>3, <1>4

LEMMA QuerySteps ==
  QueryLock \in Steps /\ "check" \in Steps /\ "use" \in Steps /\ "release" \in Steps
BY DEF QueryLock, Steps, BackendSteps

LEMMA QueryRuns ==
  ASSUME Backend, NEW n \in 0 .. 1, kind = "squashfs" => n = 0
  PROVE  Runs(Know(0, n, n, "any"), Query, Know(0, n, n, "any")) /\ Query \in Seq(Steps)
<1>2. Query \in Seq(Steps)
  BY QuerySteps, TuplesAreSequences DEF Query
<1>3. CASE kind = "squashfs"
  <2>1. QueryLock = "exclusive" /\ n = 0
    BY <1>3 DEF QueryLock
  <2>2. /\ Know(0, 0, 0, "any") \in Knowledge /\ Know(1, 0, 0, "any") \in Knowledge
        /\ Know(1, 0, 1, "any") \in Knowledge
    BY KnowType
  <2>3. /\ Goes(Know(0, 0, 0, "any"), "exclusive", Know(1, 0, 0, "any"))
        /\ Goes(Know(1, 0, 1, "any"), "release", Know(0, 0, 0, "any"))
    BY ExclusiveGoes
  <2>4. Runs(Know(0, 0, 0, "any"), <<"exclusive", "check", "use", "release">>, Know(0, 0, 0, "any"))
    BY <2>2, <2>3, ArchiveGoes, RunsFour
  <2> QED
    BY <1>2, <2>1, <2>4 DEF Query
<1>4. CASE kind # "squashfs"
  <2>1. QueryLock = "shared"
    BY <1>4 DEF QueryLock
  <2>2. /\ Know(0, n, n, "any") \in Knowledge /\ Know(0, n + 1, n, "any") \in Knowledge
        /\ Know(0, n + 1, 1, "any") \in Knowledge
    BY KnowType
  <2>3. n \in 0 .. 1
    OBVIOUS
  <2>4. /\ Goes(Know(0, n, n, "any"), "shared", Know(0, n + 1, n, "any"))
        /\ Goes(Know(0, n + 1, n, "any"), "check", Know(0, n + 1, 1, "any"))
        /\ Goes(Know(0, n + 1, 1, "any"), "use", Know(0, n + 1, 1, "any"))
        /\ Goes(Know(0, n + 1, 1, "any"), "release", Know(0, n, n, "any"))
    BY <1>4, <2>3, SharedGoes
  <2>5. Runs(Know(0, n, n, "any"), <<"shared", "check", "use", "release">>, Know(0, n, n, "any"))
    BY <2>2, <2>4, RunsFour
  <2> QED
    BY <1>2, <2>1, <2>5 DEF Query
<1> QED
  BY <1>3, <1>4

LEMMA BaseQuery ==
  ASSUME Backend
  PROVE  Runs(Base, Query, Base) /\ Query \in Seq(Steps)
BY QueryRuns DEF Base

\* Queries that ask other queries while they share the lock.
LEMMA NestingGoes ==
  ASSUME Backend, kind # "squashfs"
  PROVE  /\ Runs(Base, <<QueryLock, "check">>, Know(0, 1, 1, "any"))
         /\ Runs(Know(0, 1, 1, "any"), Query, Know(0, 1, 1, "any"))
         /\ Runs(Know(0, 1, 1, "any"), <<"release">>, Base)
         /\ Runs(Know(0, 1, 1, "any"), <<"use", "release">>, Base)
<1>1. /\ Base \in Knowledge /\ Know(0, 1, 0, "any") \in Knowledge
      /\ Know(0, 1, 1, "any") \in Knowledge
  BY KnowType DEF Base
<1>2. /\ Goes(Base, "shared", Know(0, 1, 0, "any"))
      /\ Goes(Know(0, 1, 0, "any"), "check", Know(0, 1, 1, "any"))
      /\ Goes(Know(0, 1, 1, "any"), "use", Know(0, 1, 1, "any"))
      /\ Goes(Know(0, 1, 1, "any"), "release", Base)
  <2>1. /\ Goes(Know(0, 0, 0, "any"), "shared", Know(0, 0 + 1, 0, "any"))
        /\ Goes(Know(0, 0 + 1, 0, "any"), "check", Know(0, 0 + 1, 1, "any"))
        /\ Goes(Know(0, 0 + 1, 1, "any"), "use", Know(0, 0 + 1, 1, "any"))
        /\ Goes(Know(0, 0 + 1, 1, "any"), "release", Know(0, 0, 0, "any"))
    BY SharedGoes
  <2>2. 0 + 1 = 1
    OBVIOUS
  <2> QED
    BY <2>1, <2>2 DEF Base
<1>3. Runs(Base, <<QueryLock, "check">>, Know(0, 1, 1, "any"))
  BY <1>1, <1>2, RunsTwo DEF QueryLock
<1>4. Runs(Know(0, 1, 1, "any"), Query, Know(0, 1, 1, "any"))
  BY QueryRuns
<1>5. /\ Runs(Know(0, 1, 1, "any"), <<"release">>, Base)
      /\ Runs(Know(0, 1, 1, "any"), <<"use", "release">>, Base)
  BY <1>1, <1>2, RunsOne, RunsTwo
<1> QED
  BY <1>3, <1>4, <1>5

LEMMA PermissionsRuns ==
  ASSUME Backend
  PROVE  Runs(Base, Permissions, Base) /\ Permissions \in Seq(Steps)
<1>1. CASE kind = "zip"
  <2> DEFINE start == <<QueryLock, "check">>
             end == <<"release">>
  <2>1. start \in Seq(Steps) /\ end \in Seq(Steps) /\ Query \in Seq(Steps)
    BY TuplesAreSequences, BaseQuery, QuerySteps
  <2>2. /\ Runs(Base, start, Know(0, 1, 1, "any"))
        /\ Runs(Know(0, 1, 1, "any"), Query, Know(0, 1, 1, "any"))
        /\ Runs(Know(0, 1, 1, "any"), end, Base)
    BY <1>1, NestingGoes
  <2> HIDE DEF start, end
  <2>3. Runs(Base, start \o Query, Know(0, 1, 1, "any")) /\ start \o Query \in Seq(Steps)
    BY <2>1, <2>2, RunsBoth, ConcatProperties
  <2>4. /\ Runs(Base, start \o Query \o Query, Know(0, 1, 1, "any"))
        /\ start \o Query \o Query \in Seq(Steps)
    <3> DEFINE so == start \o Query
    <3>1. so \in Seq(Steps) /\ Runs(Base, so, Know(0, 1, 1, "any"))
      BY <2>3
    <3> HIDE DEF so
    <3>2. Runs(Base, so \o Query, Know(0, 1, 1, "any"))
      BY <2>1, <2>2, <3>1, RunsBoth, Zenon
    <3>3. so \o Query \in Seq(Steps)
      BY <2>1, <3>1, ConcatProperties, Zenon
    <3> QED
      BY <3>2, <3>3 DEF so
  <2>5. /\ Runs(Base, start \o Query \o Query \o end, Base)
        /\ start \o Query \o Query \o end \in Seq(Steps)
    BY <2>1, <2>2, <2>4, RunsBoth, ConcatProperties
  <2> QED
    BY <1>1, <2>5 DEF Permissions, start, end
<1>2. CASE kind # "zip"
  BY <1>2, BaseQuery DEF Permissions
<1> QED
  BY <1>1, <1>2

LEMMA ListDirectoryRuns ==
  ASSUME Backend
  PROVE  Runs(Base, ListDirectory, Base) /\ ListDirectory \in Seq(Steps)
<1>1. CASE kind = "dwarfs"
  <2> DEFINE start == <<QueryLock, "check">>
             end == <<"use", "release">>
  <2>1. start \in Seq(Steps) /\ end \in Seq(Steps) /\ Query \in Seq(Steps)
    BY TuplesAreSequences, BaseQuery, QuerySteps
  <2>2. /\ Runs(Base, start, Know(0, 1, 1, "any"))
        /\ Runs(Know(0, 1, 1, "any"), Query, Know(0, 1, 1, "any"))
        /\ Runs(Know(0, 1, 1, "any"), end, Base)
    BY <1>1, NestingGoes
  <2> HIDE DEF start, end
  <2>3. Runs(Base, start \o Query, Know(0, 1, 1, "any")) /\ start \o Query \in Seq(Steps)
    BY <2>1, <2>2, RunsBoth, ConcatProperties
  <2>4. Runs(Base, start \o Query \o end, Base) /\ start \o Query \o end \in Seq(Steps)
    BY <2>1, <2>2, <2>3, RunsBoth, ConcatProperties
  <2> QED
    BY <1>1, <2>4 DEF ListDirectory, start, end
<1>2. CASE kind # "dwarfs"
  BY <1>2, BaseQuery DEF ListDirectory
<1> QED
  BY <1>1, <1>2

\* Opening a file.
LEMMA OpeningGoes ==
  ASSUME Backend, NEW x \in 0 .. 1, NEW n \in 0 .. 1, kind = "squashfs" => x = 1
  PROVE  /\ Goes(Know(x, n, 1, "any"), "begin", Know(x, n, 1, "any"))
         /\ Goes(Know(x, n, 1, "any"), "handle", Know(x, n, 1, "any"))
<1> USE DEF Backend, Goes, Pre, Know, InMode, Covered, MayFail, BackendSteps, TableSteps
<1>1. Goes(Know(x, n, 1, "any"), "begin", Know(x, n, 1, "any"))
  BY DEF After
<1>2. Goes(Know(x, n, 1, "any"), "handle", Know(x, n, 1, "any"))
  BY DEF After
<1> QED
  BY <1>1, <1>2

\* The steps under the lock of one query.
LEMMA LockGoes ==
  ASSUME Backend
  PROVE  \E one, sure \in Knowledge :
           /\ Goes(Base, QueryLock, one) /\ Goes(one, "check", sure)
           /\ Goes(sure, "use", sure) /\ Goes(sure, "begin", sure)
           /\ Goes(sure, "handle", sure) /\ Goes(sure, "release", Base)
<1>1. CASE kind = "squashfs"
  <2>1. QueryLock = "exclusive"
    BY <1>1 DEF QueryLock
  <2>2. Know(1, 0, 0, "any") \in Knowledge /\ Know(1, 0, 1, "any") \in Knowledge
    BY KnowType
  <2>3. /\ Goes(Base, "exclusive", Know(1, 0, 0, "any"))
        /\ Goes(Know(1, 0, 1, "any"), "release", Base)
    BY ExclusiveGoes DEF Base
  <2>4. /\ Goes(Know(1, 0, 1, "any"), "begin", Know(1, 0, 1, "any"))
        /\ Goes(Know(1, 0, 1, "any"), "handle", Know(1, 0, 1, "any"))
    BY OpeningGoes
  <2> QED
    BY <2>1, <2>2, <2>3, <2>4, ArchiveGoes
<1>2. CASE kind # "squashfs"
  <2>1. QueryLock = "shared"
    BY <1>2 DEF QueryLock
  <2>2. Know(0, 1, 0, "any") \in Knowledge /\ Know(0, 1, 1, "any") \in Knowledge
    BY KnowType
  <2>3. /\ Goes(Know(0, 0, 0, "any"), "shared", Know(0, 0 + 1, 0, "any"))
        /\ Goes(Know(0, 0 + 1, 0, "any"), "check", Know(0, 0 + 1, 1, "any"))
        /\ Goes(Know(0, 0 + 1, 1, "any"), "use", Know(0, 0 + 1, 1, "any"))
        /\ Goes(Know(0, 0 + 1, 1, "any"), "release", Know(0, 0, 0, "any"))
    BY <1>2, SharedGoes
  <2>4. 0 + 1 = 1
    OBVIOUS
  <2>5. /\ Goes(Know(0, 1, 1, "any"), "begin", Know(0, 1, 1, "any"))
        /\ Goes(Know(0, 1, 1, "any"), "handle", Know(0, 1, 1, "any"))
    BY <1>2, OpeningGoes
  <2> QED
    BY <2>1, <2>2, <2>3, <2>4, <2>5 DEF Base
<1> QED
  BY <1>1, <1>2

LEMMA OpenFileRuns ==
  ASSUME Backend
  PROVE  Runs(Base, OpenFile, Base) /\ OpenFile \in Seq(Steps)
<1>1. Base \in Knowledge
  BY KnowType DEF Base
<1>2. PICK one, sure \in Knowledge :
        /\ Goes(Base, QueryLock, one) /\ Goes(one, "check", sure)
        /\ Goes(sure, "use", sure) /\ Goes(sure, "begin", sure)
        /\ Goes(sure, "handle", sure) /\ Goes(sure, "release", Base)
  BY LockGoes
<1>3. "begin" \in Steps /\ "handle" \in Steps
  BY DEF Steps, BackendSteps
<1> QED
  BY <1>1, <1>2, <1>3, QuerySteps, RunsSix, TuplesAreSequences DEF OpenFile

LEMMA IsMountedRuns ==
  ASSUME Backend
  PROVE  Runs(Base, IsMounted, Base) /\ IsMounted \in Seq(Steps)
<1>1. /\ Base \in Knowledge /\ Know(0, 1, 0, "any") \in Knowledge
      /\ Know(0, 1, 1, "any") \in Knowledge
  BY KnowType DEF Base
<1>2. /\ Goes(Know(0, 0, 0, "any"), "shared", Know(0, 0 + 1, 0, "any"))
      /\ Goes(Know(0, 0 + 1, 0, "any"), "check", Know(0, 0 + 1, 1, "any"))
      /\ Goes(Know(0, 0 + 1, 1, "any"), "release", Know(0, 0, 0, "any"))
  BY SharedGoes
<1>3. 0 + 1 = 1
  OBVIOUS
<1>4. "shared" \in Steps /\ "check" \in Steps /\ "release" \in Steps
  BY DEF Steps, BackendSteps
<1> QED
  BY <1>1, <1>2, <1>3, <1>4, RunsThree, TuplesAreSequences DEF IsMounted, Base

LEMMA BackendMountRuns ==
  ASSUME Backend
  PROVE  Runs(Base, BackendMount, Base) /\ BackendMount \in Seq(Steps)
<1>1. /\ Base \in Knowledge /\ Know(1, 0, 0, "any") \in Knowledge
      /\ Know(1, 0, 1, "any") \in Knowledge
  BY KnowType DEF Base
<1>2. /\ Goes(Base, "exclusive", Know(1, 0, 0, "any"))
      /\ Goes(Know(1, 0, 1, "any"), "rename", Know(1, 0, 1, "any"))
      /\ Goes(Know(1, 0, 1, "any"), "release", Base)
  BY ExclusiveGoes DEF Base
<1>3. /\ "exclusive" \in Steps /\ "vacant" \in Steps /\ "open" \in Steps
      /\ "rename" \in Steps /\ "release" \in Steps
  BY DEF Steps, BackendSteps
<1> QED
  BY <1>1, <1>2, <1>3, ArchiveGoes, RunsFive, TuplesAreSequences DEF BackendMount

\* Unmounting leaves files that dangle, unless there are none.
Left(f) == IF f = "none" \/ mode # "api" THEN f ELSE "stale"

LEMMA BackendUnmountRuns ==
  ASSUME Backend, NEW f \in {"any", "none", "stale"}
  PROVE  /\ Runs(Know(0, 0, 0, f), BackendUnmount, Know(0, 0, 0, Left(f)))
         /\ BackendUnmount \in Seq(Steps)
<1> DEFINE g == Left(f)
<1>1. g \in {"any", "none", "stale"}
  BY DEF Left
<1>2. Goes(Know(1, 0, 0, f), "close", Know(1, 0, 0, g))
  BY DEF Backend, Goes, Pre, Know, InMode, Covered, MayFail, BackendSteps, TableSteps, After, Left
<1>3. "exclusive" \in Steps /\ "close" \in Steps /\ "rename" \in Steps /\ "release" \in Steps
  BY DEF Steps, BackendSteps
<1> HIDE DEF g
<1>4. /\ Know(0, 0, 0, f) \in Knowledge /\ Know(1, 0, 0, f) \in Knowledge
      /\ Know(1, 0, 0, g) \in Knowledge /\ Know(0, 0, 0, g) \in Knowledge
  BY <1>1, KnowType
<1>5. /\ Goes(Know(0, 0, 0, f), "exclusive", Know(1, 0, 0, f))
      /\ Goes(Know(1, 0, 0, g), "rename", Know(1, 0, 0, g))
      /\ Goes(Know(1, 0, 0, g), "release", Know(0, 0, 0, g))
  BY <1>1, ExclusiveGoes
<1>6. Runs(Know(0, 0, 0, f), <<"exclusive", "close", "rename", "release">>, Know(0, 0, 0, g))
  BY <1>2, <1>4, <1>5, RunsFour
<1> QED
  BY <1>3, <1>6, TuplesAreSequences DEF BackendUnmount, g

-----------------------------------------------------------------------------
(* The calls.                                                              *)

\* With mutex_ just locked.
Entered == [mutex |-> 1, excl |-> 0, shared |-> 0, open |-> 0, files |-> "any"]

LEMMA EndsType ==
  Idle \in Knowledge /\ Entered \in Knowledge
<1> DEFINE K == 0 .. 2
           X == 0 .. 1
<1>1. 0 \in K /\ 1 \in K /\ 0 \in X
  OBVIOUS
<1> HIDE DEF K, X
<1>2. /\ Idle \in [mutex : K, excl : X, shared : K, open : X, files : {"any", "mine", "none", "stale"}]
      /\ Entered \in [mutex : K, excl : X, shared : K, open : X, files : {"any", "mine", "none", "stale"}]
  BY <1>1 DEF Idle, Entered
<1> QED
  BY <1>2 DEF Knowledge, K, X

LEMMA LockGoesIn ==
  ASSUME mode \in {"api", "registry"}
  PROVE  Goes(Idle, "lock", Entered)
<1>1. After(Idle, "lock") = Entered
  BY DEF After, Idle, Entered
<1>2. Pre(Idle, "lock")
  BY DEF Pre, Idle, InMode, Covered, MayFail, TableSteps, RegistrySteps
<1> QED
  BY <1>1, <1>2 DEF Goes

LEMMA LockedRuns ==
  ASSUME mode \in {"api", "registry"}, NEW s \in Seq(Steps), NEW q \in Knowledge,
         Runs(Entered, s, q), Goes(q, "unlock", Idle)
  PROVE  Runs(Idle, Locked(s), Idle) /\ Locked(s) \in Seq(Steps)
<1> DEFINE start == <<"lock">>
           end == <<"unlock">>
<1>3. start \in Seq(Steps) /\ end \in Seq(Steps)
  BY DEF Steps, TableSteps
<1>4. Runs(Idle, start, Entered) /\ Runs(q, end, Idle)
  BY EndsType, LockGoesIn, RunsOne
<1> HIDE DEF start, end
<1>6. Runs(Idle, start \o s, q) /\ start \o s \in Seq(Steps)
  BY <1>3, <1>4, RunsBoth, ConcatProperties
<1>7. Runs(Idle, (start \o s) \o end, Idle) /\ (start \o s) \o end \in Seq(Steps)
  BY <1>3, <1>4, <1>6, RunsBoth, ConcatProperties
<1>8. (start \o s) \o end = start \o s \o end
  OBVIOUS
<1> QED
  BY <1>7, <1>8 DEF Locked, start, end

\* Through the C API: the find, and what follows it.
LEMMA EnteredIsBase ==
  ASSUME mode \in {"api", "registry"}
  PROVE  Entered = Know(0, 0, 0, "any")
BY DEF Entered, Know

LEMMA ApiGoes ==
  ASSUME mode = "api"
  PROVE  /\ \A f \in {"any", "none"} : Goes(Know(0, 0, 0, f), "find", Know(0, 0, 0, f))
         /\ Goes(Know(0, 0, 0, "any"), "absent", Know(0, 0, 0, "any"))
         /\ Goes(Know(0, 0, 0, "any"), "insert", Know(0, 0, 0, "any"))
         /\ \A f \in {"none", "stale"} : Goes(Know(0, 0, 0, f), "free", Know(0, 0, 0, f))
         /\ \A f \in {"any", "stale"} : Goes(Know(0, 0, 0, f), "forget", Know(0, 0, 0, "none"))
         /\ \A f \in {"any", "none", "mine"} : Goes(Know(0, 0, 0, f), "unlock", Idle)
<1> USE DEF Goes, Pre, Know, InMode, Covered, MayFail, BackendSteps, TableSteps
<1>1. \A f \in {"any", "none"} : Goes(Know(0, 0, 0, f), "find", Know(0, 0, 0, f))
  BY DEF After
<1>2. Goes(Know(0, 0, 0, "any"), "absent", Know(0, 0, 0, "any"))
  BY DEF After
<1>3. Goes(Know(0, 0, 0, "any"), "insert", Know(0, 0, 0, "any"))
  BY DEF After
<1>4. \A f \in {"none", "stale"} : Goes(Know(0, 0, 0, f), "free", Know(0, 0, 0, f))
  BY DEF After
<1>5. \A f \in {"any", "stale"} : Goes(Know(0, 0, 0, f), "forget", Know(0, 0, 0, "none"))
  BY DEF After
<1>6. \A f \in {"any", "none", "mine"} : Goes(Know(0, 0, 0, f), "unlock", Idle)
  BY DEF After, Idle
<1> QED
  BY <1>1, <1>2, <1>3, <1>4, <1>5, <1>6, Zenon

LEMMA ApiFilesGo ==
  ASSUME mode = "api"
  PROVE  /\ Goes(Know(0, 0, 0, "any"), "lookup", Know(0, 0, 0, "mine"))
         /\ Goes(Know(0, 0, 0, "mine"), "read", Know(0, 0, 0, "mine"))
         /\ Goes(Know(0, 0, 0, "mine"), "reopen", Know(0, 0, 0, "mine"))
         /\ Goes(Know(0, 0, 0, "mine"), "drop", Know(0, 0, 0, "any"))
         /\ Goes(Know(0, 0, 0, "any"), "point", Know(0, 0, 0, "any"))
         /\ Goes(Know(0, 0, 0, "any"), "peek", Know(0, 0, 0, "any"))
         /\ \A step \in {"follow", "assign", "look"} : Goes(Idle, step, Idle)
<1> USE DEF Goes, Pre, Know, InMode, Covered, MayFail, BackendSteps, TableSteps
<1>1. Goes(Know(0, 0, 0, "any"), "lookup", Know(0, 0, 0, "mine"))
  BY DEF After
<1>2. Goes(Know(0, 0, 0, "mine"), "read", Know(0, 0, 0, "mine"))
  BY DEF After
<1>3. Goes(Know(0, 0, 0, "mine"), "reopen", Know(0, 0, 0, "mine"))
  BY DEF After
<1>4. Goes(Know(0, 0, 0, "mine"), "drop", Know(0, 0, 0, "any"))
  BY DEF After
<1>5. Goes(Know(0, 0, 0, "any"), "point", Know(0, 0, 0, "any"))
  BY DEF After
<1>6. Goes(Know(0, 0, 0, "any"), "peek", Know(0, 0, 0, "any"))
  BY DEF After
<1>7. \A step \in {"follow", "assign", "look"} : Goes(Idle, step, Idle)
  BY DEF After, Idle
<1> QED
  BY <1>1, <1>2, <1>3, <1>4, <1>5, <1>6, <1>7, Zenon

\* The destructor of the backend: unmount twice, and free the mount.
LEMMA DestroyRuns ==
  ASSUME mode = "api", Backend, NEW f \in {"any", "none"}
  PROVE  /\ Runs(Know(0, 0, 0, f), Destroy, Know(0, 0, 0, Left(f)))
         /\ Destroy \in Seq(Steps)
<1>1. Left(f) \in {"none", "stale"} /\ Left(Left(f)) = Left(f)
  BY DEF Left
<1>2. /\ Runs(Know(0, 0, 0, f), BackendUnmount, Know(0, 0, 0, Left(f)))
      /\ BackendUnmount \in Seq(Steps)
  BY BackendUnmountRuns
<1>3. Runs(Know(0, 0, 0, Left(f)), BackendUnmount, Know(0, 0, 0, Left(f)))
  BY <1>1, BackendUnmountRuns
<1>4. Know(0, 0, 0, Left(f)) \in Knowledge
  BY <1>1, KnowType
<1> DEFINE end == <<"free">>
<1>5. end \in Seq(Steps)
  BY DEF Steps, TableSteps
<1>6. Runs(Know(0, 0, 0, Left(f)), end, Know(0, 0, 0, Left(f)))
  BY <1>1, <1>4, ApiGoes, RunsOne
<1> HIDE DEF end
<1>7. /\ Runs(Know(0, 0, 0, f), BackendUnmount \o BackendUnmount, Know(0, 0, 0, Left(f)))
      /\ BackendUnmount \o BackendUnmount \in Seq(Steps)
  BY <1>2, <1>3, RunsBoth, ConcatProperties
<1>8. /\ Runs(Know(0, 0, 0, f), (BackendUnmount \o BackendUnmount) \o end, Know(0, 0, 0, Left(f)))
      /\ (BackendUnmount \o BackendUnmount) \o end \in Seq(Steps)
  BY <1>5, <1>6, <1>7, RunsBoth, ConcatProperties
<1> QED
  BY <1>8 DEF Destroy, end

LEMMA ApiBase ==
  ASSUME mode = "api"
  PROVE  Base = Entered /\ Base = Know(0, 0, 0, "any")
BY EnteredIsBase DEF Base

\* A call that finds its mount and asks the backend for one thing.
LEMMA FindRuns ==
  ASSUME mode = "api", NEW s \in Seq(Steps), Runs(Base, s, Base)
  PROVE  Runs(Idle, Locked(<<"find">> \o s), Idle) /\ Locked(<<"find">> \o s) \in Seq(Steps)
<1> DEFINE start == <<"find">>
<1>1. start \in Seq(Steps)
  BY DEF Steps, TableSteps
<1>2. Runs(Entered, start, Entered) /\ Goes(Entered, "unlock", Idle)
  BY ApiBase, ApiGoes, EndsType, RunsOne
<1> HIDE DEF start
<1>3. Runs(Entered, start \o s, Entered) /\ start \o s \in Seq(Steps)
  BY <1>1, <1>2, ApiBase, RunsBoth, ConcatProperties
<1>4. Runs(Idle, Locked(start \o s), Idle) /\ Locked(start \o s) \in Seq(Steps)
  BY <1>2, <1>3, EndsType, LockedRuns
<1> QED
  BY <1>4 DEF start

LEMMA StatRuns ==
  ASSUME mode = "api", Backend
  PROVE  Runs(Idle, Stat, Idle) /\ Stat \in Seq(Steps)
<1> DEFINE start == <<"find">>
<1>1. /\ Query \in Seq(Steps) /\ Runs(Base, Query, Base)
      /\ Permissions \in Seq(Steps) /\ Runs(Base, Permissions, Base)
  BY BaseQuery, PermissionsRuns
<1>2. start \in Seq(Steps)
  BY DEF Steps, TableSteps
<1>3. Runs(Base, start, Base) /\ Goes(Base, "unlock", Idle)
  BY ApiBase, ApiGoes, EndsType, RunsOne
<1> HIDE DEF start
<1>4. Runs(Base, start \o Query, Base) /\ start \o Query \in Seq(Steps)
  BY <1>1, <1>2, <1>3, RunsBoth, ConcatProperties
<1> DEFINE s2 == (start \o Query) \o Permissions
<1>5. Runs(Base, s2, Base) /\ s2 \in Seq(Steps)
  BY <1>1, <1>4, RunsBoth, ConcatProperties
<1> HIDE DEF s2
<1> DEFINE s3 == s2 \o Query
<1>6. Runs(Base, s3, Base) /\ s3 \in Seq(Steps)
  BY <1>1, <1>5, RunsBoth, ConcatProperties
<1> HIDE DEF s3
<1> DEFINE s4 == s3 \o Query
<1>7. Runs(Base, s4, Base) /\ s4 \in Seq(Steps)
  BY <1>1, <1>6, RunsBoth, ConcatProperties
<1> HIDE DEF s4
<1> DEFINE s5 == s4 \o Query
<1>8. Runs(Base, s5, Base) /\ s5 \in Seq(Steps)
  BY <1>1, <1>7, RunsBoth, ConcatProperties
<1> HIDE DEF s5
<1>9. Runs(Idle, Locked(s5), Idle) /\ Locked(s5) \in Seq(Steps)
  BY <1>3, <1>8, ApiBase, EndsType, LockedRuns
<1> QED
  BY <1>9 DEF Stat, s5, s4, s3, s2, start

\* Two pieces, or three, under mutex_.
LEMMA LockedTwo ==
  ASSUME mode \in {"api", "registry"}, NEW s \in Seq(Steps), NEW t \in Seq(Steps),
         NEW q \in Knowledge, NEW r \in Knowledge,
         Runs(Entered, s, q), Runs(q, t, r), Goes(r, "unlock", Idle)
  PROVE  Runs(Idle, Locked(s \o t), Idle) /\ Locked(s \o t) \in Seq(Steps)
<1>1. Runs(Entered, s \o t, r) /\ s \o t \in Seq(Steps)
  BY RunsBoth, ConcatProperties
<1> QED
  BY <1>1, LockedRuns

LEMMA LockedThree ==
  ASSUME mode \in {"api", "registry"}, NEW s \in Seq(Steps), NEW t \in Seq(Steps),
         NEW u \in Seq(Steps), NEW q \in Knowledge, NEW r \in Knowledge, NEW x \in Knowledge,
         Runs(Entered, s, q), Runs(q, t, r), Runs(r, u, x), Goes(x, "unlock", Idle)
  PROVE  Runs(Idle, Locked(s \o t \o u), Idle) /\ Locked(s \o t \o u) \in Seq(Steps)
<1>1. Runs(Entered, s \o t, r) /\ s \o t \in Seq(Steps)
  BY RunsBoth, ConcatProperties
<1>2. Runs(Idle, Locked((s \o t) \o u), Idle) /\ Locked((s \o t) \o u) \in Seq(Steps)
  BY <1>1, LockedTwo
<1> QED
  BY <1>2

\* A call and what it does once it has unlocked mutex_.
LEMMA ThenRuns ==
  ASSUME NEW s \in Seq(Steps), NEW t \in Seq(Steps), Runs(Idle, s, Idle), Runs(Idle, t, Idle)
  PROVE  Runs(Idle, s \o t, Idle) /\ s \o t \in Seq(Steps)
BY RunsBoth, ConcatProperties

LEMMA UnmountRuns ==
  ASSUME mode = "api", Backend
  PROVE  /\ Runs(Idle, UnmountHandle, Idle) /\ UnmountHandle \in Seq(Steps)
         /\ Runs(Idle, Unmount, Idle) /\ Unmount \in Seq(Steps)
<1>1. /\ Know(0, 0, 0, "any") \in Knowledge /\ Know(0, 0, 0, "none") \in Knowledge
      /\ Know(0, 0, 0, "stale") \in Knowledge
  BY KnowType
<1>2. Left("any") = "stale" /\ Left("none") = "none"
  BY DEF Left
<1>3. /\ Destroy \in Seq(Steps)
      /\ Runs(Know(0, 0, 0, "any"), Destroy, Know(0, 0, 0, "stale"))
      /\ Runs(Know(0, 0, 0, "none"), Destroy, Know(0, 0, 0, "none"))
  BY <1>2, DestroyRuns
<1>4. "find" \in Steps /\ "forget" \in Steps
  BY DEF Steps, TableSteps
<1> DEFINE both == <<"find", "forget">>
           find == <<"find">>
           forget == <<"forget">>
<1>5. both \in Seq(Steps) /\ find \in Seq(Steps) /\ forget \in Seq(Steps)
  BY <1>4, TuplesAreSequences
<1>6. /\ Runs(Entered, both, Know(0, 0, 0, "none"))
      /\ Runs(Entered, find, Know(0, 0, 0, "any"))
      /\ Runs(Know(0, 0, 0, "stale"), forget, Know(0, 0, 0, "none"))
      /\ Goes(Know(0, 0, 0, "none"), "unlock", Idle)
  <2>1. /\ Goes(Know(0, 0, 0, "any"), "find", Know(0, 0, 0, "any"))
        /\ Goes(Know(0, 0, 0, "any"), "forget", Know(0, 0, 0, "none"))
        /\ Goes(Know(0, 0, 0, "stale"), "forget", Know(0, 0, 0, "none"))
        /\ Goes(Know(0, 0, 0, "none"), "unlock", Idle)
    BY ApiGoes
  <2>2. Entered = Know(0, 0, 0, "any")
    BY EnteredIsBase
  <2> QED
    BY <1>1, <2>1, <2>2, RunsOne, RunsTwo
<1> HIDE DEF both, find, forget
<1>7. /\ Runs(Idle, Locked(both \o Destroy), Idle)
      /\ Locked(both \o Destroy) \in Seq(Steps)
  BY <1>1, <1>3, <1>5, <1>6, LockedTwo
<1>8. /\ Runs(Idle, Locked(find \o Destroy \o forget), Idle)
      /\ Locked(find \o Destroy \o forget) \in Seq(Steps)
  BY <1>1, <1>3, <1>5, <1>6, LockedThree
<1> QED
  BY <1>7, <1>8 DEF UnmountHandle, Unmount, both, find, forget

LEMMA ApiMountRuns ==
  ASSUME mode = "api", Backend
  PROVE  Runs(Idle, ApiMount, Idle) /\ ApiMount \in Seq(Steps)
<1> DEFINE absent == <<"absent">>
           insert == <<"insert">>
<1>1. Base \in Knowledge /\ Entered = Base /\ Base = Know(0, 0, 0, "any")
  BY ApiBase, EndsType
<1>2. absent \in Seq(Steps) /\ insert \in Seq(Steps)
  BY DEF Steps, TableSteps
<1>3. /\ Goes(Base, "absent", Base) /\ Goes(Base, "insert", Base)
      /\ Goes(Base, "unlock", Idle)
  BY <1>1, ApiGoes
<1>4. Runs(Base, absent, Base) /\ Runs(Base, insert, Base)
  BY <1>1, <1>3, RunsOne
<1> HIDE DEF absent, insert
<1>5. Runs(Base, BackendMount, Base) /\ BackendMount \in Seq(Steps)
  BY BackendMountRuns
<1>6. /\ Runs(Idle, Locked(absent \o BackendMount \o insert), Idle)
      /\ Locked(absent \o BackendMount \o insert) \in Seq(Steps)
  BY <1>1, <1>2, <1>3, <1>4, <1>5, LockedThree
<1> QED
  BY <1>6 DEF ApiMount, absent, insert

LEMMA GettersRun ==
  ASSUME mode = "api"
  PROVE  /\ Runs(Idle, GetMountPoint, Idle) /\ GetMountPoint \in Seq(Steps)
         /\ Runs(Idle, GetArchivePath, Idle) /\ GetArchivePath \in Seq(Steps)
<1>1. Base \in Knowledge /\ Entered = Base /\ Base = Know(0, 0, 0, "any") /\ Idle \in Knowledge
  BY ApiBase, EndsType
<1>2. /\ Goes(Base, "find", Base) /\ Goes(Base, "point", Base) /\ Goes(Base, "peek", Base)
      /\ Goes(Base, "unlock", Idle)
      /\ Goes(Idle, "follow", Idle) /\ Goes(Idle, "assign", Idle) /\ Goes(Idle, "look", Idle)
  BY <1>1, ApiGoes, ApiFilesGo
<1>3. /\ "find" \in Steps /\ "point" \in Steps /\ "peek" \in Steps
      /\ "follow" \in Steps /\ "assign" \in Steps /\ "look" \in Steps
  BY DEF Steps, TableSteps, BackendSteps
<1> DEFINE point == <<"find", "point">>
           path == <<"find", "peek">>
           after1 == <<"follow">>
           after2 == <<"assign", "look">>
<1>4. /\ point \in Seq(Steps) /\ path \in Seq(Steps)
      /\ after1 \in Seq(Steps) /\ after2 \in Seq(Steps)
  BY <1>3, TuplesAreSequences
<1>5. /\ Runs(Base, point, Base) /\ Runs(Base, path, Base)
      /\ Runs(Idle, after1, Idle) /\ Runs(Idle, after2, Idle)
  BY <1>1, <1>2, RunsOne, RunsTwo
<1> HIDE DEF point, path, after1, after2
<1>6. /\ Runs(Idle, Locked(point), Idle) /\ Locked(point) \in Seq(Steps)
      /\ Runs(Idle, Locked(path), Idle) /\ Locked(path) \in Seq(Steps)
  BY <1>1, <1>2, <1>4, <1>5, LockedRuns
<1>7. /\ Runs(Idle, Locked(point) \o after1, Idle) /\ Locked(point) \o after1 \in Seq(Steps)
      /\ Runs(Idle, Locked(path) \o after2, Idle) /\ Locked(path) \o after2 \in Seq(Steps)
  BY <1>4, <1>5, <1>6, ThenRuns
<1> QED
  BY <1>7 DEF GetMountPoint, GetArchivePath, point, path, after1, after2

LEMMA FilesRun ==
  ASSUME mode = "api", NEW step \in {"read", "reopen", "drop"}
  PROVE  /\ Runs(Idle, Locked(<<"lookup", step>>), Idle)
         /\ Locked(<<"lookup", step>>) \in Seq(Steps)
<1>1. PICK q \in {Know(0, 0, 0, "mine"), Know(0, 0, 0, "any")} :
        Goes(Know(0, 0, 0, "mine"), step, q)
  BY ApiFilesGo
<1>2. q \in Knowledge /\ Know(0, 0, 0, "any") \in Knowledge /\ Know(0, 0, 0, "mine") \in Knowledge
  BY KnowType
<1>3. Goes(q, "unlock", Idle)
  <2>1. /\ Goes(Know(0, 0, 0, "mine"), "unlock", Idle)
        /\ Goes(Know(0, 0, 0, "any"), "unlock", Idle)
    BY ApiGoes
  <2> QED
    BY <2>1
<1> DEFINE s == <<"lookup", step>>
<1>4. s \in Seq(Steps)
  BY DEF Steps, TableSteps, BackendSteps
<1>5. Runs(Entered, s, q)
  BY <1>1, <1>2, EnteredIsBase, ApiFilesGo, RunsTwo
<1> HIDE DEF s
<1>6. Runs(Idle, Locked(s), Idle) /\ Locked(s) \in Seq(Steps)
  BY <1>2, <1>3, <1>4, <1>5, LockedRuns
<1> QED
  BY <1>6 DEF s

LEMMA ApiCallsRun ==
  ASSUME mode = "api", Backend, NEW call \in ApiCalls
  PROVE  Runs(Idle, call, Idle) /\ call \in Seq(Steps)
<1>1. /\ OpenFile \in Seq(Steps) /\ Runs(Base, OpenFile, Base)
      /\ ListDirectory \in Seq(Steps) /\ Runs(Base, ListDirectory, Base)
  BY OpenFileRuns, ListDirectoryRuns
<1>2. /\ \A s \in {OpenFile, ListDirectory} :
           /\ Runs(Idle, Locked(<<"find">> \o s), Idle)
           /\ Locked(<<"find">> \o s) \in Seq(Steps)
  BY <1>1, FindRuns
<1>3. call \in {ApiMount, UnmountHandle, Unmount, Stat, GetMountPoint, GetArchivePath}
        => Runs(Idle, call, Idle) /\ call \in Seq(Steps)
  BY ApiMountRuns, UnmountRuns, StatRuns, GettersRun
<1>4. call \in {Locked(<<"lookup", "read">>), Locked(<<"lookup", "reopen">>),
                Locked(<<"lookup", "drop">>)}
        => Runs(Idle, call, Idle) /\ call \in Seq(Steps)
  BY FilesRun
<1> QED
  BY <1>2, <1>3, <1>4 DEF ApiCalls

-----------------------------------------------------------------------------
(* The calls in direct use, and those of the registry.                     *)

LEMMA DirectCallsRun ==
  ASSUME mode = "direct", Backend, NEW call \in DirectCalls
  PROVE  Runs(Idle, call, Idle) /\ call \in Seq(Steps)
<1>1. Base = Idle
  BY DEF Base, Know, Idle
<1>2. \A step \in {"peek", "read", "reopen", "drop"} : Goes(Idle, step, Idle) /\ step \in Steps
  BY DEF Goes, Pre, After, Idle, InMode, Covered, MayFail, Steps, BackendSteps
<1>3. \A step \in {"peek", "read", "reopen", "drop"} :
        Runs(Idle, <<step>>, Idle) /\ <<step>> \in Seq(Steps)
  BY <1>2, EndsType, RunsOne, TuplesAreSequences
<1>4. Left("any") = "any"
  BY DEF Left
<1>5. Runs(Base, BackendUnmount, Base) /\ BackendUnmount \in Seq(Steps)
  BY <1>4, BackendUnmountRuns DEF Base
<1>6. call \in {BackendMount, BackendUnmount, IsMounted, Query, Permissions,
                ListDirectory, OpenFile}
        => Runs(Idle, call, Idle) /\ call \in Seq(Steps)
  BY <1>1, <1>5, BackendMountRuns, IsMountedRuns, BaseQuery, PermissionsRuns,
     ListDirectoryRuns, OpenFileRuns
<1> QED
  BY <1>3, <1>6 DEF DirectCalls

\* The second lock of create_from_file.
Twice == [mutex |-> 2, excl |-> 0, shared |-> 0, open |-> 0, files |-> "any"]

LEMMA RegistryGoes ==
  ASSUME mode = "registry"
  PROVE  /\ Goes(Entered, "scan", Entered) /\ Goes(Entered, "grow", Entered)
         /\ Goes(Entered, "unlock", Idle) /\ Goes(Entered, "lock", Twice)
         /\ Goes(Twice, "scan", Twice) /\ Goes(Twice, "unlock", Entered)
         /\ Goes(Idle, "peruse", Idle) /\ Twice \in Knowledge
<1> USE DEF Goes, Pre, Idle, Entered, Twice, InMode, Covered, MayFail, RegistrySteps
<1>1. Goes(Entered, "scan", Entered) /\ Goes(Entered, "grow", Entered)
  BY DEF After
<1>2. Goes(Entered, "unlock", Idle) /\ Goes(Entered, "lock", Twice)
  BY DEF After
<1>3. Goes(Twice, "scan", Twice) /\ Goes(Twice, "unlock", Entered)
  BY DEF After
<1>4. Goes(Idle, "peruse", Idle)
  BY DEF After
<1>5. Twice \in Knowledge
  <2> DEFINE K == 0 .. 2
             X == 0 .. 1
  <2>1. 0 \in K /\ 2 \in K /\ 0 \in X
    OBVIOUS
  <2> HIDE DEF K, X
  <2>2. Twice \in [mutex : K, excl : X, shared : K, open : X, files : {"any", "mine", "none", "stale"}]
    BY <2>1
  <2> QED
    BY <2>2 DEF Knowledge, K, X
<1> QED
  BY <1>1, <1>2, <1>3, <1>4, <1>5

LEMMA RegistryCallsRun ==
  ASSUME mode = "registry", NEW call \in RegistryCalls
  PROVE  Runs(Idle, call, Idle) /\ call \in Seq(Steps)
<1>1. /\ "scan" \in Steps /\ "grow" \in Steps /\ "peruse" \in Steps /\ "lock" \in Steps
      /\ "unlock" \in Steps
  BY DEF Steps, RegistrySteps
<1> DEFINE scan == <<"scan">>
           both == <<"scan", "grow">>
           peruse == <<"peruse">>
           lock == <<"lock">>
           unlock == <<"unlock">>
<1>2. /\ scan \in Seq(Steps) /\ both \in Seq(Steps) /\ peruse \in Seq(Steps)
      /\ lock \in Seq(Steps) /\ unlock \in Seq(Steps)
  BY <1>1, TuplesAreSequences
<1>3. /\ Runs(Entered, scan, Entered) /\ Runs(Entered, both, Entered)
      /\ Runs(Idle, peruse, Idle) /\ Runs(Entered, lock, Twice)
      /\ Runs(Twice, scan, Twice) /\ Runs(Twice, unlock, Entered)
  BY EndsType, RegistryGoes, RunsOne, RunsTwo
<1>4. Goes(Entered, "unlock", Idle) /\ Twice \in Knowledge /\ Entered \in Knowledge
  BY RegistryGoes, EndsType
<1> HIDE DEF scan, both, peruse, lock, unlock
<1>5. /\ Runs(Idle, Locked(scan), Idle) /\ Locked(scan) \in Seq(Steps)
      /\ Runs(Idle, Locked(both), Idle) /\ Locked(both) \in Seq(Steps)
  BY <1>2, <1>3, <1>4, LockedRuns
<1>6. Runs(Idle, Locked(scan) \o peruse, Idle) /\ Locked(scan) \o peruse \in Seq(Steps)
  BY <1>2, <1>3, <1>5, ThenRuns
<1> DEFINE inner == (lock \o scan) \o unlock
<1>7. Runs(Entered, inner, Entered) /\ inner \in Seq(Steps)
  <2>1. Runs(Entered, lock \o scan, Twice) /\ lock \o scan \in Seq(Steps)
    BY <1>2, <1>3, RunsBoth, ConcatProperties
  <2> QED
    BY <1>2, <1>3, <2>1, RunsBoth, ConcatProperties
<1>8. inner = Locked(scan)
  BY DEF Locked, lock, unlock
<1>9. /\ Runs(Idle, Locked(scan \o Locked(scan)), Idle)
      /\ Locked(scan \o Locked(scan)) \in Seq(Steps)
  <2>1. Runs(Entered, Locked(scan), Entered) /\ Locked(scan) \in Seq(Steps)
    BY <1>7, <1>8
  <2> HIDE DEF inner
  <2> QED
    BY <1>2, <1>3, <1>4, <2>1, LockedTwo
<1> QED
  BY <1>5, <1>6, <1>9
  DEF RegistryCalls, Consult, Register, GetInfo, CreateUnknown, scan, both, peruse

\* Every call runs from nothing known to nothing held.
LEMMA CallsRun ==
  ASSUME mode \in {"api", "direct", "registry"}, kind \in {"zip", "dwarfs", "squashfs"},
         NEW call \in Calls
  PROVE  Runs(Idle, call, Idle) /\ call \in Seq(Steps)
<1>1. CASE mode = "api"
  BY <1>1, ApiCallsRun DEF Calls, Backend
<1>2. CASE mode = "direct"
  BY <1>2, DirectCallsRun DEF Calls, Backend
<1>3. CASE mode = "registry"
  BY <1>3, RegistryCallsRun DEF Calls
<1> QED
  BY <1>1, <1>2, <1>3

-----------------------------------------------------------------------------
(* The invariant.                                                          *)

\* No knowledge is like this but between the steps of one call.
Sound(p) ==
  /\ p.mutex <= 1
  /\ p.excl = 1 => p.shared = 0
  /\ p.open = 1 => p.excl = 1 \/ p.shared > 0
  /\ p.mutex = 0 => p.files = "any"
  /\ mode = "api" /\ p.mutex = 0 => p.excl = 0 /\ p.shared = 0
  /\ mode = "direct" => p.mutex = 0
  /\ mode = "registry" => p.excl = 0 /\ p.shared = 0

Tidy == \A u \in Threads : handle[u] # "dangling"

FilesFit(t, files) ==
  /\ files # "stale" => Tidy
  /\ files = "mine" => handle[t] = "live"
  /\ files = "none" => \A u \in Threads : handle[u] = "none"

\* What t knows is true.
Fits(t, p) ==
  /\ Sound(p)
  /\ p.mutex = 1 <=> holder = t
  /\ p.excl = 1 <=> writer = t
  /\ p.shared = sharers[t]
  /\ p.open = 1 => archive
  /\ mode = "api" /\ p.mutex = 1 => FilesFit(t, p.files)

InCall(t) == \E p \in Knowledge : Fits(t, p) /\ Runs(p, todo[t], Idle)

OneWriter == writer # NoThread => \A u \in Threads : sharers[u] = 0

\* The table of open files is in order whenever mutex_ is free.
TidyBetweenCalls == mode = "api" /\ holder = NoThread => Tidy

LiveIsOpen == (\E u \in Threads : handle[u] = "live") => archive

Inv ==
  /\ TypeOK /\ OneWriter /\ TidyBetweenCalls /\ LiveIsOpen
  /\ \A t \in Threads : InCall(t)

LEMMA SoundAfter ==
  ASSUME NEW p \in Knowledge, NEW step \in Steps, mode \in {"api", "direct", "registry"},
         Sound(p), Pre(p, step), step = "lock" => p.mutex = 0
  PROVE  Sound(After(p, step))
<1> DEFINE q == After(p, step)
<1>1. /\ p.mutex \in 0 .. 2 /\ p.excl \in 0 .. 1 /\ p.shared \in 0 .. 2 /\ p.open \in 0 .. 1
  BY DEF Knowledge
<1>2. q.mutex <= 1 /\ (mode = "direct" => q.mutex = 0)
  BY <1>1 DEF Sound, Pre, After, InMode, BackendSteps
<1>3. q.excl = 1 => q.shared = 0
  BY <1>1 DEF Sound, Pre, After
<1>4. q.open = 1 => q.excl = 1 \/ q.shared > 0
  BY <1>1 DEF Sound, Pre, After
<1>5. q.mutex = 0 => q.files = "any"
  BY <1>1 DEF Sound, Pre, After, Covered, InMode, BackendSteps, RegistrySteps
<1>6. mode = "api" /\ q.mutex = 0 => q.excl = 0 /\ q.shared = 0
  BY <1>1 DEF Sound, Pre, After, Covered
<1>7. mode = "registry" => q.excl = 0 /\ q.shared = 0
  BY <1>1 DEF Sound, Pre, After, InMode, RegistrySteps
<1> QED
  BY <1>2, <1>3, <1>4, <1>5, <1>6, <1>7 DEF Sound

LEMMA RunsKept ==
  ASSUME UNCHANGED <<mode, kind>>, NEW p, NEW u
  PROVE  Runs(p, todo[u], Idle)' <=> Runs(p, todo'[u], Idle)
BY DEF Runs, Goes, Pre, After, InMode, Covered, MayFail, BackendSteps, TableSteps, RegistrySteps, Idle

\* A step of t keeps every thread in its call if t knows the right thing
\* after it and what the others know stays true.
LEMMA CallsKept ==
  ASSUME Inv, NEW t \in Threads, UNCHANGED <<mode, kind>>, NEW s \in Seq(Steps),
         todo' = [todo EXCEPT ![t] = s], NEW q \in Knowledge, Runs(q, s, Idle),
         Fits(t, q)',
         \A u \in Threads \ {t} : \A p \in Knowledge : Fits(u, p) => Fits(u, p)'
  PROVE  \A u \in Threads : InCall(u)'
<1>1. todo \in [Threads -> Seq(Steps)]
  BY DEF Inv, TypeOK
<1>2. InCall(t)'
  <2>1. todo'[t] = s
    BY <1>1
  <2>2. Runs(q, todo[t], Idle)'
    BY <2>1, RunsKept
  <2> QED
    BY <2>2 DEF InCall
<1>3. ASSUME NEW u \in Threads \ {t}
      PROVE  InCall(u)'
  <2>1. PICK p \in Knowledge : Fits(u, p) /\ Runs(p, todo[u], Idle)
    BY DEF Inv, InCall
  <2>2. todo'[u] = todo[u]
    BY <1>1
  <2>3. Runs(p, todo[u], Idle)'
    BY <2>1, <2>2, RunsKept
  <2> QED
    BY <2>1, <2>3 DEF InCall
<1> QED
  BY <1>2, <1>3

\* What a thread about to make a step knows, before and after it.
LEMMA AtStep ==
  ASSUME Inv, NEW t \in Threads, NEW step, At(t, step)
  PROVE  \E p, q \in Knowledge :
           /\ Fits(t, p) /\ Pre(p, step) /\ q = After(p, step)
           /\ Runs(q, Tail(todo[t]), Idle) /\ Tail(todo[t]) \in Seq(Steps)
           /\ step \in Steps
           /\ step = "lock" => (p.mutex = 0 => Sound(q))
           /\ step # "lock" => Sound(q)
<1>1. PICK p \in Knowledge : Fits(t, p) /\ Runs(p, todo[t], Idle)
  BY DEF Inv, InCall
<1>2. todo[t] \in Seq(Steps) /\ todo[t] # <<>> /\ Head(todo[t]) = step
  BY DEF Inv, TypeOK, At
<1>3. step \in Steps
  BY <1>2, HeadTailProperties, EmptySeq
<1>4. /\ Pre(p, step) /\ After(p, step) \in Knowledge
      /\ Runs(After(p, step), Tail(todo[t]), Idle)
      /\ Tail(todo[t]) \in Seq(Steps)
  BY <1>1, <1>2, RunsFirst
<1>5. mode \in {"api", "direct", "registry"}
  BY DEF Inv, TypeOK
<1>6. (step = "lock" => p.mutex = 0) => Sound(After(p, step))
  BY <1>1, <1>3, <1>4, <1>5, SoundAfter DEF Fits
<1> QED
  BY <1>1, <1>3, <1>4, <1>6

LEMMA KnowledgeType ==
  ASSUME NEW p \in Knowledge
  PROVE  /\ p.mutex \in 0 .. 2 /\ p.excl \in 0 .. 1 /\ p.shared \in 0 .. 2 /\ p.open \in 0 .. 1
         /\ p.files \in {"any", "mine", "none", "stale"}
BY DEF Knowledge

\* Whatever t may change without the others noticing.
Discreet(t) ==
  /\ UNCHANGED program
  /\ holder' = holder \/ (holder = NoThread /\ holder' = t) \/ (holder = t /\ holder' = NoThread)
  /\ writer' = writer \/ (writer = NoThread /\ writer' = t) \/ (writer = t /\ writer' = NoThread)
  /\ \A u \in Threads \ {t} : sharers'[u] = sharers[u]
  /\ archive' = archive \/ archive' = TRUE \/ writer = t
  /\ handle' = handle \/ mode # "api" \/ holder = t

LEMMA TwoAlike ==
  ASSUME NEW n, n = 2, NEW c
  PROVE  [i \in 1 .. n |-> c] = <<c, c>>
OBVIOUS

\* A call that fails gives back what it holds.
LEMMA UnwindRuns ==
  ASSUME Inv, NEW t \in Threads, NEW p \in Knowledge, Fits(t, p),
         p.files # "stale", mode # "registry", NEW s,
         s = [i \in 1 .. (sharers[t] + IF writer = t THEN 1 ELSE 0) |-> "release"]
               \o IF holder = t THEN <<"unlock">> ELSE <<>>
  PROVE  Runs(p, s, Idle) /\ s \in Seq(Steps)
<1> DEFINE n == sharers[t] + IF writer = t THEN 1 ELSE 0
           back == [i \in 1 .. n |-> "release"]
           end == IF holder = t THEN <<"unlock">> ELSE <<>>
           q == [mutex |-> p.mutex, excl |-> 0, shared |-> 0, open |-> 0, files |-> p.files]
<1>1. /\ p.mutex \in 0 .. 1 /\ p.excl \in 0 .. 1 /\ p.shared \in 0 .. 2 /\ p.open \in 0 .. 1
      /\ p.files \in {"any", "mine", "none", "stale"}
      /\ p = [mutex |-> p.mutex, excl |-> p.excl, shared |-> p.shared, open |-> p.open,
              files |-> p.files]
  BY DEF Knowledge, Fits, Sound
<1>2. n = p.shared + p.excl /\ (p.excl = 1 => p.shared = 0)
  BY <1>1 DEF Fits, Sound
<1>3. mode \in {"api", "direct"}
  BY DEF Inv, TypeOK
<1>4. q \in Knowledge /\ Idle \in Knowledge
  <2>1. q \in [mutex : 0 .. 2, excl : 0 .. 1, shared : 0 .. 2, open : 0 .. 1,
               files : {"any", "mine", "none", "stale"}]
    BY <1>1
  <2> QED
    BY <2>1, EndsType DEF Knowledge
<1>5. "release" \in Steps /\ "unlock" \in Steps
  BY DEF Steps, BackendSteps, TableSteps
<1>6. Runs(p, back, q) /\ back \in Seq(Steps)
  <2>1. CASE n = 0
    <3>1. back = <<>>
      BY <2>1
    <3>2. p.shared = 0 /\ p.excl = 0 /\ p.open = 0
      BY <1>1, <1>2, <2>1 DEF Fits, Sound
    <3>3. p = q
      BY <1>1, <3>2
    <3> HIDE DEF q, back
    <3> QED
      BY <1>4, <3>1, <3>3, RunsNothing, TuplesAreSequences, <1>5
  <2>2. CASE n = 1
    <3>1. back = <<"release">>
      BY <2>2
    <3>2. p.excl = 1 \/ p.shared > 0
      BY <1>1, <1>2, <2>2
    <3>3. Pre(p, "release")
      BY <1>1, <1>3, <3>2 DEF Pre, Fits, Sound, InMode, Covered, MayFail, BackendSteps
    <3>4. After(p, "release") = q
      BY <1>1, <1>2, <2>2 DEF After
    <3>5. Goes(p, "release", q)
      BY <3>3, <3>4 DEF Goes
    <3> HIDE DEF q, back
    <3> QED
      BY <1>4, <1>5, <3>1, <3>5, RunsOne, TuplesAreSequences
  <2>3. CASE n = 2
    <3> DEFINE r == [mutex |-> p.mutex, excl |-> 0, shared |-> 1, open |-> p.open, files |-> p.files]
    <3>1. back = <<"release", "release">>
      <4> HIDE DEF n
      <4> QED
        BY <2>3, TwoAlike
    <3>2. r \in Knowledge
      <4>1. r \in [mutex : 0 .. 2, excl : 0 .. 1, shared : 0 .. 2, open : 0 .. 1,
                   files : {"any", "mine", "none", "stale"}]
        BY <1>1
      <4> QED
        BY <4>1 DEF Knowledge
    <3>3. p.shared = 2 /\ p.excl = 0
      BY <1>1, <1>2, <2>3
    <3>4. Goes(p, "release", r)
      <4>1. Pre(p, "release")
        BY <1>1, <1>3, <3>3 DEF Pre, Fits, Sound, InMode, Covered, MayFail, BackendSteps
      <4>2. After(p, "release") = r
        BY <1>1, <3>3 DEF After
      <4> QED
        BY <4>1, <4>2 DEF Goes
    <3>5. Goes(r, "release", q)
      <4>1. Pre(r, "release")
        BY <1>1, <1>3, <3>3 DEF Pre, Fits, Sound, InMode, Covered, MayFail, BackendSteps
      <4>2. After(r, "release") = q
        BY <1>1, <3>3 DEF After
      <4> QED
        BY <4>1, <4>2 DEF Goes
    <3> HIDE DEF q, r, back
    <3> QED
      BY <1>4, <1>5, <3>1, <3>2, <3>4, <3>5, RunsTwo, TuplesAreSequences
  <2> QED
    BY <1>1, <1>2, <2>1, <2>2, <2>3
<1>7. Runs(q, end, Idle) /\ end \in Seq(Steps)
  <2>1. CASE holder = t
    <3>1. p.mutex = 1 /\ mode = "api"
      BY <1>1, <1>3, <2>1 DEF Fits, Sound
    <3>2. Goes(q, "unlock", Idle)
      BY <3>1 DEF Goes, Pre, After, Idle, InMode, Covered, MayFail, BackendSteps, TableSteps
    <3> HIDE DEF q
    <3> QED
      BY <1>4, <1>5, <2>1, <3>2, RunsOne, TuplesAreSequences
  <2>2. CASE holder # t
    <3>1. q = Idle
      BY <1>1, <2>2 DEF Fits, Sound, Idle
    <3> HIDE DEF q
    <3> QED
      BY <1>4, <1>5, <2>2, <3>1, RunsNothing, TuplesAreSequences
  <2> QED
    BY <2>1, <2>2
<1> HIDE DEF q, back, end
<1>8. Runs(p, back \o end, Idle) /\ back \o end \in Seq(Steps)
  BY <1>6, <1>7, RunsBoth, ConcatProperties
<1> QED
  BY <1>8 DEF back, end, n

\* What the others know stays true when t changes only what t may: its own
\* locks, the archive if no other holds the backend's lock, the open files
\* if t holds mutex_ or the program does not go through the C API.
LEMMA OthersKept ==
  ASSUME Inv, NEW t \in Threads, Discreet(t)
  PROVE  \A u \in Threads \ {t} : \A p \in Knowledge : Fits(u, p) => Fits(u, p)'
<1> SUFFICES ASSUME NEW u \in Threads \ {t}, NEW p \in Knowledge, Fits(u, p)
             PROVE  Fits(u, p)'
  OBVIOUS
<1> USE DEF Discreet
<1>1. /\ p.mutex \in 0 .. 2 /\ p.excl \in 0 .. 1 /\ p.shared \in 0 .. 2 /\ p.open \in 0 .. 1
  BY DEF Knowledge
<1>2. mode' = mode /\ kind' = kind
  BY DEF program
<1>3. Sound(p)'
  BY <1>2 DEF Fits, Sound
<1>4. p.mutex = 1 <=> holder' = u
  BY NoThreadIsNone DEF Fits
<1>5. p.excl = 1 <=> writer' = u
  BY NoThreadIsNone DEF Fits
<1>6. p.shared = sharers'[u]
  BY DEF Fits
<1>7. p.open = 1 => archive'
  <2>1. u # t /\ t # NoThread /\ OneWriter
    BY NoThreadIsNone DEF Inv
  <2>2. /\ p.excl = 1 <=> writer = u
        /\ p.shared = sharers[u]
        /\ p.open = 1 => archive /\ (p.excl = 1 \/ p.shared > 0)
    BY DEF Fits, Sound
  <2>3. writer = t => p.excl # 1 /\ p.shared = 0
    BY <2>1, <2>2 DEF OneWriter
  <2>4. archive /\ writer # t => archive'
    BY <2>1 DEF Inv, TypeOK
  <2> QED
    BY <1>1, <2>2, <2>3, <2>4
<1>8. mode' = "api" /\ p.mutex = 1 => FilesFit(u, p.files)'
  BY <1>2 DEF Fits, FilesFit, Tidy
<1> QED
  BY <1>3, <1>4, <1>5, <1>6, <1>7, <1>8 DEF Fits

\* A step that succeeds.
LEMMA GoKept ==
  ASSUME Inv, NEW t \in Threads, Go(t), Discreet(t), NEW q \in Knowledge,
         Runs(q, Tail(todo[t]), Idle), Tail(todo[t]) \in Seq(Steps), Fits(t, q)'
  PROVE  /\ todo' \in [Threads -> Seq(Steps)]
         /\ \A u \in Threads : InCall(u)'
<1>1. todo \in [Threads -> Seq(Steps)]
  BY DEF Inv, TypeOK
<1>2. todo' = [todo EXCEPT ![t] = Tail(todo[t])]
  BY <1>1 DEF Go
<1>3. mode' = mode /\ kind' = kind
  BY DEF Discreet, program
<1>4. \A u \in Threads \ {t} : \A p \in Knowledge : Fits(u, p) => Fits(u, p)'
  BY OthersKept
<1>5. PICK s \in Seq(Steps) : s = Tail(todo[t])
  OBVIOUS
<1>6. todo' = [todo EXCEPT ![t] = s] /\ Runs(q, s, Idle)
  BY <1>2, <1>5
<1>7. \A u \in Threads : InCall(u)'
  BY <1>3, <1>4, <1>6, CallsKept
<1> QED
  BY <1>1, <1>2, <1>7

\* A step that fails.
LEMMA UnwindKept ==
  ASSUME Inv, NEW t \in Threads, NEW step \in MayFail, At(t, step), Unwind(t),
         UNCHANGED <<program, locks, data>>
  PROVE  Inv'
<1>1. PICK p \in Knowledge : Fits(t, p) /\ Pre(p, step)
  BY AtStep
<1>2. p.files # "stale" /\ mode # "registry"
  BY <1>1 DEF Pre, InMode, MayFail, RegistrySteps
<1> DEFINE back == [i \in 1 .. (sharers[t] + IF writer = t THEN 1 ELSE 0) |-> "release"]
                     \o IF holder = t THEN <<"unlock">> ELSE <<>>
<1>3. Runs(p, back, Idle) /\ back \in Seq(Steps)
  BY <1>1, <1>2, UnwindRuns
<1>4. todo \in [Threads -> Seq(Steps)]
  BY DEF Inv, TypeOK
<1>5. todo' = [todo EXCEPT ![t] = back]
  BY <1>4 DEF Unwind
<1> HIDE DEF back
<1>6. PICK s \in Seq(Steps) : s = back
  BY <1>3
<1>7. Discreet(t) /\ mode' = mode /\ kind' = kind
  BY DEF Discreet, locks, data, program
<1>8. \A u \in Threads \ {t} : \A r \in Knowledge : Fits(u, r) => Fits(u, r)'
  BY <1>7, OthersKept
<1>9. Fits(t, p)'
  BY <1>1 DEF Fits, Sound, FilesFit, Tidy, locks, data, program
<1>10. \A u \in Threads : InCall(u)'
  BY <1>1, <1>3, <1>5, <1>6, <1>7, <1>8, <1>9, CallsKept
<1>11. TypeOK'
  BY <1>3, <1>4, <1>5 DEF Inv, TypeOK, locks, data, program
<1>12. OneWriter' /\ TidyBetweenCalls' /\ LiveIsOpen'
  BY DEF Inv, OneWriter, TidyBetweenCalls, Tidy, LiveIsOpen, locks, data, program
<1> QED
  BY <1>10, <1>11, <1>12 DEF Inv

-----------------------------------------------------------------------------
(* The steps keep the invariant.                                           *)

\* Those that change no lock, no archive and no open file.
Quiet ==
  {"check", "vacant", "use", "begin", "rename", "peek", "assign", "look", "scan", "grow",
   "peruse", "find", "absent", "insert", "free", "lookup", "read", "reopen", "point",
   "follow"}

LEMMA QuietKept ==
  ASSUME Inv, NEW t \in Threads, NEW step \in Quiet, At(t, step), Go(t),
         UNCHANGED <<program, locks, archive, handle>>,
         mounted' \in BOOLEAN, pointer' \in [Threads -> {"none", "live", "dangling"}],
         step = "check" => archive, step = "lookup" => handle[t] # "none"
  PROVE  Inv'
<1>1. PICK p, q \in Knowledge :
        /\ Fits(t, p) /\ Pre(p, step) /\ q = After(p, step)
        /\ Runs(q, Tail(todo[t]), Idle) /\ Tail(todo[t]) \in Seq(Steps)
        /\ step # "lock" => Sound(q)
  BY AtStep
<1>2. /\ q.mutex = p.mutex /\ q.excl = p.excl /\ q.shared = p.shared
      /\ q.open = IF step = "check" THEN 1 ELSE p.open
      /\ q.files = IF step = "lookup" THEN "mine" ELSE p.files
  BY <1>1 DEF After, Quiet
<1>3. Discreet(t) /\ mode' = mode
  BY DEF Discreet, locks, program
<1>4. step = "lookup" /\ mode = "api" => p.mutex = 1 /\ p.files = "any"
  <2>1. step = "lookup" /\ mode = "api" => p.mutex > 0 /\ p.files = "any"
    BY <1>1 DEF Pre, Covered
  <2>2. p.mutex \in 0 .. 1
    BY <1>1, KnowledgeType DEF Fits, Sound
  <2> QED
    BY <2>1, <2>2
<1>5. mode = "api" /\ q.mutex = 1 => FilesFit(t, q.files)
  <2>1. mode = "api" /\ p.mutex = 1 => FilesFit(t, p.files)
    BY <1>1 DEF Fits
  <2>2. handle[t] \in {"none", "live", "dangling"}
    BY DEF Inv, TypeOK
  <2>3. CASE step = "lookup"
    BY <1>2, <1>4, <2>1, <2>2, <2>3 DEF FilesFit, Tidy
  <2>4. CASE step # "lookup"
    BY <1>2, <2>1, <2>4
  <2> QED
    BY <2>3, <2>4
<1>6. Fits(t, q)
  <2>1. step # "lock"
    BY DEF Quiet
  <2>2. q.open = 1 => archive
    BY <1>1, <1>2 DEF Fits
  <2> QED
    BY <1>1, <1>2, <1>5, <2>1, <2>2 DEF Fits
<1>7. Fits(t, q)'
  BY <1>6 DEF Fits, Sound, FilesFit, Tidy, locks, program
<1>8. todo' \in [Threads -> Seq(Steps)] /\ \A u \in Threads : InCall(u)'
  BY <1>1, <1>3, <1>7, GoKept
<1>9. TypeOK'
  BY <1>8 DEF Inv, TypeOK, locks, program
<1>10. OneWriter' /\ TidyBetweenCalls' /\ LiveIsOpen'
  BY DEF Inv, OneWriter, TidyBetweenCalls, Tidy, LiveIsOpen, locks, program
<1> QED
  BY <1>8, <1>9, <1>10 DEF Inv

\* mutex_.
LEMMA LockKept ==
  ASSUME Inv, NEW t \in Threads, Lock(t)
  PROVE  Inv'
<1> USE DEF Lock
<1>1. PICK p, q \in Knowledge :
        /\ Fits(t, p) /\ Pre(p, "lock") /\ q = After(p, "lock")
        /\ Runs(q, Tail(todo[t]), Idle) /\ Tail(todo[t]) \in Seq(Steps)
        /\ p.mutex = 0 => Sound(q)
  BY AtStep
<1>2. p.mutex = 0
  BY <1>1, NoThreadIsNone, KnowledgeType DEF Fits, Sound
<1>3. /\ q.mutex = 1 /\ q.excl = p.excl /\ q.shared = p.shared /\ q.open = p.open
      /\ q.files = "any"
  BY <1>1, <1>2 DEF After, Fits, Sound
<1>4. Discreet(t) /\ mode' = mode
  BY DEF Discreet, data, program
<1>5. mode = "api" => FilesFit(t, "any")'
  BY DEF Inv, TidyBetweenCalls, FilesFit, Tidy, data
<1>6. Fits(t, q)'
  <2>1. Sound(q)'
    BY <1>1, <1>2, <1>4 DEF Sound
  <2> QED
    BY <1>1, <1>3, <1>4, <1>5, <2>1 DEF Fits, data
<1>7. todo' \in [Threads -> Seq(Steps)] /\ \A u \in Threads : InCall(u)'
  BY <1>1, <1>4, <1>6, GoKept
<1>8. TypeOK'
  BY <1>7 DEF Inv, TypeOK, data, program
<1>9. OneWriter' /\ TidyBetweenCalls' /\ LiveIsOpen'
  BY NoThreadIsNone DEF Inv, OneWriter, TidyBetweenCalls, Tidy, LiveIsOpen, data, program
<1> QED
  BY <1>7, <1>8, <1>9 DEF Inv

LEMMA UnlockKept ==
  ASSUME Inv, NEW t \in Threads, Unlock(t)
  PROVE  Inv'
<1> USE DEF Unlock
<1>1. PICK p, q \in Knowledge :
        /\ Fits(t, p) /\ Pre(p, "unlock") /\ q = After(p, "unlock")
        /\ Runs(q, Tail(todo[t]), Idle) /\ Tail(todo[t]) \in Seq(Steps)
        /\ Sound(q)
  BY AtStep
<1>2. p.mutex = 1 /\ holder = t /\ p.excl = 0 /\ p.shared = 0 /\ p.files # "stale"
  <2>1. mode \in {"api", "registry"}
    BY <1>1 DEF Pre, InMode, BackendSteps
  <2>2. p.mutex > 0 /\ p.excl = 0 /\ p.shared = 0 /\ p.files # "stale"
    BY <1>1, <2>1 DEF Pre, Covered, MayFail
  <2> QED
    BY <1>1, <2>2, KnowledgeType DEF Fits, Sound
<1>3. /\ q.mutex = 0 /\ q.excl = p.excl /\ q.shared = p.shared /\ q.open = p.open
      /\ q.files = "any"
  BY <1>1, <1>2 DEF After
<1>4. Discreet(t) /\ mode' = mode
  BY <1>2 DEF Discreet, data, program
<1>5. Fits(t, q)'
  <2>1. Sound(q)'
    BY <1>1, <1>4 DEF Sound
  <2> QED
    BY <1>1, <1>3, <1>4, <2>1, NoThreadIsNone DEF Fits, data
<1>6. todo' \in [Threads -> Seq(Steps)] /\ \A u \in Threads : InCall(u)'
  BY <1>1, <1>4, <1>5, GoKept
<1>7. TypeOK'
  BY <1>6 DEF Inv, TypeOK, data, program
<1>8. mode = "api" => Tidy
  BY <1>1, <1>2 DEF Fits, FilesFit
<1>9. OneWriter' /\ TidyBetweenCalls' /\ LiveIsOpen'
  BY <1>8 DEF Inv, OneWriter, TidyBetweenCalls, Tidy, LiveIsOpen, data, program
<1> QED
  BY <1>6, <1>7, <1>9 DEF Inv

\* The lock of the backend.
LEMMA ShareKept ==
  ASSUME Inv, NEW t \in Threads, Share(t)
  PROVE  Inv'
<1> USE DEF Share
<1>1. PICK p, q \in Knowledge :
        /\ Fits(t, p) /\ Pre(p, "shared") /\ q = After(p, "shared")
        /\ Runs(q, Tail(todo[t]), Idle) /\ Tail(todo[t]) \in Seq(Steps)
        /\ Sound(q)
  BY AtStep
<1>2. /\ q.mutex = p.mutex /\ q.excl = p.excl /\ q.shared = p.shared + 1
      /\ q.open = p.open /\ q.files = p.files
  BY <1>1 DEF After
<1>3. sharers \in [Threads -> 0 .. 2] /\ sharers[t] = p.shared /\ p.shared < 2 /\ writer = NoThread
  BY <1>1 DEF Inv, TypeOK, Fits, Pre, MayShare
<1>4. /\ sharers' \in [Threads -> 0 .. 2] /\ sharers'[t] = p.shared + 1
      /\ \A u \in Threads \ {t} : sharers'[u] = sharers[u]
  BY <1>3
<1>5. Discreet(t) /\ mode' = mode
  BY <1>4 DEF Discreet, data, program
<1>6. Fits(t, q)'
  <2>1. Sound(q)'
    BY <1>1, <1>5 DEF Sound
  <2> QED
    BY <1>1, <1>2, <1>4, <1>5, <2>1 DEF Fits, FilesFit, Tidy, data
<1>7. todo' \in [Threads -> Seq(Steps)] /\ \A u \in Threads : InCall(u)'
  BY <1>1, <1>5, <1>6, GoKept
<1>8. TypeOK'
  BY <1>4, <1>7 DEF Inv, TypeOK, data, program
<1>9. OneWriter' /\ TidyBetweenCalls' /\ LiveIsOpen'
  BY <1>3 DEF Inv, OneWriter, TidyBetweenCalls, Tidy, LiveIsOpen, data, program
<1> QED
  BY <1>7, <1>8, <1>9 DEF Inv

LEMMA ExcludeKept ==
  ASSUME Inv, NEW t \in Threads, Exclude(t)
  PROVE  Inv'
<1> USE DEF Exclude
<1>1. PICK p, q \in Knowledge :
        /\ Fits(t, p) /\ Pre(p, "exclusive") /\ q = After(p, "exclusive")
        /\ Runs(q, Tail(todo[t]), Idle) /\ Tail(todo[t]) \in Seq(Steps)
        /\ Sound(q)
  BY AtStep
<1>2. /\ q.mutex = p.mutex /\ q.excl = 1 /\ q.shared = p.shared
      /\ q.open = p.open /\ q.files = p.files
  BY <1>1 DEF After
<1>3. writer = NoThread /\ \A u \in Threads : sharers[u] = 0
  BY DEF MayWrite
<1>4. Discreet(t) /\ mode' = mode
  BY <1>3 DEF Discreet, data, program
<1>5. Fits(t, q)'
  <2>1. Sound(q)'
    BY <1>1, <1>4 DEF Sound
  <2> QED
    BY <1>1, <1>2, <1>4, <2>1 DEF Fits, FilesFit, Tidy, data
<1>6. todo' \in [Threads -> Seq(Steps)] /\ \A u \in Threads : InCall(u)'
  BY <1>1, <1>4, <1>5, GoKept
<1>7. TypeOK'
  BY <1>6 DEF Inv, TypeOK, data, program
<1>8. OneWriter' /\ TidyBetweenCalls' /\ LiveIsOpen'
  BY <1>3 DEF Inv, OneWriter, TidyBetweenCalls, Tidy, LiveIsOpen, data, program
<1> QED
  BY <1>6, <1>7, <1>8 DEF Inv

LEMMA ReleaseKept ==
  ASSUME Inv, NEW t \in Threads, Release(t)
  PROVE  Inv'
<1>1. PICK p, q \in Knowledge :
        /\ Fits(t, p) /\ Pre(p, "release") /\ q = After(p, "release")
        /\ Runs(q, Tail(todo[t]), Idle) /\ Tail(todo[t]) \in Seq(Steps)
        /\ Sound(q)
  BY AtStep DEF Release
<1>2. /\ q.mutex = p.mutex /\ q.excl = 0 /\ q.files = p.files
      /\ q.shared = IF p.excl = 0 THEN p.shared - 1 ELSE p.shared
      /\ q.open = 1 => p.open = 1
  BY <1>1 DEF After
<1>3. /\ sharers \in [Threads -> 0 .. 2] /\ sharers[t] = p.shared
      /\ p.excl \in 0 .. 1 /\ p.shared \in 0 .. 2
      /\ p.excl = 1 \/ p.shared > 0
      /\ p.excl = 1 <=> writer = t
  BY <1>1, KnowledgeType DEF Inv, TypeOK, Fits, Pre
<1>4. /\ sharers' \in [Threads -> 0 .. 2] /\ sharers'[t] = q.shared
      /\ \A u \in Threads \ {t} : sharers'[u] = sharers[u]
      /\ \A u \in Threads : sharers[u] = 0 => sharers'[u] = 0
      /\ writer' = IF writer = t THEN NoThread ELSE writer
  <2>1. CASE writer = t
    BY <1>2, <1>3, <2>1 DEF Release
  <2>2. CASE writer # t
    BY <1>2, <1>3, <2>2 DEF Release
  <2> QED
    BY <2>1, <2>2
<1>5. Discreet(t) /\ mode' = mode
  BY <1>4 DEF Discreet, data, program, Release
<1>6. Fits(t, q)'
  <2>1. Sound(q)'
    BY <1>1, <1>5 DEF Sound
  <2>2. q.excl = 1 <=> writer' = t
    BY <1>2, <1>4, NoThreadIsNone
  <2> QED
    BY <1>1, <1>2, <1>4, <1>5, <2>1, <2>2 DEF Fits, FilesFit, Tidy, data, Release
<1>7. todo' \in [Threads -> Seq(Steps)] /\ \A u \in Threads : InCall(u)'
  BY <1>1, <1>5, <1>6, GoKept DEF Release
<1>8. TypeOK'
  BY <1>4, <1>7 DEF Inv, TypeOK, data, program, Release
<1>9. OneWriter' /\ TidyBetweenCalls' /\ LiveIsOpen'
  BY <1>4 DEF Inv, OneWriter, TidyBetweenCalls, Tidy, LiveIsOpen, data, program, Release
<1> QED
  BY <1>7, <1>8, <1>9 DEF Inv

\* The archive: the one who opens or closes it holds the lock exclusively.
LEMMA OpenArchiveKept ==
  ASSUME Inv, NEW t \in Threads, OpenArchive(t)
  PROVE  Inv'
<1>1. CASE archive' = TRUE /\ Go(t)
  <2>1. PICK p, q \in Knowledge :
          /\ Fits(t, p) /\ Pre(p, "open") /\ q = After(p, "open")
          /\ Runs(q, Tail(todo[t]), Idle) /\ Tail(todo[t]) \in Seq(Steps)
          /\ Sound(q)
    BY AtStep DEF OpenArchive
  <2>2. /\ q.mutex = p.mutex /\ q.excl = p.excl /\ q.shared = p.shared /\ q.files = p.files
    BY <2>1 DEF After
  <2>3. Discreet(t) /\ mode' = mode
    BY <1>1 DEF Discreet, locks, program, OpenArchive
  <2>4. Fits(t, q)'
    <3>1. Sound(q)'
      BY <2>1, <2>3 DEF Sound
    <3> QED
      BY <1>1, <2>1, <2>2, <2>3, <3>1 DEF Fits, FilesFit, Tidy, locks, OpenArchive
  <2>5. todo' \in [Threads -> Seq(Steps)] /\ \A u \in Threads : InCall(u)'
    BY <1>1, <2>1, <2>3, <2>4, GoKept
  <2>6. TypeOK'
    BY <1>1, <2>5 DEF Inv, TypeOK, locks, program, OpenArchive
  <2>7. OneWriter' /\ TidyBetweenCalls' /\ LiveIsOpen'
    BY <1>1 DEF Inv, OneWriter, TidyBetweenCalls, Tidy, LiveIsOpen, locks, program, OpenArchive
  <2> QED
    BY <2>5, <2>6, <2>7 DEF Inv
<1>2. CASE UNCHANGED archive /\ Unwind(t)
  BY <1>2, UnwindKept DEF OpenArchive, MayFail, data
<1> QED
  BY <1>1, <1>2 DEF OpenArchive

LEMMA CloseArchiveKept ==
  ASSUME Inv, NEW t \in Threads, CloseArchive(t)
  PROVE  Inv'
<1> USE DEF CloseArchive
<1>1. PICK p, q \in Knowledge :
        /\ Fits(t, p) /\ Pre(p, "close") /\ q = After(p, "close")
        /\ Runs(q, Tail(todo[t]), Idle) /\ Tail(todo[t]) \in Seq(Steps)
        /\ Sound(q)
  BY AtStep
<1>2. /\ q.mutex = p.mutex /\ q.excl = p.excl /\ q.shared = p.shared /\ q.open = 0
      /\ q.files = IF mode = "api" /\ p.files # "none" THEN "stale" ELSE p.files
  BY <1>1 DEF After
<1>3. writer = t
  BY <1>1 DEF Pre, Fits
<1>4. mode = "api" => p.mutex = 1 /\ holder = t
  <2>1. p.mutex \in 0 .. 1
    BY <1>1, KnowledgeType DEF Fits, Sound
  <2>2. mode = "api" => p.mutex > 0
    BY <1>1 DEF Pre, Covered
  <2> QED
    BY <1>1, <2>1, <2>2 DEF Fits
<1>5. Discreet(t) /\ mode' = mode
  BY <1>3, <1>4 DEF Discreet, locks, program
<1>6. handle \in [Threads -> {"none", "live", "dangling"}]
  BY DEF Inv, TypeOK
<1>7. /\ handle' \in [Threads -> {"none", "live", "dangling"}]
      /\ \A u \in Threads : handle'[u] # "live" /\ (handle[u] = "none" => handle'[u] = "none")
  BY <1>6
<1>8. mode = "api" => FilesFit(t, q.files)'
  <2>1. CASE p.files = "none"
    BY <1>1, <1>2, <1>4, <1>7, <2>1 DEF Fits, FilesFit, Tidy
  <2>2. CASE p.files # "none"
    BY <1>2, <2>2 DEF FilesFit
  <2> QED
    BY <2>1, <2>2
<1>9. Fits(t, q)'
  <2>1. Sound(q)'
    BY <1>1, <1>5 DEF Sound
  <2> QED
    BY <1>1, <1>2, <1>5, <1>8, <2>1 DEF Fits, locks
<1>10. todo' \in [Threads -> Seq(Steps)] /\ \A u \in Threads : InCall(u)'
  BY <1>1, <1>5, <1>9, GoKept
<1>11. TypeOK'
  BY <1>7, <1>10 DEF Inv, TypeOK, locks, program
<1>12. OneWriter' /\ TidyBetweenCalls' /\ LiveIsOpen'
  <2>1. OneWriter'
    BY DEF Inv, OneWriter, locks
  <2>2. TidyBetweenCalls'
    BY <1>4, <1>5, NoThreadIsNone DEF TidyBetweenCalls, locks
  <2>3. LiveIsOpen'
    BY <1>7 DEF LiveIsOpen
  <2> QED
    BY <2>1, <2>2, <2>3
<1> QED
  BY <1>10, <1>11, <1>12 DEF Inv

\* The table of open files.
LEMMA NewHandleKept ==
  ASSUME Inv, NEW t \in Threads, NewHandle(t)
  PROVE  Inv'
<1> USE DEF NewHandle
<1>1. PICK p, q \in Knowledge :
        /\ Fits(t, p) /\ Pre(p, "handle") /\ q = After(p, "handle")
        /\ Runs(q, Tail(todo[t]), Idle) /\ Tail(todo[t]) \in Seq(Steps)
        /\ Sound(q)
  BY AtStep
<1>2. /\ q.mutex = p.mutex /\ q.excl = p.excl /\ q.shared = p.shared /\ q.open = p.open
      /\ q.files = "any" /\ p.files = "any"
  BY <1>1 DEF After, Pre
<1>3. archive
  BY <1>1 DEF Pre, Fits
<1>4. mode = "api" => p.mutex = 1 /\ holder = t
  <2>1. p.mutex \in 0 .. 1
    BY <1>1, KnowledgeType DEF Fits, Sound
  <2>2. mode = "api" => p.mutex > 0
    BY <1>1 DEF Pre, Covered
  <2> QED
    BY <1>1, <2>1, <2>2 DEF Fits
<1>5. Discreet(t) /\ mode' = mode
  BY <1>4 DEF Discreet, locks, program
<1>6. /\ handle \in [Threads -> {"none", "live", "dangling"}]
      /\ handle' \in [Threads -> {"none", "live", "dangling"}]
      /\ \A u \in Threads : handle'[u] = "live" \/ handle'[u] = handle[u]
  BY DEF Inv, TypeOK
<1>7. mode = "api" => FilesFit(t, q.files)'
  BY <1>1, <1>2, <1>4, <1>6 DEF Fits, FilesFit, Tidy
<1>8. Fits(t, q)'
  <2>1. Sound(q)'
    BY <1>1, <1>5 DEF Sound
  <2> QED
    BY <1>1, <1>2, <1>5, <1>7, <2>1 DEF Fits, locks
<1>9. todo' \in [Threads -> Seq(Steps)] /\ \A u \in Threads : InCall(u)'
  BY <1>1, <1>5, <1>8, GoKept
<1>10. TypeOK'
  BY <1>6, <1>9 DEF Inv, TypeOK, locks, program
<1>11. OneWriter' /\ TidyBetweenCalls' /\ LiveIsOpen'
  <2>1. OneWriter'
    BY DEF Inv, OneWriter, locks
  <2>2. TidyBetweenCalls'
    BY <1>4, <1>5, NoThreadIsNone DEF TidyBetweenCalls, locks
  <2>3. LiveIsOpen'
    BY <1>3 DEF LiveIsOpen
  <2> QED
    BY <2>1, <2>2, <2>3
<1> QED
  BY <1>9, <1>10, <1>11 DEF Inv

LEMMA DropHandleKept ==
  ASSUME Inv, NEW t \in Threads, DropHandle(t)
  PROVE  Inv'
<1> USE DEF DropHandle
<1>1. PICK p, q \in Knowledge :
        /\ Fits(t, p) /\ Pre(p, "drop") /\ q = After(p, "drop")
        /\ Runs(q, Tail(todo[t]), Idle) /\ Tail(todo[t]) \in Seq(Steps)
        /\ Sound(q)
  BY AtStep
<1>2. /\ q.mutex = p.mutex /\ q.excl = p.excl /\ q.shared = p.shared /\ q.open = p.open
      /\ q.files = "any" /\ p.files \in {"any", "mine"}
  BY <1>1 DEF After, Pre
<1>3. mode = "api" => p.mutex = 1 /\ holder = t
  <2>1. p.mutex \in 0 .. 1
    BY <1>1, KnowledgeType DEF Fits, Sound
  <2>2. mode = "api" => p.mutex > 0
    BY <1>1 DEF Pre, Covered
  <2> QED
    BY <1>1, <2>1, <2>2 DEF Fits
<1>4. Discreet(t) /\ mode' = mode
  BY <1>3 DEF Discreet, locks, program
<1>5. /\ handle \in [Threads -> {"none", "live", "dangling"}]
      /\ handle' \in [Threads -> {"none", "live", "dangling"}]
      /\ \A u \in Threads : handle'[u] = "none" \/ handle'[u] = handle[u]
  BY DEF Inv, TypeOK
<1>6. mode = "api" => FilesFit(t, q.files)'
  BY <1>1, <1>2, <1>3, <1>5 DEF Fits, FilesFit, Tidy
<1>7. Fits(t, q)'
  <2>1. Sound(q)'
    BY <1>1, <1>4 DEF Sound
  <2> QED
    BY <1>1, <1>2, <1>4, <1>6, <2>1 DEF Fits, locks
<1>8. todo' \in [Threads -> Seq(Steps)] /\ \A u \in Threads : InCall(u)'
  BY <1>1, <1>4, <1>7, GoKept
<1>9. TypeOK'
  BY <1>5, <1>8 DEF Inv, TypeOK, locks, program
<1>10. OneWriter' /\ TidyBetweenCalls' /\ LiveIsOpen'
  <2>1. OneWriter'
    BY DEF Inv, OneWriter, locks
  <2>2. TidyBetweenCalls'
    BY <1>3, <1>4, NoThreadIsNone DEF TidyBetweenCalls, locks
  <2>3. LiveIsOpen'
    BY <1>5 DEF LiveIsOpen, Inv
  <2> QED
    BY <2>1, <2>2, <2>3
<1> QED
  BY <1>8, <1>9, <1>10 DEF Inv

LEMMA ForgetHandlesKept ==
  ASSUME Inv, NEW t \in Threads, ForgetHandles(t)
  PROVE  Inv'
<1> USE DEF ForgetHandles
<1>1. PICK p, q \in Knowledge :
        /\ Fits(t, p) /\ Pre(p, "forget") /\ q = After(p, "forget")
        /\ Runs(q, Tail(todo[t]), Idle) /\ Tail(todo[t]) \in Seq(Steps)
        /\ Sound(q)
  BY AtStep
<1>2. /\ q.mutex = p.mutex /\ q.excl = p.excl /\ q.shared = p.shared /\ q.open = p.open
      /\ q.files = "none"
  BY <1>1 DEF After
<1>3. mode = "api" /\ p.mutex = 1 /\ holder = t
  <2>1. p.mutex \in 0 .. 1
    BY <1>1, KnowledgeType DEF Fits, Sound
  <2>2. mode = "api"
    BY <1>1 DEF Pre, InMode, BackendSteps, RegistrySteps
  <2>3. p.mutex > 0
    BY <1>1, <2>2 DEF Pre, Covered
  <2> QED
    BY <1>1, <2>1, <2>2, <2>3 DEF Fits
<1>4. Discreet(t) /\ mode' = mode
  BY <1>3 DEF Discreet, locks, program
<1>5. /\ handle' \in [Threads -> {"none", "live", "dangling"}]
      /\ \A u \in Threads : handle'[u] = "none"
  OBVIOUS
<1>6. FilesFit(t, q.files)'
  BY <1>2, <1>5 DEF FilesFit, Tidy
<1>7. Fits(t, q)'
  <2>1. Sound(q)'
    BY <1>1, <1>4 DEF Sound
  <2> QED
    BY <1>1, <1>2, <1>4, <1>6, <2>1 DEF Fits, locks
<1>8. todo' \in [Threads -> Seq(Steps)] /\ \A u \in Threads : InCall(u)'
  BY <1>1, <1>4, <1>7, GoKept
<1>9. TypeOK'
  BY <1>5, <1>8 DEF Inv, TypeOK, locks, program
<1>10. OneWriter' /\ TidyBetweenCalls' /\ LiveIsOpen'
  <2>1. OneWriter'
    BY DEF Inv, OneWriter, locks
  <2>2. TidyBetweenCalls' /\ LiveIsOpen'
    BY <1>5 DEF TidyBetweenCalls, Tidy, LiveIsOpen
  <2> QED
    BY <2>1, <2>2
<1> QED
  BY <1>8, <1>9, <1>10 DEF Inv

\* A call that looks goes on or fails; the other quiet steps always go on.
LEMMA LooksKept ==
  ASSUME Inv, NEW t \in Threads, NEW step \in Quiet \cap MayFail, At(t, step),
         UNCHANGED <<program, locks, data>>,
         Unwind(t) \/ (Go(t) /\ (step = "check" => archive)
                             /\ (step = "lookup" => handle[t] # "none"))
  PROVE  Inv'
<1>1. CASE Unwind(t)
  BY <1>1, UnwindKept
<1>2. CASE Go(t) /\ (step = "check" => archive) /\ (step = "lookup" => handle[t] # "none")
  <2>1. /\ mounted' \in BOOLEAN /\ pointer' \in [Threads -> {"none", "live", "dangling"}]
        /\ UNCHANGED <<program, locks, archive, handle>>
    BY DEF Inv, TypeOK, data
  <2> QED
    BY <1>2, <2>1, QuietKept
<1> QED
  BY <1>1, <1>2

LEMMA CheckKept ==
  ASSUME Inv, NEW t \in Threads, Check(t) \/ Use(t)
  PROVE  Inv'
<1> USE DEF Quiet, MayFail
<1>1. CASE Check(t)
  BY <1>1, LooksKept DEF Check, GoIf
<1>2. CASE Use(t)
  BY <1>2, LooksKept DEF Use
<1> QED
  BY <1>1, <1>2

LEMMA FindMountKept ==
  ASSUME Inv, NEW t \in Threads, FindMount(t) \/ LookupHandle(t)
  PROVE  Inv'
<1> USE DEF Quiet, MayFail
<1>1. CASE FindMount(t)
  BY <1>1, LooksKept DEF FindMount, GoIf
<1>2. CASE LookupHandle(t)
  BY <1>2, LooksKept DEF LookupHandle, GoIf
<1> QED
  BY <1>1, <1>2

LEMMA TouchKept ==
  ASSUME Inv, NEW t \in Threads, Touch(t) \/ ReadHandle(t)
  PROVE  Inv'
<1>1. /\ mounted' \in BOOLEAN /\ pointer' \in [Threads -> {"none", "live", "dangling"}]
      /\ UNCHANGED <<program, locks, archive, handle>> /\ Go(t)
  BY DEF Inv, TypeOK, data, Touch, ReadHandle
<1>2. \E step \in {"rename", "peek", "assign", "look", "scan", "grow", "peruse", "read",
                   "reopen"} : At(t, step)
  BY DEF Touch, ReadHandle
<1> QED
  BY <1>1, <1>2, QuietKept DEF Quiet

LEMMA MountTableKept ==
  ASSUME Inv, NEW t \in Threads,
         InsertMount(t) \/ FreeMount(t) \/ TakePointer(t) \/ FollowPointer(t)
  PROVE  Inv'
<1>1. /\ mounted \in BOOLEAN /\ pointer \in [Threads -> {"none", "live", "dangling"}]
  BY DEF Inv, TypeOK
<1>2. /\ mounted' \in BOOLEAN /\ pointer' \in [Threads -> {"none", "live", "dangling"}]
      /\ UNCHANGED <<program, locks, archive, handle>> /\ Go(t)
  <2>1. CASE InsertMount(t)
    BY <1>1, <2>1 DEF InsertMount
  <2>2. CASE FreeMount(t)
    BY <1>1, <2>2 DEF FreeMount
  <2>3. CASE TakePointer(t)
    BY <1>1, <2>3 DEF TakePointer
  <2>4. CASE FollowPointer(t)
    BY <1>1, <2>4 DEF FollowPointer
  <2> QED
    BY <2>1, <2>2, <2>3, <2>4
<1>3. \E step \in {"insert", "free", "point", "follow"} : At(t, step)
  BY DEF InsertMount, FreeMount, TakePointer, FollowPointer
<1> QED
  BY <1>2, <1>3, QuietKept DEF Quiet

\* A thread begins a call.
LEMMA CallKept ==
  ASSUME Inv, NEW t \in Threads, Call(t)
  PROVE  Inv'
<1>1. PICK call \in Calls : todo' = [todo EXCEPT ![t] = call]
  BY DEF Call
<1>2. /\ mode \in {"api", "direct", "registry"} /\ kind \in {"zip", "dwarfs", "squashfs"}
      /\ todo \in [Threads -> Seq(Steps)]
  BY DEF Inv, TypeOK
<1>3. Runs(Idle, call, Idle) /\ call \in Seq(Steps)
  BY <1>2, CallsRun
<1>4. PICK p \in Knowledge : Fits(t, p) /\ Runs(p, todo[t], Idle)
  BY DEF Inv, InCall
<1>5. Fits(t, Idle)
  BY <1>4, RunsOver DEF Call
<1>6. UNCHANGED <<program, locks, data>> /\ mode' = mode /\ kind' = kind
  BY DEF Call, program
<1>7. Fits(t, Idle)'
  BY <1>5, <1>6 DEF Fits, Sound, FilesFit, Tidy, locks, data, Idle
<1>8. Discreet(t)
  BY <1>6 DEF Discreet, locks, data
<1>9. PICK s \in Seq(Steps) : s = call
  BY <1>3
<1>10. todo' = [todo EXCEPT ![t] = s] /\ Runs(Idle, s, Idle)
  BY <1>1, <1>3, <1>9
<1>11. \A u \in Threads \ {t} : \A r \in Knowledge : Fits(u, r) => Fits(u, r)'
  BY <1>8, OthersKept
<1>12. PICK i \in Knowledge : i = Idle
  BY EndsType
<1>13. Fits(t, i)'
  BY <1>7, <1>12 DEF Fits, Idle
<1>14. \A u \in Threads : InCall(u)'
  BY <1>6, <1>10, <1>11, <1>12, <1>13, CallsKept
<1>15. TypeOK'
  BY <1>2, <1>6, <1>10 DEF Inv, TypeOK, locks, data, program
<1>16. OneWriter' /\ TidyBetweenCalls' /\ LiveIsOpen'
  BY <1>6 DEF Inv, OneWriter, TidyBetweenCalls, Tidy, LiveIsOpen, locks, data, program
<1> QED
  BY <1>14, <1>15, <1>16 DEF Inv

LEMMA InvInit ==
  ASSUME Init
  PROVE  Inv
<1> USE DEF Init
<1>1. TypeOK
  <2>1. todo \in [Threads -> Seq(Steps)]
    BY EmptySeq
  <2>2. sharers \in [Threads -> 0 .. 2]
    OBVIOUS
  <2>3. /\ handle \in [Threads -> {"none", "live", "dangling"}]
        /\ pointer \in [Threads -> {"none", "live", "dangling"}]
        /\ archive \in BOOLEAN /\ mounted \in BOOLEAN
    OBVIOUS
  <2> QED
    BY <2>1, <2>2, <2>3 DEF TypeOK
<1>2. OneWriter /\ TidyBetweenCalls /\ LiveIsOpen
  BY DEF OneWriter, TidyBetweenCalls, Tidy, LiveIsOpen
<1>3. ASSUME NEW t \in Threads
      PROVE  InCall(t)
  <2>1. Idle \in Knowledge /\ Runs(Idle, <<>>, Idle)
    BY EndsType, RunsNothing
  <2>2. /\ Idle.mutex = 0 /\ Idle.excl = 0 /\ Idle.shared = 0 /\ Idle.open = 0
        /\ Idle.files = "any"
    BY DEF Idle
  <2>3. Sound(Idle)
    BY <2>2 DEF Sound
  <2>4. holder # t /\ writer # t /\ sharers[t] = 0
    BY NoThreadIsNone
  <2>5. Fits(t, Idle)
    BY <2>2, <2>3, <2>4 DEF Fits
  <2> QED
    BY <2>1, <2>5 DEF InCall
<1> QED
  BY <1>1, <1>2, <1>3 DEF Inv

LEMMA InvStutter ==
  ASSUME Inv, UNCHANGED vars
  PROVE  Inv'
<1>1. /\ UNCHANGED <<program, locks, data, todo>> /\ mode' = mode /\ kind' = kind
  BY DEF vars, program
<1>2. TypeOK' /\ OneWriter' /\ TidyBetweenCalls' /\ LiveIsOpen'
  BY <1>1 DEF Inv, TypeOK, OneWriter, TidyBetweenCalls, Tidy, LiveIsOpen, locks, data, program
<1>3. ASSUME NEW t \in Threads
      PROVE  InCall(t)'
  <2>1. PICK p \in Knowledge : Fits(t, p) /\ Runs(p, todo[t], Idle)
    BY DEF Inv, InCall
  <2>2. Runs(p, todo[t], Idle)'
    BY <1>1, <2>1, RunsKept
  <2>3. Fits(t, p)'
    BY <1>1, <2>1 DEF Fits, Sound, FilesFit, Tidy, locks, data
  <2> QED
    BY <2>2, <2>3 DEF InCall
<1> QED
  BY <1>2, <1>3 DEF Inv

LEMMA InvNext ==
  ASSUME Inv, [Next]_vars
  PROVE  Inv'
<1>1. CASE UNCHANGED vars
  BY <1>1, InvStutter
<1>2. ASSUME NEW t \in Threads, Call(t)
      PROVE  Inv'
  BY <1>2, CallKept
<1>3. ASSUME NEW t \in Threads, Step(t)
      PROVE  Inv'
  BY <1>3, LockKept, UnlockKept, ShareKept, ExcludeKept, ReleaseKept, CheckKept,
     OpenArchiveKept, CloseArchiveKept, TouchKept, FindMountKept, MountTableKept,
     NewHandleKept, DropHandleKept, ForgetHandlesKept DEF Step
<1> QED
  BY <1>1, <1>2, <1>3 DEF Next

\* Every thread can always finish its call with the locks it holds.
LEMMA Invariance == Spec => []Inv
<1>1. Init => Inv
  BY InvInit
<1>2. Inv /\ [Next]_vars => Inv'
  BY InvNext
<1> QED
  BY <1>1, <1>2, PTL DEF Spec

-----------------------------------------------------------------------------
(* The properties.                                                         *)

\* The steps a thread has left are those of the library's calls, no thread
\* shares the backend's lock more than twice, and a lock is held by a thread
\* of the program or by none.
THEOREM TypeCorrect == Spec => []TypeOK
BY Invariance, PTL DEF Inv

\* No query runs on an archive another thread has closed, and through the
\* C API no read does: the file looked up under mutex_ is live until mutex_ is
\* given back, for any number of threads that mount, unmount and read.
THEOREM ArchiveStaysOpen == Spec => []ArchiveOpenInUse
<1>1. Inv => ArchiveOpenInUse
  <2> SUFFICES ASSUME Inv, NEW t \in Threads
               PROVE  /\ At(t, "use") \/ At(t, "begin") => archive
                      /\ mode = "api" /\ (At(t, "read") \/ At(t, "reopen"))
                           => handle[t] = "live" /\ archive
    BY DEF ArchiveOpenInUse
  <2>1. ASSUME NEW step \in {"use", "begin"}, At(t, step)
        PROVE  archive
    <3>1. PICK p \in Knowledge : Fits(t, p) /\ Pre(p, step)
      BY <2>1, AtStep
    <3> QED
      BY <3>1 DEF Fits, Pre
  <2>2. ASSUME mode = "api", NEW step \in {"read", "reopen"}, At(t, step)
        PROVE  handle[t] = "live" /\ archive
    <3>1. PICK p \in Knowledge : Fits(t, p) /\ Pre(p, step)
      BY <2>2, AtStep
    <3>2. p.mutex \in 0 .. 1 /\ p.mutex > 0 /\ p.files = "mine"
      BY <2>2, <3>1, KnowledgeType DEF Fits, Sound, Pre, Covered
    <3>3. handle[t] = "live"
      BY <2>2, <3>1, <3>2 DEF Fits, FilesFit
    <3> QED
      BY <3>3 DEF Inv, LiveIsOpen
  <2> QED
    BY <2>1, <2>2
<1> QED
  BY <1>1, Invariance, PTL

\* Who has no steps left knows no more than who is in no call.
LEMMA NothingLeft ==
  ASSUME NEW p, Runs(p, <<>>, Idle)
  PROVE  p = Idle
<1>1. Len(<<>>) = 0 /\ 0 + 1 = 1
  OBVIOUS
<1>2. PICK a \in [1 .. Len(<<>>) + 1 -> Knowledge] : a[1] = p /\ a[Len(<<>>) + 1] = Idle
  BY Zenon DEF Runs
<1>3. a[1] = Idle
  BY <1>1, <1>2
<1> QED
  BY <1>2, <1>3

\* No lock leaks: for any number of threads, each use and each backend, a thread
\* whose call has returned, after whatever failures, holds none. It is the
\* safety half of LocksReleased.
THEOREM NoLockLeaks == Spec => []NothingHeldAfterCall
<1>1. Inv => NothingHeldAfterCall
  <2> SUFFICES ASSUME Inv, NEW t \in Threads, todo[t] = <<>>
               PROVE  ~Holds(t)
    BY DEF NothingHeldAfterCall
  <2>1. PICK p \in Knowledge : Fits(t, p) /\ Runs(p, todo[t], Idle)
    BY DEF Inv, InCall
  <2>2. p = Idle
    BY <2>1, NothingLeft
  <2>3. p.mutex = 0 /\ p.excl = 0 /\ p.shared = 0
    BY <2>2 DEF Idle
  <2> QED
    BY <2>1, <2>3 DEF Fits, Holds
<1> QED
  BY <1>1, Invariance, PTL

\* Who holds what, from where a thread is.
LEMMA CoveredHolds ==
  ASSUME Inv, NEW t \in Threads, NEW step, At(t, step)
  PROVE  /\ InMode(step)
         /\ Covered(step) /\ step # "lock" => holder = t
         /\ step \in {"open", "close"} => writer = t
         /\ step \in {"check", "use", "begin"} => writer = t \/ sharers[t] > 0
         /\ step = "vacant" => writer = t
         /\ step \in {"use", "begin"} /\ kind = "squashfs" => writer = t
         /\ step \in {"shared", "exclusive"} => writer # t
         /\ step = "exclusive" => sharers[t] = 0
<1>1. PICK p \in Knowledge : Fits(t, p) /\ Pre(p, step)
  BY AtStep
<1>2. /\ p.mutex \in 0 .. 1 /\ p.excl \in 0 .. 1 /\ p.shared \in 0 .. 2
      /\ p.mutex = 1 <=> holder = t
      /\ p.excl = 1 <=> writer = t
      /\ p.shared = sharers[t]
      /\ p.open = 1 => p.excl = 1 \/ p.shared > 0
  BY <1>1, KnowledgeType DEF Fits, Sound
<1>3. InMode(step) /\ (Covered(step) => p.mutex > 0)
  BY <1>1 DEF Pre
<1>4. /\ step \in {"open", "close", "vacant"} => p.excl = 1
      /\ step \in {"use", "begin"} => p.open = 1 /\ (kind = "squashfs" => p.excl = 1)
      /\ step = "check" => p.excl = 1 \/ p.shared > 0
      /\ step = "shared" => p.excl = 0
      /\ step = "exclusive" => p.excl = 0 /\ p.shared = 0
  BY <1>1 DEF Pre
<1> QED
  BY <1>2, <1>3, <1>4

\* A thread without mutex_ holds no lock of the backend through the C API.
LEMMA UncoveredHoldsNothing ==
  ASSUME Inv, mode = "api", NEW t \in Threads, holder # t
  PROVE  writer # t /\ sharers[t] = 0
<1>1. PICK p \in Knowledge : Fits(t, p)
  BY DEF Inv, InCall
<1> QED
  BY <1>1, KnowledgeType DEF Fits, Sound

\* Behind the C API no thread waits for the backend's lock, so the nested
\* shared locks of permissions and list_directory cannot deadlock there.
THEOREM NeverWaits == Spec => []ApiNeverWaits
<1>1. Inv => ApiNeverWaits
  <2> SUFFICES ASSUME Inv, mode = "api", NEW t \in Threads,
                      NEW step \in {"shared", "exclusive"}, At(t, step)
               PROVE  /\ step = "shared" => MayShare(t)
                      /\ step = "exclusive" => MayWrite
    BY DEF ApiNeverWaits
  <2>1. holder = t /\ writer # t /\ (step = "exclusive" => sharers[t] = 0)
    BY CoveredHolds DEF Covered
  <2>2. \A u \in Threads \ {t} : writer # u /\ sharers[u] = 0
    BY <2>1, UncoveredHoldsNothing
  <2>3. writer = NoThread
    BY <2>1, <2>2 DEF Inv, TypeOK
  <2>4. ~WriterWaits(t)
    <3>1. ASSUME NEW u \in Threads \ {t}, At(u, "exclusive")
          PROVE  FALSE
      <4>1. holder = u
        BY <3>1, CoveredHolds DEF Covered
      <4> QED
        BY <2>1, <4>1
    <3> QED
      BY <3>1 DEF WriterWaits
  <2> QED
    BY <2>1, <2>2, <2>3, <2>4 DEF MayShare, MayWrite
<1> QED
  BY <1>1, Invariance, PTL

\* Which steps write what, and which read it.
LEMMA WriteSteps ==
  ASSUME NEW t, NEW x \in Writes(t)
  PROVE  \E step : At(t, step) /\
           \/ x = "archive" /\ step \in {"open", "close"}
           \/ x = "file" /\ step = "close"
           \/ x = "strings" /\ step = "rename"
           \/ x = "reader" /\ step \in {"use", "begin"} /\ kind = "squashfs"
           \/ /\ x = "libzip" /\ kind = "zip"
              /\ step \in {"use", "begin", "close", "read", "reopen", "drop"}
           \/ x \in {"table", "point"} /\ step \in {"insert", "free"}
           \/ x = "files" /\ (step = "forget" \/ (mode = "api" /\ step \in {"handle", "drop"}))
           \/ x = "static" /\ step = "assign"
           \/ x \in {"backends", "info"} /\ step = "grow"
BY DEF Writes, Stores, InLibrary

LEMMA ReadSteps ==
  ASSUME NEW t, NEW x \in Reads(t)
  PROVE  \E step : At(t, step) /\
           \/ x = "archive" /\ step \in {"check", "vacant", "use", "begin"}
           \/ x = "strings" /\ step \in {"use", "begin", "peek"}
           \/ x = "file" /\ step \in {"read", "reopen"}
           \/ x = "table" /\ step \in {"find", "absent"}
           \/ x = "files" /\ step = "lookup"
           \/ x = "point" /\ step = "follow"
           \/ x = "static" /\ step = "look"
           \/ x = "backends" /\ step = "scan"
           \/ x = "info" /\ step = "peruse"
BY DEF Reads

\* Whoever touches anything but what is listed does so under a lock.
LEMMA AccessUnderMutex ==
  ASSUME Inv, NEW t \in Threads, NEW x \in Reads(t) \cup Writes(t),
         \/ mode = "api" /\ x \notin {"static", "point"}
         \/ mode = "registry" /\ x # "info"
  PROVE  holder = t
<1>1. ASSUME x \in Writes(t)
      PROVE  holder = t
  <2>1. PICK step : At(t, step) /\
           \/ x = "archive" /\ step \in {"open", "close"}
           \/ x = "file" /\ step = "close"
           \/ x = "strings" /\ step = "rename"
           \/ x = "reader" /\ step \in {"use", "begin"} /\ kind = "squashfs"
           \/ /\ x = "libzip" /\ kind = "zip"
              /\ step \in {"use", "begin", "close", "read", "reopen", "drop"}
           \/ x \in {"table", "point"} /\ step \in {"insert", "free"}
           \/ x = "files" /\ (step = "forget" \/ (mode = "api" /\ step \in {"handle", "drop"}))
           \/ x = "static" /\ step = "assign"
           \/ x \in {"backends", "info"} /\ step = "grow"
    BY <1>1, WriteSteps
  <2>2. InMode(step) /\ (Covered(step) /\ step # "lock" => holder = t)
    BY <2>1, CoveredHolds
  <2> QED
    BY <2>1, <2>2 DEF InMode, Covered, BackendSteps, TableSteps, RegistrySteps
<1>2. ASSUME x \in Reads(t)
      PROVE  holder = t
  <2>1. PICK step : At(t, step) /\
           \/ x = "archive" /\ step \in {"check", "vacant", "use", "begin"}
           \/ x = "strings" /\ step \in {"use", "begin", "peek"}
           \/ x = "file" /\ step \in {"read", "reopen"}
           \/ x = "table" /\ step \in {"find", "absent"}
           \/ x = "files" /\ step = "lookup"
           \/ x = "point" /\ step = "follow"
           \/ x = "static" /\ step = "look"
           \/ x = "backends" /\ step = "scan"
           \/ x = "info" /\ step = "peruse"
    BY <1>2, ReadSteps
  <2>2. InMode(step) /\ (Covered(step) /\ step # "lock" => holder = t)
    BY <2>1, CoveredHolds
  <2> QED
    BY <2>1, <2>2 DEF InMode, Covered, BackendSteps, TableSteps, RegistrySteps
<1> QED
  BY <1>1, <1>2

LEMMA DirectWrite ==
  ASSUME Inv, mode = "direct", NEW t \in Threads, NEW x \in Writes(t),
         x \notin Unlocked
  PROVE  writer = t
<1>1. PICK step : At(t, step) /\
         \/ x = "archive" /\ step \in {"open", "close"}
         \/ x = "file" /\ step = "close"
         \/ x = "strings" /\ step = "rename"
         \/ x = "reader" /\ step \in {"use", "begin"} /\ kind = "squashfs"
         \/ /\ x = "libzip" /\ kind = "zip"
            /\ step \in {"use", "begin", "close", "read", "reopen", "drop"}
         \/ x \in {"table", "point"} /\ step \in {"insert", "free"}
         \/ x = "files" /\ (step = "forget" \/ (mode = "api" /\ step \in {"handle", "drop"}))
         \/ x = "static" /\ step = "assign"
         \/ x \in {"backends", "info"} /\ step = "grow"
  BY WriteSteps
<1>2. /\ InMode(step)
      /\ step \in {"open", "close"} => writer = t
      /\ step \in {"use", "begin"} /\ kind = "squashfs" => writer = t
  BY <1>1, CoveredHolds
<1> QED
  BY <1>1, <1>2 DEF InMode, BackendSteps, Unlocked

LEMMA DirectRead ==
  ASSUME Inv, mode = "direct", NEW t \in Threads, NEW x \in Reads(t),
         x \notin Unlocked
  PROVE  writer = t \/ sharers[t] > 0
<1>1. PICK step : At(t, step) /\
         \/ x = "archive" /\ step \in {"check", "vacant", "use", "begin"}
         \/ x = "strings" /\ step \in {"use", "begin", "peek"}
         \/ x = "file" /\ step \in {"read", "reopen"}
         \/ x = "table" /\ step \in {"find", "absent"}
         \/ x = "files" /\ step = "lookup"
         \/ x = "point" /\ step = "follow"
         \/ x = "static" /\ step = "look"
         \/ x = "backends" /\ step = "scan"
         \/ x = "info" /\ step = "peruse"
  BY ReadSteps
<1>2. /\ InMode(step)
      /\ step \in {"check", "use", "begin"} => writer = t \/ sharers[t] > 0
      /\ step = "vacant" => writer = t
  BY <1>1, CoveredHolds
<1> QED
  BY <1>1, <1>2 DEF InMode, BackendSteps, Unlocked

\* Two threads race only on what no lock covers: the static strings and the
\* mount point string of the C API; the strings, the files and the inside of
\* libzip in direct use; the BackendInfo that get_info hands out.
THEOREM RacesAreUnlocked == Spec => []OnlyUnlockedDataRaces
<1>1. Inv => OnlyUnlockedDataRaces
  <2> SUFFICES ASSUME Inv, NEW t \in Threads, NEW u \in Threads, t # u,
                      NEW x \in Writes(t), x \in Reads(u) \cup Writes(u)
               PROVE  x \in Unlocked
    BY DEF OnlyUnlockedDataRaces, Raced
  <2>1. mode \in {"api", "direct", "registry"}
    BY DEF Inv, TypeOK
  <2>2. CASE mode = "api"
    <3>1. x \notin {"static", "point"} => holder = t /\ holder = u
      BY <2>2, AccessUnderMutex
    <3> QED
      BY <2>2, <3>1 DEF Unlocked
  <2>3. CASE mode = "registry"
    <3>1. x # "info" => holder = t /\ holder = u
      BY <2>3, AccessUnderMutex
    <3> QED
      BY <2>3, <3>1 DEF Unlocked
  <2>4. CASE mode = "direct"
    <3>1. SUFFICES ASSUME x \notin Unlocked
                   PROVE  FALSE
      BY <2>4
    <3>2. writer = t
      BY <2>4, <3>1, DirectWrite
    <3>3. writer = u \/ sharers[u] > 0
      BY <2>4, <3>1, DirectWrite, DirectRead
    <3>4. sharers[u] = 0
      BY <3>2, NoThreadIsNone DEF Inv, OneWriter
    <3> QED
      BY <3>2, <3>3, <3>4
  <2> QED
    BY <2>1, <2>2, <2>3, <2>4
<1> QED
  BY <1>1, Invariance, PTL
================================================================================
