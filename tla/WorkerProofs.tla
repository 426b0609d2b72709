---------------------------- MODULE WorkerProofs ----------------------------
(***************************************************************************)
(* Proofs about what one worker process does by itself: SweepWalk, for any *)
(* number of organisations and any size of a page, and Protocol and        *)
(* Harness, for any lines a harness may print, any depth of unwrapping, any *)
(* limit of the output and any descendants.                                *)
(***************************************************************************)
EXTENDS SweepWalk, Harness, FiniteSetTheorems, SequenceTheorems,
        WellFoundedInduction, NaturalsInduction, TLAPS

(***************************************************************************)
(* Least and greatest elements.                                            *)
(***************************************************************************)

\* A set of naturals that is not empty has a least element.
LEMMA Least ==
  ASSUME NEW T \in SUBSET Nat, T # {}
  PROVE  \E n \in T : \A m \in T : n <= m
<1>1. PICK x \in T : \A y \in T : ~ (<<y, x>> \in OpToRel(<, Nat))
  BY WFMin, NatLessThanWellFounded
<1>2. ASSUME NEW y \in T PROVE x <= y
  <2>1. ~ (y < x)
    BY <1>1 DEF OpToRel
  <2> QED
    BY <2>1
<1> QED
  BY <1>2

\* A finite one has a greatest element: the one with the fewest above it.
LEMMA Greatest ==
  ASSUME NEW S \in SUBSET Nat, IsFiniteSet(S), S # {}
  PROVE  \E n \in S : \A m \in S : m <= n
<1> DEFINE Above(x) == {u \in S : u > x}
           T        == {Cardinality(Above(x)) : x \in S}
<1>1. \A x : IsFiniteSet(Above(x))
  BY FS_Subset
<1>2. \A x : Cardinality(Above(x)) \in Nat
  BY <1>1, FS_CardinalityType
<1>3. PICK k \in T : \A m \in T : k <= m
  <2> HIDE DEF Above
  <2>1. T \in SUBSET Nat /\ T # {}
    BY <1>2
  <2> HIDE DEF T
  <2> QED
    BY <2>1, Least
<1>4. PICK n \in S : k = Cardinality(Above(n))
  BY <1>3
<1>5. ASSUME NEW m \in S, ~ (m <= n) PROVE FALSE
  <2>1. Above(m) \subseteq Above(n) /\ m \in Above(n) /\ m \notin Above(m)
    <3>1. m \in Nat /\ n \in Nat /\ \A u \in S : u \in Nat
      OBVIOUS
    <3>2. n < m
      BY <1>5, <3>1
    <3>3. ASSUME NEW u \in S, u > m PROVE u > n
      BY <3>1, <3>2, <3>3
    <3>4. m > n /\ ~ (m > m)
      BY <3>1, <3>2
    <3> QED
      BY <3>3, <3>4
  <2>2. Above(m) # Above(n)
    BY <2>1
  <2>3. Cardinality(Above(m)) < Cardinality(Above(n))
    <3> HIDE DEF Above
    <3>1. /\ Cardinality(Above(m)) <= Cardinality(Above(n))
          /\ Cardinality(Above(n)) = Cardinality(Above(m)) => Above(m) = Above(n)
      BY <1>1, <2>1, FS_Subset
    <3> QED
      BY <1>2, <2>2, <3>1
  <2>4. k <= Cardinality(Above(m))
    <3> HIDE DEF Above
    <3> QED
      BY <1>3
  <2> QED
    <3> HIDE DEF Above, T
    <3> QED
      BY <1>2, <1>4, <2>3, <2>4
<1> QED
  BY <1>5
-----------------------------------------------------------------------------
(***************************************************************************)
(* The walk over the organisations.                                        *)
(***************************************************************************)

\* Those that come before o, after the cursor.
Before(c, o) == {u \in After(c) : u < o}

LEMMA DirectoryIsFinite ==
  ASSUME WalkTypeOK
  PROVE  /\ directory \in SUBSET Nat /\ IsFiniteSet(directory)
         /\ \A S : S \subseteq directory =>
              S \in SUBSET Nat /\ IsFiniteSet(S) /\ Cardinality(S) \in Nat
<1>1. directory \in SUBSET Org /\ Org \in SUBSET Nat /\ IsFiniteSet(Org)
  BY WalkAssumption DEF WalkTypeOK
<1>2. IsFiniteSet(directory)
  BY <1>1, FS_Subset
<1>3. ASSUME NEW S, S \subseteq directory PROVE IsFiniteSet(S)
  BY <1>2, <1>3, FS_Subset
<1>4. ASSUME NEW S, S \subseteq directory PROVE Cardinality(S) \in Nat
  BY <1>3, <1>4, FS_CardinalityType
<1> QED
  BY <1>1, <1>2, <1>3, <1>4

\* A page is bounded: all of it but its last organisation come before that one.
LEMMA PageIsBounded ==
  ASSUME WalkTypeOK, NEW c \in {0} \cup Org
  PROVE  /\ OrgsAfter(c) \subseteq After(c) /\ After(c) \subseteq directory
         /\ Cardinality(OrgsAfter(c)) <= SweepBatch
<1> DEFINE P == OrgsAfter(c)
<1>1. P \subseteq After(c) /\ After(c) \subseteq directory
  BY DEF OrgsAfter, After
<1>2. P \in SUBSET Nat /\ IsFiniteSet(P) /\ Cardinality(P) \in Nat
  BY <1>1, DirectoryIsFinite
<1>3. CASE P = {}
  <2>1. Cardinality(P) = 0
    BY <1>3, FS_EmptySet
  <2> QED
    BY <1>1, <2>1, WalkAssumption
<1>4. CASE P # {}
  <2>1. PICK m \in P : \A u \in P : u <= m
    <3> HIDE DEF P
    <3> QED
      BY <1>2, <1>4, Greatest
  <2>2. Cardinality(P \ {m}) = Cardinality(P) - 1
    <3> HIDE DEF P
    <3> QED
      BY <1>2, <2>1, FS_RemoveElement
  <2>3. P \ {m} \subseteq Before(c, m)
    <3> SUFFICES ASSUME NEW u \in P, u # m PROVE u \in After(c) /\ u < m
      BY DEF Before
    <3>1. u \in Nat /\ m \in Nat /\ u <= m
      BY <1>2, <2>1
    <3> QED
      BY <1>1, <3>1
  <2>4. Before(c, m) \subseteq directory
    BY <1>1 DEF Before
  <2>5. Cardinality(P \ {m}) <= Cardinality(Before(c, m))
    BY <2>3, <2>4, DirectoryIsFinite, FS_Subset
  <2>6. Cardinality(Before(c, m)) < SweepBatch
    BY <2>1 DEF OrgsAfter, Before
  <2>7. Cardinality(Before(c, m)) \in Nat
    BY <2>4, DirectoryIsFinite
  <2> QED
    <3> HIDE DEF P
    <3>1. Cardinality(P) <= SweepBatch
      BY <1>2, <2>2, <2>5, <2>6, <2>7, WalkAssumption
    <3> QED
      BY <1>1, <3>1 DEF P
<1> QED
  BY <1>3, <1>4

\* The cursor goes on to the last of a full page, or back to the start.
LEMMA CursorFollowsPage ==
  ASSUME WalkTypeOK, NEW c \in {0} \cup Org
  PROVE  LET next == NextCursor(OrgsAfter(c)) IN
         \/ next = 0
         \/ next \in OrgsAfter(c) /\ \A o \in OrgsAfter(c) : o <= next
<1> DEFINE P == OrgsAfter(c)
<1>1. P \subseteq directory
  BY PageIsBounded
<1>2. P \in SUBSET Nat /\ IsFiniteSet(P)
  BY <1>1, DirectoryIsFinite
<1>3. CASE Cardinality(P) < SweepBatch
  BY <1>3 DEF NextCursor
<1>4. CASE ~ (Cardinality(P) < SweepBatch)
  <2>1. P # {}
    <3>1. Cardinality({}) = 0
      BY FS_EmptySet
    <3> QED
      BY <1>4, <3>1, WalkAssumption
  <2>2. \E n \in P : \A o \in P : o <= n
    <3> HIDE DEF P
    <3> QED
      BY <1>2, <2>1, Greatest
  <2>3. NextCursor(P) = CHOOSE last \in P : \A o \in P : o <= last
    BY <1>4 DEF NextCursor
  <2> QED
    <3> HIDE DEF P
    <3>1. NextCursor(P) \in P /\ \A o \in P : o <= NextCursor(P)
      BY <2>2, <2>3
    <3> QED
      BY <3>1 DEF P
<1> QED
  BY <1>3, <1>4

\* Whoever comes before somebody on the page is on the page.
LEMMA PageHasNoGaps ==
  ASSUME WalkTypeOK, NEW c \in {0} \cup Org,
         NEW last \in OrgsAfter(c), NEW o \in directory, c < o, o <= last
  PROVE  o \in OrgsAfter(c)
<1>1. last \in directory /\ last \in Nat /\ o \in Nat
  BY PageIsBounded, DirectoryIsFinite
<1>2. o \in After(c)
  BY DEF After
<1>3. Before(c, o) \subseteq Before(c, last) /\ Before(c, last) \subseteq directory
  <2>1. After(c) \subseteq Nat /\ After(c) \subseteq directory
    BY PageIsBounded, DirectoryIsFinite
  <2> QED
    BY <1>1, <2>1 DEF Before
<1>4. Cardinality(Before(c, o)) <= Cardinality(Before(c, last))
  BY <1>3, DirectoryIsFinite, FS_Subset
<1>5. Cardinality(Before(c, last)) < SweepBatch
  BY DEF OrgsAfter, Before
<1>6. Cardinality(Before(c, o)) < SweepBatch
  <2>1. Cardinality(Before(c, o)) \in Nat /\ Cardinality(Before(c, last)) \in Nat
    BY <1>3, DirectoryIsFinite
  <2> QED
    BY <1>4, <1>5, <2>1, WalkAssumption
<1> QED
  BY <1>2, <1>6 DEF OrgsAfter, Before

\* The page in memory is bounded, though a restart does not renew it.
WalkInv == WalkTypeOK /\ Cardinality(page) <= SweepBatch

LEMMA WalkStep ==
  ASSUME WalkInv, [WalkNext]_walk
  PROVE  WalkInv' /\ (walk' # walk => SkipsNothing)
<1> USE DEF WalkInv
<1>1. CASE ReclaimSweep
  <2> DEFINE P == OrgsAfter(cursor)
  <2>1. /\ cursor \in {0} \cup Org /\ page' = P /\ swept' = P \ bad
        /\ cursor' = NextCursor(P)
        /\ UNCHANGED <<directory, bad, lapses>>
    BY <1>1 DEF ReclaimSweep, WalkTypeOK
  <2>2. P \subseteq directory /\ Cardinality(P) <= SweepBatch
    BY <2>1, PageIsBounded
  <2>3. cursor' = 0 \/ (cursor' \in P /\ \A o \in P : o <= cursor')
    BY <2>1, CursorFollowsPage
  <2>4. WalkTypeOK'
    <3> HIDE DEF P
    <3> QED
      BY <2>1, <2>2, <2>3 DEF WalkTypeOK
  <2>5. SkipsNothing
    <3> SUFFICES ASSUME cursor' > cursor, NEW o \in directory, cursor < o, o <= cursor'
                 PROVE  o \in P
      BY <2>1 DEF SkipsNothing
    <3>1. cursor' \in P
      BY <2>1, <2>3, WalkAssumption
    <3> QED
      BY <2>1, <3>1, PageHasNoGaps
  <2> QED
    BY <2>1, <2>2, <2>4, <2>5
<1>2. CASE SweepFails
  <2>1. Cardinality({}) = 0
    BY FS_EmptySet
  <2>2. cursor \in Nat
    BY WalkAssumption DEF WalkTypeOK
  <2> QED
    BY <1>2, <2>1, <2>2, WalkAssumption DEF SweepFails, WalkTypeOK, SkipsNothing
<1>3. CASE Restart
  <2>1. cursor \in Nat
    BY WalkAssumption DEF WalkTypeOK
  <2> QED
    BY <1>3, <2>1 DEF Restart, WalkTypeOK, SkipsNothing
<1>4. CASE \E o \in Org : CreateOrganization(o)
  <2>1. cursor \in Nat
    BY WalkAssumption DEF WalkTypeOK
  <2> QED
    BY <1>4, <2>1 DEF CreateOrganization, WalkTypeOK, SkipsNothing
<1>5. CASE UNCHANGED walk
  BY <1>5 DEF walk, WalkTypeOK
<1> QED
  BY <1>1, <1>2, <1>3, <1>4, <1>5 DEF WalkNext

LEMMA WalkStart == WalkInit => WalkInv
<1>1. Cardinality({}) = 0
  BY FS_EmptySet
<1> QED
  BY <1>1, WalkAssumption DEF WalkInit, WalkInv, WalkTypeOK

\* The cursor moves past nothing that was not examined, wherever organisations
\* appear, whichever fail and whenever the process restarts (sweepExpiredRuns,
\* orgsAfter), and a pass is bounded.
THEOREM SweepSkipsNothing == WalkSpec => WalkSkipsNothing
<1>1. WalkInv /\ [WalkNext]_walk => WalkInv'
  BY WalkStep
<1>2. WalkInv /\ [WalkNext]_walk
        => [SkipsNothing /\ Cardinality(page') <= SweepBatch /\ WalkTypeOK']_walk
  BY WalkStep DEF WalkInv
<1> QED
  BY <1>1, <1>2, WalkStart, PTL DEF WalkSpec, WalkSkipsNothing
-----------------------------------------------------------------------------
(***************************************************************************)
(* Recursive functions over 0..n: one that goes from a base by a step       *)
(* exists.                                                                 *)
(***************************************************************************)
Iteration(f, S, base, step, n) ==
  f \in [0..n -> S] /\ f[0] = base /\ \A i \in 1..n : f[i] = step[f[i - 1]]

LEMMA Iterates ==
  ASSUME NEW S, NEW base \in S, NEW step \in [S -> S], NEW n \in Nat
  PROVE  \E f : Iteration(f, S, base, step, n)
<1> DEFINE Good(k) == \E f : Iteration(f, S, base, step, k)
           T == {k \in Nat : ~Good(k)}
<1> SUFFICES ASSUME ~Good(n) PROVE FALSE
  OBVIOUS
<1>1. PICK k \in T : \A m \in T : k <= m
  BY Least
<1>2. Good(0)
  <2>1. Iteration([i \in 0..0 |-> base], S, base, step, 0)
    BY DEF Iteration
  <2> QED
    BY <2>1
<1>3. k \in Nat /\ k # 0 /\ k - 1 \in Nat
  BY <1>2
<1>4. Good(k - 1)
  <2> HIDE DEF Good
  <2>1. k - 1 \notin T
    BY <1>1, <1>3
  <2> QED
    BY <1>3, <2>1
<1>5. PICK g : Iteration(g, S, base, step, k - 1)
  BY <1>4
<1> DEFINE f == [i \in 0..k |-> IF i = k THEN step[g[k - 1]] ELSE g[i]]
<1>6. Iteration(f, S, base, step, k)
  <2>1. f \in [0..k -> S]
    BY <1>3, <1>5 DEF Iteration
  <2>2. f[0] = base /\ \A i \in 1..k : f[i] = step[f[i - 1]]
    BY <1>3, <1>5 DEF Iteration
  <2> QED
    BY <2>1, <2>2 DEF Iteration
<1> QED
  BY <1>1, <1>6
-----------------------------------------------------------------------------
(***************************************************************************)
(* What a line is read as.                                                 *)
(***************************************************************************)

\* What an envelope carries is a text of lines or one object, and these are
\* lines again.
LEMMA LineShapes ==
  ASSUME NEW d \in Line, d # Noise
  PROVE  /\ d.reply \in Reply \cup {None}
         /\ d.result # None =>
              IF IsText(d.result) THEN d.result.lines \in Seq(Line)
                                  ELSE d.result.object \in Line
<1>1. d \in Object
  BY ProtocolAssumption
<1>2. d.reply \in Reply \cup {None}
  BY <1>1 DEF Object
<1>3. d.result \in {None} \cup [object : Line] \cup [lines : Seq(Line)]
  BY <1>1 DEF Object
<1>4. ASSUME d.result \in [object : Line]
      PROVE  ~IsText(d.result) /\ d.result.object \in Line
  <2>1. DOMAIN d.result = {"object"}
    BY <1>4
  <2>2. {"object"} # {"lines"}
    <3>1. "object" # "lines"
      OBVIOUS
    <3> QED
      BY <3>1
  <2> QED
    BY <1>4, <2>1, <2>2 DEF IsText
<1>5. ASSUME d.result \in [lines : Seq(Line)]
      PROVE  IsText(d.result) /\ d.result.lines \in Seq(Line)
  <2>1. DOMAIN d.result = {"lines"}
    BY <1>5
  <2> QED
    BY <1>5, <2>1 DEF IsText
<1> QED
  BY <1>2, <1>3, <1>4, <1>5

LEMMA CarriedAreLines ==
  ASSUME NEW d \in Line
  PROVE  Carried(d) \subseteq Line
<1>1. CASE d = Noise
  BY <1>1 DEF Carried
<1>2. CASE d # Noise /\ d.result = None
  BY <1>2 DEF Carried
<1>3. CASE d # Noise /\ d.result # None /\ IsText(d.result)
  <2>1. d.result.lines \in Seq(Line)
    BY <1>3, LineShapes
  <2>2. \A i \in DOMAIN d.result.lines : d.result.lines[i] \in Line
    BY <2>1
  <2> QED
    BY <1>3, <2>2 DEF Carried
<1>4. CASE d # Noise /\ d.result # None /\ ~IsText(d.result)
  <2>1. d.result.object \in Line
    BY <1>4, LineShapes
  <2> QED
    BY <1>4, <2>1 DEF Carried
<1> QED
  BY <1>1, <1>2, <1>3, <1>4

\* The first of some replies is one of them.
LEMMA FirstIsOneOfThem ==
  ASSUME NEW replies, DOMAIN replies \subseteq Nat, First(replies) # None
  PROVE  \E i \in DOMAIN replies : First(replies) = replies[i]
<1> DEFINE T == {i \in DOMAIN replies : replies[i] # None}
           IsFirst(i) == /\ replies[i] # None
                         /\ \A j \in DOMAIN replies : j < i => replies[j] = None
<1>1. T # {}
  BY DEF First
<1>2. PICK n \in T : \A m \in T : n <= m
  <2>1. T \in SUBSET Nat
    OBVIOUS
  <2> HIDE DEF T
  <2> QED
    BY <1>1, <2>1, Least
<1>3. n \in DOMAIN replies /\ IsFirst(n)
  BY <1>2
<1>4. First(replies) = replies[CHOOSE i \in DOMAIN replies : IsFirst(i)]
  BY <1>1 DEF First
<1> QED
  <2> HIDE DEF IsFirst
  <2> QED
    BY <1>3, <1>4

\* The inside of an envelope is read as a failure, or as one of the lines that it
\* carries.
LEMMA UnwrapsCarried ==
  ASSUME NEW d \in Line, d # Noise, d.reply = None, NEW inner,
         Unwrapped(d, inner) # None
  PROVE  \/ Unwrapped(d, inner) = ReportedError
         \/ \E e \in Carried(d) : Unwrapped(d, inner) = inner[e]
<1> SUFFICES ASSUME ~ReportsError(d)
             PROVE  \E e \in Carried(d) : Unwrapped(d, inner) = inner[e]
  BY DEF Unwrapped
<1>1. d.result # None
  BY DEF Unwrapped
<1>2. CASE ~IsText(d.result)
  <2>1. Unwrapped(d, inner) = inner[d.result.object]
    BY <1>1, <1>2 DEF Unwrapped
  <2>2. d.result.object \in Carried(d)
    BY <1>1, <1>2 DEF Carried
  <2> QED
    BY <2>1, <2>2
<1>3. CASE IsText(d.result)
  <2> DEFINE lines   == d.result.lines
             replies == [i \in DOMAIN lines |-> inner[lines[i]]]
  <2>1. Unwrapped(d, inner) = First(replies)
    BY <1>1, <1>3 DEF Unwrapped
  <2>2. DOMAIN replies \subseteq Nat
    <3>1. lines \in Seq(Line)
      BY <1>1, <1>3, LineShapes
    <3>2. DOMAIN lines = 1..Len(lines) /\ Len(lines) \in Nat
      BY <3>1, LenProperties
    <3> QED
      BY <3>2
  <2>3. \E i \in DOMAIN replies : First(replies) = replies[i]
    <3> HIDE DEF replies
    <3> QED
      BY <2>1, <2>2, FirstIsOneOfThem
  <2>4. PICK i \in DOMAIN lines : First(replies) = inner[lines[i]]
    BY <2>3
  <2>5. lines[i] \in Carried(d)
    BY <1>1, <1>3, <2>4 DEF Carried
  <2> QED
    BY <2>1, <2>4, <2>5
<1> QED
  BY <1>2, <1>3

LEMMA UnwrapsToReply ==
  ASSUME NEW d \in Line, d # Noise, d.reply = None,
         NEW inner \in [Line -> Reply \cup {None}]
  PROVE  Unwrapped(d, inner) \in Reply \cup {None}
<1>1. ReportedError \in Reply
  <2>1. <<>> \in Seq(Operation)
    BY EmptySeq
  <2> QED
    BY <2>1 DEF ReportedError, Reply
<1>2. \A e \in Carried(d) : inner[e] \in Reply \cup {None}
  BY CarriedAreLines
<1> QED
  BY <1>1, <1>2, UnwrapsCarried

\* What a line is read as when `inner` reads what is inside it.
Read(d, inner) ==
  IF d = Noise THEN None ELSE IF d.reply # None THEN d.reply ELSE Unwrapped(d, inner)

\* What it is read as when nothing may be unwrapped any more.
ReadAsIs(d) == IF d = Noise THEN None ELSE d.reply

\* Decoding goes down level by level.
LEMMA DecodingGoesDown ==
  /\ \A k \in 0..MaxUnwrapDepth : Decoding[k] \in [Line -> Reply \cup {None}]
  /\ \A d \in Line : Decoding[0][d] = ReadAsIs(d)
  /\ \A k \in 1..MaxUnwrapDepth : \A d \in Line :
       Decoding[k][d] = Read(d, Decoding[k - 1])
<1> DEFINE S    == [Line -> Reply \cup {None}]
           base == [d \in Line |-> ReadAsIs(d)]
           step == [x \in S |-> [d \in Line |-> Read(d, x)]]
           Walk(f) == [left \in 0..MaxUnwrapDepth |-> [d \in Line |->
             IF d = Noise THEN None
             ELSE IF d.reply # None THEN d.reply
             ELSE IF left = 0 THEN None
             ELSE Unwrapped(d, f[left - 1])]]
<1>1. base \in S
  <2>1. \A d \in Line : ReadAsIs(d) \in Reply \cup {None}
    BY LineShapes DEF ReadAsIs
  <2> QED
    BY <2>1
<1>2. step \in [S -> S]
  <2>1. ASSUME NEW x \in S, NEW d \in Line PROVE Read(d, x) \in Reply \cup {None}
    <3>1. CASE d # Noise /\ d.reply = None
      BY <3>1, UnwrapsToReply DEF Read
    <3>2. CASE d = Noise \/ d.reply # None
      BY <3>2, LineShapes DEF Read
    <3> QED
      BY <3>1, <3>2
  <2>2. \A x \in S : [d \in Line |-> Read(d, x)] \in S
    BY <2>1
  <2> HIDE DEF S
  <2> QED
    BY <2>2
<1>3. PICK f : Iteration(f, S, base, step, MaxUnwrapDepth)
  <2>1. MaxUnwrapDepth \in Nat
    BY ProtocolAssumption
  <2> HIDE DEF S, base, step
  <2> QED
    BY <1>1, <1>2, <2>1, Iterates
<1>4. /\ f \in [0..MaxUnwrapDepth -> S] /\ f[0] = base
      /\ \A i \in 1..MaxUnwrapDepth : f[i] = step[f[i - 1]]
  BY <1>3 DEF Iteration
<1>5. f = Walk(f)
  <2>1. ASSUME NEW k \in 0..MaxUnwrapDepth PROVE f[k] = Walk(f)[k]
    <3>1. CASE k = 0
      BY <1>4, <3>1 DEF ReadAsIs
    <3>2. CASE k # 0
      <4>1. k \in 1..MaxUnwrapDepth /\ k - 1 \in 0..MaxUnwrapDepth
        BY <3>2, ProtocolAssumption
      <4>2. f[k - 1] \in S /\ f[k] = step[f[k - 1]]
        BY <1>4, <4>1
      <4>3. f[k] = [d \in Line |-> Read(d, f[k - 1])]
        BY <4>2
      <4> QED
        BY <3>2, <4>3 DEF Read
    <3> QED
      BY <3>1, <3>2
  <2> QED
    BY <1>4, <2>1
<1>6. Decoding = Walk(Decoding)
  <2>1. \E h : h = Walk(h)
    BY <1>5
  <2> QED
    BY <2>1, Zenon DEF Decoding
<1> DEFINE D == Decoding
<1>7. /\ \A d \in Line : D[0][d] = ReadAsIs(d)
      /\ D[0] = base
      /\ \A k \in 1..MaxUnwrapDepth : D[k] = [d \in Line |-> Read(d, D[k - 1])]
  <2>1. D = Walk(D)
    BY <1>6
  <2> HIDE DEF D
  <2>2. 0 \in 0..MaxUnwrapDepth
    BY ProtocolAssumption
  <2>3. D[0] = base
    BY <2>1, <2>2 DEF ReadAsIs
  <2>4. ASSUME NEW k \in 1..MaxUnwrapDepth
        PROVE  D[k] = [d \in Line |-> Read(d, D[k - 1])]
    <3>1. k \in 0..MaxUnwrapDepth /\ k # 0
      BY ProtocolAssumption
    <3>2. D[k] = Walk(D)[k]
      BY <2>1
    <3>3. Walk(D)[k] = [d \in Line |-> Read(d, D[k - 1])]
      BY <3>1 DEF Read
    <3> QED
      BY <3>2, <3>3
  <2> QED
    BY <2>3, <2>4
<1>8. \A k \in 0..MaxUnwrapDepth : D[k] \in S
  <2> DEFINE T == {k \in Nat : k \in 0..MaxUnwrapDepth /\ D[k] \notin S}
  <2> SUFFICES ASSUME T # {} PROVE FALSE
    BY ProtocolAssumption
  <2> HIDE DEF D
  <2>1. PICK k \in T : \A m \in T : k <= m
    BY Least
  <2>2. k # 0
    BY <1>1, <1>7, <2>1
  <2>3. k \in 1..MaxUnwrapDepth /\ k - 1 \in 0..MaxUnwrapDepth /\ k - 1 \in Nat
    BY <2>1, <2>2, ProtocolAssumption
  <2>4. k - 1 \notin T
    BY <2>1, <2>3
  <2>5. D[k - 1] \in S
    BY <2>3, <2>4
  <2>6. D[k] = step[D[k - 1]]
    BY <1>7, <2>3, <2>5
  <2>7. D[k] \in S
    <3> HIDE DEF S, step
    <3> QED
      BY <1>2, <2>5, <2>6
  <2> QED
    BY <2>1, <2>7
<1> QED
  <2>1. ASSUME NEW k \in 1..MaxUnwrapDepth, NEW d \in Line
        PROVE  D[k][d] = Read(d, D[k - 1])
    BY <1>7
  <2> QED
    BY <1>7, <1>8, <2>1

\* What a line opens goes down level by level, too.
LEMMA OpeningGoesDown ==
  /\ \A d \in Line : Opened[0][d] = {d}
  /\ \A k \in 1..MaxUnwrapDepth : \A d \in Line :
       Opened[k][d] = {d} \cup UNION {Opened[k - 1][e] : e \in Carried(d)}
<1> DEFINE S    == [Line -> SUBSET Line]
           base == [d \in Line |-> {d}]
           Open(d, x) == {d} \cup UNION {x[e] : e \in Carried(d)}
           step == [x \in S |-> [d \in Line |-> Open(d, x)]]
           Walk(f) == [levels \in 0..MaxUnwrapDepth |-> [d \in Line |->
             IF levels = 0 THEN {d}
             ELSE {d} \cup UNION {f[levels - 1][e] : e \in Carried(d)}]]
<1>1. base \in S
  OBVIOUS
<1>2. step \in [S -> S]
  <2>1. ASSUME NEW x \in S, NEW d \in Line PROVE Open(d, x) \in SUBSET Line
    BY CarriedAreLines
  <2> HIDE DEF Open
  <2>2. \A x \in S : [d \in Line |-> Open(d, x)] \in S
    BY <2>1
  <2> HIDE DEF S
  <2> QED
    BY <2>2
<1>3. PICK f : Iteration(f, S, base, step, MaxUnwrapDepth)
  <2>1. MaxUnwrapDepth \in Nat
    BY ProtocolAssumption
  <2> HIDE DEF S, base, step
  <2> QED
    BY <1>1, <1>2, <2>1, Iterates
<1>4. /\ f \in [0..MaxUnwrapDepth -> S] /\ f[0] = base
      /\ \A i \in 1..MaxUnwrapDepth : f[i] = step[f[i - 1]]
  BY <1>3 DEF Iteration
<1>5. f = Walk(f)
  <2>1. ASSUME NEW k \in 0..MaxUnwrapDepth PROVE f[k] = Walk(f)[k]
    <3>1. CASE k = 0
      BY <1>4, <3>1
    <3>2. CASE k # 0
      <4>1. k \in 1..MaxUnwrapDepth /\ k - 1 \in 0..MaxUnwrapDepth
        BY <3>2, ProtocolAssumption
      <4>2. f[k - 1] \in S /\ f[k] = step[f[k - 1]]
        BY <1>4, <4>1
      <4>3. f[k] = [d \in Line |-> Open(d, f[k - 1])]
        BY <4>2
      <4> QED
        BY <3>2, <4>3
    <3> QED
      BY <3>1, <3>2
  <2> QED
    BY <1>4, <2>1
<1>6. Opened = Walk(Opened)
  <2>1. \E h : h = Walk(h)
    BY <1>5
  <2> QED
    BY <2>1, Zenon DEF Opened
<1> DEFINE O == Opened
<1>7. O = Walk(O)
  BY <1>6
<1> HIDE DEF O
<1>8. ASSUME NEW d \in Line PROVE O[0][d] = {d}
  BY <1>7, ProtocolAssumption
<1>9. ASSUME NEW k \in 1..MaxUnwrapDepth, NEW d \in Line
      PROVE  O[k][d] = Open(d, O[k - 1])
  <2>1. k \in 0..MaxUnwrapDepth /\ k # 0
    BY ProtocolAssumption
  <2>2. O[k] = Walk(O)[k]
    BY <1>7
  <2>3. Walk(O)[k] = [e \in Line |-> Open(e, O[k - 1])]
    BY <2>1
  <2> QED
    BY <2>2, <2>3
<1> QED
  BY <1>8, <1>9 DEF O

\* A reply that is not a failure was found where an object says so, inside
\* objects that report no error.
FoundInside(k) == \A d \in Line :
  Decoding[k][d] # None /\ Decoding[k][d] # ReportedError =>
    \E e \in Opened[k][d] \ {Noise} : Decoding[k][d] = e.reply

LEMMA OpensItself ==
  ASSUME NEW k \in 0..MaxUnwrapDepth, NEW d \in Line
  PROVE  d \in Opened[k][d]
<1>1. CASE k = 0
  BY <1>1, OpeningGoesDown
<1>2. CASE k # 0
  <2>1. k \in 1..MaxUnwrapDepth
    BY <1>2, ProtocolAssumption
  <2> QED
    BY <2>1, OpeningGoesDown
<1> QED
  BY <1>1, <1>2

LEMMA RepliesAreFoundInside ==
  ASSUME NEW k \in 0..MaxUnwrapDepth
  PROVE  FoundInside(k)
<1> DEFINE T == {n \in Nat : n \in 0..MaxUnwrapDepth /\ ~FoundInside(n)}
<1> SUFFICES ASSUME T # {} PROVE FALSE
  BY ProtocolAssumption
<1>1. PICK n \in T : \A m \in T : n <= m
  BY Least
<1>2. n \in 0..MaxUnwrapDepth /\ ~FoundInside(n)
  BY <1>1
<1>3. PICK d \in Line : /\ Decoding[n][d] # None /\ Decoding[n][d] # ReportedError
                        /\ ~ \E e \in Opened[n][d] \ {Noise} : Decoding[n][d] = e.reply
  BY <1>2 DEF FoundInside
<1>4. d # Noise /\ d.reply = None /\ n # 0
  <2>1. n = 0 => Decoding[n][d] = ReadAsIs(d)
    BY DecodingGoesDown
  <2>2. n # 0 => Decoding[n][d] = Read(d, Decoding[n - 1])
    <3>1. n # 0 => n \in 1..MaxUnwrapDepth
      BY <1>2, ProtocolAssumption
    <3> QED
      BY <3>1, DecodingGoesDown
  <2>3. d # Noise
    BY <1>3, <2>1, <2>2 DEF Read, ReadAsIs
  <2>4. d.reply = None
    <3> SUFFICES ASSUME d.reply # None PROVE Decoding[n][d] = d.reply
      BY <1>2, <1>3, <2>3, OpensItself
    <3> QED
      BY <2>1, <2>2, <2>3 DEF Read, ReadAsIs
  <2> QED
    BY <1>3, <2>1, <2>3, <2>4 DEF ReadAsIs
<1>5. n \in 1..MaxUnwrapDepth /\ n - 1 \in 0..MaxUnwrapDepth /\ n - 1 \in Nat
  BY <1>2, <1>4, ProtocolAssumption
<1>6. Decoding[n][d] = Unwrapped(d, Decoding[n - 1])
  BY <1>4, <1>5, DecodingGoesDown DEF Read
<1>7. PICK e \in Carried(d) : Decoding[n][d] = Decoding[n - 1][e]
  BY <1>3, <1>4, <1>6, UnwrapsCarried
<1>8. FoundInside(n - 1)
  <2>1. n - 1 \notin T
    BY <1>1, <1>5
  <2> QED
    BY <1>5, <2>1
<1>9. e \in Line
  BY <1>7, CarriedAreLines
<1>10. PICK g \in Opened[n - 1][e] \ {Noise} : Decoding[n - 1][e] = g.reply
  BY <1>3, <1>7, <1>8, <1>9 DEF FoundInside
<1>11. g \in Opened[n][d]
  BY <1>5, <1>7, <1>10, OpeningGoesDown
<1> QED
  BY <1>3, <1>7, <1>10, <1>11

LEMMA LinesAreReadAsVouched ==
  ASSUME NEW d \in Line, TryDecode(d) # None
  PROVE  /\ TryDecode(d) \in Reply
         /\ TryDecode(d).status # "failed" => TryDecode(d) \in Vouched(d)
<1>1. MaxUnwrapDepth \in 0..MaxUnwrapDepth
  BY ProtocolAssumption
<1>2. TryDecode(d) \in Reply
  BY <1>1, DecodingGoesDown DEF TryDecode
<1>3. ASSUME TryDecode(d).status # "failed"
      PROVE  TryDecode(d) \in Vouched(d)
  <2>1. TryDecode(d) # ReportedError
    BY <1>3 DEF ReportedError
  <2>2. PICK e \in Opened[MaxUnwrapDepth][d] \ {Noise} : TryDecode(d) = e.reply
    BY <1>1, <2>1, RepliesAreFoundInside DEF FoundInside, TryDecode
  <2> QED
    BY <2>2 DEF Vouched
<1> QED
  BY <1>2, <1>3
-----------------------------------------------------------------------------
(***************************************************************************)
(* What an output is read as, and what Run makes of it.                    *)
(***************************************************************************)

LEMMA LastIsOneOfThem ==
  ASSUME NEW n \in Nat, NEW S \in SUBSET (1..n), S # {}
  PROVE  Last(S) \in S
<1>1. S \in SUBSET Nat
  OBVIOUS
<1>2. IsFiniteSet(S)
  <2>1. IsFiniteSet(1..n)
    BY FS_Interval
  <2> QED
    BY <2>1, FS_Subset
<1>3. \E i \in S : \A j \in S : j <= i
  BY <1>1, <1>2, Greatest
<1> QED
  BY <1>3 DEF Last

\* The reply of an output is what one of its lines is read as, and it is no
\* failure only if no line is read as one.
LEMMA OutputIsRead ==
  ASSUME NEW lines \in Seq(Line), ExtractProtocol(lines) # None
  PROVE  \E i \in DOMAIN lines :
           /\ TryDecode(lines[i]) # None
           /\ ExtractProtocol(lines) = TryDecode(lines[i])
           /\ ExtractProtocol(lines).status # "failed" =>
                \A j \in DOMAIN lines :
                  TryDecode(lines[j]) # None => TryDecode(lines[j]).status # "failed"
<1> DEFINE failed == {i \in Decoded(lines) : TryDecode(lines[i]).status = "failed"}
           all    == Decoded(lines)
           i      == Last(IF failed = {} THEN all ELSE failed)
<1>1. DOMAIN lines = 1..Len(lines) /\ Len(lines) \in Nat
  BY LenProperties
<1>2. all # {} /\ ExtractProtocol(lines) = TryDecode(lines[i])
  BY DEF ExtractProtocol
<1>3. all \in SUBSET (1..Len(lines)) /\ failed \in SUBSET (1..Len(lines))
  BY <1>1 DEF Decoded
<1>4. i \in IF failed = {} THEN all ELSE failed
  <2> HIDE DEF all, failed
  <2> QED
    BY <1>1, <1>2, <1>3, LastIsOneOfThem
<1>5. i \in DOMAIN lines /\ TryDecode(lines[i]) # None
  BY <1>4 DEF Decoded
<1>6. ASSUME ExtractProtocol(lines).status # "failed"
      PROVE  failed = {}
  BY <1>2, <1>4, <1>6
<1>7. ASSUME failed = {}, NEW j \in DOMAIN lines, TryDecode(lines[j]) # None
      PROVE  TryDecode(lines[j]).status # "failed"
  BY <1>7 DEF Decoded
<1> HIDE DEF i
<1> QED
  BY <1>2, <1>5, <1>6, <1>7

LEMMA FailedIsResult ==
  ASSUME NEW reason \in Reasons
  PROVE  /\ Failed(reason) \in Result /\ Failed(reason).reply = None
         /\ Failed(reason).reason = reason
  BY DEF Failed, Result

\* What is taken of an output is vouched for by one of its lines, and no line is
\* a failure; what is not taken does not look as if Run had given up.
LEMMA OutputIsJudged ==
  ASSUME NEW lines \in Seq(Line)
  PROVE  /\ Judge(lines) \in Result
         /\ Judge(lines).reason \notin {"timeout", "output_overflow"}
         /\ Judge(lines).reply # None =>
              /\ \E i \in DOMAIN lines : Judge(lines).reply \in Vouched(lines[i])
              /\ \A j \in DOMAIN lines :
                   TryDecode(lines[j]) # None => TryDecode(lines[j]).status # "failed"
<1> DEFINE reply == ExtractProtocol(lines)
           taken == [status |-> reply.status, reason |-> "", reply |-> reply]
<1>1. CASE reply = None
  <2>1. Judge(lines) = Failed("invalid_output")
    BY <1>1 DEF Judge
  <2>2. "invalid_output" \in Reasons
    BY DEF Reasons
  <2> QED
    BY <2>1, <2>2, FailedIsResult
<1>2. CASE reply # None
  <2>1. PICK i \in DOMAIN lines :
           /\ TryDecode(lines[i]) # None /\ reply = TryDecode(lines[i])
           /\ reply.status # "failed" =>
                \A j \in DOMAIN lines :
                  TryDecode(lines[j]) # None => TryDecode(lines[j]).status # "failed"
    BY <1>2, OutputIsRead
  <2>2. lines[i] \in Line
    BY <2>1, LenProperties
  <2>3. reply \in Reply /\ (reply.status # "failed" => reply \in Vouched(lines[i]))
    BY <2>1, <2>2, LinesAreReadAsVouched
  <2> HIDE DEF reply
  <2>4. /\ reply.status \in {"succeeded", "waiting", "failed"}
        /\ reply.reason \in {"", "code", "diagnostics", "harness_reported_error"}
    BY <2>3 DEF Reply
  <2>5. \/ reply.status # "failed" /\ Judge(lines) = taken
        \/ Judge(lines) = Failed("invalid_output")
        \/ Judge(lines) = Failed(SanitizeReason(reply.reason))
    BY <1>2, <2>4 DEF Judge, reply
  <2>6. SanitizeReason(reply.reason) \in {"invalid_output", "code", "harness_reported_error"}
    BY <2>4 DEF SanitizeReason
  <2>7. CASE reply.status # "failed" /\ Judge(lines) = taken
    <3>1. taken \in Result
      BY <2>3, <2>4 DEF Result, Reasons
    <3>2. taken.reason = "" /\ taken.reply = reply
      OBVIOUS
    <3>3. reply \in Vouched(lines[i])
      BY <2>3, <2>7
    <3> HIDE DEF taken
    <3> QED
      BY <2>1, <2>7, <3>1, <3>2, <3>3
  <2>8. CASE Judge(lines) = Failed("invalid_output")
    <3>1. "invalid_output" \in Reasons
      BY DEF Reasons
    <3> QED
      BY <2>8, <3>1, FailedIsResult
  <2>9. CASE Judge(lines) = Failed(SanitizeReason(reply.reason))
    <3>1. SanitizeReason(reply.reason) \in Reasons
      BY <2>6 DEF Reasons
    <3>2. /\ Judge(lines) \in Result /\ Judge(lines).reply = None
          /\ Judge(lines).reason = SanitizeReason(reply.reason)
      BY <2>9, <3>1, FailedIsResult
    <3> QED
      BY <2>6, <3>2
  <2> QED
    BY <2>5, <2>7, <2>8, <2>9
<1> QED
  BY <1>1, <1>2
-----------------------------------------------------------------------------
(***************************************************************************)
(* Run: the process, its output, its deadline.                             *)
(***************************************************************************)

\* Until something did not fit, nothing of the output is lost.
NothingLost == ~overflowed => printed = out \o pipe

\* A process that is waited for was started.
Started == phase = "waiting" => leader # "none"

\* Nothing of the group outlives the deadline, and what was not killed then
\* spawns nothing, for only a living leader spawns.
Killed == phase = "killing" =>
  leader = "exited" /\ Group = {}

\* What is taken is the judgement of a whole output that nobody adds to.
TakenAtTheEnd == phase = "returned" /\ verdict.reply # None =>
  /\ leader = "exited" /\ code = 0 /\ Writers = {} /\ pipe = <<>> /\ ~overflowed
  /\ verdict = Judge(out)

RunInv ==
  TypeOK /\ NothingLost /\ Started /\ Killed /\ TakenAtTheEnd /\ GivingUpKillsTheGroup

LEMMA InitRunInv == Init => RunInv
<1> SUFFICES ASSUME Init PROVE RunInv
  OBVIOUS
<1>1. <<>> \in Seq(Line) /\ Len(<<>>) = 0
  BY EmptySeq
<1>2. printed = <<>> /\ out = <<>> /\ pipe = <<>>
  BY DEF Init
<1>3. TypeOK
  <2>1. pipe \in Seq(Line) /\ out \in Seq(Line) /\ printed \in Seq(Line) /\ Len(out) = 0
    BY <1>1, <1>2, Zenon
  <2>2. /\ phase = "idle" /\ leader = "none" /\ code = 0 /\ children = {}
        /\ overflowed = FALSE /\ expired = FALSE /\ verdict = None
    BY DEF Init
  <2>3. /\ phase \in Phases /\ leader \in {"none", "alive", "exited"}
        /\ code \in {0, 1, 137} /\ children \in SUBSET Child
        /\ verdict \in IF phase = "returned" THEN Result ELSE {None}
    BY <2>2 DEF Phases
  <2>4. overflowed \in BOOLEAN /\ expired \in BOOLEAN
    BY <2>2
  <2>5. Len(out) <= Limit
    BY <2>1, HarnessAssumption
  <2> QED
    BY <2>1, <2>3, <2>4, <2>5, Zenon DEF TypeOK
<1>4. NothingLost
  <2>1. \A s \in Seq(Line) : s = s \o <<>>
    BY ConcatEmptySeq
  <2>2. <<>> = <<>> \o <<>>
    BY <1>1, <2>1, Zenon
  <2> QED
    BY <1>2, <2>2, Zenon DEF NothingLost
<1> QED
  BY <1>3, <1>4
     DEF Init, RunInv, Started, Killed, TakenAtTheEnd, GivingUpKillsTheGroup, Group

LEMMA RefuseKeeps == RunInv /\ Refuse => RunInv'
<1> SUFFICES ASSUME RunInv, Refuse PROVE RunInv'
  OBVIOUS
<1>1. PICK reason \in {"isolation_required", "harness_unavailable", "internal_error"} :
        verdict' = Failed(reason) /\ phase' = "returned"
  BY DEF Refuse, Return
<1>2. UNCHANGED <<leader, code, children, pipe, out, overflowed, expired, printed>>
  BY DEF Refuse
<1>3. /\ verdict' \in Result /\ verdict'.reply = None
      /\ verdict'.reason \notin {"timeout", "output_overflow"}
  <2>1. reason \in Reasons /\ reason \notin {"timeout", "output_overflow"}
    BY DEF Reasons
  <2> QED
    BY <1>1, <2>1, FailedIsResult
<1> QED
  BY <1>1, <1>2, <1>3
     DEF RunInv, TypeOK, Phases, NothingLost, Started, Killed, TakenAtTheEnd,
         GivingUpKillsTheGroup, Group

LEMMA StartKeeps == RunInv /\ Start => RunInv'
  BY DEF Start, RunInv, TypeOK, Phases, NothingLost, Started, Killed, TakenAtTheEnd,
         GivingUpKillsTheGroup, Group

LEMMA EmitKeeps ==
  ASSUME NEW line \in Line, RunInv, Emit(line)
  PROVE  RunInv'
<1>1. /\ pipe' = Append(pipe, line) /\ printed' = Append(printed, line)
      /\ UNCHANGED <<phase, leader, code, children, out, overflowed, expired, verdict>>
      /\ leader = "alive" \/ Writers # {}
  BY DEF Emit
<1>2. pipe \in Seq(Line) /\ out \in Seq(Line) /\ printed \in Seq(Line)
  BY DEF RunInv, TypeOK
<1>3. TypeOK'
  <2>1. pipe' \in Seq(Line) /\ printed' \in Seq(Line)
    BY <1>1, <1>2, AppendProperties
  <2> QED
    BY <1>1, <2>1 DEF RunInv, TypeOK
<1>4. NothingLost'
  <2> SUFFICES ASSUME printed = out \o pipe
               PROVE  Append(printed, line) = out \o Append(pipe, line)
    BY <1>1 DEF RunInv, NothingLost
  <2>1. <<line>> \in Seq(Line)
    OBVIOUS
  <2>2. Append(printed, line) = (out \o pipe) \o <<line>>
    BY <1>2, AppendIsConcat
  <2>3. Append(pipe, line) = pipe \o <<line>>
    BY <1>2, AppendIsConcat
  <2> QED
    BY <1>2, <2>1, <2>2, <2>3, ConcatAssociative
<1>5. ~ (phase = "returned" /\ verdict.reply # None)
  BY <1>1 DEF RunInv, TakenAtTheEnd
<1> QED
  BY <1>1, <1>3, <1>4, <1>5
     DEF RunInv, Started, Killed, TakenAtTheEnd, GivingUpKillsTheGroup, Group

LEMMA SpawnKeeps ==
  ASSUME NEW child \in Child, RunInv, Spawn(child)
  PROVE  RunInv'
<1>1. /\ leader = "alive" /\ children' = children \cup {child}
      /\ UNCHANGED <<phase, leader, code, pipe, out, overflowed, expired, printed, verdict>>
  BY DEF Spawn
<1> QED
  BY <1>1 DEF RunInv, TypeOK, NothingLost, Started, Killed, TakenAtTheEnd,
              GivingUpKillsTheGroup, Group

LEMMA ExitKeeps ==
  ASSUME NEW c \in {0, 1}, RunInv, Exit(c)
  PROVE  RunInv'
<1>1. /\ leader = "alive" /\ leader' = "exited" /\ code' = c
      /\ UNCHANGED <<phase, children, pipe, out, overflowed, expired, printed, verdict>>
  BY DEF Exit
<1> QED
  BY <1>1 DEF RunInv, TypeOK, NothingLost, Started, Killed, TakenAtTheEnd,
              GivingUpKillsTheGroup, Group

LEMMA ChildExitsKeeps ==
  ASSUME NEW child \in Child, RunInv, ChildExits(child)
  PROVE  RunInv'
<1>1. /\ children' = children \ {child}
      /\ UNCHANGED <<phase, leader, code, pipe, out, overflowed, expired, printed, verdict>>
  BY DEF ChildExits
<1>2. Writers' \subseteq Writers
  BY <1>1 DEF Writers
<1> QED
  BY <1>1, <1>2 DEF RunInv, TypeOK, NothingLost, Started, Killed, TakenAtTheEnd,
                    GivingUpKillsTheGroup, Group

\* A read of n lines moves them from the pipe into the buffer, or overflows it.
LEMMA WriteMoves ==
  ASSUME TypeOK, NEW n \in 1..Len(pipe), Write(n),
         pipe' = SubSeq(pipe, n + 1, Len(pipe))
  PROVE  /\ out' \in Seq(Line) /\ Len(out') <= Limit /\ pipe' \in Seq(Line)
         /\ overflowed' \in BOOLEAN /\ (overflowed => overflowed')
         /\ ~overflowed' => out' \o pipe' = out \o pipe
<1> DEFINE room == Limit - Len(out)
           k    == IF n > room THEN room ELSE n
<1>1. /\ pipe \in Seq(Line) /\ out \in Seq(Line) /\ Len(out) <= Limit
      /\ overflowed \in BOOLEAN
      /\ Len(pipe) \in Nat /\ Len(out) \in Nat /\ Limit \in Nat /\ n \in Nat
  <2>1. pipe \in Seq(Line) /\ out \in Seq(Line) /\ Len(out) <= Limit /\ overflowed \in BOOLEAN
    BY DEF TypeOK
  <2> QED
    BY <2>1, LenProperties, HarnessAssumption
<1>2. /\ out' = IF overflowed THEN out ELSE out \o SubSeq(pipe, 1, k)
      /\ overflowed' = (overflowed \/ n > room)
  BY DEF Write
<1>3. room \in Nat /\ k \in 0..Len(pipe) /\ k <= room
  BY <1>1
<1>4. SubSeq(pipe, 1, k) \in Seq(Line) /\ Len(SubSeq(pipe, 1, k)) = k
  <2>1. \A i \in 1..k : pipe[i] \in Line
    BY <1>1, <1>3, ElementOfSeq
  <2> HIDE DEF k
  <2>2. SubSeq(pipe, 1, k) \in Seq(Line)
    BY <1>3, <2>1, SubSeqProperties
  <2>3. Len(SubSeq(pipe, 1, k)) = IF 1 <= k THEN k - 1 + 1 ELSE 0
    BY <1>3, <2>1, SubSeqProperties
  <2> QED
    BY <1>3, <2>2, <2>3
<1>5. out' \in Seq(Line) /\ Len(out') <= Limit
  <2> HIDE DEF k
  <2>1. out \o SubSeq(pipe, 1, k) \in Seq(Line)
    BY <1>1, <1>4, ConcatProperties
  <2>2. Len(out \o SubSeq(pipe, 1, k)) = Len(out) + k
    BY <1>1, <1>4, ConcatProperties
  <2> QED
    BY <1>1, <1>2, <1>3, <2>1, <2>2
<1>6. pipe' \in Seq(Line)
  <2>1. \A i \in (n + 1)..Len(pipe) : pipe[i] \in Line
    BY <1>1, ElementOfSeq
  <2>2. n + 1 \in Int /\ Len(pipe) \in Int
    BY <1>1
  <2> QED
    BY <2>1, <2>2, SubSeqProperties
<1>7. ASSUME ~overflowed' PROVE out' \o pipe' = out \o pipe
  <2>1. out' = out \o SubSeq(pipe, 1, n)
    BY <1>1, <1>2, <1>7
  <2>2. SubSeq(pipe, 1, n) \o pipe' = SubSeq(pipe, 1, Len(pipe))
    <3>1. /\ 1 \in 1..Len(pipe) + 1 /\ n \in (1 - 1)..Len(pipe)
          /\ Len(pipe) \in n..Len(pipe)
      BY <1>1
    <3> QED
      BY <1>1, <3>1, ConcatAdjacentSubSeq
  <2>3. SubSeq(pipe, 1, Len(pipe)) = pipe
    BY <1>1, SubSeqFull
  <2>4. SubSeq(pipe, 1, n) \in Seq(Line)
    <3>1. \A i \in 1..n : pipe[i] \in Line
      BY <1>1, ElementOfSeq
    <3> QED
      BY <1>1, <3>1, SubSeqProperties
  <2>5. (out \o SubSeq(pipe, 1, n)) \o pipe' = out \o (SubSeq(pipe, 1, n) \o pipe')
    <3>1. \A s, t, u \in Seq(Line) : (s \o t) \o u = s \o (t \o u)
      BY ConcatAssociative
    <3> QED
      BY <1>1, <1>6, <2>4, <3>1, Zenon
  <2> QED
    BY <2>1, <2>2, <2>3, <2>5
<1> QED
  BY <1>1, <1>2, <1>5, <1>6, <1>7

\* A kill ends the leader and shrinks the group, and nothing else.
LEMMA KillGroupKills ==
  ASSUME TypeOK, KillGroup
  PROVE  /\ leader' \in {"none", "alive", "exited"} /\ code' \in {0, 1, 137}
         /\ children' \subseteq children
         /\ Group' = {}
         /\ leader # "none" => leader' = "exited"
         /\ leader = "exited" => code' = code
  BY DEF TypeOK, KillGroup, Group

LEMMA CopyKeeps == RunInv /\ Copy => RunInv'
<1> SUFFICES ASSUME RunInv, Copy PROVE RunInv'
  OBVIOUS
<1>1. PICK n \in 1..Len(pipe) : Write(n) /\ pipe' = SubSeq(pipe, n + 1, Len(pipe))
  BY DEF Copy
<1>2. UNCHANGED <<phase, expired, printed, verdict>>
  BY DEF Copy
<1>3. /\ out' \in Seq(Line) /\ Len(out') <= Limit /\ pipe' \in Seq(Line)
      /\ overflowed' \in BOOLEAN /\ (overflowed => overflowed')
      /\ ~overflowed' => out' \o pipe' = out \o pipe
  BY <1>1, WriteMoves DEF RunInv
<1>4. /\ leader' \in {"none", "alive", "exited"} /\ code' \in {0, 1, 137}
      /\ children' \subseteq children
      /\ leader # "none" => leader' # "none"
      /\ leader = "exited" => leader' = "exited"
  <2>1. CASE KillGroup
    BY <2>1, KillGroupKills DEF RunInv
  <2>2. CASE UNCHANGED <<leader, code, children>>
    BY <2>2 DEF RunInv, TypeOK
  <2> QED
    BY <1>1, <2>1, <2>2 DEF Write
<1>5. TypeOK'
  BY <1>2, <1>3, <1>4 DEF RunInv, TypeOK
<1>6. NothingLost'
  BY <1>2, <1>3 DEF RunInv, NothingLost
<1>7. ~ (phase = "returned" /\ verdict.reply # None)
  <2> SUFFICES ASSUME pipe = <<>> PROVE FALSE
    BY DEF RunInv, TakenAtTheEnd
  <2>1. Len(pipe) = 0
    BY EmptySeq
  <2> QED
    BY <1>1, <2>1
<1>8. Started' /\ Killed' /\ GivingUpKillsTheGroup'
  BY <1>2, <1>4 DEF RunInv, Started, Killed, GivingUpKillsTheGroup, Group
<1> QED
  BY <1>2, <1>5, <1>6, <1>7, <1>8 DEF RunInv, TakenAtTheEnd

LEMMA ExpireKeeps == RunInv /\ Expire => RunInv'
  BY DEF Expire, RunInv, TypeOK, NothingLost, Started, Killed, TakenAtTheEnd,
         GivingUpKillsTheGroup, Group

LEMMA FinishKeeps == RunInv /\ Finish => RunInv'
<1> SUFFICES ASSUME RunInv, Finish PROVE RunInv'
  OBVIOUS
<1>1. /\ phase = "waiting" /\ leader = "exited" /\ pipe = <<>> /\ Writers = {}
      /\ phase' = "returned"
      /\ UNCHANGED <<pipe, out, overflowed, expired, printed>>
  BY DEF Finish, WaitDone, Return, Holders, Writers
<1>2. out \in Seq(Line) /\ TypeOK
  BY DEF RunInv, TypeOK
<1>3. CASE overflowed
  <2>1. verdict' = Failed("output_overflow") /\ KillGroup
    BY <1>3 DEF Finish, Return
  <2>2. verdict' \in Result /\ verdict'.reply = None
    BY <2>1, FailedIsResult DEF Reasons
  <2>3. /\ leader' = "exited" /\ code' \in {0, 1, 137} /\ children' \subseteq children
        /\ Group' = {}
    BY <1>1, <1>2, <2>1, KillGroupKills
  <2> QED
    BY <1>1, <2>2, <2>3 DEF RunInv, TypeOK, Phases, NothingLost, Started, Killed,
                            TakenAtTheEnd, GivingUpKillsTheGroup, Group
<1>4. CASE ~overflowed
  <2>1. UNCHANGED <<leader, code, children>>
    BY <1>4 DEF Finish
  <2>2. /\ verdict' \in Result
        /\ verdict'.reason \notin {"timeout", "output_overflow"}
        /\ verdict'.reply # None => code = 0 /\ verdict' = Judge(out)
    <3>1. CASE code # 0
      <4>1. verdict' = Failed("nonzero_exit")
        BY <1>4, <3>1 DEF Finish, Return
      <4> QED
        BY <4>1, FailedIsResult DEF Reasons
    <3>2. CASE code = 0
      <4>1. verdict' = Judge(out)
        BY <1>4, <3>2 DEF Finish, Return
      <4> QED
        BY <1>2, <3>2, <4>1, OutputIsJudged
    <3> QED
      BY <3>1, <3>2
  <2>3. Writers' = Writers
    BY <2>1 DEF Writers
  <2>4. TakenAtTheEnd'
    BY <1>1, <1>4, <2>1, <2>2, <2>3 DEF TakenAtTheEnd
  <2> QED
    BY <1>1, <2>1, <2>2, <2>4 DEF RunInv, TypeOK, Phases, NothingLost, Started, Killed,
                                  GivingUpKillsTheGroup, Group
<1> QED
  BY <1>3, <1>4

LEMMA CancelKeeps == RunInv /\ Cancel => RunInv'
<1> SUFFICES ASSUME RunInv, Cancel PROVE RunInv'
  OBVIOUS
<1>1. /\ phase = "waiting" /\ phase' = "killing" /\ KillGroup
      /\ UNCHANGED <<pipe, out, overflowed, expired, printed, verdict>>
  BY DEF Cancel
<1>2. /\ leader' = "exited" /\ code' \in {0, 1, 137} /\ children' \subseteq children
      /\ Group' = {}
  BY <1>1, KillGroupKills DEF RunInv, Started
<1> QED
  BY <1>1, <1>2 DEF RunInv, TypeOK, Phases, NothingLost, Started, Killed, TakenAtTheEnd,
                    GivingUpKillsTheGroup, Group

LEMMA FinishKilledKeeps == RunInv /\ FinishKilled => RunInv'
<1> SUFFICES ASSUME RunInv, FinishKilled PROVE RunInv'
  OBVIOUS
<1>1. /\ phase = "killing" /\ phase' = "returned"
      /\ verdict' = Failed(IF overflowed THEN "output_overflow" ELSE "timeout")
      /\ UNCHANGED <<leader, code, children, pipe, out, overflowed, expired, printed>>
  BY DEF FinishKilled, Return
<1>2. verdict' \in Result /\ verdict'.reply = None
  <2>1. (IF overflowed THEN "output_overflow" ELSE "timeout") \in Reasons
    BY DEF Reasons
  <2> QED
    BY <1>1, <2>1, FailedIsResult
<1> QED
  BY <1>1, <1>2 DEF RunInv, TypeOK, Phases, NothingLost, Started, Killed, TakenAtTheEnd,
                    GivingUpKillsTheGroup, Group

LEMMA NextRunInv == RunInv /\ [Next]_vars => RunInv'
<1> SUFFICES ASSUME RunInv, [Next]_vars PROVE RunInv'
  OBVIOUS
<1>1. CASE HarnessSteps
  BY <1>1, EmitKeeps, SpawnKeeps, ExitKeeps, ChildExitsKeeps DEF HarnessSteps
<1>2. CASE UNCHANGED vars
  BY <1>2 DEF vars, RunInv, TypeOK, NothingLost, Started, Killed, TakenAtTheEnd,
              GivingUpKillsTheGroup, Group, Writers
<1> QED
  BY <1>1, <1>2, RefuseKeeps, StartKeeps, CopyKeeps, ExpireKeeps, FinishKeeps,
     CancelKeeps, FinishKilledKeeps DEF Next

\* The inductive invariant of one execution of a harness.
THEOREM RunInvariance == Spec => []RunInv
  BY InitRunInv, NextRunInv, PTL DEF Spec

\* Run's answer is worth something (Run, capWriter.Write, killGroup,
\* extractProtocol, tryDecode): a draft or a question is the whole output of a
\* process that ended well, nothing in it takes it back, and nothing around it
\* says readably that it is an error; and when Run gave up, the group is gone.
THEOREM AnswersAreEarned == Spec => []AnswerIsEarned
<1>1. RunInv => AnswerIsEarned
  <2> SUFFICES ASSUME RunInv PROVE AnswerIsEarned
    OBVIOUS
  <2>1. ASSUME phase = "returned", verdict.reply # None
        PROVE  /\ code = 0 /\ out = printed /\ out \in Seq(Line) /\ verdict = Judge(out)
    <3>1. printed = out \o <<>> /\ out \in Seq(Line) /\ code = 0 /\ verdict = Judge(out)
      BY <2>1 DEF RunInv, TypeOK, NothingLost, TakenAtTheEnd
    <3> QED
      BY <3>1, ConcatEmptySeq
  <2>2. TakenIsWhole /\ FailureInStreamWins /\ TakenIsVouchedFor
    BY <2>1, OutputIsJudged DEF TakenIsWhole, FailureInStreamWins, TakenIsVouchedFor
  <2> QED
    BY <2>2 DEF RunInv, AnswerIsEarned
<1> QED
  BY <1>1, RunInvariance, PTL
=============================================================================
