----------------------------- MODULE PipeProofs -----------------------------
(***************************************************************************)
(* Pipes, the file table and descriptors of module Pipe, for any number of *)
(* processes, pipes, files and descriptors, any size of a pipe and any     *)
(* width of its counters.                                                  *)
(***************************************************************************)
EXTENDS Pipe, FiniteSetTheorems, SequenceTheorems, TLAPS

-----------------------------------------------------------------------------
(* The inductive invariant.                                                *)

\* In the calls of write() and read(); with pi->lock held between two steps.
Writing == {"write", "w_sleep", "w_asleep"}
Reading == {"read", "r_sleep", "r_asleep", "copy"}
Locking == {"w_sleep", "r_sleep", "copy"}

\* The files a process is about to put into descriptors or to close are two
\* different ones at most, and none while it is in a pipe.
Hand(p)  == Range(new[p] \o closing[p])
Quiet(p) == closing[p] = <<>> /\ ff[p].pipe = None
Singles  == {<<f>> : f \in Files}
Pairs    == {s \in Files \X Files : s[1] # s[2]}

HandAt(p) ==
  /\ IF pc[p] = "pipe_fds" THEN new[p] \in Pairs ELSE new[p] = <<>>
  /\ closing[p] \in {<<>>} \cup Singles \cup Pairs
  /\ pc[p] \notin {"user", "exit"} => Quiet(p)
  /\ p \notin alive => pc[p] = "user" /\ ofile[p] = NoFiles /\ Quiet(p)

HandInv == \A p \in Procs : HandAt(p)

\* The references to a file: descriptors, and processes that have it at hand.
RefsOf(of, f) == {x \in Procs \X Fds : of[x[1]][x[2]] = f}
Refs(f)       == RefsOf(ofile, f)
Hands(f)      == {p \in Procs : f \in Hand(p)}

FileInv ==
  \A f \in Files : /\ file[f].ref = Cardinality(Refs(f)) + Cardinality(Hands(f))
                   /\ file[f].ref > 0 <=> file[f].pipe # None

\* A process that reads or writes has a descriptor for that end of the pipe.
CallAt(p) ==
  IF pc[p] \in Writing \cup Reading
  THEN /\ pi[p] \in Pages
       /\ \E d \in Fds : /\ ofile[p][d] \in Files /\ file[ofile[p][d]].pipe = pi[p]
                         /\ file[ofile[p][d]].writable = (pc[p] \in Writing)
  ELSE pi[p] = None /\ i[p] = 0

CallInv == \A p \in Procs : CallAt(p)

\* An end of a pipe that is open has one file, or one close() on its way; a pipe
\* without ends is a free page.
Carries(x, c, w) == x.pipe = c /\ x.writable = w

OneEnd(c, w) ==
  /\ \A f, g \in Files : Carries(file[f], c, w) /\ Carries(file[g], c, w) => f = g
  /\ \A p, q \in Procs : Carries(ff[p], c, w) /\ Carries(ff[q], c, w) => p = q
  /\ \A f \in Files, p \in Procs : ~(Carries(file[f], c, w) /\ Carries(ff[p], c, w))

EndInv ==
  \A c \in Pages :
    /\ pipe[c].readopen <=> EndOpen(c, FALSE)
    /\ pipe[c].writeopen <=> EndOpen(c, TRUE)
    /\ pipe[c].live <=> pipe[c].readopen \/ pipe[c].writeopen
    /\ ~pipe[c].live => pipe[c] = FreePipe
    /\ \A w \in BOOLEAN : OneEnd(c, w)

\* Who holds pi->lock between two steps; a writer has written a byte by then.
LockInv ==
  \A p \in Procs :
    /\ \A c \in Pages : pipe[c].lock = p =>
         pi[p] = c /\ (pc[p] \in Locking \/ (pc[p] = "write" /\ i[p] > 0))
    /\ pc[p] \in Locking => pipe[pi[p]].lock = p

\* Why a process sleeps: as long as the lock is free the condition it waits for does
\* not hold, and when it holds, the process that made it so has the lock, and is
\* at a point from which it comes to the wakeup.
Busy(c, point) == \E p \in Procs : pipe[c].lock = p /\ pc[p] = point

SleepAt(p, c) ==
  /\ pc[p] = "r_sleep" => pipe[c].writeopen /\ Empty(c)
  /\ pc[p] = "w_sleep" => pipe[c].readopen /\ Full(c)
  /\ pc[p] = "r_asleep" => pipe[c].writeopen /\ (Empty(c) \/ c \in cut \/ Busy(c, "write"))
  /\ pc[p] = "w_asleep" => pipe[c].readopen /\ (Full(c) \/ Busy(c, "copy"))

SleepInv == \A p \in Procs, c \in Pages : pi[p] = c => SleepAt(p, c)

\* A pipe holds no more than PIPESIZE bytes, wherever its counters are.
Length(c) == (pipe[c].nwrite - pipe[c].nread) % Counters
RingInv   == \A c \in Pages : Length(c) <= PIPESIZE

DescInv == TypeOK /\ HandInv /\ FileInv /\ CallInv
IInv    == DescInv /\ EndInv /\ LockInv /\ SleepInv /\ RingInv

-----------------------------------------------------------------------------
(* Facts about numbers, finite sets and short sequences.                   *)

\* The constants as the proofs use them.
LEMMA Constants ==
  /\ NFILE \in Nat \ {0} /\ NOFILE \in Nat \ {0} /\ PIPESIZE \in Nat \ {0} /\ Count \in Nat
  /\ Counters \in Nat \ {0} /\ Counters % PIPESIZE = 0 /\ PIPESIZE < Counters
  /\ Files = 1..NFILE /\ Fds = 1..NOFILE /\ IsFiniteSet(Procs) /\ IsFiniteSet(Fds)
  /\ IsFiniteSet(Files) /\ IsFiniteSet(Procs \X Fds)
  /\ None \notin Procs /\ None \notin Pages /\ None \notin Files /\ 0 \in Byte
<1>1. IsFiniteSet(1..NOFILE) /\ IsFiniteSet(1..NFILE)
  BY PipeAssumption, FS_Interval
<1>2. IsFiniteSet(Procs \X Fds)
  BY <1>1, PipeAssumption, FS_Product DEF Fds
<1>3. QED
  BY <1>1, <1>2, PipeAssumption DEF Fds, Files

\* A finite set of natural numbers that is not empty has a least element: Min() is in it.
LEMMA LeastElement ==
  ASSUME NEW T \in SUBSET Nat, IsFiniteSet(T), T # {}
  PROVE  Min(T) \in T
<1> DEFINE W == {U \in SUBSET T : \E x \in T : \A y \in T : y \in U <=> y <= x}
           R == StrictSubsetOrdering(T)
<1>1. IsWellFoundedOn(R, FiniteSubsetsOf(T)) /\ FiniteSubsetsOf(T) = SUBSET T
  BY FS_StrictSubsetOrderingWellFounded, FS_FiniteSubsetsOfFinite
<1>2. W \subseteq FiniteSubsetsOf(T) /\ \A x \in T : {y \in T : y <= x} \in W
  BY <1>1
<1>3. \E X \in W : \A Y \in W : ~ (<<Y, X>> \in R)
  <2>1. W # {}
    BY <1>2
  <2> HIDE DEF W, R
  <2>2. QED
    BY <1>1, <1>2, <2>1, WFMin
<1>4. PICK X \in W : \A Y \in W : <<Y, X>> \notin R
  BY <1>3
<1>5. PICK x \in T : \A y \in T : y \in X <=> y <= x
  BY <1>4
<1>6. ASSUME NEW z \in T, z < x
      PROVE  FALSE
  <2> DEFINE Z == {y \in T : y <= z}
  <2>1. \A y \in T : y \in Nat
    OBVIOUS
  <2>2. \A y \in Z : y \in X
    BY <1>5, <1>6, <2>1
  <2>3. x \in X /\ x \notin Z
    BY <1>5, <1>6, <2>1
  <2>4. Z \in SUBSET T /\ X \in SUBSET T
    OBVIOUS
  <2>5. <<Z, X>> \in R
    BY <2>2, <2>3, <2>4 DEF StrictSubsetOrdering
  <2>6. QED
    BY <1>2, <1>4, <2>5
<1>7. \A y \in T : x <= y
  <2>1. \A y \in T : y \in Nat
    OBVIOUS
  <2>2. QED
    BY <1>6, <2>1
<1>8. QED
  BY <1>7 DEF Min

\* The least descriptor or file of a set, as fdalloc() and filealloc() find it.
LEMMA First ==
  /\ \A T \in SUBSET Fds : T # {} => Min(T) \in T
  /\ \A T \in SUBSET Files : T # {} => Min(T) \in T
<1>1. ASSUME NEW U, U = Fds \/ U = Files, NEW T \in SUBSET U, T # {}
      PROVE  Min(T) \in T
  <2>1. T \in SUBSET Nat /\ IsFiniteSet(T)
    BY <1>1, Constants, FS_Subset
  <2>2. QED
    BY <1>1, <2>1, LeastElement
<1>2. QED
  BY <1>1

\* What a process with no, one or two files has at hand.
LEMMA Hold ==
  ASSUME NEW f \in Files, NEW g \in Files
  PROVE  /\ Range(<<>> \o <<>>) = {}
         /\ Range(<<f>> \o <<>>) = {f} /\ Range(<<>> \o <<f>>) = {f}
         /\ Range(<<f, g>> \o <<>>) = {f, g} /\ Range(<<>> \o <<f, g>>) = {f, g}
         /\ Head(<<f>>) = f /\ Tail(<<f>>) = <<>>
         /\ Head(<<f, g>>) = f /\ Tail(<<f, g>>) = <<g>>
<1>1. /\ <<>> \o <<>> = <<>> /\ <<f>> \o <<>> = <<f>> /\ <<>> \o <<f>> = <<f>>
      /\ <<f, g>> \o <<>> = <<f, g>> /\ <<>> \o <<f, g>> = <<f, g>>
  OBVIOUS
<1>2. Range(<<>>) = {} /\ Range(<<f>>) = {f} /\ Range(<<f, g>>) = {f, g}
  BY DEF Range
<1>3. /\ Head(<<f>>) = f /\ Tail(<<f>>) = <<>>
      /\ Head(<<f, g>>) = f /\ Tail(<<f, g>>) = <<g>>
  OBVIOUS
<1>4. QED
  BY <1>1, <1>2, <1>3

-----------------------------------------------------------------------------
(* Counting references.                                                    *)

Same(x, y) == IF x = y THEN 1 ELSE 0
Has(S, f)  == IF f \in S THEN 1 ELSE 0

OfileType == [Procs -> [Fds -> Files \cup {None}]]

\* One descriptor changes.
Changed(of, of2, p, d, v) ==
  /\ of2[p][d] = v
  /\ \A q \in Procs, e \in Fds : q # p \/ e # d => of2[q][e] = of[q][e]

LEMMA ChangeOne ==
  ASSUME NEW of \in OfileType, NEW p \in Procs, NEW d \in Fds, NEW v \in Files \cup {None}
  PROVE  /\ [of EXCEPT ![p] = [of[p] EXCEPT ![d] = v]] \in OfileType
         /\ Changed(of, [of EXCEPT ![p] = [of[p] EXCEPT ![d] = v]], p, d, v)
BY DEF OfileType, Changed

LEMMA Descriptor ==
  ASSUME NEW of, NEW of2, NEW p \in Procs, NEW d \in Fds, NEW v,
         NEW f \in Files, Changed(of, of2, p, d, v)
  PROVE  /\ Cardinality(RefsOf(of, f)) \in Nat /\ Cardinality(RefsOf(of2, f)) \in Nat
         /\ Cardinality(RefsOf(of2, f)) + Same(of[p][d], f)
              = Cardinality(RefsOf(of, f)) + Same(v, f)
<1> DEFINE x == <<p, d>>
           S == {y \in Procs \X Fds : of[y[1]][y[2]] = f /\ y # x}
<1>1. x \in Procs \X Fds /\ x \notin S /\ IsFiniteSet(S) /\ IsFiniteSet(S \cup {x})
  BY Constants, FS_Subset, FS_AddElement
<1>2. /\ Cardinality(S) \in Nat /\ Cardinality(S \cup {x}) = Cardinality(S) + 1
  BY <1>1, FS_CardinalityType, FS_AddElement
<1>4. \A y \in Procs \X Fds : of2[y[1]][y[2]] = IF y = x THEN v ELSE of[y[1]][y[2]]
  <2>1. ASSUME NEW q \in Procs, NEW e \in Fds
        PROVE  of2[q][e] = IF q = p /\ e = d THEN v ELSE of[q][e]
    BY DEF Changed
  <2>2. QED
    BY <2>1
<1>5. RefsOf(of, f) = IF of[p][d] = f THEN S \cup {x} ELSE S
  BY <1>1 DEF RefsOf
<1>6. RefsOf(of2, f) = IF v = f THEN S \cup {x} ELSE S
  BY <1>1, <1>4 DEF RefsOf
<1> HIDE DEF S, x
<1>7. QED
  BY <1>2, <1>5, <1>6 DEF Same

\* The references can be counted; a file that has none is in no descriptor.
LEMMA Counted ==
  ASSUME TypeOK, NEW f \in Files
  PROVE  /\ Cardinality(Refs(f)) \in Nat /\ Cardinality(Hands(f)) \in Nat
         /\ Cardinality(Refs(f)) = 0 <=> \A p \in Procs, d \in Fds : ofile[p][d] # f
         /\ Cardinality(Hands(f)) = 0 <=> \A p \in Procs : f \notin Hand(p)
<1>1. IsFiniteSet(Refs(f)) /\ IsFiniteSet(Hands(f))
  BY Constants, FS_Subset DEF Refs, RefsOf, Hands
<1>2. Cardinality(Refs(f)) = 0 <=> Refs(f) = {}
  BY <1>1, FS_EmptySet
<1>3. Cardinality(Hands(f)) = 0 <=> Hands(f) = {}
  BY <1>1, FS_EmptySet
<1>4. Refs(f) = {} <=> \A p \in Procs, d \in Fds : ofile[p][d] # f
  <2>1. \A p \in Procs, d \in Fds : <<p, d>> \in Refs(f) <=> ofile[p][d] = f
    BY DEF Refs, RefsOf
  <2>2. \A x \in Refs(f) : \E p \in Procs, d \in Fds : x = <<p, d>>
    BY DEF Refs, RefsOf
  <2>3. CASE Refs(f) = {}
    BY <2>1, <2>3
  <2>4. CASE Refs(f) # {}
    <3>1. PICK x \in Refs(f) : TRUE
      BY <2>4
    <3>2. PICK p \in Procs, d \in Fds : x = <<p, d>>
      BY <2>2
    <3>3. QED
      BY <2>1, <2>4, <3>1, <3>2
  <2>5. QED
    BY <2>3, <2>4
<1>5. Hands(f) = {} <=> \A p \in Procs : f \notin Hand(p)
  BY DEF Hands
<1>6. Cardinality(Refs(f)) \in Nat /\ Cardinality(Hands(f)) \in Nat
  BY <1>1, FS_CardinalityType
<1>7. QED
  BY <1>2, <1>3, <1>4, <1>5, <1>6

\* What one process has at hand changes.
LEMMA HandChange ==
  ASSUME NEW p \in Procs, NEW f \in Files,
         \A q \in Procs \ {p} : Hand(q)' = Hand(q)
  PROVE  /\ Cardinality(Hands(f)) \in Nat /\ Cardinality(Hands(f)') \in Nat
         /\ Cardinality(Hands(f)') + Has(Hand(p), f)
              = Cardinality(Hands(f)) + Has(Hand(p)', f)
<1> DEFINE S == Hands(f) \ {p}
<1>1. p \notin S /\ IsFiniteSet(S) /\ IsFiniteSet(S \cup {p})
  BY Constants, FS_Subset, FS_AddElement DEF Hands
<1>2. Cardinality(S) \in Nat /\ Cardinality(S \cup {p}) = Cardinality(S) + 1
  BY <1>1, FS_CardinalityType, FS_AddElement
<1>3. Hands(f) = IF f \in Hand(p) THEN S \cup {p} ELSE S
  BY DEF Hands
<1>4. Hands(f)' = IF f \in Hand(p)' THEN S \cup {p} ELSE S
  BY DEF Hands
<1> HIDE DEF S
<1>5. QED
  BY <1>2, <1>3, <1>4 DEF Same, Has

\* What a process has at hand, from HandAt().
LEMMA NothingAtHand ==
  ASSUME NEW p \in Procs, HandAt(p), pc[p] # "pipe_fds", closing[p] = <<>>
  PROVE  Hand(p) = {}
<1>1. 1 \in Files /\ new[p] = <<>>
  BY Constants DEF HandAt
<1>2. QED
  BY <1>1, Hold DEF Hand

LEMMA NewAtHand ==
  ASSUME NEW p \in Procs, HandAt(p), pc[p] = "pipe_fds"
  PROVE  /\ closing[p] = <<>> /\ Hand(p) = {new[p][1], new[p][2]}
         /\ new[p] \in Pairs /\ new[p][1] \in Files /\ new[p][2] \in Files /\ new[p][1] # new[p][2]
<1>1. PICK f \in Files, g \in Files : new[p] = <<f, g>> /\ f # g
  BY DEF HandAt, Pairs
<1>2. closing[p] = <<>>
  BY DEF HandAt, Quiet
<1>3. new[p][1] = f /\ new[p][2] = g /\ new[p] \in Pairs
  BY <1>1 DEF Pairs
<1>4. Hand(p) = {f, g}
  BY <1>1, <1>2, Hold DEF Hand
<1>5. QED
  BY <1>1, <1>2, <1>3, <1>4

LEMMA ClosingAtHand ==
  ASSUME NEW p \in Procs, HandAt(p), closing[p] # <<>>
  PROVE  /\ new[p] = <<>> /\ Head(closing[p]) \in Files /\ Tail(closing[p]) \in {<<>>} \cup Singles
         /\ Hand(p) = {Head(closing[p])} \cup Range(<<>> \o Tail(closing[p]))
         /\ Head(closing[p]) \notin Range(<<>> \o Tail(closing[p]))
<1>1. new[p] = <<>> /\ pc[p] # "pipe_fds"
  BY DEF HandAt, Quiet
<1>2. CASE closing[p] \in Singles
  <2>1. PICK f \in Files : closing[p] = <<f>>
    BY <1>2 DEF Singles
  <2>2. Head(closing[p]) = f /\ Tail(closing[p]) = <<>> /\ Hand(p) = {f} /\ Range(<<>> \o <<>>) = {}
    BY <1>1, <2>1, Hold DEF Hand
  <2>3. QED
    BY <1>1, <2>2
<1>3. CASE closing[p] \in Pairs
  <2>1. PICK f \in Files, g \in Files : closing[p] = <<f, g>> /\ f # g
    BY <1>3 DEF Pairs
  <2>2. /\ Head(closing[p]) = f /\ Tail(closing[p]) = <<g>> /\ Hand(p) = {f, g}
        /\ Range(<<>> \o <<g>>) = {g}
    BY <1>1, <2>1, Hold DEF Hand
  <2>3. <<g>> \in Singles
    BY DEF Singles
  <2>4. QED
    BY <1>1, <2>1, <2>2, <2>3
<1>4. QED
  BY <1>2, <1>3 DEF HandAt

-----------------------------------------------------------------------------
(* What a step leaves alone.                                               *)

FileType == [ref : Nat, pipe : Pages \cup {None}, writable : BOOLEAN]

\* A wakeup of another process changes no more than this.
Stays(q) ==
  \/ pc'[q] = pc[q]
  \/ pc[q] = "r_asleep" /\ pc'[q] = "read"
  \/ pc[q] = "w_asleep" /\ pc'[q] = "write"

LEMMA OthersHand ==
  ASSUME NEW p \in Procs, HandInv, HandAt(p)',
         \A q \in Procs \ {p} :
           /\ new'[q] = new[q] /\ closing'[q] = closing[q] /\ ofile'[q] = ofile[q]
           /\ ff'[q] = ff[q] /\ Stays(q) /\ (q \in alive' <=> q \in alive)
  PROVE  HandInv'
<1>1. ASSUME NEW q \in Procs \ {p}
      PROVE  HandAt(q)'
  BY DEF HandInv, HandAt, Quiet, Stays
<1>2. QED
  BY <1>1 DEF HandInv

\* The files of a process keep their pipes.
Kept(q) ==
  \A d \in Fds : ofile[q][d] \in Files =>
    /\ file'[ofile[q][d]].pipe = file[ofile[q][d]].pipe
    /\ file'[ofile[q][d]].writable = file[ofile[q][d]].writable

LEMMA SameCall ==
  ASSUME NEW q \in Procs, CallAt(q), Kept(q), Stays(q), ofile'[q] = ofile[q], pi'[q] = pi[q], i'[q] = i[q]
  PROVE  CallAt(q)'
BY DEF CallAt, Kept, Stays, Writing, Reading

LEMMA OthersCall ==
  ASSUME NEW p \in Procs, CallInv, CallAt(p)',
         \A q \in Procs \ {p} :
           Kept(q) /\ Stays(q) /\ ofile'[q] = ofile[q] /\ pi'[q] = pi[q] /\ i'[q] = i[q]
  PROVE  CallInv'
BY SameCall DEF CallInv

LEMMA SameFiles ==
  ASSUME FileInv, UNCHANGED <<file, ofile, new, closing>>
  PROVE  FileInv' /\ \A q \in Procs : Kept(q)
<1>1. \A f \in Files : Refs(f)' = Refs(f) /\ Hands(f)' = Hands(f)
  BY DEF Refs, RefsOf, Hands, Hand
<1>2. QED
  BY <1>1 DEF FileInv, Kept

\* The invariant of one file.
LEMMA FileCount ==
  ASSUME DescInv, NEW f \in Files
  PROVE  /\ file[f].ref = Cardinality(Refs(f)) + Cardinality(Hands(f))
         /\ file[f].ref > 0 <=> file[f].pipe # None
         /\ Cardinality(Refs(f)) \in Nat /\ Cardinality(Hands(f)) \in Nat
         /\ file[f].ref \in Nat /\ file[f].pipe \in Pages \cup {None} /\ file[f].writable \in BOOLEAN
<1>1. FileInv /\ TypeOK
  BY DEF DescInv
<1>2. file[f].ref = Cardinality(Refs(f)) + Cardinality(Hands(f))
  BY <1>1 DEF FileInv
<1>3. file[f].ref > 0 <=> file[f].pipe # None
  BY <1>1 DEF FileInv
<1>4. file[f].ref \in Nat /\ file[f].pipe \in Pages \cup {None} /\ file[f].writable \in BOOLEAN
  BY <1>1 DEF TypeOK
<1>5. QED
  BY <1>1, <1>2, <1>3, <1>4, Counted

\* A file in a descriptor is open.
LEMMA HeldFile ==
  ASSUME DescInv, NEW p \in Procs, NEW d \in Fds, ofile[p][d] # None
  PROVE  ofile[p][d] \in Files /\ file[ofile[p][d]].ref > 0 /\ file[ofile[p][d]].pipe \in Pages
<1>1. PICK f \in Files : f = ofile[p][d]
  BY DEF DescInv, TypeOK
<1>2. Cardinality(Refs(f)) # 0 /\ Cardinality(Refs(f)) \in Nat /\ Cardinality(Hands(f)) \in Nat
  BY <1>1, Counted DEF DescInv
<1>3. file[f].ref = Cardinality(Refs(f)) + Cardinality(Hands(f)) /\ (file[f].ref > 0 <=> file[f].pipe # None)
  BY FileCount
<1>4. file[f].ref > 0
  BY <1>2, <1>3
<1>5. file[f].pipe \in Pages \cup {None}
  BY DEF DescInv, TypeOK
<1>6. QED
  BY <1>1, <1>3, <1>4, <1>5

-----------------------------------------------------------------------------
(* Files and descriptors: the steps that change them.                      *)

\* pipealloc() finds two free files, and sets them up as the ends of a free page.
LEMMA TwoFiles ==
  ASSUME TypeOK, NEW p \in Procs, pipealloc(p)
  PROVE  \E f \in Files, g \in Files, c \in Pages :
           /\ f # g /\ file[f].ref = 0 /\ file[g].ref = 0 /\ ~pipe[c].live
           /\ file' = [file EXCEPT ![f] = [ref |-> 1, pipe |-> c, writable |-> FALSE],
                                   ![g] = [ref |-> 1, pipe |-> c, writable |-> TRUE]]
           /\ pipe' = [pipe EXCEPT ![c] = EmptyPipe(TRUE)]
           /\ new' = [new EXCEPT ![p] = <<f, g>>] /\ cut' = cut \ {c}
<1> DEFINE T == {f \in Files : file[f].ref = 0}
           f0 == filealloc(file)
           tab == [file EXCEPT ![f0].ref = 1]
           U == {f \in Files : tab[f].ref = 0}
           f1 == filealloc(tab)
<1>1. file \in [Files -> FileType]
  BY DEF TypeOK, FileType
<1>2. T \in SUBSET Files /\ IsFiniteSet(T) /\ Cardinality(T) >= 2
  BY Constants, FS_Subset DEF pipealloc
<1>3. T # {}
  BY <1>2, FS_EmptySet
<1>4. f0 \in T
  BY <1>2, <1>3, First DEF filealloc
<1>5. f0 \in Files /\ file[f0].ref = 0
  BY <1>4
<1>6. U = T \ {f0}
  <2> HIDE DEF f0
  <2>1. ASSUME NEW f \in Files
        PROVE  tab[f].ref = IF f = f0 THEN 1 ELSE file[f].ref
    BY <1>1, <1>5 DEF FileType
  <2>2. QED
    BY <2>1
<1>7. Cardinality(T \ {f0}) = Cardinality(T) - 1
  BY <1>2, <1>4, FS_RemoveElement
<1>8. Cardinality(T) \in Nat
  BY <1>2, FS_CardinalityType
<1>9. U # {} /\ U \in SUBSET Files
  <2> HIDE DEF T, f0, U
  <2>1. Cardinality(U) # 0
    BY <1>2, <1>6, <1>7, <1>8
  <2>2. U # {}
    BY <2>1, FS_EmptySet
  <2>3. QED
    BY <1>2, <1>6, <2>2
<1>10. f1 \in U
  <2> HIDE DEF tab
  <2>1. QED
    BY <1>9, First DEF filealloc
<1>11. f1 \in Files /\ file[f1].ref = 0 /\ f0 # f1
  <2>1. f1 \in T \ {f0}
    BY <1>6, <1>10
  <2> HIDE DEF f0, f1
  <2>2. QED
    BY <2>1
<1>12. /\ new' = [new EXCEPT ![p] = <<f0, f1>>]
       /\ \E c \in Pages :
            /\ ~pipe[c].live
            /\ pipe' = [pipe EXCEPT ![c] = EmptyPipe(TRUE)]
            /\ cut' = cut \ {c}
            /\ file' = [file EXCEPT ![f0] = [ref |-> 1, pipe |-> c, writable |-> FALSE],
                                    ![f1] = [ref |-> 1, pipe |-> c, writable |-> TRUE]]
  BY DEF pipealloc
<1> HIDE DEF f0, f1
<1>13. QED
  BY <1>5, <1>11, <1>12

\* A new pipe has all fields of the right kind.
PipeType == [live : BOOLEAN, data : [0..PIPESIZE - 1 -> Byte], nread : 0..Counters - 1,
             nwrite : 0..Counters - 1, readopen : BOOLEAN, writeopen : BOOLEAN,
             lock : Procs \cup {None}]

LEMMA EmptyType ==
  ASSUME NEW open \in BOOLEAN
  PROVE  /\ EmptyPipe(open) \in PipeType
         /\ EmptyPipe(open).live = open /\ EmptyPipe(open).lock = None
         /\ EmptyPipe(open).readopen = open /\ EmptyPipe(open).writeopen = open
         /\ EmptyPipe(open).nread = 0 /\ EmptyPipe(open).nwrite = 0
<1> DEFINE Zeros == [k \in 0..PIPESIZE - 1 |-> 0]
<1>1. Zeros \in [0..PIPESIZE - 1 -> Byte]
  BY Constants
<1>2. EmptyPipe(open) = [live |-> open, data |-> Zeros, nread |-> 0, nwrite |-> 0,
                         readopen |-> open, writeopen |-> open, lock |-> None]
  BY DEF EmptyPipe
<1> HIDE DEF Zeros
<1>3. QED
  BY <1>1, <1>2, Constants DEF PipeType

LEMMA AllocDesc ==
  ASSUME DescInv, NEW p \in Procs, pipealloc(p)
  PROVE  DescInv'
<1>1. PICK f \in Files, g \in Files, c \in Pages :
        /\ f # g /\ file[f].ref = 0 /\ file[g].ref = 0 /\ ~pipe[c].live
        /\ file' = [file EXCEPT ![f] = [ref |-> 1, pipe |-> c, writable |-> FALSE],
                                ![g] = [ref |-> 1, pipe |-> c, writable |-> TRUE]]
        /\ pipe' = [pipe EXCEPT ![c] = EmptyPipe(TRUE)]
        /\ new' = [new EXCEPT ![p] = <<f, g>>] /\ cut' = cut \ {c}
  BY TwoFiles DEF DescInv
<1>2. /\ p \in alive /\ pc[p] = "user" /\ Quiet(p)
      /\ pc' = [pc EXCEPT ![p] = "pipe_fds"]
      /\ UNCHANGED <<alive, killed, pi, i, ofile, closing, ff>>
  BY DEF pipealloc, User, At, Goto, Quiet
<1>3. /\ new' \in [Procs -> Seq(Files)] /\ pc' \in [Procs -> Points]
      /\ file' \in [Files -> FileType]
  <2>1. <<f, g>> \in Seq(Files)
    OBVIOUS
  <2>2. [ref |-> 1, pipe |-> c, writable |-> FALSE] \in FileType /\ [ref |-> 1, pipe |-> c, writable |-> TRUE] \in FileType
    BY DEF FileType
  <2>3. file \in [Files -> FileType]
    BY DEF DescInv, TypeOK, FileType
  <2>4. QED
    BY <1>1, <1>2, <2>1, <2>2, <2>3 DEF DescInv, TypeOK, Points
<1>4. TypeOK'
  <2>1. pipe \in [Pages -> PipeType]
    BY DEF DescInv, TypeOK, PipeType
  <2>2. pipe' \in [Pages -> PipeType]
    BY <1>1, <2>1, EmptyType
  <2>3. cut' \subseteq Pages
    BY <1>1 DEF DescInv, TypeOK
  <2>4. QED
    BY <1>2, <1>3, <2>2, <2>3 DEF DescInv, TypeOK, FileType, PipeType
<1>5. new'[p] = <<f, g>> /\ pc'[p] = "pipe_fds" /\ \A q \in Procs \ {p} : new'[q] = new[q] /\ pc'[q] = pc[q]
  BY <1>1, <1>2 DEF DescInv, TypeOK
<1>6. HandInv'
  <2>1. <<f, g>> \in Pairs
    BY <1>1 DEF Pairs
  <2>2. HandAt(p)'
    BY <1>2, <1>5, <2>1 DEF HandAt, Quiet
  <2>3. QED
    BY <1>2, <1>5, <2>2, OthersHand DEF DescInv, Stays
<1>7. Hand(p) = {} /\ Hand(p)' = {f, g} /\ \A q \in Procs \ {p} : Hand(q)' = Hand(q)
  <2>1. Hand(p) = {}
    BY <1>2, NothingAtHand DEF DescInv, HandInv, Quiet
  <2>2. closing'[p] = <<>>
    BY <1>2 DEF Quiet
  <2>3. Hand(p)' = {f, g}
    BY <1>5, <2>2, Hold DEF Hand
  <2>4. QED
    BY <1>2, <1>5, <2>1, <2>3 DEF Hand
<1>8. FileInv'
  <2>1. ASSUME NEW h \in Files
        PROVE  /\ file'[h].ref = Cardinality(Refs(h)') + Cardinality(Hands(h)')
               /\ file'[h].ref > 0 <=> file'[h].pipe # None
    <3>1. Refs(h)' = Refs(h)
      BY <1>2 DEF Refs, RefsOf
    <3>2. /\ Cardinality(Hands(h)) \in Nat /\ Cardinality(Hands(h)') \in Nat
          /\ Cardinality(Hands(h)') + Has(Hand(p), h) = Cardinality(Hands(h)) + Has(Hand(p)', h)
      BY <1>7, HandChange
    <3>3. Cardinality(Hands(h)') = Cardinality(Hands(h)) + Has({f, g}, h)
      BY <1>7, <3>2 DEF Same, Has
    <3>4. file[h].ref = Cardinality(Refs(h)) + Cardinality(Hands(h)) /\ (file[h].ref > 0 <=> file[h].pipe # None)
      BY FileCount
    <3>5. Cardinality(Refs(h)) \in Nat
      BY Counted DEF DescInv
    <3>6. CASE h \in {f, g}
      <4>1. file'[h].ref = 1 /\ file'[h].pipe = c
        BY <1>1, <3>6 DEF DescInv, TypeOK
      <4>2. Cardinality(Refs(h)) = 0 /\ Cardinality(Hands(h)) = 0
        BY <1>1, <3>2, <3>4, <3>5, <3>6
      <4>3. QED
        BY <3>1, <3>3, <3>6, <4>1, <4>2, Constants DEF Same, Has
    <3>7. CASE h \notin {f, g}
      <4>1. file'[h] = file[h]
        BY <1>1, <3>7 DEF DescInv, TypeOK
      <4>2. Cardinality(Hands(h)') = Cardinality(Hands(h))
        BY <3>2, <3>3, <3>7 DEF Same, Has
      <4>3. QED
        BY <3>1, <3>4, <4>1, <4>2
    <3>8. QED
      BY <3>6, <3>7
  <2>2. QED
    BY <2>1 DEF FileInv
<1>9. CallInv'
  <2>1. \A q \in Procs : Kept(q)
    <3>1. ASSUME NEW q \in Procs, NEW d \in Fds, ofile[q][d] \in Files
          PROVE  ofile[q][d] # f /\ ofile[q][d] # g
      <4>1. ofile[q][d] # None
        BY <3>1, Constants
      <4>2. file[ofile[q][d]].ref > 0
        BY <4>1, HeldFile
      <4>3. QED
        BY <1>1, <4>2
    <3>2. QED
      BY <1>1, <3>1 DEF Kept, DescInv, TypeOK
  <2>2. CallAt(p)'
    BY <1>2, <1>5 DEF DescInv, CallInv, CallAt, Writing, Reading
  <2>3. QED
    BY <1>2, <1>5, <2>1, <2>2, OthersCall DEF DescInv, Stays
<1>10. QED
  BY <1>4, <1>6, <1>8, <1>9 DEF DescInv

\* fdalloc() takes a free descriptor, and a second one if there are two.
FdType == [Fds -> Files \cup {None}]

LEMMA FdAlloc ==
  ASSUME NEW of \in FdType, NEW f \in Files, NEW e \in Fds, of[e] = None
  PROVE  \E d \in Fds : of[d] = None /\ fdalloc(of, f) = [of EXCEPT ![d] = f]
<1> DEFINE T == {d \in Fds : of[d] = None}
<1>1. T \in SUBSET Fds /\ T # {}
  OBVIOUS
<1>2. Min(T) \in T
  <2> HIDE DEF T
  <2>1. QED
    BY <1>1, First
<1>3. fdalloc(of, f) = [of EXCEPT ![Min(T)] = f]
  BY DEF fdalloc
<1> HIDE DEF T
<1>4. Min(T) \in Fds /\ of[Min(T)] = None
  BY <1>2 DEF T
<1>5. QED
  BY <1>3, <1>4

LEMMA TwoFds ==
  ASSUME TypeOK, NEW p \in Procs, Cardinality(Free(p)) >= 2, NEW f \in Files, NEW g \in Files
  PROVE  \E d \in Fds, e \in Fds :
           /\ d # e /\ ofile[p][d] = None /\ ofile[p][e] = None
           /\ fdalloc(fdalloc(ofile[p], f), g) = [[ofile[p] EXCEPT ![d] = f] EXCEPT ![e] = g]
<1>1. ofile[p] \in FdType
  BY DEF TypeOK, FdType
<1>2. IsFiniteSet(Free(p)) /\ Free(p) = {d \in Fds : ofile[p][d] = None}
  <2>1. Free(p) = {d \in Fds : ofile[p][d] = None}
    BY DEF Free, Open
  <2>2. QED
    BY <2>1, Constants, FS_Subset
<1>3. Cardinality(Free(p)) \in Nat /\ Free(p) # {}
  BY <1>2, FS_CardinalityType, FS_EmptySet
<1>4. PICK d \in Fds : ofile[p][d] = None /\ fdalloc(ofile[p], f) = [ofile[p] EXCEPT ![d] = f]
  BY <1>1, <1>2, <1>3, FdAlloc
<1>5. d \in Free(p)
  BY <1>2, <1>4
<1>6. Cardinality(Free(p) \ {d}) = Cardinality(Free(p)) - 1 /\ IsFiniteSet(Free(p) \ {d})
  BY <1>2, <1>5, FS_RemoveElement
<1>7. Free(p) \ {d} # {}
  <2>1. Cardinality(Free(p) \ {d}) # 0
    BY <1>3, <1>6
  <2>2. QED
    BY <2>1, FS_EmptySet
<1>8. PICK c \in Fds : c # d /\ ofile[p][c] = None
  BY <1>2, <1>7
<1>9. /\ [ofile[p] EXCEPT ![d] = f] \in FdType
      /\ \A c1 \in Fds : [ofile[p] EXCEPT ![d] = f][c1] = IF c1 = d THEN f ELSE ofile[p][c1]
  BY <1>1 DEF FdType
<1>10. PICK e \in Fds : /\ [ofile[p] EXCEPT ![d] = f][e] = None
                        /\ fdalloc([ofile[p] EXCEPT ![d] = f], g) = [[ofile[p] EXCEPT ![d] = f] EXCEPT ![e] = g]
  <2>1. [ofile[p] EXCEPT ![d] = f][c] = None
    BY <1>8, <1>9
  <2>2. QED
    BY <1>9, <2>1, FdAlloc
<1>11. e # d /\ ofile[p][e] = None
  BY <1>9, <1>10, Constants
<1>12. QED
  BY <1>4, <1>10, <1>11

LEMMA FdsDesc ==
  ASSUME DescInv, NEW p \in Procs, pipe_fds(p)
  PROVE  DescInv'
<1>1. /\ p \in alive /\ pc[p] = "pipe_fds" /\ Quiet(p)
      /\ pc' = [pc EXCEPT ![p] = "user"] /\ new' = [new EXCEPT ![p] = <<>>]
      /\ UNCHANGED <<file, pipe, cut, alive, killed, pi, i, ff>>
  BY DEF pipe_fds, At, Goto, Quiet
<1>2. /\ Hand(p) = {new[p][1], new[p][2]} /\ new[p] \in Pairs
      /\ new[p][1] \in Files /\ new[p][2] \in Files /\ new[p][1] # new[p][2]
  BY <1>1, NewAtHand DEF DescInv, HandInv
<1>3. PICK f \in Files, g \in Files : f = new[p][1] /\ g = new[p][2] /\ f # g /\ new[p] = <<f, g>>
  BY <1>2 DEF Pairs
<1>4. /\ new'[p] = <<>> /\ pc'[p] = "user"
      /\ \A q \in Procs \ {p} : new'[q] = new[q] /\ pc'[q] = pc[q]
  BY <1>1 DEF DescInv, TypeOK
<1>5. new' \in [Procs -> Seq(Files)] /\ pc' \in [Procs -> Points]
  <2>1. <<>> \in Seq(Files)
    OBVIOUS
  <2>2. QED
    BY <1>1, <2>1 DEF DescInv, TypeOK, Points
<1>6. CASE closing' = [closing EXCEPT ![p] = new[p]] /\ UNCHANGED ofile
  <2>1. closing'[p] = <<f, g>> /\ \A q \in Procs \ {p} : closing'[q] = closing[q]
    BY <1>3, <1>6 DEF DescInv, TypeOK
  <2>2. TypeOK'
    <3>1. closing' \in [Procs -> Seq(Files)]
      BY <1>6 DEF DescInv, TypeOK
    <3>2. QED
      BY <1>1, <1>5, <1>6, <3>1 DEF DescInv, TypeOK
  <2>3. HandInv'
    <3>1. HandAt(p)'
      BY <1>1, <1>2, <1>3, <1>4, <2>1 DEF HandAt
    <3>2. QED
      BY <1>1, <1>4, <1>6, <2>1, <3>1, OthersHand DEF DescInv, Stays
  <2>4. \A q \in Procs : Hand(q)' = Hand(q)
    <3>1. Hand(p)' = {f, g}
      BY <1>4, <2>1, Hold DEF Hand
    <3>2. QED
      BY <1>2, <1>3, <1>4, <2>1, <3>1 DEF Hand
  <2>5. FileInv' /\ \A q \in Procs : Kept(q)
    <3>1. \A h \in Files : Refs(h)' = Refs(h) /\ Hands(h)' = Hands(h)
      BY <1>6, <2>4 DEF Refs, RefsOf, Hands
    <3>2. QED
      BY <1>1, <3>1 DEF DescInv, FileInv, Kept
  <2>6. CallInv'
    <3>1. CallAt(p)'
      BY <1>1, <1>4 DEF DescInv, CallInv, CallAt, Writing, Reading
    <3>2. QED
      BY <1>1, <1>4, <1>6, <2>5, <3>1, OthersCall DEF DescInv, Stays
  <2>7. QED
    BY <2>2, <2>3, <2>5, <2>6 DEF DescInv
<1>7. CASE /\ Cardinality(Free(p)) >= 2 /\ UNCHANGED closing
           /\ ofile' = [ofile EXCEPT ![p] = fdalloc(fdalloc(ofile[p], new[p][1]), new[p][2])]
  <2>1. PICK d \in Fds, e \in Fds :
          /\ d # e /\ ofile[p][d] = None /\ ofile[p][e] = None
          /\ fdalloc(fdalloc(ofile[p], f), g) = [[ofile[p] EXCEPT ![d] = f] EXCEPT ![e] = g]
    <3>1. TypeOK /\ Cardinality(Free(p)) >= 2
      BY <1>7 DEF DescInv
    <3>2. QED
      BY <3>1, TwoFds
  <2>2. PICK of1 : of1 = [ofile EXCEPT ![p] = [ofile[p] EXCEPT ![d] = f]]
    OBVIOUS
  <2>3. ofile \in OfileType /\ of1 \in OfileType
    BY <2>2 DEF DescInv, TypeOK, OfileType
  <2>4. of1[p] = [ofile[p] EXCEPT ![d] = f] /\ of1[p][e] = None
    BY <2>1, <2>2, <2>3 DEF OfileType
  <2>5. ofile' = [of1 EXCEPT ![p] = [of1[p] EXCEPT ![e] = g]]
    BY <1>3, <1>7, <2>1, <2>2, <2>4 DEF DescInv, TypeOK
  <2>6. ofile' \in OfileType
    BY <2>3, <2>5, ChangeOne
  <2>7. \A q \in Procs \ {p} : ofile'[q] = ofile[q] /\ closing'[q] = closing[q]
    BY <1>7 DEF DescInv, TypeOK
  <2>8. TypeOK'
    BY <1>1, <1>5, <1>7, <2>6 DEF DescInv, TypeOK, OfileType
  <2>9. HandInv'
    <3>1. HandAt(p)'
      BY <1>1, <1>4, <1>7 DEF HandAt, Quiet
    <3>2. QED
      BY <1>1, <1>4, <2>7, <3>1, OthersHand DEF DescInv, Stays
  <2>10. Hand(p)' = {} /\ \A q \in Procs \ {p} : Hand(q)' = Hand(q)
    <3>1. closing'[p] = <<>>
      BY <1>1, <1>7 DEF Quiet
    <3>2. Hand(p)' = {}
      BY <1>4, <3>1, Hold DEF Hand
    <3>3. QED
      BY <1>4, <2>7, <3>2 DEF Hand
  <2>11. FileInv'
    <3>1. ASSUME NEW h \in Files
          PROVE  Cardinality(Refs(h)') + Cardinality(Hands(h)') = Cardinality(Refs(h)) + Cardinality(Hands(h))
      <4>1. /\ Cardinality(RefsOf(ofile, h)) \in Nat /\ Cardinality(RefsOf(of1, h)) \in Nat
            /\ Cardinality(RefsOf(of1, h)) + Same(ofile[p][d], h) = Cardinality(RefsOf(ofile, h)) + Same(f, h)
        <5>1. Changed(ofile, of1, p, d, f)
          BY <2>2, <2>3, ChangeOne
        <5>2. QED
          BY <5>1, Descriptor
      <4>2. /\ Cardinality(RefsOf(ofile', h)) \in Nat
            /\ Cardinality(RefsOf(ofile', h)) + Same(of1[p][e], h) = Cardinality(RefsOf(of1, h)) + Same(g, h)
        <5>1. Changed(of1, ofile', p, e, g)
          BY <2>3, <2>5, ChangeOne
        <5>2. QED
          BY <5>1, Descriptor
      <4>3. /\ Cardinality(Hands(h)) \in Nat /\ Cardinality(Hands(h)') \in Nat
            /\ Cardinality(Hands(h)') + Has(Hand(p), h) = Cardinality(Hands(h)) + Has(Hand(p)', h)
        BY <2>10, HandChange
      <4>4. Same(ofile[p][d], h) = 0 /\ Same(of1[p][e], h) = 0 /\ Has(Hand(p)', h) = 0
        BY <2>1, <2>4, <2>10, Constants DEF Same, Has
      <4>5. Has(Hand(p), h) = Same(f, h) + Same(g, h) /\ Same(f, h) \in Nat /\ Same(g, h) \in Nat
        BY <1>2, <1>3 DEF Same, Has
      <4>6. Refs(h) = RefsOf(ofile, h) /\ Refs(h)' = RefsOf(ofile', h)
        BY DEF Refs
      <4>7. QED
        BY <4>1, <4>2, <4>3, <4>4, <4>5, <4>6
    <3>2. QED
      BY <1>1, <3>1 DEF DescInv, FileInv
  <2>12. CallInv'
    <3>1. CallAt(p)'
      BY <1>1, <1>4 DEF DescInv, CallInv, CallAt, Writing, Reading
    <3>2. \A q \in Procs : Kept(q)
      BY <1>1 DEF Kept
    <3>3. QED
      BY <1>1, <1>4, <2>7, <3>1, <3>2, OthersCall DEF DescInv, Stays
  <2>13. QED
    BY <2>8, <2>9, <2>11, <2>12 DEF DescInv
<1>8. QED
  BY <1>6, <1>7 DEF pipe_fds

\* dup(): one more descriptor, one more reference.
LEMMA DupDesc ==
  ASSUME DescInv, NEW p \in Procs, NEW d \in Fds, sys_dup(p, d)
  PROVE  DescInv'
<1>1. /\ At(p, "user") /\ ofile[p][d] # None /\ Free(p) # {}
      /\ ofile' = [ofile EXCEPT ![p] = fdalloc(ofile[p], ofile[p][d])]
      /\ file' = filedup(file, ofile[p][d])
      /\ UNCHANGED <<pipe, cut, alive, killed, pc, pi, i, new, closing, ff>>
  BY DEF sys_dup, User, Open
<1>2. PICK f \in Files : f = ofile[p][d] /\ file[f].ref > 0 /\ file[f].pipe \in Pages
  BY <1>1, HeldFile
<1>3. PICK e \in Fds : ofile[p][e] = None /\ fdalloc(ofile[p], f) = [ofile[p] EXCEPT ![e] = f]
  <2>1. ofile[p] \in FdType
    BY DEF DescInv, TypeOK, FdType
  <2>2. \E e \in Fds : ofile[p][e] = None
    BY <1>1 DEF Free, Open
  <2>3. QED
    BY <2>1, <2>2, FdAlloc
<1>4. ofile \in OfileType /\ file \in [Files -> FileType]
  BY DEF DescInv, TypeOK, OfileType, FileType
<1>5. ofile' \in OfileType /\ Changed(ofile, ofile', p, e, f)
  <2>1. ofile' = [ofile EXCEPT ![p] = [ofile[p] EXCEPT ![e] = f]] /\ f \in Files \cup {None}
    BY <1>1, <1>2, <1>3
  <2>2. QED
    BY <1>4, <2>1 DEF OfileType, Changed
<1>6. /\ file' = [file EXCEPT ![f] = [file[f] EXCEPT !.ref = file[f].ref + 1]]
      /\ file' \in [Files -> FileType]
      /\ \A h \in Files : /\ file'[h].ref = file[h].ref + Same(f, h)
                          /\ file'[h].pipe = file[h].pipe /\ file'[h].writable = file[h].writable
  <2>1. file' = [file EXCEPT ![f] = [file[f] EXCEPT !.ref = file[f].ref + 1]]
    BY <1>1, <1>2 DEF filedup
  <2>2. [file[f] EXCEPT !.ref = file[f].ref + 1] \in FileType
    BY <1>4 DEF FileType
  <2>3. \A h \in Files : /\ file'[h].ref = file[h].ref + Same(f, h)
                         /\ file'[h].pipe = file[h].pipe /\ file'[h].writable = file[h].writable
    BY <1>4, <2>1 DEF Same, FileType
  <2>4. QED
    BY <1>4, <2>1, <2>2, <2>3
<1>7. TypeOK'
  BY <1>1, <1>5, <1>6 DEF DescInv, TypeOK, OfileType, FileType
<1>8. \A q \in Procs \ {p} : ofile'[q] = ofile[q]
  BY <1>1 DEF DescInv, TypeOK
<1>9. HandInv'
  <2>1. HandAt(p)'
    BY <1>1 DEF DescInv, HandInv, HandAt, Quiet, At
  <2>2. QED
    BY <1>1, <1>8, <2>1, OthersHand DEF DescInv, Stays
<1>10. FileInv'
  <2>1. ASSUME NEW h \in Files
        PROVE  /\ file'[h].ref = Cardinality(Refs(h)') + Cardinality(Hands(h)')
               /\ file'[h].ref > 0 <=> file'[h].pipe # None
    <3>1. /\ Cardinality(RefsOf(ofile, h)) \in Nat /\ Cardinality(RefsOf(ofile', h)) \in Nat
          /\ Cardinality(RefsOf(ofile', h)) + Same(ofile[p][e], h)
               = Cardinality(RefsOf(ofile, h)) + Same(f, h)
      BY <1>5, Descriptor
    <3>2. Same(ofile[p][e], h) = 0 /\ Same(f, h) \in {0, 1} /\ (Same(f, h) = 1 => h = f)
      BY <1>3, Constants DEF Same
    <3>3. Refs(h) = RefsOf(ofile, h) /\ Refs(h)' = RefsOf(ofile', h) /\ Hands(h)' = Hands(h)
      BY <1>1 DEF Refs, Hands, Hand
    <3>4. /\ file[h].ref = Cardinality(Refs(h)) + Cardinality(Hands(h))
          /\ file[h].ref > 0 <=> file[h].pipe # None
          /\ Cardinality(Hands(h)) \in Nat /\ file[h].ref \in Nat
      BY FileCount
    <3>5. file'[h].ref = file[h].ref + Same(f, h) /\ file'[h].pipe = file[h].pipe
      BY <1>6
    <3>6. file'[h].ref = Cardinality(Refs(h)') + Cardinality(Hands(h)')
      BY <3>1, <3>2, <3>3, <3>4, <3>5
    <3>7. file'[h].ref > 0 <=> file'[h].pipe # None
      BY <1>2, <3>2, <3>4, <3>5
    <3>8. QED
      BY <3>6, <3>7
  <2>2. QED
    BY <2>1 DEF FileInv
<1>11. CallInv'
  <2>1. CallAt(p)'
    BY <1>1 DEF DescInv, CallInv, CallAt, Writing, Reading, At
  <2>2. \A q \in Procs : Kept(q)
    BY <1>6 DEF Kept
  <2>3. QED
    BY <1>1, <1>8, <2>1, <2>2, OthersCall DEF DescInv, Stays
<1>12. QED
  BY <1>7, <1>9, <1>10, <1>11 DEF DescInv

\* close() and the closes of exit(): the file moves from a descriptor to the hand.
LEMMA CloseDesc ==
  ASSUME DescInv, NEW p \in Procs, NEW d \in Fds, ofile[p][d] # None,
         At(p, "user") \/ At(p, "exit"),
         ofile' = [ofile EXCEPT ![p][d] = None],
         closing' = [closing EXCEPT ![p] = <<ofile[p][d]>>],
         UNCHANGED <<file, pipe, cut, alive, killed, pc, pi, i, new, ff>>
  PROVE  DescInv'
<1>1. PICK f \in Files : f = ofile[p][d]
  BY HeldFile
<1>2. /\ closing'[p] = <<f>>
      /\ \A q \in Procs \ {p} : ofile'[q] = ofile[q] /\ closing'[q] = closing[q]
  BY <1>1 DEF DescInv, TypeOK
<1>3. ofile \in OfileType
  BY DEF DescInv, TypeOK, OfileType
<1>4. ofile' \in OfileType /\ Changed(ofile, ofile', p, d, None)
  <2>1. ofile' = [ofile EXCEPT ![p] = [ofile[p] EXCEPT ![d] = None]]
    OBVIOUS
  <2>2. QED
    BY <1>3, <2>1 DEF OfileType, Changed
<1>5. pc[p] \in {"user", "exit"} /\ closing[p] = <<>> /\ p \in alive /\ new[p] = <<>>
  BY DEF DescInv, HandInv, HandAt, At
<1>6. TypeOK'
  <2>1. closing' \in [Procs -> Seq(Files)]
    <3>1. <<ofile[p][d]>> \in Seq(Files)
      BY <1>1
    <3>2. QED
      BY <3>1 DEF DescInv, TypeOK
  <2>2. QED
    BY <1>4, <2>1 DEF DescInv, TypeOK, OfileType
<1>7. HandInv'
  <2>1. HandAt(p)'
    BY <1>2, <1>5 DEF DescInv, HandInv, HandAt, Singles
  <2>2. QED
    BY <1>2, <2>1, OthersHand DEF DescInv, Stays
<1>8. Hand(p) = {} /\ Hand(p)' = {f} /\ \A q \in Procs \ {p} : Hand(q)' = Hand(q)
  <2>1. Hand(p) = {}
    BY <1>5, NothingAtHand DEF DescInv, HandInv
  <2>2. Hand(p)' = {f}
    BY <1>2, <1>5, Hold DEF Hand
  <2>3. QED
    BY <1>2, <2>1, <2>2 DEF Hand
<1>9. FileInv'
  <2>1. ASSUME NEW h \in Files
        PROVE  Cardinality(Refs(h)') + Cardinality(Hands(h)') = Cardinality(Refs(h)) + Cardinality(Hands(h))
    <3>1. /\ Cardinality(RefsOf(ofile, h)) \in Nat /\ Cardinality(RefsOf(ofile', h)) \in Nat
          /\ Cardinality(RefsOf(ofile', h)) + Same(ofile[p][d], h)
               = Cardinality(RefsOf(ofile, h)) + Same(None, h)
      BY <1>4, Descriptor
    <3>2. /\ Cardinality(Hands(h)) \in Nat /\ Cardinality(Hands(h)') \in Nat
          /\ Cardinality(Hands(h)') + Has(Hand(p), h) = Cardinality(Hands(h)) + Has(Hand(p)', h)
      BY <1>8, HandChange
    <3>3. Same(None, h) = 0 /\ Has(Hand(p), h) = 0 /\ Has(Hand(p)', h) = Same(f, h) /\ Same(f, h) \in Nat
      BY <1>8, Constants DEF Same, Has
    <3>4. Refs(h) = RefsOf(ofile, h) /\ Refs(h)' = RefsOf(ofile', h)
      BY DEF Refs
    <3>5. QED
      BY <1>1, <3>1, <3>2, <3>3, <3>4
  <2>2. QED
    BY <2>1 DEF DescInv, FileInv
<1>10. CallInv'
  <2>1. CallAt(p)'
    BY <1>5 DEF DescInv, CallInv, CallAt, Writing, Reading
  <2>2. \A q \in Procs : Kept(q)
    BY DEF Kept
  <2>3. QED
    BY <1>2, <2>1, <2>2, OthersCall DEF DescInv, Stays
<1>11. QED
  BY <1>6, <1>7, <1>9, <1>10 DEF DescInv

\* fork(): the child has the descriptors of its parent.
LEMMA ForkDesc ==
  ASSUME DescInv, NEW p \in Procs, NEW q \in Procs, fork(p, q)
  PROVE  DescInv'
<1>1. /\ p \in alive /\ q \notin alive /\ pc[p] = "user" /\ closing[p] = <<>>
      /\ alive' = alive \cup {q} /\ ofile' = [ofile EXCEPT ![q] = ofile[p]]
      /\ file' = [f \in Files |-> [file[f] EXCEPT !.ref = file[f].ref + Cardinality(Holding(p, f))]]
      /\ UNCHANGED <<pipe, cut, killed, pc, pi, i, new, closing, ff>>
  BY DEF fork, User, At
<1>2. p # q /\ pc[q] = "user" /\ ofile[q] = NoFiles /\ Quiet(q)
  BY <1>1 DEF DescInv, HandInv, HandAt
<1>3. ofile'[q] = ofile[p] /\ \A r \in Procs \ {q} : ofile'[r] = ofile[r]
  BY <1>1 DEF DescInv, TypeOK
<1>4. ASSUME NEW h \in Files
      PROVE  /\ Cardinality(Holding(p, h)) \in Nat
             /\ Cardinality(Refs(h)') = Cardinality(Refs(h)) + Cardinality(Holding(p, h))
             /\ Cardinality(Holding(p, h)) > 0 => \E d \in Fds : ofile[p][d] = h
  <2> DEFINE H == Holding(p, h)
             T == {q} \X H
  <2>1. IsFiniteSet(H)
    BY Constants, FS_Subset DEF Holding
  <2>2. IsFiniteSet({q}) /\ Cardinality({q}) = 1
    BY FS_Singleton
  <2>3. Cardinality(H) \in Nat
    BY <2>1, FS_CardinalityType
  <2>4. IsFiniteSet(T) /\ Cardinality(T) = Cardinality(H)
    <3> HIDE DEF H
    <3>1. IsFiniteSet(T) /\ Cardinality(T) = Cardinality({q}) * Cardinality(H)
      BY <2>1, <2>2, FS_Product
    <3> HIDE DEF T
    <3>2. QED
      BY <2>2, <2>3, <3>1
  <2>5. Refs(h)' = Refs(h) \cup T
    <3>1. ASSUME NEW r \in Procs, NEW d \in Fds
          PROVE  ofile'[r][d] = h <=> ofile[r][d] = h \/ (r = q /\ ofile[p][d] = h)
      <4>1. CASE r = q
        <5>1. ofile[q][d] # h
          BY <1>2, Constants DEF NoFiles
        <5>2. QED
          BY <1>3, <4>1, <5>1
      <4>2. CASE r # q
        BY <1>3, <4>2
      <4>3. QED
        BY <4>1, <4>2
    <3>2. \A x : x \in T <=> \E d \in Fds : x = <<q, d>> /\ ofile[p][d] = h
      BY DEF Holding
    <3> HIDE DEF T
    <3>3. \A x : x \in Refs(h) <=> \E r \in Procs, d \in Fds : x = <<r, d>> /\ ofile[r][d] = h
      BY DEF Refs, RefsOf
    <3>4. \A x : x \in Refs(h)' <=> \E r \in Procs, d \in Fds : x = <<r, d>> /\ ofile'[r][d] = h
      BY DEF Refs, RefsOf
    <3>5. ASSUME NEW x \in Refs(h)'
          PROVE  x \in Refs(h) \cup T
      <4>1. PICK r \in Procs, d \in Fds : x = <<r, d>> /\ ofile'[r][d] = h
        BY <3>4
      <4>2. QED
        BY <3>1, <3>2, <3>3, <4>1
    <3>6. ASSUME NEW x \in Refs(h)
          PROVE  x \in Refs(h)'
      <4>1. PICK r \in Procs, d \in Fds : x = <<r, d>> /\ ofile[r][d] = h
        BY <3>3
      <4>2. QED
        BY <3>1, <3>4, <4>1
    <3>7. ASSUME NEW x \in T
          PROVE  x \in Refs(h)'
      <4>1. PICK d \in Fds : x = <<q, d>> /\ ofile[p][d] = h
        BY <3>2
      <4>2. QED
        BY <3>1, <3>4, <4>1
    <3>8. QED
      BY <3>5, <3>6, <3>7
  <2>6. Refs(h) \cap T = {}
    <3>1. ASSUME NEW x \in T
          PROVE  x \notin Refs(h)
      <4>1. PICK d \in Fds : x = <<q, d>>
        BY DEF Holding
      <4>2. ofile[q][d] = None
        BY <1>2 DEF NoFiles
      <4>3. QED
        BY <4>1, <4>2, Constants DEF Refs, RefsOf
    <3>2. QED
      BY <3>1
  <2>7. IsFiniteSet(Refs(h))
    BY Constants, FS_Subset DEF Refs, RefsOf
  <2>8. Cardinality(Refs(h)) \in Nat
    BY <2>7, FS_CardinalityType
  <2>9. Cardinality(Refs(h)') = Cardinality(Refs(h)) + Cardinality(H)
    <3> HIDE DEF T, H
    <3>1. Cardinality(Refs(h) \cup T) = Cardinality(Refs(h)) + Cardinality(T) - Cardinality(Refs(h) \cap T)
      BY <2>4, <2>7, FS_Union
    <3>2. Cardinality(Refs(h) \cap T) = 0
      BY <2>6, FS_EmptySet
    <3>3. QED
      BY <2>3, <2>4, <2>5, <2>8, <3>1, <3>2
  <2>10. Cardinality(H) > 0 => H # {}
    BY FS_EmptySet
  <2>11. QED
    BY <2>3, <2>9, <2>10 DEF Holding
<1>5. \A h \in Files : /\ file'[h].ref = file[h].ref + Cardinality(Holding(p, h))
                       /\ file'[h].pipe = file[h].pipe /\ file'[h].writable = file[h].writable
  BY <1>1 DEF DescInv, TypeOK
<1>6. file' \in [Files -> FileType]
  <2>1. ASSUME NEW h \in Files
        PROVE  [file[h] EXCEPT !.ref = file[h].ref + Cardinality(Holding(p, h))] \in FileType
    <3>1. file[h] \in FileType /\ file[h].ref + Cardinality(Holding(p, h)) \in Nat
      BY <1>4, FileCount DEF DescInv, TypeOK, FileType
    <3>2. QED
      BY <3>1 DEF FileType
  <2>2. QED
    BY <1>1, <2>1
<1>7. TypeOK'
  <2>1. ofile' \in OfileType
    BY <1>1 DEF DescInv, TypeOK, OfileType
  <2>2. QED
    BY <1>1, <1>6, <2>1 DEF DescInv, TypeOK, OfileType, FileType
<1>8. HandInv'
  <2>1. HandAt(q)'
    BY <1>1, <1>2 DEF DescInv, HandInv, HandAt, Quiet
  <2>2. QED
    BY <1>1, <1>3, <2>1, OthersHand DEF DescInv, Stays
<1>9. FileInv'
  <2>1. ASSUME NEW h \in Files
        PROVE  /\ file'[h].ref = Cardinality(Refs(h)') + Cardinality(Hands(h)')
               /\ file'[h].ref > 0 <=> file'[h].pipe # None
    <3>1. /\ file[h].ref = Cardinality(Refs(h)) + Cardinality(Hands(h))
          /\ file[h].ref > 0 <=> file[h].pipe # None
          /\ Cardinality(Hands(h)) \in Nat /\ Cardinality(Refs(h)) \in Nat /\ file[h].ref \in Nat
      BY FileCount
    <3>2. Hands(h)' = Hands(h)
      BY <1>1 DEF Hands, Hand
    <3>3. file'[h].ref = Cardinality(Refs(h)') + Cardinality(Hands(h)')
      BY <1>4, <1>5, <3>1, <3>2
    <3>4. Cardinality(Holding(p, h)) > 0 => file[h].ref > 0
      <4>1. ASSUME NEW d \in Fds, ofile[p][d] = h
            PROVE  file[h].ref > 0
        BY <4>1, HeldFile, Constants
      <4>2. QED
        BY <1>4, <4>1
    <3>5. file'[h].ref > 0 <=> file[h].ref > 0
      BY <1>4, <1>5, <3>1, <3>4
    <3>6. QED
      BY <1>5, <3>1, <3>3, <3>5
  <2>2. QED
    BY <2>1 DEF FileInv
<1>10. CallInv'
  <2>1. CallAt(q)'
    BY <1>1, <1>2 DEF DescInv, CallInv, CallAt, Writing, Reading
  <2>2. \A r \in Procs : Kept(r)
    BY <1>5 DEF Kept
  <2>3. QED
    BY <1>1, <1>3, <2>1, <2>2, OthersCall DEF DescInv, Stays
<1>11. QED
  BY <1>7, <1>8, <1>9, <1>10 DEF DescInv

\* The file that fileclose() is called with has a reference; if that is the last one,
\* it is in no descriptor.
LEMMA LastReference ==
  ASSUME DescInv, NEW p \in Procs, fileclose(p)
  PROVE  \E f \in Files :
           /\ f = Head(closing[p]) /\ p \in Hands(f) /\ file[f].ref > 0 /\ file[f].pipe \in Pages
           /\ file[f].ref = 1 => \A q \in Procs, d \in Fds : ofile[q][d] # f
<1>1. /\ closing[p] # <<>> /\ HandAt(p) /\ TypeOK
  BY DEF fileclose, DescInv, HandInv
<1>2. PICK f \in Files : f = Head(closing[p]) /\ f \in Hand(p)
  BY <1>1, ClosingAtHand
<1>3. p \in Hands(f)
  BY <1>2 DEF Hands
<1>4. Cardinality(Hands(f)) # 0
  BY <1>1, <1>2, Counted
<1>5. /\ file[f].ref = Cardinality(Refs(f)) + Cardinality(Hands(f))
      /\ file[f].ref > 0 <=> file[f].pipe # None
      /\ Cardinality(Hands(f)) \in Nat /\ Cardinality(Refs(f)) \in Nat /\ file[f].pipe \in Pages \cup {None}
  BY FileCount
<1>6. file[f].ref > 0 /\ (file[f].ref = 1 => Cardinality(Refs(f)) = 0)
  BY <1>4, <1>5
<1>7. file[f].ref = 1 => \A q \in Procs, d \in Fds : ofile[q][d] # f
  BY <1>1, <1>6, Counted
<1>8. QED
  BY <1>2, <1>3, <1>5, <1>6, <1>7

\* fileclose(): the file leaves the hand, and is freed with the last reference.
LEMMA FilecloseDesc ==
  ASSUME DescInv, NEW p \in Procs, fileclose(p)
  PROVE  DescInv'
<1>1. /\ closing[p] # <<>> /\ ff[p].pipe = None
      /\ closing' = [closing EXCEPT ![p] = Tail(closing[p])]
      /\ UNCHANGED <<pipe, cut, alive, killed, pc, pi, i, ofile, new>>
  BY DEF fileclose
<1>2. PICK f \in Files :
        /\ f = Head(closing[p]) /\ p \in Hands(f) /\ file[f].ref > 0 /\ file[f].pipe \in Pages
        /\ file[f].ref = 1 => \A q \in Procs, d \in Fds : ofile[q][d] # f
  BY LastReference
<1>3. /\ new[p] = <<>> /\ Tail(closing[p]) \in {<<>>} \cup Singles
      /\ Hand(p) = {f} \cup Range(<<>> \o Tail(closing[p])) /\ f \notin Range(<<>> \o Tail(closing[p]))
  BY <1>1, <1>2, ClosingAtHand DEF DescInv, HandInv
<1>4. closing'[p] = Tail(closing[p]) /\ \A q \in Procs \ {p} : closing'[q] = closing[q]
  BY <1>1 DEF DescInv, TypeOK
<1>5. Hand(p)' = Hand(p) \ {f} /\ f \in Hand(p) /\ \A q \in Procs \ {p} : Hand(q)' = Hand(q)
  BY <1>1, <1>3, <1>4 DEF Hand
<1>6. pc[p] \in {"user", "exit"} /\ p \in alive
  BY <1>1 DEF DescInv, HandInv, HandAt, Quiet
<1>7. file \in [Files -> FileType] /\ file[f] \in FileType
  BY DEF DescInv, TypeOK, FileType
<1>8. /\ file' \in [Files -> FileType] /\ file'[f].ref = file[f].ref - 1
      /\ \A h \in Files \ {f} : file'[h] = file[h]
      /\ IF file[f].ref > 1 THEN file'[f].pipe = file[f].pipe /\ file'[f].writable = file[f].writable
                            ELSE file[f].ref = 1 /\ file'[f].pipe = None
      /\ ff' \in [Procs -> [ref : {0}, pipe : Pages \cup {None}, writable : BOOLEAN]]
      /\ \A q \in Procs \ {p} : ff'[q] = ff[q]
  <2>1. CASE file[f].ref > 1
    <3>1. file' = [file EXCEPT ![f] = [file[f] EXCEPT !.ref = file[f].ref - 1]] /\ UNCHANGED ff
      BY <1>2, <2>1 DEF fileclose
    <3>2. [file[f] EXCEPT !.ref = file[f].ref - 1] \in FileType
      BY <1>7, <2>1 DEF FileType
    <3>3. ff' \in [Procs -> [ref : {0}, pipe : Pages \cup {None}, writable : BOOLEAN]]
      BY <3>1 DEF DescInv, TypeOK
    <3>4. QED
      BY <1>7, <2>1, <3>1, <3>2, <3>3 DEF FileType
  <2>2. CASE ~(file[f].ref > 1)
    <3>1. file' = [file EXCEPT ![f] = FreeFile] /\ ff' = [ff EXCEPT ![p] = [file[f] EXCEPT !.ref = 0]]
      BY <1>2, <2>2 DEF fileclose
    <3>2. FreeFile \in FileType /\ FreeFile.ref = 0 /\ FreeFile.pipe = None
      BY DEF FreeFile, FileType
    <3>3. file[f].ref = 1
      BY <1>2, <1>7, <2>2 DEF FileType
    <3>4. [file[f] EXCEPT !.ref = 0] \in [ref : {0}, pipe : Pages \cup {None}, writable : BOOLEAN]
      BY <1>7 DEF FileType
    <3>5. ff' \in [Procs -> [ref : {0}, pipe : Pages \cup {None}, writable : BOOLEAN]]
      BY <3>1, <3>4 DEF DescInv, TypeOK
    <3>6. \A q \in Procs \ {p} : ff'[q] = ff[q]
      BY <3>1 DEF DescInv, TypeOK
    <3>7. /\ file' \in [Files -> FileType] /\ file'[f] = FreeFile
          /\ \A h \in Files \ {f} : file'[h] = file[h]
      BY <1>7, <3>1, <3>2
    <3>8. QED
      BY <2>2, <3>2, <3>3, <3>5, <3>6, <3>7
  <2>3. QED
    BY <2>1, <2>2
<1>9. TypeOK'
  <2>1. closing' \in [Procs -> Seq(Files)]
    <3>1. Tail(closing[p]) \in Seq(Files)
      BY <1>1 DEF DescInv, TypeOK
    <3>2. QED
      BY <1>1, <3>1 DEF DescInv, TypeOK
  <2>2. QED
    BY <1>1, <1>8, <2>1 DEF DescInv, TypeOK, FileType
<1>10. HandInv'
  <2>1. HandAt(p)'
    BY <1>1, <1>3, <1>4, <1>6 DEF HandAt
  <2>2. QED
    BY <1>1, <1>4, <1>8, <2>1, OthersHand DEF DescInv, Stays
<1>11. FileInv'
  <2>1. ASSUME NEW h \in Files
        PROVE  /\ file'[h].ref = Cardinality(Refs(h)') + Cardinality(Hands(h)')
               /\ file'[h].ref > 0 <=> file'[h].pipe # None
    <3>1. Refs(h)' = Refs(h)
      BY <1>1 DEF Refs, RefsOf
    <3>2. /\ file[h].ref = Cardinality(Refs(h)) + Cardinality(Hands(h))
          /\ file[h].ref > 0 <=> file[h].pipe # None
          /\ Cardinality(Refs(h)) \in Nat
      BY FileCount
    <3>3. /\ Cardinality(Hands(h)) \in Nat /\ Cardinality(Hands(h)') \in Nat
          /\ Cardinality(Hands(h)') + Has(Hand(p), h) = Cardinality(Hands(h)) + Has(Hand(p)', h)
      BY <1>5, HandChange
    <3>4. CASE h = f
      <4>1. Has(Hand(p), h) = 1 /\ Has(Hand(p)', h) = 0
        BY <1>5, <3>4 DEF Has
      <4>2. file'[h].ref = file[h].ref - 1
        BY <1>8, <3>4
      <4>3. file'[h].ref = Cardinality(Refs(h)') + Cardinality(Hands(h)')
        BY <3>1, <3>2, <3>3, <4>1, <4>2
      <4>4. file'[h].ref > 0 <=> file'[h].pipe # None
        <5>1. file[f].ref \in Nat /\ file[f].pipe # None
          BY <1>2, <1>7, Constants DEF FileType
        <5>2. QED
          BY <1>8, <3>4, <5>1
      <4>5. QED
        BY <4>3, <4>4
    <3>5. CASE h # f
      <4>1. Has(Hand(p), h) = Has(Hand(p)', h) /\ Has(Hand(p), h) \in Nat
        BY <1>5, <3>5 DEF Has
      <4>2. Cardinality(Hands(h)') = Cardinality(Hands(h)) /\ file'[h] = file[h]
        BY <1>8, <3>3, <3>5, <4>1
      <4>3. QED
        BY <3>1, <3>2, <4>2
    <3>6. QED
      BY <3>4, <3>5
  <2>2. QED
    BY <2>1 DEF FileInv
<1>12. CallInv'
  <2>1. CallAt(p)'
    BY <1>1, <1>6 DEF DescInv, CallInv, CallAt, Writing, Reading
  <2>2. ASSUME NEW q \in Procs
        PROVE  Kept(q)
    <3>1. ASSUME NEW d \in Fds, ofile[q][d] \in Files
          PROVE  /\ file'[ofile[q][d]].pipe = file[ofile[q][d]].pipe
                 /\ file'[ofile[q][d]].writable = file[ofile[q][d]].writable
      <4>1. CASE ofile[q][d] = f
        BY <1>2, <1>8, <4>1
      <4>2. CASE ofile[q][d] # f
        BY <1>8, <3>1, <4>2
      <4>3. QED
        BY <4>1, <4>2
    <3>2. QED
      BY <3>1 DEF Kept
  <2>3. QED
    BY <1>1, <2>1, <2>2, OthersCall DEF DescInv, Stays
<1>13. QED
  BY <1>9, <1>10, <1>11, <1>12 DEF DescInv

-----------------------------------------------------------------------------
(* A turn of pipewrite() or piperead(), and sleep(): what they have in     *)
(* common.                                                                 *)

\* The process leaves the pipe, or goes on in its call.
Leaves(p) == pc'[p] = "user" /\ pi'[p] = None /\ i'[p] = 0
GoesOn(p) ==
  /\ pi'[p] = pi[p] /\ i'[p] \in 0..Count
  /\ \/ pc[p] \in Writing /\ pc'[p] \in Writing
     \/ pc[p] \in Reading /\ pc'[p] \in Reading

\* Only p's pipe changes, and neither of its ends is closed.
Touches(p) ==
  /\ pipe' \in [Pages -> PipeType]
  /\ \A c \in Pages \ {pi[p]} : pipe'[c] = pipe[c]
  /\ pipe'[pi[p]].readopen = pipe[pi[p]].readopen /\ pipe'[pi[p]].writeopen = pipe[pi[p]].writeopen
  /\ pipe'[pi[p]].live = pipe[pi[p]].live

\* The lock of the pipe is p's or free, before and after.
Owns(p) ==
  /\ pipe[pi[p]].lock \in {p, None} /\ pipe'[pi[p]].lock \in {p, None}
  /\ pc'[p] \in Locking => pipe'[pi[p]].lock = p
  /\ pipe'[pi[p]].lock = p => /\ pi'[p] = pi[p]
                              /\ pc'[p] \in Locking \/ (pc'[p] = "write" /\ i'[p] > 0)

Turn(p) ==
  /\ pc[p] \in Writing \cup Reading /\ pi[p] \in Pages
  /\ UNCHANGED <<file, alive, killed, own>>
  /\ pc' \in [Procs -> Points] /\ pi' \in [Procs -> Pages \cup {None}] /\ i' \in [Procs -> 0..Count]
  /\ \A q \in Procs \ {p} : Stays(q) /\ pi'[q] = pi[q] /\ i'[q] = i[q]
  /\ cut \subseteq cut' /\ cut' \subseteq Pages
  /\ Leaves(p) \/ GoesOn(p)
  /\ Touches(p) /\ Owns(p)

LEMMA TurnDesc ==
  ASSUME DescInv, NEW p \in Procs, Turn(p)
  PROVE  DescInv'
<1>1. UNCHANGED <<file, alive, killed, ofile, new, closing, ff>>
  BY DEF Turn, own
<1>2. TypeOK'
  BY <1>1 DEF DescInv, TypeOK, Turn, Touches, PipeType
<1>3. HandInv'
  <2>1. HandAt(p)'
    BY <1>1 DEF DescInv, HandInv, HandAt, Turn, Leaves, GoesOn, Quiet, Writing, Reading
  <2>2. QED
    BY <1>1, <2>1, OthersHand DEF DescInv, Turn
<1>4. FileInv' /\ \A q \in Procs : Kept(q)
  BY <1>1, SameFiles DEF DescInv
<1>5. CallInv'
  <2>1. CallAt(p)'
    <3>1. CASE Leaves(p)
      BY <3>1 DEF Leaves, CallAt, Writing, Reading
    <3>2. CASE GoesOn(p)
      BY <1>1, <3>2 DEF GoesOn, DescInv, CallInv, CallAt, Writing, Reading
    <3>3. QED
      BY <3>1, <3>2 DEF Turn
  <2>2. QED
    BY <1>1, <1>4, <2>1, OthersCall DEF DescInv, Turn
<1>6. QED
  BY <1>2, <1>3, <1>4, <1>5 DEF DescInv

\* The ends of a pipe, when neither files nor ends change.
LEMMA SameEnds ==
  ASSUME EndInv, \A f \in Files : file'[f].pipe = file[f].pipe /\ file'[f].writable = file[f].writable,
         \A f \in Files : file'[f].ref > 0 <=> file[f].ref > 0,
         UNCHANGED ff,
         \A c \in Pages : /\ pipe'[c].readopen = pipe[c].readopen /\ pipe'[c].writeopen = pipe[c].writeopen
                          /\ pipe'[c].live = pipe[c].live
                          /\ ~pipe[c].live => pipe'[c] = pipe[c]
  PROVE  EndInv'
<1>1. ASSUME NEW c \in Pages, NEW w \in BOOLEAN
      PROVE  /\ EndOpen(c, w)' <=> EndOpen(c, w)
             /\ \A f \in Files : Carries(file[f], c, w)' <=> Carries(file[f], c, w)
             /\ \A p \in Procs : Carries(ff[p], c, w)' <=> Carries(ff[p], c, w)
  BY DEF EndOpen, Carries
<1>2. ASSUME NEW c \in Pages
      PROVE  /\ pipe'[c].readopen <=> EndOpen(c, FALSE)'
             /\ pipe'[c].writeopen <=> EndOpen(c, TRUE)'
             /\ pipe'[c].live <=> pipe'[c].readopen \/ pipe'[c].writeopen
             /\ ~pipe'[c].live => pipe'[c] = FreePipe
  BY <1>1 DEF EndInv
<1>3. ASSUME NEW c \in Pages, NEW w \in BOOLEAN
      PROVE  OneEnd(c, w)'
  <2>1. OneEnd(c, w)
    BY DEF EndInv
  <2>2. QED
    BY <2>1 DEF OneEnd, Carries
<1>4. QED
  BY <1>2, <1>3 DEF EndInv, FreePipe, EmptyPipe

\* A pipe that a process reads or writes is not free.
LEMMA InLivePipe ==
  ASSUME DescInv, EndInv, NEW p \in Procs, pi[p] # None
  PROVE  /\ pi[p] \in Pages /\ pipe[pi[p]].live /\ pc[p] \in Writing \cup Reading
         /\ pc[p] \in Writing => pipe[pi[p]].writeopen
         /\ pc[p] \in Reading => pipe[pi[p]].readopen
<1>1. /\ pc[p] \in Writing \cup Reading /\ pi[p] \in Pages
      /\ \E d \in Fds : /\ ofile[p][d] \in Files /\ file[ofile[p][d]].pipe = pi[p]
                        /\ file[ofile[p][d]].writable = (pc[p] \in Writing)
  BY DEF DescInv, CallInv, CallAt
<1>2. PICK f \in Files : /\ file[f].pipe = pi[p] /\ file[f].writable = (pc[p] \in Writing)
  BY <1>1
<1>3. file[f].ref > 0
  BY <1>1, <1>2, FileCount, Constants
<1>4. pc[p] \in Writing => EndOpen(pi[p], TRUE)
  BY <1>2, <1>3 DEF EndOpen
<1>5. pc[p] \in Reading => EndOpen(pi[p], FALSE)
  <2>1. pc[p] \in Reading => ~(pc[p] \in Writing)
    BY DEF Writing, Reading
  <2>2. ASSUME pc[p] \in Reading
        PROVE  file[f].writable = FALSE
    <3>1. (pc[p] \in Writing) = FALSE
      BY <2>1, <2>2
    <3>2. QED
      BY <1>2, <3>1
  <2>3. QED
    BY <1>2, <1>3, <2>2 DEF EndOpen
<1>6. QED
  BY <1>1, <1>4, <1>5 DEF EndInv

LEMMA TurnEnds ==
  ASSUME DescInv, EndInv, NEW p \in Procs, Turn(p)
  PROVE  EndInv'
<1>1. pipe[pi[p]].live
  <2>1. pi[p] # None
    BY Constants DEF Turn
  <2>2. QED
    BY <2>1, InLivePipe
<1>2. \A c \in Pages : /\ pipe'[c].readopen = pipe[c].readopen /\ pipe'[c].writeopen = pipe[c].writeopen
                       /\ pipe'[c].live = pipe[c].live
                       /\ ~pipe[c].live => pipe'[c] = pipe[c]
  BY <1>1 DEF Turn, Touches
<1>3. UNCHANGED <<file, ff>>
  BY DEF Turn, own
<1>4. QED
  BY <1>2, <1>3, SameEnds

LEMMA TurnLock ==
  ASSUME DescInv, LockInv, NEW p \in Procs, Turn(p)
  PROVE  LockInv'
<1>1. ASSUME NEW q \in Procs, NEW c \in Pages, pipe'[c].lock = q
      PROVE  pi'[q] = c /\ (pc'[q] \in Locking \/ (pc'[q] = "write" /\ i'[q] > 0))
  <2>1. CASE c = pi[p]
    BY <1>1, <2>1, Constants DEF Turn, Owns
  <2>2. CASE c # pi[p]
    <3>1. pi[q] = c /\ (pc[q] \in Locking \/ (pc[q] = "write" /\ i[q] > 0))
      BY <1>1, <2>2 DEF Turn, Touches, LockInv
    <3>2. q # p
      BY <2>2, <3>1
    <3>3. QED
      BY <3>1, <3>2 DEF Turn, Stays, Locking
  <2>3. QED
    BY <2>1, <2>2
<1>2. ASSUME NEW q \in Procs, pc'[q] \in Locking
      PROVE  pipe'[pi'[q]].lock = q
  <2>1. CASE q = p
    BY <1>2, <2>1, Constants DEF Turn, Owns
  <2>2. CASE q # p
    <3>1. pc[q] \in Locking /\ pi'[q] = pi[q]
      BY <1>2, <2>2 DEF Turn, Stays, Locking
    <3>2. pipe[pi[q]].lock = q
      BY <3>1 DEF LockInv
    <3>3. pi[q] \in Pages
      BY <3>1 DEF DescInv, CallInv, CallAt, Locking, Writing, Reading
    <3>4. pi[q] # pi[p]
      BY <2>2, <3>2, Constants DEF Turn, Owns
    <3>5. QED
      BY <3>1, <3>2, <3>3, <3>4 DEF Turn, Touches
  <2>3. QED
    BY <2>1, <2>2
<1>3. QED
  BY <1>1, <1>2 DEF LockInv

\* Why nobody sleeps in vain in p's pipe after the turn.
Sleeps(p, c) ==
  /\ pc'[p] = "r_sleep" => pipe'[c].writeopen /\ Empty(c)'
  /\ pc'[p] = "w_sleep" => pipe'[c].readopen /\ Full(c)'
  /\ pc'[p] = "r_asleep" => pipe'[c].writeopen
  /\ pc'[p] = "w_asleep" => pipe'[c].readopen
  /\ \A q \in Procs : pi'[q] = c /\ pc'[q] = "r_asleep" =>
       Empty(c)' \/ c \in cut' \/ (pipe'[c].lock = p /\ pc'[p] = "write")
  /\ \A q \in Procs : pi'[q] = c /\ pc'[q] = "w_asleep" =>
       Full(c)' \/ (pipe'[c].lock = p /\ pc'[p] = "copy")

LEMMA TurnSleep ==
  ASSUME DescInv, EndInv, LockInv, SleepInv, NEW p \in Procs, Turn(p),
         NEW c \in Pages, pi[p] = c, Sleeps(p, c)
  PROVE  SleepInv'
<1>1. c = pi[p] /\ Sleeps(p, c)
  OBVIOUS
<1>2. pipe[c].lock \in {p, None}
  BY <1>1 DEF Turn, Owns
<1>3. ASSUME NEW b \in Pages, b # c
      PROVE  /\ pipe'[b] = pipe[b] /\ (Empty(b)' <=> Empty(b)) /\ (Full(b)' <=> Full(b))
             /\ Busy(b, "write") => Busy(b, "write")'
             /\ Busy(b, "copy") => Busy(b, "copy")'
  <2>1. pipe'[b] = pipe[b]
    BY <1>1, <1>3 DEF Turn, Touches
  <2>2. ASSUME NEW r \in Procs, pipe[b].lock = r
        PROVE  pipe'[b].lock = r /\ (pc[r] \in {"write", "copy"} => pc'[r] = pc[r])
    <3>1. pi[r] = b
      BY <2>2 DEF LockInv
    <3>2. r # p
      BY <1>1, <1>3, <3>1
    <3>3. QED
      BY <2>1, <2>2, <3>2 DEF Turn, Stays
  <2>3. QED
    BY <2>1, <2>2 DEF Busy, Empty, Full
<1>4. ASSUME NEW q \in Procs, NEW b \in Pages, q # p, pi'[q] = b
      PROVE  SleepAt(q, b)'
  <2>1. Stays(q) /\ pi[q] = b /\ cut \subseteq cut' /\ SleepAt(q, b)
    BY <1>4 DEF Turn, SleepInv
  <2>2. CASE b = c
    <3>1. pipe'[c].writeopen = pipe[c].writeopen /\ pipe'[c].readopen = pipe[c].readopen
      BY <1>1 DEF Turn, Touches
    <3>2. pc[q] \notin Locking
      BY <1>1, <1>2, <1>4, <2>1, <2>2, Constants DEF LockInv
    <3>3. pc'[q] \notin {"r_sleep", "w_sleep"}
      BY <2>1, <3>2 DEF Stays, Locking
    <3>4. pc'[q] \in {"r_asleep", "w_asleep"} => pc[q] = pc'[q]
      BY <2>1 DEF Stays
    <3>5. pc'[q] = "r_asleep" => pipe'[c].writeopen
      BY <2>1, <2>2, <3>1, <3>4 DEF SleepAt
    <3>6. pc'[q] = "w_asleep" => pipe'[c].readopen
      BY <2>1, <2>2, <3>1, <3>4 DEF SleepAt
    <3>7. pc'[q] = "r_asleep" => Empty(c)' \/ c \in cut' \/ Busy(c, "write")'
      BY <1>1, <1>4, <2>2 DEF Sleeps, Busy
    <3>8. pc'[q] = "w_asleep" => Full(c)' \/ Busy(c, "copy")'
      BY <1>1, <1>4, <2>2 DEF Sleeps, Busy
    <3>9. QED
      BY <2>2, <3>3, <3>5, <3>6, <3>7, <3>8 DEF SleepAt
  <2>3. CASE b # c
    BY <1>3, <2>1, <2>3 DEF SleepAt, Stays
  <2>4. QED
    BY <2>2, <2>3
<1>5. ASSUME NEW b \in Pages, pi'[p] = b
      PROVE  SleepAt(p, b)'
  <2>1. CASE Leaves(p)
    BY <2>1 DEF Leaves, SleepAt
  <2>2. CASE GoesOn(p)
    <3>1. b = c /\ Sleeps(p, c)
      BY <1>1, <1>5, <2>2 DEF GoesOn
    <3>2. pc'[p] = "r_asleep" => Empty(c)' \/ c \in cut' \/ Busy(c, "write")'
      BY <1>5, <3>1 DEF Sleeps, Busy
    <3>3. pc'[p] = "w_asleep" => Full(c)' \/ Busy(c, "copy")'
      BY <1>5, <3>1 DEF Sleeps, Busy
    <3>4. QED
      BY <3>1, <3>2, <3>3 DEF Sleeps, SleepAt
  <2>3. QED
    BY <2>1, <2>2 DEF Turn
<1>6. QED
  BY <1>4, <1>5 DEF SleepInv

\* A turn keeps the invariant, if it leaves no more than PIPESIZE bytes.
Good(p) ==
  Turn(p) /\ \E c \in Pages : pi[p] = c /\ Sleeps(p, c) /\ Length(c)' <= PIPESIZE

LEMMA TurnInv ==
  ASSUME IInv, NEW p \in Procs, Good(p)
  PROVE  IInv'
<1>1. PICK c \in Pages : pi[p] = c /\ Sleeps(p, c) /\ Length(c)' <= PIPESIZE
  BY DEF Good
<1>2. Turn(p) /\ DescInv /\ EndInv /\ LockInv /\ SleepInv /\ RingInv
  BY DEF Good, IInv
<1>3. DescInv' /\ EndInv' /\ LockInv'
  BY <1>2, TurnDesc, TurnEnds, TurnLock
<1>4. SleepInv'
  BY <1>1, <1>2, TurnSleep
<1>5. RingInv'
  <2>1. ASSUME NEW b \in Pages, b # c
        PROVE  Length(b)' <= PIPESIZE
    <3>1. pipe'[b] = pipe[b]
      BY <1>1, <1>2, <2>1 DEF Turn, Touches
    <3>2. Length(b)' = Length(b)
      BY <3>1 DEF Length
    <3>3. QED
      BY <1>2, <3>2 DEF RingInv
  <2>2. QED
    BY <1>1, <2>1 DEF RingInv
<1>6. QED
  BY <1>3, <1>4, <1>5 DEF IInv

\* What can be said of a process in a pipe whose lock is its own or free.
LEMMA Waiters ==
  ASSUME IInv, NEW p \in Procs, NEW c \in Pages, pi[p] = c, pipe[c].lock \in {p, None}
  PROVE  /\ \A q \in Procs : pi[q] = c /\ pc[q] = "r_asleep" =>
              Empty(c) \/ c \in cut \/ (pipe[c].lock = p /\ pc[p] = "write")
         /\ \A q \in Procs : pi[q] = c /\ pc[q] = "w_asleep" =>
              Full(c) \/ (pipe[c].lock = p /\ pc[p] = "copy")
         /\ pipe[c].lock = p => pc[p] \in Locking \/ (pc[p] = "write" /\ i[p] > 0)
         /\ Length(c) <= PIPESIZE /\ pipe[c] \in PipeType
<1>1. Busy(c, "write") => pipe[c].lock = p /\ pc[p] = "write"
  BY Constants DEF Busy
<1>2. Busy(c, "copy") => pipe[c].lock = p /\ pc[p] = "copy"
  BY Constants DEF Busy
<1>3. \A q \in Procs : pi[q] = c => SleepAt(q, c)
  BY DEF IInv, SleepInv
<1>4. Length(c) <= PIPESIZE /\ pipe[c] \in PipeType
  BY DEF IInv, DescInv, TypeOK, PipeType, RingInv
<1>5. pipe[c].lock = p => pc[p] \in Locking \/ (pc[p] = "write" /\ i[p] > 0)
  BY DEF IInv, LockInv
<1>6. QED
  BY <1>1, <1>2, <1>3, <1>4, <1>5 DEF SleepAt

\* pi->lock is taken, kept or released, and nothing else in the pipe changes.
SameBytes ==
  \A c \in Pages : /\ pipe'[c].data = pipe[c].data
                   /\ pipe'[c].nread = pipe[c].nread /\ pipe'[c].nwrite = pipe[c].nwrite

LEMMA LockOnly ==
  ASSUME DescInv, NEW p \in Procs, NEW c \in Pages, pi[p] = c, NEW x \in Procs \cup {None},
         pipe' = [pipe EXCEPT ![c].lock = x]
  PROVE  Touches(p) /\ pipe'[c].lock = x /\ SameBytes
<1>1. pipe \in [Pages -> PipeType] /\ pipe[c] \in PipeType
  BY DEF DescInv, TypeOK, PipeType
<1>2. pipe' = [pipe EXCEPT ![c] = [pipe[c] EXCEPT !.lock = x]]
  OBVIOUS
<1>3. /\ [pipe[c] EXCEPT !.lock = x] \in PipeType /\ [pipe[c] EXCEPT !.lock = x].lock = x
      /\ [pipe[c] EXCEPT !.lock = x].readopen = pipe[c].readopen
      /\ [pipe[c] EXCEPT !.lock = x].writeopen = pipe[c].writeopen
      /\ [pipe[c] EXCEPT !.lock = x].live = pipe[c].live
      /\ [pipe[c] EXCEPT !.lock = x].data = pipe[c].data
      /\ [pipe[c] EXCEPT !.lock = x].nread = pipe[c].nread
      /\ [pipe[c] EXCEPT !.lock = x].nwrite = pipe[c].nwrite
  BY <1>1 DEF PipeType
<1> DEFINE e == [pipe[c] EXCEPT !.lock = x]
<1> HIDE DEF e
<1>4. pipe' = [pipe EXCEPT ![c] = e]
  BY <1>2 DEF e
<1>5. /\ e \in PipeType /\ e.lock = x /\ e.readopen = pipe[c].readopen
      /\ e.writeopen = pipe[c].writeopen /\ e.live = pipe[c].live
      /\ e.data = pipe[c].data /\ e.nread = pipe[c].nread /\ e.nwrite = pipe[c].nwrite
  BY <1>3 DEF e
<1>6. pipe'[c] = e /\ \A b \in Pages \ {c} : pipe'[b] = pipe[b]
  BY <1>1, <1>4
<1>7. Touches(p)
  BY <1>1, <1>4, <1>5, <1>6 DEF Touches
<1>8. QED
  BY <1>5, <1>6, <1>7 DEF SameBytes

\* Then the pipe is as empty and as full as before.
LEMMA SameRing ==
  ASSUME SameBytes, NEW c \in Pages
  PROVE  (Empty(c)' <=> Empty(c)) /\ (Full(c)' <=> Full(c)) /\ Length(c)' = Length(c)
BY DEF SameBytes, Empty, Full, Length

\* A wakeup, on what the step of a process makes of pc.
LEMMA Wakes ==
  ASSUME NEW c, NEW f \in [Procs -> Points]
  PROVE  /\ WakeReaders(c, f) \in [Procs -> Points] /\ WakeWriters(c, f) \in [Procs -> Points]
         /\ \A q \in Procs :
              /\ WakeReaders(c, f)[q] = IF f[q] = "r_asleep" /\ pi[q] = c THEN "read" ELSE f[q]
              /\ WakeWriters(c, f)[q] = IF f[q] = "w_asleep" /\ pi[q] = c THEN "write" ELSE f[q]
BY DEF WakeReaders, WakeWriters, Wakeup, Points

\* The call returns.
LEMMA Returns ==
  ASSUME IInv, NEW p \in Procs, NEW c \in Pages, pi[p] = c, pc[p] \in Writing \cup Reading,
         pipe[c].lock \in {p, None}, pipe' = [pipe EXCEPT ![pi[p]].lock = None],
         pc' \in [Procs -> Points], pc'[p] = "user", \A q \in Procs \ {p} : Stays(q),
         pi' = [pi EXCEPT ![p] = None], i' = [i EXCEPT ![p] = 0],
         cut' = cut \/ cut' = cut \cup {c}, UNCHANGED <<file, alive, killed, own>>
  PROVE  Turn(p) /\ SameBytes
<1>1. Touches(p) /\ pipe'[c].lock = None /\ SameBytes
  BY LockOnly DEF IInv
<1>2. /\ pi' \in [Procs -> Pages \cup {None}] /\ i' \in [Procs -> 0..Count]
      /\ pi'[p] = None /\ i'[p] = 0 /\ \A q \in Procs \ {p} : pi'[q] = pi[q] /\ i'[q] = i[q]
  BY Constants DEF IInv, DescInv, TypeOK
<1>3. Leaves(p)
  BY <1>2 DEF Leaves
<1>4. Owns(p)
  BY <1>1, Constants DEF Owns, Locking
<1>5. cut \subseteq cut' /\ cut' \subseteq Pages
  BY DEF IInv, DescInv, TypeOK
<1>6. QED
  BY <1>1, <1>2, <1>3, <1>4, <1>5 DEF Turn

\* The call goes on.
LEMMA Goes ==
  ASSUME IInv, NEW p \in Procs, NEW c \in Pages, pi[p] = c, pc[p] \in Writing \cup Reading,
         pipe[c].lock \in {p, None}, NEW x \in {p, None}, pipe' = [pipe EXCEPT ![pi[p]].lock = x],
         pc' \in [Procs -> Points],
         \/ pc[p] \in Writing /\ pc'[p] \in Writing
         \/ pc[p] \in Reading /\ pc'[p] \in Reading,
         \A q \in Procs \ {p} : Stays(q), UNCHANGED <<pi, i, cut, file, alive, killed, own>>,
         x = p <=> pc'[p] \in Locking
  PROVE  Turn(p) /\ SameBytes /\ pipe'[c].lock = x
<1>1. Touches(p) /\ pipe'[c].lock = x /\ SameBytes
  BY LockOnly DEF IInv
<1>2. /\ pi' \in [Procs -> Pages \cup {None}] /\ i' \in [Procs -> 0..Count] /\ cut' \subseteq Pages
      /\ i'[p] \in 0..Count /\ \A q \in Procs : pi'[q] = pi[q] /\ i'[q] = i[q]
  BY DEF IInv, DescInv, TypeOK
<1>3. GoesOn(p)
  BY <1>2 DEF GoesOn
<1>4. Owns(p)
  BY <1>1, <1>2 DEF Owns
<1>5. QED
  BY <1>1, <1>2, <1>3, <1>4 DEF Turn

\* The steps of pipewrite() and piperead(), and sleep().
LEMMA InCall ==
  ASSUME IInv, NEW p \in Procs, pc[p] \in Writing \cup Reading
  PROVE  \E c \in Pages : pi[p] = c
BY DEF IInv, DescInv, CallInv, CallAt

LEMMA WriteReturn ==
  ASSUME IInv, NEW p \in Procs, pipewrite_return(p)
  PROVE  Good(p) /\ SameBytes
<1>1. pc[p] = "write" /\ pc[p] \in Writing \cup Reading
  BY DEF pipewrite_return, At, Writing
<1>2. PICK c \in Pages : pi[p] = c
  BY <1>1, InCall
<1>3. /\ pipe[c].lock \in {p, None} /\ pipe' = [pipe EXCEPT ![pi[p]].lock = None]
      /\ pc' = [pc EXCEPT ![p] = "user"] /\ pi' = [pi EXCEPT ![p] = None] /\ i' = [i EXCEPT ![p] = 0]
      /\ cut' = IF i[p] > 0 THEN cut \cup {c} ELSE cut
      /\ UNCHANGED <<file, alive, killed, own>>
  BY <1>2 DEF pipewrite_return, Locks, Return
<1>4. pc' \in [Procs -> Points] /\ pc'[p] = "user" /\ \A q \in Procs \ {p} : pc'[q] = pc[q] /\ Stays(q)
  BY <1>3 DEF IInv, DescInv, TypeOK, Points, Stays
<1>5. Turn(p) /\ SameBytes
  BY <1>1, <1>2, <1>3, <1>4, Returns
<1>6. (Empty(c)' <=> Empty(c)) /\ (Full(c)' <=> Full(c)) /\ Length(c)' = Length(c)
  BY <1>5, SameRing
<1>7. /\ \A q \in Procs : pi[q] = c /\ pc[q] = "r_asleep" =>
           Empty(c) \/ c \in cut \/ (pipe[c].lock = p /\ pc[p] = "write")
      /\ \A q \in Procs : pi[q] = c /\ pc[q] = "w_asleep" =>
           Full(c) \/ (pipe[c].lock = p /\ pc[p] = "copy")
      /\ pipe[c].lock = p => pc[p] \in Locking \/ (pc[p] = "write" /\ i[p] > 0)
      /\ Length(c) <= PIPESIZE
  BY <1>2, <1>3, Waiters
<1>8. \A q \in Procs : pi'[q] = c => q # p /\ pi[q] = c
  BY <1>3, Constants DEF IInv, DescInv, TypeOK
<1>9. pipe[c].lock = p => c \in cut'
  BY <1>1, <1>3, <1>7 DEF Locking
<1>10. cut \subseteq cut'
  BY <1>3
<1>11. Sleeps(p, c)
  BY <1>1, <1>4, <1>6, <1>7, <1>8, <1>9, <1>10 DEF Sleeps
<1>12. QED
  BY <1>2, <1>5, <1>6, <1>7, <1>11 DEF Good

LEMMA WriteEnd ==
  ASSUME IInv, NEW p \in Procs, pipewrite_end(p)
  PROVE  Good(p) /\ SameBytes
<1>1. pc[p] = "write" /\ pc[p] \in Writing \cup Reading
  BY DEF pipewrite_end, At, Writing
<1>2. PICK c \in Pages : pi[p] = c
  BY <1>1, InCall
<1>3. /\ pipe[c].lock \in {p, None} /\ pipe' = [pipe EXCEPT ![pi[p]].lock = None]
      /\ pc' = [WakeReaders(c, pc) EXCEPT ![p] = "user"]
      /\ pi' = [pi EXCEPT ![p] = None] /\ i' = [i EXCEPT ![p] = 0]
      /\ UNCHANGED <<cut, file, alive, killed, own>>
  BY <1>2 DEF pipewrite_end, Locks, Return
<1>4. /\ pc' \in [Procs -> Points] /\ pc'[p] = "user"
      /\ \A q \in Procs \ {p} : /\ pc'[q] = IF pc[q] = "r_asleep" /\ pi[q] = c THEN "read" ELSE pc[q]
                                /\ Stays(q)
  <2>1. pc \in [Procs -> Points]
    BY DEF IInv, DescInv, TypeOK
  <2>2. /\ WakeReaders(c, pc) \in [Procs -> Points]
        /\ \A q \in Procs :
             WakeReaders(c, pc)[q] = IF pc[q] = "r_asleep" /\ pi[q] = c THEN "read" ELSE pc[q]
    BY <2>1, Wakes
  <2>3. QED
    BY <1>3, <2>2 DEF Points, Stays
<1>5. Turn(p) /\ SameBytes
  BY <1>1, <1>2, <1>3, <1>4, Returns
<1>6. (Empty(c)' <=> Empty(c)) /\ (Full(c)' <=> Full(c)) /\ Length(c)' = Length(c)
  BY <1>5, SameRing
<1>7. /\ \A q \in Procs : pi[q] = c /\ pc[q] = "w_asleep" =>
           Full(c) \/ (pipe[c].lock = p /\ pc[p] = "copy")
      /\ Length(c) <= PIPESIZE
  BY <1>2, <1>3, Waiters
<1>8. \A q \in Procs : pi'[q] = c => q # p /\ pi[q] = c
  BY <1>3, Constants DEF IInv, DescInv, TypeOK
<1>9. \A q \in Procs : pi'[q] = c => pc'[q] # "r_asleep" /\ (pc'[q] = "w_asleep" => pc[q] = "w_asleep")
  BY <1>4, <1>8
<1>10. Sleeps(p, c)
  BY <1>1, <1>4, <1>6, <1>7, <1>8, <1>9 DEF Sleeps
<1>11. QED
  BY <1>2, <1>5, <1>6, <1>7, <1>10 DEF Good

LEMMA WriteFull ==
  ASSUME IInv, NEW p \in Procs, pipewrite_full(p)
  PROVE  Good(p) /\ SameBytes
<1>1. pc[p] = "write" /\ pc[p] \in Writing
  BY DEF pipewrite_full, At, Writing
<1>2. PICK c \in Pages : pi[p] = c
  BY <1>1, InCall
<1>3. /\ pipe[c].lock \in {p, None} /\ pipe' = [pipe EXCEPT ![pi[p]].lock = p]
      /\ pc' = WakeReaders(c, [pc EXCEPT ![p] = "w_sleep"])
      /\ pipe[c].readopen /\ Full(c)
      /\ UNCHANGED <<pi, i, cut, file, alive, killed, own>>
  BY <1>2 DEF pipewrite_full, Locks
<1>4. /\ pc' \in [Procs -> Points] /\ pc'[p] = "w_sleep"
      /\ \A q \in Procs \ {p} : /\ pc'[q] = IF pc[q] = "r_asleep" /\ pi[q] = c THEN "read" ELSE pc[q]
                                /\ Stays(q)
  <2>1. PICK f : f = [pc EXCEPT ![p] = "w_sleep"]
    OBVIOUS
  <2>2. f \in [Procs -> Points] /\ f[p] = "w_sleep" /\ \A q \in Procs \ {p} : f[q] = pc[q]
    BY <2>1 DEF IInv, DescInv, TypeOK, Points
  <2>3. /\ WakeReaders(c, f) \in [Procs -> Points]
        /\ \A q \in Procs :
             WakeReaders(c, f)[q] = IF f[q] = "r_asleep" /\ pi[q] = c THEN "read" ELSE f[q]
    BY <2>2, Wakes
  <2>4. QED
    BY <1>3, <2>1, <2>2, <2>3 DEF Stays
<1>5. Turn(p) /\ SameBytes
  <2>1. pc'[p] \in Writing /\ pc'[p] \in Locking /\ p \in {p, None}
    BY <1>4 DEF Writing, Locking
  <2>2. QED
    BY <1>1, <1>2, <1>3, <1>4, <2>1, Goes
<1>6. (Empty(c)' <=> Empty(c)) /\ (Full(c)' <=> Full(c)) /\ Length(c)' = Length(c)
  BY <1>5, SameRing
<1>7. Length(c) <= PIPESIZE /\ pipe'[c].readopen = pipe[c].readopen
  BY <1>2, <1>3, <1>5, Waiters DEF Turn, Touches
<1>8. \A q \in Procs : pi'[q] = c => pc'[q] # "r_asleep"
  BY <1>3, <1>4
<1>9. Sleeps(p, c)
  BY <1>3, <1>4, <1>6, <1>7, <1>8 DEF Sleeps
<1>10. QED
  BY <1>2, <1>5, <1>6, <1>7, <1>9 DEF Good

LEMMA ReadWait ==
  ASSUME IInv, NEW p \in Procs, piperead_wait(p)
  PROVE  Good(p) /\ SameBytes
<1>1. pc[p] = "read" /\ pc[p] \in Reading
  BY DEF piperead_wait, At, Reading
<1>2. PICK c \in Pages : pi[p] = c
  BY <1>1, InCall
<1>3. /\ pipe[c].lock \in {p, None} /\ Empty(c) /\ pipe[c].writeopen
      /\ UNCHANGED <<cut, file, alive, killed, own>>
  BY <1>2 DEF piperead_wait, Locks
<1>4. /\ \A q \in Procs : pi[q] = c /\ pc[q] = "w_asleep" =>
           Full(c) \/ (pipe[c].lock = p /\ pc[p] = "copy")
      /\ Length(c) <= PIPESIZE
  BY <1>2, <1>3, Waiters
<1>5. CASE p \in killed
  <2>1. /\ pipe' = [pipe EXCEPT ![pi[p]].lock = None] /\ pc' = [pc EXCEPT ![p] = "user"]
        /\ pi' = [pi EXCEPT ![p] = None] /\ i' = [i EXCEPT ![p] = 0]
    BY <1>5 DEF piperead_wait, Return
  <2>2. pc' \in [Procs -> Points] /\ pc'[p] = "user" /\ \A q \in Procs \ {p} : pc'[q] = pc[q] /\ Stays(q)
    BY <2>1 DEF IInv, DescInv, TypeOK, Points, Stays
  <2>3. Turn(p) /\ SameBytes
    BY <1>1, <1>2, <1>3, <2>1, <2>2, Returns
  <2>4. (Empty(c)' <=> Empty(c)) /\ (Full(c)' <=> Full(c)) /\ Length(c)' = Length(c)
    BY <2>3, SameRing
  <2>5. \A q \in Procs : pi'[q] = c => q # p /\ pi[q] = c
    BY <2>1, Constants DEF IInv, DescInv, TypeOK
  <2>6. Sleeps(p, c)
    BY <1>1, <1>3, <1>4, <2>2, <2>4, <2>5 DEF Sleeps
  <2>7. QED
    BY <1>2, <1>4, <2>3, <2>4, <2>6 DEF Good
<1>6. CASE p \notin killed
  <2>1. /\ pipe' = [pipe EXCEPT ![pi[p]].lock = p] /\ pc' = [pc EXCEPT ![p] = "r_sleep"]
        /\ UNCHANGED <<pi, i>>
    BY <1>6 DEF piperead_wait, Goto
  <2>2. /\ pc' \in [Procs -> Points] /\ pc'[p] = "r_sleep"
        /\ \A q \in Procs \ {p} : pc'[q] = pc[q] /\ Stays(q)
    BY <2>1 DEF IInv, DescInv, TypeOK, Points, Stays
  <2>3. Turn(p) /\ SameBytes
    <3>1. pc'[p] \in Reading /\ pc'[p] \in Locking /\ p \in {p, None}
      BY <2>2 DEF Reading, Locking
    <3>2. QED
      BY <1>1, <1>2, <1>3, <2>1, <2>2, <3>1, Goes
  <2>4. (Empty(c)' <=> Empty(c)) /\ (Full(c)' <=> Full(c)) /\ Length(c)' = Length(c)
    BY <2>3, SameRing
  <2>5. pipe'[c].writeopen = pipe[c].writeopen
    BY <1>2, <2>3 DEF Turn, Touches
  <2>6. Sleeps(p, c)
    BY <1>1, <1>3, <1>4, <2>1, <2>2, <2>4, <2>5 DEF Sleeps
  <2>7. QED
    BY <1>2, <1>4, <2>3, <2>4, <2>6 DEF Good
<1>7. QED
  BY <1>5, <1>6

LEMMA ReadGo ==
  ASSUME IInv, NEW p \in Procs, piperead_go(p)
  PROVE  Good(p) /\ SameBytes
<1>1. pc[p] = "read" /\ pc[p] \in Reading
  BY DEF piperead_go, At, Reading
<1>2. PICK c \in Pages : pi[p] = c
  BY <1>1, InCall
<1>3. /\ pipe[c].lock \in {p, None} /\ pipe' = [pipe EXCEPT ![pi[p]].lock = p]
      /\ pc' = [pc EXCEPT ![p] = "copy"] /\ UNCHANGED <<pi, i, cut, file, alive, killed, own>>
  BY <1>2 DEF piperead_go, Locks, Goto
<1>4. pc' \in [Procs -> Points] /\ pc'[p] = "copy" /\ \A q \in Procs \ {p} : pc'[q] = pc[q] /\ Stays(q)
  BY <1>3 DEF IInv, DescInv, TypeOK, Points, Stays
<1>5. Turn(p) /\ SameBytes
  <2>1. pc'[p] \in Reading /\ pc'[p] \in Locking /\ p \in {p, None}
    BY <1>4 DEF Reading, Locking
  <2>2. QED
    BY <1>1, <1>2, <1>3, <1>4, <2>1, Goes
<1>6. (Empty(c)' <=> Empty(c)) /\ (Full(c)' <=> Full(c)) /\ Length(c)' = Length(c)
  BY <1>5, SameRing
<1>7. /\ \A q \in Procs : pi[q] = c /\ pc[q] = "r_asleep" =>
           Empty(c) \/ c \in cut \/ (pipe[c].lock = p /\ pc[p] = "write")
      /\ \A q \in Procs : pi[q] = c /\ pc[q] = "w_asleep" =>
           Full(c) \/ (pipe[c].lock = p /\ pc[p] = "copy")
      /\ Length(c) <= PIPESIZE
  BY <1>2, <1>3, Waiters
<1>8. Sleeps(p, c)
  BY <1>1, <1>3, <1>4, <1>6, <1>7 DEF Sleeps
<1>9. QED
  BY <1>2, <1>5, <1>6, <1>7, <1>8 DEF Good

LEMMA ReadEnd ==
  ASSUME IInv, NEW p \in Procs, piperead_end(p)
  PROVE  Good(p) /\ SameBytes
<1>1. pc[p] = "copy" /\ pc[p] \in Reading /\ pc[p] \in Locking
  BY DEF piperead_end, At, Reading, Locking
<1>2. PICK c \in Pages : pi[p] = c
  BY <1>1, InCall
<1>3. /\ pipe[c].lock = p /\ pipe' = [pipe EXCEPT ![pi[p]].lock = None]
      /\ pc' = [WakeWriters(c, pc) EXCEPT ![p] = "user"]
      /\ pi' = [pi EXCEPT ![p] = None] /\ i' = [i EXCEPT ![p] = 0]
      /\ UNCHANGED <<cut, file, alive, killed, own>>
  BY <1>1, <1>2 DEF piperead_end, Return, IInv, LockInv
<1>4. /\ pc' \in [Procs -> Points] /\ pc'[p] = "user"
      /\ \A q \in Procs \ {p} : /\ pc'[q] = IF pc[q] = "w_asleep" /\ pi[q] = c THEN "write" ELSE pc[q]
                                /\ Stays(q)
  <2>1. pc \in [Procs -> Points]
    BY DEF IInv, DescInv, TypeOK
  <2>2. /\ WakeWriters(c, pc) \in [Procs -> Points]
        /\ \A q \in Procs :
             WakeWriters(c, pc)[q] = IF pc[q] = "w_asleep" /\ pi[q] = c THEN "write" ELSE pc[q]
    BY <2>1, Wakes
  <2>3. QED
    BY <1>3, <2>2 DEF Points, Stays
<1>5. Turn(p) /\ SameBytes
  BY <1>1, <1>2, <1>3, <1>4, Returns
<1>6. (Empty(c)' <=> Empty(c)) /\ (Full(c)' <=> Full(c)) /\ Length(c)' = Length(c)
  BY <1>5, SameRing
<1>7. /\ \A q \in Procs : pi[q] = c /\ pc[q] = "r_asleep" =>
           Empty(c) \/ c \in cut \/ (pipe[c].lock = p /\ pc[p] = "write")
      /\ Length(c) <= PIPESIZE
  BY <1>2, <1>3, Waiters
<1>8. \A q \in Procs : pi'[q] = c => q # p /\ pi[q] = c
  BY <1>3, Constants DEF IInv, DescInv, TypeOK
<1>9. \A q \in Procs : pi'[q] = c => pc'[q] # "w_asleep" /\ (pc'[q] = "r_asleep" => pc[q] = "r_asleep")
  BY <1>4, <1>8
<1>10. Sleeps(p, c)
  BY <1>1, <1>3, <1>4, <1>6, <1>7, <1>8, <1>9 DEF Sleeps
<1>11. QED
  BY <1>2, <1>5, <1>6, <1>7, <1>10 DEF Good

LEMMA SleepStep ==
  ASSUME IInv, NEW p \in Procs, sleep(p)
  PROVE  Good(p) /\ SameBytes
<1>1. pc[p] \in {"w_sleep", "r_sleep"} /\ pc[p] \in Writing \cup Reading /\ pc[p] \in Locking
  BY DEF sleep, Writing, Reading, Locking
<1>2. PICK c \in Pages : pi[p] = c
  BY <1>1, InCall
<1>3. /\ pipe[c].lock = p /\ pipe' = [pipe EXCEPT ![pi[p]].lock = None]
      /\ pc' = [pc EXCEPT ![p] = IF pc[p] = "w_sleep" THEN "w_asleep" ELSE "r_asleep"]
      /\ UNCHANGED <<pi, i, cut, file, alive, killed, own>>
  BY <1>1, <1>2 DEF sleep, Goto, IInv, LockInv
<1>4. /\ pc' \in [Procs -> Points]
      /\ pc'[p] = IF pc[p] = "w_sleep" THEN "w_asleep" ELSE "r_asleep"
      /\ \A q \in Procs \ {p} : pc'[q] = pc[q] /\ Stays(q)
  BY <1>3 DEF IInv, DescInv, TypeOK, Points, Stays
<1>5. Turn(p) /\ SameBytes
  <2>1. /\ \/ pc[p] \in Writing /\ pc'[p] \in Writing
           \/ pc[p] \in Reading /\ pc'[p] \in Reading
        /\ pc'[p] \notin Locking /\ None \in {p, None}
    BY <1>1, <1>4 DEF Writing, Reading, Locking
  <2>2. None = p <=> pc'[p] \in Locking
    BY <2>1, Constants
  <2>3. QED
    BY <1>1, <1>2, <1>3, <1>4, <2>1, <2>2, Goes
<1>6. (Empty(c)' <=> Empty(c)) /\ (Full(c)' <=> Full(c)) /\ Length(c)' = Length(c)
  BY <1>5, SameRing
<1>7. /\ \A q \in Procs : pi[q] = c /\ pc[q] = "r_asleep" =>
           Empty(c) \/ c \in cut \/ (pipe[c].lock = p /\ pc[p] = "write")
      /\ \A q \in Procs : pi[q] = c /\ pc[q] = "w_asleep" =>
           Full(c) \/ (pipe[c].lock = p /\ pc[p] = "copy")
      /\ Length(c) <= PIPESIZE
  BY <1>2, <1>3, Waiters
<1>8. SleepAt(p, c)
  BY <1>2 DEF IInv, SleepInv
<1>9. pipe'[c].readopen = pipe[c].readopen /\ pipe'[c].writeopen = pipe[c].writeopen
  BY <1>2, <1>5 DEF Turn, Touches
<1>10. Sleeps(p, c)
  <2>1. CASE pc[p] = "w_sleep"
    <3>1. pipe[c].readopen /\ Full(c) /\ pc'[p] = "w_asleep"
      BY <1>4, <1>8, <2>1 DEF SleepAt
    <3>2. QED
      BY <1>3, <1>4, <1>6, <1>7, <1>9, <2>1, <3>1 DEF Sleeps
  <2>2. CASE pc[p] = "r_sleep"
    <3>1. pipe[c].writeopen /\ Empty(c) /\ pc'[p] = "r_asleep"
      BY <1>4, <1>8, <2>2 DEF SleepAt
    <3>2. QED
      BY <1>3, <1>4, <1>6, <1>7, <1>9, <2>2, <3>1 DEF Sleeps
  <2>3. QED
    BY <1>1, <2>1, <2>2
<1>11. QED
  BY <1>2, <1>5, <1>6, <1>7, <1>10 DEF Good

-----------------------------------------------------------------------------
(* The ring: its counters wrap around at a multiple of PIPESIZE.           *)

\* The position a counter stands for, the counter after one, and how far apart two are.
Pos(x)     == x % PIPESIZE
Succ(x)    == (x + 1) % Counters
Dist(x, y) == (x - y) % Counters

\* Division by PIPESIZE: quotient and remainder, and that they are unique.
LEMMA Division ==
  ASSUME NEW x \in Int
  PROVE  /\ x \div PIPESIZE \in Int /\ x % PIPESIZE \in 0..PIPESIZE - 1
         /\ x = PIPESIZE * (x \div PIPESIZE) + (x % PIPESIZE)
         /\ \A q \in Int, r \in 0..PIPESIZE - 1 : x = PIPESIZE * q + r => x % PIPESIZE = r
<1>1. x \div PIPESIZE \in Int /\ x % PIPESIZE \in 0..PIPESIZE - 1 /\ x = PIPESIZE * (x \div PIPESIZE) + (x % PIPESIZE)
  BY Constants
<1>2. ASSUME NEW q \in Int, NEW r \in 0..PIPESIZE - 1, x = PIPESIZE * q + r
      PROVE  x % PIPESIZE = r
  BY <1>2, Constants
<1>3. QED
  BY <1>1, <1>2

\* Positions that are less than PIPESIZE apart are different in a ring of PIPESIZE bytes.
LEMMA Apart ==
  ASSUME NEW x \in Nat, NEW y \in Nat, x < y, y < x + PIPESIZE
  PROVE  x % PIPESIZE # y % PIPESIZE
<1> DEFINE q == x \div PIPESIZE
           r == x % PIPESIZE
<1>1. q \in Int /\ r \in 0..PIPESIZE - 1 /\ x = PIPESIZE * q + r
  BY Division
<1> HIDE DEF q
<1>2. CASE r + (y - x) < PIPESIZE
  <2>1. y = PIPESIZE * q + (r + (y - x)) /\ r + (y - x) \in 0..PIPESIZE - 1
    BY <1>1, <1>2, Constants
  <2>2. y % PIPESIZE = r + (y - x)
    BY <1>1, <2>1, Division
  <2>3. QED
    BY <1>1, <2>2
<1>3. CASE r + (y - x) >= PIPESIZE
  <2>1. r + (y - x) - PIPESIZE \in 0..PIPESIZE - 1
    BY <1>1, <1>3, Constants
  <2>2. PIPESIZE * (q + 1) = PIPESIZE * q + PIPESIZE
    BY <1>1, Constants
  <2>3. y = PIPESIZE * (q + 1) + (r + (y - x) - PIPESIZE)
    BY <1>1, <2>2, Constants
  <2>4. y % PIPESIZE = r + (y - x) - PIPESIZE
    BY <1>1, <2>1, <2>3, Division
  <2>5. QED
    BY <1>1, <2>4, Constants
<1>4. QED
  BY <1>1, <1>2, <1>3, Constants

\* Counters is a multiple of PIPESIZE, so a counter that wraps around stays at its position.
LEMMA WrapsInStep ==
  ASSUME NEW x \in Nat
  PROVE  (Counters + x) % PIPESIZE = x % PIPESIZE
<1> DEFINE q == Counters \div PIPESIZE
           p == x \div PIPESIZE
           r == x % PIPESIZE
<1>1. q \in Int /\ Counters = PIPESIZE * q
  <2>1. Counters \in Int /\ Counters % PIPESIZE = 0
    BY Constants
  <2>2. q \in Int /\ Counters = PIPESIZE * q + (Counters % PIPESIZE)
    BY <2>1, Division
  <2> HIDE DEF q
  <2>3. PIPESIZE * q \in Int
    BY <2>2, Constants
  <2>4. QED
    BY <2>1, <2>2, <2>3
<1>2. p \in Int /\ r \in 0..PIPESIZE - 1 /\ x = PIPESIZE * p + r
  BY Division
<1> HIDE DEF q, p, r
<1>3. PIPESIZE * (q + p) = PIPESIZE * q + PIPESIZE * p
  BY <1>1, <1>2, Constants
<1>4. Counters + x = PIPESIZE * (q + p) + r /\ q + p \in Int /\ Counters + x \in Int
  BY <1>1, <1>2, <1>3, Constants
<1>5. (Counters + x) % PIPESIZE = r
  BY <1>2, <1>4, Division
<1>6. QED
  BY <1>5 DEF r

\* A remainder, for numbers of at most the divisor.
LEMMA Remainder ==
  ASSUME NEW x \in Int
  PROVE  /\ x % Counters \in 0..Counters - 1
         /\ x \in 0..Counters - 1 => x % Counters = x
         /\ x = Counters => x % Counters = 0
         /\ x < 0 /\ -Counters <= x => x % Counters = x + Counters
<1>1. x % Counters \in 0..Counters - 1
  BY Constants
<1>2. x \in 0..Counters - 1 => x % Counters = x
  BY Constants
<1>3. x = Counters => x % Counters = 0
  BY Constants
<1>4. x < 0 /\ -Counters <= x => x % Counters = x + Counters
  BY Constants
<1>5. QED
  BY <1>1, <1>2, <1>3, <1>4

\* The successor of a counter, and the distance of two.
LEMMA Distance ==
  ASSUME NEW m \in 0..Counters - 1, NEW n \in 0..Counters - 1
  PROVE  /\ (m + 1) % Counters = IF m + 1 = Counters THEN 0 ELSE m + 1
         /\ (m - n) % Counters = IF m >= n THEN m - n ELSE m - n + Counters
<1>1. m + 1 = Counters \/ m + 1 \in 0..Counters - 1
  BY Constants
<1>2. m >= n => m - n \in 0..Counters - 1
  BY Constants
<1>3. m < n => m - n < 0 /\ -Counters <= m - n
  BY Constants
<1>4. m \in Int /\ n \in Int /\ m + 1 \in Int /\ m - n \in Int /\ (m < n \/ m >= n)
  BY Constants
<1>5. (m + 1) % Counters = IF m + 1 = Counters THEN 0 ELSE m + 1
  <2>1. CASE m + 1 = Counters
    BY <1>4, <2>1, Remainder
  <2>2. CASE m + 1 # Counters
    <3>1. m + 1 \in 0..Counters - 1
      BY <1>1, <2>2
    <3>2. QED
      BY <1>4, <2>2, <3>1, Remainder
  <2>3. QED
    BY <2>1, <2>2
<1>6. CASE m >= n
  <2>1. (m - n) % Counters = m - n
    BY <1>2, <1>4, <1>6, Remainder
  <2>2. QED
    BY <1>5, <1>6, <2>1
<1>7. CASE m < n
  <2>1. (m - n) % Counters = m - n + Counters
    BY <1>3, <1>4, <1>7, Remainder
  <2>2. ~(m >= n)
    BY <1>4, <1>7
  <2>3. QED
    BY <1>5, <2>1, <2>2
<1>8. QED
  BY <1>4, <1>6, <1>7

\* One counter is advanced: the distance grows, or shrinks, by one.
LEMMA Advance ==
  ASSUME NEW m \in 0..Counters - 1, NEW n \in 0..Counters - 1
  PROVE  /\ Dist(m, n) \in 0..Counters - 1 /\ (m = n <=> Dist(m, n) = 0)
         /\ Succ(m) \in 0..Counters - 1
         /\ Dist(m, n) + 1 < Counters => Dist(Succ(m), n) = Dist(m, n) + 1
         /\ m # n => Dist(m, Succ(n)) = Dist(m, n) - 1
<1>0. \A x \in 0..Counters - 1, y \in 0..Counters - 1 :
        /\ Succ(x) = IF x + 1 = Counters THEN 0 ELSE x + 1
        /\ Dist(x, y) = IF x >= y THEN x - y ELSE x - y + Counters
  BY Distance DEF Succ, Dist
<1>1. /\ Dist(m, n) = IF m >= n THEN m - n ELSE m - n + Counters
      /\ Succ(m) = IF m + 1 = Counters THEN 0 ELSE m + 1
      /\ Succ(n) = IF n + 1 = Counters THEN 0 ELSE n + 1
  BY <1>0
<1>2. /\ Dist(m, n) \in 0..Counters - 1 /\ (m = n <=> Dist(m, n) = 0)
      /\ Succ(m) \in 0..Counters - 1 /\ Succ(n) \in 0..Counters - 1
  BY <1>1, Constants
<1>3. ASSUME Dist(m, n) + 1 < Counters
      PROVE  Dist(Succ(m), n) = Dist(m, n) + 1
  <2>1. Dist(Succ(m), n) = IF Succ(m) >= n THEN Succ(m) - n ELSE Succ(m) - n + Counters
    BY <1>0, <1>2
  <2>2. QED
    BY <1>1, <1>2, <1>3, <2>1, Constants
<1>4. ASSUME m # n
      PROVE  Dist(m, Succ(n)) = Dist(m, n) - 1
  <2>1. Dist(m, Succ(n)) = IF m >= Succ(n) THEN m - Succ(n) ELSE m - Succ(n) + Counters
    BY <1>0, <1>2
  <2>2. QED
    BY <1>1, <1>2, <1>4, <2>1, Constants
<1>5. QED
  BY <1>2, <1>3, <1>4

\* Positions in a ring are in it, whether the counters wrap around or not.
LEMMA Position ==
  ASSUME NEW x \in 0..Counters - 1, NEW k \in Nat
  PROVE  /\ x + k \in Nat /\ Pos(x + k) \in 0..PIPESIZE - 1 /\ Pos(x) \in 0..PIPESIZE - 1
         /\ Pos(Succ(x) + k) = Pos(x + 1 + k)
<1>1. x \in Nat /\ x + k \in Nat /\ x + k \in Int /\ x \in Int
  BY Constants
<1>2. Pos(x + k) \in 0..PIPESIZE - 1 /\ Pos(x) \in 0..PIPESIZE - 1
  BY <1>1, Division, Constants DEF Pos
<1>3. Pos(Succ(x) + k) = Pos(x + 1 + k)
  <2>1. CASE x + 1 # Counters
    <3>1. Succ(x) = x + 1
      BY <2>1, Distance DEF Succ
    <3>2. QED
      BY <3>1
  <2>2. CASE x + 1 = Counters
    <3>1. Succ(x) = 0
      BY <2>2, Distance DEF Succ
    <3>2. Pos(Counters + k) = Pos(k)
      BY WrapsInStep DEF Pos
    <3>3. 0 + k = k
      OBVIOUS
    <3>4. QED
      BY <2>2, <3>1, <3>2, <3>3
  <2>3. QED
    BY <2>1, <2>2
<1>4. QED
  BY <1>1, <1>2, <1>3

\* The place of the next byte.
LEMMA RingEnd ==
  ASSUME NEW m \in 0..Counters - 1, NEW n \in 0..Counters - 1
  PROVE  Pos(m) = Pos(n + Dist(m, n))
<1>1. Dist(m, n) = IF m >= n THEN m - n ELSE m - n + Counters
  BY Distance DEF Dist
<1>2. CASE m >= n
  <2>1. n + Dist(m, n) = m
    BY <1>1, <1>2, Constants
  <2>2. QED
    BY <2>1
<1>3. CASE ~(m >= n)
  <2>1. n + Dist(m, n) = Counters + m /\ m \in Nat
    BY <1>1, <1>3, Constants
  <2>2. Pos(Counters + m) = Pos(m)
    BY <2>1, WrapsInStep DEF Pos
  <2>3. QED
    BY <2>1, <2>2
<1>4. QED
  BY <1>2, <1>3

\* The writer is PIPESIZE bytes ahead of the reader when the pipe is full.
LEMMA FullLength ==
  ASSUME NEW x \in 0..Counters - 1, NEW y \in 0..Counters - 1
  PROVE  x = (y + PIPESIZE) % Counters <=> Dist(x, y) = PIPESIZE
<1>1. /\ Dist(x, y) = IF x >= y THEN x - y ELSE x - y + Counters
  BY Distance DEF Dist
<1>2. y + PIPESIZE \in Int /\ y + PIPESIZE - Counters \in Int
  BY Constants
<1>3. CASE y + PIPESIZE < Counters
  <2>1. (y + PIPESIZE) % Counters = y + PIPESIZE
    <3>1. y + PIPESIZE \in 0..Counters - 1
      BY <1>3, Constants
    <3>2. QED
      BY <1>2, <3>1, Remainder
  <2>2. QED
    BY <1>1, <1>3, <2>1, Constants
<1>4. CASE ~(y + PIPESIZE < Counters)
  <2>1. (y + PIPESIZE) % Counters = y + PIPESIZE - Counters
    <3>1. y + PIPESIZE - Counters \in 0..Counters - 1
      BY <1>4, Constants
    <3>2. PICK z \in 0..Counters - 1 : z = y + PIPESIZE - Counters
      BY <3>1
    <3>3. z \in Int /\ y + PIPESIZE = Counters + z
      BY <3>2, Constants
    <3>4. (Counters + z) % Counters = z
      BY <3>2, Constants
    <3>5. QED
      BY <3>2, <3>3, <3>4
  <2>2. QED
    BY <1>1, <1>4, <2>1, Constants
<1>5. QED
  BY <1>3, <1>4

\* A byte is put behind the others.
Stored(c, ch, x) ==
  /\ pipe' \in [Pages -> PipeType]
  /\ \A b \in Pages \ {c} : pipe'[b] = pipe[b]
  /\ pipe'[c].data = [pipe[c].data EXCEPT ![Pos(pipe[c].nwrite)] = ch]
  /\ pipe'[c].nwrite = Succ(pipe[c].nwrite) /\ pipe'[c].nread = pipe[c].nread /\ pipe'[c].lock = x
  /\ pipe'[c].readopen = pipe[c].readopen /\ pipe'[c].writeopen = pipe[c].writeopen
  /\ pipe'[c].live = pipe[c].live

LEMMA ByteStored ==
  ASSUME DescInv, NEW c \in Pages, NEW ch \in Byte, NEW p \in Procs,
         pipe' = [pipe EXCEPT ![c].data[pipe[c].nwrite % PIPESIZE] = ch,
                              ![c].nwrite = (pipe[c].nwrite + 1) % Counters, ![c].lock = p]
  PROVE  Stored(c, ch, p)
<1>1. pipe \in [Pages -> PipeType] /\ pipe[c] \in PipeType
  BY DEF DescInv, TypeOK, PipeType
<1>2. PICK k \in 0..PIPESIZE - 1, n \in 0..Counters - 1 :
        k = pipe[c].nwrite % PIPESIZE /\ n = (pipe[c].nwrite + 1) % Counters
  <2>1. pipe[c].nwrite \in 0..Counters - 1
    BY <1>1 DEF PipeType
  <2>2. pipe[c].nwrite % PIPESIZE \in 0..PIPESIZE - 1
    BY <2>1, Constants
  <2>3. (pipe[c].nwrite + 1) % Counters \in 0..Counters - 1
    BY <2>1, Constants
  <2>4. QED
    BY <2>2, <2>3
<1>3. PICK d \in [0..PIPESIZE - 1 -> Byte] : d = [pipe[c].data EXCEPT ![k] = ch]
  BY <1>1 DEF PipeType
<1>4. PICK e1 : e1 = [pipe[c] EXCEPT !.data = d]
  OBVIOUS
<1>5. PICK e2 : e2 = [e1 EXCEPT !.nwrite = n]
  OBVIOUS
<1>6. PICK e3 : e3 = [e2 EXCEPT !.lock = p]
  OBVIOUS
<1>7. /\ e1 \in PipeType /\ e1.data = d /\ e1.nwrite = pipe[c].nwrite /\ e1.nread = pipe[c].nread
      /\ e1.readopen = pipe[c].readopen /\ e1.writeopen = pipe[c].writeopen /\ e1.live = pipe[c].live
  BY <1>1, <1>4 DEF PipeType
<1>8. /\ e2 \in PipeType /\ e2.data = d /\ e2.nwrite = n /\ e2.nread = pipe[c].nread
      /\ e2.readopen = pipe[c].readopen /\ e2.writeopen = pipe[c].writeopen /\ e2.live = pipe[c].live
  BY <1>5, <1>7 DEF PipeType
<1>9. /\ e3 \in PipeType /\ e3.data = d /\ e3.nwrite = n /\ e3.nread = pipe[c].nread /\ e3.lock = p
      /\ e3.readopen = pipe[c].readopen /\ e3.writeopen = pipe[c].writeopen /\ e3.live = pipe[c].live
  BY <1>6, <1>8 DEF PipeType
<1>10. pipe' = [pipe EXCEPT ![c] = e3]
  <2>1. PICK q1 : q1 = [pipe EXCEPT ![c].data[k] = ch]
    OBVIOUS
  <2>2. PICK q2 : q2 = [q1 EXCEPT ![c].nwrite = n]
    OBVIOUS
  <2>3. pipe' = [q2 EXCEPT ![c].lock = p]
    BY <1>2, <2>1, <2>2
  <2>4. q1 = [pipe EXCEPT ![c] = e1] /\ q1 \in [Pages -> PipeType] /\ q1[c] = e1
    <3>1. q1 = [pipe EXCEPT ![c] = e1]
      BY <1>1, <1>3, <1>4, <2>1
    <3>2. QED
      BY <1>1, <1>7, <3>1
  <2>5. q2 = [pipe EXCEPT ![c] = e2] /\ q2 \in [Pages -> PipeType] /\ q2[c] = e2
    <3>1. q2 = [q1 EXCEPT ![c] = [q1[c] EXCEPT !.nwrite = n]]
      BY <2>2
    <3>2. q2 = [q1 EXCEPT ![c] = e2]
      BY <1>5, <2>4, <3>1
    <3>3. QED
      BY <1>1, <1>8, <2>4, <3>2
  <2>6. pipe' = [q2 EXCEPT ![c] = e3]
    <3>1. pipe' = [q2 EXCEPT ![c] = [q2[c] EXCEPT !.lock = p]]
      BY <2>3
    <3>2. QED
      BY <1>6, <2>5, <3>1
  <2>7. QED
    BY <1>1, <1>9, <2>5, <2>6
<1>11. pipe' \in [Pages -> PipeType] /\ pipe'[c] = e3 /\ \A b \in Pages \ {c} : pipe'[b] = pipe[b]
  BY <1>1, <1>9, <1>10
<1>12. QED
  BY <1>2, <1>3, <1>9, <1>11 DEF Stored, Pos, Succ

\* The number of bytes, and the ends of its range.
LEMMA RingLength ==
  ASSUME IInv, NEW c \in Pages
  PROVE  /\ pipe[c] \in PipeType /\ pipe[c].nread \in 0..Counters - 1 /\ pipe[c].nwrite \in 0..Counters - 1
         /\ Length(c) = Dist(pipe[c].nwrite, pipe[c].nread) /\ Length(c) \in 0..PIPESIZE
         /\ Empty(c) <=> Length(c) = 0
         /\ Full(c) <=> Length(c) = PIPESIZE
<1>1. /\ pipe[c] \in PipeType
      /\ pipe[c].nread \in 0..Counters - 1 /\ pipe[c].nwrite \in 0..Counters - 1 /\ Length(c) <= PIPESIZE
  BY DEF IInv, DescInv, TypeOK, PipeType, RingInv
<1>2. Length(c) = Dist(pipe[c].nwrite, pipe[c].nread)
  BY DEF Length, Dist
<1>3. Length(c) \in 0..PIPESIZE /\ (pipe[c].nwrite = pipe[c].nread <=> Length(c) = 0)
  <2>1. PICK w \in 0..Counters - 1, r \in 0..Counters - 1 : w = pipe[c].nwrite /\ r = pipe[c].nread
    BY <1>1
  <2>2. Dist(w, r) \in 0..Counters - 1 /\ (w = r <=> Dist(w, r) = 0)
    BY Advance
  <2>3. Length(c) \in Nat
    BY <1>2, <2>1, <2>2
  <2>4. QED
    BY <1>1, <1>2, <2>1, <2>2, <2>3, Constants
<1>4. pipe[c].nwrite = (pipe[c].nread + PIPESIZE) % Counters <=> Length(c) = PIPESIZE
  BY <1>1, <1>2, FullLength
<1>5. QED
  BY <1>1, <1>2, <1>3, <1>4 DEF Empty, Full

LEMMA WriteByte ==
  ASSUME IInv, NEW p \in Procs, pipewrite_byte(p)
  PROVE  /\ Good(p)
         /\ \E c \in Pages, ch \in Byte :
              pi[p] = c /\ Stored(c, ch, p) /\ Length(c) < PIPESIZE /\ pipe[c].readopen
<1>1. pc[p] = "write" /\ pc[p] \in Writing
  BY DEF pipewrite_byte, At, Writing
<1>2. PICK c \in Pages : pi[p] = c
  BY <1>1, InCall
<1>3. /\ pipe[c].lock \in {p, None} /\ i[p] < Count /\ pipe[c].readopen /\ ~Full(c)
      /\ i' = [i EXCEPT ![p] = i[p] + 1] /\ UNCHANGED <<file, cut, alive, killed, pc, pi, own>>
  BY <1>2 DEF pipewrite_byte, Locks
<1>4. PICK ch \in Byte : pipe' = [pipe EXCEPT ![c].data[pipe[c].nwrite % PIPESIZE] = ch,
                              ![c].nwrite = (pipe[c].nwrite + 1) % Counters, ![c].lock = p]
  BY <1>2 DEF pipewrite_byte
<1>5. Stored(c, ch, p)
  BY <1>4, ByteStored DEF IInv
<1>6. i[p] \in 0..Count /\ i' \in [Procs -> 0..Count] /\ i'[p] = i[p] + 1 /\ i'[p] > 0
      /\ \A q \in Procs \ {p} : i'[q] = i[q]
  <2>1. i \in [Procs -> 0..Count] /\ i[p] \in 0..Count
    BY DEF IInv, DescInv, TypeOK
  <2>2. i[p] + 1 \in 0..Count /\ i[p] + 1 > 0
    BY <1>3, <2>1, Constants
  <2>3. QED
    BY <1>3, <2>1, <2>2
<1>7. Turn(p)
  <2>1. Touches(p)
    BY <1>2, <1>5 DEF Touches, Stored
  <2>2. Owns(p)
    BY <1>1, <1>2, <1>3, <1>5, <1>6 DEF Owns, Stored
  <2>3. GoesOn(p)
    BY <1>1, <1>3, <1>6 DEF GoesOn
  <2>4. /\ pc' \in [Procs -> Points] /\ pi' \in [Procs -> Pages \cup {None}]
        /\ \A q \in Procs \ {p} : Stays(q) /\ pi'[q] = pi[q] /\ i'[q] = i[q]
        /\ cut \subseteq cut' /\ cut' \subseteq Pages
    BY <1>3, <1>6 DEF IInv, DescInv, TypeOK, Stays
  <2>5. QED
    BY <1>1, <1>2, <1>3, <1>6, <2>1, <2>2, <2>3, <2>4 DEF Turn
<1>8. /\ pipe[c].nread \in 0..Counters - 1 /\ pipe[c].nwrite \in 0..Counters - 1
      /\ Length(c) = Dist(pipe[c].nwrite, pipe[c].nread) /\ Length(c) \in 0..PIPESIZE
      /\ Full(c) <=> Length(c) = PIPESIZE
  BY RingLength
<1>9. Length(c) < PIPESIZE /\ Length(c) + 1 < Counters
  BY <1>3, <1>8, Constants
<1>10. Length(c)' <= PIPESIZE
  <2>1. Length(c)' = Dist(Succ(pipe[c].nwrite), pipe[c].nread)
    BY <1>5 DEF Length, Dist, Stored
  <2>2. Length(c)' = Length(c) + 1
    <3>1. PICK w \in 0..Counters - 1, r \in 0..Counters - 1 : w = pipe[c].nwrite /\ r = pipe[c].nread
      BY <1>8
    <3>2. Dist(w, r) + 1 < Counters
      BY <1>8, <1>9, <3>1
    <3>3. Dist(Succ(w), r) = Dist(w, r) + 1
      BY <3>2, Advance
    <3>4. QED
      BY <1>8, <2>1, <3>1, <3>3
  <2>3. QED
    BY <1>8, <1>9, <2>2, Constants
<1>11. \A q \in Procs : pi[q] = c /\ pc[q] = "w_asleep" =>
         Full(c) \/ (pipe[c].lock = p /\ pc[p] = "copy")
  BY <1>2, <1>3, Waiters
<1>12. Sleeps(p, c)
  <2>1. pc' = pc /\ pi' = pi /\ pipe'[c].lock = p
    BY <1>3, <1>5 DEF Stored
  <2>2. QED
    BY <1>1, <1>3, <1>11, <2>1 DEF Sleeps
<1>13. QED
  BY <1>2, <1>3, <1>5, <1>7, <1>9, <1>10, <1>12 DEF Good

\* A byte is taken from the front.
Taken(c) ==
  /\ pipe' \in [Pages -> PipeType]
  /\ \A b \in Pages \ {c} : pipe'[b] = pipe[b]
  /\ pipe'[c].data = pipe[c].data
  /\ pipe'[c].nwrite = pipe[c].nwrite /\ pipe'[c].nread = Succ(pipe[c].nread)
  /\ pipe'[c].lock = pipe[c].lock
  /\ pipe'[c].readopen = pipe[c].readopen /\ pipe'[c].writeopen = pipe[c].writeopen
  /\ pipe'[c].live = pipe[c].live

LEMMA ReadByte ==
  ASSUME IInv, NEW p \in Procs, piperead_byte(p)
  PROVE  /\ Good(p)
         /\ \E c \in Pages : pi[p] = c /\ Taken(c) /\ Length(c) > 0
<1>1. pc[p] = "copy" /\ pc[p] \in Reading /\ pc[p] \in Locking
  BY DEF piperead_byte, At, Reading, Locking
<1>2. PICK c \in Pages : pi[p] = c
  BY <1>1, InCall
<1>3. /\ pipe[c].lock = p /\ i[p] < Count /\ ~Empty(c)
      /\ i' = [i EXCEPT ![p] = i[p] + 1] /\ UNCHANGED <<file, cut, alive, killed, pc, pi, own>>
  BY <1>1, <1>2 DEF piperead_byte, IInv, LockInv
<1>4. pipe' = [pipe EXCEPT ![c] = [pipe[c] EXCEPT !.nread = Succ(pipe[c].nread)]]
  BY <1>2 DEF piperead_byte, Succ
<1>5. /\ pipe[c] \in PipeType
      /\ pipe[c].nread \in 0..Counters - 1 /\ pipe[c].nwrite \in 0..Counters - 1
      /\ Length(c) = Dist(pipe[c].nwrite, pipe[c].nread) /\ Length(c) \in 0..PIPESIZE
      /\ Empty(c) <=> Length(c) = 0
  BY RingLength
<1>6. Succ(pipe[c].nread) \in 0..Counters - 1 /\ pipe[c].nwrite # pipe[c].nread
      /\ Dist(pipe[c].nwrite, Succ(pipe[c].nread)) = Length(c) - 1
  <2>1. pipe[c].nwrite # pipe[c].nread
    BY <1>3 DEF Empty
  <2>2. Succ(pipe[c].nread) \in 0..Counters - 1
    BY <1>5, Advance
  <2>3. Dist(pipe[c].nwrite, Succ(pipe[c].nread)) = Length(c) - 1
    <3>1. PICK w \in 0..Counters - 1, r \in 0..Counters - 1 : w = pipe[c].nwrite /\ r = pipe[c].nread
      BY <1>5
    <3>2. Dist(w, Succ(r)) = Dist(w, r) - 1
      BY <2>1, <3>1, Advance
    <3>3. QED
      BY <1>5, <3>1, <3>2
  <2>4. QED
    BY <2>1, <2>2, <2>3
<1>7. Taken(c)
  <2>1. PICK e : e = [pipe[c] EXCEPT !.nread = Succ(pipe[c].nread)]
    OBVIOUS
  <2>2. /\ e \in PipeType /\ e.data = pipe[c].data /\ e.nwrite = pipe[c].nwrite /\ e.lock = pipe[c].lock
        /\ e.nread = Succ(pipe[c].nread) /\ e.live = pipe[c].live
        /\ e.readopen = pipe[c].readopen /\ e.writeopen = pipe[c].writeopen
    BY <1>5, <1>6, <2>1 DEF PipeType
  <2>3. pipe \in [Pages -> PipeType]
    BY DEF IInv, DescInv, TypeOK, PipeType
  <2>4. pipe' \in [Pages -> PipeType] /\ pipe'[c] = e /\ \A b \in Pages \ {c} : pipe'[b] = pipe[b]
    BY <1>4, <2>1, <2>2, <2>3
  <2>5. QED
    BY <2>2, <2>4 DEF Taken
<1>8. i' \in [Procs -> 0..Count] /\ i'[p] \in 0..Count /\ \A q \in Procs \ {p} : i'[q] = i[q]
  <2>1. i \in [Procs -> 0..Count] /\ i[p] \in 0..Count
    BY DEF IInv, DescInv, TypeOK
  <2>2. i[p] + 1 \in 0..Count
    BY <1>3, <2>1, Constants
  <2>3. QED
    BY <1>3, <2>1, <2>2
<1>9. Turn(p)
  <2>1. Touches(p)
    BY <1>2, <1>7 DEF Touches, Taken
  <2>2. Owns(p)
    BY <1>1, <1>2, <1>3, <1>7 DEF Owns, Taken
  <2>3. GoesOn(p)
    BY <1>1, <1>3, <1>8 DEF GoesOn
  <2>4. /\ pc' \in [Procs -> Points] /\ pi' \in [Procs -> Pages \cup {None}]
        /\ \A q \in Procs \ {p} : Stays(q) /\ pi'[q] = pi[q] /\ i'[q] = i[q]
        /\ cut \subseteq cut' /\ cut' \subseteq Pages
    BY <1>3, <1>8 DEF IInv, DescInv, TypeOK, Stays
  <2>5. QED
    BY <1>1, <1>2, <1>3, <1>8, <2>1, <2>2, <2>3, <2>4 DEF Turn
<1>10. Length(c)' <= PIPESIZE
  <2>1. Length(c)' = Dist(pipe[c].nwrite, Succ(pipe[c].nread))
    BY <1>7 DEF Length, Dist, Taken
  <2>2. QED
    BY <1>5, <1>6, <2>1, Constants
<1>11. \A q \in Procs : pi[q] = c /\ pc[q] = "r_asleep" =>
         Empty(c) \/ c \in cut \/ (pipe[c].lock = p /\ pc[p] = "write")
  BY <1>2, <1>3, Waiters
<1>12. Sleeps(p, c)
  <2>1. pc' = pc /\ pi' = pi /\ cut' = cut /\ pipe'[c].lock = p
    BY <1>3, <1>7 DEF Taken
  <2>2. QED
    BY <1>1, <1>3, <1>11, <2>1 DEF Sleeps
<1>13. Length(c) > 0
  BY <1>3, <1>5, Constants
<1>14. QED
  BY <1>2, <1>7, <1>9, <1>10, <1>12, <1>13 DEF Good

-----------------------------------------------------------------------------
(* The other steps.                                                        *)

\* Files and descriptors stay.
LEMMA PlainDesc ==
  ASSUME DescInv, NEW p \in Procs, TypeOK', HandAt(p)', CallAt(p)', UNCHANGED <<file, own>>,
         \A q \in Procs \ {p} :
           Stays(q) /\ pi'[q] = pi[q] /\ i'[q] = i[q] /\ (q \in alive' <=> q \in alive)
  PROVE  DescInv'
<1>1. UNCHANGED <<file, ofile, new, closing, ff>>
  BY DEF own
<1>2. HandInv'
  BY <1>1, OthersHand DEF DescInv
<1>3. FileInv' /\ \A q \in Procs : Kept(q)
  BY <1>1, SameFiles DEF DescInv
<1>4. CallInv'
  BY <1>1, <1>3, OthersCall DEF DescInv
<1>5. QED
  BY <1>2, <1>3, <1>4 DEF DescInv

LEMMA CallDesc ==
  ASSUME DescInv, NEW p \in Procs, NEW d \in Fds, NEW point \in {"read", "write"}, Call(p, d, point)
  PROVE  DescInv'
<1>1. /\ pc[p] = "user" /\ Quiet(p) /\ p \in alive /\ ofile[p][d] # None
      /\ file[ofile[p][d]].writable = (point = "write")
      /\ pc' = [pc EXCEPT ![p] = point] /\ pi' = [pi EXCEPT ![p] = file[ofile[p][d]].pipe]
      /\ UNCHANGED <<file, pipe, cut, alive, killed, i, ofile, new, closing, ff>>
  BY DEF Call, User, At, Quiet, Open, Goto, own
<1>2. ofile[p][d] \in Files /\ file[ofile[p][d]].pipe \in Pages
  BY <1>1, HeldFile
<1>3. /\ pc'[p] = point /\ pi'[p] = file[ofile[p][d]].pipe
      /\ \A q \in Procs \ {p} : pc'[q] = pc[q] /\ pi'[q] = pi[q] /\ i'[q] = i[q]
  BY <1>1 DEF DescInv, TypeOK
<1>4. TypeOK'
  <2>1. pc' \in [Procs -> Points]
    BY <1>1 DEF DescInv, TypeOK, Points
  <2>2. pi' \in [Procs -> Pages \cup {None}]
    BY <1>1, <1>2 DEF DescInv, TypeOK
  <2>3. QED
    BY <1>1, <2>1, <2>2 DEF DescInv, TypeOK
<1>5. HandAt(p)'
  BY <1>1, <1>3 DEF DescInv, HandInv, HandAt, Quiet
<1>6. CallAt(p)'
  <2>1. (pc'[p] \in Writing) = (point = "write") /\ pc'[p] \in Writing \cup Reading
    BY <1>3 DEF Writing, Reading
  <2>2. \E e \in Fds : /\ ofile'[p][e] \in Files /\ file'[ofile'[p][e]].pipe = pi'[p]
                       /\ file'[ofile'[p][e]].writable = (pc'[p] \in Writing)
    <3>1. file[ofile[p][d]].writable = (pc'[p] \in Writing)
      BY <1>1, <2>1
    <3>2. QED
      BY <1>1, <1>2, <1>3, <3>1
  <2>3. QED
    BY <1>2, <1>3, <2>1, <2>2 DEF CallAt
<1>7. QED
  BY <1>1, <1>3, <1>4, <1>5, <1>6, PlainDesc DEF Stays, own

LEMMA StartDesc ==
  ASSUME DescInv, NEW q \in Procs, start(q)
  PROVE  DescInv'
<1>1. q \notin alive /\ alive' = alive \cup {q} /\ UNCHANGED <<file, pipe, cut, killed, pc, pi, i, own>>
  BY DEF start
<1>2. UNCHANGED <<ofile, new, closing, ff>>
  BY <1>1 DEF own
<1>3. TypeOK'
  BY <1>1, <1>2 DEF DescInv, TypeOK
<1>4. HandAt(q)' /\ CallAt(q)'
  BY <1>1, <1>2 DEF DescInv, HandInv, HandAt, CallInv, CallAt, Quiet
<1>5. QED
  BY <1>1, <1>3, <1>4, PlainDesc DEF Stays

LEMMA ExitDesc ==
  ASSUME DescInv, NEW p \in Procs, exit(p) \/ exit_end(p)
  PROVE  DescInv'
<1>1. /\ pc[p] \in {"user", "exit"} /\ Quiet(p) /\ pi' = pi /\ i' = i
      /\ pc' = [pc EXCEPT ![p] = "exit"] \/ pc' = [pc EXCEPT ![p] = "user"]
      /\ alive' \subseteq alive /\ killed' \subseteq killed /\ alive \ {p} \subseteq alive'
      /\ UNCHANGED <<file, pipe, cut, ofile, new, closing, ff>>
  BY DEF exit, exit_end, At, Quiet, Goto, own
<1>2. pc'[p] \in {"user", "exit"} /\ \A q \in Procs \ {p} : pc'[q] = pc[q]
  BY <1>1 DEF DescInv, TypeOK
<1>3. TypeOK'
  BY <1>1 DEF DescInv, TypeOK, Points
<1>4. p \notin alive' => pc'[p] = "user" /\ ofile[p] = NoFiles
  <2>1. CASE exit(p)
    BY <2>1 DEF exit, At
  <2>2. CASE exit_end(p)
    <3>1. \A d \in Fds : ofile[p][d] = None
      BY <2>2 DEF exit_end, Open
    <3>2. ofile[p] = NoFiles
      BY <3>1 DEF DescInv, TypeOK, NoFiles
    <3>3. pc'[p] = "user"
      BY <2>2 DEF exit_end, Goto, DescInv, TypeOK
    <3>4. QED
      BY <3>2, <3>3
  <2>3. QED
    BY <2>1, <2>2
<1>5. HandAt(p)'
  BY <1>1, <1>2, <1>4 DEF DescInv, HandInv, HandAt, Quiet
<1>6. CallAt(p)'
  BY <1>1, <1>2 DEF DescInv, CallInv, CallAt, Writing, Reading
<1>7. QED
  BY <1>1, <1>2, <1>3, <1>5, <1>6, PlainDesc DEF Stays, own

LEMMA KillDesc ==
  ASSUME DescInv, NEW q \in Procs, kill(q)
  PROVE  DescInv' /\ \A r \in Procs : Stays(r)
<1>1. /\ q \in alive /\ killed' = killed \cup {q}
      /\ pc' = [pc EXCEPT ![q] = IF pc[q] = "r_asleep" THEN "read"
                                 ELSE IF pc[q] = "w_asleep" THEN "write" ELSE pc[q]]
      /\ UNCHANGED <<file, pipe, cut, alive, pi, i, ofile, new, closing, ff>>
  BY DEF kill, own
<1>2. /\ pc'[q] = (IF pc[q] = "r_asleep" THEN "read" ELSE IF pc[q] = "w_asleep" THEN "write" ELSE pc[q])
      /\ \A r \in Procs \ {q} : pc'[r] = pc[r]
  BY <1>1 DEF DescInv, TypeOK
<1>3. \A r \in Procs : Stays(r)
  BY <1>2 DEF Stays
<1>4. TypeOK'
  BY <1>1 DEF DescInv, TypeOK, Points
<1>5. HandAt(q)'
  BY <1>1, <1>2 DEF DescInv, HandInv, HandAt, Quiet
<1>6. CallAt(q)'
  <2>1. Kept(q)
    BY <1>1 DEF Kept
  <2>2. QED
    BY <1>1, <1>3, <2>1, SameCall DEF DescInv, CallInv
<1>7. QED
  BY <1>1, <1>3, <1>4, <1>5, <1>6, PlainDesc DEF own

\* pipeclose() of an end that is nobody's any more.
LEMMA PipecloseStep ==
  ASSUME DescInv, NEW p \in Procs, pipeclose(p)
  PROVE  \E c \in Pages, w \in BOOLEAN :
           /\ Carries(ff[p], c, w) /\ pipe[c].lock = None
           /\ pc' = IF w THEN WakeReaders(c, pc) ELSE WakeWriters(c, pc)
           /\ pipe' \in [Pages -> PipeType] /\ \A b \in Pages \ {c} : pipe'[b] = pipe[b]
           /\ pipe'[c].readopen <=> pipe[c].readopen /\ w
           /\ pipe'[c].writeopen <=> pipe[c].writeopen /\ ~w
           /\ IF (pipe[c].readopen /\ w) \/ (pipe[c].writeopen /\ ~w)
              THEN /\ pipe'[c].live = pipe[c].live /\ pipe'[c].lock = None /\ pipe'[c].data = pipe[c].data
                   /\ pipe'[c].nread = pipe[c].nread /\ pipe'[c].nwrite = pipe[c].nwrite
              ELSE pipe'[c] = FreePipe
           /\ ff' = [ff EXCEPT ![p] = FreeFile]
           /\ UNCHANGED <<file, cut, alive, killed, pi, i, ofile, new, closing>>
<1> DEFINE c == ff[p].pipe
           w == ff[p].writable
           e == [pipe[c] EXCEPT !.readopen = pipe[c].readopen /\ w,
                                !.writeopen = pipe[c].writeopen /\ ~w]
<1>1. ff[p] \in [ref : {0}, pipe : Pages \cup {None}, writable : BOOLEAN]
  BY DEF DescInv, TypeOK
<1>2. c \in Pages /\ w \in BOOLEAN /\ Carries(ff[p], c, w)
  BY <1>1 DEF pipeclose, Carries
<1>3. pipe \in [Pages -> PipeType] /\ pipe[c] \in PipeType
  BY <1>2 DEF DescInv, TypeOK, PipeType
<1>4. /\ pipe[c].lock = None /\ pc' = IF w THEN WakeReaders(c, pc) ELSE WakeWriters(c, pc)
      /\ pipe' = [pipe EXCEPT ![c] = IF e.readopen \/ e.writeopen THEN e ELSE FreePipe]
      /\ ff' = [ff EXCEPT ![p] = FreeFile]
      /\ UNCHANGED <<file, cut, alive, killed, pi, i, ofile, new, closing>>
  BY DEF pipeclose
<1>5. PICK b \in Pages, v \in BOOLEAN : b = c /\ v = w
  BY <1>2
<1>6. PICK r \in BOOLEAN, t \in BOOLEAN : (r <=> pipe[b].readopen /\ v) /\ (t <=> pipe[b].writeopen /\ ~v)
  OBVIOUS
<1>7. e = [[pipe[b] EXCEPT !.readopen = r] EXCEPT !.writeopen = t]
  <2>1. (pipe[c].readopen /\ w) = r /\ (pipe[c].writeopen /\ ~w) = t
    BY <1>5, <1>6
  <2>2. QED
    BY <1>5, <2>1
<1>8. PICK x : x = e
  OBVIOUS
<1>9. /\ x \in PipeType /\ x.readopen = r /\ x.writeopen = t /\ x.live = pipe[b].live
      /\ x.lock = pipe[b].lock /\ x.data = pipe[b].data
      /\ x.nread = pipe[b].nread /\ x.nwrite = pipe[b].nwrite
  <2>1. PICK y : y = [pipe[b] EXCEPT !.readopen = r]
    OBVIOUS
  <2>2. /\ y \in PipeType /\ y.readopen = r /\ y.live = pipe[b].live
        /\ y.lock = pipe[b].lock /\ y.data = pipe[b].data
        /\ y.nread = pipe[b].nread /\ y.nwrite = pipe[b].nwrite
    BY <1>3, <1>5, <2>1 DEF PipeType
  <2>3. x = [y EXCEPT !.writeopen = t]
    BY <1>7, <1>8, <2>1
  <2>4. QED
    BY <2>2, <2>3 DEF PipeType
<1>10. pipe' = [pipe EXCEPT ![b] = IF x.readopen \/ x.writeopen THEN x ELSE FreePipe]
  BY <1>4, <1>5, <1>8
<1>11. FreePipe \in PipeType /\ FreePipe.readopen = FALSE /\ FreePipe.writeopen = FALSE
  BY EmptyType DEF FreePipe
<1> HIDE DEF c, w, e
<1>12. /\ pipe' \in [Pages -> PipeType] /\ \A a \in Pages \ {b} : pipe'[a] = pipe[a]
       /\ pipe'[b] = IF x.readopen \/ x.writeopen THEN x ELSE FreePipe
  <2>1. PICK z \in PipeType : z = IF x.readopen \/ x.writeopen THEN x ELSE FreePipe
    BY <1>9, <1>11
  <2>2. pipe' = [pipe EXCEPT ![b] = z]
    BY <1>10, <2>1
  <2>3. QED
    BY <1>3, <2>1, <2>2
<1>13. /\ pipe'[b].readopen <=> r
       /\ pipe'[b].writeopen <=> t
       /\ r \/ t => pipe'[b] = x
       /\ ~(r \/ t) => pipe'[b] = FreePipe
  BY <1>9, <1>11, <1>12
<1>14. /\ Carries(ff[p], b, v) /\ pipe[b].lock = None
       /\ pc' = IF v THEN WakeReaders(b, pc) ELSE WakeWriters(b, pc)
       /\ ff' = [ff EXCEPT ![p] = FreeFile]
       /\ UNCHANGED <<file, cut, alive, killed, pi, i, ofile, new, closing>>
  BY <1>2, <1>4, <1>5
<1>15. IF (pipe[b].readopen /\ v) \/ (pipe[b].writeopen /\ ~v)
       THEN /\ pipe'[b].live = pipe[b].live /\ pipe'[b].lock = None /\ pipe'[b].data = pipe[b].data
            /\ pipe'[b].nread = pipe[b].nread /\ pipe'[b].nwrite = pipe[b].nwrite
       ELSE pipe'[b] = FreePipe
  BY <1>6, <1>9, <1>13, <1>14
<1>16. /\ pipe'[b].readopen <=> pipe[b].readopen /\ v
       /\ pipe'[b].writeopen <=> pipe[b].writeopen /\ ~v
  BY <1>6, <1>13
<1>17. QED
  BY <1>12, <1>14, <1>15, <1>16

LEMMA PipecloseDesc ==
  ASSUME DescInv, NEW p \in Procs, pipeclose(p)
  PROVE  DescInv'
<1>1. PICK c \in Pages, w \in BOOLEAN :
        /\ Carries(ff[p], c, w)
        /\ pc' = IF w THEN WakeReaders(c, pc) ELSE WakeWriters(c, pc)
        /\ pipe' \in [Pages -> PipeType]
        /\ ff' = [ff EXCEPT ![p] = FreeFile]
        /\ UNCHANGED <<file, cut, alive, killed, pi, i, ofile, new, closing>>
  BY PipecloseStep
<1>2. pc' \in [Procs -> Points] /\ \A q \in Procs : Stays(q)
  <2>1. pc \in [Procs -> Points]
    BY DEF DescInv, TypeOK
  <2>2. /\ WakeReaders(c, pc) \in [Procs -> Points] /\ WakeWriters(c, pc) \in [Procs -> Points]
        /\ \A q \in Procs :
             /\ WakeReaders(c, pc)[q] = IF pc[q] = "r_asleep" /\ pi[q] = c THEN "read" ELSE pc[q]
             /\ WakeWriters(c, pc)[q] = IF pc[q] = "w_asleep" /\ pi[q] = c THEN "write" ELSE pc[q]
    BY <2>1, Wakes
  <2>3. QED
    BY <1>1, <2>2 DEF Stays
<1>3. ff' \in [Procs -> [ref : {0}, pipe : Pages \cup {None}, writable : BOOLEAN]] /\ ff'[p].pipe = None
      /\ \A q \in Procs \ {p} : ff'[q] = ff[q]
  <2>1. FreeFile \in [ref : {0}, pipe : Pages \cup {None}, writable : BOOLEAN] /\ FreeFile.pipe = None
    BY DEF FreeFile
  <2>2. QED
    BY <1>1, <2>1 DEF DescInv, TypeOK
<1>4. TypeOK'
  BY <1>1, <1>2, <1>3 DEF DescInv, TypeOK, PipeType
<1>5. ~Quiet(p)
  BY <1>1, Constants DEF Quiet, Carries
<1>6. pc[p] \in {"user", "exit"} /\ p \in alive
  BY <1>5 DEF DescInv, HandInv, HandAt
<1>7. pc'[p] = pc[p]
  BY <1>2, <1>6 DEF Stays
<1>8. HandInv'
  <2>1. HandAt(p)'
    BY <1>1, <1>6, <1>7 DEF DescInv, HandInv, HandAt
  <2>2. QED
    BY <1>1, <1>2, <1>3, <2>1, OthersHand DEF DescInv
<1>9. FileInv' /\ \A q \in Procs : Kept(q)
  BY <1>1, SameFiles DEF DescInv
<1>10. CallInv'
  <2>1. CallAt(p)'
    BY <1>1, <1>2, <1>9, SameCall DEF DescInv, CallInv
  <2>2. QED
    BY <1>1, <1>2, <1>9, <2>1, OthersCall DEF DescInv
<1>11. QED
  BY <1>4, <1>8, <1>9, <1>10 DEF DescInv

\* Outside T the pipes stay, and nobody holds the lock of a pipe in T or sleeps in it.
Drifts(q) ==
  \/ Stays(q) /\ pi'[q] = pi[q] /\ i'[q] = i[q]
  \/ pc[q] \notin Writing \cup Reading /\ pc'[q] \notin Locking \cup {"r_asleep", "w_asleep"}

Frame(T) ==
  /\ \A b \in Pages \ T : pipe'[b] = pipe[b] /\ (b \in cut => b \in cut')
  /\ \A c \in T : /\ pipe[c].lock = None /\ pipe'[c].lock = None /\ Length(c)' <= PIPESIZE
                  /\ \A q \in Procs : pi'[q] = c => pc'[q] \notin {"r_asleep", "w_asleep"}
  /\ \A q \in Procs : Drifts(q)

LEMMA FrameInv ==
  ASSUME IInv, NEW T \in SUBSET Pages, Frame(T)
  PROVE  LockInv' /\ SleepInv' /\ RingInv'
<1>1. \A q \in Procs : Drifts(q)
  BY DEF Frame
<1>2. \A b \in Pages \ T : pipe'[b] = pipe[b] /\ (b \in cut => b \in cut')
  BY DEF Frame
<1>3. \A c \in T : /\ pipe[c].lock = None /\ pipe'[c].lock = None /\ Length(c)' <= PIPESIZE
                   /\ \A q \in Procs : pi'[q] = c => pc'[q] \notin {"r_asleep", "w_asleep"}
  BY DEF Frame
<1>4. ASSUME NEW q \in Procs, NEW c \in Pages, pipe'[c].lock = q
      PROVE  /\ pi'[q] = c /\ pi[q] = c /\ i'[q] = i[q] /\ c \notin T /\ pc'[q] = pc[q]
             /\ pc[q] \in Locking \/ (pc[q] = "write" /\ i[q] > 0)
  <2>1. c \notin T
    BY <1>3, <1>4, Constants
  <2>2. pipe[c].lock = q
    BY <1>2, <1>4, <2>1
  <2>3. pi[q] = c /\ (pc[q] \in Locking \/ (pc[q] = "write" /\ i[q] > 0))
    BY <2>2 DEF IInv, LockInv
  <2>4. pc[q] \in Writing \cup Reading
    BY <2>3 DEF Locking, Writing, Reading
  <2>5. Stays(q) /\ pi'[q] = pi[q] /\ i'[q] = i[q]
    BY <1>1, <2>4 DEF Drifts
  <2>6. QED
    BY <2>1, <2>3, <2>5 DEF Stays, Locking
<1>5. ASSUME NEW q \in Procs, pc'[q] \in Locking
      PROVE  pipe'[pi'[q]].lock = q /\ pi'[q] = pi[q] /\ pc'[q] = pc[q]
  <2>1. Stays(q) /\ pi'[q] = pi[q]
    BY <1>1, <1>5 DEF Drifts
  <2>2. pc'[q] = pc[q]
    BY <1>5, <2>1 DEF Stays, Locking
  <2>3. pipe[pi[q]].lock = q /\ pi[q] \in Pages
    BY <1>5, <2>2 DEF IInv, LockInv, DescInv, CallInv, CallAt, Locking, Writing, Reading
  <2>4. pi[q] \notin T
    BY <1>3, <2>3, Constants
  <2>5. QED
    BY <1>2, <2>1, <2>2, <2>3, <2>4
<1>6. LockInv'
  BY <1>4, <1>5 DEF LockInv
<1>7. ASSUME NEW q \in Procs, NEW b \in Pages, pi'[q] = b
      PROVE  SleepAt(q, b)'
  <2>1. CASE b \in T
    <3>1. pc'[q] \notin Locking
      BY <1>3, <1>5, <1>7, <2>1, Constants
    <3>2. QED
      BY <1>3, <1>7, <2>1, <3>1 DEF SleepAt, Locking
  <2>2. CASE b \notin T
    <3>1. ASSUME pc'[q] \in {"r_sleep", "w_sleep", "r_asleep", "w_asleep"}
          PROVE  pc'[q] = pc[q] /\ pi[q] = b
      <4>1. Stays(q) /\ pi'[q] = pi[q]
        BY <1>1, <3>1 DEF Drifts, Locking
      <4>2. QED
        BY <1>7, <3>1, <4>1 DEF Stays
    <3>2. /\ pipe'[b] = pipe[b] /\ (b \in cut => b \in cut')
          /\ (Empty(b)' <=> Empty(b)) /\ (Full(b)' <=> Full(b))
      BY <1>2, <2>2 DEF Empty, Full
    <3>3. Busy(b, "write") => Busy(b, "write")'
      BY <1>4, <3>2 DEF Busy
    <3>4. Busy(b, "copy") => Busy(b, "copy")'
      BY <1>4, <3>2 DEF Busy
    <3>5. pi[q] = b => SleepAt(q, b)
      BY DEF IInv, SleepInv
    <3>6. QED
      BY <3>1, <3>2, <3>3, <3>4, <3>5 DEF SleepAt
  <2>3. QED
    BY <2>1, <2>2
<1>8. SleepInv'
  BY <1>7 DEF SleepInv
<1>9. RingInv'
  <2>1. ASSUME NEW b \in Pages
        PROVE  Length(b)' <= PIPESIZE
    <3>1. CASE b \in T
      BY <1>3, <3>1
    <3>2. CASE b \notin T
      <4>1. Length(b)' = Length(b)
        BY <1>2, <3>2 DEF Length
      <4>2. QED
        BY <4>1 DEF IInv, RingInv
    <3>3. QED
      BY <3>1, <3>2
  <2>2. QED
    BY <2>1 DEF RingInv
<1>10. QED
  BY <1>6, <1>8, <1>9

\* Nothing happens in the pipes.
LEMMA Still ==
  ASSUME IInv, DescInv', UNCHANGED <<pipe, cut>>, \A q \in Procs : Drifts(q), UNCHANGED ff,
         \A f \in Files : file'[f].pipe = file[f].pipe /\ file'[f].writable = file[f].writable
  PROVE  IInv'
<1>1. Frame({}) /\ {} \in SUBSET Pages
  BY DEF Frame
<1>2. LockInv' /\ SleepInv' /\ RingInv'
  BY <1>1, FrameInv
<1>3. \A f \in Files : file'[f].ref > 0 <=> file[f].ref > 0
  BY DEF IInv, DescInv, FileInv
<1>4. EndInv'
  BY <1>3, SameEnds DEF IInv
<1>5. QED
  BY <1>2, <1>4 DEF IInv

\* A file that is in use is the file of an end, and the end is open.
LEMMA FileOpen ==
  ASSUME DescInv, NEW c \in Pages, NEW w \in BOOLEAN
  PROVE  /\ \A f \in Files : Carries(file[f], c, w) => EndOpen(c, w) /\ file[f].ref > 0
         /\ \A p \in Procs : Carries(ff[p], c, w) => EndOpen(c, w)
<1>1. ASSUME NEW f \in Files, Carries(file[f], c, w)
      PROVE  EndOpen(c, w) /\ file[f].ref > 0
  <2>1. file[f].pipe = c /\ file[f].writable = w /\ c # None
    BY <1>1, Constants DEF Carries
  <2>2. file[f].ref > 0
    BY <2>1, FileCount
  <2>3. QED
    BY <2>1, <2>2 DEF EndOpen
<1>2. ASSUME NEW p \in Procs, Carries(ff[p], c, w)
      PROVE  EndOpen(c, w)
  BY <1>2 DEF Carries, EndOpen
<1>3. QED
  BY <1>1, <1>2

\* pipealloc(): the ends of a page that was free get a file each.
LEMMA AllocInv ==
  ASSUME IInv, NEW p \in Procs, pipealloc(p)
  PROVE  IInv'
<1>1. PICK f \in Files, g \in Files, c \in Pages :
        /\ f # g /\ file[f].ref = 0 /\ file[g].ref = 0 /\ ~pipe[c].live
        /\ file' = [file EXCEPT ![f] = [ref |-> 1, pipe |-> c, writable |-> FALSE],
                                ![g] = [ref |-> 1, pipe |-> c, writable |-> TRUE]]
        /\ pipe' = [pipe EXCEPT ![c] = EmptyPipe(TRUE)]
        /\ new' = [new EXCEPT ![p] = <<f, g>>] /\ cut' = cut \ {c}
  BY TwoFiles DEF IInv, DescInv
<1>2. DescInv' /\ DescInv
  BY AllocDesc DEF IInv
<1>3. pc' = [pc EXCEPT ![p] = "pipe_fds"] /\ pc[p] = "user" /\ UNCHANGED <<pi, i, ff>>
  BY DEF pipealloc, User, At, Goto
<1>4. /\ pipe[c].lock = None /\ pipe[c].readopen = FALSE /\ pipe[c].writeopen = FALSE
      /\ ~EndOpen(c, FALSE) /\ ~EndOpen(c, TRUE)
  <2>1. pipe[c] = FreePipe
    BY <1>1 DEF IInv, EndInv
  <2>2. pipe[c].lock = None /\ pipe[c].readopen = FALSE /\ pipe[c].writeopen = FALSE
    BY <2>1, EmptyType DEF FreePipe
  <2>3. QED
    BY <2>2 DEF IInv, EndInv
<1>5. pipe'[c] = EmptyPipe(TRUE) /\ \A b \in Pages \ {c} : pipe'[b] = pipe[b]
  BY <1>1, <1>2 DEF DescInv, TypeOK
<1>6. /\ pipe'[c].lock = None /\ pipe'[c].readopen = TRUE /\ pipe'[c].writeopen = TRUE
      /\ pipe'[c].live = TRUE /\ pipe'[c].nread = 0 /\ pipe'[c].nwrite = 0
  BY <1>5, EmptyType
<1>7. /\ file'[f].ref = 1 /\ file'[f].pipe = c /\ file'[f].writable = FALSE
      /\ file'[g].ref = 1 /\ file'[g].pipe = c /\ file'[g].writable = TRUE
      /\ \A h \in Files \ {f, g} : file'[h] = file[h]
  BY <1>1, <1>2 DEF DescInv, TypeOK
<1>8. LockInv' /\ SleepInv' /\ RingInv'
  <2>1. Length(c)' <= PIPESIZE
    <3>1. (0 - 0) % Counters = 0
      BY Constants
    <3>2. Length(c)' = 0
      BY <1>6, <3>1 DEF Length
    <3>3. QED
      BY <3>2, Constants
  <2>2. \A q \in Procs : Drifts(q)
    BY <1>2, <1>3 DEF Drifts, Stays, DescInv, TypeOK, Writing, Reading, Locking
  <2>3. \A q \in Procs : pi'[q] # c
    <3>1. ASSUME NEW q \in Procs, pi[q] = c
          PROVE  FALSE
      <4>1. pi[q] # None
        BY <3>1, Constants
      <4>2. pipe[c].live
        BY <3>1, <4>1, InLivePipe DEF IInv
      <4>3. QED
        BY <1>1, <4>2
    <3>2. QED
      BY <1>3, <3>1
  <2>4. Frame({c})
    BY <1>1, <1>4, <1>5, <1>6, <2>1, <2>2, <2>3 DEF Frame
  <2>5. {c} \in SUBSET Pages
    OBVIOUS
  <2>6. QED
    BY <2>4, <2>5, FrameInv
<1>9. ASSUME NEW b \in Pages, NEW w \in BOOLEAN, b # c
      PROVE  (EndOpen(b, w)' <=> EndOpen(b, w)) /\ OneEnd(b, w)'
  <2>1. file[f].pipe = None /\ file[g].pipe = None /\ b # None
    BY <1>1, <1>2, FileCount, Constants
  <2>2. \A h \in Files : file'[h] = file[h] \/ (file'[h].pipe # b /\ file[h].pipe # b)
    BY <1>7, <1>9, <2>1
  <2>3. EndOpen(b, w)' <=> EndOpen(b, w)
    BY <1>3, <2>2 DEF EndOpen
  <2>4. OneEnd(b, w)
    BY DEF IInv, EndInv
  <2>5. OneEnd(b, w)'
    BY <1>3, <2>2, <2>4 DEF OneEnd, Carries
  <2>6. QED
    BY <2>3, <2>5
<1>10. EndOpen(c, FALSE)' /\ EndOpen(c, TRUE)'
  <2>1. file'[f].ref > 0 /\ file'[g].ref > 0
    BY <1>7
  <2>2. QED
    BY <1>7, <2>1 DEF EndOpen
<1>11. ASSUME NEW w \in BOOLEAN
       PROVE  OneEnd(c, w)'
  <2>1. \A h \in Files : ~Carries(file[h], c, w)
    BY <1>2, <1>4, FileOpen
  <2>2. \A q \in Procs : ~Carries(ff[q], c, w)
    BY <1>2, <1>4, FileOpen
  <2>3. \A h \in Files : file'[h].pipe = c /\ file'[h].writable = w => h = IF w THEN g ELSE f
    BY <1>7, <2>1 DEF Carries
  <2>4. QED
    BY <1>3, <2>2, <2>3 DEF OneEnd, Carries
<1>12. EndInv'
  <2>1. ASSUME NEW b \in Pages
        PROVE  /\ pipe'[b].readopen <=> EndOpen(b, FALSE)'
               /\ pipe'[b].writeopen <=> EndOpen(b, TRUE)'
               /\ pipe'[b].live <=> pipe'[b].readopen \/ pipe'[b].writeopen
               /\ ~pipe'[b].live => pipe'[b] = FreePipe
               /\ \A w \in BOOLEAN : OneEnd(b, w)'
    <3>1. CASE b = c
      BY <1>6, <1>10, <1>11, <3>1
    <3>2. CASE b # c
      BY <1>5, <1>9, <3>2 DEF IInv, EndInv
    <3>3. QED
      BY <3>1, <3>2
  <2>2. QED
    BY <2>1 DEF EndInv, FreePipe, EmptyPipe
<1>13. QED
  BY <1>2, <1>8, <1>12 DEF IInv

\* fileclose(): with the last reference the end passes from the file to the close().
LEMMA FilecloseInv ==
  ASSUME IInv, NEW p \in Procs, fileclose(p)
  PROVE  IInv'
<1>1. DescInv' /\ DescInv
  BY FilecloseDesc DEF IInv
<1>2. ff[p].pipe = None /\ UNCHANGED <<pipe, cut, pc, pi, i>>
  BY DEF fileclose
<1>3. PICK f \in Files : f = Head(closing[p]) /\ file[f].ref > 0 /\ file[f].pipe \in Pages
  BY <1>1, LastReference
<1>4. file \in [Files -> FileType] /\ file[f] \in FileType /\ ff \in [Procs -> [ref : {0}, pipe : Pages \cup {None}, writable : BOOLEAN]]
  BY <1>1 DEF DescInv, TypeOK, FileType
<1>5. \A q \in Procs : Drifts(q)
  BY <1>2 DEF Drifts, Stays
<1>6. CASE file[f].ref > 1
  <2>1. file' = [file EXCEPT ![f] = [file[f] EXCEPT !.ref = file[f].ref - 1]] /\ UNCHANGED ff
    BY <1>3, <1>6 DEF fileclose
  <2>2. \A h \in Files : file'[h].pipe = file[h].pipe /\ file'[h].writable = file[h].writable
    BY <1>4, <2>1 DEF FileType
  <2>3. QED
    BY <1>1, <1>2, <1>5, <2>1, <2>2, Still
<1>7. CASE ~(file[f].ref > 1)
  <2>1. file' = [file EXCEPT ![f] = FreeFile] /\ ff' = [ff EXCEPT ![p] = [file[f] EXCEPT !.ref = 0]]
    BY <1>3, <1>7 DEF fileclose
  <2>2. /\ file'[f].ref = 0 /\ file'[f].pipe = None
        /\ \A h \in Files \ {f} : file'[h] = file[h]
        /\ ff'[p].pipe = file[f].pipe /\ ff'[p].writable = file[f].writable
        /\ \A q \in Procs \ {p} : ff'[q] = ff[q]
    <3>1. FreeFile.ref = 0 /\ FreeFile.pipe = None
      BY DEF FreeFile
    <3>2. [file[f] EXCEPT !.ref = 0].pipe = file[f].pipe /\ [file[f] EXCEPT !.ref = 0].writable = file[f].writable
      BY <1>4 DEF FileType
    <3>3. QED
      BY <1>4, <2>1, <3>1, <3>2
  <2>3. LockInv' /\ SleepInv' /\ RingInv'
    <3>1. Frame({}) /\ {} \in SUBSET Pages
      BY <1>2, <1>5 DEF Frame
    <3>2. QED
      BY <3>1, FrameInv
  <2>4. ASSUME NEW c \in Pages, NEW w \in BOOLEAN
        PROVE  (EndOpen(c, w)' <=> EndOpen(c, w)) /\ OneEnd(c, w)'
    <3>1. c # None /\ OneEnd(c, w)
      BY Constants DEF IInv, EndInv
    <3>2. EndOpen(c, w)' <=> EndOpen(c, w)
      <4>1. ASSUME EndOpen(c, w)
            PROVE  EndOpen(c, w)'
        <5>1. CASE \E h \in Files : file[h].ref > 0 /\ file[h].pipe = c /\ file[h].writable = w
          <6>1. PICK h \in Files : file[h].ref > 0 /\ file[h].pipe = c /\ file[h].writable = w
            BY <5>1
          <6>2. CASE h = f
            BY <2>2, <6>1, <6>2 DEF EndOpen
          <6>3. CASE h # f
            BY <2>2, <6>1, <6>3 DEF EndOpen
          <6>4. QED
            BY <6>2, <6>3
        <5>2. CASE \E q \in Procs : ff[q].pipe = c /\ ff[q].writable = w
          <6>1. PICK q \in Procs : ff[q].pipe = c /\ ff[q].writable = w
            BY <5>2
          <6>2. q # p
            BY <1>2, <3>1, <6>1
          <6>3. QED
            BY <2>2, <6>1, <6>2 DEF EndOpen
        <5>3. QED
          BY <4>1, <5>1, <5>2 DEF EndOpen
      <4>2. ASSUME EndOpen(c, w)'
            PROVE  EndOpen(c, w)
        <5>1. CASE \E h \in Files : file'[h].ref > 0 /\ file'[h].pipe = c /\ file'[h].writable = w
          <6>1. PICK h \in Files : file'[h].ref > 0 /\ file'[h].pipe = c /\ file'[h].writable = w
            BY <5>1
          <6>2. h # f
            BY <2>2, <6>1
          <6>3. QED
            BY <2>2, <6>1, <6>2 DEF EndOpen
        <5>2. CASE \E q \in Procs : ff'[q].pipe = c /\ ff'[q].writable = w
          <6>1. PICK q \in Procs : ff'[q].pipe = c /\ ff'[q].writable = w
            BY <5>2
          <6>2. CASE q = p
            BY <1>3, <2>2, <6>1, <6>2 DEF EndOpen
          <6>3. CASE q # p
            BY <2>2, <6>1, <6>3 DEF EndOpen
          <6>4. QED
            BY <6>2, <6>3
        <5>3. QED
          BY <4>2, <5>1, <5>2 DEF EndOpen
      <4>3. QED
        BY <4>1, <4>2
    <3>3. \A h \in Files : Carries(file'[h], c, w) => h # f /\ Carries(file[h], c, w)
      BY <2>2, <3>1 DEF Carries
    <3>4. \A q \in Procs : Carries(ff'[q], c, w) =>
            IF q = p THEN Carries(file[f], c, w) ELSE Carries(ff[q], c, w)
      BY <2>2 DEF Carries
    <3>5. OneEnd(c, w)'
      <4>1. \A h, k \in Files : Carries(file'[h], c, w) /\ Carries(file'[k], c, w) => h = k
        BY <3>1, <3>3 DEF OneEnd
      <4>2. \A q, r \in Procs : Carries(ff'[q], c, w) /\ Carries(ff'[r], c, w) => q = r
        BY <3>1, <3>4 DEF OneEnd
      <4>3. \A h \in Files, q \in Procs : ~(Carries(file'[h], c, w) /\ Carries(ff'[q], c, w))
        BY <3>1, <3>3, <3>4 DEF OneEnd
      <4>4. QED
        BY <4>1, <4>2, <4>3 DEF OneEnd, Carries
    <3>6. QED
      BY <3>2, <3>5
  <2>5. EndInv'
    BY <1>2, <2>4 DEF IInv, EndInv, FreePipe, EmptyPipe
  <2>6. QED
    BY <1>1, <2>3, <2>5 DEF IInv
<1>8. QED
  BY <1>6, <1>7

\* pipeclose(): an end is closed, and the page freed with the second one.
LEMMA PipecloseInv ==
  ASSUME IInv, NEW p \in Procs, pipeclose(p)
  PROVE  IInv'
<1>1. DescInv' /\ DescInv
  BY PipecloseDesc DEF IInv
<1>2. PICK c \in Pages, w \in BOOLEAN :
        /\ Carries(ff[p], c, w) /\ pipe[c].lock = None
        /\ pc' = IF w THEN WakeReaders(c, pc) ELSE WakeWriters(c, pc)
        /\ \A b \in Pages \ {c} : pipe'[b] = pipe[b]
        /\ pipe'[c].readopen <=> pipe[c].readopen /\ w
        /\ pipe'[c].writeopen <=> pipe[c].writeopen /\ ~w
        /\ IF (pipe[c].readopen /\ w) \/ (pipe[c].writeopen /\ ~w)
           THEN /\ pipe'[c].live = pipe[c].live /\ pipe'[c].lock = None
                /\ pipe'[c].nread = pipe[c].nread /\ pipe'[c].nwrite = pipe[c].nwrite
           ELSE pipe'[c] = FreePipe
        /\ ff' = [ff EXCEPT ![p] = FreeFile]
        /\ UNCHANGED <<file, cut, pi, i, ofile>>
  BY <1>1, PipecloseStep
<1>3. /\ FreePipe.lock = None /\ FreePipe.readopen = FALSE /\ FreePipe.writeopen = FALSE
      /\ FreePipe.live = FALSE /\ FreePipe.nread = 0 /\ FreePipe.nwrite = 0
  BY EmptyType DEF FreePipe
<1>4. \A q \in Procs :
        /\ Stays(q)
        /\ w /\ pi[q] = c => pc'[q] # "r_asleep"
        /\ ~w /\ pi[q] = c => pc'[q] # "w_asleep"
  <2>1. pc \in [Procs -> Points]
    BY <1>1 DEF DescInv, TypeOK
  <2>2. \A q \in Procs :
          /\ WakeReaders(c, pc)[q] = IF pc[q] = "r_asleep" /\ pi[q] = c THEN "read" ELSE pc[q]
          /\ WakeWriters(c, pc)[q] = IF pc[q] = "w_asleep" /\ pi[q] = c THEN "write" ELSE pc[q]
    BY <2>1, Wakes
  <2>3. QED
    BY <1>2, <2>2 DEF Stays
<1>5. OneEnd(c, w) /\ pipe[c].live
  BY <1>1, <1>2, FileOpen DEF IInv, EndInv
<1>6. ASSUME NEW q \in Procs, pi[q] = c
      PROVE  (w => pc[q] \in Reading) /\ (~w => pc[q] \in Writing)
  <2>1. c # None
    BY Constants
  <2>2. /\ pc[q] \in Writing \cup Reading
        /\ \E d \in Fds : /\ ofile[q][d] \in Files /\ file[ofile[q][d]].pipe = c
                          /\ file[ofile[q][d]].writable = (pc[q] \in Writing)
    BY <1>1, <1>6, <2>1 DEF DescInv, CallInv, CallAt
  <2>3. PICK f \in Files : file[f].pipe = c /\ file[f].writable = (pc[q] \in Writing)
    BY <2>2
  <2>4. ~Carries(file[f], c, w)
    BY <1>2, <1>5 DEF OneEnd
  <2>5. file[f].writable # w
    BY <2>3, <2>4 DEF Carries
  <2>6. w => ~(pc[q] \in Writing)
    BY <2>3, <2>5
  <2>7. ~w => pc[q] \in Writing
    BY <2>3, <2>5
  <2>8. QED
    BY <2>2, <2>6, <2>7
<1>7. LockInv' /\ SleepInv' /\ RingInv'
  <2>1. Length(c)' <= PIPESIZE
    <3>1. CASE (pipe[c].readopen /\ w) \/ (pipe[c].writeopen /\ ~w)
      <4>1. Length(c)' = Length(c)
        BY <1>2, <3>1 DEF Length
      <4>2. QED
        BY <4>1 DEF IInv, RingInv
    <3>2. CASE ~((pipe[c].readopen /\ w) \/ (pipe[c].writeopen /\ ~w))
      <4>1. pipe'[c].nread = 0 /\ pipe'[c].nwrite = 0
        BY <1>2, <1>3, <3>2
      <4>2. (0 - 0) % Counters = 0
        BY Constants
      <4>3. Length(c)' = 0
        BY <4>1, <4>2 DEF Length
      <4>4. QED
        BY <4>3, Constants
    <3>3. QED
      BY <3>1, <3>2
  <2>2. pipe'[c].lock = None
    BY <1>2, <1>3
  <2>3. ASSUME NEW q \in Procs, pi'[q] = c
        PROVE  pc'[q] \notin {"r_asleep", "w_asleep"}
    <3>1. pi[q] = c
      BY <1>2, <2>3
    <3>2. CASE w
      BY <1>4, <1>6, <3>1, <3>2 DEF Stays, Reading
    <3>3. CASE ~w
      BY <1>4, <1>6, <3>1, <3>3 DEF Stays, Writing
    <3>4. QED
      BY <3>2, <3>3
  <2>4. \A q \in Procs : Drifts(q)
    BY <1>2, <1>4 DEF Drifts
  <2>5. Frame({c}) /\ {c} \in SUBSET Pages
    BY <1>2, <2>1, <2>2, <2>3, <2>4 DEF Frame
  <2>6. QED
    BY <2>5, FrameInv
<1>8. ff'[p].pipe = None /\ \A q \in Procs \ {p} : ff'[q] = ff[q]
  <2>1. FreeFile.pipe = None
    BY DEF FreeFile
  <2>2. QED
    BY <1>1, <1>2, <2>1 DEF DescInv, TypeOK
<1>9. ASSUME NEW b \in Pages, NEW v \in BOOLEAN
      PROVE  (EndOpen(b, v)' <=> EndOpen(b, v) /\ ~(b = c /\ v = w)) /\ OneEnd(b, v)'
  <2>1. b # None /\ OneEnd(b, v) /\ ff[p].pipe = c /\ ff[p].writable = w
    BY <1>2, Constants DEF IInv, EndInv, Carries
  <2>2. \A q \in Procs : Carries(ff'[q], b, v) <=> Carries(ff[q], b, v) /\ q # p
    BY <1>8, <2>1 DEF Carries
  <2>3. OneEnd(b, v)'
    <3>1. \A h, k \in Files : Carries(file'[h], b, v) /\ Carries(file'[k], b, v) => h = k
      BY <1>2, <2>1 DEF OneEnd
    <3>2. \A q, r \in Procs : Carries(ff'[q], b, v) /\ Carries(ff'[r], b, v) => q = r
      BY <2>1, <2>2 DEF OneEnd
    <3>3. \A h \in Files, q \in Procs : ~(Carries(file'[h], b, v) /\ Carries(ff'[q], b, v))
      BY <1>2, <2>1, <2>2 DEF OneEnd
    <3>4. QED
      BY <3>1, <3>2, <3>3 DEF OneEnd, Carries
  <2>4. ASSUME EndOpen(b, v)'
        PROVE  EndOpen(b, v) /\ ~(b = c /\ v = w)
    <3>1. CASE \E h \in Files : file'[h].ref > 0 /\ file'[h].pipe = b /\ file'[h].writable = v
      <4>1. PICK h \in Files : file[h].ref > 0 /\ file[h].pipe = b /\ file[h].writable = v
        BY <1>2, <3>1
      <4>2. ~(b = c /\ v = w)
        BY <1>2, <1>5, <4>1 DEF OneEnd, Carries
      <4>3. QED
        BY <4>1, <4>2 DEF EndOpen
    <3>2. CASE \E q \in Procs : ff'[q].pipe = b /\ ff'[q].writable = v
      <4>1. PICK q \in Procs : ff'[q].pipe = b /\ ff'[q].writable = v
        BY <3>2
      <4>2. q # p /\ Carries(ff[q], b, v)
        BY <2>2, <4>1 DEF Carries
      <4>3. ~(b = c /\ v = w)
        BY <1>2, <1>5, <4>2 DEF OneEnd
      <4>4. QED
        BY <4>2, <4>3 DEF EndOpen, Carries
    <3>3. QED
      BY <2>4, <3>1, <3>2 DEF EndOpen
  <2>5. ASSUME EndOpen(b, v), ~(b = c /\ v = w)
        PROVE  EndOpen(b, v)'
    <3>1. CASE \E h \in Files : file[h].ref > 0 /\ file[h].pipe = b /\ file[h].writable = v
      BY <1>2, <3>1 DEF EndOpen
    <3>2. CASE \E q \in Procs : ff[q].pipe = b /\ ff[q].writable = v
      <4>1. PICK q \in Procs : ff[q].pipe = b /\ ff[q].writable = v
        BY <3>2
      <4>2. q # p
        BY <2>1, <2>5, <4>1
      <4>3. QED
        BY <1>8, <4>1, <4>2 DEF EndOpen
    <3>3. QED
      BY <2>5, <3>1, <3>2 DEF EndOpen
  <2>6. QED
    BY <2>3, <2>4, <2>5
<1>10. EndInv'
  <2>1. ASSUME NEW b \in Pages
        PROVE  /\ pipe'[b].readopen <=> EndOpen(b, FALSE)'
               /\ pipe'[b].writeopen <=> EndOpen(b, TRUE)'
               /\ pipe'[b].live <=> pipe'[b].readopen \/ pipe'[b].writeopen
               /\ ~pipe'[b].live => pipe'[b] = FreePipe
    <3>0. /\ pipe[b].readopen <=> EndOpen(b, FALSE)
          /\ pipe[b].writeopen <=> EndOpen(b, TRUE)
          /\ pipe[b].live <=> pipe[b].readopen \/ pipe[b].writeopen
          /\ ~pipe[b].live => pipe[b] = FreePipe
      BY DEF IInv, EndInv
    <3>1. CASE b # c
      BY <1>2, <1>9, <3>0, <3>1
    <3>2. CASE b = c
      <4>1. pipe'[c].readopen <=> EndOpen(c, FALSE)'
        BY <1>2, <1>9, <3>0, <3>2
      <4>2. pipe'[c].writeopen <=> EndOpen(c, TRUE)'
        BY <1>2, <1>9, <3>0, <3>2
      <4>3. CASE (pipe[c].readopen /\ w) \/ (pipe[c].writeopen /\ ~w)
        BY <1>2, <1>5, <3>2, <4>1, <4>2, <4>3
      <4>4. CASE ~((pipe[c].readopen /\ w) \/ (pipe[c].writeopen /\ ~w))
        <5>1. pipe'[c] = FreePipe /\ ~pipe'[c].live /\ ~pipe'[c].readopen /\ ~pipe'[c].writeopen
          BY <1>2, <1>3, <4>4
        <5>2. QED
          BY <3>2, <4>1, <4>2, <5>1
      <4>5. QED
        BY <4>3, <4>4
    <3>3. QED
      BY <3>1, <3>2
  <2>2. QED
    BY <1>9, <2>1 DEF EndInv, FreePipe, EmptyPipe
<1>11. QED
  BY <1>1, <1>7, <1>10 DEF IInv

-----------------------------------------------------------------------------
(* The invariant holds.                                                    *)

LEMMA InitInv ==
  ASSUME Init
  PROVE  IInv
<1>1. /\ FreePipe \in PipeType /\ FreePipe.lock = None /\ FreePipe.readopen = FALSE
      /\ FreePipe.writeopen = FALSE /\ FreePipe.live = FALSE /\ FreePipe.nread = 0 /\ FreePipe.nwrite = 0
  BY EmptyType DEF FreePipe
<1>2. FreeFile.ref = 0 /\ FreeFile.pipe = None /\ FreeFile.writable = FALSE
  BY DEF FreeFile
<1>3. TypeOK
  <2>1. FreeFile \in [ref : Nat, pipe : Pages \cup {None}, writable : BOOLEAN]
        /\ FreeFile \in [ref : {0}, pipe : Pages \cup {None}, writable : BOOLEAN]
    BY DEF FreeFile
  <2>2. <<>> \in Seq(Files) /\ 0 \in 0..Count /\ "user" \in Points /\ NoFiles \in [Fds -> Files \cup {None}]
    BY Constants DEF Points, NoFiles
  <2>3. pipe \in [Pages -> PipeType]
    BY <1>1 DEF Init
  <2>4. QED
    BY <2>1, <2>2, <2>3 DEF Init, TypeOK, PipeType
<1>4. HandInv /\ CallInv
  BY <1>2 DEF Init, HandInv, HandAt, CallInv, CallAt, Quiet, Writing, Reading
<1>5. FileInv
  <2>1. ASSUME NEW f \in Files
        PROVE  /\ file[f].ref = Cardinality(Refs(f)) + Cardinality(Hands(f))
               /\ file[f].ref > 0 <=> file[f].pipe # None
    <3>1. \A p \in Procs, d \in Fds : ofile[p][d] # f
      BY Constants DEF Init, NoFiles
    <3>2. \A p \in Procs : f \notin Hand(p)
      <4>1. ASSUME NEW p \in Procs
            PROVE  Hand(p) = {}
        BY <1>4, NothingAtHand DEF HandInv, Init
      <4>2. QED
        BY <4>1
    <3>3. Cardinality(Refs(f)) = 0 /\ Cardinality(Hands(f)) = 0
      BY <1>3, <3>1, <3>2, Counted
    <3>4. file[f].ref = 0 /\ file[f].pipe = None
      BY <1>2 DEF Init
    <3>5. QED
      BY <3>3, <3>4
  <2>2. QED
    BY <2>1 DEF FileInv
<1>6. EndInv
  <2>1. \A f \in Files : file[f].ref = 0 /\ file[f].pipe = None
    BY <1>2 DEF Init
  <2>2. \A p \in Procs : ff[p].pipe = None
    BY <1>2 DEF Init
  <2>3. \A c \in Pages, w \in BOOLEAN : ~EndOpen(c, w) /\ OneEnd(c, w)
    BY <2>1, <2>2, Constants DEF EndOpen, OneEnd, Carries
  <2>4. \A c \in Pages : pipe[c] = FreePipe
    BY DEF Init
  <2>5. QED
    BY <1>1, <2>3, <2>4 DEF EndInv
<1>7. LockInv /\ SleepInv
  <2>1. \A c \in Pages : pipe[c].lock = None
    BY <1>1 DEF Init
  <2>2. \A p \in Procs : pc[p] = "user"
    BY DEF Init
  <2>3. QED
    BY <2>1, <2>2, Constants DEF LockInv, SleepInv, SleepAt, Locking
<1>8. RingInv
  <2>1. (0 - 0) % Counters = 0 /\ 0 <= PIPESIZE
    BY Constants
  <2>2. \A c \in Pages : pipe[c].nread = 0 /\ pipe[c].nwrite = 0
    BY <1>1 DEF Init
  <2>3. QED
    BY <2>1, <2>2 DEF RingInv, Length
<1>9. QED
  BY <1>3, <1>4, <1>5, <1>6, <1>7, <1>8 DEF IInv, DescInv

LEMMA FdsInv ==
  ASSUME IInv, NEW p \in Procs, pipe_fds(p)
  PROVE  IInv'
<1>1. /\ pc[p] = "pipe_fds" /\ pc' = [pc EXCEPT ![p] = "user"]
      /\ UNCHANGED <<file, pipe, cut, pi, i, ff>>
  BY DEF pipe_fds, At, Goto
<1>2. \A q \in Procs : Drifts(q)
  BY <1>1 DEF Drifts, Stays, IInv, DescInv, TypeOK, Writing, Reading, Locking
<1>3. DescInv'
  BY FdsDesc DEF IInv
<1>4. QED
  BY <1>1, <1>2, <1>3, Still

LEMMA DupInv ==
  ASSUME IInv, NEW p \in Procs, NEW d \in Fds, sys_dup(p, d)
  PROVE  IInv'
<1>1. DescInv' /\ UNCHANGED <<pipe, cut, pc, pi, i, ff>>
  BY DupDesc DEF IInv, sys_dup
<1>2. \A q \in Procs : Drifts(q)
  BY <1>1 DEF Drifts, Stays
<1>3. \A f \in Files : file'[f].pipe = file[f].pipe /\ file'[f].writable = file[f].writable
  <2>1. file \in [Files -> FileType]
    BY DEF IInv, DescInv, TypeOK, FileType
  <2>2. file' = [file EXCEPT ![ofile[p][d]].ref = file[ofile[p][d]].ref + 1]
    BY DEF sys_dup, filedup
  <2>3. QED
    BY <2>1, <2>2 DEF FileType
<1>4. QED
  BY <1>1, <1>2, <1>3, Still

LEMMA CloseInv ==
  ASSUME IInv, NEW p \in Procs, (\E d \in Fds : sys_close(p, d)) \/ exit_close(p)
  PROVE  IInv'
<1>1. PICK d \in Fds :
        /\ ofile[p][d] # None /\ (At(p, "user") \/ At(p, "exit"))
        /\ ofile' = [ofile EXCEPT ![p][d] = None]
        /\ closing' = [closing EXCEPT ![p] = <<ofile[p][d]>>]
        /\ UNCHANGED <<file, pipe, cut, alive, killed, pc, pi, i, new, ff>>
  <2>1. CASE \E d \in Fds : sys_close(p, d)
    BY <2>1 DEF sys_close, User, Open
  <2>2. CASE exit_close(p)
    <3>1. Open(p) \in SUBSET Fds /\ Open(p) # {}
      BY <2>2 DEF exit_close, Open
    <3>2. PICK d \in Fds : d = Min(Open(p)) /\ d \in Open(p)
      BY <3>1, First
    <3>3. ofile[p][d] # None
      BY <3>2 DEF Open
    <3>4. QED
      BY <2>2, <3>2, <3>3 DEF exit_close
  <2>3. QED
    BY <2>1, <2>2
<1>2. DescInv'
  BY <1>1, CloseDesc DEF IInv
<1>3. \A q \in Procs : Drifts(q)
  BY <1>1 DEF Drifts, Stays
<1>4. QED
  BY <1>1, <1>2, <1>3, Still

LEMMA ForkInv ==
  ASSUME IInv, NEW p \in Procs, NEW q \in Procs, fork(p, q)
  PROVE  IInv'
<1>1. DescInv' /\ UNCHANGED <<pipe, cut, pc, pi, i, ff>>
  BY ForkDesc DEF IInv, fork
<1>2. \A r \in Procs : Drifts(r)
  BY <1>1 DEF Drifts, Stays
<1>3. \A f \in Files : file'[f].pipe = file[f].pipe /\ file'[f].writable = file[f].writable
  <2>1. file \in [Files -> FileType]
    BY DEF IInv, DescInv, TypeOK, FileType
  <2>2. file' = [f \in Files |-> [file[f] EXCEPT !.ref = file[f].ref + Cardinality(Holding(p, f))]]
    BY DEF fork
  <2>3. QED
    BY <2>1, <2>2 DEF FileType
<1>4. QED
  BY <1>1, <1>2, <1>3, Still

LEMMA ProcessInv ==
  ASSUME IInv, NEW p \in Procs, start(p) \/ exit(p) \/ exit_end(p) \/ kill(p)
  PROVE  IInv'
<1>1. DescInv' /\ UNCHANGED <<file, pipe, cut, pi, i, ff>>
  BY StartDesc, ExitDesc, KillDesc DEF IInv, start, exit, exit_end, kill, own
<1>2. \A q \in Procs : Drifts(q)
  <2>1. CASE start(p)
    BY <1>1, <2>1 DEF start, Drifts, Stays
  <2>2. CASE exit(p) \/ exit_end(p)
    <3>1. pc[p] \in {"user", "exit"} /\ (pc' = [pc EXCEPT ![p] = "exit"] \/ pc' = [pc EXCEPT ![p] = "user"])
      BY <2>2 DEF exit, exit_end, At, Goto
    <3>2. QED
      BY <1>1, <3>1 DEF Drifts, Stays, IInv, DescInv, TypeOK, Writing, Reading, Locking
  <2>3. CASE kill(p)
    BY <1>1, <2>3, KillDesc DEF IInv, Drifts
  <2>4. QED
    BY <2>1, <2>2, <2>3
<1>3. QED
  BY <1>1, <1>2, Still

LEMMA CallStepInv ==
  ASSUME IInv, NEW p \in Procs, NEW d \in Fds, sys_read(p, d) \/ sys_write(p, d)
  PROVE  IInv'
<1>1. PICK point \in {"read", "write"} : Call(p, d, point)
  BY DEF sys_read, sys_write
<1>2. /\ pc[p] = "user" /\ pc' = [pc EXCEPT ![p] = point]
      /\ pi' = [pi EXCEPT ![p] = file[ofile[p][d]].pipe]
      /\ UNCHANGED <<file, pipe, cut, i, ff>>
  BY <1>1 DEF Call, User, At, Goto, own
<1>3. DescInv'
  BY <1>1, CallDesc DEF IInv
<1>4. \A q \in Procs : Drifts(q)
  BY <1>2 DEF Drifts, Stays, IInv, DescInv, TypeOK, Writing, Reading, Locking
<1>5. QED
  BY <1>2, <1>3, <1>4, Still

LEMMA NextInv ==
  ASSUME IInv, [Next]_vars
  PROVE  IInv'
<1>1. CASE UNCHANGED vars
  <2>1. UNCHANGED <<file, pipe, cut, alive, killed, pc, pi, i, ofile, new, closing, ff>>
    BY <1>1 DEF vars, own
  <2>2. DescInv'
    <3>1. TypeOK' /\ HandInv' /\ CallInv'
      BY <2>1 DEF IInv, DescInv, TypeOK, HandInv, HandAt, CallInv, CallAt, Quiet
    <3>2. FileInv'
      BY <2>1, SameFiles DEF IInv, DescInv
    <3>3. QED
      BY <3>1, <3>2 DEF DescInv
  <2>3. \A q \in Procs : Drifts(q)
    BY <2>1 DEF Drifts, Stays
  <2>4. QED
    BY <2>1, <2>2, <2>3, Still
<1>2. ASSUME NEW p \in Procs,
             \/ pipealloc(p) \/ pipe_fds(p) \/ fileclose(p) \/ pipeclose(p)
             \/ start(p) \/ exit(p) \/ exit_close(p) \/ exit_end(p) \/ kill(p)
      PROVE  IInv'
  BY <1>2, AllocInv, FdsInv, FilecloseInv, PipecloseInv, ProcessInv, CloseInv
<1>3. ASSUME NEW p \in Procs,
             \/ sleep(p)
             \/ pipewrite_return(p) \/ pipewrite_full(p) \/ pipewrite_byte(p) \/ pipewrite_end(p)
             \/ piperead_wait(p) \/ piperead_go(p) \/ piperead_byte(p) \/ piperead_end(p)
      PROVE  IInv'
  <2>1. Good(p)
    BY <1>3, SleepStep, WriteReturn, WriteFull, WriteByte, WriteEnd, ReadWait, ReadGo, ReadByte, ReadEnd
  <2>2. QED
    BY <2>1, TurnInv
<1>4. ASSUME NEW p \in Procs, NEW d \in Fds,
             sys_dup(p, d) \/ sys_close(p, d) \/ sys_read(p, d) \/ sys_write(p, d)
      PROVE  IInv'
  BY <1>4, DupInv, CloseInv, CallStepInv
<1>5. ASSUME NEW p \in Procs, NEW q \in Procs, fork(p, q)
      PROVE  IInv'
  BY <1>5, ForkInv
<1>6. QED
  BY <1>1, <1>2, <1>3, <1>4, <1>5 DEF Next

\* The invariant, of every behaviour.
THEOREM Invariance == Spec => []IInv
<1>1. Init => IInv
  BY InitInv
<1>2. IInv /\ [Next]_vars => IInv'
  BY NextInv
<1>3. QED
  BY <1>1, <1>2, PTL DEF Spec

\* The variables keep their types: descriptors are files or none, a reference count is
\* a natural number and a counter one of Counters.
THEOREM TypeCorrect == Spec => []TypeOK
<1>1. IInv => TypeOK
  BY DEF IInv, DescInv
<1>2. QED
  BY <1>1, Invariance, PTL

\* dup(), fork(), pipe() and its failures, close() and exit(): a file's reference
\* count is the number of its descriptors and of the files in hand.
THEOREM ReferencesExact == Spec => []FileRefs
<1>1. IInv => FileRefs
  BY DEF IInv, DescInv, FileInv, FileRefs, Refs, RefsOf, Hands, Hand
<1>2. QED
  BY <1>1, Invariance, PTL

\* An end of a pipe is open exactly as long as it has a file or a close() on its way,
\* and no process is in a pipe that is gone.
THEOREM EndsHaveFiles == Spec => []PipeEnds
<1>1. ASSUME IInv
      PROVE  PipeEnds
  <2>1. ASSUME NEW c \in Pages
        PROVE  /\ pipe[c].readopen = EndOpen(c, FALSE)
               /\ pipe[c].writeopen = EndOpen(c, TRUE)
               /\ pipe[c].live = (EndOpen(c, FALSE) \/ EndOpen(c, TRUE))
    <3>1. /\ pipe[c].readopen <=> EndOpen(c, FALSE)
          /\ pipe[c].writeopen <=> EndOpen(c, TRUE)
          /\ pipe[c].live <=> (EndOpen(c, FALSE) \/ EndOpen(c, TRUE))
      BY <1>1 DEF IInv, EndInv
    <3>2. pipe[c].readopen \in BOOLEAN /\ pipe[c].writeopen \in BOOLEAN /\ pipe[c].live \in BOOLEAN
      BY <1>1 DEF IInv, DescInv, TypeOK
    <3>3. EndOpen(c, FALSE) \in BOOLEAN /\ EndOpen(c, TRUE) \in BOOLEAN
      BY DEF EndOpen
    <3> HIDE DEF EndOpen
    <3>4. QED
      BY <3>1, <3>2, <3>3
  <2>2. \A p \in Procs : pi[p] # None => pipe[pi[p]].live
    BY <1>1, InLivePipe DEF IInv
  <2>3. QED
    BY <2>1, <2>2 DEF PipeEnds
<1>2. QED
  BY <1>1, Invariance, PTL

\* wakeup() is called whenever a pipe is no longer empty or full, but by a writer that
\* has been killed: who sleeps in a pipe has a reason to.
THEOREM WakeupsNotLost == Spec => []NoLostWakeup
<1>1. ASSUME IInv
      PROVE  NoLostWakeup
  <2>1. ASSUME NEW p \in Procs
        PROVE  /\ pc[p] = "r_asleep" => pipe[pi[p]].writeopen /\ (Empty(pi[p]) \/ pi[p] \in cut
                                          \/ pipe[pi[p]].lock # None)
               /\ pc[p] = "w_asleep" => pipe[pi[p]].readopen /\ (Full(pi[p]) \/ pipe[pi[p]].lock # None)
    <3>1. CASE pc[p] \notin {"r_asleep", "w_asleep"}
      BY <3>1
    <3>2. CASE pc[p] \in {"r_asleep", "w_asleep"}
      <4>1. pi[p] \in Pages
        BY <1>1, <3>2 DEF IInv, DescInv, CallInv, CallAt, Writing, Reading
      <4>2. SleepAt(p, pi[p])
        BY <1>1, <4>1 DEF IInv, SleepInv
      <4>3. \A point : Busy(pi[p], point) => pipe[pi[p]].lock # None
        BY Constants DEF Busy
      <4>4. QED
        BY <4>2, <4>3 DEF SleepAt
    <3>3. QED
      BY <3>1, <3>2
  <2>2. QED
    BY <2>1 DEF NoLostWakeup
<1>2. QED
  BY <1>1, Invariance, PTL

-----------------------------------------------------------------------------
(* A pipe is a queue of bytes.                                             *)

\* n bytes of the ring, from a position on.
Bytes(d, r, n) == [k \in 1..n |-> d[Pos(r + k - 1)]]
DataType == [0..PIPESIZE - 1 -> Byte]

LEMMA BytesSeq ==
  ASSUME NEW d \in DataType, NEW r \in 0..Counters - 1, NEW n \in Nat
  PROVE  /\ Bytes(d, r, n) \in Seq(Byte) /\ Len(Bytes(d, r, n)) = n
         /\ \A k \in 1..n : /\ Bytes(d, r, n)[k] = d[Pos(r + k - 1)]
                            /\ Pos(r + k - 1) \in 0..PIPESIZE - 1
         /\ n = 0 => Bytes(d, r, n) = <<>>
<1>1. ASSUME NEW k \in 1..n
      PROVE  Pos(r + k - 1) \in 0..PIPESIZE - 1
  <2>1. PICK l \in Nat : l = k - 1
    BY <1>1
  <2>2. Pos(r + l) \in 0..PIPESIZE - 1
    BY Position
  <2>3. r + l = r + k - 1
    BY <2>1, Constants
  <2>4. QED
    BY <2>2, <2>3
<1>2. Bytes(d, r, n) \in [1..n -> Byte]
  BY <1>1 DEF Bytes, DataType
<1>3. Bytes(d, r, n) \in Seq(Byte)
  BY <1>2, SeqDef
<1>4. DOMAIN Bytes(d, r, n) = 1..n
  BY DEF Bytes
<1>5. Len(Bytes(d, r, n)) = n
  BY <1>3, <1>4, LenProperties
<1>6. \A k \in 1..n : Bytes(d, r, n)[k] = d[Pos(r + k - 1)]
  BY DEF Bytes
<1>7. n = 0 => Bytes(d, r, n) = <<>>
  BY <1>3, <1>5, EmptySeq
<1>8. QED
  BY <1>1, <1>3, <1>5, <1>6, <1>7

\* A byte is written at the end of them,
LEMMA BytesPut ==
  ASSUME NEW d \in DataType, NEW r \in 0..Counters - 1, NEW w \in 0..Counters - 1, NEW ch \in Byte,
         Dist(w, r) < PIPESIZE
  PROVE  Bytes([d EXCEPT ![Pos(w)] = ch], r, Dist(w, r) + 1) = Append(Bytes(d, r, Dist(w, r)), ch)
<1>1. PICK n \in Nat : n = Dist(w, r) /\ n < PIPESIZE /\ n + 1 \in Nat
  <2>1. Dist(w, r) \in 0..Counters - 1
    BY Advance
  <2>2. QED
    BY <2>1
<1>2. PICK k0 \in 0..PIPESIZE - 1 : k0 = Pos(w) /\ Pos(r + n) = k0
  <2>1. Pos(w) = Pos(r + n)
    BY <1>1, RingEnd
  <2>2. Pos(w) \in 0..PIPESIZE - 1
    <3>1. 0 \in Nat
      OBVIOUS
    <3>2. QED
      BY <3>1, Position
  <2>3. QED
    BY <2>1, <2>2
<1>3. PICK d2 \in DataType : d2 = [d EXCEPT ![k0] = ch]
  BY DEF DataType
<1>4. d2[k0] = ch /\ \A k \in 0..PIPESIZE - 1 : k # k0 => d2[k] = d[k]
  BY <1>3 DEF DataType
<1>5. PICK s \in Seq(Byte) : s = Bytes(d, r, n)
  BY BytesSeq
<1>6. Len(s) = n /\ \A k \in 1..n : s[k] = d[Pos(r + k - 1)] /\ Pos(r + k - 1) \in 0..PIPESIZE - 1
  BY <1>5, BytesSeq
<1>7. PICK t \in Seq(Byte) : t = Bytes(d2, r, n + 1)
  BY <1>1, BytesSeq
<1>8. Len(t) = n + 1 /\ \A k \in 1..n + 1 : t[k] = d2[Pos(r + k - 1)]
  BY <1>1, <1>7, BytesSeq
<1>9. ASSUME NEW k \in 1..n
      PROVE  t[k] = s[k]
  <2>1. PICK x \in Nat, y \in Nat : x = r + k - 1 /\ y = r + n
    BY Constants
  <2>2. x < y /\ y < x + PIPESIZE
    BY <1>1, <2>1, Constants
  <2>3. Pos(x) # Pos(y)
    BY <2>2, Apart DEF Pos
  <2>4. Pos(r + k - 1) # k0
    BY <1>2, <2>1, <2>3
  <2>5. k \in 1..n + 1
    OBVIOUS
  <2>6. QED
    BY <1>4, <1>6, <1>8, <2>4, <2>5
<1>10. t[n + 1] = ch
  <2>1. n + 1 \in 1..n + 1 /\ r + (n + 1) - 1 = r + n
    BY Constants
  <2>2. QED
    BY <1>2, <1>4, <1>8, <2>1
<1>11. /\ Append(s, ch) \in Seq(Byte) /\ Len(Append(s, ch)) = n + 1
       /\ \A k \in 1..n : Append(s, ch)[k] = s[k]
       /\ Append(s, ch)[n + 1] = ch
  BY <1>6
<1>12. t = Append(s, ch)
  <2>1. \A k \in 1..Len(t) : t[k] = Append(s, ch)[k]
    <3>1. \A k \in 1..Len(t) : k \in 1..n \/ k = n + 1
      BY <1>8
    <3>2. QED
      BY <1>9, <1>10, <1>11, <3>1
  <2>2. QED
    BY <1>8, <1>11, <2>1, SeqEqual
<1>13. QED
  BY <1>1, <1>2, <1>3, <1>5, <1>7, <1>12

\* and one is read at their front.
LEMMA BytesGet ==
  ASSUME NEW d \in DataType, NEW r \in 0..Counters - 1, NEW n \in Nat, n > 0
  PROVE  /\ Bytes(d, r, n) # <<>>
         /\ Bytes(d, Succ(r), n - 1) = Tail(Bytes(d, r, n))
<1>1. PICK m \in Nat, r2 \in 0..Counters - 1 : m = n - 1 /\ r2 = Succ(r)
  <2>1. Succ(r) \in 0..Counters - 1
    BY Advance
  <2>2. n - 1 \in Nat
    OBVIOUS
  <2>3. QED
    BY <2>1, <2>2
<1>2. PICK s \in Seq(Byte) : s = Bytes(d, r, n)
  BY BytesSeq
<1>3. Len(s) = n /\ \A k \in 1..n : s[k] = d[Pos(r + k - 1)]
  BY <1>2, BytesSeq
<1>4. PICK t \in Seq(Byte) : t = Bytes(d, r2, m)
  BY BytesSeq
<1>5. Len(t) = m /\ \A k \in 1..m : t[k] = d[Pos(r2 + k - 1)]
  BY <1>4, BytesSeq
<1>6. s # <<>>
  BY <1>3, EmptySeq
<1>7. Tail(s) \in Seq(Byte) /\ Len(Tail(s)) = m /\ \A k \in 1..m : Tail(s)[k] = s[k + 1]
  <2>1. /\ Tail(s) \in Seq(Byte) /\ Len(Tail(s)) = Len(s) - 1
        /\ \A k \in 1..Len(Tail(s)) : Tail(s)[k] = s[k + 1]
    BY <1>6, HeadTailProperties
  <2>2. QED
    BY <1>1, <1>3, <2>1
<1>8. ASSUME NEW k \in 1..m
      PROVE  t[k] = s[k + 1]
  <2>1. PICK l \in Nat : l = k - 1
    OBVIOUS
  <2>2. Pos(Succ(r) + l) = Pos(r + 1 + l)
    BY Position
  <2>3. r2 + k - 1 = Succ(r) + l /\ r + 1 + l = r + (k + 1) - 1 /\ k + 1 \in 1..n
    BY <1>1, <2>1, Constants
  <2>4. QED
    BY <1>3, <1>5, <2>2, <2>3
<1>9. t = Tail(s)
  BY <1>5, <1>7, <1>8, SeqEqual
<1>10. QED
  BY <1>1, <1>2, <1>4, <1>6, <1>9

\* The queue and its ends, as the abstract specification sees them.
OpenOf(c) ==
  (IF pipe[c].readopen THEN {"r"} ELSE {}) \cup (IF pipe[c].writeopen THEN {"w"} ELSE {})

Queues == [c \in Pages |-> Contents(c)]
Opens  == [c \in Pages |-> OpenOf(c)]

LEMMA QueueOf ==
  ASSUME IInv, NEW c \in Pages
  PROVE  /\ Contents(c) = Bytes(pipe[c].data, pipe[c].nread, Length(c))
         /\ pipe[c].data \in DataType /\ pipe[c].nread \in 0..Counters - 1 /\ Length(c) \in Nat
         /\ Len(Contents(c)) = Length(c)
         /\ Length(c) = 0 => Contents(c) = <<>>
<1>1. Contents(c) = Bytes(pipe[c].data, pipe[c].nread, Length(c))
  BY DEF Contents, Bytes, Length, Pos
<1>2. pipe[c].data \in DataType /\ pipe[c].nread \in 0..Counters - 1
  BY DEF IInv, DescInv, TypeOK, DataType
<1>3. Length(c) \in Nat
  <2>1. Length(c) \in 0..PIPESIZE
    BY RingLength
  <2>2. QED
    BY <2>1
<1>4. PICK d \in DataType, r \in 0..Counters - 1, n \in Nat :
        d = pipe[c].data /\ r = pipe[c].nread /\ n = Length(c)
  BY <1>2, <1>3
<1>5. Len(Bytes(d, r, n)) = n /\ (n = 0 => Bytes(d, r, n) = <<>>)
  BY BytesSeq
<1>6. QED
  BY <1>1, <1>2, <1>3, <1>4, <1>5

\* A step that leaves a pipe alone, or no more than takes or releases its lock.
LEMMA SameQueue ==
  ASSUME NEW c \in Pages, pipe'[c].data = pipe[c].data,
         pipe'[c].nread = pipe[c].nread, pipe'[c].nwrite = pipe[c].nwrite
  PROVE  Contents(c)' = Contents(c)
BY DEF Contents

LEMMA Stutter ==
  ASSUME SameBytes, \A c \in Pages : /\ pipe'[c].readopen = pipe[c].readopen
                                     /\ pipe'[c].writeopen = pipe[c].writeopen
  PROVE  UNCHANGED <<Queues, Opens>>
<1>1. \A c \in Pages : Contents(c)' = Contents(c)
  BY SameQueue DEF SameBytes
<1>2. \A c \in Pages : OpenOf(c)' = OpenOf(c)
  BY DEF OpenOf
<1>3. QED
  BY <1>1, <1>2 DEF Queues, Opens

LEMMA PutStep ==
  ASSUME IInv, NEW p \in Procs, pipewrite_byte(p)
  PROVE  \E c \in Pages, ch \in Byte :
           /\ Opens[c] = {"r", "w"} /\ Len(Queues[c]) < PIPESIZE
           /\ Queues' = [Queues EXCEPT ![c] = Append(Queues[c], ch)] /\ Opens' = Opens
<1>1. PICK c \in Pages, ch \in Byte :
        pi[p] = c /\ Stored(c, ch, p) /\ Length(c) < PIPESIZE /\ pipe[c].readopen
  BY WriteByte
<1>2. pipe[c].writeopen
  <2>1. pi[p] # None /\ pc[p] \in Writing
    BY <1>1, Constants DEF pipewrite_byte, At, Writing
  <2>2. QED
    BY <1>1, <2>1, InLivePipe DEF IInv
<1>3. Opens[c] = {"r", "w"}
  BY <1>1, <1>2 DEF Opens, OpenOf
<1>4. Len(Queues[c]) < PIPESIZE
  BY <1>1, QueueOf DEF Queues
<1>5. PICK d \in DataType, r \in 0..Counters - 1, w \in 0..Counters - 1 :
        d = pipe[c].data /\ r = pipe[c].nread /\ w = pipe[c].nwrite
  BY QueueOf, RingLength
<1>6. Length(c) = Dist(w, r) /\ Dist(w, r) < PIPESIZE /\ Dist(w, r) + 1 < Counters
  <2>1. Length(c) = Dist(w, r)
    BY <1>5 DEF Length, Dist
  <2>2. Dist(w, r) \in 0..Counters - 1
    BY Advance
  <2>3. QED
    BY <1>1, <2>1, <2>2, Constants
<1>7. Length(c)' = Dist(w, r) + 1
  <2>1. Length(c)' = Dist(Succ(w), r)
    BY <1>1, <1>5 DEF Length, Dist, Stored
  <2>2. QED
    BY <1>6, <2>1, Advance
<1>8. Contents(c)' = Bytes(pipe'[c].data, pipe'[c].nread, Length(c)')
  BY DEF Contents, Bytes, Length, Pos
<1>9. Contents(c)' = Append(Contents(c), ch)
  <2>1. Contents(c)' = Bytes([d EXCEPT ![Pos(w)] = ch], r, Dist(w, r) + 1)
    BY <1>1, <1>5, <1>7, <1>8 DEF Stored
  <2>2. Contents(c) = Bytes(d, r, Dist(w, r))
    BY <1>5, <1>6, QueueOf
  <2>3. QED
    BY <1>6, <2>1, <2>2, BytesPut
<1>10. ASSUME NEW b \in Pages, b # c
       PROVE  Contents(b)' = Contents(b)
  <2>1. pipe'[b] = pipe[b]
    BY <1>1, <1>10 DEF Stored
  <2>2. QED
    BY <2>1, SameQueue
<1>11. Queues' = [Queues EXCEPT ![c] = Append(Queues[c], ch)]
  BY <1>9, <1>10 DEF Queues
<1>12. Opens' = Opens
  <2>1. \A b \in Pages : OpenOf(b)' = OpenOf(b)
    BY <1>1 DEF OpenOf, Stored
  <2>2. QED
    BY <2>1 DEF Opens
<1>13. QED
  BY <1>3, <1>4, <1>11, <1>12

LEMMA GetStep ==
  ASSUME IInv, NEW p \in Procs, piperead_byte(p)
  PROVE  \E c \in Pages :
           /\ "r" \in Opens[c] /\ Queues[c] # <<>>
           /\ Queues' = [Queues EXCEPT ![c] = Tail(Queues[c])] /\ Opens' = Opens
<1>1. PICK c \in Pages : pi[p] = c /\ Taken(c) /\ Length(c) > 0
  BY ReadByte
<1>2. pipe[c].readopen
  <2>1. pi[p] # None /\ pc[p] \in Reading
    BY <1>1, Constants DEF piperead_byte, At, Reading
  <2>2. QED
    BY <1>1, <2>1, InLivePipe DEF IInv
<1>3. "r" \in Opens[c]
  BY <1>2 DEF Opens, OpenOf
<1>4. PICK d \in DataType, r \in 0..Counters - 1, w \in 0..Counters - 1, n \in Nat :
        d = pipe[c].data /\ r = pipe[c].nread /\ w = pipe[c].nwrite /\ n = Length(c)
  BY QueueOf, RingLength
<1>5. n > 0 /\ n = Dist(w, r) /\ w # r
  <2>1. n = Dist(w, r)
    BY <1>4 DEF Length, Dist
  <2>2. w = r => Dist(w, r) = 0
    BY Advance
  <2>3. QED
    BY <1>1, <1>4, <2>1, <2>2
<1>6. Length(c)' = n - 1
  <2>1. Length(c)' = Dist(w, Succ(r))
    BY <1>1, <1>4 DEF Length, Dist, Taken
  <2>2. QED
    BY <1>5, <2>1, Advance
<1>7. Contents(c)' = Bytes(pipe'[c].data, pipe'[c].nread, Length(c)')
  BY DEF Contents, Bytes, Length, Pos
<1>8. Contents(c)' = Tail(Contents(c)) /\ Contents(c) # <<>>
  <2>1. Contents(c)' = Bytes(d, Succ(r), n - 1)
    BY <1>1, <1>4, <1>6, <1>7 DEF Taken
  <2>2. Contents(c) = Bytes(d, r, n)
    BY <1>4, QueueOf
  <2>3. QED
    BY <1>5, <2>1, <2>2, BytesGet
<1>9. ASSUME NEW b \in Pages, b # c
      PROVE  Contents(b)' = Contents(b)
  <2>1. pipe'[b] = pipe[b]
    BY <1>1, <1>9 DEF Taken
  <2>2. QED
    BY <2>1, SameQueue
<1>10. Queues' = [Queues EXCEPT ![c] = Tail(Queues[c])] /\ Queues[c] # <<>>
  BY <1>8, <1>9 DEF Queues
<1>11. Opens' = Opens
  <2>1. \A b \in Pages : OpenOf(b)' = OpenOf(b)
    BY <1>1 DEF OpenOf, Taken
  <2>2. QED
    BY <2>1 DEF Opens
<1>12. QED
  BY <1>3, <1>10, <1>11

LEMMA FreeQueue ==
  ASSUME NEW c \in Pages, NEW x \in PipeType, x.nread = 0, x.nwrite = 0
  PROVE  /\ pipe[c] = x => Contents(c) = <<>>
         /\ pipe'[c] = x => Contents(c)' = <<>>
<1>1. PICK d \in DataType : d = x.data
  BY DEF PipeType, DataType
<1>2. 0 \in 0..Counters - 1 /\ (0 - 0) % Counters = 0 /\ 0 \in Nat
  BY Constants
<1>3. Bytes(d, 0, 0) = <<>>
  BY <1>2, BytesSeq
<1>4. pipe[c] = x => Contents(c) = Bytes(d, 0, 0)
  BY <1>1, <1>2 DEF Contents, Bytes, Pos
<1>5. pipe'[c] = x => Contents(c)' = Bytes(d, 0, 0)
  BY <1>1, <1>2 DEF Contents, Bytes, Pos
<1>6. QED
  BY <1>3, <1>4, <1>5

LEMMA CreateStep ==
  ASSUME IInv, NEW p \in Procs, pipealloc(p)
  PROVE  \E c \in Pages :
           Opens[c] = {} /\ Opens' = [Opens EXCEPT ![c] = {"r", "w"}] /\ Queues' = Queues
<1>1. PICK c \in Pages : ~pipe[c].live /\ pipe' = [pipe EXCEPT ![c] = EmptyPipe(TRUE)]
  BY TwoFiles DEF IInv, DescInv
<1>2. pipe[c] = EmptyPipe(FALSE)
  BY <1>1 DEF IInv, EndInv, FreePipe
<1>3. pipe'[c] = EmptyPipe(TRUE) /\ \A b \in Pages \ {c} : pipe'[b] = pipe[b]
  BY <1>1 DEF IInv, DescInv, TypeOK
<1>4. Contents(c) = <<>> /\ Contents(c)' = <<>>
  <2>1. EmptyPipe(FALSE) \in PipeType /\ EmptyPipe(FALSE).nread = 0 /\ EmptyPipe(FALSE).nwrite = 0
    BY EmptyType
  <2>2. EmptyPipe(TRUE) \in PipeType /\ EmptyPipe(TRUE).nread = 0 /\ EmptyPipe(TRUE).nwrite = 0
    BY EmptyType
  <2>3. QED
    BY <1>2, <1>3, <2>1, <2>2, FreeQueue
<1>5. \A b \in Pages \ {c} : Contents(b)' = Contents(b)
  BY <1>3, SameQueue
<1>6. Queues' = Queues
  BY <1>4, <1>5 DEF Queues
<1>7. OpenOf(c) = {} /\ OpenOf(c)' = {"r", "w"}
  BY <1>2, <1>3, EmptyType DEF OpenOf
<1>8. \A b \in Pages \ {c} : OpenOf(b)' = OpenOf(b)
  BY <1>3 DEF OpenOf
<1>9. Opens[c] = {} /\ Opens' = [Opens EXCEPT ![c] = {"r", "w"}]
  BY <1>7, <1>8 DEF Opens
<1>10. QED
  BY <1>6, <1>9

LEMMA CloseStep ==
  ASSUME IInv, NEW p \in Procs, pipeclose(p)
  PROVE  \E c \in Pages, e \in {"r", "w"} :
           /\ e \in Opens[c] /\ Opens' = [Opens EXCEPT ![c] = Opens[c] \ {e}]
           /\ Queues' = [Queues EXCEPT ![c] = IF Opens[c] = {e} THEN <<>> ELSE Queues[c]]
<1>1. PICK c \in Pages, w \in BOOLEAN :
        /\ Carries(ff[p], c, w)
        /\ \A b \in Pages \ {c} : pipe'[b] = pipe[b]
        /\ pipe'[c].readopen <=> pipe[c].readopen /\ w
        /\ pipe'[c].writeopen <=> pipe[c].writeopen /\ ~w
        /\ IF (pipe[c].readopen /\ w) \/ (pipe[c].writeopen /\ ~w)
           THEN /\ pipe'[c].data = pipe[c].data
                /\ pipe'[c].nread = pipe[c].nread /\ pipe'[c].nwrite = pipe[c].nwrite
           ELSE pipe'[c] = FreePipe
  BY PipecloseStep DEF IInv
<1>2. PICK e \in {"r", "w"} : e = IF w THEN "w" ELSE "r"
  OBVIOUS
<1>3. IF w THEN pipe[c].writeopen ELSE pipe[c].readopen
  <2>1. EndOpen(c, w)
    BY <1>1, FileOpen DEF IInv
  <2>2. w = TRUE \/ w = FALSE
    OBVIOUS
  <2>3. QED
    BY <2>1, <2>2 DEF IInv, EndInv
<1>4. /\ OpenOf(c)' = OpenOf(c) \ {e} /\ e \in OpenOf(c)
      /\ OpenOf(c) = {e} <=> ~((pipe[c].readopen /\ w) \/ (pipe[c].writeopen /\ ~w))
  <2>1. CASE w
    <3>1. /\ OpenOf(c) = (IF pipe[c].readopen THEN {"r"} ELSE {}) \cup {"w"}
          /\ OpenOf(c)' = IF pipe[c].readopen THEN {"r"} ELSE {}
      BY <1>1, <1>3, <2>1 DEF OpenOf
    <3>2. QED
      BY <1>2, <2>1, <3>1
  <2>2. CASE ~w
    <3>1. /\ OpenOf(c) = {"r"} \cup (IF pipe[c].writeopen THEN {"w"} ELSE {})
          /\ OpenOf(c)' = IF pipe[c].writeopen THEN {"w"} ELSE {}
      BY <1>1, <1>3, <2>2 DEF OpenOf
    <3>2. QED
      BY <1>2, <2>2, <3>1
  <2>3. QED
    BY <2>1, <2>2
<1>5. Contents(c)' = IF OpenOf(c) = {e} THEN <<>> ELSE Contents(c)
  <2>1. CASE (pipe[c].readopen /\ w) \/ (pipe[c].writeopen /\ ~w)
    BY <1>1, <1>4, <2>1, SameQueue
  <2>2. CASE ~((pipe[c].readopen /\ w) \/ (pipe[c].writeopen /\ ~w))
    <3>1. FreePipe \in PipeType /\ FreePipe.nread = 0 /\ FreePipe.nwrite = 0
      BY EmptyType DEF FreePipe
    <3>2. pipe'[c] = FreePipe
      BY <1>1, <2>2
    <3>3. QED
      BY <1>4, <2>2, <3>1, <3>2, FreeQueue
  <2>3. QED
    BY <2>1, <2>2
<1>6. \A b \in Pages \ {c} : Contents(b)' = Contents(b) /\ OpenOf(b)' = OpenOf(b)
  BY <1>1, SameQueue DEF OpenOf
<1>7. e \in Opens[c] /\ Opens' = [Opens EXCEPT ![c] = Opens[c] \ {e}]
  BY <1>4, <1>6 DEF Opens
<1>8. Queues' = [Queues EXCEPT ![c] = IF Opens[c] = {e} THEN <<>> ELSE Queues[c]]
  BY <1>5, <1>6 DEF Queues, Opens
<1>9. QED
  BY <1>7, <1>8

\* Every other step leaves the queues and their ends alone.
LEMMA QueueStep ==
  ASSUME IInv, [Next]_vars
  PROVE  [Queue!Next]_<<Queues, Opens>>
<1>1. ASSUME NEW p \in Procs, pipewrite_byte(p)
      PROVE  Queue!Next
  BY <1>1, PutStep DEF Queue!Next, Queue!Put, Queues, Opens, OpenOf
<1>2. ASSUME NEW p \in Procs, piperead_byte(p)
      PROVE  Queue!Next
  BY <1>2, GetStep DEF Queue!Next, Queue!Get, Queues, Opens, OpenOf
<1>3. ASSUME NEW p \in Procs, pipealloc(p)
      PROVE  Queue!Next
  BY <1>3, CreateStep DEF Queue!Next, Queue!Create, Queues, Opens, OpenOf
<1>4. ASSUME NEW p \in Procs, pipeclose(p)
      PROVE  Queue!Next
  BY <1>4, CloseStep DEF Queue!Next, Queue!Close, Queues, Opens, OpenOf
<1>5. ASSUME NEW p \in Procs,
             \/ sleep(p) \/ pipewrite_return(p) \/ pipewrite_full(p) \/ pipewrite_end(p)
             \/ piperead_wait(p) \/ piperead_go(p) \/ piperead_end(p)
      PROVE  UNCHANGED <<Queues, Opens>>
  <2>1. SameBytes /\ Good(p)
    BY <1>5, SleepStep, WriteReturn, WriteFull, WriteEnd, ReadWait, ReadGo, ReadEnd
  <2>2. \A c \in Pages : pipe'[c].readopen = pipe[c].readopen /\ pipe'[c].writeopen = pipe[c].writeopen
    BY <2>1 DEF Good, Turn, Touches
  <2>3. QED
    BY <2>1, <2>2, Stutter
<1>6. ASSUME UNCHANGED pipe
      PROVE  UNCHANGED <<Queues, Opens>>
  BY <1>6, Stutter DEF SameBytes
<1>7. ASSUME NEW p \in Procs,
             \/ pipe_fds(p) \/ fileclose(p) \/ start(p) \/ exit(p) \/ exit_close(p) \/ exit_end(p)
             \/ kill(p) \/ (\E q \in Procs : fork(p, q))
             \/ \E d \in Fds : sys_dup(p, d) \/ sys_close(p, d) \/ sys_read(p, d) \/ sys_write(p, d)
      PROVE  UNCHANGED pipe
  BY <1>7 DEF pipe_fds, fileclose, start, exit, exit_close, exit_end, kill, fork,
              sys_dup, sys_close, sys_read, sys_write, Call
<1>8. CASE UNCHANGED vars
  BY <1>6, <1>8 DEF vars
<1>9. CASE Next
  BY <1>1, <1>2, <1>3, <1>4, <1>5, <1>6, <1>7, <1>9 DEF Next
<1>10. QED
  BY <1>8, <1>9

\* Through the ring of bytes, its counters that wrap around, the lock and the wakeups,
\* the bytes written are read, once and in their order, and what nobody can read any
\* more is lost with the last end: pipe.c implements Channel.
THEOREM PipeIsChannel == Spec => IsChannel
<1>1. Init => Queue!Init
  <2> SUFFICES ASSUME Init
               PROVE  Queue!Init
    OBVIOUS
  <2>1. FreePipe \in PipeType /\ FreePipe.nread = 0 /\ FreePipe.nwrite = 0
        /\ FreePipe.readopen = FALSE /\ FreePipe.writeopen = FALSE
    BY EmptyType DEF FreePipe
  <2>2. ASSUME NEW c \in Pages
        PROVE  Contents(c) = <<>> /\ OpenOf(c) = {}
    <3>1. pipe[c] = FreePipe
      BY DEF Init
    <3>2. QED
      BY <2>1, <3>1, FreeQueue DEF OpenOf
  <2>3. QED
    BY <2>2 DEF Queue!Init, OpenOf
<1>2. IInv /\ [Next]_vars => [Queue!Next]_<<Queues, Opens>>
  BY QueueStep
<1>3. QED
  BY <1>1, <1>2, Invariance, PTL DEF Spec, IsChannel, Queue!Spec, Queues, Opens, OpenOf

=============================================================================
