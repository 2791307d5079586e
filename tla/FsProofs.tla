------------------------------ MODULE FsProofs ------------------------------
(***************************************************************************)
(* Proofs about Fs, for any number of processes, inodes, blocks,           *)
(* descriptors and names.  First references, blocks and locks of inodes    *)
(* and their copies in the inode table, whatever the paths of calls are;   *)
(* then links, entries and panics, for calls without ".." in their paths.  *)
(***************************************************************************)
EXTENDS Fs, FiniteSetTheorems, SequenceTheorems, TLAPS

-----------------------------------------------------------------------------
(* The inductive invariant.                                                *)

\* TypeOK, but for the sign of link counts, which depends on LinksCounted; a directory fits into
\* its blocks.
Node == [type : {"free", "dir", "file", "device"}, nlink : Int, size : 0..MAXFILE,
         addrs : [0..NDIRECT -> Blocks \cup {None}],
         a : [0..NINDIRECT - 1 -> Blocks \cup {None}],
         ents : {s \in Seq(Entry) : Len(s) <= DirSlots * MAXFILE}]

OpenFileType == [ip : Inums \cup {None}, off : 0..MAXFILE, mode : {"r", "w", "rw"}]

\* What a process has to put: at most two inodes.
Putting == {<<>>} \cup {<<i>> : i \in Inums} \cup {<<i, j>> : i \in Inums, j \in Inums}

DataType ==
  /\ disk \in [Inums -> Node] /\ mem \in [Inums -> Node]
  /\ used \in SUBSET Blocks
  /\ ref \in [Inums -> Nat] /\ valid \in [Inums -> BOOLEAN]
  /\ panicked \in BOOLEAN
CallType ==
  /\ pc \in [Procs -> Points]
  /\ call \in [Procs -> ParentCalls \cup PathCalls \cup {"none"}]
  /\ elem \in [Procs -> Elems \cup {""}]
  /\ ip \in [Procs -> Inums \cup {None}] /\ dp \in [Procs -> Inums \cup {None}]
  /\ puts \in [Procs -> Putting]
ProcType ==
  /\ lock \in [Inums -> Procs \cup {None}]
  /\ freeing \in [Procs -> {"no", "trunc", "unlock", "drop"}]
  /\ cwd \in [Procs -> Inums]
  /\ ofile \in [Procs -> [Fds -> OpenFileType]]
  /\ ncalls \in 0..MaxCalls
TypeInv == DataType /\ CallType /\ ProcType

\* The inodes a call has at each of its points.
Creating == {"creat", "mkdir", "mknod"}
WithIp   == {"namei", "open", "chdir", "link", "create_found", "create_new", "created", "link_start",
             "link_new", "link_bad", "unlink_ip", "unlinked"}
WithDp   == {"nameiparent", "create", "create_new", "bad", "link_new", "unlink", "unlink_ip"}
WithElem == {"create", "create_new", "link_new", "unlink", "unlink_ip"}

CallOk(point, op, name, i, d) ==
  /\ i # None <=> point \in WithIp \/ (point = "nameiparent" /\ op = "link")
  /\ d # None <=> point \in WithDp
  /\ point = "namei" => op \in PathCalls
  /\ point = "nameiparent" => op \in ParentCalls \cup {"link"}
  /\ point \in {"create", "create_found", "create_new", "created"} => op \in Creating
  /\ point \in {"link", "link_start", "link_new", "link_bad"} => op = "link"
  /\ point \in WithElem => name \in Elems

CallAt(p) == /\ CallOk(pc[p], call[p], elem[p], ip[p], dp[p])
             /\ freeing[p] # "no" => puts[p] # <<>>

CallInv == \A p \in Procs : CallAt(p)

\* The inode that a call has locked between two steps, and the one that iput() frees.
LockedAt(point, i, d) == IF point \in {"create_new", "bad", "unlink_ip"} THEN d
                         ELSE IF point \in {"created", "unlinked"} THEN i ELSE None
Locked(p) == LockedAt(pc[p], ip[p], dp[p])
Freed(p)  == IF freeing[p] \in {"trunc", "unlock"} THEN Head(puts[p]) ELSE None

LockInv ==
  /\ \A p \in Procs, i \in Inums : lock[i] = p <=> i = Locked(p) \/ i = Freed(p)
  /\ \A p \in Procs : Freed(p) # None => Freed(p) # Locked(p)
  /\ \A p \in Procs, i \in Inums : lock[i] = p => valid[i]

\* The copy of an inode in the table is the inode on disk, except for an inode that has
\* been freed and is still locked: by then ialloc() may have taken it.
Window(i) ==
  /\ \E p \in Procs : freeing[p] = "unlock" /\ Head(puts[p]) = i
  /\ mem[i] = Blank("free") /\ \E t \in {"free", "dir", "file", "device"} : disk[i] = Blank(t)

CacheInv ==
  /\ \A i \in Inums : /\ valid[i] => Window(i) \/ (mem[i] = disk[i] /\ disk[i].type # "free")
                      /\ ~valid[i] => mem[i] = Blank("free")
                      /\ disk[i].type = "free" => disk[i] = Blank("free")
  /\ \A p \in Procs, i \in Inums : freeing[p] = "unlock" /\ Head(puts[p]) = i => Window(i)

\* The blocks of the inodes on disk, and that the copies have the same.
Owned(u, B) ==
  /\ u = UNION {B[i] : i \in Inums}
  /\ \A i, j \in Inums : i # j => B[i] \cap B[j] = {}

DiskBlocks == [i \in Inums |-> BlocksOf(disk[i])]
BlockInv   == Owned(used, DiskBlocks) /\ \A i \in Inums : BlocksOf(Current(i)) = BlocksOf(disk[i])

RefInv == TypeInv /\ CallInv /\ RefsExact
IInv   == RefInv /\ LockInv /\ BlockInv /\ (~panicked => CacheInv)

-----------------------------------------------------------------------------
(* Constants, least elements and short sequences.                          *)

\* The constants as the proofs use them.
LEMMA Constants ==
  /\ NINODES \in Nat \ (0..1) /\ NBLOCKS \in Nat \ (0..1) /\ NOFILE \in Nat \ {0}
  /\ NDIRECT \in Nat \ {0} /\ NINDIRECT \in Nat \ {0} /\ DirSlots \in Nat \ (0..2)
  /\ MAXFILE \in Nat /\ MAXFILE = NDIRECT + NINDIRECT /\ MaxCalls \in Nat
  /\ Inums = 1..NINODES /\ Blocks = 1..NBLOCKS /\ Fds = 1..NOFILE /\ ROOTINO \in Inums /\ 1 \in Fds
  /\ None = 0 /\ None \notin Inums /\ None \notin Blocks /\ None \notin Procs
  /\ IsFiniteSet(Inums) /\ IsFiniteSet(Blocks) /\ IsFiniteSet(Fds) /\ IsFiniteSet(Procs)
  /\ IsFiniteSet(Procs \X Fds) /\ IsFiniteSet(Procs \X (1..2))
<1>1. /\ IsFiniteSet(1..NINODES) /\ IsFiniteSet(1..NBLOCKS) /\ IsFiniteSet(1..NOFILE)
      /\ IsFiniteSet(1..2)
  <2>1. 1 \in Int /\ 2 \in Int /\ NINODES \in Int /\ NBLOCKS \in Int /\ NOFILE \in Int
    BY SizeAssumption
  <2>2. QED
    BY <2>1, FS_Interval
<1>2. IsFiniteSet(Procs \X Fds) /\ IsFiniteSet(Procs \X (1..2))
  BY <1>1, SizeAssumption, FS_Product DEF Fds
<1>3. QED
  BY <1>1, <1>2, SizeAssumption DEF Inums, Blocks, Fds, MAXFILE, ROOTINO, None

\* A directory's contents do not outgrow its blocks.
LEMMA Slots ==
  /\ DirSlots * MAXFILE \in Nat /\ DirSlots * MAXFILE >= 6
  /\ \A k \in Nat : /\ k \div DirSlots \in Nat
                    /\ k \div DirSlots < MAXFILE <=> k < DirSlots * MAXFILE
                    /\ k < DirSlots => k \div DirSlots = 0
  /\ \A k \in Nat : k <= DirSlots * MAXFILE => (k + DirSlots - 1) \div DirSlots \in 0..MAXFILE
<1> DEFINE D == DirSlots
           M == MAXFILE
<1>1. D \in Nat /\ D >= 3 /\ M \in Nat /\ M >= 2
  BY Constants
<1> HIDE DEF D, M
<1>2. D * M \in Nat /\ D * M >= 6
  <2>1. D * M \in Nat /\ D * M = 3 * M + (D - 3) * M /\ (D - 3) * M \in Nat
    BY <1>1
  <2>2. QED
    BY <1>1, <2>1
<1>3. ASSUME NEW k \in Nat
      PROVE  /\ k \div D \in Nat /\ (k \div D < M <=> k < D * M)
             /\ k < D => k \div D = 0
  <2>1. k \div D \in Nat /\ k = D * (k \div D) + (k % D) /\ k % D \in 0..(D - 1)
    BY <1>1
  <2> DEFINE q == k \div D
             r == k % D
  <2>2. q \in Nat /\ r \in 0..(D - 1) /\ k = D * q + r
    BY <2>1
  <2> HIDE DEF q, r
  <2>3. CASE q < M
    <3>1. D * M = D * q + D * (M - q) /\ D * (M - q) = D + D * (M - q - 1) /\ D * (M - q - 1) \in Nat
      BY <1>1, <2>2, <2>3
    <3>2. k < D * M
      BY <1>1, <1>2, <2>2, <3>1
    <3>3. CASE k < D
      <4>1. CASE q >= 1
        <5>1. D * q = D + D * (q - 1) /\ D * (q - 1) \in Nat
          BY <1>1, <2>2, <4>1
        <5>2. QED
          BY <1>1, <2>2, <3>3, <5>1
      <4>2. QED
        BY <2>2, <2>3, <3>2, <4>1 DEF q
    <3>4. QED
      BY <2>2, <2>3, <3>2, <3>3 DEF q
  <2>4. CASE q >= M
    <3>1. D * q = D * M + D * (q - M) /\ D * (q - M) \in Nat
      BY <1>1, <2>2, <2>4
    <3>2. k >= D * M
      BY <1>1, <1>2, <2>2, <3>1
    <3>3. D * M = D + D * (M - 1) /\ D * (M - 1) \in Nat
      BY <1>1
    <3>4. QED
      BY <1>1, <1>2, <2>2, <2>4, <3>2, <3>3 DEF q
  <2>5. QED
    BY <1>1, <2>2, <2>3, <2>4
<1>4. ASSUME NEW k \in Nat, k <= D * M
      PROVE  (k + D - 1) \div D \in 0..M
  <2> DEFINE n == k + D - 1
             q == n \div D
             r == n % D
  <2>1. n \in Nat /\ n < D * M + D
    BY <1>1, <1>2, <1>4
  <2>2. q \in Nat /\ r \in 0..(D - 1) /\ n = D * q + r
    BY <1>1, <2>1
  <2> HIDE DEF n, q, r
  <2>3. CASE q > M
    <3>1. D * q = D * M + D + D * (q - M - 1) /\ D * (q - M - 1) \in Nat
      BY <1>1, <2>2, <2>3
    <3>2. QED
      BY <1>1, <1>2, <2>1, <2>2, <3>1
  <2>4. QED
    BY <1>1, <2>2, <2>3 DEF q, n
<1>5. QED
  BY <1>2, <1>3, <1>4 DEF D, M

\* A finite set of natural numbers that is not empty has a least element: Min() is in it.
LEMMA LeastElement ==
  ASSUME NEW T \in SUBSET Nat, IsFiniteSet(T), T # {}
  PROVE  Min(T) \in T
<1> DEFINE W == {U \in SUBSET T : \E x \in T : \A y \in T : y \in U <=> y <= x}
           R == StrictSubsetOrdering(T)
<1>1. IsWellFoundedOn(R, FiniteSubsetsOf(T)) /\ FiniteSubsetsOf(T) = SUBSET T
  BY FS_StrictSubsetOrderingWellFounded, FS_FiniteSubsetsOfFinite
<1>2. W \subseteq FiniteSubsetsOf(T) /\ \A x \in T : {y \in T : y <= x} \in W
  BY <1>1
<1>3. \E X \in W : \A Y \in W : ~ (<<Y, X>> \in R)
  <2>1. W # {}
    BY <1>2
  <2> HIDE DEF W, R
  <2>2. QED
    BY <1>1, <1>2, <2>1, WFMin
<1>4. PICK X \in W : \A Y \in W : <<Y, X>> \notin R
  BY <1>3
<1>5. PICK x \in T : \A y \in T : y \in X <=> y <= x
  BY <1>4
<1>6. ASSUME NEW z \in T, z < x
      PROVE  FALSE
  <2> DEFINE Z == {y \in T : y <= z}
  <2>1. \A y \in T : y \in Nat
    OBVIOUS
  <2>2. \A y \in Z : y \in X
    BY <1>5, <1>6, <2>1
  <2>3. x \in X /\ x \notin Z
    BY <1>5, <1>6, <2>1
  <2>4. Z \in SUBSET T /\ X \in SUBSET T
    OBVIOUS
  <2>5. <<Z, X>> \in R
    BY <2>2, <2>3, <2>4 DEF StrictSubsetOrdering
  <2>6. QED
    BY <1>2, <1>4, <2>5
<1>7. \A y \in T : x <= y
  <2>1. \A y \in T : y \in Nat
    OBVIOUS
  <2>2. QED
    BY <1>6, <2>1
<1>8. QED
  BY <1>7 DEF Min

\* The least block, descriptor, inode or place in a sequence that satisfies a condition.
LEMMA First ==
  /\ \A T \in SUBSET Blocks : T # {} => Min(T) \in T
  /\ \A T \in SUBSET Fds : T # {} => Min(T) \in T
  /\ \A T \in SUBSET Inums : T # {} => Min(T) \in T
  /\ \A n \in Nat : \A T \in SUBSET (1..n) : T # {} => Min(T) \in T
<1>1. ASSUME NEW n \in Nat, NEW T \in SUBSET (1..n), T # {}
      PROVE  Min(T) \in T
  <2>1. 1 \in Int /\ n \in Int
    OBVIOUS
  <2>2. IsFiniteSet(1..n)
    BY <2>1, FS_Interval
  <2>3. IsFiniteSet(T)
    BY <2>2, FS_Subset
  <2>4. T \in SUBSET Nat
    OBVIOUS
  <2>5. QED
    BY <1>1, <2>3, <2>4, LeastElement
<1>2. QED
  BY <1>1, Constants

\* What dirlookup() finds.
LEMMA Lookup ==
  ASSUME NEW d \in Node, NEW nm
  PROVE  /\ dirlookup(d, nm) \in 0..Len(d.ents)
         /\ dirlookup(d, nm) # 0 =>
              /\ d.ents[dirlookup(d, nm)] \in Entry
              /\ d.ents[dirlookup(d, nm)].inum \in Inums
              /\ d.ents[dirlookup(d, nm)].name = nm
         /\ dirlookup(d, nm) = 0 =>
              \A k \in 1..Len(d.ents) : d.ents[k].inum = None \/ d.ents[k].name # nm
<1> DEFINE T == {k \in 1..Len(d.ents) : d.ents[k].inum # None /\ d.ents[k].name = nm}
<1>1. d.ents \in Seq(Entry) /\ Len(d.ents) \in Nat
  BY DEF Node
<1>2. dirlookup(d, nm) = IF T # {} THEN Min(T) ELSE 0
  BY DEF dirlookup, SelectInSeq
<1>3. T # {} => Min(T) \in T
  BY <1>1, First
<1>4. CASE T = {}
  BY <1>1, <1>2, <1>4
<1>5. CASE T # {}
  <2> DEFINE k == dirlookup(d, nm)
  <2>1. k \in 1..Len(d.ents) /\ d.ents[k].inum # None /\ d.ents[k].name = nm
    BY <1>2, <1>3, <1>5
  <2>2. d.ents[k] \in Entry
    BY <1>1, <2>1
  <2>3. d.ents[k].inum \in Inums
    BY <2>1, <2>2 DEF Entry
  <2> HIDE DEF k
  <2>4. QED
    BY <1>1, <2>1, <2>2, <2>3, Constants DEF k
<1>6. QED
  BY <1>4, <1>5

\* Where dirlink() puts an entry.
LEMMA Slot ==
  ASSUME NEW d \in Node
  PROVE  /\ FreeSlot(d) \in 1..(Len(d.ents) + 1)
         /\ FreeSlot(d) <= Len(d.ents) => d.ents[FreeSlot(d)].inum = None
<1> DEFINE T == {k \in 1..Len(d.ents) : d.ents[k].inum = None}
           k == IF T # {} THEN Min(T) ELSE 0
<1>1. Len(d.ents) \in Nat
  BY DEF Node
<1>2. FreeSlot(d) = IF k = 0 THEN Len(d.ents) + 1 ELSE k
  BY DEF FreeSlot, SelectInSeq
<1>3. T # {} => Min(T) \in T
  BY <1>1, First
<1>4. T # {} => k \in 1..Len(d.ents) /\ d.ents[k].inum = None
  BY <1>3
<1> HIDE DEF T
<1>5. CASE T = {}
  BY <1>1, <1>2, <1>5
<1>6. CASE T # {}
  <2> HIDE DEF k
  <2>1. QED
    BY <1>1, <1>2, <1>4, <1>6
<1>7. QED
  BY <1>5, <1>6

-----------------------------------------------------------------------------
(* Inodes and their blocks.                                                *)

Kinds == {"free", "dir", "file", "device"}

\* An empty inode has no blocks.
LEMMA BlankNode ==
  \A t \in Kinds : /\ Blank(t) \in Node /\ BlocksOf(Blank(t)) = {}
                   /\ Blank(t).type = t /\ Blank(t).nlink = 0 /\ Blank(t).ents = <<>>
<1>1. SUFFICES ASSUME NEW t \in Kinds
               PROVE  /\ Blank(t) \in Node /\ BlocksOf(Blank(t)) = {}
                      /\ Blank(t).type = t /\ Blank(t).nlink = 0 /\ Blank(t).ents = <<>>
  OBVIOUS
<1>2. /\ Blank(t).type = t /\ Blank(t).nlink = 0 /\ Blank(t).ents = <<>> /\ Blank(t).size = 0
      /\ Blank(t).addrs = [k \in 0..NDIRECT |-> None] /\ Blank(t).a = [k \in 0..NINDIRECT - 1 |-> None]
  BY DEF Blank
<1>3. <<>> \in {s \in Seq(Entry) : Len(s) <= DirSlots * MAXFILE} /\ 0 \in 0..MAXFILE
  BY Slots, Constants
<1>4. Blank(t) \in Node
  BY <1>3 DEF Blank, Node, Kinds
<1>5. Range(Blank(t).addrs) \subseteq {None} /\ Range(Blank(t).a) \subseteq {None}
  BY <1>2 DEF Range
<1>6. QED
  BY <1>2, <1>4, <1>5 DEF BlocksOf

\* The indices of addrs and of the indirect block.
Direct   == 0..NDIRECT
Indirect == 0..NINDIRECT - 1

Some(g, S) == {g[j] : j \in S} \ {None}

\* What a node is made of.
LEMMA NodeParts ==
  ASSUME NEW d \in Node
  PROVE  /\ d.type \in Kinds /\ d.nlink \in Int /\ d.size \in 0..MAXFILE
         /\ d.addrs \in [Direct -> Blocks \cup {None}]
         /\ d.a \in [Indirect -> Blocks \cup {None}]
         /\ d.ents \in Seq(Entry) /\ Len(d.ents) \in Nat /\ Len(d.ents) <= DirSlots * MAXFILE
         /\ BlocksOf(d) \subseteq Blocks
         /\ BlocksOf(d) = Some(d.addrs, Direct) \cup Some(d.a, Indirect)
<1>1. /\ d.type \in Kinds /\ d.nlink \in Int /\ d.size \in 0..MAXFILE
      /\ d.addrs \in [Direct -> Blocks \cup {None}]
      /\ d.a \in [Indirect -> Blocks \cup {None}]
      /\ d.ents \in Seq(Entry) /\ Len(d.ents) <= DirSlots * MAXFILE
  BY DEF Node, Kinds, Direct, Indirect
<1>2. BlocksOf(d) = Some(d.addrs, Direct) \cup Some(d.a, Indirect)
  <2>1. Range(d.addrs) = {d.addrs[j] : j \in Direct} /\ Range(d.a) = {d.a[j] : j \in Indirect}
    BY <1>1 DEF Range
  <2>2. QED
    BY <2>1 DEF BlocksOf, Some
<1>3. BlocksOf(d) \subseteq Blocks
  BY <1>1, <1>2 DEF Some
<1>4. QED
  BY <1>1, <1>2, <1>3

\* An inode that has blocks added, which were free, and nothing else but its contents
\* and its size.
Grown(d, u, e, v) ==
  /\ e \in Node /\ e.type = d.type /\ e.nlink = d.nlink
  /\ u \subseteq v /\ v \subseteq Blocks
  /\ BlocksOf(e) = BlocksOf(d) \cup (v \ u)

\* Nothing allocated is growth too.
LEMMA GrownSame ==
  ASSUME NEW d \in Node, NEW u \in SUBSET Blocks
  PROVE  Grown(d, u, d, u)
BY DEF Grown

\* Growth after growth is growth: the blocks of both come out of the bitmap.
LEMMA GrownTwice ==
  ASSUME NEW d, NEW u, NEW e, NEW v, NEW f, NEW w, Grown(d, u, e, v), Grown(e, v, f, w)
  PROVE  Grown(d, u, f, w)
<1>1. w \ u = (v \ u) \cup (w \ v)
  BY DEF Grown
<1>2. BlocksOf(f) = BlocksOf(d) \cup (v \ u) \cup (w \ v)
  BY DEF Grown
<1>3. QED
  BY <1>1, <1>2 DEF Grown

\* What balloc() finds is free.
LEMMA Allocated ==
  ASSUME NEW u \in SUBSET Blocks
  PROVE  balloc(u) = None \/ (balloc(u) \in Blocks /\ balloc(u) \notin u /\ balloc(u) # None)
<1>1. CASE u = Blocks
  BY <1>1 DEF balloc
<1>2. CASE u # Blocks
  <2>1. Blocks \ u \in SUBSET Blocks /\ Blocks \ u # {}
    BY <1>2
  <2>2. balloc(u) \in Blocks \ u
    BY <1>2, <2>1, First DEF balloc
  <2>3. QED
    BY <2>2, Constants
<1>3. QED
  BY <1>1, <1>2

\* One more entry of an index adds its block.
LEMMA RangeAdd ==
  ASSUME NEW S, NEW g \in [S -> Blocks \cup {None}], NEW k \in S, g[k] = None, NEW b \in Blocks,
         NEW h, h[k] = b, \A j \in S \ {k} : h[j] = g[j]
  PROVE  Some(h, S) = Some(g, S) \cup {b}
<1>1. b # None
  BY Constants
<1>3. Some(h, S) \subseteq Some(g, S) \cup {b}
  BY DEF Some
<1>4. Some(g, S) \cup {b} \subseteq Some(h, S)
  BY <1>1 DEF Some
<1>5. QED
  BY <1>3, <1>4

\* A free block in place of none.
LEMMA AddAddr ==
  ASSUME NEW d \in Node, NEW u \in SUBSET Blocks, NEW k \in Direct, NEW b \in Blocks \ u,
         d.addrs[k] = None
  PROVE  /\ Grown(d, u, [d EXCEPT !.addrs[k] = b], u \cup {b})
         /\ [d EXCEPT !.addrs[k] = b].ents = d.ents
         /\ [d EXCEPT !.addrs[k] = b].size = d.size
         /\ [d EXCEPT !.addrs[k] = b].a = d.a
<1> DEFINE e == [d EXCEPT !.addrs[k] = b]
<1>1. d.addrs \in [Direct -> Blocks \cup {None}]
  BY NodeParts
<1>2. [d.addrs EXCEPT ![k] = b] \in [Direct -> Blocks \cup {None}]
  BY <1>1
<1>3. e = [d EXCEPT !.addrs = [d.addrs EXCEPT ![k] = b]]
  BY DEF Node
<1>4. /\ e \in Node /\ e.addrs = [d.addrs EXCEPT ![k] = b] /\ e.a = d.a /\ e.type = d.type
      /\ e.nlink = d.nlink /\ e.ents = d.ents /\ e.size = d.size
  BY <1>2, <1>3 DEF Node, Direct, Indirect
<1>5. Some(e.addrs, Direct) = Some(d.addrs, Direct) \cup {b}
  <2>1. e.addrs[k] = b /\ d.addrs[k] = None /\ \A j \in Direct \ {k} : e.addrs[j] = d.addrs[j]
    BY <1>1, <1>4
  <2> HIDE DEF e
  <2>2. QED
    BY <1>1, <2>1, RangeAdd
<1>6. BlocksOf(e) = BlocksOf(d) \cup {b}
  <2>1. e \in Node /\ e.a = d.a
    BY <1>4
  <2> HIDE DEF e
  <2>2. QED
    BY <1>5, <2>1, NodeParts
<1>7. (u \cup {b}) \ u = {b}
  OBVIOUS
<1> HIDE DEF e
<1>8. Grown(d, u, e, u \cup {b})
  BY <1>4, <1>6, <1>7 DEF Grown
<1>9. QED
  BY <1>4, <1>8 DEF e

\* A block put into the indirect block is a block of the inode.
LEMMA AddIndirect ==
  ASSUME NEW d \in Node, NEW u \in SUBSET Blocks, NEW k \in Indirect, NEW b \in Blocks \ u,
         d.a[k] = None
  PROVE  /\ Grown(d, u, [d EXCEPT !.a[k] = b], u \cup {b})
         /\ [d EXCEPT !.a[k] = b].ents = d.ents
         /\ [d EXCEPT !.a[k] = b].size = d.size
<1> DEFINE e == [d EXCEPT !.a[k] = b]
<1>1. d.a \in [Indirect -> Blocks \cup {None}]
  BY NodeParts
<1>2. [d.a EXCEPT ![k] = b] \in [Indirect -> Blocks \cup {None}]
  BY <1>1
<1>3. e = [d EXCEPT !.a = [d.a EXCEPT ![k] = b]]
  BY DEF Node
<1>4. /\ e \in Node /\ e.a = [d.a EXCEPT ![k] = b] /\ e.addrs = d.addrs /\ e.type = d.type
      /\ e.nlink = d.nlink /\ e.ents = d.ents /\ e.size = d.size
  BY <1>2, <1>3 DEF Node, Direct, Indirect
<1>5. Some(e.a, Indirect) = Some(d.a, Indirect) \cup {b}
  <2>1. e.a[k] = b /\ d.a[k] = None /\ \A j \in Indirect \ {k} : e.a[j] = d.a[j]
    BY <1>1, <1>4
  <2> HIDE DEF e
  <2>2. QED
    BY <1>1, <2>1, RangeAdd
<1>6. BlocksOf(e) = BlocksOf(d) \cup {b}
  <2>1. e \in Node /\ e.addrs = d.addrs
    BY <1>4
  <2> HIDE DEF e
  <2>2. QED
    BY <1>5, <2>1, NodeParts
<1>7. (u \cup {b}) \ u = {b}
  OBVIOUS
<1> HIDE DEF e
<1>8. Grown(d, u, e, u \cup {b})
  BY <1>4, <1>6, <1>7 DEF Grown
<1>9. QED
  BY <1>4, <1>8 DEF e

\* bmap() adds free blocks to the inode, also when it fails half way.
Mapped(d, u, r) ==
  /\ Grown(d, u, r.d, r.used) /\ r.d.ents = d.ents /\ r.d.size = d.size
  /\ r.addr \in Blocks \cup {None}

\* bmap() of a direct block, or of the indirect block itself.
LEMMA DirectMapped ==
  ASSUME NEW d \in Node, NEW u \in SUBSET Blocks, NEW bn \in Direct
  PROVE  Mapped(d, u, bmapDirect(d, bn, u)) /\ bmapDirect(d, bn, u).d.a = d.a
<1> DEFINE b == balloc(u)
           e == [d EXCEPT !.addrs[bn] = b]
           r == bmapDirect(d, bn, u)
<1>1. d.addrs[bn] \in Blocks \cup {None}
  BY NodeParts
<1>2. CASE d.addrs[bn] # None \/ b = None
  <2>1. r = [addr |-> d.addrs[bn], d |-> d, used |-> u]
    BY <1>2 DEF bmapDirect
  <2> HIDE DEF r
  <2>2. r.addr = d.addrs[bn] /\ r.d = d /\ r.used = u
    BY <2>1
  <2>3. QED
    BY <1>1, <2>2, GrownSame DEF Mapped, r
<1>3. CASE d.addrs[bn] = None /\ b # None
  <2>1. r = [addr |-> b, d |-> e, used |-> u \cup {b}]
    BY <1>3 DEF bmapDirect
  <2>2. b \in Blocks \ u
    BY <1>3, Allocated
  <2> HIDE DEF b
  <2>3. Grown(d, u, e, u \cup {b}) /\ e.ents = d.ents /\ e.size = d.size /\ e.a = d.a
    BY <1>3, <2>2, AddAddr
  <2> HIDE DEF r, e
  <2>4. r.addr = b /\ r.d = e /\ r.used = u \cup {b}
    BY <2>1
  <2>5. QED
    BY <2>2, <2>3, <2>4 DEF Mapped, r
<1>4. QED
  BY <1>2, <1>3

\* The indirect half of bmap().
Indirectly(c, k, u) ==
  LET b == balloc(u) IN
  IF c.a[k] # None \/ b = None
  THEN [addr |-> c.a[k], d |-> c, used |-> u]
  ELSE [addr |-> b, d |-> [c EXCEPT !.a[k] = b], used |-> u \cup {b}]

\* bmap() of an entry of the indirect block.
LEMMA IndirectMapped ==
  ASSUME NEW c \in Node, NEW u \in SUBSET Blocks, NEW k \in Indirect
  PROVE  Mapped(c, u, Indirectly(c, k, u))
<1> DEFINE b == balloc(u)
           e == [c EXCEPT !.a[k] = b]
           r == Indirectly(c, k, u)
<1>1. c.a[k] \in Blocks \cup {None}
  BY NodeParts
<1>2. CASE c.a[k] # None \/ b = None
  <2>1. r = [addr |-> c.a[k], d |-> c, used |-> u]
    BY <1>2 DEF Indirectly
  <2> HIDE DEF r
  <2>2. r.addr = c.a[k] /\ r.d = c /\ r.used = u
    BY <2>1
  <2>3. QED
    BY <1>1, <2>2, GrownSame DEF Mapped, r
<1>3. CASE c.a[k] = None /\ b # None
  <2>1. r = [addr |-> b, d |-> e, used |-> u \cup {b}]
    BY <1>3 DEF Indirectly
  <2>2. b \in Blocks \ u
    BY <1>3, Allocated
  <2> HIDE DEF b
  <2>3. Grown(c, u, e, u \cup {b}) /\ e.ents = c.ents /\ e.size = c.size
    BY <1>3, <2>2, AddIndirect
  <2> HIDE DEF r, e
  <2>4. r.addr = b /\ r.d = e /\ r.used = u \cup {b}
    BY <2>1
  <2>5. QED
    BY <2>2, <2>3, <2>4 DEF Mapped, r
<1>4. QED
  BY <1>2, <1>3

\* bmap() keeps in the inode all it takes from the bitmap, even if it fails half way.
LEMMA Bmap ==
  ASSUME NEW d \in Node, NEW u \in SUBSET Blocks, NEW bn \in 0..MAXFILE - 1
  PROVE  Mapped(d, u, bmap(d, bn, u))
<1> DEFINE i == bmapDirect(d, NDIRECT, u)
           k == bn - NDIRECT
           r == bmap(d, bn, u)
<1>1. CASE bn < NDIRECT
  <2>1. bn \in Direct
    BY <1>1, Constants DEF Direct
  <2>2. r = bmapDirect(d, bn, u)
    BY <1>1 DEF bmap
  <2>3. QED
    BY <2>1, <2>2, DirectMapped
<1>2. CASE bn >= NDIRECT
  <2>1. k \in Indirect /\ NDIRECT \in Direct /\ ~(bn < NDIRECT)
    BY <1>2, Constants DEF Direct, Indirect
  <2>2. Mapped(d, u, i)
    BY <2>1, DirectMapped
  <2>3. i.d \in Node /\ i.used \in SUBSET Blocks
    BY <2>2 DEF Mapped, Grown
  <2>4. Mapped(i.d, i.used, Indirectly(i.d, k, i.used))
    BY <2>1, <2>3, IndirectMapped
  <2>5. /\ r.d = IF i.addr = None THEN i.d ELSE Indirectly(i.d, k, i.used).d
        /\ r.used = IF i.addr = None THEN i.used ELSE Indirectly(i.d, k, i.used).used
        /\ r.addr = IF i.addr = None THEN None ELSE Indirectly(i.d, k, i.used).addr
    <3>1. DOMAIN i = {"addr", "d", "used"}
      BY DEF bmapDirect
    <3>2. r = IF i.addr = None \/ i.d.a[k] # None \/ balloc(i.used) = None
              THEN [i EXCEPT !.addr = IF i.addr = None THEN None ELSE i.d.a[k]]
              ELSE [addr |-> balloc(i.used), d |-> [i.d EXCEPT !.a[k] = balloc(i.used)],
                    used |-> i.used \cup {balloc(i.used)}]
      BY <2>1 DEF bmap
    <3> HIDE DEF r, i, k
    <3>3. QED
      BY <3>1, <3>2 DEF Indirectly
  <2>6. Mapped(d, u, r)
    <3> HIDE DEF r, i, k
    <3>1. CASE i.addr = None
      BY <2>2, <2>5, <3>1 DEF Mapped
    <3>2. CASE i.addr # None
      BY <2>2, <2>4, <2>5, <3>2, GrownTwice DEF Mapped
    <3>3. QED
      BY <3>1, <3>2
  <2>7. QED
    BY <2>6
<1>3. QED
  BY <1>1, <1>2, Constants

\* A node with another number of links.
LEMMA WithLinks ==
  ASSUME NEW d \in Node, NEW n \in Int
  PROVE  /\ [d EXCEPT !.nlink = n] \in Node /\ [d EXCEPT !.nlink = n].nlink = n
         /\ [d EXCEPT !.nlink = n].type = d.type /\ [d EXCEPT !.nlink = n].ents = d.ents
         /\ BlocksOf([d EXCEPT !.nlink = n]) = BlocksOf(d)
<1> DEFINE e == [d EXCEPT !.nlink = n]
<1>1. /\ e \in Node /\ e.nlink = n /\ e.type = d.type /\ e.ents = d.ents
      /\ e.addrs = d.addrs /\ e.a = d.a
  BY DEF Node
<1>2. BlocksOf(e) = BlocksOf(d)
  BY <1>1 DEF BlocksOf
<1>3. QED
  BY <1>1, <1>2

\* A node with other entries.
LEMMA WithEntries ==
  ASSUME NEW d \in Node, NEW s \in Seq(Entry), Len(s) <= DirSlots * MAXFILE
  PROVE  /\ [d EXCEPT !.ents = s] \in Node /\ [d EXCEPT !.ents = s].nlink = d.nlink
         /\ [d EXCEPT !.ents = s].type = d.type /\ [d EXCEPT !.ents = s].ents = s
         /\ [d EXCEPT !.ents = s].size = d.size
         /\ BlocksOf([d EXCEPT !.ents = s]) = BlocksOf(d)
<1> DEFINE e == [d EXCEPT !.ents = s]
<1>1. /\ e \in Node /\ e.nlink = d.nlink /\ e.type = d.type /\ e.ents = s
      /\ e.addrs = d.addrs /\ e.a = d.a /\ e.size = d.size
  BY DEF Node
<1>2. BlocksOf(e) = BlocksOf(d)
  BY <1>1 DEF BlocksOf
<1>3. QED
  BY <1>1, <1>2

\* itrunc() leaves an inode without blocks.
LEMMA Truncated ==
  ASSUME NEW d \in Node
  PROVE  /\ itrunc(d) \in Node /\ BlocksOf(itrunc(d)) = {}
         /\ itrunc(d).type = d.type /\ itrunc(d).nlink = d.nlink /\ itrunc(d).ents = <<>>
<1>1. d.type \in Kinds /\ d.nlink \in Int
  BY NodeParts
<1>2. /\ Blank(d.type) \in Node /\ BlocksOf(Blank(d.type)) = {} /\ Blank(d.type).type = d.type
      /\ Blank(d.type).ents = <<>>
  BY <1>1, BlankNode
<1>3. QED
  BY <1>1, <1>2, WithLinks DEF itrunc

\* Entry e is at k in t, which is s otherwise.
Placed(s, t, k, e) ==
  /\ k \in 1..(Len(s) + 1) /\ Len(t) = (IF k > Len(s) THEN k ELSE Len(s)) /\ t[k] = e
  /\ \A j \in 1..Len(s) : j # k => t[j] = s[j]

\* Writing entry k of a directory, or one past its end.
LEMMA Place ==
  ASSUME NEW s \in Seq(Entry), NEW k \in 1..(Len(s) + 1), NEW e \in Entry,
         NEW t, t = IF k > Len(s) THEN Append(s, e) ELSE [s EXCEPT ![k] = e]
  PROVE  t \in Seq(Entry) /\ Placed(s, t, k, e)
<1>1. Len(s) \in Nat
  OBVIOUS
<1>2. CASE k > Len(s)
  <2>1. t = Append(s, e) /\ k = Len(s) + 1
    BY <1>1, <1>2
  <2>2. t \in Seq(Entry) /\ Len(t) = Len(s) + 1 /\ t[Len(s) + 1] = e /\ \A j \in 1..Len(s) : t[j] = s[j]
    BY <2>1
  <2>3. QED
    BY <1>1, <1>2, <2>1, <2>2 DEF Placed
<1>3. CASE ~(k > Len(s))
  <2>1. t = [s EXCEPT ![k] = e] /\ k \in 1..Len(s)
    BY <1>1, <1>3
  <2>2. t \in Seq(Entry) /\ Len(t) = Len(s) /\ t[k] = e /\ \A j \in 1..Len(s) : j # k => t[j] = s[j]
    BY <2>1
  <2>3. QED
    BY <1>1, <1>3, <2>1, <2>2 DEF Placed
<1>4. QED
  BY <1>2, <1>3

\* dirlink() puts one entry in place of an empty one, or fails and at most adds a block.
Linked(d, nm, inum, u, r) ==
  /\ Grown(d, u, r.d, r.used) /\ r.ok \in BOOLEAN
  /\ ~r.ok => r.d.ents = d.ents
  /\ r.ok => /\ dirlookup(d, nm) = 0
             /\ Placed(d.ents, r.d.ents, FreeSlot(d), [name |-> nm, inum |-> inum])

\* dirlink(), with each of its failures.
LEMMA Dirlink ==
  ASSUME NEW d \in Node, NEW nm \in Names \cup {".", ".."}, NEW inum \in Inums, NEW u \in SUBSET Blocks
  PROVE  Linked(d, nm, inum, u, dirlink(d, nm, inum, u))
<1> DEFINE k  == FreeSlot(d)
           bn == (k - 1) \div DirSlots
           b  == bmap(d, bn, u)
           e  == [name |-> nm, inum |-> inum]
           r  == dirlink(d, nm, inum, u)
           s  == d.ents
           t  == IF k > Len(s) THEN Append(s, e) ELSE [s EXCEPT ![k] = e]
<1>1. /\ s \in Seq(Entry) /\ Len(s) \in Nat /\ Len(s) <= DirSlots * MAXFILE
      /\ k \in 1..(Len(s) + 1) /\ e \in Entry
  BY NodeParts, Slot DEF Entry
<1>2. bn \in Nat /\ (bn < MAXFILE => k <= DirSlots * MAXFILE)
  <2> HIDE DEF k, s
  <2>1. k - 1 \in Nat /\ k \in Nat
    BY <1>1
  <2> DEFINE N == DirSlots * MAXFILE
  <2>2. bn \in Nat /\ (bn < MAXFILE <=> k - 1 < N) /\ N \in Nat
    BY <2>1, Slots
  <2> HIDE DEF bn, N
  <2>3. bn \in Nat /\ (bn < MAXFILE => k <= N)
    BY <2>1, <2>2
  <2>4. QED
    BY <2>3 DEF N
<1>3. CASE dirlookup(d, nm) # 0 \/ bn >= MAXFILE
  <2>1. r = [ok |-> FALSE, d |-> d, used |-> u]
    BY <1>3 DEF dirlink
  <2> HIDE DEF r
  <2>2. r.ok = FALSE /\ r.d = d /\ r.used = u
    BY <2>1
  <2>3. QED
    BY <2>2, GrownSame DEF Linked, r
<1>4. CASE dirlookup(d, nm) = 0 /\ bn < MAXFILE
  <2>1. bn \in 0..MAXFILE - 1
    BY <1>2, <1>4, Constants
  <2>2. Mapped(d, u, b)
    BY <2>1, Bmap
  <2>3. ~(bn >= MAXFILE)
    BY <1>2, <1>4, Constants
  <2>4. CASE b.addr = None
    <3>1. r = [ok |-> FALSE, d |-> b.d, used |-> b.used]
      BY <1>4, <2>3, <2>4 DEF dirlink
    <3> HIDE DEF r, b
    <3>2. r.ok = FALSE /\ r.d = b.d /\ r.used = b.used
      BY <3>1
    <3>3. QED
      BY <2>2, <3>2 DEF Mapped, Linked, r
  <2>5. CASE b.addr # None
    <3>1. b.d \in Node /\ b.d.ents = s
      BY <2>2 DEF Mapped, Grown
    <3>2. r = [ok |-> TRUE, used |-> b.used, d |-> [b.d EXCEPT !.ents = t]]
      <4>1. r = [ok |-> TRUE, used |-> b.used,
                 d |-> [b.d EXCEPT !.ents = IF k > Len(b.d.ents) THEN Append(b.d.ents, e)
                                            ELSE [b.d.ents EXCEPT ![k] = e]]]
        BY <1>4, <2>3, <2>5 DEF dirlink
      <4> HIDE DEF r, b, k, e
      <4>2. QED
        BY <3>1, <4>1
    <3>3. t \in Seq(Entry) /\ Placed(s, t, k, e)
      <4> HIDE DEF s, k, e
      <4>1. QED
        BY <1>1, Place
    <3>4. Len(t) <= DirSlots * MAXFILE
      <4> HIDE DEF s, t, k, e
      <4>1. QED
        BY <1>1, <1>2, <1>4, <3>3, Slots DEF Placed
    <3> DEFINE f == [b.d EXCEPT !.ents = t]
    <3>5. f \in Node /\ f.nlink = b.d.nlink /\ f.type = b.d.type /\ f.ents = t /\ BlocksOf(f) = BlocksOf(b.d)
      <4> HIDE DEF b, t
      <4>1. QED
        BY <3>1, <3>3, <3>4, WithEntries
    <3> HIDE DEF r, f, b, t, bn
    <3>6. r.ok = TRUE /\ r.d = f /\ r.used = b.used
      BY <3>2 DEF f
    <3>7. Grown(d, u, f, b.used)
      BY <2>2, <3>5 DEF Mapped, Grown
    <3>8. QED
      BY <1>4, <3>3, <3>5, <3>6, <3>7 DEF Linked, r
  <2>6. QED
    BY <2>4, <2>5
<1>5. QED
  BY <1>2, <1>3, <1>4, Constants

\* writei() adds blocks, and the offset of a file does not pass the largest size.
LEMMA Written ==
  ASSUME NEW d \in Node, NEW bn \in 0..MAXFILE, NEW u \in SUBSET Blocks, NEW copied \in BOOLEAN
  PROVE  /\ Grown(d, u, writei(d, bn, u, copied).d, writei(d, bn, u, copied).used)
         /\ writei(d, bn, u, copied).d.ents = d.ents
         /\ writei(d, bn, u, copied).n \in {0, 1} /\ bn + writei(d, bn, u, copied).n \in 0..MAXFILE
<1> DEFINE b == bmap(d, bn, u)
           r == writei(d, bn, u, copied)
<1>1. bn \in Nat /\ bn <= MAXFILE /\ MAXFILE \in Nat /\ d.size \in 0..MAXFILE
  BY Constants, NodeParts
<1>2. CASE bn > d.size \/ bn + 1 > MAXFILE
  <2>1. r = [n |-> 0, d |-> d, used |-> u]
    BY <1>2 DEF writei
  <2> HIDE DEF r
  <2>2. r.n = 0 /\ r.d = d /\ r.used = u
    BY <2>1
  <2>3. QED
    BY <1>1, <2>2, GrownSame DEF r
<1>3. CASE ~(bn > d.size \/ bn + 1 > MAXFILE)
  <2>1. bn \in 0..MAXFILE - 1 /\ bn + 1 \in 0..MAXFILE
    BY <1>1, <1>3
  <2>2. Mapped(d, u, b)
    BY <2>1, Bmap
  <2>3. CASE b.addr = None \/ ~copied
    <3>1. r = [n |-> 0, d |-> b.d, used |-> b.used]
      BY <1>3, <2>3 DEF writei
    <3> HIDE DEF r, b
    <3>2. r.n = 0 /\ r.d = b.d /\ r.used = b.used
      BY <3>1
    <3>3. QED
      BY <1>1, <2>2, <3>2 DEF Mapped, r
  <2>4. CASE ~(b.addr = None \/ ~copied)
    <3> DEFINE e == [b.d EXCEPT !.size = IF bn + 1 > @ THEN bn + 1 ELSE @]
    <3>1. r = [n |-> 1, d |-> e, used |-> b.used]
      BY <1>3, <2>4 DEF writei
    <3>2. b.d \in Node
      BY <2>2 DEF Mapped, Grown
    <3>3. e \in Node /\ e.nlink = b.d.nlink /\ e.type = b.d.type /\ e.ents = b.d.ents
          /\ e.addrs = b.d.addrs /\ e.a = b.d.a
      <4> HIDE DEF b
      <4>1. (IF bn + 1 > b.d.size THEN bn + 1 ELSE b.d.size) \in 0..MAXFILE
        BY <2>1, <3>2 DEF Node
      <4>2. QED
        BY <3>2, <4>1 DEF Node
    <3> HIDE DEF r, b, e
    <3>4. BlocksOf(e) = BlocksOf(b.d)
      BY <3>3 DEF BlocksOf
    <3>5. r.n = 1 /\ r.d = e /\ r.used = b.used
      BY <3>1
    <3>6. Grown(d, u, e, b.used)
      BY <2>2, <3>3, <3>4 DEF Mapped, Grown
    <3>7. QED
      BY <1>1, <2>1, <2>2, <3>3, <3>5, <3>6 DEF Mapped, r
  <2>5. QED
    BY <2>3, <2>4
<1>4. QED
  BY <1>2, <1>3

-----------------------------------------------------------------------------
(* Counting references.                                                    *)

Same(x, y) == IF x = y THEN 1 ELSE 0

\* One of the places where a reference can be changes.
LEMMA OnePlace ==
  ASSUME NEW S, IsFiniteSet(S), NEW s \in S, NEW V, NEW W, V \subseteq S, W \subseteq S,
         \A z \in S \ {s} : z \in V <=> z \in W
  PROVE  /\ Cardinality(V) \in Nat /\ Cardinality(W) \in Nat
         /\ Cardinality(W) + (IF s \in V THEN 1 ELSE 0) = Cardinality(V) + (IF s \in W THEN 1 ELSE 0)
<1> DEFINE U == V \ {s}
           T == U \cup {s}
<1>1. IsFiniteSet(U) /\ s \notin U
  BY FS_Subset
<1>2. Cardinality(U) \in Nat /\ Cardinality(T) = Cardinality(U) + 1
  BY <1>1, FS_CardinalityType, FS_AddElement
<1>3. (s \in V => V = T) /\ (s \notin V => V = U)
  OBVIOUS
<1>4. (s \in W => W = T) /\ (s \notin W => W = U)
  OBVIOUS
<1> HIDE DEF U, T
<1>5. Cardinality(V) = Cardinality(U) + (IF s \in V THEN 1 ELSE 0)
  BY <1>2, <1>3
<1>6. Cardinality(W) = Cardinality(U) + (IF s \in W THEN 1 ELSE 0)
  BY <1>2, <1>4
<1>7. QED
  BY <1>2, <1>5, <1>6

\* The k-th inode that a process has to put.
PutAt(s, k) == IF k <= Len(s) THEN s[k] ELSE None

\* The references to put, by their place.
LEMMA Puts ==
  /\ \A k \in 1..2 : PutAt(<<>>, k) = None
  /\ \A i \in Inums : PutAt(<<i>>, 1) = i /\ PutAt(<<i>>, 2) = None /\ Head(<<i>>) = i /\ Tail(<<i>>) = <<>>
  /\ \A i, j \in Inums : /\ PutAt(<<i, j>>, 1) = i /\ PutAt(<<i, j>>, 2) = j
                         /\ Head(<<i, j>>) = i /\ Tail(<<i, j>>) = <<j>>
  /\ <<>> \in Putting
  /\ \A i \in Inums : <<i>> \in Putting /\ <<i>> # <<>>
  /\ \A i, j \in Inums : <<i, j>> \in Putting /\ <<i, j>> # <<>>
<1>1. \A k \in 1..2 : PutAt(<<>>, k) = None
  BY DEF PutAt
<1>2. \A i : PutAt(<<i>>, 1) = i /\ PutAt(<<i>>, 2) = None /\ Head(<<i>>) = i /\ Tail(<<i>>) = <<>>
  BY DEF PutAt
<1>3. \A i, j : /\ PutAt(<<i, j>>, 1) = i /\ PutAt(<<i, j>>, 2) = j
                /\ Head(<<i, j>>) = i /\ Tail(<<i, j>>) = <<j>>
  BY DEF PutAt
<1>4. /\ <<>> \in Putting
      /\ \A i \in Inums : <<i>> \in Putting /\ <<i>> # <<>>
      /\ \A i, j \in Inums : <<i, j>> \in Putting /\ <<i, j>> # <<>>
  BY DEF Putting
<1>5. QED
  BY <1>1, <1>2, <1>3, <1>4

\* Nothing to put.
Idle(p) == puts[p] = <<>>

\* Nothing to put.
LEMMA NoPuts ==
  /\ PutAt(<<>>, 1) = None /\ PutAt(<<>>, 2) = None
  /\ \A i \in Inums : Same(PutAt(<<>>, 1), i) = 0 /\ Same(PutAt(<<>>, 2), i) = 0
<1>1. PutAt(<<>>, 1) = None /\ PutAt(<<>>, 2) = None
  <2>1. 1 \in 1..2 /\ 2 \in 1..2
    OBVIOUS
  <2>2. QED
    BY <2>1, Puts
<1>2. QED
  BY <1>1, Constants DEF Same

\* What is left when the first is put.
LEMMA FirstPut ==
  ASSUME NEW s \in Putting, s # <<>>
  PROVE  /\ Head(s) \in Inums /\ PutAt(s, 1) = Head(s) /\ Tail(s) \in Putting
         /\ PutAt(Tail(s), 1) = PutAt(s, 2) /\ PutAt(Tail(s), 2) = None
         /\ Tail(s) # <<>> => PutAt(s, 2) = Head(Tail(s))
<1>1. CASE \E i \in Inums : s = <<i>>
  <2>1. PICK i \in Inums : s = <<i>>
    BY <1>1
  <2>2. /\ Head(s) = i /\ PutAt(s, 1) = i /\ PutAt(s, 2) = None /\ Tail(s) = <<>> /\ <<>> \in Putting
        /\ PutAt(<<>>, 1) = None /\ PutAt(<<>>, 2) = None
    BY <2>1, Puts
  <2>3. QED
    BY <2>2
<1>2. CASE \E i \in Inums, j \in Inums : s = <<i, j>>
  <2>1. PICK i \in Inums, j \in Inums : s = <<i, j>>
    BY <1>2
  <2>2. /\ Head(s) = i /\ PutAt(s, 1) = i /\ PutAt(s, 2) = j /\ Tail(s) = <<j>> /\ <<j>> \in Putting
        /\ PutAt(<<j>>, 1) = j /\ PutAt(<<j>>, 2) = None /\ Head(<<j>>) = j
    BY <2>1, Puts
  <2>3. QED
    BY <2>2
<1>3. QED
  BY <1>1, <1>2 DEF Putting

\* A step of process p leaves the other processes where they are.
Others(p) ==
  \A q \in Procs \ {p} :
    /\ pc'[q] = pc[q] /\ call'[q] = call[q] /\ elem'[q] = elem[q] /\ ip'[q] = ip[q] /\ dp'[q] = dp[q]
    /\ puts'[q] = puts[q] /\ freeing'[q] = freeing[q] /\ cwd'[q] = cwd[q] /\ ofile'[q] = ofile[q]

\* The references to i that process p has in its call and its directory.
Held(p, i) ==
  Same(ip[p], i) + Same(dp[p], i) + Same(cwd[p], i) + Same(PutAt(puts[p], 1), i) + Same(PutAt(puts[p], 2), i)

Settled(p, i, a, b) == ref'[i] + Held(p, i) + Same(a, i) = ref[i] + Held(p, i)' + Same(b, i)

\* What p takes and drops is counted; one of its descriptors may change.
Balanced(p) ==
  \E f \in Fds :
    /\ \A e \in Fds \ {f} : ofile'[p][e].ip = ofile[p][e].ip
    /\ \A i \in Inums : Settled(p, i, ofile[p][f].ip, ofile'[p][f].ip)

CwdRefs(i)  == {p \in Procs : cwd[p] = i}
FileRefs(i) == {x \in Procs \X Fds : ofile[x[1]][x[2]].ip = i}
IpRefs(i)   == {p \in Procs : ip[p] = i}
DpRefs(i)   == {p \in Procs : dp[p] = i}
PutRefs(i)  == {x \in Procs \X (1..2) : x[2] <= Len(puts[x[1]]) /\ puts[x[1]][x[2]] = i}

\* RefsExact, in these terms.
LEMMA Refs ==
  RefsExact <=> \A i \in Inums :
    ref[i] = Cardinality(CwdRefs(i)) + Cardinality(FileRefs(i)) + Cardinality(IpRefs(i))
             + Cardinality(DpRefs(i)) + Cardinality(PutRefs(i))
BY DEF RefsExact, CwdRefs, FileRefs, IpRefs, DpRefs, PutRefs

\* The pointers to i among the references to put, by place.
LEMMA PutPlace ==
  ASSUME NEW p \in Procs, NEW i \in Inums, NEW k \in 1..2, puts[p] \in Putting
  PROVE  /\ <<p, k>> \in PutRefs(i) <=> PutAt(puts[p], k) = i
         /\ \A q \in Procs, n \in 1..2 :
              <<q, n>> \in PutRefs(i) <=> n <= Len(puts[q]) /\ puts[q][n] = i
<1>1. \A q \in Procs, n \in 1..2 :
        <<q, n>> \in PutRefs(i) <=> n <= Len(puts[q]) /\ puts[q][n] = i
  BY DEF PutRefs
<1>2. <<p, k>> \in PutRefs(i) <=> k <= Len(puts[p]) /\ puts[p][k] = i
  BY <1>1
<1>3. None # i
  BY Constants
<1>4. QED
  BY <1>1, <1>2, <1>3 DEF PutAt

\* A step of p that counts what it takes and drops keeps the reference counts exact.
LEMMA RefStep ==
  ASSUME TypeInv, TypeInv', RefsExact, NEW p \in Procs, Others(p), Balanced(p)
  PROVE  RefsExact'
<1>1. PICK f \in Fds : /\ \A e \in Fds \ {f} : ofile'[p][e].ip = ofile[p][e].ip
                       /\ \A i \in Inums : Settled(p, i, ofile[p][f].ip, ofile'[p][f].ip)
  BY DEF Balanced
<1>2. ASSUME NEW i \in Inums
      PROVE  ref'[i] = Cardinality(CwdRefs(i)') + Cardinality(FileRefs(i)') + Cardinality(IpRefs(i)')
                       + Cardinality(DpRefs(i)') + Cardinality(PutRefs(i)')
  <2>1. /\ Cardinality(CwdRefs(i)) \in Nat /\ Cardinality(CwdRefs(i)') \in Nat
        /\ Cardinality(CwdRefs(i)') + Same(cwd[p], i) = Cardinality(CwdRefs(i)) + Same(cwd'[p], i)
    <3>1. /\ CwdRefs(i) \subseteq Procs /\ CwdRefs(i)' \subseteq Procs
          /\ \A q \in Procs \ {p} : q \in CwdRefs(i) <=> q \in CwdRefs(i)'
          /\ p \in CwdRefs(i) <=> cwd[p] = i
          /\ p \in CwdRefs(i)' <=> cwd'[p] = i
      BY DEF CwdRefs, Others
    <3>2. QED
      BY <3>1, Constants, OnePlace DEF Same
  <2>2. /\ Cardinality(IpRefs(i)) \in Nat /\ Cardinality(IpRefs(i)') \in Nat
        /\ Cardinality(IpRefs(i)') + Same(ip[p], i) = Cardinality(IpRefs(i)) + Same(ip'[p], i)
    <3>1. /\ IpRefs(i) \subseteq Procs /\ IpRefs(i)' \subseteq Procs
          /\ \A q \in Procs \ {p} : q \in IpRefs(i) <=> q \in IpRefs(i)'
          /\ p \in IpRefs(i) <=> ip[p] = i
          /\ p \in IpRefs(i)' <=> ip'[p] = i
      BY DEF IpRefs, Others
    <3>2. QED
      BY <3>1, Constants, OnePlace DEF Same
  <2>3. /\ Cardinality(DpRefs(i)) \in Nat /\ Cardinality(DpRefs(i)') \in Nat
        /\ Cardinality(DpRefs(i)') + Same(dp[p], i) = Cardinality(DpRefs(i)) + Same(dp'[p], i)
    <3>1. /\ DpRefs(i) \subseteq Procs /\ DpRefs(i)' \subseteq Procs
          /\ \A q \in Procs \ {p} : q \in DpRefs(i) <=> q \in DpRefs(i)'
          /\ p \in DpRefs(i) <=> dp[p] = i
          /\ p \in DpRefs(i)' <=> dp'[p] = i
      BY DEF DpRefs, Others
    <3>2. QED
      BY <3>1, Constants, OnePlace DEF Same
  <2>4. /\ Cardinality(FileRefs(i)) \in Nat /\ Cardinality(FileRefs(i)') \in Nat
        /\ Cardinality(FileRefs(i)') + Same(ofile[p][f].ip, i)
             = Cardinality(FileRefs(i)) + Same(ofile'[p][f].ip, i)
    <3> DEFINE S == Procs \X Fds
               s == <<p, f>>
    <3>1. /\ \A q \in Procs, e \in Fds : <<q, e>> \in FileRefs(i) <=> ofile[q][e].ip = i
          /\ \A q \in Procs, e \in Fds : <<q, e>> \in FileRefs(i)' <=> ofile'[q][e].ip = i
      BY DEF FileRefs
    <3>2. \A q \in Procs, e \in Fds : <<q, e>> # s => (<<q, e>> \in FileRefs(i) <=> <<q, e>> \in FileRefs(i)')
      BY <1>1, <3>1 DEF Others
    <3>3. /\ \A z \in S \ {s} : z \in FileRefs(i) <=> z \in FileRefs(i)'
          /\ s \in S /\ FileRefs(i) \subseteq S /\ FileRefs(i)' \subseteq S
      BY <3>2 DEF FileRefs
    <3>4. s \in FileRefs(i) <=> ofile[p][f].ip = i
      BY <3>1
    <3>5. s \in FileRefs(i)' <=> ofile'[p][f].ip = i
      BY <3>1
    <3>6. IsFiniteSet(S)
      BY Constants
    <3> HIDE DEF S, s
    <3>7. QED
      BY <3>3, <3>4, <3>5, <3>6, OnePlace DEF Same
  <2>5. /\ Cardinality(PutRefs(i)) \in Nat /\ Cardinality(PutRefs(i)') \in Nat
        /\ Cardinality(PutRefs(i)') + Same(PutAt(puts[p], 1), i) + Same(PutAt(puts[p], 2), i)
             = Cardinality(PutRefs(i)) + Same(PutAt(puts'[p], 1), i) + Same(PutAt(puts'[p], 2), i)
    <3> DEFINE S == Procs \X (1..2)
               s1 == <<p, 1>>
               s2 == <<p, 2>>
               V == PutRefs(i)
               W == PutRefs(i)'
               U == (V \ {s1}) \cup (W \cap {s1})
    <3>1. puts[p] \in Putting /\ puts'[p] \in Putting /\ 1 \in 1..2 /\ 2 \in 1..2
      <4>1. puts \in [Procs -> Putting] /\ puts' \in [Procs -> Putting]
        BY DEF TypeInv, CallType
      <4>2. QED
        BY <4>1
    <3>2. /\ s1 \in V <=> PutAt(puts[p], 1) = i
          /\ s2 \in V <=> PutAt(puts[p], 2) = i
          /\ \A q \in Procs, n \in 1..2 : <<q, n>> \in V <=> n <= Len(puts[q]) /\ puts[q][n] = i
      BY <3>1, PutPlace
    <3>3. /\ s1 \in W <=> PutAt(puts'[p], 1) = i
          /\ s2 \in W <=> PutAt(puts'[p], 2) = i
          /\ \A q \in Procs, n \in 1..2 : <<q, n>> \in W <=> n <= Len(puts'[q]) /\ puts'[q][n] = i
      <4>1. /\ \A q \in Procs, n \in 1..2 : <<q, n>> \in W <=> n <= Len(puts'[q]) /\ puts'[q][n] = i
        BY DEF PutRefs
      <4>2. None # i
        BY Constants
      <4> HIDE DEF W
      <4>3. QED
        BY <3>1, <4>1, <4>2 DEF PutAt
    <3>4. V \subseteq S /\ W \subseteq S /\ IsFiniteSet(S) /\ s1 \in S /\ s2 \in S /\ s1 # s2
      BY <3>1, Constants DEF PutRefs
    <3>5. \A q \in Procs, n \in 1..2 : q # p => (<<q, n>> \in V <=> <<q, n>> \in W)
      <4>1. \A q \in Procs : q # p => puts'[q] = puts[q]
        BY DEF Others
      <4> HIDE DEF V, W
      <4>2. QED
        <5>1. ASSUME NEW q \in Procs, NEW n \in 1..2, q # p
              PROVE  <<q, n>> \in V <=> <<q, n>> \in W
          <6>1. puts'[q] = puts[q]
            BY <4>1, <5>1
          <6>2. <<q, n>> \in V <=> n <= Len(puts[q]) /\ puts[q][n] = i
            BY <3>2
          <6>3. <<q, n>> \in W <=> n <= Len(puts'[q]) /\ puts'[q][n] = i
            BY <3>3
          <6>4. QED
            BY <6>1, <6>2, <6>3
        <5>2. QED
          BY <5>1
    <3>6. \A z \in S : z # s1 /\ z # s2 => (z \in V <=> z \in W)
      <4>0. \A z \in S : \E q \in Procs, n \in 1..2 : z = <<q, n>>
        BY DEF S
      <4>1. SUFFICES ASSUME NEW q \in Procs, NEW n \in 1..2, <<q, n>> # s1, <<q, n>> # s2
                     PROVE  <<q, n>> \in V <=> <<q, n>> \in W
        <5> HIDE DEF V, W, S, s1, s2
        <5>1. QED
          BY <4>0, ZenonT(30)
      <4>2. q # p
        <5>1. n = 1 \/ n = 2
          OBVIOUS
        <5>2. QED
          BY <4>1, <5>1
      <4> HIDE DEF V, W
      <4>3. QED
        BY <3>5, <4>2
    <3> HIDE DEF S, s1, s2, V, W
    <3>7. /\ Cardinality(V) \in Nat /\ Cardinality(U) \in Nat
          /\ Cardinality(U) + (IF s1 \in V THEN 1 ELSE 0) = Cardinality(V) + (IF s1 \in U THEN 1 ELSE 0)
      <4>1. U \subseteq S /\ \A z \in S \ {s1} : z \in V <=> z \in U
        BY <3>4
      <4> HIDE DEF U
      <4>2. QED
        BY <3>4, <4>1, OnePlace
    <3>8. /\ Cardinality(W) \in Nat
          /\ Cardinality(W) + (IF s2 \in U THEN 1 ELSE 0) = Cardinality(U) + (IF s2 \in W THEN 1 ELSE 0)
      <4>1. U \subseteq S /\ \A z \in S \ {s2} : z \in U <=> z \in W
        BY <3>4, <3>6
      <4> HIDE DEF U
      <4>2. QED
        BY <3>4, <4>1, OnePlace
    <3>9. (s1 \in U <=> s1 \in W) /\ (s2 \in U <=> s2 \in V)
      BY <3>4
    <3> HIDE DEF U
    <3>10. /\ Cardinality(V) \in Nat /\ Cardinality(W) \in Nat
           /\ Cardinality(W) + Same(PutAt(puts[p], 1), i) + Same(PutAt(puts[p], 2), i)
                = Cardinality(V) + Same(PutAt(puts'[p], 1), i) + Same(PutAt(puts'[p], 2), i)
      BY <3>2, <3>3, <3>7, <3>8, <3>9 DEF Same
    <3>11. QED
      BY <3>10 DEF V, W
  <2>6. ref[i] = Cardinality(CwdRefs(i)) + Cardinality(FileRefs(i)) + Cardinality(IpRefs(i))
                 + Cardinality(DpRefs(i)) + Cardinality(PutRefs(i))
    BY Refs
  <2>7. ref'[i] \in Nat /\ ref[i] \in Nat
    BY DEF TypeInv, DataType
  <2>8. ref'[i] + Held(p, i) + Same(ofile[p][f].ip, i) = ref[i] + Held(p, i)' + Same(ofile'[p][f].ip, i)
    BY <1>1 DEF Settled
  <2>9. \A x, y : Same(x, y) \in Nat
    BY DEF Same
  <2>10. QED
    BY <2>1, <2>2, <2>3, <2>4, <2>5, <2>6, <2>7, <2>8, <2>9 DEF Held
<1>3. QED
  BY <1>2 DEF RefsExact, CwdRefs, FileRefs, IpRefs, DpRefs, PutRefs

\* The inode that p puts next has a reference, and if that is the last one, no process
\* has it anywhere else.
LEMMA LastRef ==
  ASSUME TypeInv, RefsExact, NEW p \in Procs, puts[p] # <<>>, NEW i, i = Head(puts[p])
  PROVE  /\ i \in Inums /\ ref[i] \in Nat /\ ref[i] >= 1
         /\ ref[i] = 1 => \A q \in Procs :
              /\ ip[q] # i /\ dp[q] # i /\ cwd[q] # i /\ \A f \in Fds : ofile[q][f].ip # i
              /\ \A k \in 1..2 : PutAt(puts[q], k) = i => q = p /\ k = 1
<1>1. i \in Inums /\ PutAt(puts[p], 1) = i /\ \A q \in Procs : puts[q] \in Putting
  <2>1. puts \in [Procs -> Putting]
    BY DEF TypeInv, CallType
  <2>2. QED
    BY <2>1, FirstPut
<1>2. ref[i] \in Nat
  BY <1>1 DEF TypeInv, DataType
<1>3. /\ IsFiniteSet(CwdRefs(i)) /\ IsFiniteSet(FileRefs(i)) /\ IsFiniteSet(IpRefs(i))
      /\ IsFiniteSet(DpRefs(i)) /\ IsFiniteSet(PutRefs(i))
  BY Constants, FS_Subset DEF CwdRefs, FileRefs, IpRefs, DpRefs, PutRefs
<1>4. /\ Cardinality(CwdRefs(i)) \in Nat /\ Cardinality(FileRefs(i)) \in Nat /\ Cardinality(IpRefs(i)) \in Nat
      /\ Cardinality(DpRefs(i)) \in Nat /\ Cardinality(PutRefs(i)) \in Nat
      /\ Cardinality(CwdRefs(i)) = 0 <=> CwdRefs(i) = {}
      /\ Cardinality(FileRefs(i)) = 0 <=> FileRefs(i) = {}
      /\ Cardinality(IpRefs(i)) = 0 <=> IpRefs(i) = {}
      /\ Cardinality(DpRefs(i)) = 0 <=> DpRefs(i) = {}
      /\ Cardinality(PutRefs(i)) = 0 <=> PutRefs(i) = {}
  BY <1>3, FS_CardinalityType, FS_EmptySet
<1>5. ref[i] = Cardinality(CwdRefs(i)) + Cardinality(FileRefs(i)) + Cardinality(IpRefs(i))
               + Cardinality(DpRefs(i)) + Cardinality(PutRefs(i))
  BY <1>1, Refs
<1>6. <<p, 1>> \in PutRefs(i)
  <2>1. 1 \in 1..2
    OBVIOUS
  <2>2. QED
    BY <1>1, <2>1, PutPlace
<1>7. Cardinality(PutRefs(i)) >= 1
  BY <1>4, <1>6
<1>8. ref[i] >= 1
  BY <1>4, <1>5, <1>7
<1>9. ASSUME ref[i] = 1, NEW q \in Procs
      PROVE  /\ ip[q] # i /\ dp[q] # i /\ cwd[q] # i /\ \A f \in Fds : ofile[q][f].ip # i
             /\ \A k \in 1..2 : PutAt(puts[q], k) = i => q = p /\ k = 1
  <2>1. /\ Cardinality(PutRefs(i)) = 1
        /\ CwdRefs(i) = {} /\ FileRefs(i) = {} /\ IpRefs(i) = {} /\ DpRefs(i) = {}
    <3>1. /\ Cardinality(PutRefs(i)) = 1 /\ Cardinality(CwdRefs(i)) = 0 /\ Cardinality(FileRefs(i)) = 0
          /\ Cardinality(IpRefs(i)) = 0 /\ Cardinality(DpRefs(i)) = 0
      BY <1>4, <1>5, <1>7, <1>9
    <3>2. QED
      BY <1>4, <3>1
  <2>2. ip[q] # i /\ dp[q] # i /\ cwd[q] # i
    BY <2>1 DEF IpRefs, DpRefs, CwdRefs
  <2>3. ASSUME NEW f \in Fds, ofile[q][f].ip = i
        PROVE  FALSE
    <3>1. <<q, f>> \in FileRefs(i)
      BY <2>3 DEF FileRefs
    <3>2. QED
      BY <2>1, <3>1
  <2>4. ASSUME NEW k \in 1..2, PutAt(puts[q], k) = i, <<q, k>> # <<p, 1>>
        PROVE  FALSE
    <3> DEFINE x == <<p, 1>>
               y == <<q, k>>
    <3>1. y \in PutRefs(i)
      BY <1>1, <2>4, PutPlace
    <3>2. x \in PutRefs(i) /\ x # y
      BY <1>6, <2>4
    <3> HIDE DEF x, y
    <3>3. IsFiniteSet({x}) /\ Cardinality({x}) = 1 /\ y \notin {x}
      BY <3>2, FS_Singleton
    <3>4. Cardinality({x} \cup {y}) = 2
      BY <3>3, FS_AddElement
    <3>5. {x} \cup {y} \subseteq PutRefs(i)
      BY <3>1, <3>2
    <3>6. Cardinality({x} \cup {y}) <= Cardinality(PutRefs(i))
      BY <1>3, <3>5, FS_Subset
    <3>7. QED
      BY <2>1, <3>4, <3>6
  <2>5. \A k \in 1..2 : PutAt(puts[q], k) = i => <<q, k>> = <<p, 1>>
    BY <2>4
  <2>6. QED
    BY <2>2, <2>3, <2>5
<1>10. QED
  BY <1>1, <1>2, <1>8, <1>9

\* Hence an inode that a process has locked keeps its copy in the table when another
\* reference to it is dropped.
LEMMA LockedTwice ==
  ASSUME TypeInv, CallInv, RefsExact, LockInv, NEW p \in Procs, puts[p] # <<>>, freeing[p] \in {"no", "drop"},
         NEW i, i = Head(puts[p]), ~Unlocked(i)
  PROVE  ref[i] > 1
<1>1. i \in Inums /\ ref[i] \in Nat /\ ref[i] >= 1
  BY LastRef
<1>2. PICK q \in Procs : lock[i] = q
  BY <1>1, Constants DEF TypeInv, ProcType, Unlocked
<1>3. i = Locked(q) \/ i = Freed(q)
  BY <1>1, <1>2 DEF LockInv
<1>4. i # None
  BY <1>1, Constants
<1>5. CASE i = Locked(q)
  <2>1. ip[q] = i \/ dp[q] = i
    BY <1>4, <1>5 DEF Locked, LockedAt
  <2>2. QED
    BY <1>1, <2>1, LastRef
<1>6. CASE i = Freed(q)
  <2>1. freeing[q] \in {"trunc", "unlock"} /\ i = Head(puts[q])
    BY <1>4, <1>6 DEF Freed
  <2>2. q # p
    BY <2>1
  <2>3. puts[q] # <<>>
    BY <2>1 DEF CallInv, CallAt
  <2>4. puts \in [Procs -> Putting]
    BY DEF TypeInv, CallType
  <2>5. PutAt(puts[q], 1) = i
    BY <2>1, <2>3, <2>4, FirstPut
  <2>6. ref[i] # 1
    <3>1. 1 \in 1..2
      OBVIOUS
    <3>2. QED
      BY <2>2, <2>5, <3>1, LastRef
  <2>7. QED
    BY <1>1, <2>6
<1>7. QED
  BY <1>3, <1>5, <1>6

-----------------------------------------------------------------------------
(* What a step does to the inodes.                                         *)

\* The inodes that Access() changes, and what it makes of them.
LEMMA Contents ==
  /\ \A i, v : DOMAIN On(i, v) = {i} /\ On(i, v)[i] = v
  /\ \A i, v, k, w : /\ DOMAIN OnBoth(i, v, k, w) = {i, k} /\ OnBoth(i, v, k, w)[i] = v
                     /\ i # k => OnBoth(i, v, k, w)[k] = w
  /\ DOMAIN Nothing = {}
BY DEF On, OnBoth, Nothing

\* Access() keeps the types.
LEMMA AccessType ==
  ASSUME DataType, NEW f, NEW d, NEW g \in Inums \cup {None}, NEW assert \in BOOLEAN,
         Access(f, d, g, assert),
         \A j \in DOMAIN f : f[j] \in Node, \A j \in DOMAIN d : d[j] \in Node
  PROVE  /\ disk' \in [Inums -> Node] /\ mem' \in [Inums -> Node]
         /\ ref' \in [Inums -> Nat] /\ valid' \in [Inums -> BOOLEAN] /\ panicked' \in BOOLEAN
         /\ \A j \in Inums : ref'[j] = ref[j] + Same(g, j)
<1>1. disk \in [Inums -> Node] /\ mem \in [Inums -> Node]
  BY DEF DataType
<1>2. mem' \in [Inums -> Node] /\ disk' \in [Inums -> Node]
  BY <1>1 DEF Access
<1>3. valid' \in [Inums -> BOOLEAN]
  <2>1. \A j \in Inums : (j \in DOMAIN f \/ valid[j]) \in BOOLEAN
    OBVIOUS
  <2>2. QED
    BY <2>1 DEF Access
<1>4. ref' \in [Inums -> Nat] /\ \A j \in Inums : ref'[j] = ref[j] + Same(g, j)
  <2>1. ref \in [Inums -> Nat] /\ None \notin Inums
    BY Constants DEF DataType
  <2>2. CASE g = None
    BY <2>1, <2>2 DEF Access, Same
  <2>3. CASE g # None
    <3>1. g \in Inums /\ ref' = [ref EXCEPT ![g] = @ + 1]
      BY <2>3 DEF Access
    <3>2. QED
      BY <2>1, <3>1 DEF Same
  <2>4. QED
    BY <2>2, <2>3
<1>5. panicked' \in BOOLEAN
  BY DEF Access
<1>6. QED
  BY <1>2, <1>3, <1>4, <1>5

\* What ilock() finds is an inode.
LEMMA IlockNode ==
  ASSUME DataType, NEW i \in Inums
  PROVE  ilock(i) \in Node /\ ilock(i).type \in Kinds
<1>1. ilock(i) \in Node
  BY DEF DataType, ilock
<1>2. QED
  BY <1>1, NodeParts

\* An inode that a process has locked, or can lock, is not one being freed.
LEMMA NoWindow ==
  ASSUME LockInv, NEW p \in Procs, freeing[p] = "no", NEW i \in Inums, Unlocked(i) \/ lock[i] = p
  PROVE  ~Window(i)
<1>1. SUFFICES ASSUME NEW q \in Procs, freeing[q] = "unlock", Head(puts[q]) = i
               PROVE  FALSE
  BY DEF Window
<1>2. Freed(q) = i
  BY <1>1 DEF Freed
<1>3. lock[i] = q
  BY <1>2 DEF LockInv
<1>4. q # p /\ lock[i] # None
  BY <1>1, <1>3, Constants
<1>5. QED
  BY <1>3, <1>4 DEF Unlocked

\* ilock() finds what is on disk.
LEMMA Ilock ==
  ASSUME CacheInv, NEW i \in Inums, ~Window(i)
  PROVE  /\ ilock(i) = disk[i]
         /\ ~NoType(i) <=> disk[i].type # "free"
         /\ NoType(i) => disk[i] = Blank("free")
BY DEF CacheInv, ilock, NoType

\* What a step writes, to the copies and to disk: the same, but for an inode that
\* ialloc() takes.
Proper(f, d) ==
  /\ DOMAIN f \subseteq Inums /\ DOMAIN d \subseteq Inums
  /\ \A j \in DOMAIN f :
       /\ f[j] \in Node /\ ~Window(j) /\ f[j].type = ilock(j).type
       /\ j \in DOMAIN d => BlocksOf(d[j]) = BlocksOf(f[j]) /\ (NoType(j) \/ d[j] = f[j])
       /\ j \notin DOMAIN d => f[j] = ilock(j)
  /\ \A j \in DOMAIN d : /\ d[j] \in Node
                         /\ j \notin DOMAIN f => /\ disk[j].type = "free"
                                                 /\ \E t \in Kinds \ {"free"} : d[j] = Blank(t)

\* No process begins or ends freeing an inode.
Steady == \A q \in Procs : /\ freeing'[q] = freeing[q]
                           /\ freeing[q] # "no" => puts'[q] = puts[q]

\* Access() leaves the copies in the table the same as the inodes on disk.
LEMMA CacheStep ==
  ASSUME DataType, CacheInv, BlockInv, Steady, NEW f, NEW d, NEW g, NEW assert \in BOOLEAN,
         Access(f, d, g, assert), Proper(f, d)
  PROVE  /\ ~panicked' => CacheInv'
         /\ \A i \in Inums : BlocksOf(Current(i))' = BlocksOf(disk'[i])
<1>1. /\ \A j \in Inums : /\ mem'[j] = IF j \in DOMAIN f THEN f[j] ELSE mem[j]
                          /\ disk'[j] = IF j \in DOMAIN d THEN d[j] ELSE disk[j]
                          /\ valid'[j] <=> j \in DOMAIN f \/ valid[j]
      /\ ~panicked' => \A j \in DOMAIN f : ~NoType(j)
  BY DEF Access
<1>2. ASSUME NEW i \in Inums, i \notin DOMAIN f, Window(i)
      PROVE  Window(i)'
  <2>1. PICK q \in Procs : freeing[q] = "unlock" /\ Head(puts[q]) = i
    BY <1>2 DEF Window
  <2>2. freeing'[q] = "unlock" /\ Head(puts'[q]) = i
    BY <2>1 DEF Steady
  <2>3. mem'[i] = Blank("free")
    BY <1>1, <1>2 DEF Window
  <2>4. \E t \in Kinds : disk'[i] = Blank(t)
    <3>1. CASE i \in DOMAIN d
      BY <1>1, <1>2, <3>1 DEF Proper
    <3>2. CASE i \notin DOMAIN d
      BY <1>1, <1>2, <3>2 DEF Window, Kinds
    <3>3. QED
      BY <3>1, <3>2
  <2>5. QED
    BY <2>2, <2>3, <2>4 DEF Window, Kinds
<1>3. ASSUME NEW i \in Inums
      PROVE  BlocksOf(Current(i))' = BlocksOf(disk'[i])
  <2>1. BlocksOf(ilock(i)) = BlocksOf(disk[i])
    BY DEF BlockInv, Current
  <2>2. BlocksOf(Current(i))' = BlocksOf(IF valid'[i] THEN mem'[i] ELSE disk'[i])
    BY DEF Current, ilock
  <2>3. CASE i \in DOMAIN f
    <3>1. valid'[i] /\ mem'[i] = f[i]
      BY <1>1, <2>3
    <3>2. CASE i \in DOMAIN d
      BY <1>1, <2>2, <2>3, <3>1, <3>2 DEF Proper
    <3>3. CASE i \notin DOMAIN d
      BY <1>1, <2>1, <2>2, <2>3, <3>1, <3>3 DEF Proper
    <3>4. QED
      BY <3>2, <3>3
  <2>4. CASE i \notin DOMAIN f
    <3>1. valid'[i] <=> valid[i]
      BY <1>1, <2>4
    <3>2. CASE ~valid[i]
      BY <2>2, <3>1, <3>2
    <3>3. CASE valid[i]
      <4>1. mem'[i] = mem[i] /\ valid'[i] /\ ilock(i) = mem[i]
        BY <1>1, <2>4, <3>1, <3>3 DEF ilock
      <4>2. CASE i \notin DOMAIN d
        BY <1>1, <2>1, <2>2, <4>1, <4>2
      <4>3. CASE i \in DOMAIN d
        <5>1. PICK t \in Kinds : d[i] = Blank(t)
          BY <2>4, <4>3 DEF Proper
        <5>2. disk'[i] = Blank(t)
          BY <1>1, <4>3, <5>1
        <5>3. disk[i].type = "free"
          BY <2>4, <4>3 DEF Proper
        <5>4. disk[i] = Blank("free")
          BY <5>3 DEF CacheInv
        <5>5. "free" \in Kinds
          BY DEF Kinds
        <5>6. BlocksOf(disk'[i]) = {} /\ BlocksOf(mem'[i]) = {}
          BY <2>1, <4>1, <5>2, <5>4, <5>5, BlankNode
        <5>7. QED
          BY <2>2, <4>1, <5>6
      <4>4. QED
        BY <4>2, <4>3
    <3>4. QED
      BY <3>2, <3>3
  <2>5. QED
    BY <2>3, <2>4
<1>4. ASSUME ~panicked', NEW i \in Inums
      PROVE  /\ valid'[i] => Window(i)' \/ (mem'[i] = disk'[i] /\ disk'[i].type # "free")
             /\ ~valid'[i] => mem'[i] = Blank("free")
             /\ disk'[i].type = "free" => disk'[i] = Blank("free")
  <2>1. /\ valid[i] => Window(i) \/ (mem[i] = disk[i] /\ disk[i].type # "free")
        /\ ~valid[i] => mem[i] = Blank("free")
        /\ disk[i].type = "free" => disk[i] = Blank("free")
    BY DEF CacheInv
  <2>2. CASE i \in DOMAIN f
    <3>1. ~NoType(i) /\ ~Window(i) /\ valid'[i] /\ mem'[i] = f[i] /\ f[i].type = ilock(i).type
      BY <1>1, <1>4, <2>2 DEF Proper
    <3>2. ilock(i) = disk[i] /\ disk[i].type # "free"
      BY <3>1, Ilock
    <3>3. disk'[i] = f[i]
      <4>1. CASE i \in DOMAIN d
        BY <1>1, <2>2, <3>1, <4>1 DEF Proper
      <4>2. CASE i \notin DOMAIN d
        BY <1>1, <2>2, <3>2, <4>2 DEF Proper
      <4>3. QED
        BY <4>1, <4>2
    <3>4. QED
      BY <3>1, <3>2, <3>3
  <2>3. CASE i \notin DOMAIN f
    <3>1. mem'[i] = mem[i] /\ (valid'[i] <=> valid[i])
      BY <1>1, <2>3
    <3>2. CASE i \notin DOMAIN d
      <4>1. disk'[i] = disk[i]
        BY <1>1, <3>2
      <4>2. QED
        BY <1>2, <2>1, <2>3, <3>1, <4>1
    <3>3. CASE i \in DOMAIN d
      <4>1. PICK t \in Kinds \ {"free"} : d[i] = Blank(t)
        BY <2>3, <3>3 DEF Proper
      <4>2. disk'[i] = Blank(t) /\ disk'[i].type # "free"
        BY <1>1, <3>3, <4>1, BlankNode
      <4>3. disk[i].type = "free"
        BY <2>3, <3>3 DEF Proper
      <4>4. QED
        BY <1>2, <2>1, <2>3, <3>1, <4>2, <4>3
    <3>4. QED
      BY <3>2, <3>3
  <2>4. QED
    BY <2>2, <2>3
<1>5. ASSUME NEW q \in Procs, NEW i \in Inums, freeing'[q] = "unlock", Head(puts'[q]) = i
      PROVE  Window(i)'
  <2>1. freeing[q] = "unlock" /\ Head(puts[q]) = i
    BY <1>5 DEF Steady
  <2>2. Window(i)
    BY <2>1 DEF CacheInv
  <2>3. i \notin DOMAIN f
    BY <2>2 DEF Proper
  <2>4. QED
    BY <1>2, <2>2, <2>3
<1>6. ~panicked' => CacheInv'
  BY <1>4, <1>5 DEF CacheInv
<1>7. QED
  BY <1>3, <1>6

-----------------------------------------------------------------------------
(* The blocks of the inodes.                                               *)

\* An inode grows by blocks that were free.
LEMMA GrowOwn ==
  ASSUME NEW u, NEW v, NEW B, NEW C, Owned(u, B), NEW i \in Inums, u \subseteq v,
         C[i] = B[i] \cup (v \ u), \A j \in Inums \ {i} : C[j] = B[j]
  PROVE  Owned(v, C)
<1>1. u = UNION {B[j] : j \in Inums} /\ \A j, k \in Inums : j # k => B[j] \cap B[k] = {}
  BY DEF Owned
<1>2. \A j \in Inums : B[j] \subseteq u
  BY <1>1
<1>3. ASSUME NEW x
      PROVE  x \in v <=> \E j \in Inums : x \in C[j]
  <2>1. CASE x \in u
    <3>1. PICK j \in Inums : x \in B[j]
      BY <1>1, <2>1
    <3>2. x \in C[j]
      BY <3>1
    <3>3. QED
      BY <2>1, <3>2
  <2>2. CASE x \notin u
    <3>1. \A j \in Inums : x \notin B[j]
      BY <1>2, <2>2
    <3>2. CASE x \in v
      BY <2>2, <3>2
    <3>3. CASE x \notin v
      BY <3>1, <3>3
    <3>4. QED
      BY <3>2, <3>3
  <2>3. QED
    BY <2>1, <2>2
<1>4. v = UNION {C[j] : j \in Inums}
  BY <1>3
<1>5. ASSUME NEW j \in Inums, NEW k \in Inums, j # k
      PROVE  C[j] \cap C[k] = {}
  <2>1. B[j] \cap B[k] = {} /\ B[j] \subseteq u /\ B[k] \subseteq u
    BY <1>1, <1>2, <1>5
  <2>2. CASE j = i
    <3>1. C[j] = B[j] \cup (v \ u) /\ C[k] = B[k]
      BY <1>5, <2>2
    <3>2. QED
      BY <2>1, <3>1
  <2>3. CASE k = i
    <3>1. C[k] = B[k] \cup (v \ u) /\ C[j] = B[j]
      BY <1>5, <2>3
    <3>2. QED
      BY <2>1, <3>1
  <2>4. CASE j # i /\ k # i
    <3>1. C[k] = B[k] /\ C[j] = B[j]
      BY <2>4
    <3>2. QED
      BY <2>1, <3>1
  <2>5. QED
    BY <2>2, <2>3, <2>4
<1>6. QED
  BY <1>4, <1>5 DEF Owned

\* An inode gives up all its blocks.
LEMMA FreeOwn ==
  ASSUME NEW u, NEW B, NEW C, Owned(u, B), NEW i \in Inums,
         C[i] = {}, \A j \in Inums \ {i} : C[j] = B[j]
  PROVE  Owned(u \ B[i], C)
<1>1. u = UNION {B[j] : j \in Inums} /\ \A j, k \in Inums : j # k => B[j] \cap B[k] = {}
  BY DEF Owned
<1>2. ASSUME NEW x
      PROVE  x \in u \ B[i] <=> \E j \in Inums : x \in C[j]
  <2>1. ASSUME x \in u \ B[i]
        PROVE  \E j \in Inums : x \in C[j]
    <3>1. PICK j \in Inums : x \in B[j]
      BY <1>1, <2>1
    <3>2. j # i
      BY <2>1, <3>1
    <3>3. QED
      BY <3>1, <3>2
  <2>2. ASSUME NEW j \in Inums, x \in C[j]
        PROVE  x \in u \ B[i]
    <3>1. j # i /\ C[j] = B[j] /\ B[j] \cap B[i] = {}
      BY <1>1, <2>2
    <3>2. x \in B[j]
      BY <2>2, <3>1
    <3>3. x \in u
      BY <1>1, <3>2
    <3>4. QED
      BY <3>1, <3>2, <3>3
  <2>3. QED
    BY <2>1, <2>2
<1>3. u \ B[i] = UNION {C[j] : j \in Inums}
  BY <1>2
<1>4. ASSUME NEW j \in Inums, NEW k \in Inums, j # k
      PROVE  C[j] \cap C[k] = {}
  <2>1. CASE j = i \/ k = i
    BY <2>1
  <2>2. CASE j # i /\ k # i
    <3>1. C[k] = B[k] /\ C[j] = B[j] /\ B[j] \cap B[k] = {}
      BY <1>1, <1>4, <2>2
    <3>2. QED
      BY <3>1
  <2>3. QED
    BY <2>1, <2>2
<1>5. QED
  BY <1>3, <1>4 DEF Owned

\* The blocks do not change.
LEMMA SameOwn ==
  ASSUME NEW u, NEW B, NEW C, Owned(u, B), \A j \in Inums : C[j] = B[j]
  PROVE  Owned(u, C)
BY DEF Owned

\* The blocks of the inodes after d is written to disk are those in use.
After(d)  == [i \in Inums |-> BlocksOf(IF i \in DOMAIN d THEN d[i] ELSE disk[i])]
Spread(d) == used' \in SUBSET Blocks /\ Owned(used', After(d))

\* A set of blocks grows by those that were free in bitmap u and are not in v.
More(b, u, c, v) == u \subseteq v /\ v \subseteq Blocks /\ c = b \cup (v \ u)

\* No inode gets more blocks or fewer.
LEMMA SpreadSame ==
  ASSUME DataType, BlockInv, NEW d, used' = used, \A j \in DOMAIN d : BlocksOf(d[j]) = BlocksOf(disk[j])
  PROVE  Spread(d)
<1> DEFINE B == [i \in Inums |-> BlocksOf(disk[i])]
           C == [i \in Inums |-> BlocksOf(IF i \in DOMAIN d THEN d[i] ELSE disk[i])]
<1>1. Owned(used, B) /\ used \in SUBSET Blocks
  BY DEF BlockInv, DiskBlocks, DataType
<1>2. \A j \in Inums : C[j] = B[j]
  OBVIOUS
<1> HIDE DEF B, C
<1>3. Owned(used', C)
  BY <1>1, <1>2, SameOwn
<1>4. QED
  BY <1>1, <1>3 DEF Spread, After, C

\* One inode, or none, gets more.
LEMMA SpreadGrow ==
  ASSUME BlockInv, NEW d, NEW i \in DOMAIN d, i \in Inums,
         More(BlocksOf(disk[i]), used, BlocksOf(d[i]), used'),
         \A j \in DOMAIN d \ {i} : BlocksOf(d[j]) = BlocksOf(disk[j])
  PROVE  Spread(d)
<1> DEFINE B == [j \in Inums |-> BlocksOf(disk[j])]
           C == [j \in Inums |-> BlocksOf(IF j \in DOMAIN d THEN d[j] ELSE disk[j])]
<1>1. Owned(used, B)
  BY DEF BlockInv, DiskBlocks
<1>2. used \subseteq used' /\ used' \in SUBSET Blocks /\ C[i] = B[i] \cup (used' \ used)
  BY DEF More
<1>3. \A j \in Inums \ {i} : C[j] = B[j]
  OBVIOUS
<1> HIDE DEF B, C
<1>4. Owned(used', C)
  BY <1>1, <1>2, <1>3, GrowOwn
<1>5. QED
  BY <1>2, <1>4 DEF Spread, After, C

\* Two inodes get more, one after the other.
LEMMA SpreadTwice ==
  ASSUME BlockInv, NEW d, NEW i \in DOMAIN d, i \in Inums, NEW k \in DOMAIN d, k \in Inums, i # k, NEW v,
         More(BlocksOf(disk[i]), used, BlocksOf(d[i]), v), More(BlocksOf(disk[k]), v, BlocksOf(d[k]), used'),
         \A j \in DOMAIN d \ {i, k} : BlocksOf(d[j]) = BlocksOf(disk[j])
  PROVE  Spread(d)
<1> DEFINE B == [j \in Inums |-> BlocksOf(disk[j])]
           M == [j \in Inums |-> BlocksOf(IF j = i THEN d[i] ELSE disk[j])]
           C == [j \in Inums |-> BlocksOf(IF j \in DOMAIN d THEN d[j] ELSE disk[j])]
<1>1. Owned(used, B)
  BY DEF BlockInv, DiskBlocks
<1>2. used \subseteq v /\ M[i] = B[i] \cup (v \ used)
  BY DEF More
<1>3. \A j \in Inums \ {i} : M[j] = B[j]
  OBVIOUS
<1>4. v \subseteq used' /\ used' \in SUBSET Blocks /\ C[k] = M[k] \cup (used' \ v)
  BY DEF More
<1>5. \A j \in Inums \ {k} : C[j] = M[j]
  OBVIOUS
<1> HIDE DEF B, M, C
<1>6. Owned(v, M)
  BY <1>1, <1>2, <1>3, GrowOwn
<1>7. Owned(used', C)
  BY <1>4, <1>5, <1>6, GrowOwn
<1>8. QED
  BY <1>4, <1>7 DEF Spread, After, C

\* One gives up all of them.
LEMMA SpreadFree ==
  ASSUME DataType, BlockInv, NEW d, NEW i \in DOMAIN d, i \in Inums,
         used' = used \ BlocksOf(disk[i]), BlocksOf(d[i]) = {},
         \A j \in DOMAIN d \ {i} : BlocksOf(d[j]) = BlocksOf(disk[j])
  PROVE  Spread(d)
<1> DEFINE B == [j \in Inums |-> BlocksOf(disk[j])]
           C == [j \in Inums |-> BlocksOf(IF j \in DOMAIN d THEN d[j] ELSE disk[j])]
<1>1. Owned(used, B) /\ used \in SUBSET Blocks
  BY DEF BlockInv, DiskBlocks, DataType
<1>2. C[i] = {} /\ (\A j \in Inums \ {i} : C[j] = B[j]) /\ used' = used \ B[i]
  OBVIOUS
<1> HIDE DEF B, C
<1>3. Owned(used \ B[i], C)
  BY <1>1, <1>2, FreeOwn
<1>4. used' \in SUBSET Blocks
  BY <1>1, <1>2
<1>5. QED
  BY <1>2, <1>3, <1>4 DEF Spread, After, C

-----------------------------------------------------------------------------
(* What a step of process p does, part by part.                            *)

\* The locks that p takes and releases, all others being left alone.
LockStep(p) ==
  /\ \A i \in Inums : lock'[i] = p <=> i = Locked(p)' \/ i = Freed(p)'
  /\ \A i \in Inums, q \in Procs \ {p} : lock'[i] = q <=> lock[i] = q
  /\ Freed(p)' # None => Freed(p)' # Locked(p)'
  /\ \A i \in Inums : lock'[i] # None => valid'[i]

Good(p) ==
  /\ TypeInv' /\ Others(p) /\ CallAt(p)' /\ Balanced(p) /\ LockStep(p)
  /\ BlockInv' /\ (~panicked' => CacheInv')

\* Such a step keeps the invariant.
LEMMA GoodStep ==
  ASSUME IInv, NEW p \in Procs, Good(p)
  PROVE  IInv'
<1>1. TypeInv /\ CallInv /\ RefsExact /\ LockInv /\ TypeInv' /\ Others(p) /\ CallAt(p)' /\ Balanced(p)
  BY DEF IInv, RefInv, Good
<1>2. RefsExact'
  BY <1>1, RefStep
<1>3. CallInv'
  <2>1. ASSUME NEW q \in Procs \ {p}
        PROVE  CallAt(q)'
    BY <1>1 DEF Others, CallInv, CallAt
  <2>2. QED
    BY <1>1, <2>1 DEF CallInv
<1>4. LockInv'
  <2>1. \A q \in Procs \ {p} : Locked(q)' = Locked(q) /\ Freed(q)' = Freed(q)
    BY <1>1 DEF Others, Locked, Freed
  <2>2. LockStep(p)
    BY DEF Good
  <2>3. \A q \in Procs, i \in Inums : lock'[i] = q <=> i = Locked(q)' \/ i = Freed(q)'
    BY <1>1, <2>1, <2>2 DEF LockInv, LockStep
  <2>4. \A q \in Procs : Freed(q)' # None => Freed(q)' # Locked(q)'
    BY <1>1, <2>1, <2>2 DEF LockInv, LockStep
  <2>5. \A q \in Procs, i \in Inums : lock'[i] = q => valid'[i]
    BY <2>2, Constants DEF LockStep
  <2>6. QED
    BY <2>3, <2>4, <2>5 DEF LockInv
<1>5. QED
  BY <1>1, <1>2, <1>3, <1>4 DEF IInv, RefInv, Good

\* The types of a process's part of the state, and that it is not freeing an inode.
LEMMA Own ==
  ASSUME IInv, NEW p \in Procs
  PROVE  /\ ip[p] \in Inums \cup {None} /\ dp[p] \in Inums \cup {None} /\ cwd[p] \in Inums
         /\ call[p] \in ParentCalls \cup PathCalls \cup {"none"} /\ elem[p] \in Elems \cup {""}
         /\ puts[p] \in Putting /\ pc[p] \in Points /\ ofile[p] \in [Fds -> OpenFileType]
         /\ CallOk(pc[p], call[p], elem[p], ip[p], dp[p])
         /\ ncalls \in 0..MaxCalls
         /\ Idle(p) => freeing[p] = "no"
         /\ DataType /\ CallType /\ ProcType /\ BlockInv /\ LockInv
<1>1. DataType /\ CallType /\ ProcType /\ CallAt(p) /\ BlockInv /\ LockInv
  BY DEF IInv, RefInv, CallInv, TypeInv
<1>2. /\ ip[p] \in Inums \cup {None} /\ dp[p] \in Inums \cup {None} /\ cwd[p] \in Inums
      /\ call[p] \in ParentCalls \cup PathCalls \cup {"none"} /\ elem[p] \in Elems \cup {""}
      /\ puts[p] \in Putting /\ pc[p] \in Points /\ ofile[p] \in [Fds -> OpenFileType]
      /\ ncalls \in 0..MaxCalls
  BY <1>1 DEF CallType, ProcType
<1>3. /\ CallOk(pc[p], call[p], elem[p], ip[p], dp[p])
      /\ Idle(p) => freeing[p] = "no"
  BY <1>1 DEF CallAt, Idle
<1>4. QED
  BY <1>1, <1>2, <1>3

\* The inodes after Access().
Taken(g, i) == ref'[i] = ref[i] + Same(g, i)

Reached(f, g) ==
  /\ DataType' /\ BlockInv' /\ (~panicked' => CacheInv')
  /\ \A j \in Inums : Taken(g, j)
  /\ \A j \in Inums : j \in DOMAIN f \/ valid[j] => valid'[j]

\* The inodes, the bitmap and the table after Access().
LEMMA DataStep ==
  ASSUME IInv, ~panicked, Steady, NEW f, NEW d, NEW g \in Inums \cup {None}, NEW assert \in BOOLEAN,
         Access(f, d, g, assert), Proper(f, d), Spread(d)
  PROVE  Reached(f, g)
<1>1. DataType /\ CacheInv /\ BlockInv
  BY DEF IInv, RefInv, TypeInv
<1>2. (\A j \in DOMAIN f : f[j] \in Node) /\ (\A j \in DOMAIN d : d[j] \in Node)
  BY DEF Proper
<1>3. /\ disk' \in [Inums -> Node] /\ mem' \in [Inums -> Node]
      /\ ref' \in [Inums -> Nat] /\ valid' \in [Inums -> BOOLEAN] /\ panicked' \in BOOLEAN
      /\ \A j \in Inums : ref'[j] = ref[j] + Same(g, j)
  BY <1>1, <1>2, AccessType, ZenonT(30)
<1>4. used' \in SUBSET Blocks
  BY DEF Spread
<1>5. /\ ~panicked' => CacheInv'
      /\ \A i \in Inums : BlocksOf(Current(i))' = BlocksOf(disk'[i])
  BY <1>1, CacheStep
<1>6. Owned(used', DiskBlocks')
  <2>1. \A i \in Inums : disk'[i] = IF i \in DOMAIN d THEN d[i] ELSE disk[i]
    BY DEF Access
  <2>2. DiskBlocks' = After(d)
    BY <2>1 DEF DiskBlocks, After
  <2>3. QED
    BY <2>2 DEF Spread
<1>7. BlockInv'
  BY <1>5, <1>6 DEF BlockInv
<1>8. \A j \in Inums : j \in DOMAIN f \/ valid[j] => valid'[j]
  BY DEF Access
<1>9. QED
  BY <1>3, <1>4, <1>5, <1>7, <1>8 DEF Reached, DataType, Taken

\* The call goes on with these locals.
Set(p, op, name, i, d) ==
  /\ call' = [call EXCEPT ![p] = op] /\ elem' = [elem EXCEPT ![p] = name]
  /\ ip' = [ip EXCEPT ![p] = i] /\ dp' = [dp EXCEPT ![p] = d]

\* Locals that are left alone, as functions.
LEMMA Unset ==
  ASSUME CallType, NEW p \in Procs
  PROVE  /\ call' = call <=> call' = [call EXCEPT ![p] = call[p]]
         /\ elem' = elem <=> elem' = [elem EXCEPT ![p] = elem[p]]
         /\ ip' = ip <=> ip' = [ip EXCEPT ![p] = ip[p]]
         /\ dp' = dp <=> dp' = [dp EXCEPT ![p] = dp[p]]
<1>1. /\ call = [call EXCEPT ![p] = call[p]] /\ elem = [elem EXCEPT ![p] = elem[p]]
      /\ ip = [ip EXCEPT ![p] = ip[p]] /\ dp = [dp EXCEPT ![p] = dp[p]]
  BY DEF CallType
<1>2. QED
  BY <1>1

\* The references of one inode that p has and takes are those that it has afterwards, in ip,
\* dp and cwd, among what it has to put, and in one descriptor (first a, then b).
Even(p, i, g, x, y, w, s, a, b) ==
  Same(g, i) + Same(ip[p], i) + Same(dp[p], i) + Same(cwd[p], i) + Same(a, i)
  = Same(x, i) + Same(y, i) + Same(w, i) + Same(b, i) + Same(PutAt(s, 1), i) + Same(PutAt(s, 2), i)

\* The sum that Account needs.
LEMMA Sums ==
  \A g, x0, y0, w0, a, x1, y1, w1, b, s1, s2, r0, r1, h0, h1 \in Nat :
    /\ r1 = r0 + g /\ h0 = x0 + y0 + w0 /\ h1 = x1 + y1 + w1 + s1 + s2
    /\ g + x0 + y0 + w0 + a = x1 + y1 + w1 + b + s1 + s2
    => r1 + h0 + a = r0 + h1 + b
OBVIOUS

\* A step that evens out what it takes with what it keeps is counted.
LEMMA Account ==
  ASSUME NEW p \in Procs, NEW i \in Inums, Idle(p), NEW g, NEW a, NEW b,
         ref[i] \in Nat, Taken(g, i),
         Even(p, i, g, ip'[p], dp'[p], cwd'[p], puts'[p], a, b)
  PROVE  Settled(p, i, a, b)
<1> DEFINE g0 == Same(g, i)
           x0 == Same(ip[p], i)
           x1 == Same(ip'[p], i)
           y0 == Same(dp[p], i)
           y1 == Same(dp'[p], i)
           w0 == Same(cwd[p], i)
           w1 == Same(cwd'[p], i)
           a0 == Same(a, i)
           b0 == Same(b, i)
           s1 == Same(PutAt(puts'[p], 1), i)
           s2 == Same(PutAt(puts'[p], 2), i)
           h0 == Held(p, i)
           h1 == Held(p, i)'
           r0 == ref[i]
           r1 == ref'[i]
<1>1. /\ g0 \in Nat /\ x0 \in Nat /\ x1 \in Nat /\ y0 \in Nat /\ y1 \in Nat /\ w0 \in Nat /\ w1 \in Nat
      /\ a0 \in Nat /\ b0 \in Nat /\ s1 \in Nat /\ s2 \in Nat
  BY DEF Same
<1>2. Same(PutAt(puts[p], 1), i) = 0 /\ Same(PutAt(puts[p], 2), i) = 0
  BY NoPuts DEF Idle
<1>3. h0 = x0 + y0 + w0 /\ h0 \in Nat
  BY <1>1, <1>2 DEF Held
<1>4. h1 = x1 + y1 + w1 + s1 + s2 /\ h1 \in Nat
  BY <1>1 DEF Held
<1>5. r0 \in Nat /\ r1 = r0 + g0 /\ g0 + x0 + y0 + w0 + a0 = x1 + y1 + w1 + b0 + s1 + s2
  BY DEF Even, Taken
<1> HIDE DEF g0, x0, x1, y0, y1, w0, w1, a0, b0, s1, s2, h0, h1, r0, r1
<1>6. r1 \in Nat
  BY <1>1, <1>5
<1>7. r1 + h0 + a0 = r0 + h1 + b0
  BY <1>1, <1>3, <1>4, <1>5, <1>6, Sums
<1>8. QED
  BY <1>7 DEF a0, b0, h0, h1, r0, r1, Settled

\* A step of a call, from one point to the next.
LEMMA Control ==
  ASSUME IInv, ~panicked, NEW p \in Procs, Idle(p), freeing' = freeing,
         NEW point \in Points, NEW s \in Putting, Goto(p, point, s),
         NEW op \in ParentCalls \cup PathCalls \cup {"none"}, NEW name \in Elems \cup {""},
         NEW x \in Inums \cup {None}, NEW y \in Inums \cup {None}, Set(p, op, name, x, y),
         CallOk(point, op, name, x, y),
         NEW w \in Inums, cwd' = [cwd EXCEPT ![p] = w],
         NEW o \in [Fds -> OpenFileType], ofile' = [ofile EXCEPT ![p] = o], ncalls' \in 0..MaxCalls,
         NEW f, NEW g, Reached(f, g),
         NEW fd \in Fds, \A e \in Fds \ {fd} : o[e].ip = ofile[p][e].ip,
         \A j \in Inums : Even(p, j, g, x, y, w, s, ofile[p][fd].ip, o[fd].ip),
         lock' = [j \in Inums |-> IF j = LockedAt(point, x, y) THEN p
                                  ELSE IF j = Locked(p) THEN None ELSE lock[j]],
         \/ LockedAt(point, x, y) \in {None, Locked(p)}
         \/ Unlocked(LockedAt(point, x, y)) /\ LockedAt(point, x, y) \in DOMAIN f
  PROVE  Good(p)
<1>1. DataType /\ CallType /\ ProcType /\ CallInv /\ LockInv
  BY DEF IInv, RefInv, TypeInv
<1>2. freeing[p] = "no"
  BY <1>1 DEF CallInv, CallAt, Idle, ProcType
<1>3. CallType'
  BY <1>1 DEF CallType, Goto, Set
<1>4. /\ pc'[p] = point /\ puts'[p] = s /\ call'[p] = op /\ elem'[p] = name /\ ip'[p] = x /\ dp'[p] = y
      /\ cwd'[p] = w /\ ofile'[p] = o
  BY <1>1 DEF CallType, ProcType, Goto, Set
<1>5. Others(p)
  BY <1>1 DEF CallType, ProcType, Goto, Set, Others
<1>6. CallAt(p)'
  BY <1>2, <1>4 DEF CallAt
<1>7. ProcType'
  <2>1. lock' \in [Inums -> Procs \cup {None}]
    BY <1>1 DEF ProcType
  <2>2. QED
    BY <1>1, <2>1 DEF ProcType
<1>8. Balanced(p)
  <2>1. \A e \in Fds \ {fd} : ofile'[p][e].ip = ofile[p][e].ip
    BY <1>4
  <2>2. ASSUME NEW i \in Inums
        PROVE  Settled(p, i, ofile[p][fd].ip, ofile'[p][fd].ip)
    <3>1. Taken(g, i) /\ ref[i] \in Nat
      BY <1>1 DEF Reached, DataType
    <3>2. /\ ofile'[p][fd].ip = o[fd].ip
          /\ ip'[p] = x /\ dp'[p] = y /\ cwd'[p] = w /\ puts'[p] = s
      BY <1>4
    <3>3. Even(p, i, g, ip'[p], dp'[p], cwd'[p], puts'[p], ofile[p][fd].ip, ofile'[p][fd].ip)
      BY <3>2
    <3>4. QED
      BY <3>1, <3>3, Account
  <2>3. QED
    BY <2>1, <2>2 DEF Balanced
<1>9. LockStep(p)
  <2>1. Freed(p)' = None /\ Freed(p) = None /\ Locked(p)' = LockedAt(point, x, y)
    BY <1>2, <1>4 DEF Freed, Locked
  <2>2. p # None /\ None \notin Inums
    BY Constants
  <2>3. \A i \in Inums : lock[i] = p <=> i = Locked(p)
    <3>1. \A i \in Inums : lock[i] = p <=> i = Locked(p) \/ i = Freed(p)
      BY <1>1 DEF LockInv
    <3>2. \A i \in Inums : i # Freed(p)
      BY <2>1, <2>2
    <3>3. QED
      BY <3>1, <3>2
  <2>4. \A i \in Inums : lock'[i] = p <=> i = Locked(p)' \/ i = Freed(p)'
    BY <2>1, <2>2, <2>3
  <2>5. \A i \in Inums, q \in Procs \ {p} : lock'[i] = q <=> lock[i] = q
    <3>1. SUFFICES ASSUME NEW i \in Inums, NEW q \in Procs \ {p}
                   PROVE  lock'[i] = q <=> lock[i] = q
      OBVIOUS
    <3>2. q # None
      BY Constants
    <3>3. CASE i = LockedAt(point, x, y)
      <4>1. lock'[i] = p /\ lock[i] \in {p, None}
        BY <2>2, <2>3, <3>3 DEF Unlocked
      <4>2. QED
        BY <3>2, <4>1
    <3>4. CASE i # LockedAt(point, x, y)
      BY <2>3, <3>2, <3>4
    <3>5. QED
      BY <3>3, <3>4
  <2>6. ASSUME NEW i \in Inums, lock'[i] # None
        PROVE  valid'[i]
    <3>1. i \in DOMAIN f \/ valid[i]
      <4>1. lock[i] \in Procs => valid[i]
        BY <1>1 DEF LockInv
      <4>2. lock[i] \in Procs \cup {None}
        BY <1>1 DEF ProcType
      <4>3. QED
        BY <2>2, <2>3, <2>6, <4>1, <4>2
    <3>2. QED
      BY <3>1 DEF Reached
  <2>7. QED
    BY <2>1, <2>4, <2>5, <2>6 DEF LockStep
<1>10. QED
  BY <1>3, <1>5, <1>6, <1>7, <1>8, <1>9 DEF Good, TypeInv, Reached

\* No other process frees an inode in a step of p, and p does not.
LEMMA Steadily ==
  ASSUME IInv, NEW p \in Procs, Idle(p), freeing' = freeing, \A q \in Procs \ {p} : puts'[q] = puts[q]
  PROVE  Steady /\ freeing[p] = "no"
<1>1. freeing[p] = "no"
  BY DEF IInv, RefInv, CallInv, CallAt, Idle, TypeInv, ProcType
<1>2. QED
  BY <1>1 DEF Steady

\* Goto() changes the references to put of its process only.
LEMMA Gone ==
  ASSUME IInv, NEW p \in Procs, NEW point, NEW s, Goto(p, point, s)
  PROVE  \A q \in Procs \ {p} : puts'[q] = puts[q]
BY DEF Goto, IInv, RefInv, TypeInv, CallType

\* Nothing is locked; a reference is taken, or none.
LEMMA StillStep ==
  ASSUME IInv, ~panicked, Steady, NEW g \in Inums \cup {None},
         ref' = IF g = None THEN ref ELSE [ref EXCEPT ![g] = @ + 1],
         UNCHANGED <<disk, used, valid, mem, panicked>>
  PROVE  Reached(Nothing, g)
<1>1. DataType /\ CacheInv /\ BlockInv
  BY DEF IInv, RefInv, TypeInv
<1>2. ref' \in [Inums -> Nat] /\ \A j \in Inums : Taken(g, j)
  <2>1. ref \in [Inums -> Nat] /\ None \notin Inums
    BY <1>1, Constants DEF DataType
  <2>2. CASE g = None
    BY <2>1, <2>2 DEF Same, Taken
  <2>3. CASE g # None
    <3>1. g \in Inums /\ ref' = [ref EXCEPT ![g] = @ + 1]
      BY <2>3
    <3>2. QED
      BY <2>1, <3>1 DEF Same, Taken
  <2>4. QED
    BY <2>2, <2>3
<1>3. DataType'
  BY <1>1, <1>2 DEF DataType
<1>4. BlockInv'
  BY <1>1 DEF BlockInv, DiskBlocks, Current, ilock
<1>5. \A i \in Inums : Window(i) => Window(i)'
  BY DEF Window, Steady
<1>6. CacheInv'
  <2>1. ASSUME NEW q \in Procs, NEW i \in Inums, freeing'[q] = "unlock", Head(puts'[q]) = i
        PROVE  Window(i)'
    <3>1. freeing[q] = "unlock" /\ Head(puts[q]) = i
      BY <2>1 DEF Steady
    <3>2. QED
      BY <1>1, <1>5, <3>1 DEF CacheInv
  <2>2. QED
    BY <1>1, <1>5, <2>1 DEF CacheInv
<1>7. QED
  BY <1>2, <1>3, <1>4, <1>6, Contents DEF Reached

\* An inode is locked and looked at.
LEMMA LookStep ==
  ASSUME IInv, ~panicked, NEW p \in Procs, freeing[p] = "no", Steady,
         NEW i \in Inums, Unlocked(i) \/ lock[i] = p,
         NEW g \in Inums \cup {None}, Look(i, g)
  PROVE  Reached(On(i, ilock(i)), g) /\ i \in DOMAIN On(i, ilock(i))
<1>1. DataType /\ LockInv
  BY DEF IInv, RefInv, TypeInv
<1>2. ~Window(i) /\ ilock(i) \in Node
  BY <1>1, NoWindow, IlockNode
<1>3. DOMAIN On(i, ilock(i)) = {i} /\ On(i, ilock(i))[i] = ilock(i) /\ DOMAIN Nothing = {}
  BY Contents
<1>4. Proper(On(i, ilock(i)), Nothing)
  BY <1>2, <1>3 DEF Proper
<1>5. Access(On(i, ilock(i)), Nothing, g, TRUE) /\ used' = used
  BY DEF Look
<1>6. \A j \in DOMAIN Nothing : BlocksOf(Nothing[j]) = BlocksOf(disk[j])
  BY <1>3
<1>7. Spread(Nothing)
  BY <1>5, <1>6, Own, SpreadSame
<1>8. QED
  BY <1>3, <1>4, <1>5, <1>7, DataStep

\* The references of one inode, when neither p's directory nor its descriptors change.
EvenCall(p, i, g, x, y, s) ==
  Same(g, i) + Same(ip[p], i) + Same(dp[p], i)
  = Same(x, i) + Same(y, i) + Same(PutAt(s, 1), i) + Same(PutAt(s, 2), i)

\* A step that has to do with no descriptor and no directory evens them out.
LEMMA EvenWalk ==
  ASSUME NEW p, NEW j, NEW g, NEW x, NEW y, NEW s, NEW z, EvenCall(p, j, g, x, y, s)
  PROVE  Even(p, j, g, x, y, cwd[p], s, z, z)
<1> DEFINE a == Same(g, j)
           b == Same(ip[p], j)
           c == Same(dp[p], j)
           d == Same(x, j)
           e == Same(y, j)
           k == Same(PutAt(s, 1), j)
           l == Same(PutAt(s, 2), j)
           m == Same(cwd[p], j)
           n == Same(z, j)
<1>1. /\ a \in Nat /\ b \in Nat /\ c \in Nat /\ d \in Nat /\ e \in Nat /\ k \in Nat /\ l \in Nat
      /\ m \in Nat /\ n \in Nat
  BY DEF Same
<1>2. a + b + c = d + e + k + l
  BY DEF EvenCall
<1> HIDE DEF a, b, c, d, e, k, l, m, n
<1>3. a + b + c + m + n = d + e + m + n + k + l
  BY <1>1, <1>2
<1>4. QED
  BY <1>3 DEF Even, a, b, c, d, e, k, l, m, n

\* What a call goes on with, and that it does.
Args(point, s, op, name, x, y) ==
  /\ point \in Points /\ s \in Putting
  /\ op \in ParentCalls \cup PathCalls \cup {"none"} /\ name \in Elems \cup {""}
  /\ x \in Inums \cup {None} /\ y \in Inums \cup {None}
  /\ CallOk(point, op, name, x, y)

Going(p, point, s, op, name, x, y) == Goto(p, point, s) /\ Set(p, op, name, x, y)

\* The lock that p has becomes that of k, which is among the inodes of f if it is new.
LockMove(p, k, f) ==
  /\ lock' = [j \in Inums |-> IF j = k THEN p ELSE IF j = Locked(p) THEN None ELSE lock[j]]
  /\ k \in {None, Locked(p)} \/ (Unlocked(k) /\ k \in DOMAIN f)

\* Directories and open files stay.
Kept == cwd' = cwd /\ ofile' = ofile /\ ncalls' \in 0..MaxCalls /\ freeing' = freeing

EvenMove(p, g, x, y, s) == \A j \in Inums : EvenCall(p, j, g, x, y, s)

\* A step of a call that does not change them.
LEMMA Walk ==
  ASSUME IInv, ~panicked, NEW p \in Procs, Idle(p), Kept,
         NEW point, NEW s, NEW op, NEW name, NEW x, NEW y, Args(point, s, op, name, x, y),
         Going(p, point, s, op, name, x, y),
         NEW f, NEW g, Reached(f, g), EvenMove(p, g, x, y, s),
         LockMove(p, LockedAt(point, x, y), f)
  PROVE  Good(p)
<1>1. ProcType
  BY DEF IInv, RefInv, TypeInv
<1>2. /\ cwd[p] \in Inums /\ cwd' = [cwd EXCEPT ![p] = cwd[p]]
      /\ ofile[p] \in [Fds -> OpenFileType] /\ ofile' = [ofile EXCEPT ![p] = ofile[p]]
      /\ ncalls' \in 0..MaxCalls /\ freeing' = freeing
  BY <1>1 DEF ProcType, Kept
<1>3. 1 \in Fds
  BY Constants
<1>4. \A j \in Inums : Even(p, j, g, x, y, cwd[p], s, ofile[p][1].ip, ofile[p][1].ip)
  BY EvenWalk DEF EvenMove
<1>5. /\ point \in Points /\ s \in Putting
      /\ op \in ParentCalls \cup PathCalls \cup {"none"} /\ name \in Elems \cup {""}
      /\ x \in Inums \cup {None} /\ y \in Inums \cup {None}
      /\ CallOk(point, op, name, x, y) /\ Goto(p, point, s) /\ Set(p, op, name, x, y)
  BY DEF Args, Going
<1>6. /\ lock' = [j \in Inums |-> IF j = LockedAt(point, x, y) THEN p
                                  ELSE IF j = Locked(p) THEN None ELSE lock[j]]
      /\ \/ LockedAt(point, x, y) \in {None, Locked(p)}
         \/ Unlocked(LockedAt(point, x, y)) /\ LockedAt(point, x, y) \in DOMAIN f
  BY DEF LockMove
<1>7. QED
  BY <1>2, <1>3, <1>4, <1>5, <1>6, Control

\* A step of a call that may change p's current directory and a descriptor.
LEMMA Carried ==
  ASSUME IInv, ~panicked, NEW p \in Procs, Idle(p), freeing' = freeing, ncalls' \in 0..MaxCalls,
         NEW point, NEW s, NEW op, NEW name, NEW x, NEW y, Args(point, s, op, name, x, y),
         Going(p, point, s, op, name, x, y),
         NEW w \in Inums, cwd' = [cwd EXCEPT ![p] = w],
         NEW o \in [Fds -> OpenFileType], ofile' = [ofile EXCEPT ![p] = o],
         NEW f, NEW g, Reached(f, g),
         NEW fd \in Fds, \A e \in Fds \ {fd} : o[e].ip = ofile[p][e].ip,
         \A j \in Inums : Even(p, j, g, x, y, w, s, ofile[p][fd].ip, o[fd].ip),
         LockMove(p, LockedAt(point, x, y), f)
  PROVE  Good(p)
<1>1. /\ point \in Points /\ s \in Putting
      /\ op \in ParentCalls \cup PathCalls \cup {"none"} /\ name \in Elems \cup {""}
      /\ x \in Inums \cup {None} /\ y \in Inums \cup {None}
      /\ CallOk(point, op, name, x, y) /\ Goto(p, point, s) /\ Set(p, op, name, x, y)
  BY DEF Args, Going
<1>2. /\ lock' = [j \in Inums |-> IF j = LockedAt(point, x, y) THEN p
                                  ELSE IF j = Locked(p) THEN None ELSE lock[j]]
      /\ \/ LockedAt(point, x, y) \in {None, Locked(p)}
         \/ Unlocked(LockedAt(point, x, y)) /\ LockedAt(point, x, y) \in DOMAIN f
  BY DEF LockMove
<1>3. QED
  BY <1>1, <1>2, Control

\* chdir() exchanges the inode it has for the current directory, open() puts it in a descriptor.
LEMMA EvenChange ==
  ASSUME NEW p, NEW j \in Inums, ip[p] \in Inums, dp[p] = None, cwd[p] \in Inums, NEW z
  PROVE  /\ Even(p, j, None, None, None, ip[p], <<cwd[p]>>, z, z)
         /\ Even(p, j, None, None, None, cwd[p], <<>>, None, ip[p])
<1> DEFINE S(x) == Same(x, j)
<1>1. S(None) = 0
  BY Constants DEF Same
<1>2. S(ip[p]) \in Nat /\ S(cwd[p]) \in Nat /\ S(z) \in Nat
  BY DEF Same
<1>3. S(PutAt(<<>>, 1)) = 0 /\ S(PutAt(<<>>, 2)) = 0
  BY NoPuts
<1>4. S(PutAt(<<cwd[p]>>, 1)) = S(cwd[p]) /\ S(PutAt(<<cwd[p]>>, 2)) = 0
  BY <1>1, Puts
<1>5. \A w, s, a, b :
        Even(p, j, None, None, None, w, s, a, b) <=>
          S(None) + S(ip[p]) + S(None) + S(cwd[p]) + S(a)
          = S(None) + S(None) + S(w) + S(b) + S(PutAt(s, 1)) + S(PutAt(s, 2))
  BY DEF Even
<1> HIDE DEF S
<1>6. Even(p, j, None, None, None, ip[p], <<cwd[p]>>, z, z)
  BY <1>1, <1>2, <1>4, <1>5
<1>7. Even(p, j, None, None, None, cwd[p], <<>>, None, ip[p])
  BY <1>1, <1>2, <1>3, <1>5
<1>8. QED
  BY <1>6, <1>7

\* close() takes it out of the descriptor.
LEMMA EvenClose ==
  ASSUME NEW p, NEW j \in Inums, ip[p] = None, dp[p] = None, cwd[p] \in Inums, NEW i \in Inums
  PROVE  Even(p, j, None, None, None, cwd[p], <<i>>, i, None)
<1> DEFINE S(x) == Same(x, j)
<1>1. S(None) = 0
  BY Constants DEF Same
<1>2. S(cwd[p]) \in Nat /\ S(i) \in Nat
  BY DEF Same
<1>3. S(PutAt(<<i>>, 1)) = S(i) /\ S(PutAt(<<i>>, 2)) = 0
  BY <1>1, Puts
<1>4. Even(p, j, None, None, None, cwd[p], <<i>>, i, None) <=>
        S(None) + S(None) + S(None) + S(cwd[p]) + S(i)
        = S(None) + S(None) + S(cwd[p]) + S(None) + S(PutAt(<<i>>, 1)) + S(PutAt(<<i>>, 2))
  BY DEF Even
<1> HIDE DEF S
<1>5. QED
  BY <1>1, <1>2, <1>3, <1>4

\* How the references of a call move: it keeps what it has, lets go of one inode or of both,
\* and does or does not take another.
LEMMA Moves ==
  ASSUME NEW p, ip[p] \in Inums \cup {None}, dp[p] \in Inums \cup {None}
  PROVE  /\ EvenMove(p, None, ip[p], dp[p], <<>>)
         /\ \A g \in Inums \cup {None} :
              /\ ip[p] = None => EvenMove(p, g, g, dp[p], <<>>)
              /\ dp[p] = None => EvenMove(p, g, ip[p], g, <<>>)
              /\ ip[p] \in Inums => EvenMove(p, g, g, dp[p], <<ip[p]>>)
              /\ dp[p] \in Inums => EvenMove(p, g, ip[p], g, <<dp[p]>>)
              /\ g \in Inums => EvenMove(p, g, ip[p], dp[p], <<g>>)
              /\ ip[p] = None /\ dp[p] \in Inums => EvenMove(p, g, g, None, <<dp[p]>>)
         /\ ip[p] \in Inums /\ dp[p] \in Inums => EvenMove(p, None, None, None, <<dp[p], ip[p]>>)
<1>1. SUFFICES ASSUME NEW j \in Inums
               PROVE  /\ EvenCall(p, j, None, ip[p], dp[p], <<>>)
                      /\ \A g \in Inums \cup {None} :
                           /\ ip[p] = None => EvenCall(p, j, g, g, dp[p], <<>>)
                           /\ dp[p] = None => EvenCall(p, j, g, ip[p], g, <<>>)
                           /\ ip[p] \in Inums => EvenCall(p, j, g, g, dp[p], <<ip[p]>>)
                           /\ dp[p] \in Inums => EvenCall(p, j, g, ip[p], g, <<dp[p]>>)
                           /\ g \in Inums => EvenCall(p, j, g, ip[p], dp[p], <<g>>)
                           /\ ip[p] = None /\ dp[p] \in Inums => EvenCall(p, j, g, g, None, <<dp[p]>>)
                      /\ ip[p] \in Inums /\ dp[p] \in Inums =>
                           EvenCall(p, j, None, None, None, <<dp[p], ip[p]>>)
  BY DEF EvenMove
<1> DEFINE S(x) == Same(x, j)
<1>2. S(None) = 0
  BY Constants DEF Same
<1>3. \A x : S(x) \in Nat
  BY DEF Same
<1>4. S(PutAt(<<>>, 1)) = 0 /\ S(PutAt(<<>>, 2)) = 0
  BY NoPuts
<1>5. \A i \in Inums : S(PutAt(<<i>>, 1)) = S(i) /\ S(PutAt(<<i>>, 2)) = 0
  BY <1>2, Puts
<1>6. \A i \in Inums, k \in Inums : S(PutAt(<<i, k>>, 1)) = S(i) /\ S(PutAt(<<i, k>>, 2)) = S(k)
  BY Puts
<1>7. \A g, x, y, s : EvenCall(p, j, g, x, y, s) <=>
        S(g) + S(ip[p]) + S(dp[p]) = S(x) + S(y) + S(PutAt(s, 1)) + S(PutAt(s, 2))
  BY DEF EvenCall
<1> HIDE DEF S
<1>8. EvenCall(p, j, None, ip[p], dp[p], <<>>)
  BY <1>2, <1>3, <1>4, <1>7
<1>9. ASSUME NEW g \in Inums \cup {None}
      PROVE  /\ ip[p] = None => EvenCall(p, j, g, g, dp[p], <<>>)
             /\ dp[p] = None => EvenCall(p, j, g, ip[p], g, <<>>)
             /\ ip[p] \in Inums => EvenCall(p, j, g, g, dp[p], <<ip[p]>>)
             /\ dp[p] \in Inums => EvenCall(p, j, g, ip[p], g, <<dp[p]>>)
             /\ g \in Inums => EvenCall(p, j, g, ip[p], dp[p], <<g>>)
             /\ ip[p] = None /\ dp[p] \in Inums => EvenCall(p, j, g, g, None, <<dp[p]>>)
  <2>1. S(g) \in Nat /\ S(ip[p]) \in Nat /\ S(dp[p]) \in Nat
    BY <1>3
  <2>2. ip[p] = None => EvenCall(p, j, g, g, dp[p], <<>>)
    BY <2>1, <1>2, <1>4, <1>7
  <2>3. dp[p] = None => EvenCall(p, j, g, ip[p], g, <<>>)
    BY <2>1, <1>2, <1>4, <1>7
  <2>4. ip[p] \in Inums => EvenCall(p, j, g, g, dp[p], <<ip[p]>>)
    BY <2>1, <1>5, <1>7
  <2>5. dp[p] \in Inums => EvenCall(p, j, g, ip[p], g, <<dp[p]>>)
    BY <2>1, <1>5, <1>7
  <2>6. g \in Inums => EvenCall(p, j, g, ip[p], dp[p], <<g>>)
    BY <2>1, <1>5, <1>7
  <2>7. ip[p] = None /\ dp[p] \in Inums => EvenCall(p, j, g, g, None, <<dp[p]>>)
    BY <2>1, <1>2, <1>5, <1>7
  <2>8. QED
    BY <2>2, <2>3, <2>4, <2>5, <2>6, <2>7
<1>10. ip[p] \in Inums /\ dp[p] \in Inums => EvenCall(p, j, None, None, None, <<dp[p], ip[p]>>)
  <2>1. S(ip[p]) \in Nat /\ S(dp[p]) \in Nat
    BY <1>3
  <2>2. QED
    BY <2>1, <1>2, <1>6, <1>7
<1>11. QED
  BY <1>8, <1>9, <1>10

\* How its lock moves: it keeps what it has, takes one, releases one or exchanges them.
LEMMA LockMoves ==
  ASSUME IInv, NEW p \in Procs, Idle(p), NEW f
  PROVE  /\ lock' = lock => LockMove(p, Locked(p), f)
         /\ \A k \in Inums :
              /\ Unlocked(k) /\ k \in DOMAIN f /\ Locked(p) = None /\ lock' = [lock EXCEPT ![k] = p]
                   => LockMove(p, k, f)
              /\ Unlocked(k) \/ k = Locked(p) =>
                   (Locked(p) \in {None, k} /\ lock' = [lock EXCEPT ![k] = None] => LockMove(p, None, f))
              /\ \A m \in Inums :
                   /\ Unlocked(k) /\ k \in DOMAIN f /\ Locked(p) = m /\ k # m
                   /\ lock' = [lock EXCEPT ![k] = p, ![m] = None]
                   => LockMove(p, k, f)
<1>1. lock \in [Inums -> Procs \cup {None}] /\ freeing[p] = "no" /\ None \notin Inums
  BY Constants DEF IInv, RefInv, CallInv, CallAt, Idle, TypeInv, ProcType
<1>2. \A i \in Inums : lock[i] = p <=> i = Locked(p)
  <2>1. \A i \in Inums : lock[i] = p <=> i = Locked(p) \/ i = Freed(p)
    BY DEF IInv, LockInv
  <2>2. \A i \in Inums : i # Freed(p)
    BY <1>1 DEF Freed
  <2>3. QED
    BY <2>1, <2>2
<1>3. lock' = lock => LockMove(p, Locked(p), f)
  BY <1>1, <1>2 DEF LockMove
<1>4. ASSUME NEW k \in Inums, Unlocked(k), k \in DOMAIN f, Locked(p) = None, lock' = [lock EXCEPT ![k] = p]
      PROVE  LockMove(p, k, f)
  BY <1>1, <1>4 DEF LockMove
<1>5. ASSUME NEW k \in Inums, Unlocked(k) \/ k = Locked(p), Locked(p) \in {None, k},
             lock' = [lock EXCEPT ![k] = None]
      PROVE  LockMove(p, None, f)
  BY <1>1, <1>5 DEF LockMove, Unlocked
<1>6. ASSUME NEW k \in Inums, NEW m \in Inums, Unlocked(k), k \in DOMAIN f, Locked(p) = m, k # m,
             lock' = [lock EXCEPT ![k] = p, ![m] = None]
      PROVE  LockMove(p, k, f)
  BY <1>1, <1>6 DEF LockMove
<1>7. QED
  BY <1>3, <1>4, <1>5, <1>6

-----------------------------------------------------------------------------
(* The actions, one by one: namex().                                       *)

\* A call begins within the bound.
LEMMA Entered ==
  ASSUME IInv, NEW p \in Procs, Enter(p)
  PROVE  ncalls' \in 0..MaxCalls /\ ~panicked /\ Idle(p) /\ pc[p] = "user"
<1>1. ncalls \in 0..MaxCalls /\ ncalls < MaxCalls /\ ncalls' = ncalls + 1 /\ MaxCalls \in Nat
  BY Own, Constants DEF Enter
<1>2. ncalls' \in 0..MaxCalls
  BY <1>1
<1>3. QED
  BY <1>2 DEF Enter, At, Idle

\* A call begins.
LEMMA BeginGood ==
  ASSUME IInv, NEW p \in Procs, Begin(p)
  PROVE  Good(p)
<1>1. PICK o \in Calls[p], i \in {ROOTINO, cwd[p]} :
        /\ Enter(p) /\ StartWalk(i)
        /\ \/ /\ o \in PathCalls
              /\ Goto(p, "namei", <<>>)
              /\ ip' = [ip EXCEPT ![p] = i]
              /\ call' = [call EXCEPT ![p] = o]
              /\ UNCHANGED <<elem, dp>>
           \/ /\ o \in ParentCalls
              /\ Goto(p, "nameiparent", <<>>)
              /\ dp' = [dp EXCEPT ![p] = i]
              /\ call' = [call EXCEPT ![p] = o]
              /\ UNCHANGED <<elem, ip>>
           \/ o \in ParentCalls /\ Return(p, <<i>>)
        /\ UNCHANGED <<disk, used, valid, mem, lock, freeing, cwd, ofile, panicked>>
  BY DEF Begin
<1>2. /\ CallType /\ ip[p] = None /\ dp[p] = None /\ Locked(p) = None /\ elem[p] \in Elems \cup {""}
      /\ ~panicked /\ Idle(p) /\ i \in Inums /\ i # None
  BY <1>1, Own, Constants DEF Enter, At, Idle, CallOk, WithIp, WithDp, Locked, LockedAt
<1>3. Kept
  <2>1. ncalls' \in 0..MaxCalls
    BY <1>1, Entered
  <2>2. QED
    BY <1>1, <2>1 DEF Kept
<1>4. \A q \in Procs \ {p} : puts'[q] = puts[q]
  BY <1>1, Gone DEF Return
<1>5. Steady
  BY <1>1, <1>2, <1>4, Steadily
<1>6. Reached(Nothing, i)
  BY <1>1, <1>2, <1>5, StillStep DEF StartWalk
<1>7. LockMove(p, None, Nothing)
  BY <1>1, <1>2, LockMoves
<1>8. CASE o \in PathCalls /\ Goto(p, "namei", <<>>) /\ ip' = [ip EXCEPT ![p] = i]
           /\ call' = [call EXCEPT ![p] = o] /\ UNCHANGED <<elem, dp>>
  <2>1. Going(p, "namei", <<>>, o, elem[p], i, None)
    BY <1>2, <1>8, Unset DEF Set, Going
  <2>2. Args("namei", <<>>, o, elem[p], i, None) /\ LockedAt("namei", i, None) = None
    BY <1>2, <1>8, Puts DEF Args, CallOk, WithIp, WithDp, WithElem, PathCalls, LockedAt, Points
  <2>3. EvenMove(p, i, i, None, <<>>)
    BY <1>2, Moves
  <2>4. QED
    BY <1>2, <1>3, <1>6, <1>7, <2>1, <2>2, <2>3, Walk
<1>9. CASE o \in ParentCalls /\ Goto(p, "nameiparent", <<>>) /\ dp' = [dp EXCEPT ![p] = i]
           /\ call' = [call EXCEPT ![p] = o] /\ UNCHANGED <<elem, ip>>
  <2>1. Going(p, "nameiparent", <<>>, o, elem[p], None, i)
    BY <1>2, <1>9, Unset DEF Set, Going
  <2>2. Args("nameiparent", <<>>, o, elem[p], None, i) /\ LockedAt("nameiparent", None, i) = None
    BY <1>2, <1>9, Puts DEF Args, CallOk, WithIp, WithDp, WithElem, ParentCalls, LockedAt, Points
  <2>3. EvenMove(p, i, None, i, <<>>)
    BY <1>2, Moves
  <2>4. QED
    BY <1>2, <1>3, <1>6, <1>7, <2>1, <2>2, <2>3, Walk
<1>10. CASE o \in ParentCalls /\ Return(p, <<i>>)
  <2>1. Going(p, "user", <<i>>, "none", "", None, None)
    BY <1>10 DEF Set, Return, Going
  <2>2. Args("user", <<i>>, "none", "", None, None) /\ LockedAt("user", None, None) = None
    BY <1>2, Puts DEF Args, CallOk, WithIp, WithDp, WithElem, LockedAt, Points
  <2>3. EvenMove(p, i, None, None, <<i>>)
    BY <1>2, Moves
  <2>4. QED
    BY <1>2, <1>3, <1>6, <1>7, <2>1, <2>2, <2>3, Walk
<1>11. QED
  BY <1>1, <1>8, <1>9, <1>10

\* A step of a call begins with nothing to put and no inode being freed.
LEMMA Started ==
  ASSUME IInv, NEW p \in Procs, NEW point, At(p, point)
  PROVE  ~panicked /\ Idle(p) /\ pc[p] = point /\ freeing[p] = "no" /\ CacheInv
<1>1. ~panicked /\ Idle(p) /\ pc[p] = point
  BY DEF At, Idle
<1>2. QED
  BY <1>1, Own DEF IInv

\* The call returns.
LEMMA Returns ==
  ASSUME NEW p \in Procs, NEW s \in Putting, Return(p, s)
  PROVE  /\ Goto(p, "user", s) /\ Going(p, "user", s, "none", "", None, None)
         /\ Args("user", s, "none", "", None, None) /\ LockedAt("user", None, None) = None
<1>1. Args("user", s, "none", "", None, None) /\ LockedAt("user", None, None) = None
  BY DEF Args, CallOk, WithIp, WithDp, WithElem, LockedAt, Points
<1>2. QED
  BY <1>1 DEF Set, Return, Going

\* It goes on, with an inode locked and looked at, or without.
LEMMA Looking ==
  ASSUME IInv, NEW p \in Procs, NEW at, At(p, at), freeing' = freeing, NEW point, NEW s, Goto(p, point, s),
         NEW i \in Inums, Unlocked(i) \/ lock[i] = p, NEW g \in Inums \cup {None}, Look(i, g)
  PROVE  Reached(On(i, ilock(i)), g) /\ i \in DOMAIN On(i, ilock(i))
<1>1. ~panicked /\ Idle(p) /\ freeing[p] = "no" /\ \A q \in Procs \ {p} : puts'[q] = puts[q]
  BY Started, Gone
<1>2. Steady
  BY <1>1, Steadily
<1>3. QED
  BY <1>1, <1>2, LookStep

\* A step that does not even look at an inode leaves them as they are.
LEMMA Waiting ==
  ASSUME IInv, NEW p \in Procs, NEW at, At(p, at), freeing' = freeing, NEW point, NEW s, Goto(p, point, s),
         UNCHANGED <<disk, used, ref, valid, mem, panicked>>
  PROVE  Reached(Nothing, None)
<1>1. ~panicked /\ Idle(p) /\ freeing[p] = "no" /\ \A q \in Procs \ {p} : puts'[q] = puts[q]
  BY Started, Gone
<1>2. Steady
  BY <1>1, Steadily
<1>3. ref' = IF None = None THEN ref ELSE [ref EXCEPT ![None] = @ + 1]
  OBVIOUS
<1>4. None \in Inums \cup {None}
  OBVIOUS
<1>5. QED
  BY <1>1, <1>2, <1>3, <1>4, StillStep

\* One element of a path.
LEMMA nameiGood ==
  ASSUME IInv, NEW p \in Procs, namei(p)
  PROVE  Good(p)
<1>1. At(p, "namei") /\ UNCHANGED <<lock, freeing, procs>>
  BY DEF namei
<1>2. ~panicked /\ Idle(p) /\ pc[p] = "namei"
  BY <1>1, Started
<1>3. CallType /\ ip[p] \in Inums /\ dp[p] = None /\ call[p] \in PathCalls /\ elem[p] \in Elems \cup {""}
      /\ Locked(p) = None /\ DataType
  BY <1>2, Own DEF CallOk, WithIp, WithDp, Locked, LockedAt
<1>4. Kept
  BY <1>1, Own DEF Kept, procs
<1>5. \A f : LockMove(p, None, f)
  BY <1>1, <1>2, <1>3, LockMoves
<1>6. CASE Goto(p, call[p], <<>>) /\ UNCHANGED <<disk, used, ref, valid, mem, locals, panicked>>
  <2>1. Going(p, call[p], <<>>, call[p], elem[p], ip[p], None)
    BY <1>3, <1>6, Unset DEF Set, Going, locals
  <2>2. Args(call[p], <<>>, call[p], elem[p], ip[p], None) /\ LockedAt(call[p], ip[p], None) = None
    BY <1>3, Puts, Constants DEF Args, CallOk, WithIp, WithDp, WithElem, PathCalls, LockedAt, Points
  <2>3. EvenMove(p, None, ip[p], None, <<>>)
    BY <1>3, Moves
  <2>4. Reached(Nothing, None)
    BY <1>1, <1>6, Waiting
  <2>5. QED
    BY <1>2, <1>4, <1>5, <2>1, <2>2, <2>3, <2>4, Walk
<1>7. ASSUME NEW e \in Elems, Unlocked(ip[p]),
             LET d == ilock(ip[p])
                 k == dirlookup(d, e) IN
             IF d.type # "dir" \/ k = 0
             THEN Look(ip[p], None) /\ Return(p, <<ip[p]>>)
             ELSE /\ Look(ip[p], d.ents[k].inum)
                  /\ Goto(p, "namei", <<ip[p]>>)
                  /\ ip' = [ip EXCEPT ![p] = d.ents[k].inum]
                  /\ UNCHANGED <<call, elem, dp>>
      PROVE  Good(p)
  <2> DEFINE d == ilock(ip[p])
             k == dirlookup(d, e)
             g == d.ents[k].inum
  <2>1. d \in Node
    BY <1>3, IlockNode
  <2>2. k # 0 => g \in Inums
    BY <2>1, Lookup
  <2>3. CASE d.type # "dir" \/ k = 0
    <3>1. Look(ip[p], None) /\ Return(p, <<ip[p]>>) /\ <<ip[p]>> \in Putting
      BY <1>3, <1>7, <2>3, Puts
    <3>2. Reached(On(ip[p], ilock(ip[p])), None)
      BY <1>1, <1>3, <1>7, <3>1, Returns, Looking
    <3>3. EvenMove(p, None, None, None, <<ip[p]>>)
      BY <1>3, Moves
    <3>4. QED
      BY <1>2, <1>4, <1>5, <3>1, <3>2, <3>3, Returns, Walk
  <2>4. CASE ~(d.type # "dir" \/ k = 0)
    <3>1. /\ Look(ip[p], g) /\ Goto(p, "namei", <<ip[p]>>)
          /\ ip' = [ip EXCEPT ![p] = g] /\ UNCHANGED <<call, elem, dp>>
      BY <1>7, <2>4
    <3>2. g \in Inums
      BY <2>2, <2>4
    <3> HIDE DEF g
    <3>3. Reached(On(ip[p], ilock(ip[p])), g)
      BY <1>1, <1>3, <1>7, <3>1, <3>2, Looking
    <3>4. Going(p, "namei", <<ip[p]>>, call[p], elem[p], g, None)
      BY <1>3, <3>1, Unset DEF Set, Going
    <3>5. Args("namei", <<ip[p]>>, call[p], elem[p], g, None) /\ LockedAt("namei", g, None) = None
      BY <1>3, <3>2, Puts, Constants DEF Args, CallOk, WithIp, WithDp, WithElem, PathCalls, LockedAt, Points
    <3>6. EvenMove(p, g, g, None, <<ip[p]>>)
      BY <1>3, <3>2, Moves
    <3>7. QED
      BY <1>2, <1>4, <1>5, <3>3, <3>4, <3>5, <3>6, Walk
  <2>5. QED
    BY <2>3, <2>4
<1>8. QED
  BY <1>6, <1>7 DEF namei

\* One element of the path of a call that wants the parent directory.
LEMMA nameiparentGood ==
  ASSUME IInv, NEW p \in Procs, nameiparent(p)
  PROVE  Good(p)
<1>1. PICK e \in Elems, last \in BOOLEAN :
        LET d == ilock(dp[p])
            k == dirlookup(d, e) IN
        /\ At(p, "nameiparent") /\ Unlocked(dp[p])
        /\ IF d.type # "dir" \/ (~last /\ k = 0)
           THEN Look(dp[p], None) /\ NoParent(p)
           ELSE IF last
           THEN /\ Look(dp[p], None)
                /\ Goto(p, CASE call[p] = "unlink" -> "unlink" [] call[p] = "link" -> "link_new"
                           [] OTHER -> "create", <<>>)
                /\ elem' = [elem EXCEPT ![p] = e]
                /\ UNCHANGED <<call, ip, dp>>
           ELSE /\ Look(dp[p], d.ents[k].inum)
                /\ Goto(p, "nameiparent", <<dp[p]>>)
                /\ dp' = [dp EXCEPT ![p] = d.ents[k].inum]
                /\ UNCHANGED <<call, elem, ip>>
        /\ UNCHANGED <<lock, freeing, procs>>
  BY DEF nameiparent
<1>2. At(p, "nameiparent") /\ Unlocked(dp[p]) /\ lock' = lock /\ freeing' = freeing /\ UNCHANGED procs
  BY <1>1
<1>3. ~panicked /\ Idle(p) /\ pc[p] = "nameiparent"
  BY <1>2, Started
<1>4. /\ CallType /\ dp[p] \in Inums /\ elem[p] \in Elems \cup {""} /\ Locked(p) = None /\ DataType
      /\ ip[p] \in Inums \cup {None} /\ call[p] \in ParentCalls \cup {"link"}
      /\ ip[p] # None <=> call[p] = "link"
  BY <1>3, Own, Constants DEF CallOk, WithIp, WithDp, Locked, LockedAt
<1>5. Kept
  BY <1>2, Own DEF Kept, procs
<1>6. \A f : LockMove(p, None, f)
  BY <1>2, <1>3, <1>4, LockMoves
<1> DEFINE d == ilock(dp[p])
           k == dirlookup(d, e)
           g == d.ents[k].inum
<1>7. d \in Node /\ (k # 0 => g \in Inums)
  BY <1>4, IlockNode, Lookup
<1>8. CASE d.type # "dir" \/ (~last /\ k = 0)
  <2>1. Look(dp[p], None) /\ NoParent(p) /\ <<dp[p]>> \in Putting
    BY <1>1, <1>4, <1>8, Puts
  <2>2. CASE call[p] = "link"
    <3>1. /\ Goto(p, "link_bad", <<dp[p]>>) /\ dp' = [dp EXCEPT ![p] = None]
          /\ UNCHANGED <<call, elem, ip>>
      BY <2>1, <2>2 DEF NoParent
    <3>2. Reached(On(dp[p], ilock(dp[p])), None)
      BY <1>2, <1>4, <2>1, <3>1, Looking
    <3>3. Going(p, "link_bad", <<dp[p]>>, call[p], elem[p], ip[p], None)
      BY <1>4, <3>1, Unset DEF Set, Going
    <3>4. Args("link_bad", <<dp[p]>>, call[p], elem[p], ip[p], None) /\ LockedAt("link_bad", ip[p], None) = None
      BY <1>4, <2>1, <2>2, Constants DEF Args, CallOk, WithIp, WithDp, WithElem, PathCalls, LockedAt, Points
    <3>5. EvenMove(p, None, ip[p], None, <<dp[p]>>)
      BY <1>4, Moves
    <3>6. QED
      BY <1>3, <1>5, <1>6, <3>2, <3>3, <3>4, <3>5, Walk
  <2>3. CASE call[p] # "link"
    <3>1. Return(p, <<dp[p]>>) /\ ip[p] = None
      BY <1>4, <2>1, <2>3 DEF NoParent
    <3>2. Reached(On(dp[p], ilock(dp[p])), None)
      BY <1>2, <1>4, <2>1, <3>1, Returns, Looking
    <3>3. EvenMove(p, None, None, None, <<dp[p]>>)
      BY <1>4, <3>1, Moves
    <3>4. QED
      BY <1>3, <1>5, <1>6, <2>1, <3>1, <3>2, <3>3, Returns, Walk
  <2>4. QED
    BY <2>2, <2>3
<1>9. CASE ~(d.type # "dir" \/ (~last /\ k = 0)) /\ last
  <2> DEFINE point == CASE call[p] = "unlink" -> "unlink" [] call[p] = "link" -> "link_new"
                      [] OTHER -> "create"
  <2>1. /\ Look(dp[p], None) /\ Goto(p, point, <<>>)
        /\ elem' = [elem EXCEPT ![p] = e] /\ UNCHANGED <<call, ip, dp>>
    BY <1>1, <1>9
  <2>2. \/ point = "unlink" /\ call[p] = "unlink"
        \/ point = "link_new" /\ call[p] = "link"
        \/ point = "create" /\ call[p] \in Creating
    BY <1>4 DEF ParentCalls, Creating
  <2> HIDE DEF point
  <2>3. Reached(On(dp[p], ilock(dp[p])), None)
    BY <1>2, <1>4, <2>1, Looking
  <2>4. Going(p, point, <<>>, call[p], e, ip[p], dp[p])
    BY <1>4, <2>1, Unset DEF Set, Going
  <2>5. Args(point, <<>>, call[p], e, ip[p], dp[p]) /\ LockedAt(point, ip[p], dp[p]) = None
    BY <1>1, <1>4, <2>2, Puts, Constants
    DEF Args, CallOk, WithIp, WithDp, WithElem, PathCalls, ParentCalls, Creating, LockedAt, Points
  <2>6. EvenMove(p, None, ip[p], dp[p], <<>>)
    BY <1>4, Moves
  <2>7. QED
    BY <1>3, <1>5, <1>6, <2>3, <2>4, <2>5, <2>6, Walk
<1>10. CASE ~(d.type # "dir" \/ (~last /\ k = 0)) /\ ~last
  <2>1. /\ Look(dp[p], g) /\ Goto(p, "nameiparent", <<dp[p]>>)
        /\ dp' = [dp EXCEPT ![p] = g] /\ UNCHANGED <<call, elem, ip>>
    BY <1>1, <1>10
  <2>2. g \in Inums
    BY <1>7, <1>10
  <2> HIDE DEF g
  <2>3. Reached(On(dp[p], ilock(dp[p])), g)
    BY <1>2, <1>4, <2>1, <2>2, Looking
  <2>4. Going(p, "nameiparent", <<dp[p]>>, call[p], elem[p], ip[p], g)
    BY <1>4, <2>1, Unset DEF Set, Going
  <2>5. /\ Args("nameiparent", <<dp[p]>>, call[p], elem[p], ip[p], g)
        /\ LockedAt("nameiparent", ip[p], g) = None
    BY <1>4, <2>2, Puts, Constants
    DEF Args, CallOk, WithIp, WithDp, WithElem, PathCalls, ParentCalls, LockedAt, Points
  <2>6. EvenMove(p, g, ip[p], g, <<dp[p]>>)
    BY <1>4, <2>2, Moves
  <2>7. QED
    BY <1>3, <1>5, <1>6, <2>3, <2>4, <2>5, <2>6, Walk
<1>11. QED
  BY <1>8, <1>9, <1>10

\* A step of p that reads or writes inodes it has locked.
LEMMA Acting ==
  ASSUME IInv, ~panicked, NEW p \in Procs, Idle(p), freeing' = freeing,
         \A q \in Procs \ {p} : puts'[q] = puts[q],
         NEW f, NEW d, NEW g \in Inums \cup {None}, NEW assert \in BOOLEAN,
         Access(f, d, g, assert), Proper(f, d), Spread(d)
  PROVE  Reached(f, g)
<1>1. Steady
  BY Steadily
<1>2. QED
  BY <1>1, DataStep

\* It locks an inode, or has it locked, and changes it.
LEMMA Changing ==
  ASSUME IInv, ~panicked, NEW p \in Procs, Idle(p), freeing' = freeing,
         \A q \in Procs \ {p} : puts'[q] = puts[q],
         NEW i \in Inums, Unlocked(i) \/ lock[i] = p, NEW g \in Inums \cup {None}, NEW assert \in BOOLEAN,
         NEW e \in Node, e.type = ilock(i).type, Access(On(i, e), On(i, e), g, assert),
         \/ used' = used /\ BlocksOf(e) = BlocksOf(ilock(i))
         \/ More(BlocksOf(ilock(i)), used, BlocksOf(e), used')
         \/ used' = used \ BlocksOf(ilock(i)) /\ BlocksOf(e) = {}
  PROVE  Reached(On(i, e), g) /\ i \in DOMAIN On(i, e)
<1>1. DataType /\ LockInv /\ BlockInv /\ freeing[p] = "no"
  BY Own
<1>2. ~Window(i)
  BY <1>1, NoWindow
<1>3. DOMAIN On(i, e) = {i} /\ On(i, e)[i] = e
  BY Contents
<1>4. Proper(On(i, e), On(i, e))
  BY <1>2, <1>3 DEF Proper
<1>5. BlocksOf(ilock(i)) = BlocksOf(disk[i])
  BY <1>1 DEF BlockInv, Current
<1>6. Spread(On(i, e))
  <2>1. i \in DOMAIN On(i, e) /\ \A j \in DOMAIN On(i, e) \ {i} : BlocksOf(On(i, e)[j]) = BlocksOf(disk[j])
    BY <1>3
  <2>2. CASE used' = used /\ BlocksOf(e) = BlocksOf(ilock(i))
    <3>1. \A j \in DOMAIN On(i, e) : BlocksOf(On(i, e)[j]) = BlocksOf(disk[j])
      BY <1>3, <1>5, <2>2
    <3>2. QED
      BY <1>1, <2>2, <3>1, SpreadSame
  <2>3. CASE More(BlocksOf(ilock(i)), used, BlocksOf(e), used')
    <3>1. More(BlocksOf(disk[i]), used, BlocksOf(On(i, e)[i]), used')
      BY <1>3, <1>5, <2>3
    <3>2. QED
      BY <1>1, <2>1, <3>1, SpreadGrow
  <2>4. CASE used' = used \ BlocksOf(ilock(i)) /\ BlocksOf(e) = {}
    <3>1. used' = used \ BlocksOf(disk[i]) /\ BlocksOf(On(i, e)[i]) = {}
      BY <1>3, <1>5, <2>4
    <3>2. QED
      BY <1>1, <2>1, <3>1, SpreadFree
  <2>5. QED
    BY <2>2, <2>3, <2>4
<1>7. QED
  BY <1>3, <1>4, <1>6, Acting

-----------------------------------------------------------------------------
(* open() and chdir().                                                     *)

\* The current directory is exchanged.
LEMMA sys_chdirGood ==
  ASSUME IInv, NEW p \in Procs, sys_chdir(p)
  PROVE  Good(p)
<1>1. /\ At(p, "chdir") /\ Unlocked(ip[p]) /\ Look(ip[p], None)
      /\ lock' = lock /\ freeing' = freeing /\ ofile' = ofile /\ ncalls' = ncalls
  BY DEF sys_chdir
<1>2. ~panicked /\ Idle(p) /\ pc[p] = "chdir"
  BY <1>1, Started
<1>3. CallType /\ ip[p] \in Inums /\ dp[p] = None /\ Locked(p) = None /\ ProcType /\ cwd[p] \in Inums
  BY <1>2, Own, Constants DEF CallOk, WithIp, WithDp, Locked, LockedAt
<1>4. \A f : LockMove(p, None, f)
  BY <1>1, <1>2, <1>3, LockMoves
<1>5. CASE ilock(ip[p]).type # "dir"
  <2>1. Return(p, <<ip[p]>>) /\ cwd' = cwd /\ <<ip[p]>> \in Putting
    BY <1>3, <1>5, Puts DEF sys_chdir
  <2>2. Reached(On(ip[p], ilock(ip[p])), None)
    BY <1>1, <1>3, <2>1, Returns, Looking
  <2>3. EvenMove(p, None, None, None, <<ip[p]>>)
    BY <1>3, Moves
  <2>4. Kept
    BY <1>1, <2>1, Own DEF Kept
  <2>5. QED
    BY <1>2, <1>4, <2>1, <2>2, <2>3, <2>4, Returns, Walk
<1>6. CASE ilock(ip[p]).type = "dir"
  <2>1. Return(p, <<cwd[p]>>) /\ cwd' = [cwd EXCEPT ![p] = ip[p]] /\ <<cwd[p]>> \in Putting
    BY <1>3, <1>6, Puts DEF sys_chdir
  <2>2. Reached(On(ip[p], ilock(ip[p])), None)
    BY <1>1, <1>3, <2>1, Returns, Looking
  <2>3. ofile[p] \in [Fds -> OpenFileType] /\ ofile' = [ofile EXCEPT ![p] = ofile[p]] /\ ncalls' \in 0..MaxCalls
    BY <1>1, <1>3, Own DEF ProcType
  <2>4. ASSUME NEW j \in Inums
        PROVE  Even(p, j, None, None, None, ip[p], <<cwd[p]>>, ofile[p][1].ip, ofile[p][1].ip)
    BY <1>3, EvenChange
  <2>5. 1 \in Fds
    BY Constants
  <2>6. /\ Args("user", <<cwd[p]>>, "none", "", None, None) /\ LockMove(p, LockedAt("user", None, None), On(ip[p], ilock(ip[p])))
        /\ Going(p, "user", <<cwd[p]>>, "none", "", None, None)
    BY <1>4, <2>1, Returns
  <2>7. QED
    BY <1>1, <1>2, <1>3, <2>1, <2>2, <2>3, <2>4, <2>5, <2>6, Carried
<1>7. QED
  BY <1>5, <1>6

\* A call lets go of its one inode and returns.
LEMMA Refused ==
  ASSUME IInv, NEW p \in Procs, NEW at, At(p, at), NEW i \in Inums, Unlocked(i), Locked(p) = None,
         \/ ip[p] = i /\ dp[p] = None
         \/ dp[p] = i /\ ip[p] = None,
         Look(i, None), Return(p, <<i>>), UNCHANGED <<lock, freeing, procs>>
  PROVE  Good(p)
<1>1. ~panicked /\ Idle(p)
  BY Started
<1>2. \A f : LockMove(p, None, f)
  BY <1>1, LockMoves
<1>3. <<i>> \in Putting /\ freeing' = freeing
  BY Puts
<1>4. Reached(On(i, ilock(i)), None)
  BY <1>3, Returns, Looking
<1>5. EvenMove(p, None, None, None, <<i>>)
  BY Moves
<1>6. Kept
  BY Own DEF Kept, procs
<1>7. QED
  BY <1>1, <1>2, <1>3, <1>4, <1>5, <1>6, Returns, Walk

\* What a process has locked is its own, and in memory.
LEMMA Mine ==
  ASSUME IInv, NEW p \in Procs, NEW i \in Inums, Locked(p) = i
  PROVE  lock[i] = p /\ valid[i] /\ ilock(i) = mem[i]
<1>1. lock[i] = p /\ valid[i]
  BY DEF IInv, LockInv
<1>2. QED
  BY <1>1 DEF ilock

\* An inode is opened, or it is not.
LEMMA OpenFileGood ==
  ASSUME IInv, NEW p \in Procs, NEW at, At(p, at), NEW i \in Inums, ip[p] = i, dp[p] = None,
         \/ Unlocked(i) /\ Locked(p) = None
         \/ Locked(p) = i,
         NEW d, d = ilock(i), NEW modes \in SUBSET {"r", "w", "rw"}, OpenFile(p, i, d, modes)
  PROVE  Good(p)
<1>1. lock' = [lock EXCEPT ![i] = None] /\ freeing' = freeing /\ cwd' = cwd /\ ncalls' = ncalls
  BY DEF OpenFile
<1>2. ~panicked /\ Idle(p)
  BY Started
<1>3. DataType /\ CallType /\ ProcType /\ ofile[p] \in [Fds -> OpenFileType] /\ ncalls' \in 0..MaxCalls
  BY <1>1, Own
<1>4. \A f : LockMove(p, None, f)
  BY <1>1, <1>2, LockMoves
<1>5. (Unlocked(i) \/ lock[i] = p) /\ d \in Node
  BY <1>3, Mine, IlockNode
<1>6. CASE Look(i, None) /\ UNCHANGED ofile /\ Return(p, <<i>>)
  <2>1. <<i>> \in Putting
    BY Puts
  <2>2. Reached(On(i, ilock(i)), None)
    BY <1>1, <1>5, <1>6, <2>1, Returns, Looking
  <2>3. EvenMove(p, None, None, None, <<i>>)
    BY Moves
  <2>4. Kept
    BY <1>1, <1>3, <1>6 DEF Kept
  <2>5. QED
    BY <1>2, <1>4, <1>6, <2>1, <2>2, <2>3, <2>4, Returns, Walk
<1> DEFINE free == {f \in Fds : ofile[p][f].ip = None}
           x(m) == [ip |-> i, off |-> 0, mode |-> m]
<1>7. ASSUME NEW m \in modes, free # {}, NEW e, Reached(On(i, e), None),
             ofile' = [ofile EXCEPT ![p][Min(free)] = x(m)], Return(p, <<>>)
      PROVE  Good(p)
  <2> DEFINE fd == Min(free)
             o  == [ofile[p] EXCEPT ![fd] = x(m)]
  <2>1. fd \in Fds /\ ofile[p][fd].ip = None
    <3>1. free \in SUBSET Fds
      OBVIOUS
    <3>2. fd \in free
      BY <1>7, <3>1, First
    <3> HIDE DEF fd
    <3>3. QED
      BY <3>2
  <2>2. x(m) \in OpenFileType
    <3>1. 0 \in 0..MAXFILE
      BY Constants
    <3>2. QED
      BY <3>1 DEF OpenFileType
  <2> HIDE DEF fd
  <2>3. o \in [Fds -> OpenFileType] /\ o[fd].ip = i /\ \A y \in Fds \ {fd} : o[y].ip = ofile[p][y].ip
    BY <1>3, <2>1, <2>2
  <2>4. ofile' = [ofile EXCEPT ![p] = o]
    BY <1>3, <1>7, <2>1 DEF fd, ProcType
  <2> HIDE DEF o
  <2>5. \A j \in Inums : Even(p, j, None, None, None, cwd[p], <<>>, ofile[p][fd].ip, o[fd].ip)
    BY <2>1, <2>3, Own, EvenChange, ZenonT(30)
  <2>6. cwd[p] \in Inums /\ cwd' = [cwd EXCEPT ![p] = cwd[p]] /\ <<>> \in Putting
    BY <1>1, <1>3, Puts DEF ProcType
  <2>7. /\ Args("user", <<>>, "none", "", None, None) /\ LockMove(p, LockedAt("user", None, None), On(i, e))
        /\ Going(p, "user", <<>>, "none", "", None, None)
    BY <1>4, <1>7, <2>6, Returns
  <2>8. QED
    BY <1>1, <1>2, <1>3, <1>7, <2>1, <2>3, <2>4, <2>5, <2>6, <2>7, Carried
<1>8. ASSUME NEW m \in modes, NEW trunc \in BOOLEAN,
             LET e    == IF trunc /\ d.type = "file" THEN itrunc(d) ELSE d
                 gone == BlocksOf(d) \ BlocksOf(e) IN
             /\ free # {}
             /\ ofile' = [ofile EXCEPT ![p][Min(free)] = x(m)]
             /\ Access(On(i, e), IF trunc /\ d.type = "file" THEN On(i, e) ELSE Nothing, None,
                       ~FreeOfFree(used, gone))
             /\ used' = bfree(used, gone)
             /\ Return(p, <<>>)
      PROVE  Good(p)
  <2>1. \A q \in Procs \ {p} : puts'[q] = puts[q]
    BY <1>8, Gone DEF Return
  <2>2. CASE trunc /\ d.type = "file"
    <3>1. /\ itrunc(d) \in Node /\ BlocksOf(itrunc(d)) = {} /\ itrunc(d).type = d.type
      BY <1>5, Truncated
    <3>2. /\ Access(On(i, itrunc(d)), On(i, itrunc(d)), None, ~FreeOfFree(used, BlocksOf(d) \ {}))
          /\ used' = used \ BlocksOf(ilock(i))
      BY <1>8, <2>2, <3>1 DEF bfree
    <3>3. None \in Inums \cup {None} /\ (~FreeOfFree(used, BlocksOf(d) \ {})) \in BOOLEAN
      BY DEF FreeOfFree
    <3>4. Reached(On(i, itrunc(d)), None)
      BY <1>1, <1>2, <1>5, <2>1, <3>1, <3>2, <3>3, Changing
    <3>5. QED
      BY <1>7, <1>8, <3>4
  <2>3. CASE ~(trunc /\ d.type = "file")
    <3>1. Access(On(i, d), Nothing, None, ~FreeOfFree(used, BlocksOf(d) \ BlocksOf(d))) /\ used' = bfree(used, BlocksOf(d) \ BlocksOf(d))
      BY <1>8, <2>3
    <3>2. ~FreeOfFree(used, BlocksOf(d) \ BlocksOf(d)) /\ bfree(used, BlocksOf(d) \ BlocksOf(d)) = used
      BY DEF FreeOfFree, bfree
    <3> DEFINE gone == BlocksOf(d) \ BlocksOf(d)
               b    == ~FreeOfFree(used, gone)
    <3>3. Access(On(i, d), Nothing, None, b) /\ b = TRUE /\ used' = used
      BY <3>1, <3>2
    <3> HIDE DEF b
    <3>4. Look(i, None)
      BY <3>3 DEF Look
    <3>5. Goto(p, "user", <<>>)
      BY <1>8 DEF Return
    <3>6. Reached(On(i, d), None)
      BY <1>1, <1>5, <3>4, <3>5, Looking
    <3>7. QED
      BY <1>7, <1>8, <3>6
  <2>4. QED
    BY <2>2, <2>3
<1>9. QED
  <2>1. CASE Access(On(i, d), Nothing, None, TRUE) /\ UNCHANGED <<used, ofile>> /\ Return(p, <<i>>)
    BY <1>6, <2>1 DEF Look
  <2>2. QED
    BY <1>8, <2>1 DEF OpenFile

\* open() without O_CREATE.
LEMMA sys_openGood ==
  ASSUME IInv, NEW p \in Procs, sys_open(p)
  PROVE  Good(p)
<1>1. At(p, "open") /\ Unlocked(ip[p])
  BY DEF sys_open
<1>2. ~panicked /\ Idle(p) /\ pc[p] = "open"
  BY <1>1, Started
<1>3. ip[p] \in Inums /\ dp[p] = None /\ Locked(p) = None
  BY <1>2, Own, Constants DEF CallOk, WithIp, WithDp, Locked, LockedAt
<1>4. CASE OpenFile(p, ip[p], ilock(ip[p]), IF ilock(ip[p]).type = "dir" THEN {"r"} ELSE Modes)
  <2>1. (IF ilock(ip[p]).type = "dir" THEN {"r"} ELSE Modes) \in SUBSET {"r", "w", "rw"}
    BY NameAssumption
  <2>2. QED
    BY <1>1, <1>3, <1>4, <2>1, OpenFileGood
<1>5. CASE Look(ip[p], None) /\ Return(p, <<ip[p]>>) /\ UNCHANGED <<lock, freeing, procs>>
  BY <1>1, <1>2, <1>3, <1>5, Refused
<1>6. QED
  BY <1>4, <1>5 DEF sys_open

\* open() with O_CREATE, and mkdir() and mknod(), of a name that exists.
LEMMA create_foundGood ==
  ASSUME IInv, NEW p \in Procs, create_found(p)
  PROVE  Good(p)
<1>1. At(p, "create_found") /\ Unlocked(ip[p])
  BY DEF create_found
<1>2. ~panicked /\ Idle(p) /\ pc[p] = "create_found"
  BY <1>1, Started
<1>3. ip[p] \in Inums /\ dp[p] = None /\ Locked(p) = None
  BY <1>2, Own, Constants DEF CallOk, WithIp, WithDp, Locked, LockedAt
<1>4. CASE OpenFile(p, ip[p], ilock(ip[p]), Modes)
  <2>1. Modes \in SUBSET {"r", "w", "rw"}
    BY NameAssumption
  <2>2. QED
    BY <1>1, <1>3, <1>4, <2>1, OpenFileGood
<1>5. CASE Look(ip[p], None) /\ Return(p, <<ip[p]>>) /\ UNCHANGED <<lock, freeing, procs>>
  BY <1>1, <1>2, <1>3, <1>5, Refused
<1>6. QED
  BY <1>4, <1>5 DEF create_found

\* What create() has made is opened, or its call ends.
LEMMA createdGood ==
  ASSUME IInv, NEW p \in Procs, created(p)
  PROVE  Good(p)
<1>1. At(p, "created")
  BY DEF created
<1>2. ~panicked /\ Idle(p) /\ pc[p] = "created"
  BY <1>1, Started
<1>3. ip[p] \in Inums /\ dp[p] = None /\ Locked(p) = ip[p]
  BY <1>2, Own, Constants DEF CallOk, WithIp, WithDp, Locked, LockedAt
<1>4. mem[ip[p]] = ilock(ip[p]) /\ lock[ip[p]] = p
  BY <1>3, Mine
<1>5. CASE OpenFile(p, ip[p], mem[ip[p]], Modes)
  <2>1. Modes \in SUBSET {"r", "w", "rw"}
    BY NameAssumption
  <2>2. QED
    BY <1>1, <1>3, <1>4, <1>5, <2>1, OpenFileGood
<1>6. CASE /\ Look(ip[p], None) /\ Return(p, <<ip[p]>>)
           /\ lock' = [lock EXCEPT ![ip[p]] = None] /\ UNCHANGED <<freeing, procs>>
  <2>1. \A f : LockMove(p, None, f)
    BY <1>2, <1>3, <1>6, LockMoves
  <2>2. <<ip[p]>> \in Putting /\ freeing' = freeing
    BY <1>3, <1>6, Puts
  <2>3. Reached(On(ip[p], ilock(ip[p])), None)
    BY <1>1, <1>3, <1>4, <1>6, <2>2, Returns, Looking
  <2>4. EvenMove(p, None, None, None, <<ip[p]>>)
    BY <1>3, Moves
  <2>5. Kept
    BY <1>6, Own DEF Kept, procs
  <2>6. QED
    BY <1>2, <1>6, <2>1, <2>2, <2>3, <2>4, <2>5, Returns, Walk
<1>7. QED
  BY <1>5, <1>6 DEF created

-----------------------------------------------------------------------------
(* create().                                                               *)

\* A process has two inodes locked and writes both.
LEMMA Pairing ==
  ASSUME IInv, ~panicked, NEW p \in Procs, Idle(p), freeing' = freeing,
         \A q \in Procs \ {p} : puts'[q] = puts[q],
         NEW i \in Inums, NEW k \in Inums, i # k,
         Unlocked(i) \/ lock[i] = p, Unlocked(k) \/ lock[k] = p,
         NEW x \in Node, NEW y \in Node, x.type = ilock(i).type, y.type = ilock(k).type,
         Access(OnBoth(i, x, k, y), OnBoth(i, x, k, y), None, TRUE),
         NEW v, More(BlocksOf(ilock(i)), used, BlocksOf(x), v), More(BlocksOf(ilock(k)), v, BlocksOf(y), used')
  PROVE  Reached(OnBoth(i, x, k, y), None) /\ i \in DOMAIN OnBoth(i, x, k, y)
<1> DEFINE f == OnBoth(i, x, k, y)
<1>1. DataType /\ LockInv /\ BlockInv /\ freeing[p] = "no"
  BY Own
<1>2. ~Window(i) /\ ~Window(k)
  BY <1>1, NoWindow
<1>3. DOMAIN f = {i, k} /\ f[i] = x /\ f[k] = y
  BY DEF OnBoth
<1> HIDE DEF f
<1>4. Proper(f, f)
  BY <1>2, <1>3 DEF Proper
<1>5. BlocksOf(ilock(i)) = BlocksOf(disk[i]) /\ BlocksOf(ilock(k)) = BlocksOf(disk[k])
  BY <1>1 DEF BlockInv, Current
<1>6. Spread(f)
  <2>1. /\ More(BlocksOf(disk[i]), used, BlocksOf(f[i]), v)
        /\ More(BlocksOf(disk[k]), v, BlocksOf(f[k]), used')
    BY <1>3, <1>5
  <2>2. i \in DOMAIN f /\ k \in DOMAIN f /\ \A j \in DOMAIN f \ {i, k} : BlocksOf(f[j]) = BlocksOf(disk[j])
    BY <1>3
  <2>3. QED
    BY <1>1, <2>1, <2>2, SpreadTwice
<1>7. Access(f, f, None, TRUE) /\ None \in Inums \cup {None}
  BY DEF f
<1>8. Reached(f, None)
  BY <1>4, <1>6, <1>7, Acting
<1>9. QED
  BY <1>3, <1>8 DEF f

\* create() finds the name, finds no inode, or takes one.
LEMMA createGood ==
  ASSUME IInv, NEW p \in Procs, create(p)
  PROVE  Good(p)
<1> DEFINE i == dp[p]
           d == ilock(i)
           k == dirlookup(d, elem[p])
           g == d.ents[k].inum
<1>1. At(p, "create") /\ Unlocked(i) /\ freeing' = freeing /\ UNCHANGED procs
  BY DEF create
<1>2. ~panicked /\ Idle(p) /\ pc[p] = "create" /\ freeing[p] = "no" /\ CacheInv
  BY <1>1, Started
<1>3. /\ CallType /\ i \in Inums /\ ip[p] = None /\ Locked(p) = None /\ DataType /\ LockInv /\ BlockInv
      /\ call[p] \in Creating /\ elem[p] \in Elems
  BY <1>2, Own, Constants DEF CallOk, WithIp, WithDp, WithElem, Locked, LockedAt
<1>4. Kept
  BY <1>1, Own DEF Kept, procs
<1>5. d \in Node /\ (k # 0 => g \in Inums)
  BY <1>3, IlockNode, Lookup
<1>6. CASE /\ k # 0 /\ Look(i, g) /\ Goto(p, "create_found", <<i>>)
           /\ ip' = [ip EXCEPT ![p] = g] /\ dp' = [dp EXCEPT ![p] = None]
           /\ UNCHANGED <<lock, call, elem>>
  <2>1. g \in Inums
    BY <1>5, <1>6
  <2> HIDE DEF g, d
  <2>2. Reached(On(i, ilock(i)), g)
    BY <1>1, <1>3, <1>6, <2>1, Looking
  <2>3. Going(p, "create_found", <<i>>, call[p], elem[p], g, None)
    BY <1>3, <1>6, Unset DEF Set, Going
  <2>4. Args("create_found", <<i>>, call[p], elem[p], g, None) /\ LockedAt("create_found", g, None) = None
    BY <1>3, <2>1, Puts, Constants
    DEF Args, CallOk, WithIp, WithDp, WithElem, ParentCalls, Creating, LockedAt, Points
  <2>5. EvenMove(p, g, g, None, <<i>>)
    BY <1>3, <2>1, Moves
  <2>6. LockMove(p, None, On(i, ilock(i)))
    BY <1>2, <1>3, <1>6, LockMoves
  <2>7. QED
    BY <1>2, <1>4, <2>2, <2>3, <2>4, <2>5, <2>6, Walk
<1>7. CASE k = 0 /\ ialloc = None /\ Look(i, None) /\ Return(p, <<i>>) /\ UNCHANGED lock
  BY <1>1, <1>2, <1>3, <1>7, Refused
<1>8. CASE /\ k = 0 /\ ialloc # None
           /\ Access(On(i, d), On(ialloc, Blank(TypeOf(call[p]))), ialloc, d.type = "dir")
           /\ Goto(p, "create_new", <<>>)
           /\ lock' = [lock EXCEPT ![i] = p]
           /\ ip' = [ip EXCEPT ![p] = ialloc]
           /\ UNCHANGED <<used, call, elem, dp>>
  <2> DEFINE n == ialloc
             t == TypeOf(call[p])
  <2>1. n \in Inums /\ disk[n].type = "free"
    <3> DEFINE F == {j \in Inums : disk[j].type = "free"}
    <3>1. n = IF F = {} THEN None ELSE Min(F)
      BY DEF ialloc
    <3>2. F # {}
      BY <1>8, <3>1
    <3>3. F \in SUBSET Inums
      OBVIOUS
    <3>4. Min(F) \in F
      BY <3>2, <3>3, First
    <3> HIDE DEF n
    <3>5. n \in F
      BY <3>1, <3>2, <3>4
    <3>6. QED
      BY <3>5
  <2>2. t \in Kinds \ {"free"}
    BY <1>3 DEF Creating, TypeOf, Kinds
  <2>3. /\ Access(On(i, d), On(n, Blank(t)), n, d.type = "dir") /\ Goto(p, "create_new", <<>>)
        /\ lock' = [lock EXCEPT ![i] = p] /\ ip' = [ip EXCEPT ![p] = n]
        /\ UNCHANGED <<used, call, elem, dp>>
    BY <1>8
  <2> HIDE DEF n, t, d
  <2>4. /\ disk[n] = Blank("free") /\ BlocksOf(disk[n]) = {} /\ Blank(t) \in Node /\ BlocksOf(Blank(t)) = {}
    <3>1. disk[n] = Blank("free")
      BY <1>2, <2>1 DEF CacheInv
    <3>2. "free" \in Kinds
      BY DEF Kinds
    <3>3. QED
      BY <2>2, <3>1, <3>2, BlankNode
  <2>5. ~Window(i)
    BY <1>1, <1>2, <1>3, NoWindow
  <2>6. /\ DOMAIN On(i, d) = {i} /\ On(i, d)[i] = d
        /\ DOMAIN On(n, Blank(t)) = {n} /\ On(n, Blank(t))[n] = Blank(t)
    BY Contents
  <2>7. d = ilock(i)
    BY DEF d
  <2>8. i = n => NoType(i) /\ BlocksOf(d) = {}
    <3>1. SUFFICES ASSUME i = n
                   PROVE  NoType(i) /\ BlocksOf(d) = {}
      OBVIOUS
    <3>2. ilock(i) = disk[i] /\ (~NoType(i) <=> disk[i].type # "free")
      BY <1>2, <1>3, <2>5, Ilock
    <3>3. QED
      BY <2>1, <2>4, <2>7, <3>1, <3>2
  <2>9. Proper(On(i, d), On(n, Blank(t)))
    BY <1>3, <1>5, <2>1, <2>2, <2>4, <2>5, <2>6, <2>7, <2>8 DEF Proper
  <2>10. Spread(On(n, Blank(t)))
    <3>1. \A j \in DOMAIN On(n, Blank(t)) : BlocksOf(On(n, Blank(t))[j]) = BlocksOf(disk[j])
      BY <2>4, <2>6
    <3>2. QED
      BY <1>3, <2>3, <3>1, SpreadSame
  <2>11. \A q \in Procs \ {p} : puts'[q] = puts[q]
    BY <2>3, Gone
  <2>12. Reached(On(i, d), n)
    <3>1. (d.type = "dir") \in BOOLEAN /\ n \in Inums \cup {None}
      BY <2>1
    <3>2. QED
      BY <1>1, <1>2, <2>3, <2>9, <2>10, <2>11, <3>1, Acting
  <2>13. Going(p, "create_new", <<>>, call[p], elem[p], n, i)
    BY <1>3, <2>3, Unset DEF Set, Going
  <2>14. Args("create_new", <<>>, call[p], elem[p], n, i) /\ LockedAt("create_new", n, i) = i
    BY <1>3, <2>1, Puts, Constants
    DEF Args, CallOk, WithIp, WithDp, WithElem, ParentCalls, Creating, LockedAt, Points
  <2>15. EvenMove(p, n, n, i, <<>>)
    BY <1>3, <2>1, Moves
  <2>16. LockMove(p, i, On(i, d))
    <3>1. i \in DOMAIN On(i, d)
      BY <2>6
    <3>2. QED
      BY <1>1, <1>2, <1>3, <2>3, <3>1, LockMoves
  <2>17. QED
    BY <1>2, <1>4, <2>12, <2>13, <2>14, <2>15, <2>16, Walk
<1>9. QED
  BY <1>6, <1>7, <1>8 DEF create

\* An inode that has been linked to, or has not, grows by blocks that were free; its type stays.
LEMMA GrownMore ==
  ASSUME NEW d \in Node, NEW u, NEW e, NEW v, Grown(d, u, e, v), NEW n \in Int
  PROVE  /\ [e EXCEPT !.nlink = n] \in Node /\ [e EXCEPT !.nlink = n].type = d.type
         /\ More(BlocksOf(d), u, BlocksOf([e EXCEPT !.nlink = n]), v)
         /\ e \in Node /\ e.type = d.type /\ More(BlocksOf(d), u, BlocksOf(e), v)
         /\ e.nlink \in Int /\ v \in SUBSET Blocks
<1>1. e \in Node /\ e.type = d.type /\ More(BlocksOf(d), u, BlocksOf(e), v) /\ v \in SUBSET Blocks
  BY DEF Grown, More
<1>2. e.nlink \in Int
  BY <1>1, NodeParts
<1>3. QED
  BY <1>1, <1>2, WithLinks

\* The new inode and its directory.
LEMMA create_newGood ==
  ASSUME IInv, NEW p \in Procs, create_new(p)
  PROVE  Good(p)
<1> DEFINE i    == ip[p]
           k    == dp[p]
           c    == ilock(i)
           m    == mem[k]
           dir  == call[p] = "mkdir"
           new  == [c EXCEPT !.nlink = 1]
           dot  == IF dir THEN dirlink(new, ".", i, used) ELSE [ok |-> TRUE, d |-> new, used |-> used]
           dots == IF dir /\ dot.ok THEN dirlink(dot.d, "..", k, dot.used) ELSE dot
           ent  == IF dots.ok THEN dirlink(m, elem[p], i, dots.used)
                              ELSE [ok |-> FALSE, d |-> m, used |-> dots.used]
           n    == IF dir THEN ent.d.nlink + 1 ELSE ent.d.nlink
           x1   == dots.d
           y1   == [ent.d EXCEPT !.nlink = n]
           x0   == [dots.d EXCEPT !.nlink = 0]
           y0   == ent.d
<1>1. At(p, "create_new") /\ Unlocked(i) /\ freeing' = freeing /\ UNCHANGED procs /\ used' = ent.used
      /\ UNCHANGED <<call, elem>>
  BY DEF create_new
<1>2. ~panicked /\ Idle(p) /\ pc[p] = "create_new" /\ freeing[p] = "no"
  BY <1>1, Started
<1>3. /\ CallType /\ i \in Inums /\ k \in Inums /\ Locked(p) = k /\ DataType
      /\ call[p] \in Creating /\ elem[p] \in Elems
  BY <1>2, Own, Constants DEF CallOk, WithIp, WithDp, WithElem, Locked, LockedAt
<1>4. Kept
  BY <1>1, Own DEF Kept, procs
<1>5. lock[k] = p /\ m = ilock(k)
  BY <1>3, Mine
<1>6. i # k
  BY <1>1, <1>5, Constants DEF Unlocked
<1>7. c \in Node /\ m \in Node /\ used \in SUBSET Blocks /\ elem[p] \in Names \cup {".", ".."}
  <2>1. c \in Node /\ m \in Node
    BY <1>3, <1>5, IlockNode
  <2>2. used \in SUBSET Blocks /\ elem[p] \in Names \cup {".", ".."}
    BY <1>3, NameAssumption DEF DataType
  <2>3. QED
    BY <2>1, <2>2
<1>8. new \in Node /\ new.type = c.type /\ BlocksOf(new) = BlocksOf(c)
  BY <1>7, WithLinks
<1> HIDE DEF new, c, m, i, k
<1>9. dot.ok \in BOOLEAN /\ Grown(new, used, dot.d, dot.used)
  <2>1. CASE dir
    <3>1. Linked(new, ".", i, used, dirlink(new, ".", i, used))
      BY <1>3, <1>7, <1>8, Dirlink
    <3>2. QED
      BY <2>1, <3>1 DEF Linked
  <2>2. CASE ~dir
    <3>1. dot.ok = TRUE /\ dot.d = new /\ dot.used = used
      BY <2>2
    <3> HIDE DEF dot
    <3>2. QED
      BY <1>7, <1>8, <3>1, GrownSame
  <2>3. QED
    BY <2>1, <2>2
<1> HIDE DEF dot
<1>10. dot.d \in Node /\ dot.used \in SUBSET Blocks
  BY <1>9 DEF Grown
<1>11. dots.ok \in BOOLEAN /\ Grown(new, used, dots.d, dots.used)
  <2>1. CASE dir /\ dot.ok
    <3>1. Linked(dot.d, "..", k, dot.used, dirlink(dot.d, "..", k, dot.used))
      BY <1>3, <1>10, Dirlink
    <3>2. Grown(dot.d, dot.used, dots.d, dots.used) /\ dots.ok \in BOOLEAN
      BY <2>1, <3>1 DEF Linked
    <3>3. QED
      BY <1>9, <3>2, GrownTwice
  <2>2. CASE ~(dir /\ dot.ok)
    BY <1>9, <2>2
  <2>3. QED
    BY <2>1, <2>2
<1> HIDE DEF dots
<1>12. dots.d \in Node /\ dots.used \in SUBSET Blocks
  BY <1>11 DEF Grown
<1>13. ent.ok \in BOOLEAN /\ Grown(m, dots.used, ent.d, ent.used)
  <2>1. CASE dots.ok
    <3>1. Linked(m, elem[p], i, dots.used, dirlink(m, elem[p], i, dots.used))
      BY <1>3, <1>7, <1>12, Dirlink
    <3>2. QED
      BY <2>1, <3>1 DEF Linked
  <2>2. CASE ~dots.ok
    <3>1. ent.ok = FALSE /\ ent.d = m /\ ent.used = dots.used
      BY <2>2
    <3> HIDE DEF ent
    <3>2. QED
      BY <1>7, <1>12, <3>1, GrownSame
  <2>3. QED
    BY <2>1, <2>2
<1>14. /\ ent.ok =>
            /\ Access(OnBoth(i, x1, k, y1), OnBoth(i, x1, k, y1), None, TRUE)
            /\ lock' = [lock EXCEPT ![i] = p, ![k] = None]
            /\ Goto(p, "created", <<k>>)
            /\ dp' = [dp EXCEPT ![p] = None]
            /\ UNCHANGED ip
       /\ ~ent.ok =>
            /\ Access(OnBoth(i, x0, k, y0), OnBoth(i, x0, k, y0), None, TRUE)
            /\ Goto(p, "bad", <<i>>)
            /\ ip' = [ip EXCEPT ![p] = None]
            /\ UNCHANGED <<lock, dp>>
  BY DEF create_new, dots, dot, new, c, m, i, k
<1> HIDE DEF ent
<1>15. ent.d.nlink \in Int /\ n \in Int
  <2>1. ent.d.nlink \in Int
    BY <1>13, NodeParts DEF Grown
  <2>2. QED
    BY <2>1
<1> HIDE DEF n
<1>16. /\ x1 \in Node /\ x0 \in Node /\ x1.type = c.type /\ x0.type = c.type
       /\ More(BlocksOf(c), used, BlocksOf(x1), dots.used) /\ More(BlocksOf(c), used, BlocksOf(x0), dots.used)
  <2>1. 0 \in Int
    OBVIOUS
  <2>2. QED
    BY <1>8, <1>11, <2>1, GrownMore
<1>17. /\ y1 \in Node /\ y0 \in Node /\ y1.type = m.type /\ y0.type = m.type
       /\ More(BlocksOf(m), dots.used, BlocksOf(y1), ent.used)
       /\ More(BlocksOf(m), dots.used, BlocksOf(y0), ent.used)
  BY <1>7, <1>13, <1>15, GrownMore
<1> HIDE DEF x1, x0, y1, y0
<1>18. CASE ent.ok
  <2>1. \A q \in Procs \ {p} : puts'[q] = puts[q]
    BY <1>14, <1>18, Gone
  <2>2. /\ Reached(OnBoth(i, x1, k, y1), None) /\ i \in DOMAIN OnBoth(i, x1, k, y1)
    BY <1>1, <1>2, <1>3, <1>5, <1>6, <1>14, <1>16, <1>17, <1>18, <2>1, Pairing DEF c, i, k
  <2>3. Going(p, "created", <<k>>, call[p], elem[p], i, None)
    BY <1>1, <1>3, <1>14, <1>18, Unset DEF Set, Going, i, k
  <2>4. Args("created", <<k>>, call[p], elem[p], i, None) /\ LockedAt("created", i, None) = i
    BY <1>3, Puts, Constants
    DEF Args, CallOk, WithIp, WithDp, WithElem, ParentCalls, Creating, LockedAt, Points
  <2>5. EvenMove(p, None, i, None, <<k>>)
    BY <1>3, Moves DEF i, k
  <2>6. LockMove(p, i, OnBoth(i, x1, k, y1))
    BY <1>1, <1>2, <1>3, <1>6, <1>14, <1>18, <2>2, LockMoves
  <2>7. QED
    BY <1>2, <1>4, <2>2, <2>3, <2>4, <2>5, <2>6, Walk
<1>19. CASE ~ent.ok
  <2>1. \A q \in Procs \ {p} : puts'[q] = puts[q]
    BY <1>14, <1>19, Gone
  <2>2. /\ Reached(OnBoth(i, x0, k, y0), None) /\ i \in DOMAIN OnBoth(i, x0, k, y0)
    BY <1>1, <1>2, <1>3, <1>5, <1>6, <1>14, <1>16, <1>17, <1>19, <2>1, Pairing DEF c, i, k
  <2>3. Going(p, "bad", <<i>>, call[p], elem[p], None, k)
    BY <1>1, <1>3, <1>14, <1>19, Unset DEF Set, Going, i, k
  <2>4. Args("bad", <<i>>, call[p], elem[p], None, k) /\ LockedAt("bad", None, k) = k
    BY <1>3, Puts, Constants
    DEF Args, CallOk, WithIp, WithDp, WithElem, ParentCalls, Creating, LockedAt, Points
  <2>5. EvenMove(p, None, None, k, <<i>>)
    BY <1>3, Moves DEF i, k
  <2>6. LockMove(p, k, OnBoth(i, x0, k, y0))
    BY <1>2, <1>3, <1>14, <1>19, LockMoves
  <2>7. QED
    BY <1>2, <1>4, <2>2, <2>3, <2>4, <2>5, <2>6, Walk
<1>20. QED
  BY <1>13, <1>18, <1>19, SMTT(30)

\* The directory is put on the way out of create() and unlink().
LEMMA badGood ==
  ASSUME IInv, NEW p \in Procs, bad(p)
  PROVE  Good(p)
<1>1. /\ At(p, "bad") /\ lock' = [lock EXCEPT ![dp[p]] = None] /\ Return(p, <<dp[p]>>)
      /\ UNCHANGED <<disk, used, ref, valid, mem, freeing, procs, panicked>>
  BY DEF bad
<1>2. ~panicked /\ Idle(p) /\ pc[p] = "bad"
  BY <1>1, Started
<1>3. ip[p] = None /\ dp[p] \in Inums /\ Locked(p) = dp[p]
  BY <1>2, Own, Constants DEF CallOk, WithIp, WithDp, Locked, LockedAt
<1>4. Kept /\ freeing' = freeing
  BY <1>1, Own DEF Kept, procs
<1>5. LockMove(p, None, Nothing)
  BY <1>1, <1>2, <1>3, LockMoves
<1>6. <<dp[p]>> \in Putting
  BY <1>3, Puts
<1>7. Reached(Nothing, None)
  BY <1>1, <1>4, <1>6, Returns, Waiting
<1>8. EvenMove(p, None, None, None, <<dp[p]>>)
  BY <1>3, Moves
<1>9. QED
  BY <1>1, <1>2, <1>4, <1>5, <1>6, <1>7, <1>8, Returns, Walk

-----------------------------------------------------------------------------
(* link() and unlink().                                                    *)

\* The link is counted.
LEMMA sys_linkGood ==
  ASSUME IInv, NEW p \in Procs, sys_link(p)
  PROVE  Good(p)
<1> DEFINE i == ip[p]
           d == ilock(i)
           n == d.nlink + 1
           e == [d EXCEPT !.nlink = n]
<1>1. At(p, "link") /\ Unlocked(i) /\ UNCHANGED <<lock, freeing, procs>> /\ freeing' = freeing
  BY DEF sys_link
<1>2. ~panicked /\ Idle(p) /\ pc[p] = "link"
  BY <1>1, Started
<1>3. /\ CallType /\ i \in Inums /\ dp[p] = None /\ Locked(p) = None /\ DataType /\ call[p] = "link"
      /\ elem[p] \in Elems \cup {""}
  BY <1>2, Own, Constants DEF CallOk, WithIp, WithDp, Locked, LockedAt
<1>4. CASE Look(i, None) /\ Return(p, <<i>>)
  BY <1>1, <1>3, <1>4, Refused
<1>5. CASE /\ Access(On(i, e), On(i, e), None, TRUE)
           /\ Goto(p, "link_start", <<>>)
           /\ UNCHANGED <<used, locals>>
  <2>1. d \in Node /\ n \in Int
    <3>1. d \in Node /\ d.nlink \in Int
      BY <1>3, IlockNode, NodeParts
    <3>2. QED
      BY <3>1
  <2> HIDE DEF n
  <2>2. e \in Node /\ e.type = d.type /\ BlocksOf(e) = BlocksOf(d)
    BY <2>1, WithLinks
  <2> HIDE DEF e
  <2>3. \A q \in Procs \ {p} : puts'[q] = puts[q]
    BY <1>5, Gone
  <2>4. Reached(On(i, e), None)
    BY <1>1, <1>2, <1>3, <1>5, <2>2, <2>3, Changing
  <2>5. Going(p, "link_start", <<>>, call[p], elem[p], i, None)
    BY <1>3, <1>5, Unset DEF Set, Going, locals
  <2>6. Args("link_start", <<>>, call[p], elem[p], i, None) /\ LockedAt("link_start", i, None) = None
    BY <1>3, Puts, Constants DEF Args, CallOk, WithIp, WithDp, WithElem, PathCalls, LockedAt, Points
  <2>7. EvenMove(p, None, i, None, <<>>)
    BY <1>3, Moves
  <2>8. Kept
    BY <1>1, Own DEF Kept, procs
  <2>9. LockMove(p, None, On(i, e))
    BY <1>1, <1>2, <1>3, LockMoves
  <2>10. QED
    BY <1>2, <2>4, <2>5, <2>6, <2>7, <2>8, <2>9, Walk
<1>6. QED
  BY <1>4, <1>5 DEF sys_link

\* The second path begins.
LEMMA link_startGood ==
  ASSUME IInv, NEW p \in Procs, link_start(p)
  PROVE  Good(p)
<1>1. PICK i \in {ROOTINO, cwd[p]} :
        /\ At(p, "link_start") /\ StartWalk(i)
        /\ \/ Goto(p, "nameiparent", <<>>) /\ dp' = [dp EXCEPT ![p] = i]
           \/ Goto(p, "link_bad", <<i>>) /\ UNCHANGED dp
        /\ UNCHANGED <<disk, used, valid, mem, lock, call, elem, ip, freeing, procs, panicked>>
  BY DEF link_start
<1>2. ~panicked /\ Idle(p) /\ pc[p] = "link_start"
  BY <1>1, Started
<1>3. /\ CallType /\ ip[p] \in Inums /\ dp[p] = None /\ Locked(p) = None /\ call[p] = "link"
      /\ elem[p] \in Elems \cup {""} /\ cwd[p] \in Inums
  BY <1>2, Own, Constants DEF CallOk, WithIp, WithDp, Locked, LockedAt
<1>4. i \in Inums
  BY <1>3, Constants
<1>5. Kept
  BY <1>1, Own DEF Kept, procs
<1>6. \A q \in Procs \ {p} : puts'[q] = puts[q]
  BY <1>1, Gone
<1>7. Steady
  BY <1>1, <1>2, <1>6, Steadily
<1>8. Reached(Nothing, i)
  <2>1. ref' = IF i = None THEN ref ELSE [ref EXCEPT ![i] = @ + 1]
    BY <1>1, <1>4, Constants DEF StartWalk
  <2>2. QED
    BY <1>1, <1>2, <1>4, <1>7, <2>1, StillStep
<1>9. LockMove(p, None, Nothing)
  BY <1>1, <1>2, <1>3, LockMoves
<1>10. CASE Goto(p, "nameiparent", <<>>) /\ dp' = [dp EXCEPT ![p] = i]
  <2>1. Going(p, "nameiparent", <<>>, call[p], elem[p], ip[p], i)
    BY <1>1, <1>3, <1>10, Unset DEF Set, Going
  <2>2. Args("nameiparent", <<>>, call[p], elem[p], ip[p], i) /\ LockedAt("nameiparent", ip[p], i) = None
    BY <1>3, <1>4, Puts, Constants DEF Args, CallOk, WithIp, WithDp, WithElem, PathCalls, LockedAt, Points
  <2>3. EvenMove(p, i, ip[p], i, <<>>)
    BY <1>3, <1>4, Moves
  <2>4. QED
    BY <1>2, <1>5, <1>8, <1>9, <2>1, <2>2, <2>3, Walk
<1>11. CASE Goto(p, "link_bad", <<i>>) /\ UNCHANGED dp
  <2>1. Going(p, "link_bad", <<i>>, call[p], elem[p], ip[p], None)
    BY <1>1, <1>3, <1>11, Unset DEF Set, Going
  <2>2. Args("link_bad", <<i>>, call[p], elem[p], ip[p], None) /\ LockedAt("link_bad", ip[p], None) = None
    BY <1>3, <1>4, Puts, Constants DEF Args, CallOk, WithIp, WithDp, WithElem, PathCalls, LockedAt, Points
  <2>3. EvenMove(p, i, ip[p], None, <<i>>)
    BY <1>3, <1>4, Moves
  <2>4. QED
    BY <1>2, <1>5, <1>8, <1>9, <2>1, <2>2, <2>3, Walk
<1>12. QED
  BY <1>1, <1>10, <1>11

\* The entry is made, or it is not.
LEMMA link_newGood ==
  ASSUME IInv, NEW p \in Procs, link_new(p)
  PROVE  Good(p)
<1> DEFINE i == dp[p]
           d == ilock(i)
           r == dirlink(d, elem[p], ip[p], used)
<1>1. /\ At(p, "link_new") /\ Unlocked(i) /\ lock' = lock /\ freeing' = freeing /\ UNCHANGED procs
      /\ Access(On(i, r.d), On(i, r.d), None, d.type = "dir") /\ used' = r.used
  BY DEF link_new
<1>2. ~panicked /\ Idle(p) /\ pc[p] = "link_new"
  BY <1>1, Started
<1>3. /\ CallType /\ i \in Inums /\ ip[p] \in Inums /\ Locked(p) = None /\ DataType /\ call[p] = "link"
      /\ elem[p] \in Elems
  BY <1>2, Own, Constants DEF CallOk, WithIp, WithDp, WithElem, Locked, LockedAt
<1>4. Kept
  BY <1>1, Own DEF Kept, procs
<1>5. d \in Node /\ used \in SUBSET Blocks /\ elem[p] \in Names \cup {".", ".."}
  <2>1. d \in Node
    BY <1>3, IlockNode
  <2>2. used \in SUBSET Blocks /\ elem[p] \in Names \cup {".", ".."}
    BY <1>3, NameAssumption DEF DataType
  <2>3. QED
    BY <2>1, <2>2
<1>6. r.ok \in BOOLEAN /\ Grown(d, used, r.d, r.used)
  BY <1>3, <1>5, Dirlink DEF Linked
<1>7. /\ r.ok => Return(p, <<i, ip[p]>>)
      /\ ~r.ok => /\ Goto(p, "link_bad", <<i>>)
                  /\ dp' = [dp EXCEPT ![p] = None]
                  /\ UNCHANGED <<call, elem, ip>>
  BY DEF link_new
<1> HIDE DEF r
<1>8. r.d \in Node /\ r.d.type = d.type /\ More(BlocksOf(d), used, BlocksOf(r.d), r.used)
  BY <1>6 DEF Grown, More
<1>9. \A f : LockMove(p, None, f)
  BY <1>1, <1>2, <1>3, LockMoves
<1>10. <<i, ip[p]>> \in Putting /\ <<i>> \in Putting
  BY <1>3, Puts
<1>11. \A q \in Procs \ {p} : puts'[q] = puts[q]
  <2>1. r.ok => Goto(p, "user", <<i, ip[p]>>)
    BY <1>7 DEF Return
  <2>2. QED
    BY <1>6, <1>7, <2>1, Gone
<1>12. Reached(On(i, r.d), None)
  <2>1. (d.type = "dir") \in BOOLEAN /\ None \in Inums \cup {None}
    OBVIOUS
  <2>2. QED
    BY <1>1, <1>2, <1>3, <1>8, <1>11, <2>1, Changing
<1>13. CASE r.ok
  <2>1. EvenMove(p, None, None, None, <<i, ip[p]>>)
    BY <1>3, Moves
  <2>2. QED
    BY <1>2, <1>4, <1>7, <1>9, <1>10, <1>12, <1>13, <2>1, Returns, Walk
<1>14. CASE ~r.ok
  <2>1. Going(p, "link_bad", <<i>>, call[p], elem[p], ip[p], None)
    BY <1>3, <1>7, <1>14, Unset DEF Set, Going
  <2>2. Args("link_bad", <<i>>, call[p], elem[p], ip[p], None) /\ LockedAt("link_bad", ip[p], None) = None
    BY <1>3, <1>10, Constants DEF Args, CallOk, WithIp, WithDp, WithElem, PathCalls, LockedAt, Points
  <2>3. EvenMove(p, None, ip[p], None, <<i>>)
    BY <1>3, Moves
  <2>4. QED
    BY <1>2, <1>4, <1>9, <1>12, <2>1, <2>2, <2>3, Walk
<1>15. QED
  BY <1>6, <1>13, <1>14

\* The link is taken back.
LEMMA link_badGood ==
  ASSUME IInv, NEW p \in Procs, link_bad(p)
  PROVE  Good(p)
<1> DEFINE i == ip[p]
           d == ilock(i)
           n == d.nlink - 1
           e == [d EXCEPT !.nlink = n]
<1>1. /\ At(p, "link_bad") /\ Unlocked(i) /\ lock' = lock /\ freeing' = freeing /\ UNCHANGED procs
      /\ Access(On(i, e), On(i, e), None, TRUE) /\ used' = used /\ Return(p, <<i>>)
  BY DEF link_bad
<1>2. ~panicked /\ Idle(p) /\ pc[p] = "link_bad"
  BY <1>1, Started
<1>3. i \in Inums /\ dp[p] = None /\ Locked(p) = None /\ DataType
  BY <1>2, Own, Constants DEF CallOk, WithIp, WithDp, Locked, LockedAt
<1>4. d \in Node /\ n \in Int
  <2>1. d \in Node /\ d.nlink \in Int
    BY <1>3, IlockNode, NodeParts
  <2>2. QED
    BY <2>1
<1> HIDE DEF n
<1>5. e \in Node /\ e.type = d.type /\ BlocksOf(e) = BlocksOf(d)
  BY <1>4, WithLinks
<1> HIDE DEF e
<1>6. \A q \in Procs \ {p} : puts'[q] = puts[q]
  BY <1>1, Gone DEF Return
<1>7. Reached(On(i, e), None)
  BY <1>1, <1>2, <1>3, <1>5, <1>6, Changing
<1>8. EvenMove(p, None, None, None, <<i>>) /\ <<i>> \in Putting
  BY <1>3, Moves, Puts
<1>9. Kept
  BY <1>1, Own DEF Kept, procs
<1>10. LockMove(p, None, On(i, e))
  BY <1>1, <1>2, <1>3, LockMoves
<1>11. QED
  BY <1>1, <1>2, <1>7, <1>8, <1>9, <1>10, Returns, Walk

\* unlink() finds the name, or it does not.
LEMMA sys_unlinkGood ==
  ASSUME IInv, NEW p \in Procs, sys_unlink(p)
  PROVE  Good(p)
<1> DEFINE i == dp[p]
           d == ilock(i)
           k == dirlookup(d, elem[p])
           g == d.ents[k].inum
<1>1. At(p, "unlink") /\ Unlocked(i) /\ freeing' = freeing /\ UNCHANGED <<freeing, procs>>
  BY DEF sys_unlink
<1>2. ~panicked /\ Idle(p) /\ pc[p] = "unlink"
  BY <1>1, Started
<1>3. /\ CallType /\ i \in Inums /\ ip[p] = None /\ Locked(p) = None /\ DataType
      /\ elem[p] \in Elems
  BY <1>2, Own, Constants DEF CallOk, WithIp, WithDp, WithElem, Locked, LockedAt
<1>4. Kept
  BY <1>1, Own DEF Kept, procs
<1>5. d \in Node /\ (k # 0 => g \in Inums)
  BY <1>3, IlockNode, Lookup
<1>6. CASE Look(i, None) /\ Return(p, <<i>>) /\ UNCHANGED lock
  BY <1>1, <1>2, <1>3, <1>6, Refused
<1>7. CASE /\ k # 0 /\ Look(i, g)
           /\ Goto(p, "unlink_ip", <<>>)
           /\ lock' = [lock EXCEPT ![i] = p]
           /\ ip' = [ip EXCEPT ![p] = g]
           /\ UNCHANGED <<call, elem, dp>>
  <2>1. g \in Inums
    BY <1>5, <1>7
  <2> HIDE DEF g, d
  <2>2. Reached(On(i, ilock(i)), g) /\ i \in DOMAIN On(i, ilock(i))
    BY <1>1, <1>3, <1>7, <2>1, Looking
  <2>3. Going(p, "unlink_ip", <<>>, call[p], elem[p], g, i)
    BY <1>3, <1>7, Unset DEF Set, Going
  <2>4. Args("unlink_ip", <<>>, call[p], elem[p], g, i) /\ LockedAt("unlink_ip", g, i) = i
    BY <1>3, <2>1, Own, Puts, Constants
    DEF Args, CallOk, WithIp, WithDp, WithElem, LockedAt, Points
  <2>5. EvenMove(p, g, g, i, <<>>)
    BY <1>3, <2>1, Moves
  <2>6. LockMove(p, i, On(i, ilock(i)))
    BY <1>1, <1>2, <1>3, <1>7, <2>2, LockMoves
  <2>7. QED
    BY <1>2, <1>4, <2>2, <2>3, <2>4, <2>5, <2>6, Walk
<1>8. QED
  BY <1>6, <1>7 DEF sys_unlink

\* An entry is emptied.
LEMMA Cleared ==
  ASSUME NEW d \in Node, NEW k, NEW n \in Int
  PROVE  /\ [d EXCEPT !.ents[k] = Empty, !.nlink = n] \in Node
         /\ [d EXCEPT !.ents[k] = Empty, !.nlink = n].type = d.type
         /\ BlocksOf([d EXCEPT !.ents[k] = Empty, !.nlink = n]) = BlocksOf(d)
<1> DEFINE s == [d.ents EXCEPT ![k] = Empty]
           e == [d EXCEPT !.ents = s]
<1>1. d.ents \in Seq(Entry) /\ Len(d.ents) <= DirSlots * MAXFILE /\ Len(d.ents) \in Nat
  BY NodeParts
<1>2. Empty \in Entry
  BY DEF Empty, Entry
<1>3. s \in Seq(Entry) /\ Len(s) = Len(d.ents)
  <2> DEFINE t == d.ents
             m == Len(t)
  <2>1. t \in [1..m -> Entry] /\ m \in Nat
    BY <1>1
  <2>2. CASE k \in 1..m
    <3>1. k \in 1..(m + 1) /\ ~(k > m)
      BY <2>1, <2>2
    <3>2. s = IF k > m THEN Append(t, Empty) ELSE [t EXCEPT ![k] = Empty]
      BY <3>1
    <3>3. s \in Seq(Entry) /\ Placed(t, s, k, Empty)
      <4> HIDE DEF s, t
      <4>1. t \in Seq(Entry) /\ m = Len(t)
        BY <1>1 DEF t
      <4>2. QED
        BY <1>2, <3>1, <3>2, <4>1, Place
    <3>4. QED
      BY <3>1, <3>3 DEF Placed
  <2>3. CASE k \notin 1..m
    <3> HIDE DEF m, t
    <3>1. [t EXCEPT ![k] = Empty] = t
      BY <2>1, <2>3
    <3>2. QED
      BY <1>1, <3>1 DEF t
  <2>4. QED
    BY <2>2, <2>3
<1> HIDE DEF s
<1>4. e \in Node /\ e.type = d.type /\ BlocksOf(e) = BlocksOf(d)
  BY <1>1, <1>3, WithEntries
<1>5. [e EXCEPT !.nlink = n] = [d EXCEPT !.ents[k] = Empty, !.nlink = n]
  BY DEF Node, s
<1> HIDE DEF e
<1>6. QED
  BY <1>4, <1>5, WithLinks

\* The entry is cleared, unless it is that of a directory with entries.
LEMMA unlink_ipGood ==
  ASSUME IInv, NEW p \in Procs, unlink_ip(p)
  PROVE  Good(p)
<1> DEFINE i == ip[p]
           c == ilock(i)
           h == dp[p]
           d == mem[h]
           k == dirlookup(d, elem[p])
           n == IF c.type = "dir" THEN d.nlink - 1 ELSE d.nlink
           e == [d EXCEPT !.ents[k] = Empty, !.nlink = n]
           ok == c.nlink > 0
<1>1. /\ At(p, "unlink_ip") /\ Unlocked(i) /\ freeing' = freeing /\ UNCHANGED procs /\ used' = used
      /\ UNCHANGED <<call, elem>>
  BY DEF unlink_ip
<1>2. ~panicked /\ Idle(p) /\ pc[p] = "unlink_ip" /\ freeing[p] = "no"
  BY <1>1, Started
<1>3. /\ CallType /\ i \in Inums /\ h \in Inums /\ Locked(p) = h /\ DataType /\ LockInv /\ BlockInv
      /\ elem[p] \in Elems
  BY <1>2, Own, Constants DEF CallOk, WithIp, WithDp, WithElem, Locked, LockedAt
<1>4. Kept
  BY <1>1, Own DEF Kept, procs
<1>5. lock[h] = p /\ d = ilock(h)
  BY <1>3, Mine
<1>6. i # h
  BY <1>1, <1>5, Constants DEF Unlocked
<1>7. c \in Node /\ d \in Node /\ n \in Int
  <2>1. c \in Node /\ d \in Node
    BY <1>3, <1>5, IlockNode
  <2>2. d.nlink \in Int
    BY <2>1, NodeParts
  <2>3. QED
    BY <2>1, <2>2
<1>8. ~Window(i) /\ ~Window(h)
  <2>1. ~Window(i)
    BY <1>1, <1>2, <1>3, NoWindow
  <2>2. ~Window(h)
    BY <1>2, <1>3, <1>5, NoWindow
  <2>3. QED
    BY <2>1, <2>2
<1>9. \/ /\ Access(On(i, c), Nothing, None, ok)
         /\ Goto(p, "bad", <<i>>)
         /\ ip' = [ip EXCEPT ![p] = None]
         /\ UNCHANGED <<lock, dp>>
      \/ /\ Access(OnBoth(i, c, h, e), On(h, e), None, ok)
         /\ lock' = [lock EXCEPT ![i] = p, ![h] = None]
         /\ Goto(p, "unlinked", <<h>>)
         /\ dp' = [dp EXCEPT ![p] = None]
         /\ UNCHANGED ip
  BY DEF unlink_ip
<1>10. \A q \in Procs \ {p} : puts'[q] = puts[q]
  BY <1>9, Gone
<1> HIDE DEF n
<1>11. e \in Node /\ e.type = d.type /\ BlocksOf(e) = BlocksOf(d)
  BY <1>7, Cleared
<1>12. ok \in BOOLEAN
  OBVIOUS
<1> HIDE DEF e, ok
<1>13. CASE /\ Access(On(i, c), Nothing, None, ok)
            /\ Goto(p, "bad", <<i>>)
            /\ ip' = [ip EXCEPT ![p] = None]
            /\ UNCHANGED <<lock, dp>>
  <2>1. DOMAIN On(i, c) = {i} /\ On(i, c)[i] = c /\ DOMAIN Nothing = {}
    BY Contents
  <2>2. Proper(On(i, c), Nothing)
    BY <1>3, <1>7, <1>8, <2>1 DEF Proper
  <2>3. Spread(Nothing)
    BY <1>1, <1>3, <2>1, SpreadSame
  <2>4. Reached(On(i, c), None)
    BY <1>1, <1>2, <1>10, <1>12, <1>13, <2>2, <2>3, Acting
  <2>5. Going(p, "bad", <<i>>, call[p], elem[p], None, h)
    BY <1>1, <1>3, <1>13, Unset DEF Set, Going
  <2>6. Args("bad", <<i>>, call[p], elem[p], None, h) /\ LockedAt("bad", None, h) = h
    BY <1>3, Own, Puts, Constants
    DEF Args, CallOk, WithIp, WithDp, WithElem, LockedAt, Points
  <2>7. EvenMove(p, None, None, h, <<i>>)
    BY <1>3, Moves
  <2>8. LockMove(p, h, On(i, c))
    BY <1>2, <1>3, <1>13, LockMoves
  <2>9. QED
    BY <1>2, <1>4, <2>4, <2>5, <2>6, <2>7, <2>8, Walk
<1>14. CASE /\ Access(OnBoth(i, c, h, e), On(h, e), None, ok)
            /\ lock' = [lock EXCEPT ![i] = p, ![h] = None]
            /\ Goto(p, "unlinked", <<h>>)
            /\ dp' = [dp EXCEPT ![p] = None]
            /\ UNCHANGED ip
  <2> DEFINE f == OnBoth(i, c, h, e)
             w == On(h, e)
  <2>1. DOMAIN f = {i, h} /\ f[i] = c /\ f[h] = e /\ DOMAIN w = {h} /\ w[h] = e
    BY <1>6 DEF OnBoth, On
  <2>2. Access(f, w, None, ok)
    BY <1>14
  <2> HIDE DEF f, w
  <2>3. Proper(f, w)
    BY <1>3, <1>5, <1>6, <1>7, <1>8, <1>11, <2>1 DEF Proper
  <2>4. Spread(w)
    <3>1. BlocksOf(e) = BlocksOf(disk[h])
      BY <1>3, <1>5, <1>11 DEF BlockInv, Current
    <3>2. \A j \in DOMAIN w : BlocksOf(w[j]) = BlocksOf(disk[j])
      BY <2>1, <3>1
    <3>3. QED
      BY <1>1, <1>3, <3>2, SpreadSame
  <2>5. Reached(f, None)
    BY <1>1, <1>2, <1>10, <1>12, <2>2, <2>3, <2>4, Acting
  <2>6. Going(p, "unlinked", <<h>>, call[p], elem[p], i, None)
    BY <1>1, <1>3, <1>14, Unset DEF Set, Going
  <2>7. Args("unlinked", <<h>>, call[p], elem[p], i, None) /\ LockedAt("unlinked", i, None) = i
    BY <1>3, Own, Puts, Constants
    DEF Args, CallOk, WithIp, WithDp, WithElem, LockedAt, Points
  <2>8. EvenMove(p, None, i, None, <<h>>)
    BY <1>3, Moves
  <2>9. LockMove(p, i, f)
    BY <1>1, <1>2, <1>3, <1>6, <1>14, <2>1, LockMoves
  <2>10. QED
    BY <1>2, <1>4, <2>5, <2>6, <2>7, <2>8, <2>9, Walk
<1>15. QED
  BY <1>9, <1>13, <1>14

\* The link goes.
LEMMA unlinkedGood ==
  ASSUME IInv, NEW p \in Procs, unlinked(p)
  PROVE  Good(p)
<1> DEFINE i == ip[p]
           d == mem[i]
           n == d.nlink - 1
           e == [d EXCEPT !.nlink = n]
<1>1. /\ At(p, "unlinked") /\ lock' = [lock EXCEPT ![i] = None] /\ freeing' = freeing /\ UNCHANGED procs
      /\ Access(On(i, e), On(i, e), None, TRUE) /\ used' = used /\ Return(p, <<i>>)
  BY DEF unlinked
<1>2. ~panicked /\ Idle(p) /\ pc[p] = "unlinked"
  BY <1>1, Started
<1>3. i \in Inums /\ dp[p] = None /\ Locked(p) = i /\ DataType
  BY <1>2, Own, Constants DEF CallOk, WithIp, WithDp, Locked, LockedAt
<1>4. lock[i] = p /\ d = ilock(i)
  BY <1>3, Mine
<1>5. d \in Node /\ n \in Int
  <2>1. d \in Node /\ d.nlink \in Int
    BY <1>3, <1>4, IlockNode, NodeParts
  <2>2. QED
    BY <2>1
<1> HIDE DEF n
<1>6. e \in Node /\ e.type = d.type /\ BlocksOf(e) = BlocksOf(d)
  BY <1>5, WithLinks
<1> HIDE DEF e
<1>7. \A q \in Procs \ {p} : puts'[q] = puts[q]
  BY <1>1, Gone DEF Return
<1>8. Reached(On(i, e), None)
  BY <1>1, <1>2, <1>3, <1>4, <1>6, <1>7, Changing
<1>9. EvenMove(p, None, None, None, <<i>>) /\ <<i>> \in Putting
  BY <1>3, Moves, Puts
<1>10. Kept
  BY <1>1, Own DEF Kept, procs
<1>11. LockMove(p, None, On(i, e))
  BY <1>1, <1>2, <1>3, LockMoves
<1>12. QED
  BY <1>1, <1>2, <1>8, <1>9, <1>10, <1>11, Returns, Walk

-----------------------------------------------------------------------------
(* Open files, and iput().                                                 *)

\* A process between its calls.
LEMMA Between ==
  ASSUME IInv, NEW p \in Procs, Enter(p)
  PROVE  /\ ~panicked /\ Idle(p) /\ pc[p] = "user" /\ freeing[p] = "no" /\ ncalls' \in 0..MaxCalls
         /\ ip[p] = None /\ dp[p] = None /\ Locked(p) = None
         /\ \A s \in Putting : Args("user", s, call[p], elem[p], None, None)
         /\ LockedAt("user", None, None) = None
         /\ UNCHANGED locals => Set(p, call[p], elem[p], None, None)
<1>1. ~panicked /\ Idle(p) /\ pc[p] = "user" /\ freeing[p] = "no" /\ ncalls' \in 0..MaxCalls
  BY Entered, Own
<1>2. /\ CallType /\ ip[p] = None /\ dp[p] = None /\ Locked(p) = None
      /\ call[p] \in ParentCalls \cup PathCalls \cup {"none"} /\ elem[p] \in Elems \cup {""}
  BY <1>1, Own, Constants DEF CallOk, WithIp, WithDp, Locked, LockedAt
<1>3. \A s \in Putting : Args("user", s, call[p], elem[p], None, None)
  BY <1>2 DEF Args, CallOk, WithIp, WithDp, WithElem, Points
<1>4. LockedAt("user", None, None) = None
  BY DEF LockedAt
<1>5. UNCHANGED locals => Set(p, call[p], elem[p], None, None)
  BY <1>2, Unset DEF Set, locals
<1>6. QED
  BY <1>1, <1>2, <1>3, <1>4, <1>5

\* An inode is locked and looked at, and nothing else.
LEMMA Peeking ==
  ASSUME IInv, NEW p \in Procs, Enter(p), puts' = puts, freeing' = freeing,
         NEW i \in Inums, Unlocked(i), Look(i, None)
  PROVE  Reached(On(i, ilock(i)), None)
<1>1. ~panicked /\ Idle(p) /\ freeing[p] = "no"
  BY Entered, Own
<1>2. Steady
  BY <1>1, Steadily
<1>3. QED
  BY <1>1, <1>2, LookStep

\* A file is used, and stays open.
LEMMA Using ==
  ASSUME IInv, NEW p \in Procs, Enter(p), UNCHANGED <<lock, pc, locals, puts, freeing, cwd>>,
         NEW o \in [Fds -> OpenFileType], ofile' = [ofile EXCEPT ![p] = o],
         \A e \in Fds : o[e].ip = ofile[p][e].ip, NEW h, Reached(h, None)
  PROVE  Good(p)
<1>1. ~panicked /\ Idle(p) /\ pc[p] = "user" /\ ncalls' \in 0..MaxCalls /\ ip[p] = None /\ dp[p] = None
      /\ Locked(p) = None
  BY Between
<1>2. CallType /\ ProcType /\ <<>> \in Putting /\ 1 \in Fds
  BY Own, Puts, Constants
<1>3. Goto(p, "user", <<>>)
  BY <1>1, <1>2 DEF Goto, Idle, CallType
<1>4. Going(p, "user", <<>>, call[p], elem[p], None, None)
  BY <1>3, Between DEF Going
<1>5. Args("user", <<>>, call[p], elem[p], None, None) /\ LockedAt("user", None, None) = None
  BY <1>2, Between
<1>6. LockMove(p, LockedAt("user", None, None), h)
  BY <1>1, <1>5, LockMoves
<1>7. cwd[p] \in Inums /\ cwd' = [cwd EXCEPT ![p] = cwd[p]] /\ freeing' = freeing
  BY <1>2 DEF ProcType
<1>8. EvenMove(p, None, None, None, <<>>)
  BY <1>1, Own, Moves
<1>9. \A j \in Inums : Even(p, j, None, None, None, cwd[p], <<>>, ofile[p][1].ip, o[1].ip)
  BY <1>2, <1>8, EvenWalk DEF EvenMove
<1>10. \A e \in Fds \ {1} : o[e].ip = ofile[p][e].ip
  OBVIOUS
<1>11. ~panicked /\ Idle(p) /\ ncalls' \in 0..MaxCalls /\ 1 \in Fds
  BY <1>1, <1>2
<1>12. QED
  BY <1>4, <1>5, <1>6, <1>7, <1>10, <1>9, <1>11, Carried

\* A file moves on by n blocks.
LEMMA Moving ==
  ASSUME IInv, NEW p \in Procs, Enter(p), UNCHANGED <<lock, pc, locals, puts, freeing, cwd>>,
         NEW f \in Fds, NEW n, ofile[p][f].off + n \in 0..MAXFILE,
         ofile' = [ofile EXCEPT ![p][f].off = @ + n], NEW h, Reached(h, None)
  PROVE  Good(p)
<1> DEFINE x == ofile[p][f]
           k == x.off + n
           y == [x EXCEPT !.off = k]
           o == [ofile[p] EXCEPT ![f] = y]
<1>1. ofile \in [Procs -> [Fds -> OpenFileType]] /\ ofile[p] \in [Fds -> OpenFileType] /\ x \in OpenFileType
  BY Own DEF ProcType
<1>2. ofile' = [ofile EXCEPT ![p] = o]
  BY <1>1
<1> HIDE DEF k
<1>3. y \in OpenFileType /\ y.ip = x.ip
  BY <1>1 DEF OpenFileType, k
<1> HIDE DEF y
<1>4. o \in [Fds -> OpenFileType] /\ \A e \in Fds : o[e].ip = ofile[p][e].ip
  BY <1>1, <1>3
<1> HIDE DEF o
<1>5. QED
  BY <1>2, <1>4, Using

\* A file is closed.
LEMMA sys_closeGood ==
  ASSUME IInv, NEW p \in Procs, NEW f \in Fds, sys_close(p, f)
  PROVE  Good(p)
<1> DEFINE i == ofile[p][f].ip
           o == [ofile[p] EXCEPT ![f] = Closed]
<1>1. /\ Enter(p) /\ i # None /\ ofile' = [ofile EXCEPT ![p][f] = Closed] /\ puts' = [puts EXCEPT ![p] = <<i>>]
      /\ UNCHANGED <<disk, used, ref, valid, mem, lock, pc, locals, freeing, cwd, panicked>>
  BY DEF sys_close, File
<1>2. ~panicked /\ Idle(p) /\ pc[p] = "user" /\ ncalls' \in 0..MaxCalls /\ ip[p] = None /\ dp[p] = None
      /\ Locked(p) = None
  BY <1>1, Between
<1>3. CallType /\ ProcType /\ ofile[p] \in [Fds -> OpenFileType]
  BY Own
<1>4. i \in Inums /\ Closed \in OpenFileType /\ Closed.ip = None
  <2>1. ofile[p][f] \in OpenFileType /\ 0 \in 0..MAXFILE
    BY <1>3, Constants
  <2>2. QED
    BY <1>1, <2>1 DEF OpenFileType, Closed
<1>5. Goto(p, "user", <<i>>) /\ <<i>> \in Putting
  <2>1. pc' = pc /\ puts' = [puts EXCEPT ![p] = <<i>>]
    BY <1>1
  <2>2. pc = [pc EXCEPT ![p] = "user"]
    BY <1>2, <1>3 DEF CallType
  <2>3. <<i>> \in Putting
    BY <1>4, Puts
  <2>4. QED
    BY <2>1, <2>2, <2>3 DEF Goto
<1>6. Going(p, "user", <<i>>, call[p], elem[p], None, None)
  BY <1>1, <1>5, Between DEF Going
<1>7. Args("user", <<i>>, call[p], elem[p], None, None) /\ LockedAt("user", None, None) = None
  BY <1>1, <1>5, Between
<1>8. LockMove(p, LockedAt("user", None, None), Nothing)
  BY <1>1, <1>2, <1>7, LockMoves
<1>9. cwd[p] \in Inums /\ cwd' = [cwd EXCEPT ![p] = cwd[p]] /\ freeing' = freeing
  BY <1>1, <1>3 DEF ProcType
<1>10. ofile' = [ofile EXCEPT ![p] = o]
  BY <1>1, <1>3 DEF ProcType
<1>11. o \in [Fds -> OpenFileType] /\ o[f].ip = None /\ \A e \in Fds \ {f} : o[e].ip = ofile[p][e].ip
  BY <1>3, <1>4
<1> HIDE DEF o
<1>12. Reached(Nothing, None)
  <2>1. At(p, "user")
    BY <1>1 DEF Enter
  <2>2. QED
    BY <1>1, <1>5, <1>9, <2>1, Waiting
<1>13. \A j \in Inums : Even(p, j, None, None, None, cwd[p], <<i>>, i, o[f].ip)
  BY <1>2, <1>4, <1>9, <1>11, EvenClose
<1>14. ~panicked /\ Idle(p) /\ ncalls' \in 0..MaxCalls
  BY <1>2
<1>15. QED
  BY <1>6, <1>7, <1>8, <1>9, <1>10, <1>11, <1>12, <1>13, <1>14, Carried

\* One block of a file is read.
LEMMA filereadGood ==
  ASSUME IInv, NEW p \in Procs, NEW f \in Fds, fileread(p, f)
  PROVE  Good(p)
<1> DEFINE x == ofile[p][f]
           i == x.ip
           d == ilock(i)
<1>1. /\ Enter(p) /\ i # None /\ Unlocked(i) /\ Look(i, None)
      /\ UNCHANGED <<lock, pc, locals, puts, freeing, cwd>>
  BY DEF fileread, File
<1>2. PICK n \in {0, readi(d, x.off)} : ofile' = [ofile EXCEPT ![p][f].off = @ + n]
  BY DEF fileread, File
<1>3. i \in Inums /\ x.off \in 0..MAXFILE /\ DataType
  BY <1>1, Own DEF OpenFileType
<1>4. d \in Node
  BY <1>3, IlockNode
<1>5. Size(d) \in 0..MAXFILE
  <2>1. d.size \in 0..MAXFILE /\ Len(d.ents) \in Nat /\ Len(d.ents) <= DirSlots * MAXFILE
    BY <1>4, NodeParts
  <2>2. (Len(d.ents) + DirSlots - 1) \div DirSlots \in 0..MAXFILE
    BY <2>1, Slots
  <2>3. QED
    BY <2>1, <2>2 DEF Size
<1>6. x.off + n \in 0..MAXFILE
  <2> DEFINE b == Size(d)
             k == x.off
  <2>1. n = 0 \/ (n = 1 /\ k < b)
    BY DEF readi
  <2>2. b \in 0..MAXFILE /\ k \in 0..MAXFILE /\ MAXFILE \in Nat
    BY <1>3, <1>5, Constants
  <2> HIDE DEF b, k
  <2>3. k + n \in 0..MAXFILE
    BY <2>1, <2>2
  <2>4. QED
    BY <2>3 DEF k
<1>7. Reached(On(i, d), None)
  BY <1>1, <1>3, Peeking
<1> HIDE DEF d
<1>8. QED
  BY <1>1, <1>2, <1>6, <1>7, Moving

\* Its inode is looked at.
LEMMA filestatGood ==
  ASSUME IInv, NEW p \in Procs, NEW f \in Fds, filestat(p, f)
  PROVE  Good(p)
<1> DEFINE i == ofile[p][f].ip
<1>1. /\ Enter(p) /\ i # None /\ Unlocked(i) /\ Look(i, None)
      /\ UNCHANGED <<lock, pc, locals, puts, freeing, cwd>> /\ ofile' = ofile
  BY DEF filestat, File
<1>2. i \in Inums /\ ofile[p] \in [Fds -> OpenFileType] /\ ofile' = [ofile EXCEPT ![p] = ofile[p]]
  BY <1>1, Own, ZenonT(30) DEF OpenFileType, ProcType
<1>3. Reached(On(i, ilock(i)), None)
  BY <1>1, <1>2, Peeking
<1>4. QED
  BY <1>1, <1>2, <1>3, Using

\* One block of a file is written.
LEMMA filewriteGood ==
  ASSUME IInv, NEW p \in Procs, NEW f \in Fds, filewrite(p, f)
  PROVE  Good(p)
<1> DEFINE x == ofile[p][f]
           i == x.ip
           d == ilock(i)
<1>1. PICK copied \in BOOLEAN :
        LET r == writei(d, x.off, used, copied) IN
        /\ Enter(p) /\ i # None /\ Unlocked(i)
        /\ Access(On(i, r.d), On(i, r.d), None, TRUE)
        /\ used' = r.used
        /\ ofile' = [ofile EXCEPT ![p][f].off = @ + r.n]
        /\ UNCHANGED <<lock, pc, locals, puts, freeing, cwd>>
  BY DEF filewrite, File
<1> DEFINE r == writei(d, x.off, used, copied)
<1>2. /\ Enter(p) /\ i # None /\ Unlocked(i) /\ Access(On(i, r.d), On(i, r.d), None, TRUE) /\ used' = r.used
      /\ ofile' = [ofile EXCEPT ![p][f].off = @ + r.n]
      /\ UNCHANGED <<lock, pc, locals, puts, freeing, cwd>>
  BY <1>1
<1>3. i \in Inums /\ x.off \in 0..MAXFILE /\ DataType
  BY <1>2, Own DEF OpenFileType
<1>4. d \in Node /\ used \in SUBSET Blocks
  BY <1>3, IlockNode DEF DataType
<1>5. Grown(d, used, r.d, r.used) /\ x.off + r.n \in 0..MAXFILE
  BY <1>3, <1>4, Written
<1> HIDE DEF r
<1>6. r.d \in Node /\ r.d.type = d.type /\ More(BlocksOf(d), used, BlocksOf(r.d), r.used)
  BY <1>5 DEF Grown, More
<1>7. ~panicked /\ Idle(p) /\ \A q \in Procs \ {p} : puts'[q] = puts[q]
  BY <1>2, Between
<1>8. Reached(On(i, r.d), None)
  BY <1>2, <1>3, <1>6, <1>7, Changing
<1>9. QED
  BY <1>2, <1>5, <1>8, Moving

\* A process that puts an inode: what it knows of it.
LEMMA Putter ==
  ASSUME IInv, NEW p \in Procs, puts[p] # <<>>, NEW i, i = Head(puts[p])
  PROVE  /\ i \in Inums /\ ref[i] \in Nat /\ ref[i] >= 1
         /\ PutAt(puts[p], 1) = i /\ PutAt(Tail(puts[p]), 1) = PutAt(puts[p], 2) /\ PutAt(Tail(puts[p]), 2) = None
         /\ Tail(puts[p]) \in Putting
         /\ freeing[p] \in {"trunc", "unlock"} => Freed(p) = i /\ lock[i] = p /\ valid[i] /\ i # Locked(p)
         /\ freeing[p] \in {"no", "drop"} => Freed(p) = None
<1>1. TypeInv /\ RefsExact /\ LockInv /\ puts[p] \in Putting /\ freeing[p] \in {"no", "trunc", "unlock", "drop"}
  BY Own DEF IInv, RefInv, ProcType
<1>2. i \in Inums /\ ref[i] \in Nat /\ ref[i] >= 1
  BY <1>1, LastRef
<1>3. /\ PutAt(puts[p], 1) = i /\ PutAt(Tail(puts[p]), 1) = PutAt(puts[p], 2) /\ PutAt(Tail(puts[p]), 2) = None
      /\ Tail(puts[p]) \in Putting
  <2>1. CASE \E j \in Inums : puts[p] = <<j>>
    BY <2>1, Puts
  <2>2. CASE \E j \in Inums, k \in Inums : puts[p] = <<j, k>>
    BY <2>2, Puts
  <2>3. QED
    BY <1>1, <2>1, <2>2 DEF Putting
<1>4. ASSUME freeing[p] \in {"trunc", "unlock"}
      PROVE  Freed(p) = i /\ lock[i] = p /\ valid[i] /\ i # Locked(p)
  <2>1. Freed(p) = i /\ i # None
    BY <1>2, <1>4, Constants DEF Freed
  <2>2. QED
    BY <1>1, <1>2, <2>1 DEF LockInv
<1>5. freeing[p] \in {"no", "drop"} => Freed(p) = None
  BY DEF Freed
<1>6. QED
  BY <1>2, <1>3, <1>4, <1>5

\* One reference goes with one of the inodes to put, and no other changes.
LEMMA PutOne ==
  ASSUME IInv, NEW p \in Procs, puts[p] # <<>>, NEW i, i = Head(puts[p]),
         puts' = [puts EXCEPT ![p] = Tail(@)], ref' = [ref EXCEPT ![i] = @ - 1],
         UNCHANGED <<ip, dp, cwd, ofile>>
  PROVE  Balanced(p)
<1>1. /\ i \in Inums /\ PutAt(puts[p], 1) = i /\ PutAt(Tail(puts[p]), 1) = PutAt(puts[p], 2)
      /\ PutAt(Tail(puts[p]), 2) = None
  BY Putter
<1>2. puts'[p] = Tail(puts[p]) /\ ref \in [Inums -> Nat]
  BY Own DEF CallType, DataType
<1>3. ASSUME NEW j \in Inums
      PROVE  Settled(p, j, ofile[p][1].ip, ofile'[p][1].ip)
  <2> DEFINE r  == ref[j]
             r1 == ref'[j]
             u  == Same(ip[p], j)
             v  == Same(dp[p], j)
             w  == Same(cwd[p], j)
             x  == Same(PutAt(puts[p], 1), j)
             y  == Same(PutAt(puts[p], 2), j)
             z  == Same(ofile[p][1].ip, j)
  <2>1. /\ r \in Nat /\ u \in Nat /\ v \in Nat /\ w \in Nat /\ x \in Nat /\ y \in Nat /\ z \in Nat
    BY <1>2 DEF Same
  <2>2. r1 = r - x
    BY <1>1, <1>2 DEF Same
  <2>3. Same(None, j) = 0
    BY Constants DEF Same
  <2>4. Held(p, j) = u + v + w + x + y
    BY DEF Held
  <2>5. Held(p, j)' = u + v + w + y + 0
    BY <1>1, <1>2, <2>3 DEF Held
  <2>6. Same(ofile'[p][1].ip, j) = z
    OBVIOUS
  <2> HIDE DEF r, r1, u, v, w, x, y, z
  <2>7. r1 + (u + v + w + x + y) + z = r + (u + v + w + y + 0) + z
    BY <2>1, <2>2
  <2>8. QED
    BY <2>4, <2>5, <2>6, <2>7 DEF Settled, r, r1, z
<1>4. 1 \in Fds
  BY Constants
<1>5. QED
  BY <1>3, <1>4 DEF Balanced

\* No reference changes.
LEMMA PutNone ==
  ASSUME IInv, NEW p \in Procs, UNCHANGED <<ref, puts, ip, dp, cwd, ofile>>
  PROVE  Balanced(p)
<1>1. 1 \in Fds
  BY Constants
<1>2. \A i \in Inums : Settled(p, i, ofile[p][1].ip, ofile'[p][1].ip)
  BY DEF Settled, Held
<1>3. QED
  BY <1>1, <1>2 DEF Balanced

\* A reference is dropped: the copy goes with the last one.
LEMMA Dropping ==
  ASSUME IInv, ~panicked, NEW p \in Procs, puts[p] # <<>>, freeing[p] \in {"no", "drop"},
         Unref(Head(puts[p])), puts' = [puts EXCEPT ![p] = Tail(@)],
         freeing' = [freeing EXCEPT ![p] = "no"],
         UNCHANGED <<disk, used, lock, pc, locals, procs, panicked>>
  PROVE  Good(p)
<1> DEFINE i == Head(puts[p])
<1>1. DataType /\ CallType /\ ProcType /\ BlockInv /\ LockInv /\ CacheInv /\ TypeInv /\ CallInv /\ RefsExact
      /\ CallOk(pc[p], call[p], elem[p], ip[p], dp[p])
  BY Own DEF IInv, RefInv
<1>2. i \in Inums /\ ref[i] \in Nat /\ ref[i] >= 1 /\ Tail(puts[p]) \in Putting /\ Freed(p) = None
  BY Putter
<1>3. /\ ref' = [ref EXCEPT ![i] = @ - 1]
      /\ valid' = [valid EXCEPT ![i] = @ /\ ref[i] > 1]
      /\ mem' = [mem EXCEPT ![i] = IF ref[i] > 1 THEN @ ELSE Blank("free")]
  BY DEF Unref
<1> HIDE DEF i
<1>4. UNCHANGED <<call, elem, ip, dp, cwd, ofile, ncalls>>
  BY DEF locals, procs
<1>5. Balanced(p)
  BY <1>3, <1>4, PutOne DEF i
<1>6. TypeInv'
  <2>1. Blank("free") \in Node
    BY BlankNode DEF Kinds
  <2>2. DataType'
    <3>1. ref' \in [Inums -> Nat]
      BY <1>1, <1>2, <1>3 DEF DataType
    <3>2. valid' \in [Inums -> BOOLEAN]
      BY <1>1, <1>2, <1>3 DEF DataType
    <3>3. mem' \in [Inums -> Node]
      BY <1>1, <1>2, <1>3, <2>1 DEF DataType
    <3>4. QED
      BY <1>1, <3>1, <3>2, <3>3 DEF DataType
  <2>3. CallType'
    BY <1>1, <1>2, <1>4 DEF CallType
  <2>4. ProcType'
    BY <1>1, <1>4 DEF ProcType
  <2>5. QED
    BY <2>2, <2>3, <2>4 DEF TypeInv
<1>7. Others(p)
  BY <1>1, <1>4 DEF Others, CallType, ProcType
<1>8. freeing'[p] = "no"
  BY <1>1 DEF ProcType
<1>9. CallAt(p)'
  BY <1>1, <1>4, <1>8 DEF CallAt
<1>10. ~Unlocked(i) => ref[i] > 1
  BY <1>1, LockedTwice DEF i
<1>11. LockStep(p)
  <2>1. Freed(p)' = None /\ Locked(p)' = Locked(p)
    BY <1>4, <1>8 DEF Freed, Locked
  <2>2. \A j \in Inums : lock'[j] # None => valid'[j]
    <3>1. \A j \in Inums : lock[j] # None => valid[j]
      BY <1>1 DEF ProcType, LockInv
    <3>2. \A j \in Inums : lock[j] # None /\ j = i => ref[i] > 1
      BY <1>10 DEF Unlocked
    <3>3. QED
      BY <1>1, <1>3, <3>1, <3>2 DEF DataType
  <2>3. \A j \in Inums : lock[j] = p <=> j = Locked(p) \/ j = Freed(p)
    BY <1>1 DEF LockInv
  <2>4. QED
    BY <1>2, <2>1, <2>2, <2>3 DEF LockStep
<1>12. ASSUME NEW j \in Inums
       PROVE  \/ j # i \/ ref[i] > 1
              \/ j = i /\ ~Window(i) /\ mem'[i] = Blank("free") /\ valid'[i] = FALSE
  <2>1. Window(i) => ~Unlocked(i)
    <3>1. SUFFICES ASSUME NEW q \in Procs, freeing[q] = "unlock", Head(puts[q]) = i
                   PROVE  ~Unlocked(i)
      BY DEF Window
    <3>2. Freed(q) = i
      BY <3>1 DEF Freed
    <3>3. lock[i] = q
      BY <1>1, <1>2, <3>2 DEF LockInv
    <3>4. QED
      BY <3>3, Constants DEF Unlocked
  <2>2. CASE ~(ref[i] > 1)
    <3>1. mem'[i] = Blank("free")
      BY <1>1, <1>2, <1>3, <2>2 DEF DataType
    <3>2. valid'[i] = FALSE
      BY <1>1, <1>2, <1>3, <2>2 DEF DataType
    <3>3. QED
      BY <1>10, <2>1, <2>2, <3>1, <3>2
  <2>3. QED
    BY <2>2
<1>13. ASSUME NEW j \in Inums, j # i \/ ref[i] > 1
       PROVE  mem'[j] = mem[j] /\ valid'[j] = valid[j]
  <2>1. mem'[j] = mem[j]
    BY <1>1, <1>2, <1>3, <1>13 DEF DataType
  <2>2. valid'[j] = valid[j]
    BY <1>1, <1>2, <1>3, <1>13 DEF DataType
  <2>3. QED
    BY <2>1, <2>2
<1>14. BlockInv'
  <2>1. ASSUME NEW j \in Inums
        PROVE  BlocksOf(Current(j))' = BlocksOf(disk'[j])
    BY <1>1, <1>12, <1>13 DEF BlockInv, Current, ilock
  <2>2. QED
    BY <1>1, <2>1 DEF BlockInv, DiskBlocks
<1>15. CacheInv'
  <2>1. ASSUME NEW j \in Inums, Window(j)
        PROVE  Window(j)'
    <3>1. PICK q \in Procs : freeing[q] = "unlock" /\ Head(puts[q]) = j
      BY <2>1 DEF Window
    <3>2. q # p
      BY <3>1
    <3>3. freeing'[q] = "unlock" /\ Head(puts'[q]) = j
      BY <1>7, <3>1, <3>2 DEF Others
    <3>4. mem'[j] = Blank("free") /\ disk' = disk
      BY <1>12, <1>13, <2>1 DEF Window
    <3>5. QED
      BY <2>1, <3>3, <3>4 DEF Window
  <2>2. ASSUME NEW q \in Procs, NEW j \in Inums, freeing'[q] = "unlock", Head(puts'[q]) = j
        PROVE  Window(j)'
    <3>1. q # p
      BY <1>8, <2>2
    <3>2. freeing[q] = "unlock" /\ Head(puts[q]) = j
      BY <1>7, <2>2, <3>1 DEF Others
    <3>3. QED
      BY <1>1, <2>1, <3>2 DEF CacheInv
  <2>3. ASSUME NEW j \in Inums
        PROVE  /\ valid'[j] => Window(j)' \/ (mem'[j] = disk'[j] /\ disk'[j].type # "free")
               /\ ~valid'[j] => mem'[j] = Blank("free")
               /\ disk'[j].type = "free" => disk'[j] = Blank("free")
    BY <1>1, <1>12, <1>13, <2>1 DEF CacheInv
  <2>4. QED
    BY <2>2, <2>3 DEF CacheInv
<1>16. QED
  BY <1>5, <1>6, <1>7, <1>9, <1>11, <1>14, <1>15 DEF Good

\* iput() drops a reference, or begins to free the inode.
LEMMA iputGood ==
  ASSUME IInv, NEW p \in Procs, iput(p)
  PROVE  Good(p)
<1> DEFINE i == Head(puts[p])
<1>1. /\ ~panicked /\ puts[p] # <<>> /\ freeing[p] = "no"
      /\ UNCHANGED <<disk, used, pc, locals, procs, panicked>>
  BY DEF iput
<1>2. DataType /\ CallType /\ ProcType /\ BlockInv /\ LockInv /\ CacheInv
      /\ CallOk(pc[p], call[p], elem[p], ip[p], dp[p])
  BY <1>1, Own DEF IInv
<1>3. CASE /\ Unref(i) /\ puts' = [puts EXCEPT ![p] = Tail(@)] /\ UNCHANGED <<lock, freeing>>
  <2>1. freeing' = [freeing EXCEPT ![p] = "no"]
    BY <1>1, <1>2, <1>3 DEF ProcType
  <2>2. QED
    BY <1>1, <1>3, <2>1, Dropping
<1>4. CASE /\ ref[i] = 1 /\ valid[i] /\ mem[i].nlink = 0 /\ Unlocked(i)
           /\ lock' = [lock EXCEPT ![i] = p]
           /\ freeing' = [freeing EXCEPT ![p] = "trunc"]
           /\ UNCHANGED <<ref, valid, mem, puts>>
  <2>1. i \in Inums /\ Freed(p) = None
    BY <1>1, Putter
  <2>2. lock[i] = None /\ valid[i] /\ UNCHANGED <<call, elem, ip, dp, cwd, ofile, ncalls>>
    BY <1>1, <1>4 DEF Unlocked, locals, procs
  <2>3. Balanced(p)
    BY <1>4, <2>2, PutNone
  <2>4. TypeInv'
    <3>1. DataType' /\ CallType'
      BY <1>1, <1>2, <1>4, <2>2 DEF DataType, CallType
    <3>2. ProcType'
      BY <1>2, <1>4, <2>1, <2>2 DEF ProcType
    <3>3. QED
      BY <3>1, <3>2 DEF TypeInv
  <2>5. Others(p)
    BY <1>1, <1>2, <1>4, <2>2 DEF Others, ProcType
  <2>6. CallAt(p)'
    BY <1>1, <1>2, <1>4, <2>2 DEF CallAt
  <2>7. freeing'[p] = "trunc" /\ Freed(p)' = i /\ Locked(p)' = Locked(p)
    BY <1>1, <1>2, <1>4, <2>2 DEF ProcType, Freed, Locked
  <2>8. \A j \in Inums : lock[j] = p <=> j = Locked(p)
    <3>1. \A j \in Inums : lock[j] = p <=> j = Locked(p) \/ j = Freed(p)
      BY <1>2 DEF LockInv
    <3>2. QED
      BY <2>1, <3>1, Constants
  <2>9. LockStep(p)
    <3>1. i # Locked(p)
      BY <2>1, <2>2, <2>8, Constants
    <3>2. \A j \in Inums : lock'[j] = p <=> j = Locked(p) \/ j = i
      BY <1>2, <1>4, <2>1, <2>8 DEF ProcType
    <3>3. \A j \in Inums, q \in Procs \ {p} : lock'[j] = q <=> lock[j] = q
      BY <1>2, <1>4, <2>1, <2>2, Constants DEF ProcType
    <3>4. \A j \in Inums : lock'[j] # None => valid'[j]
      BY <1>2, <1>4, <2>1, <2>2 DEF ProcType, LockInv
    <3>5. QED
      BY <2>7, <3>1, <3>2, <3>3, <3>4 DEF LockStep
  <2>10. BlockInv'
    BY <1>1, <1>2, <1>4 DEF BlockInv, DiskBlocks, Current, ilock
  <2>11. CacheInv'
    <3>1. \A q \in Procs : freeing'[q] = "unlock" <=> freeing[q] = "unlock"
      BY <1>1, <1>2, <1>4 DEF ProcType
    <3>2. \A j \in Inums : Window(j)' <=> Window(j)
      BY <1>1, <1>4, <3>1 DEF Window
    <3>3. QED
      BY <1>1, <1>2, <1>4, <3>1, <3>2 DEF CacheInv
  <2>12. QED
    BY <2>3, <2>4, <2>5, <2>6, <2>9, <2>10, <2>11 DEF Good
<1>5. QED
  BY <1>3, <1>4 DEF iput

\* The inode is freed on disk, and stays locked.
LEMMA iput_truncGood ==
  ASSUME IInv, NEW p \in Procs, iput_trunc(p)
  PROVE  Good(p)
<1> DEFINE i == Head(puts[p])
           S == BlocksOf(mem[i])
<1>1. /\ ~panicked /\ freeing[p] = "trunc" /\ panicked' = FreeOfFree(used, S) /\ used' = used \ S
      /\ mem' = [mem EXCEPT ![i] = Blank("free")]
      /\ disk' = [disk EXCEPT ![i] = Blank("free")]
      /\ freeing' = [freeing EXCEPT ![p] = "unlock"]
      /\ UNCHANGED <<ref, valid, lock, pc, call, elem, ip, dp, puts, cwd, ofile, ncalls>>
  BY DEF iput_trunc, bfree, locals, procs
<1>2. DataType /\ CallType /\ ProcType /\ BlockInv /\ LockInv /\ CacheInv /\ CallAt(p)
  BY <1>1, Own DEF IInv, RefInv, CallInv
<1>3. puts[p] # <<>>
  BY <1>1, <1>2 DEF CallAt
<1>4. i \in Inums /\ Freed(p) = i /\ lock[i] = p /\ valid[i] /\ i # Locked(p)
  BY <1>1, <1>3, Putter
<1> HIDE DEF i
<1>5. Blank("free") \in Node /\ BlocksOf(Blank("free")) = {} /\ "free" \in Kinds
  BY BlankNode DEF Kinds
<1>6. S = BlocksOf(disk[i])
  BY <1>2, <1>4 DEF BlockInv, Current, ilock
<1>7. Balanced(p)
  BY <1>1, PutNone
<1>8. TypeInv'
  <2>1. DataType'
    BY <1>1, <1>2, <1>5 DEF DataType, FreeOfFree
  <2>2. CallType' /\ ProcType'
    BY <1>1, <1>2 DEF CallType, ProcType
  <2>3. QED
    BY <2>1, <2>2 DEF TypeInv
<1>9. Others(p)
  BY <1>1, <1>2 DEF Others, ProcType
<1>10. CallAt(p)'
  BY <1>1, <1>2, <1>3 DEF CallAt
<1>11. freeing'[p] = "unlock" /\ Freed(p)' = i /\ Locked(p)' = Locked(p)
  BY <1>1, <1>2 DEF ProcType, Freed, Locked, i
<1>12. LockStep(p)
  <2>1. \A j \in Inums : lock[j] = p <=> j = Locked(p) \/ j = i
    BY <1>2, <1>4 DEF LockInv
  <2>2. \A j \in Inums : lock[j] # None => valid[j]
    BY <1>2 DEF ProcType, LockInv
  <2>3. QED
    BY <1>1, <1>4, <1>11, <2>1, <2>2 DEF LockStep
<1>13. disk'[i] = Blank("free") /\ mem'[i] = Blank("free")
       /\ \A j \in Inums \ {i} : disk'[j] = disk[j] /\ mem'[j] = mem[j]
  BY <1>1, <1>2, <1>4 DEF DataType
<1>14. BlockInv'
  <2> DEFINE B == [j \in Inums |-> BlocksOf(disk[j])]
             C == [j \in Inums |-> BlocksOf(disk'[j])]
  <2>1. Owned(used, B)
    BY <1>2 DEF BlockInv, DiskBlocks
  <2>2. C[i] = {} /\ (\A j \in Inums \ {i} : C[j] = B[j]) /\ used' = used \ B[i]
    BY <1>1, <1>4, <1>5, <1>6, <1>13
  <2> HIDE DEF B, C
  <2>3. Owned(used \ B[i], C)
    BY <1>4, <2>1, <2>2, FreeOwn
  <2>4. Owned(used', DiskBlocks')
    BY <2>2, <2>3 DEF DiskBlocks, C
  <2>5. ASSUME NEW j \in Inums
        PROVE  BlocksOf(Current(j))' = BlocksOf(disk'[j])
    <3>1. CASE j = i
      BY <1>13, <3>1 DEF Current, ilock
    <3>2. CASE j # i
      <4>1. disk'[j] = disk[j] /\ mem'[j] = mem[j] /\ valid'[j] = valid[j]
        BY <1>1, <1>13, <3>2
      <4>2. Current(j)' = Current(j)
        BY <4>1 DEF Current, ilock
      <4>3. BlocksOf(Current(j)) = BlocksOf(disk[j])
        BY <1>2 DEF BlockInv
      <4>4. QED
        BY <4>1, <4>2, <4>3
    <3>3. QED
      BY <3>1, <3>2
  <2>6. QED
    BY <2>4, <2>5 DEF BlockInv
<1>15. CacheInv'
  <2>1. ASSUME NEW j \in Inums, j = i
        PROVE  Window(j)'
    <3>1. freeing'[p] = "unlock" /\ Head(puts'[p]) = j
      BY <1>1, <1>11, <2>1 DEF i
    <3>2. QED
      BY <1>13, <2>1, <3>1 DEF Window
  <2>2. ASSUME NEW j \in Inums \ {i}, Window(j)
        PROVE  Window(j)'
    <3>1. PICK q \in Procs : freeing[q] = "unlock" /\ Head(puts[q]) = j
      BY <2>2 DEF Window
    <3>2. freeing'[q] = "unlock" /\ Head(puts'[q]) = j
      <4>1. q # p
        BY <1>1, <3>1
      <4>2. freeing'[q] = freeing[q] /\ puts'[q] = puts[q]
        BY <1>1, <1>2, <4>1 DEF ProcType
      <4>3. QED
        BY <3>1, <4>2
    <3>3. disk'[j] = disk[j] /\ mem'[j] = mem[j]
      BY <1>13
    <3>4. QED
      BY <2>2, <3>2, <3>3 DEF Window
  <2>3. ASSUME NEW q \in Procs, NEW j \in Inums, freeing'[q] = "unlock", Head(puts'[q]) = j
        PROVE  Window(j)'
    <3>1. CASE q = p
      BY <1>1, <2>1, <2>3, <3>1 DEF i
    <3>2. CASE q # p
      <4>1. freeing'[q] = freeing[q] /\ puts'[q] = puts[q]
        BY <1>1, <1>2, <3>2 DEF ProcType
      <4>2. Window(j)
        BY <1>2, <2>3, <4>1 DEF CacheInv
      <4>3. QED
        BY <2>1, <2>2, <4>2
    <3>3. QED
      BY <3>1, <3>2
  <2>4. ASSUME NEW j \in Inums
        PROVE  /\ valid'[j] => Window(j)' \/ (mem'[j] = disk'[j] /\ disk'[j].type # "free")
               /\ ~valid'[j] => mem'[j] = Blank("free")
               /\ disk'[j].type = "free" => disk'[j] = Blank("free")
    <3>1. CASE j = i
      BY <1>1, <1>4, <1>13, <2>1, <3>1
    <3>2. CASE j # i
      <4>1. disk'[j] = disk[j] /\ mem'[j] = mem[j] /\ valid'[j] = valid[j] /\ (Window(j) => Window(j)')
        BY <1>1, <1>13, <2>2, <3>2
      <4>2. QED
        BY <1>2, <4>1 DEF CacheInv
    <3>3. QED
      BY <3>1, <3>2
  <2>5. QED
    BY <2>3, <2>4 DEF CacheInv
<1>16. QED
  BY <1>7, <1>8, <1>9, <1>10, <1>12, <1>14, <1>15 DEF Good

\* Its copy is no longer valid, and the lock is released.
LEMMA iput_unlockGood ==
  ASSUME IInv, NEW p \in Procs, iput_unlock(p)
  PROVE  Good(p)
<1> DEFINE i == Head(puts[p])
<1>1. /\ ~panicked /\ freeing[p] = "unlock"
      /\ valid' = [valid EXCEPT ![i] = FALSE]
      /\ lock' = [lock EXCEPT ![i] = None]
      /\ freeing' = [freeing EXCEPT ![p] = "drop"]
      /\ UNCHANGED <<disk, used, mem, ref, pc, call, elem, ip, dp, puts, cwd, ofile, ncalls, panicked>>
  BY DEF iput_unlock, locals, procs
<1>2. DataType /\ CallType /\ ProcType /\ BlockInv /\ LockInv /\ CacheInv /\ CallAt(p)
  BY <1>1, Own DEF IInv, RefInv, CallInv
<1>3. puts[p] # <<>>
  BY <1>1, <1>2 DEF CallAt
<1>4. i \in Inums /\ Freed(p) = i /\ lock[i] = p /\ valid[i] /\ i # Locked(p)
  BY <1>1, <1>3, Putter
<1>5. Window(i)
  BY <1>1, <1>2, <1>4 DEF CacheInv
<1> HIDE DEF i
<1>6. Balanced(p)
  BY <1>1, PutNone
<1>7. TypeInv'
  <2>1. DataType' /\ CallType' /\ ProcType'
    BY <1>1, <1>2 DEF DataType, CallType, ProcType
  <2>2. QED
    BY <2>1 DEF TypeInv
<1>8. Others(p)
  BY <1>1, <1>2 DEF Others, ProcType
<1>9. CallAt(p)'
  BY <1>1, <1>2, <1>3 DEF CallAt
<1>10. freeing'[p] = "drop" /\ Freed(p)' = None /\ Locked(p)' = Locked(p)
  BY <1>1, <1>2 DEF ProcType, Freed, Locked
<1>11. valid'[i] = FALSE /\ lock'[i] = None
       /\ \A j \in Inums \ {i} : valid'[j] = valid[j] /\ lock'[j] = lock[j]
  BY <1>1, <1>2, <1>4 DEF DataType, ProcType
<1>12. LockStep(p)
  <2>1. \A j \in Inums : lock[j] = p <=> j = Locked(p) \/ j = i
    BY <1>2, <1>4 DEF LockInv
  <2>2. \A j \in Inums : lock[j] # None => valid[j]
    BY <1>2 DEF ProcType, LockInv
  <2>3. \A j \in Inums : lock'[j] = p <=> j = Locked(p)
    BY <1>4, <1>11, <2>1, Constants
  <2>4. \A j \in Inums, q \in Procs \ {p} : lock'[j] = q <=> lock[j] = q
    BY <1>4, <1>11, Constants
  <2>5. \A j \in Inums : lock'[j] # None => valid'[j]
    BY <1>11, <2>2
  <2>6. QED
    BY <1>10, <2>3, <2>4, <2>5, Constants DEF LockStep
<1>13. BlockInv'
  <2>1. ASSUME NEW j \in Inums
        PROVE  BlocksOf(Current(j))' = BlocksOf(disk'[j])
    BY <1>1, <1>2, <1>11 DEF BlockInv, Current, ilock
  <2>2. QED
    BY <1>1, <1>2, <2>1 DEF BlockInv, DiskBlocks
<1>14. CacheInv'
  <2>1. ASSUME NEW j \in Inums \ {i}, Window(j)
        PROVE  Window(j)'
    <3>1. PICK q \in Procs : freeing[q] = "unlock" /\ Head(puts[q]) = j
      BY <2>1 DEF Window
    <3>2. q # p
      BY <3>1 DEF i
    <3>3. freeing'[q] = "unlock" /\ Head(puts'[q]) = j
      BY <1>8, <3>1, <3>2 DEF Others
    <3>4. QED
      BY <1>1, <2>1, <3>3 DEF Window
  <2>2. ASSUME NEW q \in Procs, NEW j \in Inums, freeing'[q] = "unlock", Head(puts'[q]) = j
        PROVE  Window(j)'
    <3>1. q # p
      BY <1>10, <2>2
    <3>2. freeing[q] = "unlock" /\ Head(puts[q]) = j
      BY <1>8, <2>2, <3>1 DEF Others
    <3>3. j # i
      <4>1. Freed(q) = j
        BY <3>2 DEF Freed
      <4>2. lock[j] = q
        BY <1>2, <4>1 DEF LockInv
      <4>3. QED
        BY <1>4, <3>1, <4>2
    <3>4. Window(j)
      BY <1>2, <3>2 DEF CacheInv
    <3>5. QED
      BY <2>1, <3>3, <3>4
  <2>3. ASSUME NEW j \in Inums
        PROVE  /\ valid'[j] => Window(j)' \/ (mem'[j] = disk'[j] /\ disk'[j].type # "free")
               /\ ~valid'[j] => mem'[j] = Blank("free")
               /\ disk'[j].type = "free" => disk'[j] = Blank("free")
    <3>1. CASE j = i
      BY <1>1, <1>2, <1>5, <1>11, <3>1 DEF CacheInv, Window
    <3>2. CASE j # i
      <4>1. disk'[j] = disk[j] /\ mem'[j] = mem[j] /\ valid'[j] = valid[j] /\ (Window(j) => Window(j)')
        BY <1>1, <1>11, <2>1, <3>2
      <4>2. QED
        BY <1>2, <4>1 DEF CacheInv
    <3>3. QED
      BY <3>1, <3>2
  <2>4. QED
    BY <2>2, <2>3 DEF CacheInv
<1>15. QED
  BY <1>6, <1>7, <1>8, <1>9, <1>12, <1>13, <1>14 DEF Good

\* The reference through which it was freed is dropped.
LEMMA iput_dropGood ==
  ASSUME IInv, NEW p \in Procs, iput_drop(p)
  PROVE  Good(p)
<1>1. /\ ~panicked /\ freeing[p] = "drop" /\ Unref(Head(puts[p])) /\ puts' = [puts EXCEPT ![p] = Tail(@)]
      /\ freeing' = [freeing EXCEPT ![p] = "no"]
      /\ UNCHANGED <<disk, used, lock, pc, locals, procs, panicked>>
  BY DEF iput_drop
<1>2. puts[p] # <<>>
  BY <1>1 DEF IInv, RefInv, CallInv, CallAt
<1>3. QED
  BY <1>1, <1>2, Dropping

-----------------------------------------------------------------------------
(* The invariant holds of the disk that mkfs makes, and every step keeps it. *)

\* The directory and the file that mkfs makes are inodes, with a block each.
LEMMA FirstNodes ==
  /\ Root \in Node /\ BlocksOf(Root) = {1} /\ Root.type = "dir"
  /\ File1 \in Node /\ BlocksOf(File1) = {2} /\ File1.type = "file"
<1>1. Blank("dir") \in Node /\ Blank("file") \in Node
  BY BlankNode DEF Kinds
<1>2. 1 \in Blocks /\ 2 \in Blocks /\ 1 \in Inums /\ 2 \in Inums /\ 0 \in Direct /\ 1 \in 0..MAXFILE
      /\ {1, 2} \cap {None} = {}
  BY Constants DEF Direct
<1> DEFINE e == <<[name |-> ".", inum |-> ROOTINO], [name |-> "..", inum |-> ROOTINO],
                  [name |-> Program, inum |-> 2]>>
<1>3. e \in {s \in Seq(Entry) : Len(s) <= DirSlots * MAXFILE}
  <2>1. /\ [name |-> ".", inum |-> ROOTINO] \in Entry /\ [name |-> "..", inum |-> ROOTINO] \in Entry
        /\ [name |-> Program, inum |-> 2] \in Entry
    BY <1>2, NameAssumption, Constants DEF Entry
  <2>2. e \in Seq(Entry) /\ Len(e) = 3
    BY <2>1
  <2>3. 3 <= DirSlots * MAXFILE
    <3> DEFINE m == DirSlots * MAXFILE
    <3>1. m \in Nat /\ m >= 6
      BY Slots
    <3> HIDE DEF m
    <3>2. 3 <= m
      BY <3>1
    <3>3. QED
      BY <3>2 DEF m
  <2> HIDE DEF e
  <2>4. QED
    BY <2>2, <2>3
<1> HIDE DEF e
<1>4. ASSUME NEW b \in {1, 2}
      PROVE  /\ [k \in Direct |-> IF k = 0 THEN b ELSE None] \in [Direct -> Blocks \cup {None}]
             /\ Range([k \in Direct |-> IF k = 0 THEN b ELSE None]) \ {None} = {b}
  BY <1>2 DEF Range
<1>5. Range([k \in Indirect |-> None]) \subseteq {None}
  BY DEF Range
<1>6. [k \in Indirect |-> None] \in [Indirect -> Blocks \cup {None}]
  OBVIOUS
<1>7. /\ Root = [type |-> "dir", nlink |-> 1, size |-> 0, addrs |-> [k \in Direct |-> IF k = 0 THEN 1 ELSE None],
                 a |-> [k \in Indirect |-> None], ents |-> e]
      /\ File1 = [type |-> "file", nlink |-> 1, size |-> 1, addrs |-> [k \in Direct |-> IF k = 0 THEN 2 ELSE None],
                  a |-> [k \in Indirect |-> None], ents |-> <<>>]
  <2>1. ASSUME NEW b \in {1, 2}
        PROVE  [[k \in Direct |-> None] EXCEPT ![0] = b] = [k \in Direct |-> IF k = 0 THEN b ELSE None]
    BY <1>2
  <2>2. ASSUME NEW s \in {"dir", "file"}
        PROVE  Blank(s) = [type |-> s, nlink |-> 0, size |-> 0, addrs |-> [k \in Direct |-> None],
                           a |-> [k \in Indirect |-> None], ents |-> <<>>]
    BY DEF Blank, Direct, Indirect
  <2>3. /\ Root = [Blank("dir") EXCEPT !.nlink = 1, !.addrs = [Blank("dir").addrs EXCEPT ![0] = 1], !.ents = e]
        /\ File1 = [Blank("file") EXCEPT !.nlink = 1, !.addrs = [Blank("file").addrs EXCEPT ![0] = 2], !.size = 1]
    BY DEF Root, File1, e
  <2>4. /\ [Blank("dir").addrs EXCEPT ![0] = 1] = [k \in Direct |-> IF k = 0 THEN 1 ELSE None]
        /\ [Blank("file").addrs EXCEPT ![0] = 2] = [k \in Direct |-> IF k = 0 THEN 2 ELSE None]
    <3>1. Blank("dir").addrs = [k \in Direct |-> None] /\ Blank("file").addrs = [k \in Direct |-> None]
      BY <2>2
    <3>2. QED
      BY <2>1, <3>1
  <2> DEFINE r == [k \in Direct |-> IF k = 0 THEN 1 ELSE None]
             f == [k \in Direct |-> IF k = 0 THEN 2 ELSE None]
             n == [k \in Indirect |-> None]
             m == [k \in Direct |-> None]
             x == [type |-> "dir", nlink |-> 0, size |-> 0, addrs |-> m, a |-> n, ents |-> <<>>]
             y == [type |-> "file", nlink |-> 0, size |-> 0, addrs |-> m, a |-> n, ents |-> <<>>]
  <2>5. Root = [x EXCEPT !.nlink = 1, !.addrs = r, !.ents = e] /\ File1 = [y EXCEPT !.nlink = 1, !.addrs = f, !.size = 1]
    <3>1. Blank("dir") = x /\ Blank("file") = y
      BY <2>2
    <3> HIDE DEF x, y
    <3>2. QED
      BY <2>3, <2>4, <3>1
  <2> HIDE DEF r, f, n, m
  <2>6. /\ Root = [type |-> "dir", nlink |-> 1, size |-> 0, addrs |-> r, a |-> n, ents |-> e]
        /\ File1 = [type |-> "file", nlink |-> 1, size |-> 1, addrs |-> f, a |-> n, ents |-> <<>>]
    BY <2>5
  <2>7. QED
    BY <2>6 DEF r, f, n
<1>8. Root \in Node /\ BlocksOf(Root) = {1} /\ Root.type = "dir"
  <2>1. Root \in Node
    BY <1>3, <1>4, <1>6, <1>7, Constants DEF Node, Direct, Indirect
  <2>2. QED
    BY <1>4, <1>5, <1>7, <2>1 DEF BlocksOf
<1>9. File1 \in Node /\ BlocksOf(File1) = {2} /\ File1.type = "file"
  <2>1. <<>> \in {s \in Seq(Entry) : Len(s) <= DirSlots * MAXFILE}
    BY <1>1 DEF Blank, Node
  <2>2. File1 \in Node
    BY <1>2, <1>4, <1>6, <1>7, <2>1 DEF Node, Direct, Indirect
  <2>3. QED
    BY <1>4, <1>5, <1>7, <2>2 DEF BlocksOf
<1>10. QED
  BY <1>8, <1>9

\* At first every process has a reference to the root, its directory.
LEMMA InitRefs == Init => RefsExact
<1>1. SUFFICES ASSUME Init, NEW i \in Inums
               PROVE  ref[i] = Cardinality({p \in Procs : cwd[p] = i})
                        + Cardinality({x \in Procs \X Fds : ofile[x[1]][x[2]].ip = i})
                        + Cardinality({p \in Procs : ip[p] = i}) + Cardinality({p \in Procs : dp[p] = i})
                        + Cardinality({x \in Procs \X (1..2) : x[2] <= Len(puts[x[1]]) /\ puts[x[1]][x[2]] = i})
  BY DEF RefsExact
<1> DEFINE C == {p \in Procs : cwd[p] = i}
           O == {x \in Procs \X Fds : ofile[x[1]][x[2]].ip = i}
           I == {p \in Procs : ip[p] = i}
           D == {p \in Procs : dp[p] = i}
           P == {x \in Procs \X (1..2) : x[2] <= Len(puts[x[1]]) /\ puts[x[1]][x[2]] = i}
<1>2. O = {} /\ I = {} /\ D = {}
  BY <1>1, Constants DEF Init, Closed
<1>3. P = {}
  <2>1. SUFFICES ASSUME NEW x \in P
                 PROVE  FALSE
    OBVIOUS
  <2>2. x[1] \in Procs /\ x[2] \in 1..2 /\ x[2] <= Len(puts[x[1]])
    OBVIOUS
  <2>3. puts[x[1]] = <<>>
    BY <1>1, <2>2 DEF Init
  <2>4. QED
    BY <2>2, <2>3
<1>4. Cardinality({}) = 0 /\ Cardinality(Procs) \in Nat
  BY FS_EmptySet, FS_CardinalityType, Constants
<1>5. ref[i] = Cardinality(C)
  <2>1. CASE i = ROOTINO
    <3>1. C = Procs
      BY <1>1, <2>1 DEF Init
    <3>2. QED
      BY <1>1, <2>1, <3>1 DEF Init
  <2>2. CASE i # ROOTINO
    <3>1. C = {}
      BY <1>1, <2>2 DEF Init
    <3>2. QED
      BY <1>1, <1>4, <2>2, <3>1 DEF Init
  <2>3. QED
    BY <2>1, <2>2
<1>6. ref[i] \in Nat
  BY <1>1, <1>4 DEF Init
<1> HIDE DEF C, O, I, D, P
<1>7. Cardinality(O) = 0 /\ Cardinality(I) = 0 /\ Cardinality(D) = 0 /\ Cardinality(P) = 0
  BY <1>2, <1>3, <1>4
<1>8. ref[i] = Cardinality(C) + Cardinality(O) + Cardinality(I) + Cardinality(D) + Cardinality(P)
  BY <1>5, <1>6, <1>7
<1>9. QED
  BY <1>8 DEF C, O, I, D, P

\* The invariant holds at first.
LEMMA InitInv == Init => IInv
<1>1. SUFFICES ASSUME Init
               PROVE  IInv
  OBVIOUS
<1>2. Blank("free") \in Node /\ BlocksOf(Blank("free")) = {} /\ Blank("free").type = "free"
  BY BlankNode DEF Kinds
<1>3. \A i \in Inums : /\ i = 1 => disk[i] = Root
                       /\ i = 2 => disk[i] = File1
                       /\ i \notin {1, 2} => disk[i] = Blank("free")
  <2>1. disk = [i \in Inums |-> CASE i = ROOTINO -> Root [] i = 2 -> File1 [] OTHER -> Blank("free")]
    BY <1>1 DEF Init
  <2>2. QED
    BY <2>1 DEF ROOTINO
<1>4. 1 \in Inums /\ 2 \in Inums
  BY Constants
<1>5. DataType
  <2>1. disk \in [Inums -> Node]
    <3>1. \A i \in Inums : disk[i] \in Node
      BY <1>2, <1>3, FirstNodes
    <3>2. QED
      BY <1>1, <3>1 DEF Init
  <2>2. mem \in [Inums -> Node] /\ valid \in [Inums -> BOOLEAN] /\ panicked \in BOOLEAN
    BY <1>1, <1>2 DEF Init
  <2>3. used \in SUBSET Blocks
    <3>1. 1 \in Blocks /\ 2 \in Blocks
      BY Constants
    <3>2. QED
      BY <1>1, <3>1 DEF Init
  <2>4. ref \in [Inums -> Nat]
    <3>1. Cardinality(Procs) \in Nat
      BY FS_CardinalityType, Constants
    <3>2. QED
      BY <1>1, <3>1 DEF Init
  <2>5. QED
    BY <2>1, <2>2, <2>3, <2>4 DEF DataType
<1>6. CallType
  <2>1. <<>> \in Putting /\ "user" \in Points
    BY DEF Putting, Points
  <2>2. QED
    BY <1>1, <2>1 DEF Init, CallType
<1>7. ProcType
  <2>1. Closed \in OpenFileType
    BY Constants DEF Closed, OpenFileType
  <2>2. ROOTINO \in Inums /\ 0 \in 0..MaxCalls
    BY Constants
  <2>3. QED
    BY <1>1, <2>1, <2>2 DEF Init, ProcType
<1>8. CallInv
  BY <1>1 DEF Init, CallInv, CallAt, CallOk, WithIp, WithDp, WithElem, Creating
<1>9. LockInv
  <2>1. \A p \in Procs : Locked(p) = None /\ Freed(p) = None
    BY <1>1 DEF Init, Locked, LockedAt, Freed
  <2>2. \A i \in Inums : lock[i] = None
    BY <1>1 DEF Init
  <2>3. QED
    BY <2>1, <2>2, Constants DEF LockInv
<1>10. BlockInv
  <2>1. \A i \in Inums : /\ i = 1 => DiskBlocks[i] = {1}
                         /\ i = 2 => DiskBlocks[i] = {2}
                         /\ i \notin {1, 2} => DiskBlocks[i] = {}
    BY <1>2, <1>3, FirstNodes DEF DiskBlocks
  <2>2. used = UNION {DiskBlocks[i] : i \in Inums}
    <3>1. used = {1, 2}
      BY <1>1 DEF Init
    <3>2. DiskBlocks[1] = {1} /\ DiskBlocks[2] = {2} /\ \A i \in Inums : DiskBlocks[i] \subseteq {1, 2}
      BY <1>4, <2>1
    <3>3. QED
      BY <1>4, <3>1, <3>2
  <2>3. \A i, j \in Inums : i # j => DiskBlocks[i] \cap DiskBlocks[j] = {}
    BY <2>1
  <2>4. \A i \in Inums : Current(i) = disk[i]
    BY <1>1 DEF Init, Current, ilock
  <2>5. QED
    BY <2>2, <2>3, <2>4 DEF BlockInv, Owned
<1>11. CacheInv
  <2>1. \A i \in Inums : ~valid[i] /\ mem[i] = Blank("free") /\ (disk[i].type = "free" => disk[i] = Blank("free"))
    BY <1>1, <1>3, FirstNodes DEF Init
  <2>2. \A p \in Procs : freeing[p] = "no"
    BY <1>1 DEF Init
  <2>3. QED
    BY <2>1, <2>2 DEF CacheInv
<1>12. QED
  BY <1>5, <1>6, <1>7, <1>8, <1>9, <1>10, <1>11, <1>1, InitRefs DEF IInv, RefInv, TypeInv

\* A step that changes nothing keeps the invariant.
LEMMA Stutter ==
  ASSUME IInv, UNCHANGED vars
  PROVE  IInv'
<1>1. /\ disk' = disk /\ used' = used /\ ref' = ref /\ valid' = valid /\ mem' = mem /\ lock' = lock
      /\ pc' = pc /\ call' = call /\ elem' = elem /\ ip' = ip /\ dp' = dp /\ puts' = puts
      /\ freeing' = freeing /\ cwd' = cwd /\ ofile' = ofile /\ ncalls' = ncalls /\ panicked' = panicked
  BY DEF vars, locals, procs
<1>2. TypeInv'
  BY <1>1 DEF IInv, RefInv, TypeInv, DataType, CallType, ProcType
<1>3. CallInv'
  BY <1>1 DEF IInv, RefInv, CallInv, CallAt
<1>4. RefsExact'
  BY <1>1 DEF IInv, RefInv, RefsExact
<1>5. LockInv'
  BY <1>1 DEF IInv, LockInv, Locked, Freed
<1>6. BlockInv'
  BY <1>1 DEF IInv, BlockInv, DiskBlocks, Current, ilock
<1>7. ~panicked' => CacheInv'
  BY <1>1 DEF IInv, CacheInv, Window
<1>8. QED
  BY <1>2, <1>3, <1>4, <1>5, <1>6, <1>7 DEF IInv, RefInv

\* Every step keeps the invariant.
LEMMA NextInv == IInv /\ [Next]_vars => IInv'
<1>1. SUFFICES ASSUME IInv, [Next]_vars
               PROVE  IInv'
  OBVIOUS
<1>2. ASSUME NEW p \in Procs, iput(p) \/ iput_trunc(p) \/ iput_unlock(p) \/ iput_drop(p)
      PROVE  IInv'
  BY <1>1, <1>2, GoodStep, iputGood, iput_truncGood, iput_unlockGood, iput_dropGood
<1>3. ASSUME NEW p \in Procs, Begin(p) \/ namei(p) \/ nameiparent(p) \/ sys_open(p) \/ sys_chdir(p)
      PROVE  IInv'
  BY <1>1, <1>3, GoodStep, BeginGood, nameiGood, nameiparentGood, sys_openGood, sys_chdirGood
<1>4. ASSUME NEW p \in Procs, create(p) \/ create_found(p) \/ create_new(p) \/ created(p) \/ bad(p)
      PROVE  IInv'
  BY <1>1, <1>4, GoodStep, createGood, create_foundGood, create_newGood, createdGood, badGood
<1>5. ASSUME NEW p \in Procs, sys_link(p) \/ link_start(p) \/ link_new(p) \/ link_bad(p)
      PROVE  IInv'
  BY <1>1, <1>5, GoodStep, sys_linkGood, link_startGood, link_newGood, link_badGood
<1>6. ASSUME NEW p \in Procs, sys_unlink(p) \/ unlink_ip(p) \/ unlinked(p)
      PROVE  IInv'
  BY <1>1, <1>6, GoodStep, sys_unlinkGood, unlink_ipGood, unlinkedGood
<1>7. ASSUME NEW p \in Procs, NEW f \in Fds, sys_close(p, f) \/ fileread(p, f) \/ filestat(p, f) \/ filewrite(p, f)
      PROVE  IInv'
  BY <1>1, <1>7, GoodStep, sys_closeGood, filereadGood, filestatGood, filewriteGood
<1>8. CASE Done \/ UNCHANGED vars
  BY <1>1, <1>8, Stutter DEF Done
<1>9. QED
  BY <1>1, <1>2, <1>3, <1>4, <1>5, <1>6, <1>7, <1>8 DEF Next

-----------------------------------------------------------------------------
(* Theorems.                                                               *)

\* Types, references, locks, blocks and the copies of inodes, in every state of every
\* behaviour of the calls of sysfile.c.
THEOREM Invariance == Spec => []IInv
<1>1. QED
  BY InitInv, NextInv, PTL DEF Spec

\* An inode's reference count is the number of pointers to it (RefsExact): no path of
\* sysfile.c forgets an iput() or makes one too many.
THEOREM ReferencesExact == Spec => []RefsExact
<1>1. IInv => RefsExact
  BY DEF IInv, RefInv
<1>2. QED
  BY <1>1, Invariance, PTL

\* The blocks of the inodes are those of the bitmap, and no inode shares one
\* (BlocksOwned), after every failure of balloc() in the middle of a call.
THEOREM BlocksExact == Spec => []BlocksOwned
<1>1. ASSUME IInv
      PROVE  BlocksOwned
  <2>1. BlockInv
    BY <1>1 DEF IInv
  <2>2. \A i \in Inums : BlocksOf(Current(i)) = DiskBlocks[i]
    BY <2>1 DEF BlockInv, DiskBlocks
  <2>3. /\ used = UNION {DiskBlocks[i] : i \in Inums}
        /\ \A i, j \in Inums : i # j => DiskBlocks[i] \cap DiskBlocks[j] = {}
    BY <2>1 DEF BlockInv, Owned
  <2>4. {BlocksOf(Current(i)) : i \in Inums} = {DiskBlocks[i] : i \in Inums}
    BY <2>2
  <2>5. QED
    BY <2>2, <2>3, <2>4 DEF BlocksOwned
<1>2. QED
  BY <1>1, Invariance, PTL

\* What iput() says of the lock it takes: "ip->ref == 1 means no other process can have
\* ip locked, so this acquiresleep() won't block (or deadlock)".
LastUnlocked ==
  \A p \in Procs : puts[p] # <<>> /\ freeing[p] = "no" /\ ref[Head(puts[p])] = 1 => Unlocked(Head(puts[p]))

\* The last reference to an inode is never dropped while somebody has it locked, so iput()
\* never waits for the lock it takes to free an inode, and no two calls can wait for each
\* other there.
THEOREM LastReference == Spec => []LastUnlocked
<1>1. ASSUME IInv
      PROVE  LastUnlocked
  <2>1. SUFFICES ASSUME NEW p \in Procs, puts[p] # <<>>, freeing[p] = "no", ref[Head(puts[p])] = 1,
                        ~Unlocked(Head(puts[p]))
                 PROVE  FALSE
    BY DEF LastUnlocked
  <2>2. TypeInv /\ CallInv /\ RefsExact /\ LockInv
    BY <1>1 DEF IInv, RefInv
  <2>3. ref[Head(puts[p])] > 1
    BY <2>1, <2>2, LockedTwice
  <2>4. QED
    BY <2>1, <2>3
<1>2. QED
  BY <1>1, Invariance, PTL

-----------------------------------------------------------------------------
(* The second part of the invariant: links, entries, and who can still     *)
(* reach an inode that has none, when no path has the element "..".        *)

\* Entry k of a directory with contents d names inode i.
Places         == 1..DirSlots * MAXFILE
Lists(d, k, i) == /\ d.type = "dir" /\ k <= Len(d.ents)
                  /\ d.ents[k].inum = i /\ d.ents[k].name \in Names

\* The entries that name inode i and the subdirectories of i, on disk.
Entries(i) == {x \in Inums \X Places : Lists(disk[x[1]], x[2], i)}
Dirs(i)    == {k \in Places : \E j \in Inums : Lists(disk[i], k, j) /\ disk[j].type = "dir"}

LinkInv ==
  \A i \in Inums :
    disk[i].nlink >= Cardinality(Entries(i)) + Cardinality(Pending(i)) + Cardinality(Dirs(i))
                     + (IF i = ROOTINO THEN 1 ELSE 0)

\* A name in a directory is that of an inode.
EntInv ==
  \A i \in Inums : \A k \in 1..Len(disk[i].ents) :
    disk[i].ents[k].name \in Names => disk[i].ents[k].inum # None

\* A pointer of process p to an inode that has not been freed through it.
Holds(p, i)   == dp[p] = i \/ cwd[p] = i \/ \E f \in Fds : ofile[p][f].ip = i
LivePut(p, i) == \E k \in 1..2 : PutAt(puts[p], k) = i /\ ~(k = 1 /\ freeing[p] # "no")
Live(p, i)    == ip[p] = i \/ Holds(p, i) \/ LivePut(p, i)

LiveAt(p)  == \A i \in Inums : Live(p, i) => disk[i].type # "free"
LiveInv    == \A p \in Procs : LiveAt(p)

\* An inode that is being freed has no link and no other pointer to it.
FreeingAt(p, i) ==
  freeing[p] = "trunc" /\ Head(puts[p]) = i =>
    disk[i].nlink = 0 /\ disk[i].type # "free" /\ \A q \in Procs : ~Live(q, i)
FreeingInv == \A p \in Procs, i \in Inums : FreeingAt(p, i)

\* Nor has one that create() has just taken.
NewAt(p, i) ==
  pc[p] = "create_new" /\ ip[p] = i =>
    /\ disk[i] = Blank(TypeOf(call[p]))
    /\ \A q \in Procs : ~Holds(q, i) /\ ~LivePut(q, i) /\ (q # p => ip[q] # i)
NewInv == \A p \in Procs, i \in Inums : NewAt(p, i)

\* What calls have found out about their inodes, and rely on.
KindOk(w, point, op, name, i, d) ==
  /\ disk[w].type = "dir"
  /\ d # None /\ point # "nameiparent" => disk[d].type = "dir"
  /\ point \in {"link_start", "link_new", "link_bad"} \/ (point = "nameiparent" /\ op = "link")
       => disk[i].type # "dir"
  /\ point = "unlink_ip" =>
       LET k == dirlookup(disk[d], name) IN
       name \in Names /\ k # 0 /\ disk[d].ents[k].inum = i
KindAt(p) == KindOk(cwd[p], pc[p], call[p], elem[p], ip[p], dp[p])
KindInv == \A p \in Procs : KindAt(p)

\* The first entry of a directory is ".", unless create() is making or has failed to make it.
Dotted(i) == Len(disk[i].ents) > 0 /\ disk[i].ents[1].name = "." /\ disk[i].ents[1].inum = i
Away(p, i) == ~Holds(p, i) /\ (ip[p] = i => pc[p] = "create_new")
Bare(i)   == disk[i].nlink = 0 /\ \A p \in Procs : Away(p, i)
DotAt(i)  == disk[i].type = "dir" => Dotted(i) \/ Bare(i)
DotInv    == \A i \in Inums : DotAt(i)

TreeInv == /\ LinkInv /\ EntInv /\ LiveInv /\ FreeingInv /\ NewInv /\ KindInv /\ DotInv
           /\ ~panicked

\* The same of one process, for the lemmas on steps.
PendsOk(point, op, x, i) ==
  /\ x = i
  /\ point \in {"link_start", "link_new", "link_bad", "unlinked"} \/ (point = "nameiparent" /\ op = "link")
Pends(p, i) == PendsOk(pc[p], call[p], ip[p], i)

\* The inodes of directories, places and processes are finitely many.
LEMMA Finite ==
  /\ IsFiniteSet(Places) /\ IsFiniteSet(Inums \X Places)
  /\ \A i : /\ Cardinality(Entries(i)) \in Nat /\ Cardinality(Pending(i)) \in Nat /\ Cardinality(Dirs(i)) \in Nat
            /\ Cardinality(Entries(i)) = 0 <=> Entries(i) = {}
            /\ Cardinality(Dirs(i)) = 0 <=> Dirs(i) = {}
            /\ Entries(i) \subseteq Inums \X Places /\ Dirs(i) \subseteq Places /\ Pending(i) \subseteq Procs
<1>1. IsFiniteSet(Places)
  <2> DEFINE n == DirSlots * MAXFILE
  <2>1. n \in Int /\ 1 \in Int
    BY Slots
  <2> HIDE DEF n
  <2>2. IsFiniteSet(1..n)
    BY <2>1, FS_Interval
  <2>3. QED
    BY <2>2 DEF Places, n
<1>2. IsFiniteSet(Inums \X Places) /\ IsFiniteSet(Procs)
  BY <1>1, Constants, FS_Product
<1>3. ASSUME NEW i
      PROVE  /\ Cardinality(Entries(i)) \in Nat /\ Cardinality(Pending(i)) \in Nat /\ Cardinality(Dirs(i)) \in Nat
             /\ Cardinality(Entries(i)) = 0 <=> Entries(i) = {}
             /\ Cardinality(Dirs(i)) = 0 <=> Dirs(i) = {}
             /\ Entries(i) \subseteq Inums \X Places /\ Dirs(i) \subseteq Places /\ Pending(i) \subseteq Procs
  <2>1. Entries(i) \subseteq Inums \X Places /\ Dirs(i) \subseteq Places /\ Pending(i) \subseteq Procs
    BY DEF Entries, Dirs, Pending
  <2>2. IsFiniteSet(Entries(i)) /\ IsFiniteSet(Pending(i)) /\ IsFiniteSet(Dirs(i))
    BY <1>1, <1>2, <2>1, FS_Subset
  <2>3. QED
    BY <2>1, <2>2, FS_CardinalityType, FS_EmptySet
<1>4. QED
  BY <1>1, <1>2, <1>3

\* An inode without links is in no directory, has no subdirectory and is not the root.
LEMMA Unlinked ==
  ASSUME LinkInv, DataType, NEW i \in Inums
  PROVE  /\ disk[i].nlink \in Int /\ disk[i].nlink >= 0
         /\ disk[i].nlink = 0 => Entries(i) = {} /\ Dirs(i) = {} /\ i # ROOTINO
<1> DEFINE n == disk[i].nlink
           a == Cardinality(Entries(i))
           b == Cardinality(Pending(i))
           c == Cardinality(Dirs(i))
           e == IF i = ROOTINO THEN 1 ELSE 0
<1>1. n \in Int
  BY NodeParts DEF DataType
<1>2. a \in Nat /\ b \in Nat /\ c \in Nat /\ e \in Nat /\ (a = 0 <=> Entries(i) = {}) /\ (c = 0 <=> Dirs(i) = {})
      /\ (e = 0 <=> i # ROOTINO)
  BY Finite
<1>3. n >= a + b + c + e
  BY DEF LinkInv
<1> HIDE DEF n, a, b, c, e
<1>4. n >= 0 /\ (n = 0 => a = 0 /\ c = 0 /\ e = 0)
  BY <1>1, <1>2, <1>3
<1>5. QED
  BY <1>1, <1>2, <1>4 DEF n

\* An inode that a directory names has a link.
LEMMA Named ==
  ASSUME LinkInv, DataType, NEW i \in Inums, NEW j \in Inums, NEW k \in 1..Len(disk[i].ents), Lists(disk[i], k, j)
  PROVE  disk[j].nlink # 0 /\ k \in Places
<1>1. k \in Places
  <2> DEFINE n == DirSlots * MAXFILE
             m == Len(disk[i].ents)
  <2>1. n \in Nat /\ m \in Nat /\ m <= n /\ k \in 1..m
    BY Slots, NodeParts DEF DataType
  <2> HIDE DEF n, m
  <2>2. k \in 1..n
    BY <2>1
  <2>3. QED
    BY <2>2 DEF Places, n
<1>2. <<i, k>> \in Entries(j)
  BY <1>1 DEF Entries
<1>3. QED
  BY <1>1, <1>2, Unlinked

\* What the process finds in a directory that it has: the directory itself, or an inode with a link.
LEMMA Found ==
  ASSUME TreeInv, DataType, ".." \notin Elems, NEW i \in Inums, disk[i].type = "dir", ~Bare(i), NEW e \in Elems,
         NEW k, k = dirlookup(disk[i], e), k # 0, NEW j, j = disk[i].ents[k].inum
  PROVE  j \in Inums /\ (j = i \/ disk[j].nlink # 0) /\ (e \in Names => Lists(disk[i], k, j) /\ k \in Places)
<1>1. disk[i] \in Node
  BY DEF DataType
<1>2. /\ k \in 1..Len(disk[i].ents) /\ j \in Inums /\ disk[i].ents[k].name = e
  <2>1. k \in 0..Len(disk[i].ents) /\ Len(disk[i].ents) \in Nat
    BY <1>1, Lookup, NodeParts
  <2>2. QED
    BY <1>1, <2>1, Lookup
<1>3. e \in Names \/ e = "."
  BY NameAssumption
<1>4. CASE e \in Names
  <2>1. Lists(disk[i], k, j)
    BY <1>2, <1>4 DEF Lists
  <2>2. QED
    BY <1>2, <2>1, Named DEF TreeInv
<1>5. CASE e = "."
  <2>1. Dotted(i)
    BY DEF TreeInv, DotInv, DotAt
  <2>2. k = 1
    <3> DEFINE d == disk[i]
               T == {n \in 1..Len(d.ents) : d.ents[n].inum # None /\ d.ents[n].name = e}
    <3>1. 1 \in T
      BY <1>1, <1>2, <1>5, <2>1, Constants DEF Dotted
    <3>2. \A n \in T : 1 <= n
      OBVIOUS
    <3>3. k = Min(T)
      BY <3>1 DEF dirlookup, SelectInSeq
    <3>4. Min(T) = 1
      BY <3>1, <3>2 DEF Min
    <3>5. QED
      BY <3>3, <3>4
  <2>3. j = i /\ e \notin Names
    BY <1>5, <2>1, <2>2, NameAssumption DEF Dotted
  <2>4. QED
    BY <1>2, <2>3
<1>6. QED
  BY <1>3, <1>4, <1>5

\* Process p sees the inode on disk when it may lock it or has locked it.
LEMMA Reading ==
  ASSUME IInv, ~panicked, NEW p \in Procs, freeing[p] = "no", NEW i \in Inums, Unlocked(i) \/ lock[i] = p
  PROVE  ilock(i) = disk[i] /\ (NoType(i) <=> disk[i].type = "free")
<1>1. ~Window(i)
  BY NoWindow DEF IInv
<1>2. QED
  BY <1>1, Ilock DEF IInv

\* A step takes a reference of every inode that the process has a pointer to after it and not before.
LEMMA Took ==
  ASSUME IInv, TypeInv', NEW p \in Procs, Balanced(p), Idle(p), NEW j \in Inums, Live(p, j)', ~Live(p, j)
  PROVE  ref'[j] > ref[j]
<1>1. PICK f \in Fds : /\ \A e \in Fds \ {f} : ofile'[p][e].ip = ofile[p][e].ip
                       /\ Settled(p, j, ofile[p][f].ip, ofile'[p][f].ip)
  BY DEF Balanced
<1>2. Same(ip[p], j) = 0 /\ Same(dp[p], j) = 0 /\ Same(cwd[p], j) = 0 /\ Same(ofile[p][f].ip, j) = 0
  BY DEF Live, Holds, Same
<1>3. Same(PutAt(puts[p], 1), j) = 0 /\ Same(PutAt(puts[p], 2), j) = 0
  BY NoPuts DEF Idle
<1>4. \/ Same(ip[p], j)' = 1 \/ Same(dp[p], j)' = 1 \/ Same(cwd[p], j)' = 1 \/ Same(ofile'[p][f].ip, j) = 1
      \/ Same(PutAt(puts[p], 1), j)' = 1 \/ Same(PutAt(puts[p], 2), j)' = 1
  <2>1. CASE Holds(p, j)'
    <3>1. ASSUME NEW e \in Fds, ofile'[p][e].ip = j
          PROVE  e = f
      BY <1>1, <3>1 DEF Live, Holds
    <3>2. QED
      BY <2>1, <3>1 DEF Holds, Same
  <2>2. CASE LivePut(p, j)'
    BY <2>2 DEF LivePut, Same
  <2>3. QED
    BY <2>1, <2>2 DEF Live, Same
<1> DEFINE r0 == ref[j]
           r1 == ref'[j]
           a == Same(ip[p], j)'
           b == Same(dp[p], j)'
           c == Same(cwd[p], j)'
           d == Same(ofile'[p][f].ip, j)
           m == Same(PutAt(puts[p], 1), j)'
           n == Same(PutAt(puts[p], 2), j)'
<1>5. a \in {0, 1} /\ b \in {0, 1} /\ c \in {0, 1} /\ d \in {0, 1} /\ m \in {0, 1} /\ n \in {0, 1}
  BY DEF Same
<1>6. r0 \in Nat /\ r1 \in Nat
  BY DEF IInv, RefInv, TypeInv, DataType
<1>7. r1 + (0 + 0 + 0 + 0 + 0) + 0 = r0 + (a + b + c + m + n) + d
  BY <1>1, <1>2, <1>3 DEF Settled, Held
<1>8. a = 1 \/ b = 1 \/ c = 1 \/ d = 1 \/ m = 1 \/ n = 1
  BY <1>4
<1> HIDE DEF r0, r1, a, b, c, d, m, n
<1>9. r1 > r0
  BY <1>5, <1>6, <1>7, <1>8
<1>10. QED
  BY <1>9 DEF r0, r1

\* A set that gains at most the element s.
LEMMA OneMore ==
  ASSUME NEW S, IsFiniteSet(S), NEW s \in S, NEW V, NEW W, V \subseteq S, W \subseteq S,
         \A z \in S \ {s} : z \in W => z \in V
  PROVE  /\ Cardinality(V) \in Nat /\ Cardinality(W) \in Nat
         /\ Cardinality(W) + (IF s \in V THEN 1 ELSE 0) <= Cardinality(V) + (IF s \in W THEN 1 ELSE 0)
<1> DEFINE U == {z \in V : z # s \/ s \in W}
           X == (V \ {s}) \cup (W \cap {s})
<1>1. IsFiniteSet(V) /\ IsFiniteSet(W) /\ X \subseteq S /\ IsFiniteSet(X) /\ W \subseteq X
  <2>1. X \subseteq S
    OBVIOUS
  <2>2. W \subseteq X
    OBVIOUS
  <2>3. QED
    BY <2>1, <2>2, FS_Subset
<1>2. Cardinality(W) <= Cardinality(X) /\ Cardinality(W) \in Nat /\ Cardinality(X) \in Nat
  BY <1>1, FS_Subset, FS_CardinalityType
<1>3. /\ Cardinality(V) \in Nat
      /\ Cardinality(X) + (IF s \in V THEN 1 ELSE 0) = Cardinality(V) + (IF s \in X THEN 1 ELSE 0)
  <2>1. \A z \in S \ {s} : z \in V <=> z \in X
    OBVIOUS
  <2> HIDE DEF X
  <2>2. QED
    BY <1>1, <2>1, OnePlace
<1>4. s \in X <=> s \in W
  OBVIOUS
<1> DEFINE cv == Cardinality(V)
           cw == Cardinality(W)
           cx == Cardinality(X)
           v == IF s \in V THEN 1 ELSE 0
           w == IF s \in W THEN 1 ELSE 0
<1>5. cx + v = cv + w
  BY <1>3, <1>4
<1>6. cv \in Nat /\ cw \in Nat /\ cx \in Nat /\ cw <= cx /\ v \in Nat /\ w \in Nat
  BY <1>2, <1>3
<1> HIDE DEF cv, cw, cx, v, w, X
<1>7. cw + v <= cv + w
  BY <1>5, <1>6
<1>8. QED
  BY <1>6, <1>7 DEF cv, cw, v, w

\* One entry, one subdirectory and one pending link of process p come or go in a step.
Count(p, x, k, j) == (IF x \in Entries(j) THEN 1 ELSE 0) + (IF Pends(p, j) THEN 1 ELSE 0)
                     + (IF k \in Dirs(j) THEN 1 ELSE 0)

\* Links are counted after a step that changes them in this way.
LEMMA LinkStep ==
  ASSUME LinkInv, DataType, DataType', NEW p \in Procs, Others(p), NEW x \in Inums \X Places, NEW k \in Places,
         \A j \in Inums : \A z \in (Inums \X Places) \ {x} : z \in Entries(j)' => z \in Entries(j),
         \A j \in Inums : \A m \in Places \ {k} : m \in Dirs(j)' => m \in Dirs(j),
         \A j \in Inums : disk'[j].nlink - Count(p, x, k, j)' >= disk[j].nlink - Count(p, x, k, j)
  PROVE  LinkInv'
<1>1. SUFFICES ASSUME NEW j \in Inums
      PROVE disk'[j].nlink >= Cardinality(Entries(j)') + Cardinality(Pending(j)') + Cardinality(Dirs(j)')
                              + (IF j = ROOTINO THEN 1 ELSE 0)
  BY DEF LinkInv
<1> DEFINE e0 == Cardinality(Entries(j))
           e1 == Cardinality(Entries(j)')
           b0 == Cardinality(Pending(j))
           b1 == Cardinality(Pending(j)')
           d0 == Cardinality(Dirs(j))
           d1 == Cardinality(Dirs(j)')
           ex0 == IF x \in Entries(j) THEN 1 ELSE 0
           ex1 == IF x \in Entries(j)' THEN 1 ELSE 0
           bx0 == IF Pends(p, j) THEN 1 ELSE 0
           bx1 == IF Pends(p, j)' THEN 1 ELSE 0
           dx0 == IF k \in Dirs(j) THEN 1 ELSE 0
           dx1 == IF k \in Dirs(j)' THEN 1 ELSE 0
           n0 == disk[j].nlink
           n1 == disk'[j].nlink
           r == IF j = ROOTINO THEN 1 ELSE 0
<1>2. e0 \in Nat /\ e1 \in Nat /\ e1 + ex0 <= e0 + ex1
  <2>1. Entries(j) \subseteq Inums \X Places /\ Entries(j)' \subseteq Inums \X Places
    BY DEF Entries
  <2>2. IsFiniteSet(Inums \X Places)
    BY Finite
  <2> HIDE DEF e0, e1, ex0, ex1
  <2>3. QED
    BY <2>1, <2>2, OneMore DEF e0, e1, ex0, ex1
<1>3. b0 \in Nat /\ b1 \in Nat /\ b1 + bx0 <= b0 + bx1
  <2>1. Pending(j) \subseteq Procs /\ Pending(j)' \subseteq Procs /\ IsFiniteSet(Procs)
    BY Constants DEF Pending
  <2>2. \A q \in Procs \ {p} : q \in Pending(j)' => q \in Pending(j)
    BY DEF Pending, Others
  <2>3. (p \in Pending(j) <=> Pends(p, j)) /\ (p \in Pending(j)' <=> Pends(p, j)')
    BY DEF Pending, Pends, PendsOk
  <2>4. /\ b0 \in Nat /\ b1 \in Nat
        /\ b1 + (IF p \in Pending(j) THEN 1 ELSE 0) <= b0 + (IF p \in Pending(j)' THEN 1 ELSE 0)
    BY <2>1, <2>2, OneMore
  <2>5. QED
    BY <2>3, <2>4
<1>4. d0 \in Nat /\ d1 \in Nat /\ d1 + dx0 <= d0 + dx1
  <2>1. Dirs(j) \subseteq Places /\ Dirs(j)' \subseteq Places /\ IsFiniteSet(Places)
    BY Finite DEF Dirs
  <2>2. QED
    BY <2>1, OneMore
<1>5. n0 \in Int /\ n1 \in Int
  BY NodeParts DEF DataType
<1>6. n0 >= e0 + b0 + d0 + r
  BY DEF LinkInv
<1>7. n1 - (ex1 + bx1 + dx1) >= n0 - (ex0 + bx0 + dx0)
  BY DEF Count
<1>8. ex0 \in Nat /\ ex1 \in Nat /\ bx0 \in Nat /\ bx1 \in Nat /\ dx0 \in Nat /\ dx1 \in Nat /\ r \in Nat
  OBVIOUS
<1> HIDE DEF e0, e1, b0, b1, d0, d1, ex0, ex1, bx0, bx1, dx0, dx1, n0, n1, r
<1>9. n1 >= e1 + b1 + d1 + r
  BY <1>2, <1>3, <1>4, <1>5, <1>6, <1>7, <1>8
<1>10. QED
  BY <1>9 DEF e1, b1, d1, n1, r

\* What a step of process p may do to inode j: change one that it has a pointer to and that no other
\* process has locked, or take one that is free.
Touched(p, j) ==
  \/ disk'[j] = disk[j]
  \/ Live(p, j) /\ lock[j] \in {None, p} /\ disk'[j].type = disk[j].type
  \/ disk[j].type = "free" /\ DotAt(j)'
\* And what it may have a pointer to after it.
Gained(p, j) == Live(p, j)' => \/ Live(p, j)
                               \/ disk[j].nlink # 0
                               \/ disk[j].type = "free" /\ disk'[j].type # "free"
Dots(j) == disk[j].type = "dir" /\ Dotted(j) => Dotted(j)'

\* The invariant after a step of a call that keeps links, entries and what the call relies on.
LEMMA TreeStep ==
  ASSUME IInv, TreeInv, NEW p \in Procs, Good(p), ~panicked', Idle(p), freeing' = freeing,
         \A j \in Inums : Touched(p, j) /\ Gained(p, j) /\ Dots(j),
         pc[p] = "create_new" => \A j \in Inums : ip[p] = j => DotAt(j)',
         LinkInv', EntInv', KindAt(p)', \A j \in Inums : NewAt(p, j)'
  PROVE  TreeInv'
<1> USE DEF TreeInv
<1>1. Others(p) /\ TypeInv' /\ freeing[p] = "no" /\ DataType /\ DataType' /\ CacheInv
  BY Own DEF Good, IInv, TypeInv
<1>2. \A q \in Procs \ {p}, j \in Inums : /\ Live(q, j)' <=> Live(q, j)
                                          /\ Holds(q, j)' <=> Holds(q, j)
                                          /\ LivePut(q, j)' <=> LivePut(q, j)
                                          /\ Away(q, j)' <=> Away(q, j)
  BY <1>1 DEF Live, Holds, LivePut, Away, Others
<1>3. \A j \in Inums : disk[j].type # "free" => disk'[j].type = disk[j].type
  BY DEF Touched
<1>4. \A j \in Inums : disk[j].nlink # 0 => disk[j].type # "free"
  BY <1>1, BlankNode DEF CacheInv, Kinds
<1>5. \A j \in Inums : ~Live(p, j) /\ disk[j].nlink = 0 /\ disk[j].type # "free" => ~Live(p, j)' /\ disk'[j] = disk[j]
  BY DEF Touched, Gained
<1>6. LiveInv'
  <2>1. ASSUME NEW q \in Procs, NEW j \in Inums, Live(q, j)'
        PROVE  disk'[j].type # "free"
    <3>1. CASE q # p
      BY <1>2, <1>3, <2>1, <3>1 DEF LiveInv, LiveAt
    <3>2. CASE q = p
      BY <1>3, <1>4, <2>1, <3>2 DEF LiveInv, LiveAt, Gained
    <3>3. QED
      BY <3>1, <3>2
  <2>2. QED
    BY <2>1 DEF LiveInv, LiveAt
<1>7. FreeingInv'
  <2>1. ASSUME NEW q \in Procs, NEW j \in Inums, freeing'[q] = "trunc", Head(puts'[q]) = j
        PROVE  disk'[j].nlink = 0 /\ disk'[j].type # "free" /\ \A r \in Procs : ~Live(r, j)'
    <3>1. q # p /\ freeing[q] = "trunc" /\ Head(puts[q]) = j
      BY <1>1, <2>1 DEF Others
    <3>2. disk[j].nlink = 0 /\ disk[j].type # "free" /\ \A r \in Procs : ~Live(r, j)
      BY <3>1 DEF FreeingInv, FreeingAt
    <3>3. QED
      BY <1>2, <1>5, <3>2
  <2>2. QED
    BY <2>1 DEF FreeingInv, FreeingAt
<1>8. NewInv'
  <2>1. ASSUME NEW q \in Procs, NEW j \in Inums, q # p, pc'[q] = "create_new", ip'[q] = j
        PROVE  /\ disk'[j] = Blank(TypeOf(call'[q]))
               /\ \A r \in Procs : ~Holds(r, j)' /\ ~LivePut(r, j)' /\ (r # q => ip'[r] # j)
    <3>1. pc[q] = "create_new" /\ ip[q] = j /\ call'[q] = call[q]
      BY <1>1, <2>1 DEF Others
    <3>2. /\ disk[j] = Blank(TypeOf(call[q]))
          /\ \A r \in Procs : ~Holds(r, j) /\ ~LivePut(r, j) /\ (r # q => ip[r] # j)
      BY <3>1 DEF NewInv, NewAt
    <3>3. ~Live(p, j)
      BY <2>1, <3>2 DEF Live
    <3>4. disk[j].type # "free"
      BY <3>1 DEF LiveInv, LiveAt, Live
    <3>5. disk[j].nlink = 0
      BY <3>2 DEF Blank
    <3>6. ~Live(p, j)' /\ disk'[j] = disk[j]
      BY <1>5, <3>3, <3>4, <3>5
    <3>7. \A r \in Procs \ {p} : ip'[r] = ip[r]
      BY <1>1 DEF Others
    <3>8. ASSUME NEW r \in Procs
          PROVE  ~Holds(r, j)' /\ ~LivePut(r, j)' /\ (r # q => ip'[r] # j)
      <4>1. CASE r = p
        BY <3>6, <4>1 DEF Live
      <4>2. CASE r # p
        BY <1>2, <3>2, <3>7, <4>2
      <4>3. QED
        BY <4>1, <4>2
    <3>9. QED
      BY <3>1, <3>2, <3>6, <3>8
  <2>2. ASSUME NEW q \in Procs, NEW j \in Inums
        PROVE  NewAt(q, j)'
    <3>1. CASE q = p
      BY <3>1
    <3>2. CASE q # p
      BY <2>1, <3>2 DEF NewAt
    <3>3. QED
      BY <3>1, <3>2
  <2>3. QED
    BY <2>2 DEF NewInv
<1>9. KindInv'
  <2>1. ASSUME NEW q \in Procs, q # p
        PROVE  KindAt(q)'
    <3>1. /\ pc'[q] = pc[q] /\ call'[q] = call[q] /\ elem'[q] = elem[q] /\ ip'[q] = ip[q] /\ dp'[q] = dp[q]
          /\ cwd'[q] = cwd[q]
      BY <1>1, <2>1 DEF Others
    <3>2. KindAt(q)
      BY DEF KindInv
    <3>3. ip[q] \in Inums \cup {None} /\ dp[q] \in Inums \cup {None} /\ cwd[q] \in Inums
      BY Own
    <3>4. /\ disk'[cwd[q]].type = disk[cwd[q]].type
          /\ ip[q] # None => disk'[ip[q]].type = disk[ip[q]].type
          /\ dp[q] # None => disk'[dp[q]].type = disk[dp[q]].type
      BY <1>3, <3>3 DEF LiveInv, LiveAt, Live, Holds
    <3>5. /\ pc[q] \in {"link_start", "link_new", "link_bad"} \/ (pc[q] = "nameiparent" /\ call[q] = "link")
               => ip[q] # None
          /\ pc[q] = "unlink_ip" => dp[q] # None /\ lock[dp[q]] = q
      <4>1. CallOk(pc[q], call[q], elem[q], ip[q], dp[q])
        BY Own
      <4>2. pc[q] = "unlink_ip" => dp[q] # None /\ Locked(q) = dp[q]
        BY <4>1 DEF CallOk, WithDp, Locked, LockedAt
      <4>3. QED
        BY <3>3, <4>1, <4>2, Mine, Constants DEF CallOk, WithIp
    <3>6. pc[q] = "unlink_ip" => disk'[dp[q]] = disk[dp[q]]
      <4>1. SUFFICES ASSUME pc[q] = "unlink_ip"
                     PROVE  disk'[dp[q]] = disk[dp[q]]
        OBVIOUS
      <4>2. dp[q] \in Inums /\ lock[dp[q]] \notin {None, p} /\ disk[dp[q]].type # "free"
        BY <2>1, <3>3, <3>5, <4>1, Constants DEF LiveInv, LiveAt, Live, Holds
      <4>3. QED
        BY <4>2 DEF Touched
    <3>7. QED
      BY <3>1, <3>2, <3>4, <3>5, <3>6 DEF KindAt, KindOk
  <2>2. ASSUME NEW q \in Procs
        PROVE  KindAt(q)'
    <3>1. CASE q = p
      BY <3>1
    <3>2. CASE q # p
      BY <2>1, <3>2
    <3>3. QED
      BY <3>1, <3>2
  <2>3. QED
    BY <2>2 DEF KindInv
<1>10. DotInv'
  <2>1. ASSUME NEW j \in Inums, disk'[j].type = "dir"
        PROVE  Dotted(j)' \/ Bare(j)'
    <3>1. CASE disk[j].type = "free"
      <4>1. DotAt(j)'
        BY <2>1, <3>1 DEF Touched
      <4>2. QED
        BY <2>1, <4>1 DEF DotAt
    <3>2. CASE disk[j].type = "dir" /\ Dotted(j)
      BY <3>2 DEF Dots
    <3>3. CASE disk[j].type = "dir" /\ Bare(j) /\ Live(p, j)
      <4>1. pc[p] = "create_new" /\ ip[p] = j
        <5>1. ~LivePut(p, j)
          BY NoPuts, Constants DEF LivePut, Idle
        <5>2. QED
          BY <3>3, <5>1 DEF Bare, Away, Live
      <4>2. DotAt(j)'
        BY <4>1
      <4>3. QED
        BY <2>1, <4>2 DEF DotAt
    <3>4. CASE disk[j].type = "dir" /\ Bare(j) /\ ~Live(p, j)
      <4>1. disk[j].nlink = 0 /\ \A q \in Procs : Away(q, j)
        BY <3>4 DEF Bare
      <4>2. ~Live(p, j)' /\ disk'[j] = disk[j]
        BY <1>5, <3>4, <4>1
      <4>3. Away(p, j)'
        BY <4>2 DEF Live, Away
      <4>4. \A q \in Procs : Away(q, j)'
        BY <1>2, <4>1, <4>3
      <4>5. QED
        BY <4>1, <4>2, <4>4 DEF Bare
    <3>5. QED
      BY <1>3, <2>1, <3>1, <3>2, <3>3, <3>4 DEF DotInv, DotAt
  <2>2. QED
    BY <2>1 DEF DotInv, DotAt
<1>11. QED
  BY <1>6, <1>7, <1>8, <1>9, <1>10

\* Lists of names are the same when the entries are.
LEMMA SameLookup ==
  ASSUME NEW d, NEW e, d.ents = e.ents, NEW nm
  PROVE  dirlookup(d, nm) = dirlookup(e, nm)
BY DEF dirlookup, SelectInSeq

\* Where a call is after Goto and Set.
LEMMA Arrived ==
  ASSUME CallType, NEW p \in Procs, NEW point, NEW s, NEW op, NEW name, NEW x, NEW y,
         Going(p, point, s, op, name, x, y)
  PROVE  pc'[p] = point /\ puts'[p] = s /\ call'[p] = op /\ elem'[p] = name /\ ip'[p] = x /\ dp'[p] = y
BY DEF Going, Goto, Set, CallType

\* The inode keeps its type, links and, if it is a directory, entries.
SameTree(j) == /\ disk'[j].type = disk[j].type /\ disk'[j].nlink = disk[j].nlink
               /\ disk'[j].ents = disk[j].ents \/ (disk[j].type # "dir" /\ disk'[j].ents = <<>>)
Calm(p, j)  == disk'[j] = disk[j] \/ (SameTree(j) /\ Live(p, j) /\ lock[j] \in {None, p})

\* Entries and subdirectories are the same.
LEMMA SameLists ==
  ASSUME \A j \in Inums : SameTree(j), NEW i \in Inums
  PROVE  Entries(i)' = Entries(i) /\ Dirs(i)' = Dirs(i)
<1>1. \A j, n \in Inums : \A k : Lists(disk'[j], k, n) <=> Lists(disk[j], k, n)
  BY DEF SameTree, Lists
<1>2. \A x \in Inums \X Places : x[1] \in Inums
  OBVIOUS
<1>3. QED
  BY <1>1, <1>2 DEF Entries, Dirs, SameTree

\* A step that keeps the tree and the links that are pending keeps the invariant.
LEMMA CalmStep ==
  ASSUME IInv, TreeInv, NEW p \in Procs, Good(p), ~panicked', Idle(p), freeing' = freeing, pc[p] # "create_new",
         NEW point, NEW s, NEW op, NEW name, NEW x, NEW y,
         Going(p, point, s, op, name, x, y), point # "create_new",
         NEW w, cwd'[p] = w, KindOk(w, point, op, name, x, y),
         \A j \in Inums : Calm(p, j) /\ (PendsOk(point, op, x, j) <=> Pends(p, j)),
         NEW g, \A j \in Inums : Taken(g, j),
         \A j \in Inums : g = j => disk[j].nlink # 0 \/ Live(p, j)
  PROVE  TreeInv'
<1>1. Others(p) /\ TypeInv' /\ freeing[p] = "no" /\ DataType /\ DataType' /\ CallType /\ CallType'
      /\ Balanced(p) /\ IInv'
  BY Own, GoodStep DEF Good, IInv, TypeInv
<1>2. pc'[p] = point /\ puts'[p] = s /\ call'[p] = op /\ elem'[p] = name /\ ip'[p] = x /\ dp'[p] = y
  BY <1>1, Arrived
<1>3. \A j \in Inums : SameTree(j)
  BY DEF Calm, SameTree
<1>4. \A j \in Inums : Touched(p, j)
  BY DEF Calm, Touched, SameTree
<1>5. ASSUME NEW j \in Inums
      PROVE  Gained(p, j)
  <2>1. SUFFICES ASSUME Live(p, j)', ~Live(p, j)
                 PROVE  disk[j].nlink # 0
    BY DEF Gained
  <2>2. ref'[j] > ref[j]
    BY <1>1, <2>1, Took
  <2>3. ref[j] \in Nat /\ ref'[j] = ref[j] + Same(g, j)
    BY <1>1 DEF DataType, Taken
  <2>4. g = j
    BY <2>2, <2>3 DEF Same
  <2>5. QED
    BY <2>1, <2>4
<1>6. \A j \in Inums : Dots(j)
  BY <1>3 DEF Dots, Dotted, SameTree
<1>7. LinkInv'
  <2>1. \A j \in Inums : Entries(j)' = Entries(j) /\ Dirs(j)' = Dirs(j)
    BY <1>3, SameLists
  <2>2. \A j \in Inums : Pending(j)' = Pending(j)
    <3>1. ASSUME NEW j \in Inums, NEW q \in Procs
          PROVE  Pends(q, j)' <=> Pends(q, j)
      <4>1. CASE q = p
        BY <1>2, <4>1 DEF Pends
      <4>2. CASE q # p
        BY <1>1, <4>2 DEF Pends, Others
      <4>3. QED
        BY <4>1, <4>2
    <3>2. QED
      BY <3>1 DEF Pending, Pends, PendsOk
  <2>3. \A j \in Inums : disk'[j].nlink = disk[j].nlink
    BY <1>3 DEF SameTree
  <2>4. QED
    BY <2>1, <2>2, <2>3 DEF LinkInv, TreeInv
<1>8. EntInv'
  <2>1. ASSUME NEW i \in Inums, NEW k \in 1..Len(disk'[i].ents), disk'[i].ents[k].name \in Names
        PROVE  disk'[i].ents[k].inum # None
    <3>1. disk'[i].ents = disk[i].ents \/ disk'[i].ents = <<>>
      BY <1>3 DEF SameTree
    <3>2. disk'[i].ents # <<>>
      OBVIOUS
    <3>3. QED
      BY <2>1, <3>1, <3>2 DEF TreeInv, EntInv
  <2>2. QED
    BY <2>1 DEF EntInv
<1>9. KindAt(p)'
  <2>1. w \in Inums /\ x \in Inums \cup {None} /\ y \in Inums \cup {None}
    BY <1>1, <1>2, Own DEF CallType, Good, TypeInv, ProcType
  <2>2. CallOk(point, op, name, x, y)
    BY <1>2 DEF Good, CallAt
  <2>3. KindOk(w, point, op, name, x, y)'
    <3>1. \A j \in Inums : disk'[j].type = disk[j].type
      BY <1>3 DEF SameTree
    <3>2. y # None /\ point # "nameiparent" => disk'[y].ents = disk[y].ents
      BY <1>3, <2>1 DEF KindOk, SameTree
    <3>3. y # None /\ point # "nameiparent" => dirlookup(disk'[y], name) = dirlookup(disk[y], name)
      BY <3>2, SameLookup
    <3>4. /\ point \in {"link_start", "link_new", "link_bad"} \/ (point = "nameiparent" /\ op = "link") => x # None
          /\ point = "unlink_ip" => y # None
      BY <2>2 DEF CallOk, WithIp, WithDp
    <3>5. QED
      BY <2>1, <3>1, <3>2, <3>3, <3>4 DEF KindOk
  <2>4. QED
    BY <1>2, <2>3 DEF KindAt
<1>10. \A j \in Inums : NewAt(p, j)'
  BY <1>2 DEF NewAt
<1>11. QED
  BY <1>4, <1>5, <1>6, <1>7, <1>8, <1>9, <1>10, TreeStep

\* Inode j is there for process p to lock, or it has locked it.
Has(p, j) == j \in Inums /\ Live(p, j) /\ lock[j] \in {None, p}

\* A step on inodes that the process has, locked or not locked by another, meets no panic.
LEMMA Safe ==
  ASSUME IInv, TreeInv, NEW p \in Procs, Idle(p), NEW f, NEW d, NEW g, NEW assert, assert,
         Access(f, d, g, assert), \A j \in DOMAIN f : Has(p, j)
  PROVE  ~panicked'
<1>1. freeing[p] = "no" /\ ~panicked
  BY Own DEF TreeInv
<1>2. ASSUME NEW j \in DOMAIN f
      PROVE  ~NoType(j)
  <2>1. j \in Inums /\ disk[j].type # "free" /\ (Unlocked(j) \/ lock[j] = p)
    BY DEF Has, TreeInv, LiveInv, LiveAt, Unlocked
  <2>2. QED
    BY <1>1, <2>1, Reading
<1>3. QED
  BY <1>2 DEF Access

\* A step that writes no links, types or entries.
Mild(p, d) == \A j \in DOMAIN d :
  Has(p, j) /\ d[j].type = disk[j].type /\ d[j].nlink = disk[j].nlink
  /\ (d[j].ents = disk[j].ents \/ (disk[j].type # "dir" /\ d[j].ents = <<>>))
SamePends(p, point, op, x) == \A j \in Inums : PendsOk(point, op, x, j) <=> Pends(p, j)

\* A step that writes inodes that the process has, and leaves links and entries as they are, keeps the tree.
LEMMA CalmAccess ==
  ASSUME IInv, TreeInv, NEW p \in Procs, NEW at, At(p, at), at # "create_new", Good(p), freeing' = freeing,
         NEW f, NEW d, NEW g \in Inums \cup {None}, NEW assert, assert,
         Access(f, d, g, assert), \A j \in DOMAIN f : Has(p, j), Mild(p, d),
         g # None => disk[g].nlink # 0 \/ Live(p, g),
         NEW point, NEW s, NEW op, NEW name, NEW x, NEW y,
         Going(p, point, s, op, name, x, y), point # "create_new",
         NEW w, cwd'[p] = w, KindOk(w, point, op, name, x, y), SamePends(p, point, op, x)
  PROVE  TreeInv'
<1>1. ~panicked' /\ Idle(p) /\ pc[p] # "create_new" /\ DataType
  BY Started, Safe, Own
<1>2. \A j \in Inums : Calm(p, j)
  BY DEF Mild, Access, Calm, SameTree, Has
<1>3. \A j \in Inums : Taken(g, j)
  BY <1>1, Constants DEF Access, Taken, Same, DataType
<1>4. \A j \in Inums : g = j => disk[j].nlink # 0 \/ Live(p, j)
  BY Constants
<1>5. \A j \in Inums : Calm(p, j) /\ (PendsOk(point, op, x, j) <=> Pends(p, j))
  BY <1>2 DEF SamePends
<1>6. QED
  BY <1>1, <1>3, <1>4, <1>5, CalmStep

\* A step that writes nothing.
LEMMA CalmLook ==
  ASSUME IInv, TreeInv, NEW p \in Procs, NEW at, At(p, at), at # "create_new", Good(p), freeing' = freeing,
         NEW i, Has(p, i), NEW g \in Inums \cup {None}, Look(i, g),
         g # None => disk[g].nlink # 0 \/ Live(p, g),
         NEW point, NEW s, NEW op, NEW name, NEW x, NEW y,
         Going(p, point, s, op, name, x, y), point # "create_new",
         NEW w, cwd'[p] = w, KindOk(w, point, op, name, x, y), SamePends(p, point, op, x)
  PROVE  TreeInv'
<1>1. Access(On(i, ilock(i)), Nothing, g, TRUE)
  BY DEF Look
<1>2. \A j \in DOMAIN On(i, ilock(i)) : Has(p, j)
  <2>1. DOMAIN On(i, ilock(i)) = {i}
    BY Contents
  <2>2. QED
    BY <2>1
<1>3. Mild(p, Nothing)
  BY Contents DEF Mild
<1>4. QED
  BY <1>1, <1>2, <1>3, CalmAccess

\* A step that does not even lock an inode, and takes a reference of one that has a link or that the
\* process has a pointer to.
LEMMA CalmWalk ==
  ASSUME IInv, TreeInv, NEW p \in Procs, NEW at, At(p, at), at # "create_new", Good(p), freeing' = freeing,
         disk' = disk, panicked' = panicked,
         NEW g \in Inums \cup {None}, ref' = IF g = None THEN ref ELSE [ref EXCEPT ![g] = @ + 1],
         g # None => disk[g].nlink # 0 \/ Live(p, g),
         NEW point, NEW s, NEW op, NEW name, NEW x, NEW y,
         Going(p, point, s, op, name, x, y), point # "create_new",
         NEW w, cwd'[p] = w, KindOk(w, point, op, name, x, y), SamePends(p, point, op, x)
  PROVE  TreeInv'
<1>1. ~panicked' /\ Idle(p) /\ pc[p] # "create_new" /\ DataType
  BY Started, Own
<1>2. \A j \in Inums : Calm(p, j) /\ (PendsOk(point, op, x, j) <=> Pends(p, j))
  BY DEF Calm, SamePends
<1>3. \A j \in Inums : Taken(g, j)
  BY <1>1, Constants DEF Taken, Same, DataType
<1>4. \A j \in Inums : g = j => disk[j].nlink # 0 \/ Live(p, j)
  BY Constants
<1>5. QED
  BY <1>1, <1>2, <1>3, <1>4, CalmStep

\* What a call has found out about its inodes, and what it relies on when it has returned.
LEMMA Knows ==
  ASSUME IInv, TreeInv, NEW p \in Procs, Idle(p)
  PROVE  /\ KindOk(cwd[p], pc[p], call[p], elem[p], ip[p], dp[p]) /\ disk[cwd[p]].type = "dir"
         /\ KindOk(cwd[p], "user", "none", "", None, None)
         /\ \A op, x : PendsOk(pc[p], call[p], ip[p], x) <=> Pends(p, x)
         /\ disk[ROOTINO].nlink # 0 /\ ROOTINO \in Inums /\ cwd[p] \in Inums
         /\ Live(p, cwd[p]) /\ disk[cwd[p]].type # "free"
         /\ \A i \in Inums : Live(p, i) <=> ip[p] = i \/ Holds(p, i)
         /\ \A i \in Inums : Live(p, i) => disk[i].type # "free"
<1>1. KindOk(cwd[p], pc[p], call[p], elem[p], ip[p], dp[p]) /\ disk[cwd[p]].type = "dir"
  BY DEF TreeInv, KindInv, KindAt, KindOk
<1>2. KindOk(cwd[p], "user", "none", "", None, None)
  BY <1>1 DEF KindOk
<1>3. ROOTINO \in Inums /\ cwd[p] \in Inums /\ disk[ROOTINO].nlink # 0
  BY Own, Constants, Unlinked DEF TreeInv
<1>4. \A i \in Inums : ~LivePut(p, i)
  BY NoPuts, Constants DEF LivePut, Idle
<1>5. QED
  BY <1>1, <1>2, <1>3, <1>4 DEF Pends, Live, Holds, TreeInv, LiveInv, LiveAt

\* What it finds in a directory has a link, unless it is the directory.
LEMMA Finds ==
  ASSUME IInv, TreeInv, ".." \notin Elems, NEW p \in Procs, Idle(p), NEW i \in Inums,
         dp[p] = i \/ (ip[p] = i /\ pc[p] # "create_new"), Has(p, i),
         NEW e \in Elems, ilock(i).type = "dir", NEW k, k = dirlookup(ilock(i), e), k # 0,
         NEW g, g = ilock(i).ents[k].inum
  PROVE  /\ ilock(i) = disk[i] /\ g \in Inums /\ (disk[g].nlink # 0 \/ Live(p, g))
         /\ e \in Names => Lists(disk[i], k, g) /\ disk[g].nlink # 0 /\ k \in Places
<1>1. ilock(i) = disk[i] /\ DataType
  BY Reading, Own DEF Has, Unlocked, TreeInv
<1>2. ~Bare(i)
  BY DEF Bare, Away, Holds
<1>3. g \in Inums /\ (g = i \/ disk[g].nlink # 0) /\ (e \in Names => Lists(disk[i], k, g) /\ k \in Places)
  BY <1>1, <1>2, Found
<1>4. e \in Names => disk[g].nlink # 0
  <2>1. SUFFICES ASSUME e \in Names
                 PROVE  disk[g].nlink # 0
    OBVIOUS
  <2>2. Lists(disk[i], k, g) /\ k \in 1..Len(disk[i].ents)
    BY <1>1, <1>3, <2>1, Lookup, NodeParts DEF DataType
  <2>3. QED
    BY <1>1, <1>3, <2>2, Named DEF TreeInv
<1>5. QED
  BY <1>1, <1>3, <1>4 DEF Has

-----------------------------------------------------------------------------
(* The steps that keep the tree.                                           *)

\* A call begins at the root or at the current directory.
LEMMA BeginTree ==
  ASSUME IInv, TreeInv, NEW p \in Procs, Begin(p)
  PROVE  TreeInv'
<1>1. PICK o \in Calls[p], i \in {ROOTINO, cwd[p]} :
        /\ Enter(p) /\ StartWalk(i)
        /\ \/ /\ o \in PathCalls
              /\ Goto(p, "namei", <<>>)
              /\ ip' = [ip EXCEPT ![p] = i]
              /\ call' = [call EXCEPT ![p] = o]
              /\ UNCHANGED <<elem, dp>>
           \/ /\ o \in ParentCalls
              /\ Goto(p, "nameiparent", <<>>)
              /\ dp' = [dp EXCEPT ![p] = i]
              /\ call' = [call EXCEPT ![p] = o]
              /\ UNCHANGED <<elem, ip>>
           \/ o \in ParentCalls /\ Return(p, <<i>>)
        /\ UNCHANGED <<disk, used, valid, mem, lock, freeing, cwd, ofile, panicked>>
  BY DEF Begin
<1>2. At(p, "user") /\ Good(p) /\ Idle(p) /\ pc[p] = "user"
  BY <1>1, BeginGood, Started DEF Enter
<1>3. CallType /\ ip[p] = None /\ dp[p] = None /\ cwd[p] \in Inums
  BY <1>2, Own DEF CallOk, WithIp, WithDp
<1>4. i \in Inums /\ i # None /\ (disk[i].nlink # 0 \/ Live(p, i))
  BY <1>1, <1>2, Knows, Constants
<1>5. ref' = (IF i = None THEN ref ELSE [ref EXCEPT ![i] = @ + 1]) /\ freeing' = freeing /\ disk' = disk
      /\ panicked' = panicked /\ cwd'[p] = cwd[p]
  BY <1>1, <1>4 DEF StartWalk
<1>6. disk[cwd[p]].type = "dir"
  BY <1>2, Knows
<1>7. ~Pends(p, None) /\ \A j \in Inums : ~Pends(p, j)
  BY <1>2 DEF Pends, PendsOk
<1>8. CASE o \in PathCalls /\ Goto(p, "namei", <<>>) /\ ip' = [ip EXCEPT ![p] = i]
           /\ call' = [call EXCEPT ![p] = o] /\ UNCHANGED <<elem, dp>>
  <2>1. Going(p, "namei", <<>>, o, elem[p], i, None)
    BY <1>3, <1>8, Unset DEF Set, Going
  <2>2. KindOk(cwd[p], "namei", o, elem[p], i, None) /\ SamePends(p, "namei", o, i)
    BY <1>6, <1>7 DEF KindOk, SamePends, PendsOk
  <2>3. QED
    BY <1>2, <1>4, <1>5, <2>1, <2>2, CalmWalk
<1>9. CASE o \in ParentCalls /\ Goto(p, "nameiparent", <<>>) /\ dp' = [dp EXCEPT ![p] = i]
           /\ call' = [call EXCEPT ![p] = o] /\ UNCHANGED <<elem, ip>>
  <2>1. Going(p, "nameiparent", <<>>, o, elem[p], None, i)
    BY <1>3, <1>9, Unset DEF Set, Going
  <2>2. KindOk(cwd[p], "nameiparent", o, elem[p], None, i) /\ SamePends(p, "nameiparent", o, None)
    BY <1>6, <1>7, <1>9 DEF KindOk, SamePends, PendsOk, ParentCalls
  <2>3. QED
    BY <1>2, <1>4, <1>5, <2>1, <2>2, CalmWalk
<1>10. CASE o \in ParentCalls /\ Return(p, <<i>>)
  <2>1. Going(p, "user", <<i>>, "none", "", None, None)
    BY <1>10 DEF Set, Return, Going
  <2>2. KindOk(cwd[p], "user", "none", "", None, None) /\ SamePends(p, "user", "none", None)
    BY <1>6, <1>7 DEF KindOk, SamePends, PendsOk
  <2>3. QED
    BY <1>2, <1>4, <1>5, <2>1, <2>2, CalmWalk
<1>11. QED
  BY <1>1, <1>8, <1>9, <1>10

\* namei() finds inodes that have a link, or that are the directory it looks in.
LEMMA nameiTree ==
  ASSUME IInv, TreeInv, ".." \notin Elems, NEW p \in Procs, namei(p)
  PROVE  TreeInv'
<1>1. At(p, "namei") /\ freeing' = freeing /\ cwd'[p] = cwd[p] /\ Good(p)
  BY nameiGood DEF namei, procs
<1>2. Idle(p) /\ pc[p] = "namei"
  BY <1>1, Started
<1>3. CallType /\ ip[p] \in Inums /\ dp[p] = None /\ call[p] \in PathCalls /\ DataType
  BY <1>2, Own DEF CallOk, WithIp, WithDp
<1>4. disk[cwd[p]].type = "dir" /\ (\A j \in Inums : ~Pends(p, j))
  BY <1>2, Knows DEF Pends, PendsOk
<1>5. \A y : y = None => \A point \in {"namei", "open", "chdir", "link", "user"} : \A op, name, x :
        KindOk(cwd[p], point, op, name, x, y) /\ SamePends(p, point, op, x)
  BY <1>4 DEF KindOk, SamePends, PendsOk
<1>6. CASE Goto(p, call[p], <<>>) /\ UNCHANGED <<disk, used, ref, valid, mem, locals, panicked>>
  <2>1. Going(p, call[p], <<>>, call[p], elem[p], ip[p], None)
    BY <1>3, <1>6, Unset DEF Set, Going, locals
  <2>2. call[p] \in {"namei", "open", "chdir", "link", "user"} /\ call[p] # "create_new"
    BY <1>3 DEF PathCalls
  <2>3. disk' = disk /\ panicked' = panicked /\ ref' = IF None = None THEN ref ELSE [ref EXCEPT ![None] = @ + 1]
    BY <1>6
  <2>4. KindOk(cwd[p], call[p], call[p], elem[p], ip[p], None) /\ SamePends(p, call[p], call[p], ip[p])
    BY <1>5, <2>2
  <2>5. None \in Inums \cup {None}
    OBVIOUS
  <2>6. QED
    BY <1>1, <2>1, <2>2, <2>3, <2>4, <2>5, CalmWalk
<1>7. ASSUME NEW e \in Elems, Unlocked(ip[p]),
             LET d == ilock(ip[p])
                 k == dirlookup(d, e) IN
             IF d.type # "dir" \/ k = 0
             THEN Look(ip[p], None) /\ Return(p, <<ip[p]>>)
             ELSE /\ Look(ip[p], d.ents[k].inum)
                  /\ Goto(p, "namei", <<ip[p]>>)
                  /\ ip' = [ip EXCEPT ![p] = d.ents[k].inum]
                  /\ UNCHANGED <<call, elem, dp>>
      PROVE  TreeInv'
  <2> DEFINE d == ilock(ip[p])
             k == dirlookup(d, e)
             g == d.ents[k].inum
  <2>1. Has(p, ip[p])
    BY <1>3, <1>7 DEF Has, Live, Unlocked
  <2>2. CASE d.type # "dir" \/ k = 0
    <3>1. Look(ip[p], None) /\ Return(p, <<ip[p]>>)
      BY <1>7, <2>2
    <3>2. Going(p, "user", <<ip[p]>>, "none", "", None, None)
      BY <3>1 DEF Set, Return, Going
    <3>3. None \in Inums \cup {None} /\ KindOk(cwd[p], "user", "none", "", None, None)
          /\ SamePends(p, "user", "none", None)
      BY <1>5
    <3>4. QED
      BY <1>1, <2>1, <3>1, <3>2, <3>3, CalmLook
  <2>3. CASE ~(d.type # "dir" \/ k = 0)
    <3>1. /\ Look(ip[p], g) /\ Goto(p, "namei", <<ip[p]>>)
          /\ ip' = [ip EXCEPT ![p] = g] /\ UNCHANGED <<call, elem, dp>>
      BY <1>7, <2>3
    <3>2. g \in Inums /\ (disk[g].nlink # 0 \/ Live(p, g))
      BY <1>2, <1>3, <2>1, <2>3, Finds
    <3> HIDE DEF g
    <3>3. Going(p, "namei", <<ip[p]>>, call[p], elem[p], g, None)
      BY <1>3, <3>1, Unset DEF Set, Going
    <3>4. KindOk(cwd[p], "namei", call[p], elem[p], g, None) /\ SamePends(p, "namei", call[p], g)
      BY <1>5
    <3>5. QED
      BY <1>1, <2>1, <3>1, <3>2, <3>3, <3>4, CalmLook
  <2>4. QED
    BY <2>2, <2>3
<1>8. QED
  BY <1>6, <1>7 DEF namei

\* So does nameiparent(), which link() enters with a link made before its entry.
LEMMA nameiparentTree ==
  ASSUME IInv, TreeInv, ".." \notin Elems, NEW p \in Procs, nameiparent(p)
  PROVE  TreeInv'
<1>1. PICK e \in Elems, last \in BOOLEAN :
        LET d == ilock(dp[p])
            k == dirlookup(d, e) IN
        /\ At(p, "nameiparent") /\ Unlocked(dp[p])
        /\ IF d.type # "dir" \/ (~last /\ k = 0)
           THEN Look(dp[p], None) /\ NoParent(p)
           ELSE IF last
           THEN /\ Look(dp[p], None)
                /\ Goto(p, CASE call[p] = "unlink" -> "unlink" [] call[p] = "link" -> "link_new"
                           [] OTHER -> "create", <<>>)
                /\ elem' = [elem EXCEPT ![p] = e]
                /\ UNCHANGED <<call, ip, dp>>
           ELSE /\ Look(dp[p], d.ents[k].inum)
                /\ Goto(p, "nameiparent", <<dp[p]>>)
                /\ dp' = [dp EXCEPT ![p] = d.ents[k].inum]
                /\ UNCHANGED <<call, elem, ip>>
        /\ UNCHANGED <<lock, freeing, procs>>
  BY DEF nameiparent
<1>2. At(p, "nameiparent") /\ Unlocked(dp[p]) /\ freeing' = freeing /\ cwd'[p] = cwd[p] /\ Good(p)
  BY <1>1, nameiparentGood DEF procs
<1>3. Idle(p) /\ pc[p] = "nameiparent"
  BY <1>2, Started
<1>4. /\ CallType /\ dp[p] \in Inums /\ DataType
      /\ ip[p] \in Inums \cup {None} /\ call[p] \in ParentCalls \cup {"link"}
      /\ ip[p] # None <=> call[p] = "link"
  BY <1>3, Own, Constants DEF CallOk, WithIp, WithDp
<1>5. /\ disk[cwd[p]].type = "dir" /\ None \in Inums \cup {None} /\ None \notin Inums
      /\ call[p] = "link" => disk[ip[p]].type # "dir"
      /\ \A j \in Inums : Pends(p, j) <=> ip[p] = j /\ call[p] = "link"
  BY <1>3, Knows, Constants DEF Pends, PendsOk, KindOk
<1>6. Has(p, dp[p])
  BY <1>2, <1>4 DEF Has, Live, Holds, Unlocked
<1> DEFINE d == ilock(dp[p])
           k == dirlookup(d, e)
           g == d.ents[k].inum
<1>7. d = disk[dp[p]] /\ (d.type = "dir" /\ k # 0 => g \in Inums /\ (disk[g].nlink # 0 \/ Live(p, g)))
  <2>1. d = disk[dp[p]]
    BY <1>2, <1>3, <1>4, Reading, Started
  <2>2. QED
    BY <1>3, <1>4, <1>6, <2>1, Finds
<1>8. CASE d.type # "dir" \/ (~last /\ k = 0)
  <2>1. Look(dp[p], None) /\ NoParent(p)
    BY <1>1, <1>8
  <2>2. CASE call[p] = "link"
    <3>1. /\ Goto(p, "link_bad", <<dp[p]>>) /\ dp' = [dp EXCEPT ![p] = None]
          /\ UNCHANGED <<call, elem, ip>>
      BY <2>1, <2>2 DEF NoParent
    <3>2. Going(p, "link_bad", <<dp[p]>>, call[p], elem[p], ip[p], None)
      BY <1>4, <3>1, Unset DEF Set, Going
    <3>3. KindOk(cwd[p], "link_bad", call[p], elem[p], ip[p], None) /\ SamePends(p, "link_bad", call[p], ip[p])
      BY <1>5, <2>2 DEF KindOk, SamePends, PendsOk
    <3>4. QED
      BY <1>2, <1>5, <1>6, <2>1, <3>2, <3>3, CalmLook
  <2>3. CASE call[p] # "link"
    <3>1. Return(p, <<dp[p]>>) /\ ip[p] = None
      BY <1>4, <2>1, <2>3 DEF NoParent
    <3>2. Going(p, "user", <<dp[p]>>, "none", "", None, None)
      BY <3>1 DEF Set, Return, Going
    <3>3. KindOk(cwd[p], "user", "none", "", None, None) /\ SamePends(p, "user", "none", None)
      BY <1>5, <2>3 DEF KindOk, SamePends, PendsOk
    <3>4. QED
      BY <1>2, <1>5, <1>6, <2>1, <3>2, <3>3, CalmLook
  <2>4. QED
    BY <2>2, <2>3
<1>9. CASE ~(d.type # "dir" \/ (~last /\ k = 0)) /\ last
  <2> DEFINE point == CASE call[p] = "unlink" -> "unlink" [] call[p] = "link" -> "link_new"
                      [] OTHER -> "create"
  <2>1. /\ Look(dp[p], None) /\ Goto(p, point, <<>>)
        /\ elem' = [elem EXCEPT ![p] = e] /\ UNCHANGED <<call, ip, dp>>
    BY <1>1, <1>9
  <2>2. \/ point = "unlink" /\ call[p] = "unlink"
        \/ point = "link_new" /\ call[p] = "link"
        \/ point = "create" /\ call[p] # "link"
    OBVIOUS
  <2> HIDE DEF point
  <2>3. Going(p, point, <<>>, call[p], e, ip[p], dp[p])
    BY <1>4, <2>1, Unset DEF Set, Going
  <2>4. KindOk(cwd[p], point, call[p], e, ip[p], dp[p])
    BY <1>5, <1>7, <1>9, <2>2 DEF KindOk
  <2>5. SamePends(p, point, call[p], ip[p]) /\ point # "create_new"
    BY <1>4, <1>5, <2>2 DEF SamePends, PendsOk
  <2>6. QED
    BY <1>2, <1>5, <1>6, <2>1, <2>3, <2>4, <2>5, CalmLook
<1>10. CASE ~(d.type # "dir" \/ (~last /\ k = 0)) /\ ~last
  <2>1. /\ Look(dp[p], g) /\ Goto(p, "nameiparent", <<dp[p]>>)
        /\ dp' = [dp EXCEPT ![p] = g] /\ UNCHANGED <<call, elem, ip>>
    BY <1>1, <1>10
  <2>2. g \in Inums /\ (disk[g].nlink # 0 \/ Live(p, g))
    BY <1>7, <1>10
  <2> HIDE DEF g
  <2>3. Going(p, "nameiparent", <<dp[p]>>, call[p], elem[p], ip[p], g)
    BY <1>4, <2>1, Unset DEF Set, Going
  <2>4. KindOk(cwd[p], "nameiparent", call[p], elem[p], ip[p], g)
    BY <1>5 DEF KindOk
  <2>5. SamePends(p, "nameiparent", call[p], ip[p])
    BY <1>5 DEF SamePends, PendsOk
  <2>6. QED
    BY <1>2, <1>6, <2>1, <2>2, <2>3, <2>4, <2>5, CalmLook
<1>11. QED
  BY <1>8, <1>9, <1>10

\* The blocks of an inode are in use, so that freeing them is no panic.
LEMMA InUse ==
  ASSUME BlockInv, NEW i \in Inums
  PROVE  BlocksOf(ilock(i)) \subseteq used /\ BlocksOf(disk[i]) \subseteq used
<1>1. BlocksOf(ilock(i)) = BlocksOf(disk[i])
  BY DEF BlockInv, Current
<1>2. used = UNION {DiskBlocks[j] : j \in Inums} /\ DiskBlocks[i] = BlocksOf(disk[i])
  BY DEF BlockInv, Owned, DiskBlocks
<1>3. QED
  BY <1>1, <1>2

\* The end of open(): the inode is emptied or not, and is that of a descriptor or is put.
LEMMA OpenFileTree ==
  ASSUME IInv, TreeInv, NEW p \in Procs, NEW at, At(p, at), at # "create_new", Good(p),
         NEW i, Has(p, i), \A j \in Inums : ~Pends(p, j),
         NEW d, d = ilock(i), NEW modes, OpenFile(p, i, d, modes)
  PROVE  TreeInv'
<1>1. lock' = [lock EXCEPT ![i] = None] /\ freeing' = freeing /\ cwd'[p] = cwd[p]
  BY DEF OpenFile
<1>2. Idle(p) /\ freeing[p] = "no" /\ ~panicked /\ DataType /\ i \in Inums /\ None \in Inums \cup {None}
      /\ None \notin Inums /\ BlockInv
  BY Started, Own, Constants DEF Has
<1>3. KindOk(cwd[p], "user", "none", "", None, None) /\ SamePends(p, "user", "none", None)
  BY <1>2, Knows DEF SamePends, PendsOk
<1>4. ASSUME NEW s, Return(p, s)
      PROVE  Going(p, "user", s, "none", "", None, None)
  BY <1>4 DEF Set, Return, Going
<1>5. d = disk[i] /\ d \in Node
  BY <1>2, Reading, IlockNode DEF Has, Unlocked
<1>6. CASE Access(On(i, d), Nothing, None, TRUE) /\ used' = used /\ Return(p, <<i>>)
  <2>1. Look(i, None)
    BY <1>6 DEF Look
  <2>2. QED
    BY <1>1, <1>2, <1>3, <1>4, <1>6, <2>1, CalmLook
<1>7. ASSUME NEW trunc \in BOOLEAN, NEW e, e = (IF trunc /\ d.type = "file" THEN itrunc(d) ELSE d),
             NEW gone, gone = BlocksOf(d) \ BlocksOf(e),
             Access(On(i, e), IF trunc /\ d.type = "file" THEN On(i, e) ELSE Nothing, None,
                    ~FreeOfFree(used, gone)),
             Return(p, <<>>)
      PROVE  TreeInv'
  <2>1. ~FreeOfFree(used, gone)
    BY <1>2, <1>7, InUse DEF FreeOfFree
  <2>2. e.type = d.type /\ e.nlink = d.nlink /\ (e.ents = d.ents \/ (d.type # "dir" /\ e.ents = <<>>))
    BY <1>5, <1>7, Truncated
  <2> DEFINE w == IF trunc /\ d.type = "file" THEN On(i, e) ELSE Nothing
  <2>3. DOMAIN On(i, e) = {i} /\ On(i, e)[i] = e /\ DOMAIN Nothing = {}
    BY Contents
  <2>4. Mild(p, w)
    BY <1>5, <2>2, <2>3 DEF Mild
  <2>5. \A j \in DOMAIN On(i, e) : Has(p, j)
    BY <2>3
  <2>6. Access(On(i, e), w, None, ~FreeOfFree(used, gone))
    BY <1>7
  <2> HIDE DEF w
  <2>7. Going(p, "user", <<>>, "none", "", None, None)
    BY <1>4, <1>7
  <2>8. QED
    BY <1>1, <1>2, <1>3, <2>1, <2>4, <2>5, <2>6, <2>7, CalmAccess
<1>8. QED
  <2>1. \/ Access(On(i, d), Nothing, None, TRUE) /\ used' = used /\ Return(p, <<i>>)
        \/ \E trunc \in BOOLEAN :
             LET e    == IF trunc /\ d.type = "file" THEN itrunc(d) ELSE d
                 gone == BlocksOf(d) \ BlocksOf(e) IN
             /\ Access(On(i, e), IF trunc /\ d.type = "file" THEN On(i, e) ELSE Nothing, None,
                       ~FreeOfFree(used, gone))
             /\ Return(p, <<>>)
    BY DEF OpenFile
  <2>2. QED
    BY <1>6, <1>7, <2>1

\* open() of an inode that namei() has found.
LEMMA sys_openTree ==
  ASSUME IInv, TreeInv, NEW p \in Procs, sys_open(p)
  PROVE  TreeInv'
<1>1. At(p, "open") /\ Unlocked(ip[p]) /\ Good(p)
  BY sys_openGood DEF sys_open
<1>2. pc[p] = "open" /\ ip[p] \in Inums /\ Has(p, ip[p]) /\ None \in Inums \cup {None}
  BY <1>1, Started, Own DEF CallOk, WithIp, Has, Live, Unlocked
<1>3. \A j \in Inums : ~Pends(p, j)
  BY <1>2 DEF Pends, PendsOk
<1>4. CASE OpenFile(p, ip[p], ilock(ip[p]), IF ilock(ip[p]).type = "dir" THEN {"r"} ELSE Modes)
  BY <1>1, <1>2, <1>3, <1>4, OpenFileTree
<1>5. CASE Look(ip[p], None) /\ Return(p, <<ip[p]>>) /\ UNCHANGED <<lock, freeing, procs>>
  <2>1. Going(p, "user", <<ip[p]>>, "none", "", None, None) /\ freeing' = freeing /\ cwd'[p] = cwd[p]
    BY <1>5 DEF Set, Return, Going, procs
  <2>2. KindOk(cwd[p], "user", "none", "", None, None) /\ SamePends(p, "user", "none", None)
    BY <1>1, <1>3, Started, Knows DEF SamePends, PendsOk
  <2>3. QED
    BY <1>1, <1>2, <1>5, <2>1, <2>2, CalmLook
<1>6. QED
  BY <1>4, <1>5 DEF sys_open

\* chdir() makes a directory the current one, and the old one is put.
LEMMA sys_chdirTree ==
  ASSUME IInv, TreeInv, NEW p \in Procs, sys_chdir(p)
  PROVE  TreeInv'
<1> DEFINE d == ilock(ip[p])
<1>1. At(p, "chdir") /\ Unlocked(ip[p]) /\ Look(ip[p], None) /\ Good(p) /\ freeing' = freeing
  BY sys_chdirGood DEF sys_chdir
<1>2. pc[p] = "chdir" /\ ip[p] \in Inums /\ Has(p, ip[p]) /\ None \in Inums \cup {None} /\ ProcType
  BY <1>1, Started, Own DEF CallOk, WithIp, Has, Live, Unlocked
<1>3. SamePends(p, "user", "none", None) /\ disk[cwd[p]].type = "dir"
  BY <1>1, <1>2, Started, Knows DEF Pends, PendsOk, SamePends
<1>4. d = disk[ip[p]]
  BY <1>1, <1>2, Started, Reading DEF TreeInv
<1>5. PICK s : Return(p, s) /\ disk[cwd'[p]].type = "dir"
  <2>1. CASE d.type # "dir"
    <3>1. Return(p, <<ip[p]>>) /\ cwd' = cwd
      BY <2>1 DEF sys_chdir
    <3>2. QED
      BY <1>3, <3>1
  <2>2. CASE d.type = "dir"
    <3>1. Return(p, <<cwd[p]>>) /\ cwd' = [cwd EXCEPT ![p] = ip[p]]
      BY <2>2 DEF sys_chdir
    <3>2. cwd'[p] = ip[p]
      BY <1>2, <3>1 DEF ProcType
    <3>3. QED
      BY <1>4, <2>2, <3>1, <3>2
  <2>3. QED
    BY <2>1, <2>2
<1>6. PICK w : cwd'[p] = w
  OBVIOUS
<1>7. Going(p, "user", s, "none", "", None, None)
  BY <1>5 DEF Set, Return, Going
<1>8. KindOk(w, "user", "none", "", None, None)
  BY <1>5, <1>6 DEF KindOk
<1>9. QED
  BY <1>1, <1>2, <1>3, <1>6, <1>7, <1>8, CalmLook

\* A call that only lets its inode go.
LEMMA RefusedTree ==
  ASSUME IInv, TreeInv, NEW p \in Procs, NEW at, At(p, at), at # "create_new", NEW i, Has(p, i), Good(p),
         \A j \in Inums : ~Pends(p, j), Look(i, None), NEW s, Return(p, s), freeing' = freeing, cwd' = cwd
  PROVE  TreeInv'
<1>1. Going(p, "user", s, "none", "", None, None)
  BY DEF Set, Return, Going
<1>2. KindOk(cwd[p], "user", "none", "", None, None) /\ SamePends(p, "user", "none", None)
  BY Started, Knows DEF SamePends, PendsOk
<1>3. None \in Inums \cup {None} /\ cwd'[p] = cwd[p]
  OBVIOUS
<1>4. QED
  BY <1>1, <1>2, <1>3, CalmLook

\* create() finds the name in the directory: it is a file to open, or the call fails.
LEMMA create_foundTree ==
  ASSUME IInv, TreeInv, NEW p \in Procs, create_found(p)
  PROVE  TreeInv'
<1>1. At(p, "create_found") /\ Unlocked(ip[p]) /\ Good(p)
  BY create_foundGood DEF create_found
<1>2. pc[p] = "create_found" /\ ip[p] \in Inums /\ Has(p, ip[p])
  BY <1>1, Started, Own DEF CallOk, WithIp, Has, Live, Unlocked
<1>3. \A j \in Inums : ~Pends(p, j)
  BY <1>2 DEF Pends, PendsOk
<1>4. CASE OpenFile(p, ip[p], ilock(ip[p]), Modes)
  BY <1>1, <1>2, <1>3, <1>4, OpenFileTree
<1>5. CASE Look(ip[p], None) /\ Return(p, <<ip[p]>>) /\ UNCHANGED <<lock, freeing, procs>>
  BY <1>1, <1>2, <1>3, <1>5, RefusedTree DEF procs
<1>6. QED
  BY <1>4, <1>5 DEF create_found

\* The new inode is opened, or put.
LEMMA createdTree ==
  ASSUME IInv, TreeInv, NEW p \in Procs, created(p)
  PROVE  TreeInv'
<1>1. At(p, "created") /\ Good(p)
  BY createdGood DEF created
<1>2. pc[p] = "created" /\ ip[p] \in Inums /\ Locked(p) = ip[p]
  <2>1. pc[p] = "created"
    BY <1>1, Started
  <2>2. ip[p] \in Inums
    BY <2>1, Own DEF CallOk, WithIp
  <2>3. QED
    BY <2>1, <2>2 DEF Locked, LockedAt
<1>3. Has(p, ip[p]) /\ mem[ip[p]] = ilock(ip[p])
  BY <1>2, Mine DEF Has, Live
<1>4. \A j \in Inums : ~Pends(p, j)
  BY <1>2 DEF Pends, PendsOk
<1>5. CASE OpenFile(p, ip[p], mem[ip[p]], Modes)
  BY <1>1, <1>3, <1>4, <1>5, OpenFileTree
<1>6. CASE Look(ip[p], None) /\ Return(p, <<ip[p]>>) /\ UNCHANGED <<freeing, procs>>
  BY <1>1, <1>3, <1>4, <1>6, RefusedTree DEF procs
<1>7. QED
  BY <1>5, <1>6 DEF created

\* create() has failed: the new inode has no link, and is put.
LEMMA badTree ==
  ASSUME IInv, TreeInv, NEW p \in Procs, bad(p)
  PROVE  TreeInv'
<1>1. At(p, "bad") /\ Good(p) /\ Return(p, <<dp[p]>>) /\ freeing' = freeing /\ cwd'[p] = cwd[p]
      /\ disk' = disk /\ panicked' = panicked /\ ref' = (IF None = None THEN ref ELSE [ref EXCEPT ![None] = @ + 1])
  BY badGood DEF bad, procs
<1>2. pc[p] = "bad" /\ None \in Inums \cup {None}
  BY <1>1, Started
<1>3. Going(p, "user", <<dp[p]>>, "none", "", None, None)
  BY <1>1 DEF Set, Return, Going
<1>4. KindOk(cwd[p], "user", "none", "", None, None) /\ SamePends(p, "user", "none", None)
  BY <1>1, <1>2, Started, Knows DEF SamePends, PendsOk, Pends
<1>5. QED
  BY <1>1, <1>2, <1>3, <1>4, CalmWalk

\* link() makes the link before the entry, of what is no directory.
LEMMA link_startTree ==
  ASSUME IInv, TreeInv, NEW p \in Procs, link_start(p)
  PROVE  TreeInv'
<1>1. PICK i \in {ROOTINO, cwd[p]} :
    /\ At(p, "link_start") /\ StartWalk(i)
    /\ \/ Goto(p, "nameiparent", <<>>) /\ dp' = [dp EXCEPT ![p] = i]
       \/ Goto(p, "link_bad", <<i>>) /\ UNCHANGED dp
    /\ UNCHANGED <<disk, used, valid, mem, lock, call, elem, ip, freeing, procs, panicked>>
  BY DEF link_start
<1>2. At(p, "link_start") /\ Idle(p) /\ pc[p] = "link_start" /\ Good(p)
  BY <1>1, Started, link_startGood
<1>3. CallType /\ ip[p] \in Inums /\ dp[p] = None /\ call[p] = "link"
  BY <1>2, Own DEF CallOk, WithIp, WithDp
<1>4. i \in Inums /\ i # None /\ (disk[i].nlink # 0 \/ Live(p, i))
  BY <1>1, <1>2, Knows, Constants
<1>5. ref' = (IF i = None THEN ref ELSE [ref EXCEPT ![i] = @ + 1]) /\ freeing' = freeing /\ disk' = disk
      /\ panicked' = panicked /\ cwd'[p] = cwd[p]
  BY <1>1, <1>4 DEF StartWalk, procs
<1>6. /\ disk[cwd[p]].type = "dir" /\ disk[ip[p]].type # "dir"
      /\ \A j \in Inums : Pends(p, j) <=> ip[p] = j
  BY <1>2, Knows DEF Pends, PendsOk, KindOk
<1>7. CASE Goto(p, "nameiparent", <<>>) /\ dp' = [dp EXCEPT ![p] = i]
  <2>1. Going(p, "nameiparent", <<>>, call[p], elem[p], ip[p], i)
    BY <1>1, <1>3, <1>7, Unset DEF Set, Going
  <2>2. KindOk(cwd[p], "nameiparent", call[p], elem[p], ip[p], i) /\ SamePends(p, "nameiparent", call[p], ip[p])
    BY <1>3, <1>6 DEF KindOk, SamePends, PendsOk
  <2>3. QED
    BY <1>2, <1>4, <1>5, <2>1, <2>2, CalmWalk
<1>8. CASE Goto(p, "link_bad", <<i>>) /\ UNCHANGED dp
  <2>1. Going(p, "link_bad", <<i>>, call[p], elem[p], ip[p], None)
    BY <1>1, <1>3, <1>8, Unset DEF Set, Going
  <2>2. KindOk(cwd[p], "link_bad", call[p], elem[p], ip[p], None) /\ SamePends(p, "link_bad", call[p], ip[p])
    BY <1>3, <1>6 DEF KindOk, SamePends, PendsOk
  <2>3. QED
    BY <1>2, <1>4, <1>5, <2>1, <2>2, CalmWalk
<1>9. QED
  BY <1>1, <1>7, <1>8

\* unlink() finds the entry, of a name other than "." and "..", and the inode it names.
LEMMA sys_unlinkTree ==
  ASSUME IInv, TreeInv, ".." \notin Elems, NEW p \in Procs, sys_unlink(p)
  PROVE  TreeInv'
<1> DEFINE d == ilock(dp[p])
           k == dirlookup(d, elem[p])
           g == d.ents[k].inum
<1>1. At(p, "unlink") /\ Unlocked(dp[p]) /\ Good(p) /\ freeing' = freeing /\ cwd' = cwd
  BY sys_unlinkGood DEF sys_unlink, procs
<1>2. Idle(p) /\ pc[p] = "unlink" /\ dp[p] \in Inums /\ Has(p, dp[p]) /\ CallType /\ elem[p] \in Elems
      /\ d = disk[dp[p]] /\ dp[p] # None
  <2>1. ~panicked /\ Idle(p) /\ pc[p] = "unlink" /\ freeing[p] = "no"
    BY <1>1, Started
  <2>2. CallType /\ dp[p] \in Inums /\ dp[p] # None /\ elem[p] \in Elems
    BY <2>1, Own, Constants DEF CallOk, WithDp, WithElem
  <2>3. d = disk[dp[p]]
    BY <1>1, <2>1, <2>2, Reading
  <2>4. Has(p, dp[p])
    BY <1>1, <2>2 DEF Has, Live, Holds, Unlocked
  <2>5. QED
    BY <2>1, <2>2, <2>3, <2>4
<1>3. disk[cwd[p]].type = "dir" /\ disk[dp[p]].type = "dir" /\ \A j \in Inums : ~Pends(p, j)
  BY <1>2, Knows DEF Pends, PendsOk, KindOk
<1>4. CASE elem[p] \in {".", ".."} \/ k = 0
  <2>1. Look(dp[p], None) /\ Return(p, <<dp[p]>>)
    BY <1>4 DEF sys_unlink
  <2>2. QED
    BY <1>1, <1>2, <1>3, <2>1, RefusedTree
<1>5. CASE ~(elem[p] \in {".", ".."} \/ k = 0)
  <2>1. /\ Look(dp[p], g) /\ Goto(p, "unlink_ip", <<>>)
        /\ ip' = [ip EXCEPT ![p] = g] /\ UNCHANGED <<call, elem, dp>>
    BY <1>5 DEF sys_unlink
  <2>2. elem[p] \in Names /\ k # 0
    BY <1>2, <1>5, NameAssumption
  <2>3. g \in Inums /\ (disk[g].nlink # 0 \/ Live(p, g))
    BY <1>2, <1>3, <2>2, Finds
  <2>4. KindOk(cwd[p], "unlink_ip", call[p], elem[p], g, dp[p])
    BY <1>2, <1>3, <2>2 DEF KindOk
  <2> HIDE DEF g
  <2>5. Going(p, "unlink_ip", <<>>, call[p], elem[p], g, dp[p])
    BY <1>2, <2>1, Unset DEF Set, Going
  <2>6. SamePends(p, "unlink_ip", call[p], g) /\ cwd'[p] = cwd[p]
    BY <1>1, <1>3 DEF SamePends, PendsOk
  <2>7. QED
    BY <1>1, <1>2, <2>1, <2>3, <2>4, <2>5, <2>6, CalmLook
<1>6. QED
  BY <1>4, <1>5

\* A call on an open file begins, and keeps its place.
LEMMA UsingTree ==
  ASSUME IInv, TreeInv, NEW p \in Procs, Enter(p)
  PROVE  /\ At(p, "user") /\ None \in Inums \cup {None}
         /\ UNCHANGED <<pc, locals>> =>
              \A s : puts' = [puts EXCEPT ![p] = s] => Going(p, "user", s, call[p], elem[p], None, None)
         /\ puts' = [puts EXCEPT ![p] = puts[p]] <=> puts' = puts
         /\ KindOk(cwd[p], "user", call[p], elem[p], None, None) /\ SamePends(p, "user", call[p], None)
         /\ \A f \in Fds : ofile[p][f].ip # None => /\ Live(p, ofile[p][f].ip) /\ ofile[p][f].ip \in Inums
                                                    /\ Unlocked(ofile[p][f].ip) => Has(p, ofile[p][f].ip)
<1>1. At(p, "user") /\ Idle(p) /\ pc[p] = "user" /\ CallType
  BY Started, Own DEF Enter
<1>2. UNCHANGED <<pc, locals>> =>
        \A s : puts' = [puts EXCEPT ![p] = s] => Going(p, "user", s, call[p], elem[p], None, None)
  <2>1. SUFFICES ASSUME pc' = pc, UNCHANGED locals, NEW s, puts' = [puts EXCEPT ![p] = s]
                 PROVE  Going(p, "user", s, call[p], elem[p], None, None)
    OBVIOUS
  <2>2. Set(p, call[p], elem[p], None, None)
    BY <2>1, Between
  <2>3. pc' = [pc EXCEPT ![p] = "user"]
    BY <1>1, <2>1 DEF CallType
  <2>4. QED
    BY <2>1, <2>2, <2>3 DEF Going, Goto
<1>3. KindOk(cwd[p], "user", call[p], elem[p], None, None) /\ SamePends(p, "user", call[p], None)
  BY <1>1, Knows DEF KindOk, SamePends, PendsOk, Pends
<1>4. ASSUME NEW f \in Fds, ofile[p][f].ip # None
      PROVE  /\ Live(p, ofile[p][f].ip) /\ ofile[p][f].ip \in Inums
             /\ Unlocked(ofile[p][f].ip) => Has(p, ofile[p][f].ip)
  <2>1. ofile[p][f] \in OpenFileType
    BY Own
  <2>2. ofile[p][f].ip \in Inums
    BY <1>4, <2>1 DEF OpenFileType
  <2>3. QED
    BY <2>2 DEF Live, Holds, Has, Unlocked
<1>5. puts' = [puts EXCEPT ![p] = puts[p]] <=> puts' = puts
  BY <1>1 DEF CallType
<1>6. QED
  BY <1>1, <1>2, <1>3, <1>4, <1>5

\* close() gives up a pointer.
LEMMA sys_closeTree ==
  ASSUME IInv, TreeInv, NEW p \in Procs, NEW f \in Fds, sys_close(p, f)
  PROVE  TreeInv'
<1>1. Enter(p) /\ puts' = [puts EXCEPT ![p] = <<File(p, f).ip>>]
      /\ UNCHANGED <<pc, locals>> /\ disk' = disk /\ freeing' = freeing /\ cwd'[p] = cwd[p] /\ panicked' = panicked
      /\ ref' = (IF None = None THEN ref ELSE [ref EXCEPT ![None] = @ + 1]) /\ Good(p)
  BY sys_closeGood DEF sys_close
<1>2. /\ At(p, "user") /\ None \in Inums \cup {None}
      /\ Going(p, "user", <<File(p, f).ip>>, call[p], elem[p], None, None)
      /\ KindOk(cwd[p], "user", call[p], elem[p], None, None) /\ SamePends(p, "user", call[p], None)
  BY <1>1, UsingTree
<1>3. QED
  BY <1>1, <1>2, CalmWalk

\* fileread() changes an offset.
LEMMA filereadTree ==
  ASSUME IInv, TreeInv, NEW p \in Procs, NEW f \in Fds, fileread(p, f)
  PROVE  TreeInv'
<1> DEFINE i == ofile[p][f].ip
<1>1. Enter(p) /\ i # None /\ Unlocked(i) /\ Look(i, None)
      /\ UNCHANGED <<pc, locals>> /\ puts' = puts /\ freeing' = freeing /\ cwd'[p] = cwd[p] /\ Good(p)
  BY filereadGood DEF fileread, File
<1>2. /\ At(p, "user") /\ None \in Inums \cup {None} /\ Has(p, i)
      /\ Going(p, "user", puts[p], call[p], elem[p], None, None)
      /\ KindOk(cwd[p], "user", call[p], elem[p], None, None) /\ SamePends(p, "user", call[p], None)
  BY <1>1, UsingTree
<1> HIDE DEF i
<1>3. QED
  BY <1>1, <1>2, CalmLook

\* filestat() changes nothing.
LEMMA filestatTree ==
  ASSUME IInv, TreeInv, NEW p \in Procs, NEW f \in Fds, filestat(p, f)
  PROVE  TreeInv'
<1> DEFINE i == ofile[p][f].ip
<1>1. Enter(p) /\ i # None /\ Unlocked(i) /\ Look(i, None)
      /\ UNCHANGED <<pc, locals>> /\ puts' = puts /\ freeing' = freeing /\ cwd'[p] = cwd[p] /\ Good(p)
  BY filestatGood DEF filestat, File
<1>2. /\ At(p, "user") /\ None \in Inums \cup {None} /\ Has(p, i)
      /\ Going(p, "user", puts[p], call[p], elem[p], None, None)
      /\ KindOk(cwd[p], "user", call[p], elem[p], None, None) /\ SamePends(p, "user", call[p], None)
  BY <1>1, UsingTree
<1> HIDE DEF i
<1>3. QED
  BY <1>1, <1>2, CalmLook

\* filewrite() makes a file grow.
LEMMA filewriteTree ==
  ASSUME IInv, TreeInv, NEW p \in Procs, NEW f \in Fds, filewrite(p, f)
  PROVE  TreeInv'
<1> DEFINE i == ofile[p][f].ip
           n == ofile[p][f].off
<1>1. PICK copied \in BOOLEAN :
        /\ Enter(p) /\ i # None /\ Unlocked(i)
        /\ Access(On(i, writei(ilock(i), n, used, copied).d), On(i, writei(ilock(i), n, used, copied).d), None, TRUE)
        /\ UNCHANGED <<lock, pc, locals, puts, freeing, cwd>>
  BY DEF filewrite, File
<1> DEFINE e == writei(ilock(i), n, used, copied).d
<1>2. Enter(p) /\ i # None /\ Unlocked(i) /\ Access(On(i, e), On(i, e), None, TRUE)
      /\ UNCHANGED <<pc, locals>> /\ puts' = puts /\ freeing' = freeing /\ cwd'[p] = cwd[p] /\ Good(p)
  BY <1>1, filewriteGood
<1>3. /\ At(p, "user") /\ None \in Inums \cup {None} /\ Has(p, i) /\ i \in Inums
      /\ Going(p, "user", puts[p], call[p], elem[p], None, None)
      /\ KindOk(cwd[p], "user", call[p], elem[p], None, None) /\ SamePends(p, "user", call[p], None)
  BY <1>2, UsingTree
<1>4. DataType /\ n \in 0..MAXFILE /\ ilock(i) = disk[i]
  <2>1. ofile[p][f] \in OpenFileType /\ DataType
    BY Own, ZenonT(30)
  <2>2. QED
    BY <1>2, <1>3, <2>1, Started, Reading DEF OpenFileType
<1>5. e.type = disk[i].type /\ e.nlink = disk[i].nlink /\ e.ents = disk[i].ents
  <2>1. ilock(i) \in Node /\ used \in SUBSET Blocks
    BY <1>3, <1>4, IlockNode DEF DataType
  <2>2. Grown(ilock(i), used, e, writei(ilock(i), n, used, copied).used) /\ e.ents = ilock(i).ents
    BY <1>4, <2>1, Written
  <2>3. QED
    BY <1>4, <2>2 DEF Grown
<1> HIDE DEF i, e
<1>6. DOMAIN On(i, e) = {i} /\ On(i, e)[i] = e
  BY Contents
<1>7. Mild(p, On(i, e)) /\ \A j \in DOMAIN On(i, e) : Has(p, j)
  BY <1>3, <1>5, <1>6 DEF Mild
<1>8. QED
  BY <1>2, <1>3, <1>7, CalmAccess

-----------------------------------------------------------------------------
(* iput().                                                                 *)

\* Only what a process has to put changes.
LEMMA StillTree ==
  ASSUME IInv, TreeInv, NEW p \in Procs, Good(p), disk' = disk, panicked' = panicked,
         pc' = pc, call' = call, elem' = elem, ip' = ip, dp' = dp, cwd' = cwd, ofile' = ofile,
         \A j \in Inums : LivePut(p, j)' => LivePut(p, j),
         \A j \in Inums : FreeingAt(p, j)'
  PROVE  TreeInv'
<1> USE DEF TreeInv
<1>1. Others(p)
  BY DEF Good
<1>2. \A q \in Procs, j \in Inums : Holds(q, j)' <=> Holds(q, j)
  BY DEF Holds
<1>3. \A q \in Procs, j \in Inums : LivePut(q, j)' => LivePut(q, j)
  <2>1. ASSUME NEW q \in Procs, NEW j \in Inums, LivePut(q, j)'
        PROVE  LivePut(q, j)
    <3>1. CASE q = p
      BY <2>1, <3>1
    <3>2. CASE q # p
      BY <1>1, <2>1, <3>2 DEF Others, LivePut
    <3>3. QED
      BY <3>1, <3>2
  <2>2. QED
    BY <2>1
<1>4. \A q \in Procs, j \in Inums : Live(q, j)' => Live(q, j)
  BY <1>2, <1>3 DEF Live
<1>5. LinkInv'
  <2>1. ASSUME NEW j \in Inums
        PROVE  Entries(j)' = Entries(j) /\ Dirs(j)' = Dirs(j) /\ Pending(j)' = Pending(j)
    BY DEF Entries, Dirs, Pending, Lists
  <2>2. QED
    BY <2>1 DEF LinkInv
<1>6. EntInv'
  BY DEF EntInv
<1>7. LiveInv'
  BY <1>4 DEF LiveInv, LiveAt
<1>8. FreeingInv'
  <2>1. ASSUME NEW q \in Procs, NEW j \in Inums
        PROVE  FreeingAt(q, j)'
    <3>1. CASE q = p
      BY <3>1
    <3>2. CASE q # p
      <4>1. freeing'[q] = freeing[q] /\ puts'[q] = puts[q] /\ FreeingAt(q, j)
        BY <1>1, <3>2 DEF Others, FreeingInv
      <4>2. QED
        BY <1>4, <4>1 DEF FreeingAt
    <3>3. QED
      BY <3>1, <3>2
  <2>2. QED
    BY <2>1 DEF FreeingInv
<1>9. NewInv'
  <2>1. ASSUME NEW q \in Procs, NEW j \in Inums
        PROVE  NewAt(q, j)'
    <3>1. NewAt(q, j)
      BY DEF NewInv
    <3>2. QED
      BY <1>2, <1>3, <3>1 DEF NewAt
  <2>2. QED
    BY <2>1 DEF NewInv
<1>10. KindInv'
  BY DEF KindInv, KindAt, KindOk
<1>11. DotInv'
  BY <1>2 DEF DotInv, DotAt, Dotted, Bare, Away
<1>12. QED
  BY <1>5, <1>6, <1>7, <1>8, <1>9, <1>10, <1>11

\* The reference has been dropped.
LEMMA DroppingTree ==
  ASSUME IInv, TreeInv, NEW p \in Procs, Good(p), puts[p] # <<>>, freeing[p] \in {"no", "drop"},
         puts' = [puts EXCEPT ![p] = Tail(@)], freeing' = [freeing EXCEPT ![p] = "no"],
         UNCHANGED <<disk, used, lock, pc, locals, procs, panicked>>
  PROVE  TreeInv'
<1>1. CallType /\ ProcType
  BY Own
<1>2. puts'[p] = Tail(puts[p]) /\ freeing'[p] = "no" /\ puts[p] \in Putting
  BY <1>1 DEF CallType, ProcType
<1>3. PutAt(Tail(puts[p]), 1) = PutAt(puts[p], 2) /\ PutAt(Tail(puts[p]), 2) = None
  BY <1>2, FirstPut
<1>4. \A j \in Inums : LivePut(p, j)' => LivePut(p, j)
  BY <1>2, <1>3, Constants DEF LivePut
<1>5. \A j \in Inums : FreeingAt(p, j)'
  BY <1>2 DEF FreeingAt
<1>6. pc' = pc /\ call' = call /\ elem' = elem /\ ip' = ip /\ dp' = dp /\ cwd' = cwd /\ ofile' = ofile
      /\ disk' = disk /\ panicked' = panicked
  BY DEF locals, procs
<1>7. QED
  BY <1>4, <1>5, <1>6, StillTree

\* iput() begins to free an inode when nothing else points to it and it has no link.
LEMMA iputTree ==
  ASSUME IInv, TreeInv, NEW p \in Procs, iput(p)
  PROVE  TreeInv'
<1>1. puts[p] # <<>> /\ freeing[p] = "no" /\ ~panicked /\ Good(p)
      /\ UNCHANGED <<disk, used, pc, locals, procs, panicked>>
  BY iputGood DEF iput
<1>2. CASE ~(ref[Head(puts[p])] = 1 /\ valid[Head(puts[p])] /\ mem[Head(puts[p])].nlink = 0)
  <2>1. puts' = [puts EXCEPT ![p] = Tail(@)] /\ UNCHANGED <<lock, freeing>>
    BY <1>2 DEF iput
  <2>2. freeing' = [freeing EXCEPT ![p] = "no"]
    BY <1>1, <2>1, Own DEF ProcType
  <2>3. QED
    BY <1>1, <2>1, <2>2, DroppingTree
<1>3. CASE ref[Head(puts[p])] = 1 /\ valid[Head(puts[p])] /\ mem[Head(puts[p])].nlink = 0
  <2>1. Unlocked(Head(puts[p])) /\ freeing' = [freeing EXCEPT ![p] = "trunc"] /\ puts' = puts
    BY <1>3 DEF iput
  <2>2. freeing'[p] = "trunc" /\ puts[p] \in Putting /\ TypeInv /\ RefsExact /\ CacheInv
    BY <1>1, <2>1, Own DEF ProcType, IInv, RefInv
  <2>3. PICK i \in Inums : i = Head(puts[p])
    BY <1>1, <2>2, FirstPut
  <2>4. \A q \in Procs : /\ ip[q] # i /\ dp[q] # i /\ cwd[q] # i /\ \A f \in Fds : ofile[q][f].ip # i
                         /\ \A k \in 1..2 : PutAt(puts[q], k) = i => q = p /\ k = 1
    BY <1>1, <1>3, <2>2, <2>3, LastRef
  <2>5. disk[i].nlink = 0
    <3>1. ilock(i) = disk[i]
      BY <1>1, <2>1, <2>3, Reading
    <3>2. QED
      BY <1>3, <2>3, <3>1 DEF ilock
  <2>6. disk[i].type # "free"
    <3>1. LivePut(p, i)
      BY <1>1, <2>2, <2>3, FirstPut DEF LivePut
    <3>2. QED
      BY <3>1 DEF TreeInv, LiveInv, LiveAt, Live
  <2>7. pc' = pc /\ call' = call /\ elem' = elem /\ ip' = ip /\ dp' = dp /\ cwd' = cwd /\ ofile' = ofile
        /\ disk' = disk /\ panicked' = panicked
    BY <1>1 DEF locals, procs
  <2>8. \A j \in Inums : LivePut(p, j)' => LivePut(p, j)
    BY <1>1, <2>1, <2>2 DEF LivePut
  <2>9. \A q \in Procs : ~Live(q, i)'
    BY <2>1, <2>2, <2>4, <2>7 DEF Live, Holds, LivePut
  <2>10. \A j \in Inums : FreeingAt(p, j)'
    BY <2>1, <2>3, <2>5, <2>6, <2>7, <2>9 DEF FreeingAt
  <2>11. QED
    BY <1>1, <2>7, <2>8, <2>10, StillTree
<1>4. QED
  BY <1>2, <1>3

\* The inode, free on disk, is unlocked.
LEMMA iput_unlockTree ==
  ASSUME IInv, TreeInv, NEW p \in Procs, iput_unlock(p)
  PROVE  TreeInv'
<1>1. freeing[p] = "unlock" /\ freeing' = [freeing EXCEPT ![p] = "drop"] /\ Good(p)
      /\ pc' = pc /\ call' = call /\ elem' = elem /\ ip' = ip /\ dp' = dp /\ cwd' = cwd /\ ofile' = ofile
      /\ disk' = disk /\ panicked' = panicked /\ puts' = puts
  BY iput_unlockGood DEF iput_unlock, locals, procs
<1>2. freeing'[p] = "drop"
  BY <1>1, Own DEF ProcType
<1>3. \A j \in Inums : LivePut(p, j)' => LivePut(p, j)
  BY <1>1, <1>2 DEF LivePut
<1>4. \A j \in Inums : FreeingAt(p, j)'
  BY <1>2 DEF FreeingAt
<1>5. QED
  BY <1>1, <1>3, <1>4, StillTree

\* The reference is dropped.
LEMMA iput_dropTree ==
  ASSUME IInv, TreeInv, NEW p \in Procs, iput_drop(p)
  PROVE  TreeInv'
<1>1. freeing[p] = "drop" /\ puts' = [puts EXCEPT ![p] = Tail(@)] /\ freeing' = [freeing EXCEPT ![p] = "no"]
      /\ UNCHANGED <<disk, used, lock, pc, locals, procs, panicked>> /\ Good(p)
  BY iput_dropGood DEF iput_drop
<1>2. puts[p] # <<>>
  BY <1>1 DEF IInv, RefInv, CallInv, CallAt
<1>3. QED
  BY <1>1, <1>2, DroppingTree

\* The inode is freed: no entry, process or call has it.
LEMMA iput_truncTree ==
  ASSUME IInv, TreeInv, NEW p \in Procs, iput_trunc(p)
  PROVE  TreeInv'
<1>1. freeing[p] = "trunc" /\ ~panicked /\ Good(p) /\ Others(p)
      /\ freeing' = [freeing EXCEPT ![p] = "unlock"]
      /\ pc' = pc /\ call' = call /\ elem' = elem /\ ip' = ip /\ dp' = dp /\ cwd' = cwd /\ ofile' = ofile
      /\ puts' = puts /\ lock' = lock
  BY iput_truncGood DEF iput_trunc, locals, procs, Good
<1>2. puts[p] # <<>> /\ freeing'[p] = "unlock" /\ DataType /\ DataType' /\ BlockInv /\ LockInv
  BY <1>1, Own DEF IInv, RefInv, CallInv, CallAt, ProcType, Good, TypeInv
<1>3. PICK i \in Inums : i = Head(puts[p])
  BY <1>2, Putter
<1>4. lock[i] = p /\ valid[i]
  BY <1>1, <1>2, <1>3, Putter
<1>5. disk' = [disk EXCEPT ![i] = Blank("free")] /\ panicked' = FreeOfFree(used, BlocksOf(mem[i]))
  BY <1>3 DEF iput_trunc
<1>6. ~panicked'
  <2>1. mem[i] = ilock(i)
    BY <1>4 DEF ilock
  <2>2. BlocksOf(ilock(i)) \subseteq used
    BY <1>2, InUse
  <2>3. QED
    BY <1>5, <2>1, <2>2 DEF FreeOfFree
<1>7. disk[i].nlink = 0 /\ disk[i].type # "free" /\ \A q \in Procs : ~Live(q, i)
  BY <1>1, <1>3 DEF TreeInv, FreeingInv, FreeingAt
<1>8. /\ disk'[i].type = "free" /\ disk'[i].nlink = 0 /\ disk'[i].ents = <<>>
      /\ \A j \in Inums : j # i => disk'[j] = disk[j]
  BY <1>2, <1>5, BlankNode DEF DataType, Kinds
<1>9. \A q \in Procs, j \in Inums : /\ Holds(q, j)' <=> Holds(q, j)
                                    /\ LivePut(q, j)' <=> LivePut(q, j)
                                    /\ Live(q, j)' <=> Live(q, j)
  <2>1. \A q \in Procs : freeing'[q] # "no" <=> freeing[q] # "no"
    BY <1>1, <1>2 DEF Others
  <2>2. QED
    BY <1>1, <2>1 DEF Live, Holds, LivePut
<1>10. LinkInv'
  <2>1. PICK x \in Inums \X Places, k \in Places : TRUE
    <3>1. 1 \in Places
      BY Slots DEF Places
    <3>2. <<i, 1>> \in Inums \X Places
      BY <3>1
    <3>3. QED
      BY <3>1, <3>2
  <2>2. \A j \in Inums : \A m : \A n \in Inums : Lists(disk'[j], m, n) => Lists(disk[j], m, n)
    BY <1>8 DEF Lists
  <2>3. \A j \in Inums : disk'[j].type = "dir" => disk[j].type = "dir"
    BY <1>8
  <2>4. \A j \in Inums : Entries(j)' \subseteq Entries(j) /\ Dirs(j)' \subseteq Dirs(j)
    <3>1. \A z \in Inums \X Places : z[1] \in Inums
      OBVIOUS
    <3>2. QED
      BY <2>2, <2>3, <3>1 DEF Entries, Dirs
  <2>5. ASSUME NEW j \in Inums
        PROVE  disk'[j].nlink >= Cardinality(Entries(j)') + Cardinality(Pending(j)') + Cardinality(Dirs(j)')
                                 + (IF j = ROOTINO THEN 1 ELSE 0)
    <3> DEFINE e0 == Cardinality(Entries(j))
               e1 == Cardinality(Entries(j)')
               b == Cardinality(Pending(j))
               d0 == Cardinality(Dirs(j))
               d1 == Cardinality(Dirs(j)')
               r == IF j = ROOTINO THEN 1 ELSE 0
               n == disk[j].nlink
    <3>1. Pending(j)' = Pending(j) /\ disk'[j].nlink = disk[j].nlink
      BY <1>1, <1>7, <1>8 DEF Pending
    <3>2. IsFiniteSet(Entries(j)) /\ IsFiniteSet(Dirs(j))
      BY Finite, FS_Subset
    <3>3. e1 <= e0 /\ e1 \in Nat /\ d1 <= d0 /\ d1 \in Nat
      BY <2>4, <3>2, FS_Subset, FS_CardinalityType
    <3>4. e0 \in Nat /\ b \in Nat /\ d0 \in Nat /\ r \in Nat
      BY Finite
    <3>5. n >= e0 + b + d0 + r /\ n \in Int
      BY <1>2, NodeParts DEF TreeInv, LinkInv, DataType
    <3> HIDE DEF e0, e1, b, d0, d1, r, n
    <3>6. n >= e1 + b + d1 + r
      BY <3>3, <3>4, <3>5
    <3>7. QED
      BY <3>1, <3>6 DEF e1, b, d1, r, n
  <2>6. QED
    BY <2>5 DEF LinkInv
<1>11. EntInv'
  <2>1. ASSUME NEW j \in Inums, NEW k \in 1..Len(disk'[j].ents), disk'[j].ents[k].name \in Names
        PROVE  disk'[j].ents[k].inum # None
    <3>1. disk'[j].ents # <<>>
      OBVIOUS
    <3>2. disk'[j] = disk[j]
      BY <1>8, <3>1
    <3>3. QED
      BY <2>1, <3>2 DEF TreeInv, EntInv
  <2>2. QED
    BY <2>1 DEF EntInv
<1>12. LiveInv'
  BY <1>7, <1>8, <1>9 DEF TreeInv, LiveInv, LiveAt
<1>13. FreeingInv'
  <2>1. ASSUME NEW q \in Procs, NEW j \in Inums, freeing'[q] = "trunc", Head(puts'[q]) = j
        PROVE  disk'[j].nlink = 0 /\ disk'[j].type # "free" /\ \A r \in Procs : ~Live(r, j)'
    <3>1. q # p /\ freeing[q] = "trunc" /\ Head(puts[q]) = j
      BY <1>1, <1>2, <2>1 DEF Others
    <3>2. disk[j].nlink = 0 /\ disk[j].type # "free" /\ \A r \in Procs : ~Live(r, j)
      BY <3>1 DEF TreeInv, FreeingInv, FreeingAt
    <3>3. puts[q] # <<>>
      BY <3>1 DEF IInv, RefInv, CallInv, CallAt
    <3>4. lock[j] = q
      BY <3>1, <3>3, Putter
    <3>5. QED
      BY <1>4, <1>8, <1>9, <3>1, <3>2, <3>4
  <2>2. QED
    BY <2>1 DEF FreeingInv, FreeingAt
<1>14. NewInv'
  <2>1. ASSUME NEW q \in Procs, NEW j \in Inums
        PROVE  NewAt(q, j)'
    <3>1. NewAt(q, j)
      BY DEF TreeInv, NewInv
    <3>2. ip[q] = j => j # i
      BY <1>7 DEF Live
    <3>3. QED
      BY <1>1, <1>8, <1>9, <3>1, <3>2 DEF NewAt
  <2>2. QED
    BY <2>1 DEF NewInv
<1>15. KindInv'
  <2>1. ASSUME NEW q \in Procs
        PROVE  KindAt(q)'
    <3>1. KindAt(q)
      BY DEF TreeInv, KindInv
    <3>2. ip[q] \in Inums \cup {None} /\ dp[q] \in Inums \cup {None} /\ cwd[q] \in Inums
          /\ CallOk(pc[q], call[q], elem[q], ip[q], dp[q])
      BY Own
    <3>3. disk'[cwd[q]] = disk[cwd[q]] /\ (ip[q] # None => disk'[ip[q]] = disk[ip[q]])
          /\ (dp[q] # None => disk'[dp[q]] = disk[dp[q]])
      BY <1>7, <1>8, <3>2 DEF Live, Holds
    <3>4. /\ pc[q] \in {"link_start", "link_new", "link_bad"} \/ (pc[q] = "nameiparent" /\ call[q] = "link")
               => ip[q] # None
          /\ pc[q] = "unlink_ip" => dp[q] # None
      BY <3>2 DEF CallOk, WithIp, WithDp
    <3>5. QED
      BY <1>1, <3>1, <3>3, <3>4 DEF KindAt, KindOk
  <2>2. QED
    BY <2>1 DEF KindInv
<1>16. DotInv'
  <2>1. ASSUME NEW j \in Inums, disk'[j].type = "dir"
        PROVE  Dotted(j)' \/ Bare(j)'
    <3>1. disk'[j] = disk[j] /\ DotAt(j)
      BY <1>8, <2>1 DEF TreeInv, DotInv
    <3>2. QED
      BY <1>1, <1>9, <2>1, <3>1 DEF DotAt, Dotted, Bare, Away
  <2>2. QED
    BY <2>1 DEF DotInv, DotAt
<1>17. QED
  BY <1>6, <1>10, <1>11, <1>12, <1>13, <1>14, <1>15, <1>16 DEF TreeInv

-----------------------------------------------------------------------------
(* The steps that change links and entries.                                *)

\* Whether place k of directory i names j, p has a link of j pending, and place k of i names a directory.
One(b) == IF b THEN 1 ELSE 0
Tally(p, i, k, j) == One(Lists(disk[i], k, j)) + One(Pends(p, j)) + One(j = i /\ k \in Dirs(i))

\* Links are counted after a step that changes at most place k of directory i.
LEMMA ListStep ==
  ASSUME LinkInv, DataType, DataType', NEW p \in Procs, Others(p), NEW i \in Inums, NEW k \in Places,
         \A j, n \in Inums : \A m \in Places : j # i \/ m # k => (Lists(disk'[j], m, n) => Lists(disk[j], m, n)),
         \A j, n \in Inums : \A m \in Places :
           Lists(disk[j], m, n) /\ disk'[n].type = "dir" => disk[n].type = "dir",
         \A j \in Inums : disk'[j].nlink - Tally(p, i, k, j)' >= disk[j].nlink - Tally(p, i, k, j)
  PROVE  LinkInv'
<1> DEFINE x == <<i, k>>
<1>1. x \in Inums \X Places
  OBVIOUS
<1>2. ASSUME NEW j \in Inums, NEW z \in (Inums \X Places) \ {x}, z \in Entries(j)'
      PROVE  z \in Entries(j)
  <2>1. z[1] \in Inums /\ z[2] \in Places /\ (z[1] # i \/ z[2] # k)
    OBVIOUS
  <2>2. Lists(disk'[z[1]], z[2], j)
    BY <1>2 DEF Entries
  <2>3. Lists(disk[z[1]], z[2], j)
    BY <2>1, <2>2
  <2>4. QED
    BY <2>3 DEF Entries
<1>3. \A j \in Inums : \A m \in Places : m # k \/ j # i => (m \in Dirs(j)' => m \in Dirs(j))
  BY DEF Dirs
<1>4. \A j \in Inums : (x \in Entries(j) <=> Lists(disk[i], k, j)) /\ (x \in Entries(j)' <=> Lists(disk'[i], k, j))
  BY <1>1 DEF Entries
<1>5. ASSUME NEW j \in Inums
      PROVE  disk'[j].nlink - Count(p, x, k, j)' >= disk[j].nlink - Count(p, x, k, j)
  <2> DEFINE n0 == disk[j].nlink
             n1 == disk'[j].nlink
             e0 == IF x \in Entries(j) THEN 1 ELSE 0
             e1 == IF x \in Entries(j)' THEN 1 ELSE 0
             b0 == IF Pends(p, j) THEN 1 ELSE 0
             b1 == IF Pends(p, j)' THEN 1 ELSE 0
             d0 == IF k \in Dirs(j) THEN 1 ELSE 0
             d1 == IF k \in Dirs(j)' THEN 1 ELSE 0
             c0 == IF j = i /\ k \in Dirs(i) THEN 1 ELSE 0
             c1 == IF j = i /\ k \in Dirs(i)' THEN 1 ELSE 0
  <2>1. n0 \in Int /\ n1 \in Int
    BY NodeParts DEF DataType
  <2>2. Tally(p, i, k, j) = e0 + b0 + c0 /\ Tally(p, i, k, j)' = e1 + b1 + c1
    BY <1>4 DEF Tally, One
  <2>3. n1 - (e1 + b1 + c1) >= n0 - (e0 + b0 + c0)
    BY <2>2
  <2>4. d1 - c1 <= d0 - c0
    BY <1>3
  <2>5. e0 \in Nat /\ e1 \in Nat /\ b0 \in Nat /\ b1 \in Nat /\ c0 \in Nat /\ c1 \in Nat /\ d0 \in Nat /\ d1 \in Nat
    OBVIOUS
  <2>6. Count(p, x, k, j) = e0 + b0 + d0 /\ Count(p, x, k, j)' = e1 + b1 + d1
    BY DEF Count
  <2> HIDE DEF n0, n1, e0, e1, b0, b1, c0, c1, d0, d1
  <2>7. n1 - (e1 + b1 + d1) >= n0 - (e0 + b0 + d0)
    BY <2>1, <2>3, <2>4, <2>5
  <2>8. QED
    BY <2>6, <2>7 DEF n0, n1
<1> HIDE DEF x
<1>6. \A j \in Inums : \A m \in Places \ {k} : m \in Dirs(j)' => m \in Dirs(j)
  BY <1>3
<1>7. \A j \in Inums : \A z \in (Inums \X Places) \ {x} : z \in Entries(j)' => z \in Entries(j)
  BY <1>2
<1>8. QED
  BY <1>1, <1>5, <1>6, <1>7, LinkStep

\* What a step that uses Access() must do for the invariant.
Writes(p, d) == \A j \in DOMAIN d :
  \/ Has(p, j) /\ d[j].type = disk[j].type
  \/ j \in Inums /\ disk[j].type = "free" /\ DotAt(j)'

\* A step that writes inodes that the process has, or takes a free one, keeps the tree if it keeps
\* links and entries.
LEMMA WriteStep ==
  ASSUME IInv, TreeInv, NEW p \in Procs, NEW at, At(p, at), Good(p), freeing' = freeing,
         NEW f, NEW d, NEW g \in Inums \cup {None}, NEW assert, assert,
         Access(f, d, g, assert), \A j \in DOMAIN f : Has(p, j), Writes(p, d),
         g # None => disk[g].nlink # 0 \/ Live(p, g) \/ (disk[g].type = "free" /\ d[g].type # "free" /\ g \in DOMAIN d),
         \A j \in Inums : Dots(j),
         at = "create_new" => \A j \in Inums : ip[p] = j => DotAt(j)',
         LinkInv', EntInv', KindAt(p)', \A j \in Inums : NewAt(p, j)'
  PROVE  TreeInv'
<1>1. ~panicked' /\ Idle(p) /\ pc[p] = at /\ DataType /\ TypeInv'
  BY Started, Safe, Own DEF Good
<1>2. \A j \in Inums : disk'[j] = IF j \in DOMAIN d THEN d[j] ELSE disk[j]
  BY DEF Access
<1>3. ASSUME NEW j \in Inums
      PROVE  Touched(p, j)
  BY <1>2 DEF Writes, Touched, Has
<1>4. ASSUME NEW j \in Inums
      PROVE  Gained(p, j)
  <2>1. SUFFICES ASSUME Live(p, j)', ~Live(p, j)
                 PROVE  disk[j].nlink # 0 \/ (disk[j].type = "free" /\ disk'[j].type # "free")
    BY DEF Gained
  <2>2. ref'[j] > ref[j]
    BY <1>1, <2>1, Took DEF Good
  <2>3. ref[j] \in Nat /\ (g # j => ref'[j] = ref[j])
    BY <1>1 DEF DataType, Access
  <2>4. g = j
    BY <2>2, <2>3
  <2>5. QED
    BY <1>2, <2>1, <2>4, Constants
<1>5. QED
  BY <1>1, <1>3, <1>4, TreeStep

\* The inode in On() is the only one written.
LEMMA WriteOne ==
  ASSUME NEW p \in Procs, NEW i, Has(p, i), NEW e, e.type = disk[i].type, NEW assert, assert,
         Access(On(i, e), On(i, e), None, assert)
  PROVE  /\ \A j \in DOMAIN On(i, e) : Has(p, j)
         /\ Writes(p, On(i, e)) /\ None \in Inums \cup {None}
         /\ disk'[i] = e /\ \A j \in Inums : j # i => disk'[j] = disk[j]
<1>1. DOMAIN On(i, e) = {i} /\ On(i, e)[i] = e
  BY Contents
<1>2. QED
  BY <1>1 DEF Writes, Access, Has

\* A link is counted, or is no longer.
LEMMA CountStep ==
  ASSUME IInv, TreeInv, NEW p \in Procs, NEW at, At(p, at), at # "create_new", Good(p), freeing' = freeing,
         NEW i, Has(p, i), NEW n \in Int, NEW e, e = [ilock(i) EXCEPT !.nlink = n],
         Access(On(i, e), On(i, e), None, TRUE),
         NEW point, NEW s, NEW op, NEW name, NEW x, NEW y,
         Going(p, point, s, op, name, x, y), point \notin {"create_new", "unlink_ip"},
         cwd'[p] = cwd[p], KindOk(cwd[p], point, op, name, x, y),
         n - One(PendsOk(point, op, x, i)) >= disk[i].nlink - One(Pends(p, i)),
         \A j \in Inums : j # i => ~PendsOk(point, op, x, j)
  PROVE  TreeInv'
<1>1. Idle(p) /\ pc[p] = at /\ DataType /\ CallType /\ Others(p) /\ DataType' /\ i \in Inums /\ IInv' /\ CallType' /\ ProcType'
      /\ freeing[p] = "no" /\ ~panicked
  BY Started, Own, GoodStep DEF Good, TypeInv, Has
<1>2. ilock(i) = disk[i]
  BY <1>1, Reading DEF Has, Unlocked
<1>3. e.type = disk[i].type /\ e.ents = disk[i].ents /\ e.nlink = n
  BY <1>1, <1>2, WithLinks DEF DataType
<1>4. disk'[i] = e /\ (\A j \in Inums : j # i => disk'[j] = disk[j]) /\ None \in Inums \cup {None}
      /\ (\A j \in DOMAIN On(i, e) : Has(p, j)) /\ Writes(p, On(i, e))
  <2>1. e.type = disk[i].type /\ TRUE \in BOOLEAN
    BY <1>3
  <2>2. \A j \in DOMAIN On(i, e) : Has(p, j)
    BY <2>1, WriteOne
  <2>3. Writes(p, On(i, e))
    BY <2>1, WriteOne
  <2>4. disk'[i] = e
    <3>1. DOMAIN On(i, e) = {i} /\ On(i, e)[i] = e /\ i \in Inums
      BY Contents DEF Has
    <3>2. disk' = [j \in Inums |-> IF j \in DOMAIN On(i, e) THEN On(i, e)[j] ELSE disk[j]]
      BY DEF Access
    <3>3. QED
      BY <3>1, <3>2
  <2>5. \A j \in Inums : j # i => disk'[j] = disk[j]
    BY <2>1, WriteOne
  <2>6. QED
    BY <2>2, <2>3, <2>4, <2>5
<1>5. \A j \in Inums : disk'[j].type = disk[j].type /\ disk'[j].ents = disk[j].ents
  BY <1>3, <1>4
<1>6. pc'[p] = point /\ call'[p] = op /\ elem'[p] = name /\ ip'[p] = x /\ dp'[p] = y
  BY <1>1, Arrived
<1>7. \A j, m : \A q \in Inums : Lists(disk'[q], m, j) <=> Lists(disk[q], m, j)
  BY <1>5 DEF Lists
<1>8. LinkInv'
  <2>1. 1 \in Places
    BY Slots DEF Places
  <2>2. ASSUME NEW j \in Inums
        PROVE  disk'[j].nlink - Tally(p, i, 1, j)' >= disk[j].nlink - Tally(p, i, 1, j)
    <3> DEFINE a == One(Lists(disk[i], 1, j))
               b == One(j = i /\ 1 \in Dirs(i))
               b0 == One(Pends(p, j))
               b1 == One(PendsOk(point, op, x, j))
               n0 == disk[j].nlink
               n1 == disk'[j].nlink
    <3>1. n0 \in Int /\ n1 \in Int
      BY <1>1, NodeParts DEF DataType
    <3>2. Dirs(i)' = Dirs(i)
      BY <1>5, <1>7, <1>1 DEF Dirs
    <3>3. Tally(p, i, 1, j)' = a + b1 + b
      BY <1>1, <1>6, <1>7, <3>2 DEF Tally, Pends, One
    <3>4. Tally(p, i, 1, j) = a + b0 + b
      BY DEF Tally
    <3>5. a \in Nat /\ b \in Nat /\ b0 \in Nat /\ b1 \in Nat
      BY DEF One
    <3>6. n1 - b1 >= n0 - b0
      <4>1. CASE j = i
        BY <1>3, <1>4, <4>1
      <4>2. CASE j # i
        <5>1. n1 = n0 /\ b1 = 0
          BY <1>4, <4>2 DEF One
        <5> HIDE DEF n0, n1, b0, b1
        <5>2. QED
          BY <3>1, <3>5, <5>1
      <4>3. QED
        BY <4>1, <4>2
    <3> HIDE DEF a, b, b0, b1, n0, n1
    <3>7. n1 - (a + b1 + b) >= n0 - (a + b0 + b)
      BY <3>1, <3>5, <3>6
    <3>8. QED
      BY <3>3, <3>4, <3>7 DEF n0, n1
  <2>3. QED
    BY <1>1, <1>5, <1>7, <2>1, <2>2, ListStep DEF TreeInv
<1>9. EntInv'
  BY <1>5 DEF TreeInv, EntInv
<1>10. KindAt(p)'
  <2>1. cwd[p] \in Inums /\ x \in Inums \cup {None} /\ y \in Inums \cup {None} /\ CallOk(point, op, name, x, y)
    BY <1>1, <1>6, Own DEF CallType, Good, CallAt
  <2>2. point \in {"link_start", "link_new", "link_bad"} \/ (point = "nameiparent" /\ op = "link") => x # None
    BY <2>1 DEF CallOk, WithIp
  <2>3. KindOk(cwd[p], point, op, name, x, y)'
    BY <1>5, <2>1, <2>2 DEF KindOk
  <2>4. QED
    BY <1>6, <2>3 DEF KindAt
<1>11. \A j \in Inums : NewAt(p, j)' /\ Dots(j)
  BY <1>5, <1>6 DEF NewAt, Dots, Dotted
<1>12. QED
  BY <1>4, <1>8, <1>9, <1>10, <1>11, WriteStep

\* link() finds the old inode: a directory is refused.
LEMMA sys_linkTree ==
  ASSUME IInv, TreeInv, NEW p \in Procs, sys_link(p)
  PROVE  TreeInv'
<1> DEFINE i == ip[p]
           n == ilock(i).nlink + 1
           e == [ilock(i) EXCEPT !.nlink = n]
<1>1. At(p, "link") /\ Unlocked(i) /\ freeing' = freeing /\ cwd' = cwd /\ Good(p)
  BY sys_linkGood DEF sys_link, procs
<1>2. Idle(p) /\ pc[p] = "link" /\ i \in Inums /\ Has(p, i) /\ CallType /\ dp[p] = None /\ call[p] = "link" /\ DataType
      /\ ilock(i) = disk[i]
  <2>1. Idle(p) /\ pc[p] = "link"
    BY <1>1, Started
  <2>2. CallOk(pc[p], call[p], elem[p], ip[p], dp[p]) /\ CallType /\ DataType /\ freeing[p] = "no" /\ ~panicked
        /\ ip[p] \in Inums \cup {None} /\ dp[p] \in Inums \cup {None}
    BY <2>1, Own DEF TreeInv
  <2>3. i \in Inums /\ dp[p] = None /\ call[p] = "link"
    BY <2>1, <2>2 DEF CallOk, WithIp, WithDp
  <2>4. Has(p, i)
    BY <1>1, <2>3 DEF Has, Live, Unlocked
  <2>5. ilock(i) = disk[i]
    BY <1>1, <2>2, <2>3, Reading
  <2>6. QED
    BY <2>1, <2>2, <2>3, <2>4, <2>5
<1>3. \A j \in Inums : ~Pends(p, j)
  BY <1>2 DEF Pends, PendsOk
<1>4. CASE Look(i, None) /\ Return(p, <<i>>)
  BY <1>1, <1>2, <1>3, <1>4, RefusedTree
<1>5. CASE /\ ilock(i).type # "dir"
           /\ Access(On(i, e), On(i, e), None, TRUE)
           /\ Goto(p, "link_start", <<>>)
           /\ UNCHANGED <<used, locals>>
  <2>1. Going(p, "link_start", <<>>, call[p], elem[p], i, None)
    BY <1>2, <1>5, Unset DEF Set, Going, locals
  <2>2. KindOk(cwd[p], "link_start", call[p], elem[p], i, None)
    BY <1>2, <1>5, Knows DEF KindOk
  <2>3. /\ \A j \in Inums : j # i => ~PendsOk("link_start", call[p], i, j)
        /\ One(PendsOk("link_start", call[p], i, i)) = 1 /\ One(Pends(p, i)) = 0
    BY <1>2, <1>3 DEF PendsOk, One
  <2>4. disk[i].nlink \in Int /\ n = disk[i].nlink + 1
    BY <1>2, NodeParts DEF DataType
  <2>5. n \in Int /\ n - One(PendsOk("link_start", call[p], i, i)) >= disk[i].nlink - One(Pends(p, i))
    BY <2>3, <2>4
  <2> HIDE DEF n, i
  <2>6. QED
    BY <1>1, <1>2, <1>5, <2>1, <2>2, <2>3, <2>5, CountStep
<1>6. QED
  BY <1>4, <1>5 DEF sys_link

\* link() takes back the link that it has made no entry for.
LEMMA link_badTree ==
  ASSUME IInv, TreeInv, NEW p \in Procs, link_bad(p)
  PROVE  TreeInv'
<1> DEFINE i == ip[p]
           n == ilock(i).nlink - 1
           e == [ilock(i) EXCEPT !.nlink = n]
<1>1. /\ At(p, "link_bad") /\ Unlocked(i) /\ freeing' = freeing /\ cwd'[p] = cwd[p]
      /\ Access(On(i, e), On(i, e), None, TRUE) /\ Return(p, <<i>>) /\ Good(p)
  BY link_badGood DEF link_bad, procs
<1>2. pc[p] = "link_bad" /\ i \in Inums /\ Has(p, i) /\ DataType /\ ilock(i) = disk[i] /\ None \notin Inums
      /\ KindOk(cwd[p], "user", "none", "", None, None)
  <2>1. Idle(p) /\ pc[p] = "link_bad"
    BY <1>1, Started
  <2>2. CallOk(pc[p], call[p], elem[p], ip[p], dp[p]) /\ DataType /\ freeing[p] = "no" /\ ~panicked
        /\ ip[p] \in Inums \cup {None}
    BY <2>1, Own DEF TreeInv
  <2>3. i \in Inums
    BY <2>1, <2>2 DEF CallOk, WithIp
  <2>4. Has(p, i)
    BY <1>1, <2>3 DEF Has, Live, Unlocked
  <2>5. ilock(i) = disk[i]
    BY <1>1, <2>2, <2>3, Reading
  <2>6. KindOk(cwd[p], "user", "none", "", None, None)
    BY <2>1, Knows
  <2>7. QED
    BY <2>1, <2>2, <2>3, <2>4, <2>5, <2>6, Constants
<1>3. Going(p, "user", <<i>>, "none", "", None, None)
  BY <1>1 DEF Set, Return, Going
<1>4. /\ \A j \in Inums : j # i => ~PendsOk("user", "none", None, j)
      /\ One(PendsOk("user", "none", None, i)) = 0 /\ One(Pends(p, i)) = 1
  BY <1>2 DEF PendsOk, Pends, One
<1>5. disk[i].nlink \in Int /\ n = disk[i].nlink - 1
  BY <1>2, NodeParts DEF DataType
<1>6. n \in Int /\ n - One(PendsOk("user", "none", None, i)) >= disk[i].nlink - One(Pends(p, i))
  BY <1>4, <1>5
<1> HIDE DEF n, i
<1>7. QED
  BY <1>1, <1>2, <1>3, <1>4, <1>6, CountStep

\* unlink() takes away the link whose entry it has cleared.
LEMMA unlinkedTree ==
  ASSUME IInv, TreeInv, NEW p \in Procs, unlinked(p)
  PROVE  TreeInv'
<1> DEFINE i == ip[p]
           n == ilock(i).nlink - 1
           e == [ilock(i) EXCEPT !.nlink = n]
<1>1. At(p, "unlinked") /\ pc[p] = "unlinked" /\ Good(p) /\ ~panicked /\ freeing[p] = "no" /\ Idle(p)
  BY unlinkedGood, Started DEF unlinked
<1>2. i \in Inums /\ Locked(p) = i
  <2>1. i \in Inums
    BY <1>1, Own DEF CallOk, WithIp
  <2>2. QED
    BY <1>1, <2>1 DEF Locked, LockedAt
<1>3. lock[i] = p /\ mem[i] = ilock(i)
  BY <1>2, Mine
<1>4. /\ freeing' = freeing /\ cwd'[p] = cwd[p]
      /\ Access(On(i, e), On(i, e), None, TRUE) /\ Return(p, <<i>>)
  BY <1>3 DEF unlinked, procs
<1>5. Has(p, i) /\ DataType /\ ilock(i) = disk[i] /\ None \notin Inums
      /\ KindOk(cwd[p], "user", "none", "", None, None)
  <2>1. Has(p, i)
    BY <1>2, <1>3 DEF Has, Live
  <2>2. ilock(i) = disk[i]
    BY <1>1, <1>2, <1>3, Reading
  <2>3. KindOk(cwd[p], "user", "none", "", None, None)
    BY <1>1, Knows
  <2>4. DataType
    BY <1>1, Own
  <2>5. QED
    BY <2>1, <2>2, <2>3, <2>4, Constants
<1>6. Going(p, "user", <<i>>, "none", "", None, None)
  BY <1>4 DEF Set, Return, Going
<1>7. /\ \A j \in Inums : j # i => ~PendsOk("user", "none", None, j)
      /\ One(PendsOk("user", "none", None, i)) = 0 /\ One(Pends(p, i)) = 1
  BY <1>1, <1>5, <1>2 DEF PendsOk, Pends, One
<1>8. disk[i].nlink \in Int /\ n = disk[i].nlink - 1
  BY <1>2, <1>5, NodeParts DEF DataType
<1>9. n \in Int /\ n - One(PendsOk("user", "none", None, i)) >= disk[i].nlink - One(Pends(p, i))
  BY <1>7, <1>8
<1> HIDE DEF n, i
<1>10. QED
  BY <1>1, <1>4, <1>5, <1>6, <1>7, <1>9, CountStep

\* An entry is added to a directory.
LEMMA Adding ==
  ASSUME NEW d \in Node, NEW e \in Node, e.type = d.type, NEW i \in Inums, NEW nm,
         NEW k, k = FreeSlot(d), Placed(d.ents, e.ents, k, [name |-> nm, inum |-> i])
  PROVE  /\ k \in Places
         /\ \A j \in Inums : ~Lists(d, k, j) /\ (Lists(e, k, j) => j = i)
         /\ \A j : \A m \in Places : m # k => (Lists(e, m, j) <=> Lists(d, m, j))
         /\ (\A m \in 1..Len(d.ents) : d.ents[m].name \in Names => d.ents[m].inum # None)
              => (\A m \in 1..Len(e.ents) : e.ents[m].name \in Names => e.ents[m].inum # None)
         /\ Len(d.ents) > 0 /\ d.ents[1].inum # None => Len(e.ents) > 0 /\ e.ents[1] = d.ents[1]
<1> DEFINE s == d.ents
           t == e.ents
           a == Len(s)
           b == Len(t)
           v == [name |-> nm, inum |-> i]
<1>1. s \in Seq(Entry) /\ t \in Seq(Entry) /\ a \in Nat /\ b \in Nat /\ b <= DirSlots * MAXFILE
  BY NodeParts
<1>2. k \in 1..(a + 1) /\ (k <= a => s[k].inum = None)
  BY Slot
<1>3. b = (IF k > a THEN k ELSE a) /\ t[k] = v /\ \A j \in 1..a : j # k => t[j] = s[j]
  BY DEF Placed
<1>4. None \notin Inums /\ v.inum = i /\ v.name = nm /\ i # None
  BY Constants
<1>5. k \in Places /\ \A m \in Places : m \in Nat /\ m >= 1
  <2> DEFINE n == DirSlots * MAXFILE
  <2>1. n \in Nat
    BY Slots
  <2>2. Places = 1..n /\ b <= n
    BY <1>1 DEF Places
  <2> HIDE DEF n, a, b
  <2>3. QED
    BY <1>1, <1>2, <1>3, <2>1, <2>2
<1>6. \A j \in Inums : ~Lists(d, k, j)
  BY <1>2, <1>4 DEF Lists
<1>7. \A j \in Inums : Lists(e, k, j) => j = i
  BY <1>3, <1>4 DEF Lists
<1>8. ASSUME NEW m \in Nat, m >= 1, m # k
      PROVE  (m <= b <=> m <= a) /\ (m <= a => t[m] = s[m])
  <2> HIDE DEF s, t, a, b, v
  <2>1. QED
    BY <1>1, <1>2, <1>3, <1>8
<1>9. \A j : \A m \in Places : m # k => (Lists(e, m, j) <=> Lists(d, m, j))
  <2>1. ASSUME NEW j, NEW m \in Places, m # k
        PROVE  Lists(e, m, j) <=> Lists(d, m, j)
    <3>1. (m <= b <=> m <= a) /\ (m <= a => t[m] = s[m])
      BY <1>5, <1>8, <2>1
    <3>2. QED
      BY <3>1 DEF Lists
  <2>2. QED
    BY <2>1
<1>10. ASSUME \A m \in 1..a : s[m].name \in Names => s[m].inum # None, NEW m \in 1..b, t[m].name \in Names
       PROVE  t[m].inum # None
  <2>1. CASE m = k
    BY <1>3, <1>4, <2>1
  <2>2. CASE m # k
    <3>1. m \in Nat /\ m >= 1 /\ m <= b
      <4> HIDE DEF b
      <4>1. QED
        BY <1>1, <1>10
    <3>2. m <= a /\ t[m] = s[m]
      BY <1>8, <2>2, <3>1
    <3>3. m \in 1..a
      <4> HIDE DEF a
      <4>1. QED
        BY <1>1, <3>1, <3>2
    <3>4. QED
      BY <1>10, <3>2, <3>3
  <2>3. QED
    BY <2>1, <2>2
<1>11. ASSUME a > 0, s[1].inum # None
       PROVE  b > 0 /\ t[1] = s[1]
  <2>1. k # 1
    BY <1>1, <1>2, <1>11
  <2>2. 1 <= a
    <3> HIDE DEF a
    <3>1. QED
      BY <1>1, <1>11
  <2>3. t[1] = s[1] /\ 1 <= b
    BY <1>8, <2>1, <2>2
  <2>4. b > 0
    <3> HIDE DEF b
    <3>1. QED
      BY <1>1, <2>3
  <2>5. QED
    BY <2>3, <2>4
<1>12. QED
  BY <1>5, <1>6, <1>7, <1>9, <1>10, <1>11

\* Directory d without its entry k, and with n links.
Erased(d, k, n) == [d EXCEPT !.ents[k] = Empty, !.nlink = n]

\* unlink() clears an entry, and nothing else of the directory but its link count.
LEMMA Clearing ==
  ASSUME NEW d \in Node, NEW k \in 1..Len(d.ents), NEW n \in Int, NEW e, e = Erased(d, k, n)
  PROVE  /\ e \in Node /\ e.type = d.type /\ e.nlink = n
         /\ \A j : ~Lists(e, k, j)
         /\ \A j : \A m \in Places : m # k => (Lists(e, m, j) <=> Lists(d, m, j))
         /\ (\A m \in 1..Len(d.ents) : d.ents[m].name \in Names => d.ents[m].inum # None)
              => (\A m \in 1..Len(e.ents) : e.ents[m].name \in Names => e.ents[m].inum # None)
         /\ k # 1 => Len(e.ents) = Len(d.ents) /\ e.ents[1] = d.ents[1]
<1> DEFINE s == d.ents
           t == [s EXCEPT ![k] = Empty]
           a == Len(s)
<1>1. s \in [1..a -> Entry] /\ a \in Nat
  BY NodeParts
<1>2. e.ents = t /\ e.type = d.type /\ e.nlink = n /\ e \in Node
  <2>1. e \in Node /\ e.type = d.type
    BY Cleared DEF Erased
  <2>2. e.ents = t /\ e.nlink = n
    BY DEF Node, Erased
  <2>3. QED
    BY <2>1, <2>2
<1>3. Len(t) = a /\ t[k] = Empty /\ \A m : m # k => t[m] = s[m]
  <2>1. DOMAIN t = 1..a
    BY <1>1
  <2>2. Len(t) = a
    BY <1>1, <2>1
  <2>3. k \in DOMAIN s
    BY <1>1
  <2>4. t[k] = Empty
    BY <2>3
  <2>5. \A m : m # k => t[m] = s[m]
    <3> HIDE DEF s
    <3>1. \A m \in DOMAIN s : m # k => t[m] = s[m]
      OBVIOUS
    <3>2. QED
      BY <3>1
  <2>6. QED
    BY <2>2, <2>4, <2>5
<1>4. Empty.inum = None /\ Empty.name = "" /\ "" \notin Names
  BY NameAssumption DEF Empty
<1> HIDE DEF t
<1>5. \A j : ~Lists(e, k, j)
  BY <1>2, <1>3, <1>4 DEF Lists
<1>6. \A j : \A m \in Places : m # k => (Lists(e, m, j) <=> Lists(d, m, j))
  BY <1>2, <1>3 DEF Lists
<1>7. (\A m \in 1..Len(d.ents) : d.ents[m].name \in Names => d.ents[m].inum # None)
      => (\A m \in 1..Len(e.ents) : e.ents[m].name \in Names => e.ents[m].inum # None)
  BY <1>2, <1>3, <1>4
<1>8. QED
  BY <1>2, <1>3, <1>5, <1>6, <1>7

\* A place of a directory is that of one inode.
LEMMA OnePerPlace ==
  ASSUME NEW h \in Inums, NEW k \in Places, NEW i \in Inums, Lists(disk[h], k, i)
  PROVE  /\ \A j : Lists(disk[h], k, j) <=> j = i
         /\ k \in Dirs(h) <=> disk[i].type = "dir"
<1>1. \A j : Lists(disk[h], k, j) <=> j = i
  BY DEF Lists
<1>2. QED
  BY <1>1 DEF Dirs

\* The step of unlink() that clears place k of directory h, which names i.
LEMMA ClearStep ==
  ASSUME IInv, TreeInv, NEW p \in Procs, At(p, "unlink_ip"), Good(p), freeing' = freeing, cwd'[p] = cwd[p],
         NEW i \in Inums, NEW h \in Inums, i # h, Has(p, i), Has(p, h),
         NEW k \in Places, k \in 1..Len(disk[h].ents), Lists(disk[h], k, i), disk[h].ents[k].name # ".",
         NEW n \in Int, n = disk[h].nlink - One(disk[i].type = "dir"),
         NEW e, e = Erased(disk[h], k, n),
         NEW c, NEW ok, ok, Access(OnBoth(i, c, h, e), On(h, e), None, ok),
         pc'[p] = "unlinked", ip'[p] = i, dp'[p] = None
  PROVE  TreeInv'
<1> DEFINE f == OnBoth(i, c, h, e)
           w == On(h, e)
           d == disk[h]
<1>1. DOMAIN f = {i, h} /\ DOMAIN w = {h} /\ w[h] = e
  BY DEF OnBoth, On
<1>2. DataType /\ DataType' /\ Others(p) /\ LinkInv /\ d \in Node /\ d.nlink \in Int /\ pc[p] = "unlink_ip" /\ Idle(p)
  <2>1. DataType /\ DataType' /\ Others(p) /\ LinkInv /\ pc[p] = "unlink_ip" /\ Idle(p)
    BY Own, Started DEF Good, TypeInv, TreeInv
  <2>2. d \in Node
    BY <2>1 DEF DataType
  <2>3. QED
    BY <2>1, <2>2, NodeParts
<1>3. disk'[h] = e /\ \A j \in Inums : j # h => disk'[j] = disk[j]
  BY <1>1 DEF Access
<1>4. /\ e \in Node /\ e.type = d.type /\ e.nlink = n
      /\ \A j : ~Lists(e, k, j)
      /\ \A j : \A m \in Places : m # k => (Lists(e, m, j) <=> Lists(d, m, j))
      /\ (\A m \in 1..Len(d.ents) : d.ents[m].name \in Names => d.ents[m].inum # None)
           => (\A m \in 1..Len(e.ents) : e.ents[m].name \in Names => e.ents[m].inum # None)
      /\ k # 1 => Len(e.ents) = Len(d.ents) /\ e.ents[1] = d.ents[1]
  <2> HIDE DEF d
  <2>1. k \in 1..Len(d.ents) /\ e = Erased(d, k, n) /\ d \in Node
    BY <1>2 DEF d
  <2>2. QED
    BY <2>1, Clearing
<1>5. \A j \in Inums : disk'[j].type = disk[j].type
  BY <1>3, <1>4
<1>6. \A j \in Inums : ~Pends(p, j)
  BY <1>2 DEF Pends, PendsOk
<1>7. LinkInv'
  <2>1. \A j, m \in Inums : \A x \in Places : j # h \/ x # k => (Lists(disk'[j], x, m) => Lists(disk[j], x, m))
    BY <1>3, <1>4
  <2>2. \A j, m \in Inums : \A x \in Places :
          Lists(disk[j], x, m) /\ disk'[m].type = "dir" => disk[m].type = "dir"
    BY <1>5
  <2>3. \A j : ~Lists(disk'[h], k, j)
    BY <1>3, <1>4
  <2>4. k \notin Dirs(h)'
    BY <2>3 DEF Dirs
  <2>5. /\ \A j : Lists(disk[h], k, j) <=> j = i
        /\ k \in Dirs(h) <=> disk[i].type = "dir"
    BY OnePerPlace, ZenonT(30)
  <2>6. \A j \in Inums : Pends(p, j)' <=> j = i
    BY DEF Pends, PendsOk
  <2>7. ASSUME NEW j \in Inums
        PROVE  disk'[j].nlink - Tally(p, h, k, j)' >= disk[j].nlink - Tally(p, h, k, j)
    <3>1. Tally(p, h, k, j) = One(j = i) + 0 + One(j = h /\ disk[i].type = "dir")
      BY <1>6, <2>5 DEF Tally, One
    <3>2. Tally(p, h, k, j)' = 0 + One(j = i) + 0
      <4>1. One(Lists(disk'[h], k, j)) = 0 /\ One(j = h /\ k \in Dirs(h)') = 0
        BY <2>3, <2>4 DEF One
      <4>2. One(Pends(p, j)') = One(j = i)
        BY <2>6 DEF One
      <4>3. Tally(p, h, k, j)' = One(Lists(disk'[h], k, j)) + One(Pends(p, j)') + One(j = h /\ k \in Dirs(h)')
        BY DEF Tally, One
      <4>4. QED
        BY <4>1, <4>2, <4>3
    <3>3. disk[j].nlink \in Int /\ disk'[j].nlink \in Int
      BY <1>2, NodeParts DEF DataType
    <3>4. CASE j = h
      <4>1. disk'[j].nlink = disk[j].nlink - One(disk[i].type = "dir")
        BY <1>3, <1>4, <3>4
      <4>2. Tally(p, h, k, j) = One(disk[i].type = "dir") /\ Tally(p, h, k, j)' = 0
        BY <3>1, <3>2, <3>4 DEF One
      <4>3. One(disk[i].type = "dir") \in Int
        BY DEF One
      <4>4. QED
        BY <3>3, <4>1, <4>2, <4>3
    <3>5. CASE j # h
      <4>1. disk'[j].nlink = disk[j].nlink
        BY <1>3, <3>5
      <4>2. Tally(p, h, k, j) = Tally(p, h, k, j)' /\ Tally(p, h, k, j) \in Int
        BY <3>1, <3>2, <3>5 DEF One
      <4>3. QED
        BY <3>3, <4>1, <4>2
    <3>6. QED
      BY <3>4, <3>5
  <2>8. QED
    BY <1>2, <2>1, <2>2, <2>7, ListStep
<1>8. EntInv'
  <2>1. \A m \in 1..Len(e.ents) : e.ents[m].name \in Names => e.ents[m].inum # None
    BY <1>4 DEF TreeInv, EntInv
  <2>2. ASSUME NEW j \in Inums, NEW m \in 1..Len(disk'[j].ents), disk'[j].ents[m].name \in Names
        PROVE  disk'[j].ents[m].inum # None
    <3>1. CASE j = h
      BY <1>3, <2>1, <2>2, <3>1
    <3>2. CASE j # h
      BY <1>3, <2>2, <3>2 DEF TreeInv, EntInv
    <3>3. QED
      BY <3>1, <3>2
  <2>3. QED
    BY <2>2 DEF EntInv
<1>9. KindAt(p)'
  <2>1. cwd[p] \in Inums /\ disk[cwd[p]].type = "dir"
    BY <1>2, Own, Knows
  <2>2. disk'[cwd[p]].type = "dir"
    BY <1>5, <2>1
  <2>3. QED
    BY <2>2 DEF KindAt, KindOk
<1>10. \A j \in Inums : NewAt(p, j)'
  BY DEF NewAt
<1>11. \A j \in Inums : Dots(j)
  <2>1. ASSUME Dotted(h)
        PROVE  Dotted(h)'
    <3>1. k # 1
      BY <2>1 DEF Dotted
    <3>2. Len(e.ents) = Len(d.ents) /\ e.ents[1] = d.ents[1]
      BY <1>4, <3>1
    <3>3. QED
      BY <1>3, <2>1, <3>2 DEF Dotted
  <2>2. \A j \in Inums : j # h => Dots(j)
    BY <1>3 DEF Dots, Dotted
  <2>3. QED
    BY <1>5, <2>1, <2>2 DEF Dots
<1>12. Writes(p, w) /\ \A j \in DOMAIN f : Has(p, j)
  BY <1>1, <1>4 DEF Writes
<1>13. Access(f, w, None, ok) /\ None \in Inums \cup {None}
  OBVIOUS
<1>14. ("unlink_ip" = "create_new" => \A j \in Inums : ip[p] = j => DotAt(j)') /\ Access(f, w, None, TRUE)
  BY <1>13 DEF Access
<1> HIDE DEF f, w, d
<1>15. QED
  BY <1>7, <1>8, <1>9, <1>10, <1>11, <1>12, <1>13, <1>14, WriteStep

\* unlink() clears the entry, unless it is that of a directory with entries.
LEMMA unlink_ipTree ==
  ASSUME IInv, TreeInv, NEW p \in Procs, unlink_ip(p)
  PROVE  TreeInv'
<1> DEFINE i == ip[p]
           c == ilock(i)
           h == dp[p]
           d == mem[h]
           k == dirlookup(d, elem[p])
           n == IF c.type = "dir" THEN d.nlink - 1 ELSE d.nlink
           e == [d EXCEPT !.ents[k] = Empty, !.nlink = n]
           ok == c.nlink > 0
<1>1. /\ At(p, "unlink_ip") /\ Unlocked(i) /\ freeing' = freeing /\ cwd'[p] = cwd[p]
      /\ UNCHANGED <<call, elem>> /\ Good(p)
  BY unlink_ipGood DEF unlink_ip, procs
<1>2. ~panicked /\ Idle(p) /\ pc[p] = "unlink_ip" /\ freeing[p] = "no"
  BY <1>1, Started
<1>3. /\ CallType /\ i \in Inums /\ h \in Inums /\ Locked(p) = h /\ DataType
  BY <1>2, Own, Constants DEF CallOk, WithIp, WithDp, WithElem, Locked, LockedAt
<1>4. lock[h] = p /\ d = ilock(h)
  BY <1>3, Mine
<1>5. i # h
  BY <1>1, <1>4, Constants DEF Unlocked
<1>6. c = disk[i] /\ d = disk[h] /\ c \in Node /\ d \in Node
  <2>1. c = disk[i]
    BY <1>1, <1>2, <1>3, Reading
  <2>2. d = disk[h]
    BY <1>2, <1>3, <1>4, Reading
  <2>3. QED
    BY <1>3, <2>1, <2>2 DEF DataType
<1>7. Has(p, i) /\ Has(p, h)
  BY <1>1, <1>3, <1>4 DEF Has, Live, Holds, Unlocked
<1>8. /\ disk[cwd[p]].type = "dir" /\ d.type = "dir" /\ elem[p] \in Names /\ k # 0 /\ d.ents[k].inum = i
      /\ \A j \in Inums : ~Pends(p, j)
  <2>1. KindOk(cwd[p], "unlink_ip", call[p], elem[p], i, h)
    BY <1>2, Knows
  <2>2. \A j \in Inums : ~Pends(p, j)
    BY <1>2 DEF Pends, PendsOk
  <2>3. h # None
    BY <1>3, Constants
  <2>4. QED
    BY <1>6, <2>1, <2>2, <2>3 DEF KindOk
<1>9. k \in 1..Len(d.ents) /\ d.ents[k].name = elem[p] /\ Lists(d, k, i)
  <2>1. k \in 0..Len(d.ents) /\ Len(d.ents) \in Nat /\ d.ents[k].name = elem[p]
    BY <1>6, <1>8, Lookup, NodeParts
  <2>2. k \in 1..Len(d.ents)
    BY <1>8, <2>1
  <2>3. QED
    BY <1>8, <2>1, <2>2 DEF Lists
<1>10. ok /\ k \in Places
  <2>1. disk[i].nlink # 0 /\ k \in Places
    BY <1>3, <1>6, <1>9, Named DEF TreeInv
  <2>2. disk[i].nlink \in Int /\ disk[i].nlink >= 0
    BY <1>3, Unlinked DEF TreeInv
  <2>3. QED
    BY <1>6, <2>1, <2>2
<1>11. \/ /\ Access(On(i, c), Nothing, None, ok)
          /\ Goto(p, "bad", <<i>>)
          /\ ip' = [ip EXCEPT ![p] = None]
          /\ UNCHANGED dp
       \/ /\ Access(OnBoth(i, c, h, e), On(h, e), None, ok)
          /\ Goto(p, "unlinked", <<h>>)
          /\ dp' = [dp EXCEPT ![p] = None]
          /\ UNCHANGED ip
  BY DEF unlink_ip
<1>12. n \in Int /\ d.nlink \in Int
  <2>1. d.nlink \in Int
    BY <1>6, NodeParts
  <2>2. QED
    BY <2>1
<1>13. n = d.nlink - One(c.type = "dir")
  BY <1>12 DEF One
<1>14. None \in Inums \cup {None}
  OBVIOUS
<1> HIDE DEF ok, n
<1>15. CASE /\ Access(On(i, c), Nothing, None, ok)
            /\ Goto(p, "bad", <<i>>)
            /\ ip' = [ip EXCEPT ![p] = None]
            /\ UNCHANGED dp
  <2>1. Going(p, "bad", <<i>>, call[p], elem[p], None, h)
    BY <1>1, <1>3, <1>15, Unset DEF Set, Going
  <2>2. KindOk(cwd[p], "bad", call[p], elem[p], None, h)
    BY <1>6, <1>8 DEF KindOk
  <2>3. SamePends(p, "bad", call[p], None)
    BY <1>8 DEF SamePends, PendsOk
  <2>4. Mild(p, Nothing) /\ \A j \in DOMAIN On(i, c) : Has(p, j)
    <3>1. DOMAIN Nothing = {} /\ DOMAIN On(i, c) = {i}
      BY Contents
    <3>2. QED
      BY <1>7, <3>1 DEF Mild
  <2> HIDE DEF c, d, h, i
  <2>5. QED
    BY <1>1, <1>10, <1>14, <1>15, <2>1, <2>2, <2>3, <2>4, CalmAccess
<1>16. CASE /\ Access(OnBoth(i, c, h, e), On(h, e), None, ok)
            /\ Goto(p, "unlinked", <<h>>)
            /\ dp' = [dp EXCEPT ![p] = None]
            /\ UNCHANGED ip
  <2>1. pc'[p] = "unlinked" /\ ip'[p] = i /\ dp'[p] = None
    BY <1>3, <1>16 DEF Goto, CallType
  <2>2. d.ents[k].name # "."
    BY <1>8, <1>9, NameAssumption
  <2>3. e = Erased(disk[h], k, n)
    BY <1>6 DEF Erased
  <2> HIDE DEF i, h, c, k, e
  <2>4. QED
    BY <1>1, <1>3, <1>5, <1>6, <1>7, <1>9, <1>10, <1>12, <1>13, <1>16, <2>1, <2>2, <2>3, ClearStep
<1>17. QED
  BY <1>11, <1>15, <1>16

\* The step of link() that adds an entry for i to directory h.
LEMMA AddStep ==
  ASSUME IInv, TreeInv, NEW p \in Procs, At(p, "link_new"), Good(p), freeing' = freeing, cwd'[p] = cwd[p],
         NEW i \in Inums, NEW h \in Inums, ip[p] = i, Has(p, h), disk[i].type # "dir", disk[h].type = "dir",
         NEW k, k = FreeSlot(disk[h]), NEW nm, NEW e \in Node, e.type = disk[h].type, e.nlink = disk[h].nlink,
         Placed(disk[h].ents, e.ents, k, [name |-> nm, inum |-> i]),
         Access(On(h, e), On(h, e), None, TRUE),
         pc'[p] = "user"
  PROVE  TreeInv'
<1> DEFINE w == On(h, e)
           d == disk[h]
<1>1. DOMAIN w = {h} /\ w[h] = e
  BY DEF On
<1>2. DataType /\ DataType' /\ Others(p) /\ LinkInv /\ d \in Node /\ pc[p] = "link_new" /\ Idle(p)
      /\ None \notin Inums
  <2>1. DataType /\ DataType' /\ Others(p) /\ LinkInv /\ pc[p] = "link_new" /\ Idle(p)
    BY Own, Started DEF Good, TypeInv, TreeInv
  <2>2. d \in Node
    BY <2>1 DEF DataType
  <2>3. QED
    BY <2>1, <2>2, Constants
<1>3. disk'[h] = e /\ \A j \in Inums : j # h => disk'[j] = disk[j]
  BY <1>1 DEF Access
<1>4. /\ k \in Places
      /\ \A j \in Inums : ~Lists(d, k, j) /\ (Lists(e, k, j) => j = i)
      /\ \A j : \A m \in Places : m # k => (Lists(e, m, j) <=> Lists(d, m, j))
      /\ (\A m \in 1..Len(d.ents) : d.ents[m].name \in Names => d.ents[m].inum # None)
           => (\A m \in 1..Len(e.ents) : e.ents[m].name \in Names => e.ents[m].inum # None)
      /\ Len(d.ents) > 0 /\ d.ents[1].inum # None => Len(e.ents) > 0 /\ e.ents[1] = d.ents[1]
  <2> HIDE DEF d
  <2>1. d \in Node /\ e.type = d.type /\ k = FreeSlot(d) /\ Placed(d.ents, e.ents, k, [name |-> nm, inum |-> i])
    BY <1>2 DEF d
  <2>2. QED
    BY <2>1, Adding
<1>5. \A j \in Inums : disk'[j].type = disk[j].type /\ disk'[j].nlink = disk[j].nlink
  BY <1>3
<1>6. \A j \in Inums : Pends(p, j) <=> j = i
  BY <1>2 DEF Pends, PendsOk
<1>7. \A j \in Inums : ~Pends(p, j)'
  BY DEF Pends, PendsOk
<1>8. LinkInv'
  <2>1. \A j, m \in Inums : \A x \in Places : j # h \/ x # k => (Lists(disk'[j], x, m) => Lists(disk[j], x, m))
    BY <1>3, <1>4
  <2>2. \A j, m \in Inums : \A x \in Places :
          Lists(disk[j], x, m) /\ disk'[m].type = "dir" => disk[m].type = "dir"
    BY <1>5
  <2>3. \A j \in Inums : Lists(disk'[h], k, j) => j = i
    BY <1>3, <1>4
  <2>4. k \notin Dirs(h)'
    BY <1>5, <2>3 DEF Dirs
  <2>5. k \notin Dirs(h)
    BY <1>4 DEF Dirs
  <2>6. ASSUME NEW j \in Inums
        PROVE  disk'[j].nlink - Tally(p, h, k, j)' >= disk[j].nlink - Tally(p, h, k, j)
    <3> DEFINE a == One(Lists(disk'[h], k, j))
               b == One(j = i)
    <3>1. Tally(p, h, k, j) = 0 + b + 0
      BY <1>4, <1>6, <2>5 DEF Tally, One
    <3>2. Tally(p, h, k, j)' = a + 0 + 0
      <4>1. One(Pends(p, j)') = 0 /\ One(j = h /\ k \in Dirs(h)') = 0
        BY <1>7, <2>4 DEF One
      <4>2. Tally(p, h, k, j)' = One(Lists(disk'[h], k, j)) + One(Pends(p, j)') + One(j = h /\ k \in Dirs(h)')
        BY DEF Tally, One
      <4>3. QED
        BY <4>1, <4>2
    <3>3. a \in {0, 1} /\ b \in {0, 1} /\ a <= b
      BY <2>3 DEF One
    <3>4. disk[j].nlink \in Int /\ disk'[j].nlink = disk[j].nlink
      BY <1>2, <1>5, NodeParts DEF DataType
    <3> HIDE DEF a, b
    <3>5. QED
      BY <3>1, <3>2, <3>3, <3>4
  <2>7. QED
    BY <1>2, <1>4, <2>1, <2>2, <2>6, ListStep
<1>9. EntInv'
  <2>1. \A m \in 1..Len(e.ents) : e.ents[m].name \in Names => e.ents[m].inum # None
    BY <1>4 DEF TreeInv, EntInv
  <2>2. ASSUME NEW j \in Inums, NEW m \in 1..Len(disk'[j].ents), disk'[j].ents[m].name \in Names
        PROVE  disk'[j].ents[m].inum # None
    <3>1. CASE j = h
      BY <1>3, <2>1, <2>2, <3>1
    <3>2. CASE j # h
      BY <1>3, <2>2, <3>2 DEF TreeInv, EntInv
    <3>3. QED
      BY <3>1, <3>2
  <2>3. QED
    BY <2>2 DEF EntInv
<1>10. KindAt(p)'
  <2>1. cwd[p] \in Inums /\ disk[cwd[p]].type = "dir"
    BY <1>2, Own, Knows
  <2>2. disk'[cwd[p]].type = "dir"
    BY <1>5, <2>1
  <2>3. CallAt(p)'
    BY DEF Good
  <2>4. dp'[p] = None
    BY <2>3 DEF CallAt, CallOk, WithDp
  <2>5. QED
    BY <2>2, <2>4 DEF KindAt, KindOk
<1>11. \A j \in Inums : NewAt(p, j)'
  BY DEF NewAt
<1>12. \A j \in Inums : Dots(j)
  <2>1. ASSUME Dotted(h)
        PROVE  Dotted(h)'
    <3>1. Len(e.ents) > 0 /\ e.ents[1] = d.ents[1]
      BY <1>2, <1>4, <2>1 DEF Dotted
    <3>2. QED
      BY <1>3, <2>1, <3>1 DEF Dotted
  <2>2. \A j \in Inums : j # h => Dots(j)
    BY <1>3 DEF Dots, Dotted
  <2>3. QED
    BY <1>5, <2>1, <2>2 DEF Dots
<1>13. Writes(p, w) /\ \A j \in DOMAIN w : Has(p, j)
  BY <1>1 DEF Writes
<1>14. Access(w, w, None, TRUE) /\ None \in Inums \cup {None}
       /\ ("link_new" = "create_new" => \A j \in Inums : ip[p] = j => DotAt(j)')
  OBVIOUS
<1> HIDE DEF w, d
<1>15. QED
  BY <1>8, <1>9, <1>10, <1>11, <1>12, <1>13, <1>14, WriteStep

\* link() makes the entry, or has a link to take back.
LEMMA link_newTree ==
  ASSUME IInv, TreeInv, NEW p \in Procs, link_new(p)
  PROVE  TreeInv'
<1> DEFINE h == dp[p]
           i == ip[p]
           d == ilock(h)
           r == dirlink(d, elem[p], i, used)
           k == FreeSlot(disk[h])
<1>1. /\ At(p, "link_new") /\ Unlocked(h) /\ freeing' = freeing /\ cwd'[p] = cwd[p] /\ Good(p)
      /\ Access(On(h, r.d), On(h, r.d), None, d.type = "dir")
  BY link_newGood DEF link_new, procs
<1>2. ~panicked /\ Idle(p) /\ pc[p] = "link_new" /\ freeing[p] = "no"
  BY <1>1, Started
<1>3. CallType /\ i \in Inums /\ h \in Inums /\ DataType /\ call[p] = "link" /\ elem[p] \in Elems /\ h # None
  BY <1>2, Own, Constants DEF CallOk, WithIp, WithDp, WithElem
<1>4. d = disk[h] /\ d \in Node /\ Has(p, h)
  <2>1. d = disk[h]
    BY <1>1, <1>2, <1>3, Reading
  <2>2. Has(p, h)
    BY <1>1, <1>3 DEF Has, Live, Holds, Unlocked
  <2>3. QED
    BY <1>3, <2>1, <2>2 DEF DataType
<1>5. disk[i].type # "dir" /\ d.type = "dir" /\ disk[cwd[p]].type = "dir" /\ \A j \in Inums : Pends(p, j) <=> j = i
  <2>1. KindOk(cwd[p], "link_new", call[p], elem[p], i, h)
    BY <1>2, Knows
  <2>2. \A j \in Inums : Pends(p, j) <=> j = i
    BY <1>2 DEF Pends, PendsOk
  <2>3. QED
    BY <1>3, <1>4, <2>1, <2>2 DEF KindOk
<1>6. /\ r.ok \in BOOLEAN /\ r.d \in Node /\ r.d.type = d.type /\ r.d.nlink = d.nlink
      /\ ~r.ok => r.d.ents = d.ents
      /\ r.ok => Placed(d.ents, r.d.ents, FreeSlot(d), [name |-> elem[p], inum |-> i])
  <2>1. used \in SUBSET Blocks /\ elem[p] \in Names \cup {".", ".."}
    BY <1>3, NameAssumption DEF DataType
  <2>2. QED
    BY <1>3, <1>4, <2>1, Dirlink DEF Linked, Grown
<1>7. /\ r.ok => Return(p, <<h, i>>)
      /\ ~r.ok => /\ Goto(p, "link_bad", <<h>>)
                  /\ dp' = [dp EXCEPT ![p] = None]
                  /\ UNCHANGED <<call, elem, ip>>
  BY DEF link_new
<1>8. Access(On(h, r.d), On(h, r.d), None, TRUE)
  BY <1>1, <1>5 DEF Access
<1> HIDE DEF r, d
<1>9. CASE r.ok
  <2>1. pc'[p] = "user"
    BY <1>3, <1>7, <1>9 DEF Return, Goto, CallType
  <2> HIDE DEF i, h
  <2>2. QED
    BY <1>1, <1>3, <1>4, <1>5, <1>6, <1>8, <1>9, <2>1, AddStep DEF i
<1>10. CASE ~r.ok
  <2>1. Going(p, "link_bad", <<h>>, call[p], elem[p], i, None)
    BY <1>3, <1>7, <1>10, Unset DEF Set, Going
  <2>2. KindOk(cwd[p], "link_bad", call[p], elem[p], i, None)
    BY <1>5 DEF KindOk
  <2>3. SamePends(p, "link_bad", call[p], i)
    BY <1>5 DEF SamePends, PendsOk
  <2>4. Mild(p, On(h, r.d)) /\ \A j \in DOMAIN On(h, r.d) : Has(p, j)
    <3>1. DOMAIN On(h, r.d) = {h} /\ On(h, r.d)[h] = r.d
      BY Contents
    <3>2. QED
      BY <1>4, <1>6, <1>10, <3>1 DEF Mild
  <2>5. None \in Inums \cup {None}
    OBVIOUS
  <2> HIDE DEF i, h
  <2>6. QED
    BY <1>1, <1>8, <2>1, <2>2, <2>3, <2>4, <2>5, CalmAccess
<1>11. QED
  BY <1>6, <1>9, <1>10

\* The step of create() that takes inode n, which is free.
LEMMA TakeStep ==
  ASSUME IInv, TreeInv, NEW p \in Procs, At(p, "create"), Good(p), freeing' = freeing, 
         ofile' = ofile, cwd' = cwd,
         NEW n \in Inums, NEW h \in Inums, NEW t \in Kinds \ {"free"}, NEW d, disk[n] = Blank("free"),
         dp[p] = h, disk[h].type = "dir", Has(p, h),
         Access(On(h, d), On(n, Blank(t)), n, TRUE),
         pc'[p] = "create_new", t = TypeOf(call'[p]), ip'[p] = n, dp'[p] = h, puts'[p] = <<>>
  PROVE  TreeInv'
<1> DEFINE w == On(n, Blank(t))
           f == On(h, d)
<1>1. DOMAIN w = {n} /\ w[n] = Blank(t) /\ DOMAIN f = {h}
  BY DEF On
<1>2. DataType /\ DataType' /\ Others(p) /\ LinkInv /\ pc[p] = "create" /\ Idle(p) /\ None \notin Inums
  BY Own, Started, Constants DEF Good, TypeInv, TreeInv
<1>3. disk'[n] = Blank(t) /\ \A j \in Inums : j # n => disk'[j] = disk[j]
  BY <1>1 DEF Access
<1>4. /\ disk[n].type = "free" /\ disk[n].nlink = 0
      /\ disk'[n].type = t /\ disk'[n].nlink = 0 /\ disk'[n].ents = <<>> /\ t # "free" /\ n # h
  BY <1>3, BlankNode DEF Kinds
<1>5. \A q \in Procs : ~Live(q, n)
  BY <1>4 DEF TreeInv, LiveInv, LiveAt
<1>6. \A j \in Inums, m \in Places : ~Lists(disk[j], m, n)
  <2>1. Entries(n) = {}
    BY <1>2, <1>4, Unlinked
  <2>2. ASSUME NEW j \in Inums, NEW m \in Places, Lists(disk[j], m, n)
        PROVE  FALSE
    <3>1. <<j, m>> \in Entries(n)
      BY <2>2 DEF Entries
    <3>2. QED
      BY <2>1, <3>1
  <2>3. QED
    BY <2>2
<1>7. \A q \in Procs : ~Holds(q, n)' /\ ~LivePut(q, n)' /\ (q # p => ip'[q] # n)
  <2>1. ASSUME NEW q \in Procs, q # p
        PROVE  ~Holds(q, n)' /\ ~LivePut(q, n)' /\ ip'[q] # n
    BY <1>2, <1>5, <2>1 DEF Others, Live, Holds, LivePut
  <2>2. ~Holds(p, n)' /\ ~LivePut(p, n)'
    <3>1. ~Holds(p, n)'
      BY <1>4, <1>5 DEF Live, Holds
    <3>2. ~LivePut(p, n)'
      BY <1>2, NoPuts DEF LivePut
    <3>3. QED
      BY <3>1, <3>2
  <2>3. QED
    BY <2>1, <2>2
<1>8. LinkInv'
  <2>1. \A j, x \in Inums : \A m \in Places : Lists(disk'[j], m, x) => Lists(disk[j], m, x)
    <3>1. \A m \in Places : ~(m <= Len(<<>>))
      BY Slots DEF Places
    <3>2. \A m \in Places : \A x : ~Lists(disk'[n], m, x)
      BY <1>4, <3>1 DEF Lists
    <3>3. QED
      BY <1>3, <3>2
  <2>2. \A j, x \in Inums : \A m \in Places :
          Lists(disk[j], m, x) /\ disk'[x].type = "dir" => disk[x].type = "dir"
    BY <1>3, <1>6
  <2>3. 1 \in Places
    BY Slots DEF Places
  <2>4. 1 \in Dirs(h)' => 1 \in Dirs(h)
    BY <2>1, <2>2 DEF Dirs
  <2>5. \A j \in Inums : ~Pends(p, j) /\ ~Pends(p, j)'
    BY <1>2 DEF Pends, PendsOk
  <2>6. ASSUME NEW j \in Inums
        PROVE  disk'[j].nlink - Tally(p, h, 1, j)' >= disk[j].nlink - Tally(p, h, 1, j)
    <3> DEFINE a0 == One(Lists(disk[h], 1, j))
               a1 == One(Lists(disk'[h], 1, j))
               b0 == One(j = h /\ 1 \in Dirs(h))
               b1 == One(j = h /\ 1 \in Dirs(h)')
    <3>1. Tally(p, h, 1, j) = a0 + 0 + b0
      BY <2>5 DEF Tally, One
    <3>2. Tally(p, h, 1, j)' = a1 + 0 + b1
      <4>1. One(Pends(p, j)') = 0
        BY <2>5 DEF One
      <4>2. Tally(p, h, 1, j)' = a1 + One(Pends(p, j)') + b1
        BY DEF Tally, One
      <4>3. QED
        BY <4>1, <4>2
    <3>3. a0 \in {0, 1} /\ a1 \in {0, 1} /\ b0 \in {0, 1} /\ b1 \in {0, 1} /\ a1 <= a0 /\ b1 <= b0
      BY <2>1, <2>3, <2>4 DEF One
    <3>4. disk[j].nlink \in Int /\ disk'[j].nlink = disk[j].nlink
      BY <1>2, <1>3, <1>4, NodeParts DEF DataType
    <3> HIDE DEF a0, a1, b0, b1
    <3>5. QED
      BY <3>1, <3>2, <3>3, <3>4
  <2>7. QED
    BY <1>2, <2>1, <2>2, <2>3, <2>6, ListStep
<1>9. EntInv'
  <2>1. ASSUME NEW j \in Inums, NEW m \in 1..Len(disk'[j].ents), disk'[j].ents[m].name \in Names
        PROVE  disk'[j].ents[m].inum # None
    <3>1. disk'[j].ents # <<>>
      OBVIOUS
    <3>2. j # n
      BY <1>4, <3>1
    <3>3. QED
      BY <1>3, <2>1, <3>2 DEF TreeInv, EntInv
  <2>2. QED
    BY <2>1 DEF EntInv
<1>10. KindAt(p)'
  <2>1. cwd[p] \in Inums /\ disk[cwd[p]].type = "dir" /\ cwd'[p] = cwd[p]
    BY <1>2, Own, Knows
  <2>2. cwd[p] # n
    BY <1>4, <2>1 DEF Kinds
  <2>3. disk'[cwd[p]].type = "dir" /\ disk'[h].type = "dir"
    BY <1>3, <1>4, <2>1, <2>2
  <2>4. QED
    BY <2>1, <2>3 DEF KindAt, KindOk
<1>11. \A j \in Inums : NewAt(p, j)'
  BY <1>3, <1>7 DEF NewAt
<1>12. \A j \in Inums : Dots(j)
  <2>1. Dots(n)
    BY <1>4 DEF Dots
  <2>2. \A j \in Inums : j # n => Dots(j)
    BY <1>3 DEF Dots, Dotted
  <2>3. QED
    BY <2>1, <2>2
<1>13. Writes(p, w) /\ \A j \in DOMAIN f : Has(p, j)
  <2>1. \A q \in Procs : Away(q, n)'
    BY <1>7 DEF Away
  <2>2. DotAt(n)'
    BY <1>4, <2>1 DEF DotAt, Bare
  <2>3. QED
    BY <1>1, <1>4, <2>2 DEF Writes
<1>14. /\ Access(f, w, n, TRUE) /\ n \in Inums \cup {None}
       /\ n # None => disk[n].nlink # 0 \/ Live(p, n) \/ (disk[n].type = "free" /\ w[n].type # "free" /\ n \in DOMAIN w)
       /\ ("create" = "create_new" => \A j \in Inums : ip[p] = j => DotAt(j)')
  BY <1>1, <1>3, <1>4
<1> HIDE DEF w, f
<1>15. QED
  BY <1>8, <1>9, <1>10, <1>11, <1>12, <1>13, <1>14, WriteStep

\* create() finds the name, finds no inode, or takes one.
LEMMA createTree ==
  ASSUME IInv, TreeInv, ".." \notin Elems, NEW p \in Procs, create(p)
  PROVE  TreeInv'
<1> DEFINE h == dp[p]
           d == ilock(h)
           k == dirlookup(d, elem[p])
           g == d.ents[k].inum
<1>1. At(p, "create") /\ Unlocked(h) /\ freeing' = freeing /\ cwd' = cwd /\ ofile' = ofile /\ Good(p)
  BY createGood DEF create, procs
<1>2. ~panicked /\ Idle(p) /\ pc[p] = "create" /\ freeing[p] = "no" /\ CacheInv
  BY <1>1, Started
<1>3. CallType /\ h \in Inums /\ DataType /\ call[p] \in Creating /\ elem[p] \in Elems /\ h # None
  BY <1>2, Own, Constants DEF CallOk, WithIp, WithDp, WithElem
<1>4. d = disk[h] /\ Has(p, h)
  <2>1. d = disk[h]
    BY <1>1, <1>2, <1>3, Reading
  <2>2. Has(p, h)
    BY <1>1, <1>3 DEF Has, Live, Holds, Unlocked
  <2>3. QED
    BY <2>1, <2>2
<1>5. d.type = "dir" /\ disk[cwd[p]].type = "dir" /\ \A j \in Inums : ~Pends(p, j)
  <2>1. KindOk(cwd[p], "create", call[p], elem[p], ip[p], h)
    BY <1>2, Knows
  <2>2. \A j \in Inums : ~Pends(p, j)
    BY <1>2 DEF Pends, PendsOk
  <2>3. QED
    BY <1>3, <1>4, <2>1, <2>2 DEF KindOk
<1>6. CASE /\ k # 0 /\ Look(h, g) /\ Goto(p, "create_found", <<h>>)
           /\ ip' = [ip EXCEPT ![p] = g] /\ dp' = [dp EXCEPT ![p] = None]
           /\ UNCHANGED <<call, elem>>
  <2>1. g \in Inums /\ (disk[g].nlink # 0 \/ Live(p, g))
    BY <1>2, <1>3, <1>4, <1>5, <1>6, Finds
  <2> HIDE DEF g, d
  <2>2. Going(p, "create_found", <<h>>, call[p], elem[p], g, None)
    BY <1>3, <1>6, Unset DEF Set, Going
  <2>3. KindOk(cwd[p], "create_found", call[p], elem[p], g, None)
    BY <1>5 DEF KindOk
  <2>4. SamePends(p, "create_found", call[p], g) /\ cwd'[p] = cwd[p]
    BY <1>1, <1>5 DEF SamePends, PendsOk
  <2> HIDE DEF h
  <2>5. QED
    BY <1>1, <1>4, <1>6, <2>1, <2>2, <2>3, <2>4, CalmLook
<1>7. CASE Look(h, None) /\ Return(p, <<h>>)
  BY <1>1, <1>4, <1>5, <1>7, RefusedTree
<1>8. CASE /\ k = 0 /\ ialloc # None
           /\ Access(On(h, d), On(ialloc, Blank(TypeOf(call[p]))), ialloc, d.type = "dir")
           /\ Goto(p, "create_new", <<>>)
           /\ ip' = [ip EXCEPT ![p] = ialloc]
           /\ UNCHANGED <<used, call, elem, dp>>
  <2> DEFINE n == ialloc
             t == TypeOf(call[p])
  <2>1. n \in Inums /\ disk[n].type = "free"
    <3> DEFINE F == {j \in Inums : disk[j].type = "free"}
    <3>1. n = IF F = {} THEN None ELSE Min(F)
      BY DEF ialloc
    <3>2. F # {}
      BY <1>8, <3>1
    <3>3. F \in SUBSET Inums
      OBVIOUS
    <3>4. Min(F) \in F
      BY <3>2, <3>3, First
    <3> HIDE DEF n
    <3>5. n \in F
      BY <3>1, <3>2, <3>4
    <3>6. QED
      BY <3>5
  <2>2. t \in Kinds \ {"free"} /\ disk[n] = Blank("free")
    <3>1. t \in Kinds \ {"free"}
      BY <1>3 DEF Creating, TypeOf, Kinds
    <3>2. disk[n] = Blank("free")
      BY <1>2, <2>1 DEF CacheInv
    <3>3. QED
      BY <3>1, <3>2
  <2>3. Access(On(h, d), On(n, Blank(t)), n, TRUE)
    BY <1>5, <1>8 DEF Access
  <2>4. pc'[p] = "create_new" /\ call'[p] = call[p] /\ ip'[p] = n /\ dp'[p] = h /\ puts'[p] = <<>>
    BY <1>3, <1>8 DEF Goto, CallType
  <2>5. t = TypeOf(call'[p])
    BY <2>4
  <2> HIDE DEF n, t, h, d
  <2>6. dp[p] = h /\ disk[h].type = "dir"
    BY <1>4, <1>5 DEF h
  <2>7. QED
    BY <1>1, <1>3, <1>4, <2>1, <2>2, <2>3, <2>4, <2>5, <2>6, TakeStep
<1>9. QED
  BY <1>6, <1>7, <1>8 DEF create

\* A directory that names no inode.
Plain(d) == \A m \in 1..Len(d.ents) : d.ents[m].name \notin Names

\* A directory without names gets an entry that is not a name: "." or "..".
LEMMA PlainLink ==
  ASSUME NEW d \in Node, Plain(d), NEW nm, nm \notin Names, NEW i \in Inums, NEW u, NEW r, Linked(d, nm, i, u, r)
  PROVE  /\ r.d \in Node /\ r.d.type = d.type /\ r.d.nlink = d.nlink /\ Plain(r.d)
         /\ Len(d.ents) > 0 /\ d.ents[1].inum # None => Len(r.d.ents) > 0 /\ r.d.ents[1] = d.ents[1]
<1> DEFINE s == d.ents
           t == r.d.ents
           a == Len(s)
           b == Len(t)
           k == FreeSlot(d)
           v == [name |-> nm, inum |-> i]
<1>1. r.d \in Node /\ r.d.type = d.type /\ r.d.nlink = d.nlink /\ r.ok \in BOOLEAN
  BY DEF Linked, Grown
<1>2. CASE ~r.ok
  <2>1. t = s
    BY <1>2 DEF Linked
  <2>2. QED
    BY <1>1, <1>2, <2>1 DEF Plain
<1>3. CASE r.ok
  <2>1. b = (IF k > a THEN k ELSE a) /\ t[k] = v /\ (\A j \in 1..a : j # k => t[j] = s[j])
    BY <1>3 DEF Linked, Placed
  <2>2. a \in Nat /\ k \in 1..(a + 1) /\ (k <= a => s[k].inum = None)
    BY NodeParts, Slot
  <2>3. v.name \notin Names /\ v.name = nm
    BY NameAssumption
  <2>4. \A m \in 1..a : s[m].name \notin Names
    BY DEF Plain
  <2> HIDE DEF a, b, k, v, s, t
  <2>5. \A m \in 1..b : m = k \/ (m \in 1..a /\ m # k)
    BY <2>1, <2>2
  <2>6. \A m \in 1..b : t[m].name \notin Names
    BY <2>1, <2>3, <2>4, <2>5
  <2>7. a > 0 /\ s[1].inum # None => b > 0 /\ t[1] = s[1]
    <3>1. SUFFICES ASSUME a > 0, s[1].inum # None
                   PROVE  b > 0 /\ t[1] = s[1]
      OBVIOUS
    <3>2. k # 1 /\ 1 \in 1..a
      BY <2>2, <3>1
    <3>3. QED
      BY <2>1, <2>2, <3>2
  <2>8. Plain(r.d)
    BY <2>6 DEF Plain, b, t
  <2>9. QED
    BY <1>1, <2>7, <2>8 DEF a, b, s, t
<1>4. QED
  BY <1>1, <1>2, <1>3

\* In an empty directory it is the first one.
LEMMA FirstEntry ==
  ASSUME NEW d \in Node, NEW nm, NEW i \in Inums, NEW u, NEW r, Linked(d, nm, i, u, r), r.ok, d.ents = <<>>
  PROVE  Len(r.d.ents) > 0 /\ r.d.ents[1] = [name |-> nm, inum |-> i]
<1> DEFINE s == d.ents
           t == r.d.ents
           a == Len(s)
           b == Len(t)
           k == FreeSlot(d)
           v == [name |-> nm, inum |-> i]
<1>1. b = (IF k > a THEN k ELSE a) /\ t[k] = v
  BY DEF Linked, Placed
<1>2. a = 0 /\ k \in 1..(a + 1)
  BY Slot
<1> HIDE DEF a, b, k, v, s, t
<1>3. b > 0 /\ t[1] = v
  BY <1>1, <1>2
<1>4. QED
  BY <1>3 DEF b, t, v

\* The new inode i becomes x and its directory h becomes y, with an entry at place k if it is made.
Makes(i, x, h, y, k, made) ==
  /\ x \in Node /\ x.type = disk[i].type /\ x.nlink = made /\ Plain(x) /\ made \in {0, 1}
  /\ y \in Node /\ y.type = disk[h].type
  /\ y.nlink = disk[h].nlink + One(made = 1 /\ disk[i].type = "dir")
  /\ \A j \in Inums, m \in Places : Lists(y, m, j) => Lists(disk[h], m, j) \/ (made = 1 /\ m = k /\ j = i)
  /\ \A m \in 1..Len(y.ents) : y.ents[m].name \in Names => y.ents[m].inum # None
  /\ Dotted(h) => Len(y.ents) > 0 /\ y.ents[1] = disk[h].ents[1]

\* The step of create() that links the new inode i to directory h, or fails to.
LEMMA MakeStep ==
  ASSUME IInv, TreeInv, NEW p \in Procs, At(p, "create_new"), Good(p), freeing' = freeing, cwd'[p] = cwd[p],
         NEW i \in Inums, NEW h \in Inums, i # h, ip[p] = i, Has(p, i), Has(p, h), disk[h].type = "dir",
         disk[i].ents = <<>>, disk[i].nlink = 0,
         NEW x, NEW y, NEW k \in Places, NEW made, Makes(i, x, h, y, k, made),
         Access(OnBoth(i, x, h, y), OnBoth(i, x, h, y), None, TRUE),
         pc'[p] \in {"created", "bad"}, dp'[p] \in {None, h}, DotAt(i)'
  PROVE  TreeInv'
<1> USE DEF Makes
<1> DEFINE f == OnBoth(i, x, h, y)
<1>1. DOMAIN f = {i, h} /\ f[i] = x /\ f[h] = y
  BY DEF OnBoth
<1>2. DataType /\ DataType' /\ Others(p) /\ LinkInv /\ pc[p] = "create_new" /\ Idle(p) /\ None \notin Inums
  BY Own, Started, Constants DEF Good, TypeInv, TreeInv
<1>3. disk'[i] = x /\ disk'[h] = y /\ \A j \in Inums : j # i /\ j # h => disk'[j] = disk[j]
  BY <1>1 DEF Access
<1>4. \A j \in Inums : disk'[j].type = disk[j].type
  BY <1>3
<1>5. \A j \in Inums : ~Pends(p, j) /\ ~Pends(p, j)'
  BY <1>2 DEF Pends, PendsOk
<1>6. \A j, z \in Inums : \A m \in Places :
        Lists(disk'[j], m, z) => Lists(disk[j], m, z) \/ (made = 1 /\ j = h /\ m = k /\ z = i)
  <2>1. \A m \in Places : m \in Nat /\ m >= 1
    BY Slots DEF Places
  <2>2. Len(x.ents) \in Nat
    BY NodeParts
  <2>3. \A m \in Places : \A z : ~Lists(x, m, z)
    BY <2>1, <2>2 DEF Lists, Plain
  <2>4. QED
    BY <1>3, <2>3
<1>7. LinkInv'
  <2>1. \A j, z \in Inums : \A m \in Places : j # h \/ m # k => (Lists(disk'[j], m, z) => Lists(disk[j], m, z))
    BY <1>6
  <2>2. \A j, z \in Inums : \A m \in Places :
          Lists(disk[j], m, z) /\ disk'[z].type = "dir" => disk[z].type = "dir"
    BY <1>4
  <2>3. k \in Dirs(h)' => k \in Dirs(h) \/ (made = 1 /\ disk[i].type = "dir")
    BY <1>4, <1>6 DEF Dirs
  <2>4. ASSUME NEW j \in Inums
        PROVE  disk'[j].nlink - Tally(p, h, k, j)' >= disk[j].nlink - Tally(p, h, k, j)
    <3> DEFINE a0 == One(Lists(disk[h], k, j))
               a1 == One(Lists(disk'[h], k, j))
               b0 == One(j = h /\ k \in Dirs(h))
               b1 == One(j = h /\ k \in Dirs(h)')
               a  == One(made = 1 /\ j = i)
               b  == One(made = 1 /\ j = h /\ disk[i].type = "dir")
               n0 == disk[j].nlink
               n1 == disk'[j].nlink
    <3>1. Tally(p, h, k, j) = a0 + 0 + b0
      BY <1>5 DEF Tally, One
    <3>2. Tally(p, h, k, j)' = a1 + 0 + b1
      <4>1. One(Pends(p, j)') = 0
        BY <1>5 DEF One
      <4>2. Tally(p, h, k, j)' = a1 + One(Pends(p, j)') + b1
        BY DEF Tally, One
      <4>3. QED
        BY <4>1, <4>2
    <3>3. a0 \in {0, 1} /\ a1 \in {0, 1} /\ b0 \in {0, 1} /\ b1 \in {0, 1} /\ a \in {0, 1} /\ b \in {0, 1}
      BY DEF One
    <3>4. a1 <= a0 + a
      BY <1>6 DEF One
    <3>5. b1 <= b0 + b
      BY <2>3 DEF One
    <3>6. n0 \in Int
      BY <1>2, NodeParts DEF DataType
    <3>7. n1 = n0 + a + b
      <4>1. CASE j = i
        <5>1. n1 = made /\ n0 = 0
          BY <1>3, <4>1
        <5>2. a = made /\ b = 0
          BY <4>1 DEF One
        <5> HIDE DEF n0, n1, a, b
        <5>3. QED
          BY <3>3, <5>1, <5>2
      <4>2. CASE j = h
        <5>1. n1 = n0 + One(made = 1 /\ disk[i].type = "dir")
          BY <1>3, <4>2
        <5>2. b = One(made = 1 /\ disk[i].type = "dir") /\ a = 0
          BY <4>2 DEF One
        <5> HIDE DEF n0, n1, a, b
        <5>3. QED
          BY <3>3, <3>6, <5>1, <5>2
      <4>3. CASE j # i /\ j # h
        <5>1. n1 = n0
          BY <1>3, <4>3
        <5>2. a = 0 /\ b = 0
          BY <4>3 DEF One
        <5> HIDE DEF n0, n1, a, b
        <5>3. QED
          BY <3>6, <5>1, <5>2
      <4>4. QED
        BY <4>1, <4>2, <4>3
    <3> HIDE DEF a0, a1, b0, b1, a, b, n0, n1
    <3>8. n1 - (a1 + 0 + b1) >= n0 - (a0 + 0 + b0)
      BY <3>3, <3>4, <3>5, <3>6, <3>7
    <3>9. QED
      BY <3>1, <3>2, <3>8 DEF n0, n1
  <2>5. QED
    BY <1>2, <2>1, <2>2, <2>4, ListStep
<1>8. EntInv'
  <2>1. ASSUME NEW j \in Inums, NEW m \in 1..Len(disk'[j].ents), disk'[j].ents[m].name \in Names
        PROVE  disk'[j].ents[m].inum # None
    <3>1. CASE j = i
      BY <1>3, <2>1, <3>1 DEF Plain
    <3>2. CASE j = h
      BY <1>3, <2>1, <3>2
    <3>3. CASE j # i /\ j # h
      BY <1>3, <2>1, <3>3 DEF TreeInv, EntInv
    <3>4. QED
      BY <3>1, <3>2, <3>3
  <2>2. QED
    BY <2>1 DEF EntInv
<1>9. KindAt(p)'
  <2>1. cwd[p] \in Inums /\ disk[cwd[p]].type = "dir"
    BY <1>2, Own, Knows
  <2>2. disk'[cwd[p]].type = "dir" /\ disk'[h].type = "dir"
    BY <1>4, <2>1
  <2>3. QED
    BY <2>2 DEF KindAt, KindOk
<1>10. \A j \in Inums : NewAt(p, j)'
  BY DEF NewAt
<1>11. \A j \in Inums : Dots(j)
  <2>1. Dots(i)
    BY DEF Dots, Dotted
  <2>2. Dots(h)
    BY <1>3 DEF Dots, Dotted
  <2>3. \A j \in Inums : j # i /\ j # h => Dots(j)
    BY <1>3 DEF Dots, Dotted
  <2>4. QED
    BY <2>1, <2>2, <2>3
<1>12. Writes(p, f) /\ \A j \in DOMAIN f : Has(p, j)
  BY <1>1 DEF Writes
<1>13. /\ Access(f, f, None, TRUE) /\ None \in Inums \cup {None}
       /\ ("create_new" = "create_new" => \A j \in Inums : ip[p] = j => DotAt(j)')
  OBVIOUS
<1> HIDE DEF f, Makes
<1>14. QED
  BY <1>7, <1>8, <1>9, <1>10, <1>11, <1>12, <1>13, WriteStep

\* The new inode and its directory.
LEMMA create_newTree ==
  ASSUME IInv, TreeInv, NEW p \in Procs, create_new(p)
  PROVE  TreeInv'
<1> DEFINE i    == ip[p]
           k    == dp[p]
           c    == ilock(i)
           m    == mem[k]
           dir  == call[p] = "mkdir"
           new  == [c EXCEPT !.nlink = 1]
           dot  == IF dir THEN dirlink(new, ".", i, used) ELSE [ok |-> TRUE, d |-> new, used |-> used]
           dots == IF dir /\ dot.ok THEN dirlink(dot.d, "..", k, dot.used) ELSE dot
           ent  == IF dots.ok THEN dirlink(m, elem[p], i, dots.used)
                              ELSE [ok |-> FALSE, d |-> m, used |-> dots.used]
           n    == IF dir THEN ent.d.nlink + 1 ELSE ent.d.nlink
           x1   == dots.d
           y1   == [ent.d EXCEPT !.nlink = n]
           x0   == [dots.d EXCEPT !.nlink = 0]
           y0   == ent.d
<1>1. At(p, "create_new") /\ Unlocked(i) /\ freeing' = freeing /\ cwd'[p] = cwd[p] /\ cwd' = cwd /\ ofile' = ofile /\ Good(p)
  BY create_newGood DEF create_new, procs
<1>2. ~panicked /\ Idle(p) /\ pc[p] = "create_new" /\ freeing[p] = "no"
  BY <1>1, Started
<1>3. /\ CallType /\ i \in Inums /\ k \in Inums /\ Locked(p) = k /\ DataType
      /\ call[p] \in Creating /\ elem[p] \in Elems /\ k # None
  BY <1>2, Own, Constants DEF CallOk, WithIp, WithDp, WithElem, Locked, LockedAt
<1>4. lock[k] = p /\ m = ilock(k)
  BY <1>3, Mine
<1>5. i # k
  BY <1>1, <1>4, Constants DEF Unlocked
<1>6. c = disk[i] /\ m = disk[k] /\ Has(p, i) /\ Has(p, k)
  <2>1. c = disk[i]
    BY <1>1, <1>2, <1>3, Reading
  <2>2. m = disk[k]
    BY <1>2, <1>3, <1>4, Reading
  <2>3. Has(p, i) /\ Has(p, k)
    BY <1>1, <1>3, <1>4 DEF Has, Live, Holds, Unlocked
  <2>4. QED
    BY <2>1, <2>2, <2>3
<1>7. disk[k].type = "dir" /\ disk[cwd[p]].type = "dir"
  <2>1. KindOk(cwd[p], "create_new", call[p], elem[p], i, k)
    BY <1>2, Knows
  <2>2. QED
    BY <1>3, <2>1 DEF KindOk
<1>8. /\ disk[i].ents = <<>> /\ disk[i].nlink = 0 /\ (disk[i].type = "dir" <=> dir)
      /\ \A q \in Procs : ~Holds(q, i) /\ ~LivePut(q, i) /\ (q # p => ip[q] # i)
  <2>1. /\ disk[i] = Blank(TypeOf(call[p]))
        /\ \A q \in Procs : ~Holds(q, i) /\ ~LivePut(q, i) /\ (q # p => ip[q] # i)
    BY <1>2, <1>3 DEF TreeInv, NewInv, NewAt
  <2>2. TypeOf(call[p]) \in Kinds /\ (TypeOf(call[p]) = "dir" <=> dir)
    BY <1>3, SMTT(30) DEF Creating, TypeOf, Kinds
  <2>3. QED
    BY <2>1, <2>2, BlankNode
<1>9. /\ ent.ok =>
           /\ Access(OnBoth(i, x1, k, y1), OnBoth(i, x1, k, y1), None, TRUE)
           /\ Goto(p, "created", <<k>>)
           /\ dp' = [dp EXCEPT ![p] = None]
           /\ UNCHANGED ip
      /\ ~ent.ok =>
           /\ Access(OnBoth(i, x0, k, y0), OnBoth(i, x0, k, y0), None, TRUE)
           /\ Goto(p, "bad", <<i>>)
           /\ ip' = [ip EXCEPT ![p] = None]
           /\ UNCHANGED dp
  BY DEF create_new
<1>10. c \in Node /\ m \in Node /\ used \in SUBSET Blocks /\ elem[p] \in Names \cup {".", ".."}
  <2>1. c \in Node /\ m \in Node
    BY <1>3, <1>6 DEF DataType
  <2>2. used \in SUBSET Blocks /\ elem[p] \in Names \cup {".", ".."}
    BY <1>3, NameAssumption DEF DataType
  <2>3. QED
    BY <2>1, <2>2
<1>11. new \in Node /\ new.type = c.type /\ new.nlink = 1 /\ new.ents = <<>> /\ Plain(new)
  <2>1. new \in Node /\ new.type = c.type /\ new.nlink = 1 /\ new.ents = c.ents
    BY <1>10, WithLinks
  <2>2. new.ents = <<>>
    BY <1>6, <1>8, <2>1
  <2>3. Plain(new)
    BY <2>2 DEF Plain
  <2>4. QED
    BY <2>1, <2>2, <2>3
<1> HIDE DEF new, c, m, i, k
<1>12. /\ dot.d \in Node /\ dot.d.type = c.type /\ dot.d.nlink = 1 /\ Plain(dot.d) /\ dot.used \in SUBSET Blocks
       /\ dir /\ dot.ok => Len(dot.d.ents) > 0 /\ dot.d.ents[1] = [name |-> ".", inum |-> i]
  <2>1. CASE dir
    <3>1. Linked(new, ".", i, used, dot)
      BY <1>3, <1>10, <1>11, <2>1, Dirlink
    <3> HIDE DEF dot
    <3>2. dot.used \in SUBSET Blocks
      BY <3>1 DEF Linked, Grown
    <3>3. "." \notin Names
      BY NameAssumption
    <3>4. dot.ok => Len(dot.d.ents) > 0 /\ dot.d.ents[1] = [name |-> ".", inum |-> i]
      BY <1>3, <1>11, <3>1, FirstEntry
    <3>5. dot.d \in Node /\ dot.d.type = new.type /\ dot.d.nlink = new.nlink /\ Plain(dot.d)
      BY <1>3, <1>11, <3>1, <3>3, PlainLink
    <3>6. QED
      BY <1>11, <3>2, <3>4, <3>5
  <2>2. CASE ~dir
    BY <1>10, <1>11, <2>2
  <2>3. QED
    BY <2>1, <2>2
<1> HIDE DEF dot
<1>13. /\ dots.d \in Node /\ dots.d.type = c.type /\ dots.d.nlink = 1 /\ Plain(dots.d) /\ dots.used \in SUBSET Blocks
       /\ dir /\ dots.ok => Len(dots.d.ents) > 0 /\ dots.d.ents[1] = [name |-> ".", inum |-> i]
  <2>1. CASE dir /\ dot.ok
    <3>1. Linked(dot.d, "..", k, dot.used, dots)
      BY <1>3, <1>12, <2>1, Dirlink
    <3> HIDE DEF dots
    <3>2. dots.used \in SUBSET Blocks
      BY <3>1 DEF Linked, Grown
    <3>3. Len(dot.d.ents) > 0 /\ dot.d.ents[1] = [name |-> ".", inum |-> i] /\ dot.d.ents[1].inum # None
      BY <1>3, <1>12, <2>1, Constants
    <3>4. /\ dots.d \in Node /\ dots.d.type = dot.d.type /\ dots.d.nlink = dot.d.nlink /\ Plain(dots.d)
          /\ Len(dots.d.ents) > 0 /\ dots.d.ents[1] = dot.d.ents[1]
      <4>1. PICK b \in Node, g \in Inums : b = dot.d /\ g = k
        BY <1>3, <1>12
      <4>2. PICK u, r, o : u = dot.used /\ r = dots /\ o = ".."
        OBVIOUS
      <4>3. Plain(b) /\ Linked(b, o, g, u, r) /\ o \notin Names /\ Len(b.ents) > 0 /\ b.ents[1].inum # None
        BY <1>12, <3>1, <3>3, <4>1, <4>2, NameAssumption
      <4>4. /\ r.d \in Node /\ r.d.type = b.type /\ r.d.nlink = b.nlink /\ Plain(r.d)
            /\ Len(r.d.ents) > 0 /\ r.d.ents[1] = b.ents[1]
        BY <4>3, PlainLink
      <4>5. QED
        BY <4>1, <4>2, <4>4
    <3>5. QED
      BY <1>12, <3>2, <3>3, <3>4
  <2>2. CASE ~(dir /\ dot.ok)
    BY <1>12, <2>2
  <2>3. QED
    BY <2>1, <2>2
<1> HIDE DEF dots
<1>14. /\ ent.ok \in BOOLEAN /\ ent.d \in Node /\ ent.d.type = m.type /\ ent.d.nlink = m.nlink
       /\ ~ent.ok => ent.d.ents = m.ents
       /\ ent.ok => dots.ok /\ Placed(m.ents, ent.d.ents, FreeSlot(m), [name |-> elem[p], inum |-> i])
  <2>1. CASE dots.ok
    <3>1. Linked(m, elem[p], i, dots.used, ent)
      BY <1>3, <1>10, <1>13, <2>1, Dirlink
    <3> HIDE DEF ent
    <3>2. QED
      BY <2>1, <3>1 DEF Linked, Grown
  <2>2. CASE ~dots.ok
    <3>1. ent.ok = FALSE /\ ent.d = m
      BY <2>2
    <3> HIDE DEF ent
    <3>2. QED
      BY <1>10, <3>1
  <2>3. QED
    BY <2>1, <2>2
<1> HIDE DEF ent
<1>15. n \in Int /\ n = m.nlink + One(dir)
  <2>1. m.nlink \in Int
    BY <1>10, NodeParts
  <2>2. QED
    BY <1>14, <2>1 DEF One
<1> HIDE DEF n
<1>16. /\ x0 \in Node /\ x0.type = c.type /\ x0.nlink = 0 /\ Plain(x0)
       /\ y1 \in Node /\ y1.type = m.type /\ y1.nlink = m.nlink + One(dir) /\ y1.ents = ent.d.ents
  <2>1. 0 \in Int
    OBVIOUS
  <2>2. x0 \in Node /\ x0.type = c.type /\ x0.nlink = 0 /\ x0.ents = dots.d.ents
    BY <1>13, <2>1, WithLinks
  <2>3. y1 \in Node /\ y1.type = ent.d.type /\ y1.nlink = n /\ y1.ents = ent.d.ents
    BY <1>14, <1>15, WithLinks
  <2>4. Plain(x0)
    BY <1>13, <2>2 DEF Plain
  <2>5. QED
    BY <1>14, <1>15, <2>2, <2>3, <2>4
<1>17. Dotted(k) => Len(m.ents) > 0 /\ m.ents[1].inum # None
  BY <1>3, <1>6 DEF Dotted
<1>18. \A j \in 1..Len(m.ents) : m.ents[j].name \in Names => m.ents[j].inum # None
  BY <1>3, <1>6 DEF TreeInv, EntInv
<1> HIDE DEF x1, x0, y1, y0
<1>19. CASE ent.ok
  <2> DEFINE s == FreeSlot(m)
  <2>1. Placed(m.ents, y1.ents, s, [name |-> elem[p], inum |-> i]) /\ y1.type = m.type /\ y1 \in Node
    BY <1>14, <1>16, <1>19
  <2>2. /\ s \in Places
        /\ \A j \in Inums : ~Lists(m, s, j) /\ (Lists(y1, s, j) => j = i)
        /\ \A j : \A z \in Places : z # s => (Lists(y1, z, j) <=> Lists(m, z, j))
        /\ (\A z \in 1..Len(m.ents) : m.ents[z].name \in Names => m.ents[z].inum # None)
             => (\A z \in 1..Len(y1.ents) : y1.ents[z].name \in Names => y1.ents[z].inum # None)
        /\ Len(m.ents) > 0 /\ m.ents[1].inum # None => Len(y1.ents) > 0 /\ y1.ents[1] = m.ents[1]
    BY <1>3, <1>10, <2>1, Adding
  <2>3. \A j \in Inums, z \in Places : Lists(y1, z, j) => Lists(m, z, j) \/ (1 = 1 /\ z = s /\ j = i)
    BY <2>2
  <2>4. \A z \in 1..Len(y1.ents) : y1.ents[z].name \in Names => y1.ents[z].inum # None
    BY <1>18, <2>2
  <2>5. Dotted(k) => Len(y1.ents) > 0 /\ y1.ents[1] = m.ents[1]
    BY <1>17, <2>2
  <2>6. Access(OnBoth(i, x1, k, y1), OnBoth(i, x1, k, y1), None, TRUE)
    BY <1>9, <1>19
  <2>7. pc'[p] \in {"created", "bad"} /\ dp'[p] \in {None, k}
    BY <1>3, <1>9, <1>19 DEF Goto, CallType
  <2>8. x1 \in Node /\ x1.type = c.type /\ x1.nlink = 1 /\ Plain(x1)
        /\ (dir => Len(x1.ents) > 0 /\ x1.ents[1] = [name |-> ".", inum |-> i])
    BY <1>13, <1>14, <1>19 DEF x1
  <2>9. PICK v \in Inums : v = i
    BY <1>3
  <2>10. disk'[v] = x1
    <3>1. DOMAIN OnBoth(v, x1, k, y1) = {v, k} /\ OnBoth(v, x1, k, y1)[v] = x1
      BY DEF OnBoth
    <3>2. disk' = [j \in Inums |-> IF j \in DOMAIN OnBoth(v, x1, k, y1) THEN OnBoth(v, x1, k, y1)[j] ELSE disk[j]]
      BY <2>6, <2>9 DEF Access
    <3>3. QED
      BY <3>1, <3>2
  <2>11. DotAt(v)'
    BY <1>6, <1>8, <2>8, <2>9, <2>10 DEF DotAt, Dotted
  <2>12. One(1 = 1 /\ disk[i].type = "dir") = One(dir) /\ 1 \in {0, 1}
    BY <1>8 DEF One
  <2>13. x1.nlink = 1 /\ y1.nlink = m.nlink + One(1 = 1 /\ disk[i].type = "dir")
    BY <1>16, <2>8, <2>12
  <2>14. ip[p] = v /\ v # k
    BY <1>5, <2>9 DEF i
  <2>15. Has(p, v) /\ Has(p, k) /\ disk[k].type = "dir" /\ disk[v].ents = <<>> /\ disk[v].nlink = 0 /\ k \in Inums
    BY <1>3, <1>6, <1>7, <1>8, <2>9
  <2>16. Access(OnBoth(v, x1, k, y1), OnBoth(v, x1, k, y1), None, TRUE)
    BY <2>6, <2>9
  <2>17. Makes(v, x1, k, y1, s, 1)
    <3> HIDE DEF s, dir
    <3>1. /\ x1.type = disk[v].type /\ y1.type = disk[k].type /\ x1 \in Node /\ y1 \in Node
          /\ Plain(x1) /\ x1.nlink = 1 /\ y1.nlink = disk[k].nlink + One(1 = 1 /\ disk[v].type = "dir")
      BY <1>6, <1>16, <2>8, <2>9, <2>13
    <3>2. \A j \in Inums, z \in Places : Lists(y1, z, j) => Lists(disk[k], z, j) \/ (1 = 1 /\ z = s /\ j = v)
      BY <1>6, <2>3, <2>9
    <3>3. Dotted(k) => Len(y1.ents) > 0 /\ y1.ents[1] = disk[k].ents[1]
      BY <1>6, <2>5
    <3>4. QED
      BY <2>4, <2>12, <3>1, <3>2, <3>3 DEF Makes
  <2> HIDE DEF s, dir
  <2>18. QED
    BY <1>1, <2>2, <2>7, <2>11, <2>14, <2>15, <2>16, <2>17, MakeStep
<1>20. CASE ~ent.ok
  <2>1. y0 \in Node /\ y0.type = m.type /\ y0.nlink = m.nlink /\ y0.ents = m.ents
    BY <1>14, <1>20 DEF y0
  <2>2. \A j \in Inums, z \in Places : Lists(y0, z, j) => Lists(m, z, j) \/ (0 = 1 /\ z = 1 /\ j = i)
    BY <2>1 DEF Lists
  <2>3. \A z \in 1..Len(y0.ents) : y0.ents[z].name \in Names => y0.ents[z].inum # None
    BY <1>18, <2>1
  <2>4. Dotted(k) => Len(y0.ents) > 0 /\ y0.ents[1] = m.ents[1]
    BY <1>17, <2>1
  <2>5. Access(OnBoth(i, x0, k, y0), OnBoth(i, x0, k, y0), None, TRUE)
    BY <1>9, <1>20
  <2>6. pc'[p] \in {"created", "bad"} /\ dp'[p] \in {None, k} /\ ip'[p] = None
    BY <1>3, <1>9, <1>20 DEF Goto, CallType, k
  <2>7. PICK v \in Inums : v = i
    BY <1>3
  <2>8. disk'[v] = x0
    <3>1. DOMAIN OnBoth(v, x0, k, y0) = {v, k} /\ OnBoth(v, x0, k, y0)[v] = x0
      BY DEF OnBoth
    <3>2. disk' = [j \in Inums |-> IF j \in DOMAIN OnBoth(v, x0, k, y0) THEN OnBoth(v, x0, k, y0)[j] ELSE disk[j]]
      BY <2>5, <2>7 DEF Access
    <3>3. QED
      BY <3>1, <3>2
  <2>9. Bare(v)'
    <3>1. \A q \in Procs : ~Holds(q, v) /\ (q # p => ip[q] # v)
      BY <1>8, <2>7
    <3>2. \A q \in Procs : cwd'[q] = cwd[q] /\ ofile'[q] = ofile[q] /\ (dp'[q] = dp[q] \/ dp'[q] = None)
      BY <1>1, <1>3, <2>6 DEF Good, Others, k
    <3>3. \A q \in Procs : ~Holds(q, v)'
      BY <3>1, <3>2, Constants DEF Holds
    <3>4. \A q \in Procs : ip'[q] # v
      BY <1>1, <2>6, <3>1, Constants DEF Good, Others
    <3>5. disk'[v].nlink = 0
      BY <1>16, <2>8
    <3>6. QED
      BY <3>3, <3>4, <3>5 DEF Bare, Away
  <2>10. DotAt(v)'
    BY <2>9 DEF DotAt
  <2>11. One(0 = 1 /\ disk[i].type = "dir") = 0 /\ 0 \in {0, 1} /\ 1 \in Places
    BY Slots DEF One, Places
  <2>12. x0.nlink = 0 /\ y0.nlink = m.nlink + One(0 = 1 /\ disk[i].type = "dir")
    <3>1. m.nlink \in Int
      BY <1>10, NodeParts
    <3>2. QED
      BY <1>16, <2>1, <2>11, <3>1
  <2>13. ip[p] = v /\ v # k
    BY <1>5, <2>7 DEF i
  <2>14. Has(p, v) /\ Has(p, k) /\ disk[k].type = "dir" /\ disk[v].ents = <<>> /\ disk[v].nlink = 0 /\ k \in Inums
    BY <1>3, <1>6, <1>7, <1>8, <2>7
  <2>15. Access(OnBoth(v, x0, k, y0), OnBoth(v, x0, k, y0), None, TRUE)
    BY <2>5, <2>7
  <2>16. Makes(v, x0, k, y0, 1, 0)
    <3> HIDE DEF dir
    <3>1. /\ x0.type = disk[v].type /\ y0.type = disk[k].type /\ x0 \in Node /\ y0 \in Node
          /\ Plain(x0) /\ x0.nlink = 0 /\ y0.nlink = disk[k].nlink + One(0 = 1 /\ disk[v].type = "dir")
      BY <1>6, <1>16, <2>1, <2>7, <2>12
    <3>2. \A j \in Inums, z \in Places : Lists(y0, z, j) => Lists(disk[k], z, j) \/ (0 = 1 /\ z = 1 /\ j = v)
      BY <1>6, <2>2
    <3>3. Dotted(k) => Len(y0.ents) > 0 /\ y0.ents[1] = disk[k].ents[1]
      BY <1>6, <2>4
    <3>4. QED
      BY <2>3, <2>11, <3>1, <3>2, <3>3 DEF Makes
  <2> HIDE DEF dir
  <2>17. QED
    BY <1>1, <2>6, <2>10, <2>11, <2>13, <2>14, <2>15, <2>16, MakeStep
<1>21. QED
  BY <1>14, <1>19, <1>20

-----------------------------------------------------------------------------
(* The two parts together, in every state.                                 *)

\* The names in the directory that mkfs makes, and its links.
LEMMA FirstLinks ==
  /\ Root.nlink = 1 /\ Len(Root.ents) = 3
  /\ Root.ents[1] = [name |-> ".", inum |-> ROOTINO] /\ Root.ents[2].name = ".."
  /\ Root.ents[3] = [name |-> Program, inum |-> 2]
  /\ File1.nlink = 1 /\ File1.ents = <<>>
<1> DEFINE e == <<[name |-> ".", inum |-> ROOTINO], [name |-> "..", inum |-> ROOTINO],
                  [name |-> Program, inum |-> 2]>>
           x == Blank("dir")
           y == Blank("file")
           r == [x.addrs EXCEPT ![0] = 1]
           f == [y.addrs EXCEPT ![0] = 2]
<1>1. Root = [x EXCEPT !.nlink = 1, !.addrs = r, !.ents = e] /\ File1 = [y EXCEPT !.nlink = 1, !.addrs = f, !.size = 1]
  BY DEF Root, File1
<1>2. x \in Node /\ y \in Node /\ y.ents = <<>>
  BY BlankNode DEF Kinds
<1>3. e[1] = [name |-> ".", inum |-> ROOTINO] /\ e[2].name = ".." /\ e[3] = [name |-> Program, inum |-> 2] /\ Len(e) = 3
  OBVIOUS
<1> HIDE DEF e, x, y, r, f
<1>4. Root.nlink = 1 /\ Root.ents = e /\ File1.nlink = 1 /\ File1.ents = y.ents
  BY <1>1, <1>2 DEF Node
<1>5. QED
  BY <1>2, <1>3, <1>4

\* The second part holds of the disk that mkfs makes.
LEMMA InitTree ==
  ASSUME Init
  PROVE  TreeInv
<1>1. /\ disk[1] = Root /\ disk[2] = File1 /\ 1 \in Inums /\ 2 \in Inums /\ ROOTINO = 1
      /\ \A i \in Inums : i # 1 /\ i # 2 => disk[i] = Blank("free")
  <2>1. disk = [i \in Inums |-> CASE i = ROOTINO -> Root [] i = 2 -> File1 [] OTHER -> Blank("free")]
    BY DEF Init
  <2>2. ROOTINO = 1 /\ 1 \in Inums /\ 2 \in Inums
    BY Constants DEF ROOTINO
  <2>3. QED
    BY <2>1, <2>2
<1>2. /\ disk[1].type = "dir" /\ disk[1].nlink = 1 /\ disk[2].type = "file" /\ disk[2].nlink = 1 /\ disk[2].ents = <<>>
      /\ \A i \in Inums : i # 1 /\ i # 2 => disk[i].type = "free" /\ disk[i].nlink = 0 /\ disk[i].ents = <<>>
  <2>1. Blank("free").type = "free" /\ Blank("free").nlink = 0 /\ Blank("free").ents = <<>>
    BY BlankNode DEF Kinds
  <2>2. QED
    BY <1>1, <2>1, FirstNodes, FirstLinks
<1>3. /\ Len(disk[1].ents) = 3 /\ disk[1].ents[1] = [name |-> ".", inum |-> 1] /\ disk[1].ents[2].name = ".."
      /\ disk[1].ents[3] = [name |-> Program, inum |-> 2]
  BY <1>1, FirstLinks
<1>4. \A k \in 1..3 : k = 1 \/ k = 2 \/ k = 3
  OBVIOUS
<1>5. \A k \in 1..3 : disk[1].ents[k].name \in Names => k = 3 /\ disk[1].ents[k].inum = 2
  <2>1. SUFFICES ASSUME NEW k \in 1..3, k # 3
                 PROVE  disk[1].ents[k].name \notin Names
    BY <1>3
  <2>2. disk[1].ents[1].name = "." /\ disk[1].ents[2].name = ".."
    BY <1>3
  <2>3. disk[1].ents[k].name = "." \/ disk[1].ents[k].name = ".."
    BY <1>4, <2>1, <2>2
  <2>4. QED
    BY <2>3, NameAssumption
<1>6. \A j \in Inums, k \in Places : \A i : Lists(disk[j], k, i) => j = 1 /\ k = 3 /\ i = 2
  <2>1. SUFFICES ASSUME NEW j \in Inums, NEW k \in Places, NEW i, Lists(disk[j], k, i)
                 PROVE  j = 1 /\ k = 3 /\ i = 2
    OBVIOUS
  <2>2. j = 1
    BY <1>2, <2>1 DEF Lists
  <2>3. k \in 1..3
    <3>1. k <= 3
      BY <1>3, <2>1, <2>2 DEF Lists
    <3>2. k \in Int /\ k >= 1
      BY Slots DEF Places
    <3>3. QED
      BY <3>1, <3>2
  <2>4. QED
    BY <1>5, <2>1, <2>2, <2>3 DEF Lists
<1>7. LinkInv
  <2>1. SUFFICES ASSUME NEW i \in Inums
                 PROVE  disk[i].nlink >= Cardinality(Entries(i)) + Cardinality(Pending(i)) + Cardinality(Dirs(i))
                                           + (IF i = ROOTINO THEN 1 ELSE 0)
    BY DEF LinkInv
  <2>2. Pending(i) = {}
    BY <2>1, Constants DEF Init, Pending
  <2>3. Dirs(i) = {}
    BY <1>2, <1>6 DEF Dirs
  <2>4. Entries(i) \subseteq {<<1, 3>>}
    BY <1>6 DEF Entries
  <2>5. i # 2 => Entries(i) = {}
    BY <1>6 DEF Entries
  <2> DEFINE a == Cardinality(Entries(i))
             b == Cardinality(Pending(i))
             c == Cardinality(Dirs(i))
             n == disk[i].nlink
  <2>6. b = 0 /\ c = 0
    BY <2>2, <2>3, FS_EmptySet
  <2>7. a \in Nat /\ a <= 1 /\ (i # 2 => a = 0)
    <3>1. a \in Nat
      BY Finite
    <3>2. Cardinality(Entries(i)) <= Cardinality({<<1, 3>>}) /\ Cardinality({<<1, 3>>}) = 1
      BY <2>4, FS_Subset, FS_Singleton
    <3>3. i # 2 => a = 0
      BY <2>5, FS_EmptySet
    <3>4. QED
      BY <3>1, <3>2, <3>3
  <2>8. (i = 1 => n = 1) /\ (i = 2 => n = 1) /\ (i # 1 /\ i # 2 => n = 0)
    BY <1>2
  <2> HIDE DEF a, b, c, n
  <2>9. n >= a + b + c + (IF i = ROOTINO THEN 1 ELSE 0)
    <3>1. CASE i = 1
      BY <1>1, <2>6, <2>7, <2>8, <3>1
    <3>2. CASE i = 2
      BY <1>1, <2>6, <2>7, <2>8, <3>2
    <3>3. CASE i # 1 /\ i # 2
      BY <1>1, <2>6, <2>7, <2>8, <3>3
    <3>4. QED
      BY <3>1, <3>2, <3>3
  <2>10. QED
    BY <2>9 DEF a, b, c, n
<1>8. EntInv
  <2>1. SUFFICES ASSUME NEW i \in Inums, NEW k \in 1..Len(disk[i].ents), disk[i].ents[k].name \in Names
                 PROVE  disk[i].ents[k].inum # None
    BY DEF EntInv
  <2>2. CASE i = 1
    BY <1>3, <1>5, <2>1, <2>2, Constants
  <2>3. CASE i # 1
    <3>1. Len(disk[i].ents) = 0
      BY <1>2, <2>3
    <3>2. QED
      BY <2>1, <3>1
  <2>4. QED
    BY <2>2, <2>3
<1>9. /\ \A p \in Procs : /\ pc[p] = "user" /\ ip[p] = None /\ dp[p] = None /\ puts[p] = <<>> /\ freeing[p] = "no"
                          /\ cwd[p] = 1 /\ \A f \in Fds : ofile[p][f].ip = None
      /\ panicked = FALSE
  BY <1>1 DEF Init, Closed
<1>10. LiveInv
  <2>1. SUFFICES ASSUME NEW p \in Procs, NEW i \in Inums, Live(p, i)
                 PROVE  i = 1
    BY <1>2 DEF LiveInv, LiveAt
  <2>2. ~LivePut(p, i)
    BY <1>9, Puts, Constants DEF LivePut
  <2>3. QED
    BY <1>9, <2>1, <2>2, Constants DEF Live, Holds
<1>11. FreeingInv /\ NewInv
  BY <1>9 DEF FreeingInv, FreeingAt, NewInv, NewAt
<1>12. KindInv
  BY <1>2, <1>9 DEF KindInv, KindAt, KindOk
<1>13. DotInv
  <2>1. Dotted(1)
    BY <1>3 DEF Dotted
  <2>2. QED
    BY <1>2, <2>1 DEF DotInv, DotAt
<1>14. QED
  BY <1>7, <1>8, <1>9, <1>10, <1>11, <1>12, <1>13 DEF TreeInv

\* A step that changes nothing keeps it.
LEMMA StutterTree ==
  ASSUME TreeInv, UNCHANGED vars
  PROVE  TreeInv'
<1>1. /\ disk' = disk /\ pc' = pc /\ call' = call /\ elem' = elem /\ ip' = ip /\ dp' = dp /\ puts' = puts
      /\ freeing' = freeing /\ cwd' = cwd /\ ofile' = ofile /\ panicked' = panicked
  BY DEF vars, locals, procs
<1>2. \A i : Entries(i)' = Entries(i) /\ Dirs(i)' = Dirs(i) /\ Pending(i)' = Pending(i)
  BY <1>1 DEF Entries, Dirs, Pending
<1>3. LinkInv' /\ EntInv'
  BY <1>1, <1>2 DEF TreeInv, LinkInv, EntInv
<1>4. \A p, i : (Holds(p, i)' <=> Holds(p, i)) /\ (LivePut(p, i)' <=> LivePut(p, i)) /\ (Live(p, i)' <=> Live(p, i))
  BY <1>1 DEF Holds, LivePut, Live
<1>5. LiveInv'
  BY <1>1, <1>4 DEF TreeInv, LiveInv, LiveAt
<1>6. FreeingInv'
  BY <1>1, <1>4 DEF TreeInv, FreeingInv, FreeingAt
<1>7. NewInv'
  BY <1>1, <1>4 DEF TreeInv, NewInv, NewAt
<1>8. KindInv'
  BY <1>1 DEF TreeInv, KindInv, KindAt, KindOk
<1>9. DotInv'
  <2>1. \A p, i : Away(p, i)' <=> Away(p, i)
    BY <1>1, <1>4 DEF Away
  <2>2. \A i : (Dotted(i)' <=> Dotted(i)) /\ (Bare(i)' <=> Bare(i))
    BY <1>1, <2>1 DEF Dotted, Bare
  <2>3. QED
    BY <1>1, <2>2 DEF TreeInv, DotInv, DotAt
<1>10. QED
  BY <1>1, <1>3, <1>5, <1>6, <1>7, <1>8, <1>9 DEF TreeInv

\* Every step keeps it, when no path has the element "..".
LEMMA NextTree ==
  ASSUME ".." \notin Elems, IInv, TreeInv, [Next]_vars
  PROVE  TreeInv'
<1>1. ASSUME NEW p \in Procs, iput(p) \/ iput_trunc(p) \/ iput_unlock(p) \/ iput_drop(p)
      PROVE  TreeInv'
  BY <1>1, iputTree, iput_truncTree, iput_unlockTree, iput_dropTree
<1>2. ASSUME NEW p \in Procs, Begin(p) \/ namei(p) \/ nameiparent(p) \/ sys_open(p) \/ sys_chdir(p)
      PROVE  TreeInv'
  BY <1>2, BeginTree, nameiTree, nameiparentTree, sys_openTree, sys_chdirTree
<1>3. ASSUME NEW p \in Procs, create(p) \/ create_found(p) \/ create_new(p) \/ created(p) \/ bad(p)
      PROVE  TreeInv'
  BY <1>3, createTree, create_foundTree, create_newTree, createdTree, badTree
<1>4. ASSUME NEW p \in Procs, sys_link(p) \/ link_start(p) \/ link_new(p) \/ link_bad(p)
      PROVE  TreeInv'
  BY <1>4, sys_linkTree, link_startTree, link_newTree, link_badTree
<1>5. ASSUME NEW p \in Procs, sys_unlink(p) \/ unlink_ip(p) \/ unlinked(p)
      PROVE  TreeInv'
  BY <1>5, sys_unlinkTree, unlink_ipTree, unlinkedTree
<1>6. ASSUME NEW p \in Procs, NEW f \in Fds, sys_close(p, f) \/ fileread(p, f) \/ filestat(p, f) \/ filewrite(p, f)
      PROVE  TreeInv'
  BY <1>6, sys_closeTree, filereadTree, filestatTree, filewriteTree
<1>7. CASE Done \/ UNCHANGED vars
  BY <1>7, StutterTree DEF Done
<1>8. QED
  BY <1>1, <1>2, <1>3, <1>4, <1>5, <1>6, <1>7 DEF Next

\* Links, entries and pointers agree in every state of every behaviour, when no path has the
\* element "..".
THEOREM TreeInvariance ==
  ASSUME ".." \notin Elems
  PROVE  Spec => [](IInv /\ TreeInv)
<1>1. Init => IInv /\ TreeInv
  BY InitInv, InitTree
<1>2. IInv /\ TreeInv /\ [Next]_vars => (IInv /\ TreeInv)'
  BY NextInv, NextTree
<1>3. QED
  BY <1>1, <1>2, PTL DEF Spec

\* No call meets one of the panics of fs.c (NoPanic): none locks an inode that has been freed,
\* unlinks one without links or frees a block twice, when no path has the element "..".
THEOREM NeverPanics ==
  ASSUME ".." \notin Elems
  PROVE  Spec => []NoPanic
<1>1. IInv /\ TreeInv => NoPanic
  BY DEF TreeInv, NoPanic
<1>2. QED
  BY <1>1, TreeInvariance, PTL

\* Current directories are directories, and open files and what calls in progress work on are
\* inodes in use.
PointersValid ==
  \A p \in Procs :
    /\ disk[cwd[p]].type = "dir"
    /\ \A f \in Fds : ofile[p][f].ip # None => disk[ofile[p][f].ip].type # "free"
    /\ ip[p] # None => disk[ip[p]].type # "free"
    /\ dp[p] # None => disk[dp[p]].type # "free"

\* iput() frees no inode that a current directory, a descriptor or a call still points to
\* (PointersValid), when no path has the element "..".
THEOREM NoneDangles ==
  ASSUME ".." \notin Elems
  PROVE  Spec => []PointersValid
<1>1. ASSUME IInv, TreeInv
      PROVE  PointersValid
  <2>1. SUFFICES ASSUME NEW p \in Procs
                 PROVE  /\ disk[cwd[p]].type = "dir"
                        /\ \A f \in Fds : ofile[p][f].ip # None => disk[ofile[p][f].ip].type # "free"
                        /\ ip[p] # None => disk[ip[p]].type # "free"
                        /\ dp[p] # None => disk[dp[p]].type # "free"
    BY DEF PointersValid
  <2>2. \A i \in Inums : Live(p, i) => disk[i].type # "free"
    BY <1>1 DEF TreeInv, LiveInv, LiveAt
  <2>3. CallType /\ ProcType
    BY <1>1 DEF IInv, RefInv, TypeInv
  <2>4. disk[cwd[p]].type = "dir"
    BY <1>1 DEF TreeInv, KindInv, KindAt, KindOk
  <2>5. ASSUME NEW f \in Fds, ofile[p][f].ip # None
        PROVE  disk[ofile[p][f].ip].type # "free"
    <3>1. ofile[p][f].ip \in Inums
      BY <2>3, <2>5 DEF ProcType, OpenFileType
    <3>2. Live(p, ofile[p][f].ip)
      BY DEF Live, Holds
    <3>3. QED
      BY <2>2, <3>1, <3>2
  <2>6. ip[p] # None => disk[ip[p]].type # "free"
    BY <2>2, <2>3 DEF CallType, Live
  <2>7. dp[p] # None => disk[dp[p]].type # "free"
    BY <2>2, <2>3 DEF CallType, Live, Holds
  <2>8. QED
    BY <2>4, <2>5, <2>6, <2>7
<1>2. QED
  BY <1>1, TreeInvariance, PTL

\* The copy of an inode and the inode differ while iput() frees it, when neither has links.
LEMMA CurrentLinks ==
  ASSUME IInv, TreeInv, NEW i \in Inums
  PROVE  /\ Current(i).nlink = disk[i].nlink /\ Current(i).ents = disk[i].ents
         /\ Current(i).type = disk[i].type \/ (disk[i].nlink = 0 /\ disk[i].ents = <<>>)
<1>1. CacheInv
  BY DEF IInv, TreeInv
<1>2. CASE ~Window(i)
  BY <1>1, <1>2, Ilock DEF Current
<1>3. CASE Window(i)
  <2>1. PICK t \in Kinds : mem[i] = Blank("free") /\ disk[i] = Blank(t)
    BY <1>3 DEF Window, Kinds
  <2>2. /\ mem[i].nlink = 0 /\ mem[i].ents = <<>> /\ disk[i].nlink = 0 /\ disk[i].ents = <<>>
    BY <2>1, BlankNode DEF Kinds
  <2>3. Current(i) = mem[i] \/ Current(i) = disk[i]
    BY DEF Current, ilock
  <2>4. QED
    BY <2>2, <2>3
<1>4. QED
  BY <1>2, <1>3

\* An inode has a link for every entry that names it, every subdirectory and every call that is
\* making or removing one (LinksCounted), so none is freed while a directory names it, when no
\* path has the element "..".
THEOREM LinksExist ==
  ASSUME ".." \notin Elems
  PROVE  Spec => []LinksCounted
<1>1. ASSUME IInv, TreeInv
      PROVE  LinksCounted
  <2>1. DataType /\ LinkInv /\ EntInv
    BY <1>1 DEF IInv, RefInv, TypeInv, TreeInv
  <2>2. \A i \in Inums : /\ Current(i).nlink = disk[i].nlink /\ Current(i).ents = disk[i].ents
                         /\ Current(i).type = disk[i].type \/ (disk[i].nlink = 0 /\ disk[i].ents = <<>>)
    BY <1>1, CurrentLinks
  <2>3. \A i \in Inums : \A k \in 1..Len(disk[i].ents) : Current(i).type = disk[i].type
    <3>1. SUFFICES ASSUME NEW i \in Inums, disk[i].ents = <<>>
                   PROVE  1..Len(disk[i].ents) = {}
      BY <2>2
    <3>2. Len(disk[i].ents) = 0
      BY <3>1
    <3>3. QED
      BY <3>2
  <2>4. ASSUME NEW i \in Inums
        PROVE  EntriesOf(i) = Entries(i)
    <3>1. ASSUME NEW j \in Inums, NEW k \in Places
          PROVE  Lists(Current(j), k, i) <=> Lists(disk[j], k, i)
      <4>1. Len(disk[j].ents) \in Nat /\ k \in Int /\ k >= 1
        BY <2>1, NodeParts, Slots DEF DataType, Places
      <4>2. k <= Len(disk[j].ents) => k \in 1..Len(disk[j].ents)
        BY <4>1
      <4>3. k <= Len(disk[j].ents) => Current(j).type = disk[j].type
        BY <2>3, <4>2
      <4>4. QED
        BY <2>2, <4>3 DEF Lists
    <3>2. EntriesOf(i) = {x \in Inums \X Places : Lists(Current(x[1]), x[2], i)}
      BY DEF EntriesOf, Lists, Places
    <3>3. QED
      BY <3>1, <3>2 DEF Entries
  <2>5. ASSUME NEW i \in Inums, Current(i).type = "dir"
        PROVE  Subdirs(i) \subseteq Dirs(i)
    <3>1. SUFFICES ASSUME NEW k \in Subdirs(i)
                   PROVE  k \in Dirs(i)
      OBVIOUS
    <3>2. k \in 1..Len(disk[i].ents) /\ disk[i].ents[k].name \in Names /\ Current(disk[i].ents[k].inum).type = "dir"
      BY <2>2 DEF Subdirs
    <3>3. PICK j : j = disk[i].ents[k].inum
      OBVIOUS
    <3>4. j \in Inums
      <4>1. j # None
        BY <2>1, <3>2, <3>3 DEF EntInv
      <4>2. disk[i].ents \in Seq(Entry)
        BY <2>1, NodeParts DEF DataType
      <4>3. disk[i].ents[k] \in Entry
        BY <3>2, <4>2
      <4>4. QED
        BY <3>3, <4>1, <4>3 DEF Entry
    <3>5. Lists(disk[i], k, j)
      <4>1. disk[i].type = "dir" /\ k <= Len(disk[i].ents)
        BY <2>1, <2>3, <2>5, <3>2, NodeParts DEF DataType
      <4>2. QED
        BY <3>2, <3>3, <4>1 DEF Lists
    <3>6. disk[j].nlink # 0 /\ k \in Places
      BY <2>1, <3>2, <3>4, <3>5, Named
    <3>7. disk[j].type = "dir"
      BY <2>2, <3>2, <3>3, <3>4, <3>6
    <3>8. QED
      BY <3>4, <3>5, <3>6, <3>7 DEF Dirs
  <2>6. SUFFICES ASSUME NEW i \in Inums
                 PROVE  Current(i).nlink >= Cardinality(EntriesOf(i)) + Cardinality(Pending(i))
                                            + (IF Current(i).type = "dir" THEN Cardinality(Subdirs(i)) ELSE 0)
                                            + (IF i = ROOTINO THEN 1 ELSE 0)
    BY DEF LinksCounted
  <2> DEFINE n == disk[i].nlink
             a == Cardinality(Entries(i))
             b == Cardinality(Pending(i))
             c == Cardinality(Dirs(i))
             d == IF Current(i).type = "dir" THEN Cardinality(Subdirs(i)) ELSE 0
             e == IF i = ROOTINO THEN 1 ELSE 0
  <2>7. n >= a + b + c + e
    BY <2>1 DEF LinkInv
  <2>8. n \in Int /\ a \in Nat /\ b \in Nat /\ c \in Nat /\ e \in Nat
    BY <2>1, Finite, NodeParts DEF DataType
  <2>9. d \in Nat /\ d <= c
    <3>1. CASE Current(i).type = "dir"
      <4>1. Subdirs(i) \subseteq Dirs(i) /\ IsFiniteSet(Dirs(i))
        <5>1. Dirs(i) \subseteq Places /\ IsFiniteSet(Places)
          BY Finite
        <5>2. IsFiniteSet(Dirs(i))
          BY <5>1, FS_Subset
        <5>3. QED
          BY <2>5, <3>1, <5>2
      <4>2. IsFiniteSet(Subdirs(i)) /\ Cardinality(Subdirs(i)) <= Cardinality(Dirs(i))
        BY <4>1, FS_Subset
      <4>3. Cardinality(Subdirs(i)) \in Nat
        BY <4>2, FS_CardinalityType
      <4>4. QED
        BY <3>1, <4>2, <4>3
    <3>2. CASE Current(i).type # "dir"
      BY <2>8, <3>2
    <3>3. QED
      BY <3>1, <3>2
  <2> HIDE DEF n, a, b, c, d, e
  <2>10. n >= a + b + d + e
    BY <2>7, <2>8, <2>9
  <2>11. Current(i).nlink = n /\ Cardinality(EntriesOf(i)) = a
    BY <2>2, <2>4 DEF n, a
  <2>12. QED
    BY <2>10, <2>11 DEF b, d, e
<1>2. QED
  BY <1>1, TreeInvariance, PTL

\* The type invariant (TypeOK): link counts are not negative, when no path has the element "..".
THEOREM TypeCorrect ==
  ASSUME ".." \notin Elems
  PROVE  Spec => []TypeOK
<1>1. ASSUME IInv, TreeInv
      PROVE  TypeOK
  <2>1. DataType /\ CallType /\ ProcType /\ LinkInv /\ CacheInv
    BY <1>1 DEF IInv, RefInv, TypeInv, TreeInv
  <2>2. \A i \in Inums : disk[i] \in Inode
    <3>1. SUFFICES ASSUME NEW i \in Inums
                   PROVE  disk[i] \in Inode
      OBVIOUS
    <3>2. disk[i] \in Node /\ disk[i].nlink \in Nat
      <4>1. disk[i].nlink \in Int /\ disk[i].nlink >= 0
        BY <2>1, Unlinked
      <4>2. QED
        BY <2>1, <4>1 DEF DataType
    <3>3. QED
      BY <3>2 DEF Node, Inode
  <2>3. \A i \in Inums : mem[i] \in Inode
    <3>1. SUFFICES ASSUME NEW i \in Inums
                   PROVE  mem[i] \in Inode
      OBVIOUS
    <3>2. mem[i] \in Node /\ mem[i].nlink \in Nat
      <4>1. mem[i] = disk[i] \/ mem[i] = Blank("free")
        BY <2>1 DEF CacheInv, Window
      <4>2. disk[i].nlink \in Int /\ disk[i].nlink >= 0 /\ Blank("free").nlink = 0
        BY <2>1, Unlinked, BlankNode DEF Kinds
      <4>3. QED
        BY <2>1, <4>1, <4>2 DEF DataType
    <3>3. QED
      BY <3>2 DEF Node, Inode
  <2>4. puts \in [Procs -> Seq(Inums)]
    <3>1. ASSUME NEW s \in Putting
          PROVE  s \in Seq(Inums)
      <4>1. (\E i \in Inums : s = <<i>>) \/ (\E i, j \in Inums : s = <<i, j>>) \/ s = <<>>
        BY DEF Putting
      <4>2. \A i, j \in Inums : <<i, j>> \in Seq(Inums) /\ <<i>> \in Seq(Inums)
        OBVIOUS
      <4>3. <<>> \in Seq(Inums)
        OBVIOUS
      <4>4. QED
        BY <4>1, <4>2, <4>3
    <3>2. QED
      BY <2>1, <3>1 DEF CallType
  <2>5. QED
    BY <2>1, <2>2, <2>3, <2>4 DEF TypeOK, DataType, CallType, ProcType, OpenFileType
<1>2. QED
  BY <1>1, TreeInvariance, PTL

=============================================================================
