--------------------------------- MODULE Fs ---------------------------------
(***************************************************************************)
(* kernel/fs.c and the path-name calls of kernel/sysfile.c: inodes on disk *)
(* and their copies in the inode table, the block bitmap, directories, and *)
(* open, link, unlink, mkdir, mknod, chdir, read, write and close by       *)
(* several processes at once.                                              *)
(*                                                                         *)
(* The path a program gives is chosen element by element, as namex() comes *)
(* to each.  An inode's sleep lock is a variable.  What a process does     *)
(* between taking it and letting it go is one step, unless it takes a      *)
(* second lock or drops a reference meanwhile.  begin_op() and end_op()    *)
(* are those of module Log, which makes the writes of a call atomic;       *)
(* crashes are there.  The block cache is one with the disk.  Blocks hold  *)
(* DirSlots directory entries; the bytes of files are left out.            *)
(***************************************************************************)
EXTENDS Integers, Sequences, FiniteSets, FiniteSetsExt, SequencesExt, Functions

CONSTANTS
  Procs,       \* the processes
  NINODES,     \* inodes on the disk (sb.ninodes - 1)
  NBLOCKS,     \* data blocks on the disk
  NDIRECT, NINDIRECT,
  DirSlots,    \* directory entries in a block
  Names,       \* the names programs give to files
  Program,     \* the one mkfs gives to the file it puts on the disk
  Elems,       \* the path elements they use: names, "." and ".."
  NOFILE,      \* descriptors of a process
  Modes,       \* the modes they open files in, of "r", "w" and "rw"
  Calls,       \* for each process, the path-name calls it makes
  MaxCalls     \* bound: how many calls there are in all

ASSUME SizeAssumption ==
  /\ NINODES \in Nat \ (0..1) /\ NBLOCKS \in Nat \ (0..1) /\ NOFILE \in Nat \ {0}
  /\ NDIRECT \in Nat \ {0} /\ NINDIRECT \in Nat \ {0}
  /\ DirSlots \in Nat \ (0..2)        \* the root directory fits into its block
  /\ IsFiniteSet(Procs) /\ 0 \notin Procs /\ MaxCalls \in Nat
ASSUME NameAssumption ==
  /\ Names \cap {".", "..", ""} = {} /\ Program \in Names /\ Elems \subseteq Names \cup {".", ".."}
  /\ Modes \subseteq {"r", "w", "rw"}

ROOTINO == 1
Inums   == 1..NINODES
Blocks  == 1..NBLOCKS
Fds     == 1..NOFILE
MAXFILE == NDIRECT + NINDIRECT
None    == 0           \* no inode, no block

\* A directory entry; one with inum 0 is empty.
Entry == [name : Names \cup {".", "..", ""}, inum : Inums \cup {None}]
Empty == [name |-> "", inum |-> None]

\* struct dinode, with the contents of its indirect block (a) and, for a
\* directory, of its data blocks (ents).  size counts blocks of files.
Inode == [type : {"free", "dir", "file", "device"}, nlink : Nat, size : 0..MAXFILE,
          addrs : [0..NDIRECT -> Blocks \cup {None}],
          a : [0..NINDIRECT - 1 -> Blocks \cup {None}],
          ents : Seq(Entry)]

Blank(type) ==
  [type |-> type, nlink |-> 0, size |-> 0, addrs |-> [k \in 0..NDIRECT |-> None],
   a |-> [k \in 0..NINDIRECT - 1 |-> None], ents |-> <<>>]

VARIABLES
  disk,            \* the inodes on disk
  used,            \* the bitmap: blocks in use
  ref, valid, mem, \* the inode table, by inode number: ip->ref, ip->valid, the copy
  lock,            \* the process that holds ip->lock, or None
  pc, call,        \* per process: where it is in its call, and which call it is
  elem, ip, dp,    \* its locals: the last path element, the inodes it has references to
  puts,            \* the references it is dropping, in this order, before it goes on
  freeing,         \* where it is in iput(): "no", "trunc", "unlock" or "drop"
  cwd, ofile,      \* p->cwd, p->ofile
  ncalls,          \* calls begun
  panicked

locals == <<call, elem, ip, dp>>
procs  == <<cwd, ofile, ncalls>>
vars   == <<disk, used, ref, valid, mem, lock, pc, locals, puts, freeing, procs, panicked>>

Closed == [ip |-> None, off |-> 0, mode |-> "r"]

\* The calls that look up the parent of their path, and the others.
ParentCalls == {"creat", "mkdir", "mknod", "unlink"}
PathCalls   == {"open", "chdir", "link"}

Points == {"user", "namei", "nameiparent", "open", "create", "create_found", "create_new",
           "created", "bad", "chdir", "link", "link_start", "link_new", "link_bad", "unlink", "unlink_ip",
           "unlinked"}

TypeOK ==
  /\ disk \in [Inums -> Inode] /\ mem \in [Inums -> Inode]
  /\ used \subseteq Blocks
  /\ ref \in [Inums -> Nat] /\ valid \in [Inums -> BOOLEAN]
  /\ lock \in [Inums -> Procs \cup {None}]
  /\ pc \in [Procs -> Points]
  /\ call \in [Procs -> ParentCalls \cup PathCalls \cup {"none"}]
  /\ elem \in [Procs -> Elems \cup {""}]
  /\ ip \in [Procs -> Inums \cup {None}] /\ dp \in [Procs -> Inums \cup {None}]
  /\ puts \in [Procs -> Seq(Inums)]
  /\ freeing \in [Procs -> {"no", "trunc", "unlock", "drop"}]
  /\ cwd \in [Procs -> Inums]
  /\ ofile \in [Procs -> [Fds -> [ip : Inums \cup {None}, off : 0..MAXFILE,
                                 mode : {"r", "w", "rw"}]]]
  /\ ncalls \in 0..MaxCalls /\ panicked \in BOOLEAN

\* mkfs makes a root directory and puts files in it, here one of one block.
Root == [Blank("dir") EXCEPT
           !.nlink = 1, !.addrs[0] = 1,
           !.ents = <<[name |-> ".", inum |-> ROOTINO], [name |-> "..", inum |-> ROOTINO],
                      [name |-> Program, inum |-> 2]>>]
File1 == [Blank("file") EXCEPT !.nlink = 1, !.addrs[0] = 2, !.size = 1]

Init ==
  /\ disk = [i \in Inums |-> CASE i = ROOTINO -> Root [] i = 2 -> File1 [] OTHER -> Blank("free")]
  /\ used = {1, 2}
  /\ ref = [i \in Inums |-> IF i = ROOTINO THEN Cardinality(Procs) ELSE 0]
  /\ valid = [i \in Inums |-> FALSE]
  /\ mem = [i \in Inums |-> Blank("free")]
  /\ lock = [i \in Inums |-> None]
  /\ pc = [p \in Procs |-> "user"] /\ call = [p \in Procs |-> "none"]
  /\ elem = [p \in Procs |-> ""]
  /\ ip = [p \in Procs |-> None] /\ dp = [p \in Procs |-> None]
  /\ puts = [p \in Procs |-> <<>>]
  /\ freeing = [p \in Procs |-> "no"]
  /\ cwd = [p \in Procs |-> ROOTINO]
  /\ ofile = [p \in Procs |-> [f \in Fds |-> Closed]]
  /\ ncalls = 0 /\ panicked = FALSE

-----------------------------------------------------------------------------
(* Blocks.                                                                 *)

\* balloc(): the first free block, or None.
balloc(u) == IF u = Blocks THEN None ELSE Min(Blocks \ u)

\* bmap(): the address of block bn of inode d, allocated if need be, with what
\* that leaves of the inode and the bitmap.  Allocation may fail half way, with
\* the indirect block in place.
bmapDirect(d, bn, u) ==
  LET b == balloc(u) IN
  IF d.addrs[bn] # None \/ b = None
  THEN [addr |-> d.addrs[bn], d |-> d, used |-> u]
  ELSE [addr |-> b, d |-> [d EXCEPT !.addrs[bn] = b], used |-> u \cup {b}]

\* Mutant: the indirect block is lost when there is no block for the data.
bmap_forget(d, bn, u) ==
  IF bn < NDIRECT THEN bmapDirect(d, bn, u)
  ELSE LET i == bmapDirect(d, NDIRECT, u)
           b == balloc(i.used) IN
       IF i.addr = None \/ i.d.a[bn - NDIRECT] # None \/ b = None
       THEN [addr |-> IF i.addr = None THEN None ELSE i.d.a[bn - NDIRECT], d |-> d, used |-> i.used]
       ELSE [addr |-> b, d |-> [i.d EXCEPT !.a[bn - NDIRECT] = b], used |-> i.used \cup {b}]

bmap(d, bn, u) ==
  IF bn < NDIRECT THEN bmapDirect(d, bn, u)
  ELSE LET i == bmapDirect(d, NDIRECT, u)
           b == balloc(i.used) IN
       IF i.addr = None \/ i.d.a[bn - NDIRECT] # None \/ b = None
       THEN [i EXCEPT !.addr = IF i.addr = None THEN None ELSE i.d.a[bn - NDIRECT]]
       ELSE [addr |-> b, d |-> [i.d EXCEPT !.a[bn - NDIRECT] = b], used |-> i.used \cup {b}]

\* bfree(), for each block of S; a block that is free already makes it panic.
bfree(u, S) == u \ S

FreeOfFree(u, S) == ~(S \subseteq u)

\* The blocks of an inode, which itrunc() frees.
BlocksOf(d) == (Range(d.addrs) \cup Range(d.a)) \ {None}

\* itrunc(): the inode without its contents; its blocks leave the bitmap where it
\* is called.
itrunc(d) == [Blank(d.type) EXCEPT !.nlink = d.nlink]

-----------------------------------------------------------------------------
(* Directories, as operators on the contents of one.                       *)

\* dirlookup(): the position of the entry, or 0.
dirlookup(d, nm) == SelectInSeq(d.ents, LAMBDA e : e.inum # None /\ e.name = nm)

\* The first empty entry, or one past the last.
FreeSlot(d) ==
  LET k == SelectInSeq(d.ents, LAMBDA e : e.inum = None) IN
  IF k = 0 THEN Len(d.ents) + 1 ELSE k

\* dirlink(): fails if the name is there, the directory is at its largest, or
\* there is no block for a longer one.
dirlink(d, nm, inum, u) ==
  LET k  == FreeSlot(d)
      bn == (k - 1) \div DirSlots
      b  == bmap(d, bn, u)
      e  == [name |-> nm, inum |-> inum] IN
  IF dirlookup(d, nm) # 0 \/ bn >= MAXFILE
  THEN [ok |-> FALSE, d |-> d, used |-> u]
  ELSE IF b.addr = None
  THEN [ok |-> FALSE, d |-> b.d, used |-> b.used]
  ELSE [ok |-> TRUE, used |-> b.used,
        d |-> [b.d EXCEPT !.ents = IF k > Len(@) THEN Append(@, e) ELSE [@ EXCEPT ![k] = e]]]

isdirempty(d) == \A k \in 3..Len(d.ents) : d.ents[k].inum = None

-----------------------------------------------------------------------------
(* The inode table.                                                        *)

\* Process p is at this point of its call and has no reference left to drop.
At(p, point) == ~panicked /\ pc[p] = point /\ puts[p] = <<>>

\* A call begins.
Enter(p) == At(p, "user") /\ ncalls < MaxCalls /\ ncalls' = ncalls + 1

\* What ilock() finds: the copy in memory, or else the inode on disk.
ilock(i) == IF valid[i] THEN mem[i] ELSE disk[i]

\* ilock() finds an inode that is not allocated.
NoType(i) == ~valid[i] /\ disk[i].type = "free"

\* The contents of one inode, or of two.
On(i, v)           == [j \in {i} |-> v]
OnBoth(i, v, k, w) == [j \in {i, k} |-> IF j = i THEN v ELSE w]
Nothing            == [j \in {} |-> None]

\* A step that has the inodes of DOMAIN f locked: f gives their new contents, d
\* what is written to inodes on disk, g an inode of which it takes a reference
\* with iget() or idup(), or None.  It panics unless `assert' holds.
Access(f, d, g, assert) ==
  /\ mem'  = [j \in Inums |-> IF j \in DOMAIN f THEN f[j] ELSE mem[j]]
  /\ disk' = [j \in Inums |-> IF j \in DOMAIN d THEN d[j] ELSE disk[j]]
  /\ ref' = IF g = None THEN ref ELSE [ref EXCEPT ![g] = @ + 1]
  /\ valid' = [j \in Inums |-> j \in DOMAIN f \/ valid[j]]
  /\ panicked' = (~assert \/ \E j \in DOMAIN f : NoType(j))

\* The same, when nothing is changed.
Look(i, g) == Access(On(i, ilock(i)), Nothing, g, TRUE) /\ UNCHANGED used

Unlocked(i) == lock[i] = None

\* The call goes on at `point', or returns, with these references to drop first.
Goto(p, point, drop) ==
  /\ pc' = [pc EXCEPT ![p] = point]
  /\ puts' = [puts EXCEPT ![p] = drop]

Return(p, drop) ==
  /\ Goto(p, "user", drop)
  /\ call' = [call EXCEPT ![p] = "none"]
  /\ elem' = [elem EXCEPT ![p] = ""]
  /\ ip' = [ip EXCEPT ![p] = None] /\ dp' = [dp EXCEPT ![p] = None]

\* ref--.  An entry without references is free, and its contents are never used
\* again: iget() clears `valid' when it takes it.
Unref(i) ==
  /\ ref' = [ref EXCEPT ![i] = @ - 1]
  /\ valid' = [valid EXCEPT ![i] = @ /\ ref[i] > 1]
  /\ mem' = [mem EXCEPT ![i] = IF ref[i] > 1 THEN @ ELSE Blank("free")]

\* Mutant: an inode without links is freed although others have references to it.
iput_early(p) ==
  LET i == Head(puts[p]) IN
  /\ ~panicked /\ puts[p] # <<>> /\ freeing[p] = "no"
  /\ IF valid[i] /\ mem[i].nlink = 0
     THEN /\ Unlocked(i)
          /\ lock' = [lock EXCEPT ![i] = p]
          /\ freeing' = [freeing EXCEPT ![p] = "trunc"]
          /\ UNCHANGED <<ref, valid, mem, puts>>
     ELSE /\ Unref(i)
          /\ puts' = [puts EXCEPT ![p] = Tail(@)]
          /\ UNCHANGED <<lock, freeing>>
  /\ UNCHANGED <<disk, used, pc, locals, procs, panicked>>

\* iput(), for the first reference to drop.  The last reference to an inode
\* without links frees it: it is locked, and itable.lock is let go.
iput(p) ==
  LET i == Head(puts[p]) IN
  /\ ~panicked /\ puts[p] # <<>> /\ freeing[p] = "no"
  /\ IF ref[i] = 1 /\ valid[i] /\ mem[i].nlink = 0
     THEN /\ Unlocked(i)
          /\ lock' = [lock EXCEPT ![i] = p]
          /\ freeing' = [freeing EXCEPT ![p] = "trunc"]
          /\ UNCHANGED <<ref, valid, mem, puts>>
     ELSE /\ Unref(i)
          /\ puts' = [puts EXCEPT ![p] = Tail(@)]
          /\ UNCHANGED <<lock, freeing>>
  /\ UNCHANGED <<disk, used, pc, locals, procs, panicked>>

\* itrunc(), type = 0, iupdate(): from here on ialloc() can take the inode.
iput_trunc(p) ==
  LET i == Head(puts[p]) IN
  /\ ~panicked /\ freeing[p] = "trunc"
  /\ panicked' = FreeOfFree(used, BlocksOf(mem[i]))
  /\ used' = bfree(used, BlocksOf(mem[i]))
  /\ mem' = [mem EXCEPT ![i] = Blank("free")]
  /\ disk' = [disk EXCEPT ![i] = Blank("free")]
  /\ freeing' = [freeing EXCEPT ![p] = "unlock"]
  /\ UNCHANGED <<ref, valid, lock, pc, locals, puts, procs>>

\* valid = 0, and the lock is released.
iput_unlock(p) ==
  LET i == Head(puts[p]) IN
  /\ ~panicked /\ freeing[p] = "unlock"
  /\ valid' = [valid EXCEPT ![i] = FALSE]
  /\ lock' = [lock EXCEPT ![i] = None]
  /\ freeing' = [freeing EXCEPT ![p] = "drop"]
  /\ UNCHANGED <<disk, used, mem, ref, pc, locals, puts, procs, panicked>>

\* Back under itable.lock: ref--.
iput_drop(p) ==
  /\ ~panicked /\ freeing[p] = "drop"
  /\ Unref(Head(puts[p]))
  /\ puts' = [puts EXCEPT ![p] = Tail(@)]
  /\ freeing' = [freeing EXCEPT ![p] = "no"]
  /\ UNCHANGED <<disk, used, lock, pc, locals, procs, panicked>>

-----------------------------------------------------------------------------
(* namex(): a call takes a reference of the root or of the current         *)
(* directory, and goes from directory to directory.                        *)

\* iget() or idup() of the directory where the walk starts.
StartWalk(i) == ref' = [ref EXCEPT ![i] = @ + 1]

Begin(p) ==
  \E op \in Calls[p], i \in {ROOTINO, cwd[p]} :
    /\ Enter(p) /\ StartWalk(i)
    /\ \/ /\ op \in PathCalls
          /\ Goto(p, "namei", <<>>)
          /\ ip' = [ip EXCEPT ![p] = i]
          /\ call' = [call EXCEPT ![p] = op]
          /\ UNCHANGED <<elem, dp>>
       \/ /\ op \in ParentCalls
          /\ Goto(p, "nameiparent", <<>>)
          /\ dp' = [dp EXCEPT ![p] = i]
          /\ call' = [call EXCEPT ![p] = op]
          /\ UNCHANGED <<elem, ip>>
       \/ op \in ParentCalls /\ Return(p, <<i>>)     \* a path without elements
    /\ UNCHANGED <<disk, used, valid, mem, lock, freeing, cwd, ofile, panicked>>

\* namei(): one element of the path, or its end.
namei(p) ==
  /\ At(p, "namei")
  /\ \/ /\ Goto(p, call[p], <<>>)
        /\ UNCHANGED <<disk, used, ref, valid, mem, locals, panicked>>
     \/ \E e \in Elems :
          LET d == ilock(ip[p])
              k == dirlookup(d, e) IN
          /\ Unlocked(ip[p])
          /\ IF d.type # "dir" \/ k = 0
             THEN Look(ip[p], None) /\ Return(p, <<ip[p]>>)
             ELSE /\ Look(ip[p], d.ents[k].inum)
                  /\ Goto(p, "namei", <<ip[p]>>)
                  /\ ip' = [ip EXCEPT ![p] = d.ents[k].inum]
                  /\ UNCHANGED <<call, elem, dp>>
  /\ UNCHANGED <<lock, freeing, procs>>

\* nameiparent() fails: link() has a link count to take back.
NoParent(p) ==
  IF call[p] = "link"
  THEN Goto(p, "link_bad", <<dp[p]>>) /\ dp' = [dp EXCEPT ![p] = None] /\ UNCHANGED <<call, elem, ip>>
  ELSE Return(p, <<dp[p]>>)

\* nameiparent(): one element of the path; it stops at the last.
nameiparent(p) ==
  \E e \in Elems, last \in BOOLEAN :
    LET d == ilock(dp[p])
        k == dirlookup(d, e) IN
    /\ At(p, "nameiparent") /\ Unlocked(dp[p])
    /\ IF d.type # "dir" \/ (~last /\ k = 0)
       THEN Look(dp[p], None) /\ NoParent(p)
       ELSE IF last
       THEN /\ Look(dp[p], None)
            /\ Goto(p, CASE call[p] = "unlink" -> "unlink" [] call[p] = "link" -> "link_new"
                       [] OTHER -> "create", <<>>)
            /\ elem' = [elem EXCEPT ![p] = e]
            /\ UNCHANGED <<call, ip, dp>>
       ELSE /\ Look(dp[p], d.ents[k].inum)
            /\ Goto(p, "nameiparent", <<dp[p]>>)
            /\ dp' = [dp EXCEPT ![p] = d.ents[k].inum]
            /\ UNCHANGED <<call, elem, ip>>
    /\ UNCHANGED <<lock, freeing, procs>>

-----------------------------------------------------------------------------
(* sysfile.c.  A step begins where the previous one left an inode locked   *)
(* or takes the lock itself.                                               *)

\* sys_open() once it has the inode locked, with contents d: the device may have
\* no driver, there may be no descriptor, and O_TRUNC empties a file.
OpenFile(p, i, d, modes) ==
  /\ \/ /\ d.type = "device" \/ \A f \in Fds : ofile[p][f].ip # None
        /\ Access(On(i, d), Nothing, None, TRUE) /\ UNCHANGED <<used, ofile>>
        /\ Return(p, <<i>>)
     \/ \E m \in modes, trunc \in BOOLEAN :
          LET free == {f \in Fds : ofile[p][f].ip = None}
              e    == IF trunc /\ d.type = "file" THEN itrunc(d) ELSE d
              gone == BlocksOf(d) \ BlocksOf(e) IN
          /\ free # {}
          /\ ofile' = [ofile EXCEPT ![p][Min(free)] = [ip |-> i, off |-> 0, mode |-> m]]
          /\ Access(On(i, e), IF trunc /\ d.type = "file" THEN On(i, e) ELSE Nothing, None,
                    ~FreeOfFree(used, gone))
          /\ used' = bfree(used, gone)
          /\ Return(p, <<>>)
  /\ lock' = [lock EXCEPT ![i] = None]
  /\ UNCHANGED <<freeing, cwd, ncalls>>

\* sys_open() without O_CREATE: a directory can only be read.
sys_open(p) ==
  LET d == ilock(ip[p]) IN
  /\ At(p, "open") /\ Unlocked(ip[p])
  /\ \/ OpenFile(p, ip[p], d, IF d.type = "dir" THEN {"r"} ELSE Modes)
     \/ /\ d.type = "dir"
        /\ Look(ip[p], None) /\ Return(p, <<ip[p]>>)
        /\ UNCHANGED <<lock, freeing, procs>>

sys_chdir(p) ==
  LET d == ilock(ip[p]) IN
  /\ At(p, "chdir") /\ Unlocked(ip[p]) /\ Look(ip[p], None)
  /\ IF d.type # "dir"
     THEN Return(p, <<ip[p]>>) /\ UNCHANGED cwd
     ELSE Return(p, <<cwd[p]>>) /\ cwd' = [cwd EXCEPT ![p] = ip[p]]
  /\ UNCHANGED <<lock, freeing, ofile, ncalls>>

\* create() under the lock of the parent directory.
TypeOf(op) == CASE op = "creat" -> "file" [] op = "mkdir" -> "dir" [] op = "mknod" -> "device"

\* ialloc(): the first inode that is free on disk, or None.
ialloc == LET free == {i \in Inums : disk[i].type = "free"} IN IF free = {} THEN None ELSE Min(free)

create(p) ==
  LET d == ilock(dp[p])
      k == dirlookup(d, elem[p]) IN
  /\ At(p, "create") /\ Unlocked(dp[p])
  /\ \/ /\ k # 0
        /\ Look(dp[p], d.ents[k].inum)
        /\ Goto(p, "create_found", <<dp[p]>>)
        /\ ip' = [ip EXCEPT ![p] = d.ents[k].inum] /\ dp' = [dp EXCEPT ![p] = None]
        /\ UNCHANGED <<lock, call, elem>>
     \/ /\ k = 0 /\ ialloc = None
        /\ Look(dp[p], None)
        /\ Return(p, <<dp[p]>>)
        /\ UNCHANGED lock
     \/ /\ k = 0 /\ ialloc # None
        /\ Access(On(dp[p], d), On(ialloc, Blank(TypeOf(call[p]))), ialloc, d.type = "dir")
        /\ Goto(p, "create_new", <<>>)
        /\ lock' = [lock EXCEPT ![dp[p]] = p]
        /\ ip' = [ip EXCEPT ![p] = ialloc]
        /\ UNCHANGED <<used, call, elem, dp>>
  /\ UNCHANGED <<freeing, procs>>

\* The name exists: only O_CREATE accepts it, if it is a file or a device.
create_found(p) ==
  LET d == ilock(ip[p]) IN
  /\ At(p, "create_found") /\ Unlocked(ip[p])
  /\ IF call[p] = "creat" /\ d.type \in {"file", "device"}
     THEN OpenFile(p, ip[p], d, Modes)
     ELSE Look(ip[p], None) /\ Return(p, <<ip[p]>>) /\ UNCHANGED <<lock, freeing, procs>>

\* The new inode gets a link, a directory its two entries, and the parent an entry
\* for it and a link for its "..".  If one of these fails, the links are taken back.
create_new(p) ==
  LET i    == ip[p]
      dir  == call[p] = "mkdir"
      new  == [ilock(i) EXCEPT !.nlink = 1]
      dot  == IF dir THEN dirlink(new, ".", i, used) ELSE [ok |-> TRUE, d |-> new, used |-> used]
      dots == IF dir /\ dot.ok THEN dirlink(dot.d, "..", dp[p], dot.used) ELSE dot
      ent  == IF dots.ok THEN dirlink(mem[dp[p]], elem[p], i, dots.used)
                         ELSE [ok |-> FALSE, d |-> mem[dp[p]], used |-> dots.used]
      f    == IF ent.ok
              THEN OnBoth(i, dots.d, dp[p], [ent.d EXCEPT !.nlink = IF dir THEN @ + 1 ELSE @])
              ELSE OnBoth(i, [dots.d EXCEPT !.nlink = 0], dp[p], ent.d) IN
  /\ At(p, "create_new") /\ Unlocked(i)
  /\ Access(f, f, None, TRUE)
  /\ used' = ent.used
  /\ IF ent.ok
     THEN /\ lock' = [lock EXCEPT ![i] = p, ![dp[p]] = None]
          /\ Goto(p, "created", <<dp[p]>>)
          /\ dp' = [dp EXCEPT ![p] = None]
          /\ UNCHANGED ip
     ELSE /\ Goto(p, "bad", <<i>>)
          /\ ip' = [ip EXCEPT ![p] = None]
          /\ UNCHANGED <<lock, dp>>
  /\ UNCHANGED <<call, elem, freeing, procs>>

\* create() has returned the inode, locked.
created(p) ==
  /\ At(p, "created")
  /\ IF call[p] = "creat"
     THEN OpenFile(p, ip[p], mem[ip[p]], Modes)
     ELSE /\ Look(ip[p], None)
          /\ lock' = [lock EXCEPT ![ip[p]] = None]
          /\ Return(p, <<ip[p]>>)
          /\ UNCHANGED <<freeing, procs>>

\* iunlockput(dp) on the way out of create() and sys_unlink().
bad(p) ==
  /\ At(p, "bad")
  /\ lock' = [lock EXCEPT ![dp[p]] = None]
  /\ Return(p, <<dp[p]>>)
  /\ UNCHANGED <<disk, used, ref, valid, mem, freeing, procs, panicked>>

-----------------------------------------------------------------------------
(* link and unlink.                                                        *)

\* Mutant: no iupdate() after nlink++.
sys_link_no_update(p) ==
  LET d == ilock(ip[p]) IN
  /\ At(p, "link") /\ Unlocked(ip[p])
  /\ \/ /\ d.type = "dir"
        /\ Look(ip[p], None) /\ Return(p, <<ip[p]>>)
     \/ /\ d.type # "dir"
        /\ Access(On(ip[p], [d EXCEPT !.nlink = @ + 1]), Nothing, None, TRUE)
        /\ Goto(p, "link_start", <<>>)
        /\ UNCHANGED <<used, locals>>
  /\ UNCHANGED <<lock, freeing, procs>>

\* sys_link(): the link is counted before the entry exists.
sys_link(p) ==
  LET d == ilock(ip[p])
      e == [d EXCEPT !.nlink = @ + 1] IN
  /\ At(p, "link") /\ Unlocked(ip[p])
  /\ \/ /\ d.type = "dir"
        /\ Look(ip[p], None) /\ Return(p, <<ip[p]>>)
     \/ /\ d.type # "dir"
        /\ Access(On(ip[p], e), On(ip[p], e), None, TRUE)
        /\ Goto(p, "link_start", <<>>)
        /\ UNCHANGED <<used, locals>>
  /\ UNCHANGED <<lock, freeing, procs>>

\* nameiparent(new) begins.
link_start(p) ==
  \E i \in {ROOTINO, cwd[p]} :
    /\ At(p, "link_start") /\ StartWalk(i)
    /\ \/ Goto(p, "nameiparent", <<>>) /\ dp' = [dp EXCEPT ![p] = i]
       \/ Goto(p, "link_bad", <<i>>) /\ UNCHANGED dp     \* a path without elements
    /\ UNCHANGED <<disk, used, valid, mem, lock, call, elem, ip, freeing, procs, panicked>>

\* Mutant: goto bad without iunlockput(dp).
link_new_no_put(p) ==
  LET d == ilock(dp[p])
      r == dirlink(d, elem[p], ip[p], used) IN
  /\ At(p, "link_new") /\ Unlocked(dp[p])
  /\ Access(On(dp[p], r.d), On(dp[p], r.d), None, d.type = "dir")
  /\ used' = r.used
  /\ IF r.ok
     THEN Return(p, <<dp[p], ip[p]>>)
     ELSE /\ Goto(p, "link_bad", <<>>)
          /\ dp' = [dp EXCEPT ![p] = None]
          /\ UNCHANGED <<call, elem, ip>>
  /\ UNCHANGED <<lock, freeing, procs>>

link_new(p) ==
  LET d == ilock(dp[p])
      r == dirlink(d, elem[p], ip[p], used) IN
  /\ At(p, "link_new") /\ Unlocked(dp[p])
  /\ Access(On(dp[p], r.d), On(dp[p], r.d), None, d.type = "dir")
  /\ used' = r.used
  /\ IF r.ok
     THEN Return(p, <<dp[p], ip[p]>>)
     ELSE /\ Goto(p, "link_bad", <<dp[p]>>)
          /\ dp' = [dp EXCEPT ![p] = None]
          /\ UNCHANGED <<call, elem, ip>>
  /\ UNCHANGED <<lock, freeing, procs>>

\* The link counted in advance is taken back.
link_bad(p) ==
  LET e == [ilock(ip[p]) EXCEPT !.nlink = @ - 1] IN
  /\ At(p, "link_bad") /\ Unlocked(ip[p])
  /\ Access(On(ip[p], e), On(ip[p], e), None, TRUE)
  /\ Return(p, <<ip[p]>>)
  /\ UNCHANGED <<used, lock, freeing, procs>>

\* sys_unlink() under the lock of the parent directory.
sys_unlink(p) ==
  LET d == ilock(dp[p])
      k == dirlookup(d, elem[p]) IN
  /\ At(p, "unlink") /\ Unlocked(dp[p])
  /\ IF elem[p] \in {".", ".."} \/ k = 0
     THEN Look(dp[p], None) /\ Return(p, <<dp[p]>>) /\ UNCHANGED lock
     ELSE /\ Look(dp[p], d.ents[k].inum)
          /\ Goto(p, "unlink_ip", <<>>)
          /\ lock' = [lock EXCEPT ![dp[p]] = p]
          /\ ip' = [ip EXCEPT ![p] = d.ents[k].inum]
          /\ UNCHANGED <<call, elem, dp>>
  /\ UNCHANGED <<freeing, procs>>

\* Both inodes locked: the entry is cleared, unless the directory is not empty.
unlink_ip(p) ==
  LET i == ip[p]
      c == ilock(i)
      d == mem[dp[p]]
      k == dirlookup(d, elem[p])
      e == [d EXCEPT !.ents[k] = Empty, !.nlink = IF c.type = "dir" THEN @ - 1 ELSE @] IN
  /\ At(p, "unlink_ip") /\ Unlocked(i)
  /\ IF c.type = "dir" /\ ~isdirempty(c)
     THEN /\ Access(On(i, c), Nothing, None, c.nlink > 0)
          /\ Goto(p, "bad", <<i>>)
          /\ ip' = [ip EXCEPT ![p] = None]
          /\ UNCHANGED <<lock, dp>>
     ELSE /\ Access(OnBoth(i, c, dp[p], e), On(dp[p], e), None, c.nlink > 0)
          /\ lock' = [lock EXCEPT ![i] = p, ![dp[p]] = None]
          /\ Goto(p, "unlinked", <<dp[p]>>)
          /\ dp' = [dp EXCEPT ![p] = None]
          /\ UNCHANGED ip
  /\ UNCHANGED <<used, call, elem, freeing, procs>>

unlinked(p) ==
  LET e == [mem[ip[p]] EXCEPT !.nlink = @ - 1] IN
  /\ At(p, "unlinked")
  /\ Access(On(ip[p], e), On(ip[p], e), None, TRUE)
  /\ lock' = [lock EXCEPT ![ip[p]] = None]
  /\ Return(p, <<ip[p]>>)
  /\ UNCHANGED <<used, freeing, procs>>

-----------------------------------------------------------------------------
(* Open files.  The devices' own functions are not modelled.               *)

File(p, f) == ofile[p][f]

sys_close(p, f) ==
  /\ Enter(p) /\ File(p, f).ip # None
  /\ ofile' = [ofile EXCEPT ![p][f] = Closed]
  /\ puts' = [puts EXCEPT ![p] = <<File(p, f).ip>>]
  /\ UNCHANGED <<disk, used, ref, valid, mem, lock, pc, locals, freeing, cwd, panicked>>

\* The size in blocks; readi() of the block at `off': how many there are before the end.
Size(d)       == IF d.type = "dir" THEN (Len(d.ents) + DirSlots - 1) \div DirSlots ELSE d.size
readi(d, off) == IF off < Size(d) THEN 1 ELSE 0

\* fileread() of one block of a file or directory; copying it out may fail.
fileread(p, f) ==
  LET i == File(p, f).ip
      d == ilock(i) IN
  /\ Enter(p) /\ i # None
  /\ File(p, f).mode # "w" /\ d.type # "device" /\ Unlocked(i)
  /\ Look(i, None)
  /\ \E n \in {0, readi(d, File(p, f).off)} : ofile' = [ofile EXCEPT ![p][f].off = @ + n]
  /\ UNCHANGED <<lock, pc, locals, puts, freeing, cwd>>

\* filestat(): what stati() finds goes to the program; the inode is locked meanwhile.
filestat(p, f) ==
  /\ Enter(p) /\ File(p, f).ip # None /\ Unlocked(File(p, f).ip)
  /\ Look(File(p, f).ip, None)
  /\ UNCHANGED <<lock, pc, locals, puts, freeing, cwd, ofile>>

\* writei() of block bn: none past the end of the file or the largest size.  The
\* block may be found and the copy from user memory fail.
writei(d, bn, u, copied) ==
  LET b == bmap(d, bn, u) IN
  IF bn > d.size \/ bn + 1 > MAXFILE
  THEN [n |-> 0, d |-> d, used |-> u]
  ELSE IF b.addr = None \/ ~copied
  THEN [n |-> 0, d |-> b.d, used |-> b.used]
  ELSE [n |-> 1, d |-> [b.d EXCEPT !.size = IF bn + 1 > @ THEN bn + 1 ELSE @], used |-> b.used]

\* filewrite() of one block.  A longer write is several of these.
filewrite(p, f) ==
  \E copied \in BOOLEAN :
    LET i == File(p, f).ip
        r == writei(ilock(i), File(p, f).off, used, copied) IN
    /\ Enter(p) /\ i # None
    /\ File(p, f).mode # "r" /\ ilock(i).type # "device" /\ Unlocked(i)
    /\ Access(On(i, r.d), On(i, r.d), None, TRUE)
    /\ used' = r.used
    /\ ofile' = [ofile EXCEPT ![p][f].off = @ + r.n]
    /\ UNCHANGED <<lock, pc, locals, puts, freeing, cwd>>

-----------------------------------------------------------------------------
\* The last call is over.
Done == ncalls = MaxCalls /\ (\A p \in Procs : At(p, "user")) /\ UNCHANGED vars

Next ==
  \/ \E p \in Procs :
    \/ iput(p) \/ iput_trunc(p) \/ iput_unlock(p) \/ iput_drop(p)
    \/ Begin(p) \/ namei(p) \/ nameiparent(p)
    \/ sys_open(p) \/ sys_chdir(p)
    \/ create(p) \/ create_found(p) \/ create_new(p) \/ created(p) \/ bad(p)
    \/ sys_link(p) \/ link_start(p) \/ link_new(p) \/ link_bad(p)
    \/ sys_unlink(p) \/ unlink_ip(p) \/ unlinked(p)
    \/ \E f \in Fds : sys_close(p, f) \/ fileread(p, f) \/ filestat(p, f) \/ filewrite(p, f)
  \/ Done

Spec == Init /\ [][Next]_vars

-----------------------------------------------------------------------------
(* Properties.                                                             *)

\* The contents of an inode: its copy in the table, if that has been read.
Current(i) == ilock(i)

\* An inode's reference count is the number of pointers to it: current
\* directories, open files, and the inodes that calls in progress work on or are
\* about to put.  A path that forgets an iput(), or makes one too many, breaks it
\* (iget, idup, iput in every error path of sysfile.c).
RefsExact ==
  \A i \in Inums :
    ref[i] = Cardinality({p \in Procs : cwd[p] = i})
             + Cardinality({x \in Procs \X Fds : ofile[x[1]][x[2]].ip = i})
             + Cardinality({p \in Procs : ip[p] = i}) + Cardinality({p \in Procs : dp[p] = i})
             + Cardinality({x \in Procs \X (1..2) : x[2] <= Len(puts[x[1]]) /\ puts[x[1]][x[2]] = i})

\* The entries, over all directories, that name inode i.
EntriesOf(i) ==
  {x \in Inums \X (1..DirSlots * MAXFILE) :
     LET d == Current(x[1]) IN
     d.type = "dir" /\ x[2] <= Len(d.ents) /\ d.ents[x[2]].inum = i /\ d.ents[x[2]].name \in Names}

\* The subdirectories in a directory, whose ".." counts as a link.
Subdirs(i) ==
  LET d == Current(i) IN
  {k \in 1..Len(d.ents) : d.ents[k].name \in Names /\ Current(d.ents[k].inum).type = "dir"}

\* Calls that have counted a link without an entry: link() before it makes one,
\* unlink() after it has cleared one.
Pending(i) ==
  {p \in Procs : /\ ip[p] = i
                 /\ \/ pc[p] \in {"link_start", "link_new", "link_bad", "unlinked"}
                    \/ pc[p] = "nameiparent" /\ call[p] = "link"}

\* An inode has at least as many links as there are entries for it, links being
\* made and removed, and subdirectories: none is freed while a directory names it,
\* whatever calls run at the same time.  (It can have more: what is created in a
\* directory that has been removed is never freed.)
LinksCounted ==
  ~panicked =>
  \A i \in Inums :
    Current(i).nlink >= Cardinality(EntriesOf(i)) + Cardinality(Pending(i))
                        + (IF Current(i).type = "dir" THEN Cardinality(Subdirs(i)) ELSE 0)
                        + (IF i = ROOTINO THEN 1 ELSE 0)

\* The bitmap marks the blocks of inodes and no others, and no block belongs to two
\* inodes, after every partial failure of bmap() and every iput().
BlocksOwned ==
  /\ used = UNION {BlocksOf(Current(i)) : i \in Inums}
  /\ \A i, j \in Inums : i # j => BlocksOf(Current(i)) \cap BlocksOf(Current(j)) = {}

\* No call meets one of fs.c's panics: an inode without a type, unlink() of an inode
\* without links, a free block freed.
NoPanic == ~panicked
=============================================================================
