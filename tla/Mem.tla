-------------------------------- MODULE Mem ---------------------------------
(***************************************************************************)
(* kernel/kalloc.c, kernel/vm.c and their users: fork() and freeproc() of  *)
(* kernel/proc.c, sbrk(), and exec() with sys_exec()'s argument pages.     *)
(*                                                                         *)
(* Processes share only the list of free pages, so a call is one step;     *)
(* the pages that others take or give back meanwhile show as kalloc()      *)
(* failing after any number of successes.  A page table is a tree of pages *)
(* of three levels, here with a smaller fan-out; the contents of user      *)
(* memory are left out.  Addresses and sizes count bytes, of which there   *)
(* are PGSIZE to a page; page numbers are addresses divided by PGSIZE.     *)
(***************************************************************************)
EXTENDS Integers, Sequences, FiniteSets, FiniteSetsExt, Functions, SequencesExt, TLC

CONSTANTS
  Procs, InitProc,
  NPAGES,      \* pages of physical memory
  PGSIZE,
  Fanout,      \* entries of a page-table page (512)
  Word,        \* bytes of a pointer
  Images,      \* programs on disk: sequences of segments [va, memsz], in bytes
  MaxArgs,     \* bound: arguments of exec()
  MaxSz,       \* bound: how far a program grows
  MaxCalls     \* bound: calls in all

ASSUME MemAssumption ==
  /\ InitProc \in Procs /\ NPAGES \in Nat \ {0} /\ PGSIZE \in Nat \ {0} /\ Fanout \in Nat \ (0..1) /\ Word \in Nat \ {0}
  /\ MaxArgs \in Nat /\ MaxCalls \in Nat /\ MaxSz \in Nat /\ MaxSz + 3 * PGSIZE <= (Fanout * Fanout * Fanout - 2) * PGSIZE

Pages      == 1..NPAGES
None       == 0                                  \* no page
Kernel     == 0                                  \* the page of trampoline.S
TRAMPOLINE == Fanout * Fanout * Fanout - 1       \* page numbers
TRAPFRAME  == TRAMPOLINE - 1

PGROUNDUP(sz) == (sz + PGSIZE - 1) \div PGSIZE   \* as a number of pages

VARIABLES
  free,       \* kmem.freelist
  proc,       \* per process: trapframe, pagetable, sz
  panicked,
  ncalls

vars == <<free, proc, panicked, ncalls>>

\* A page table: the pages of the tree, and the leaves: page numbers mapped to
\* physical pages, with PTE_U.
NoTable == [nodes |-> <<>>, leaf |-> <<>>]
NoProc  == [trapframe |-> None, pagetable |-> NoTable, sz |-> 0]

-----------------------------------------------------------------------------
(* Operators on a call in progress: m.free and m.left say which and how    *)
(* many pages kalloc() still has for it, m.pt is the page table it works   *)
(* on, m.sz its size, m.ok is FALSE once it has failed, at page m.at.      *)

Begin(left, pt, sz) ==
  [free |-> free, left |-> left, pt |-> pt, sz |-> sz, ok |-> TRUE, at |-> 0, panic |-> FALSE]

Then(m, Op(_))   == IF m.ok THEN Op(m) ELSE m      \* go on, unless it has failed
OrElse(m, Op(_)) == IF m.ok THEN m ELSE Op(m)      \* clean up, if it has
Fail(m)          == [m EXCEPT !.ok = FALSE]

Page(m)   == Min(m.free)
kalloc(m) == IF m.left > 0 /\ m.free # {}
             THEN [m EXCEPT !.free = @ \ {Page(m)}, !.left = @ - 1]
             ELSE Fail(m)

\* kfree().  A page freed twice would be on the list twice.
kfree(m, S) == [m EXCEPT !.free = @ \cup (S \ {Kernel}), !.panic = @ \/ S \cap m.free # {}]

\* The node of the tree at this level on the way to page va; the root is at level 2.
Node(level, va) == <<level, CASE level = 2 -> 0 [] level = 1 -> va \div (Fanout * Fanout)
                              [] level = 0 -> va \div Fanout>>

AddNode(m, n) ==
  IF n \in DOMAIN m.pt.nodes THEN m
  ELSE Then(kalloc(m), LAMBDA k : [k EXCEPT !.pt.nodes = (n :> Page(m)) @@ @])

\* walk(), alloc = 1: it may fail with the upper of two pages in place.
walk(m, va) == Then(AddNode(m, Node(1, va)), LAMBDA w : AddNode(w, Node(0, va)))

mappages(m, va, pa, user) ==
  Then(walk(m, va), LAMBDA w :
    [w EXCEPT !.panic = @ \/ va \in DOMAIN m.pt.leaf,            \* remap
              !.pt.leaf = (va :> [pa |-> pa, user |-> user]) @@ @])

\* Pages va to va + n - 1 must be mapped.
uvmunmap(m, va, n, do_free) ==
  LET S == va..(va + n - 1)
      T == S \cap DOMAIN m.pt.leaf IN
  kfree([m EXCEPT !.panic = @ \/ S # T, !.pt.leaf = Restrict(@, DOMAIN @ \ S)],
        IF do_free THEN {m.pt.leaf[v].pa : v \in T} ELSE {})

uvmdealloc(m, oldsz, newsz) ==
  IF newsz >= oldsz THEN m
  ELSE [uvmunmap(m, PGROUNDUP(newsz), PGROUNDUP(oldsz) - PGROUNDUP(newsz), TRUE) EXCEPT !.sz = newsz]

\* Mutant: a page that cannot be mapped is not given back.
AddPageLeak(m, va, user) ==
  Then(m, LAMBDA x : OrElse(Then(kalloc(x), LAMBDA k : mappages(k, va, Page(x), user)),
                            LAMBDA y : [y EXCEPT !.at = va]))

\* A page of memory at page va, or failure there.
AddPage(m, va, user) ==
  Then(m, LAMBDA x :
    OrElse(Then(kalloc(x), LAMBDA k :
                  OrElse(mappages(k, va, Page(x), user), LAMBDA y : kfree(y, {Page(x)}))),
           LAMBDA y : [y EXCEPT !.at = va]))

PagesFrom(a, b) == [k \in 1..(b - a) |-> a + k - 1]

\* uvmalloc(): more memory, up to newsz.  When it fails, it undoes what it did.
uvmalloc(m, newsz) ==
  IF newsz < m.sz THEN m
  ELSE OrElse([FoldLeft(LAMBDA x, va : AddPage(x, va, TRUE), m,
                        PagesFrom(PGROUNDUP(m.sz), PGROUNDUP(newsz))) EXCEPT !.sz = newsz],
              LAMBDA y : [uvmdealloc(y, y.at * PGSIZE, PGROUNDUP(m.sz) * PGSIZE) EXCEPT !.sz = m.sz])

\* freewalk(): the leaves must be gone.
freewalk(m) ==
  [kfree(m, Range(m.pt.nodes)) EXCEPT !.panic = @ \/ m.pt.leaf # <<>>, !.pt = NoTable]

uvmfree(m, sz) == freewalk(uvmunmap(m, 0, PGROUNDUP(sz), TRUE))

\* uvmcopy(): a copy of the pages of `old' below sz.
uvmcopy(old, m, sz) ==
  OrElse([FoldLeft(LAMBDA x, va : AddPage(x, va, old.leaf[va].user), m, PagesFrom(0, PGROUNDUP(sz)))
            EXCEPT !.sz = sz],
         LAMBDA y : [uvmunmap(y, 0, y.at, TRUE) EXCEPT !.sz = 0])

\* uvmclear(): the page is no longer the user's.
uvmclear(m, va) == [m EXCEPT !.pt.leaf[va].user = FALSE]

\* uvmcreate(): a page table without mappings.
uvmcreate(m) == AddNode([m EXCEPT !.pt = NoTable], Node(2, 0))

\* proc_pagetable(): m.pt is a new page table, or none.
proc_pagetable(m, trapframe) ==
  Then(uvmcreate(m), LAMBDA root :
    Then(OrElse(mappages(root, TRAMPOLINE, Kernel, FALSE), LAMBDA x : uvmfree(x, 0)), LAMBDA tr :
      OrElse(mappages(tr, TRAPFRAME, trapframe, FALSE),
             LAMBDA x : uvmfree(uvmunmap(x, TRAMPOLINE, 1, FALSE), 0))))

proc_freepagetable(m, sz) ==
  uvmfree(uvmunmap(uvmunmap(m, TRAMPOLINE, 1, FALSE), TRAPFRAME, 1, FALSE), sz)

\* freeproc(): the trapframe and the page table, if there is one.
freeproc(m, trapframe, pt, sz) ==
  IF pt = NoTable THEN kfree(m, {trapframe})
  ELSE proc_freepagetable([kfree(m, {trapframe}) EXCEPT !.pt = pt], sz)

\* allocproc(): a trapframe and a page table for it, or nothing.
allocproc(m) ==
  Then(kalloc(m), LAMBDA k :
    OrElse(proc_pagetable(k, Page(m)), LAMBDA x : freeproc(x, Page(m), NoTable, 0)))

-----------------------------------------------------------------------------
(* Copies between the kernel and a program.  The address is any number     *)
(* that the program gives.                                                 *)

\* Mutant: a page that is mapped is good enough.
walkaddr_mapped(pt, va) == IF va \in DOMAIN pt.leaf THEN pt.leaf[va].pa ELSE None

\* walkaddr(): the physical page of the user's page va.
walkaddr(pt, va) == IF va \in DOMAIN pt.leaf /\ pt.leaf[va].user THEN pt.leaf[va].pa ELSE None

\* The loop of copyout() and copyin(): page by page, until one is not the user's.  The
\* bytes of memory that were copied by then, and whether it was all.
Copy(pt, va, len) ==
  LET Rest[l \in 0..len] ==                 \* l bytes are left
        LET at  == va + len - l
            pa0 == walkaddr(pt, at \div PGSIZE)
            k   == Min({PGSIZE - (at % PGSIZE), l}) IN
        IF l = 0 THEN [ok |-> TRUE, bytes |-> {}]
        ELSE IF pa0 = None THEN [ok |-> FALSE, bytes |-> {}]
        ELSE [Rest[l - k] EXCEPT !.bytes = @ \cup {<<pa0, (at % PGSIZE) + j>> : j \in 0..k - 1}]
  IN  Rest[len]

copyout(pt, dstva, len) == Copy(pt, dstva, len)
copyin(pt, srcva, len)  == Copy(pt, srcva, len)

\* copyinstr(), of a string of n bytes and a NUL: it stops there, or at max bytes.
copyinstr(pt, srcva, max, n) == n < max /\ Copy(pt, srcva, Min({n + 1, max})).ok

\* A pointer, and a string that has to fit into a page, of the process's memory.
fetchaddr(pr, addr)   == addr + Word <= pr.sz /\ copyin(pr.pagetable, addr, Word).ok
fetchstr(pr, addr, n) == copyinstr(pr.pagetable, addr, PGSIZE, n)

\* The addresses programs give: some of them beyond all memory.
Addrs == 0..(Fanout * Fanout * Fanout + 1) * PGSIZE

\* The trapframe that a page table maps.
TrapframeOf(pt) == pt.leaf[TRAPFRAME].pa

-----------------------------------------------------------------------------
(* The calls.                                                              *)

\* A process with the page table and the size that a call has made.
Process(m) == [trapframe |-> TrapframeOf(m.pt), pagetable |-> m.pt, sz |-> m.sz]

\* uvmfirst(): one page, for initcode.
uvmfirst(m) == [AddPage(m, 0, TRUE) EXCEPT !.sz = PGSIZE]

\* userinit(): the first process.
userinit ==
  uvmfirst(allocproc([free |-> Pages, left |-> NPAGES, pt |-> NoTable, sz |-> 0, ok |-> TRUE,
                      at |-> 0, panic |-> FALSE]))

Init ==
  /\ free = userinit.free
  /\ proc = [p \in Procs |-> IF p = InitProc THEN Process(userinit) ELSE NoProc]
  /\ panicked = FALSE /\ ncalls = 0

\* The call is over; c is process p now.
End(m, p, c) ==
  /\ free' = m.free
  /\ proc' = [proc EXCEPT ![p] = c]
  /\ panicked' = m.panic
  /\ ncalls' = ncalls + 1

Live(p) == ~panicked /\ ncalls < MaxCalls /\ proc[p].pagetable # NoTable
Lefts   == 0..Cardinality(free)

\* Mutant: a failure of uvmalloc() is not looked at.
growproc_unchecked(p, left, n) ==
  LET m  == Begin(left, proc[p].pagetable, proc[p].sz)
      sz == m.sz + n
      Grown(r) == End(r, p, [Process(r) EXCEPT !.sz = IF r.ok THEN sz ELSE 0]) IN
  /\ Live(p) /\ sz \in 0..MaxSz
  /\ \/ n > 0 /\ Grown(uvmalloc(m, sz))
     \/ n < 0 /\ Grown(uvmdealloc(m, m.sz, sz))

\* growproc(), for sys_sbrk(); a size that would be negative wraps around and changes
\* nothing.
growproc(p, left, n) ==
  LET m  == Begin(left, proc[p].pagetable, proc[p].sz)
      sz == m.sz + n
      Grown(r) == End(r, p, Process(r)) IN
  /\ Live(p) /\ sz \in 0..MaxSz
  /\ \/ n > 0 /\ Grown(uvmalloc(m, sz))
     \/ n < 0 /\ Grown(uvmdealloc(m, m.sz, sz))

\* fork(): the child's memory is a copy, or there is no child.
fork(p, q, left) ==
  LET Child(a) == OrElse(uvmcopy(proc[p].pagetable, a, proc[p].sz),
                         LAMBDA y : freeproc(y, TrapframeOf(a.pt), y.pt, 0))
      Forked(r) == End(r, q, IF r.ok THEN Process(r) ELSE NoProc) IN
  /\ Live(p) /\ proc[q] = NoProc
  /\ Forked(Then(allocproc(Begin(left, NoTable, 0)), Child))

\* wait() frees a child that has exited.  If its status cannot be copied, nothing happens.
reap(q) ==
  /\ Live(q) /\ q # InitProc
  /\ End(freeproc(Begin(0, NoTable, 0), proc[q].trapframe, proc[q].pagetable, proc[q].sz), q, NoProc)

\* loadseg(): the pages the segment is read into must be mapped.
loadseg(m, seg) ==
  LET pages == (seg.va \div PGSIZE)..(PGROUNDUP(seg.va + seg.memsz) - 1) IN
  [m EXCEPT !.panic = @ \/ ~(pages \subseteq DOMAIN m.pt.leaf)]

\* exec() loads a segment: memory up to its end, where the file then goes.  An end
\* of 0 counts as a failure.
LoadSegment(m, seg) ==
  Then(m, LAMBDA x : Then(uvmalloc(x, seg.va + seg.memsz), LAMBDA y :
    [loadseg(y, seg) EXCEPT !.ok = y.sz # 0]))

\* A guard page and a page of stack above the segments.
AddStack(m) ==
  LET base == PGROUNDUP(m.sz) * PGSIZE IN
  Then(uvmalloc([m EXCEPT !.sz = base], base + 2 * PGSIZE), LAMBDA y : uvmclear(y, PGROUNDUP(base)))

\* The arguments, of len bytes in all with the pointers to them, go on the stack.
PushArgs(m, len) ==
  LET sp == m.sz - len IN
  [m EXCEPT !.ok = sp >= m.sz - PGSIZE /\ copyout(m.pt, sp, len).ok]

\* exec() builds a new page table, which m is then, and only gives up the old one when
\* nothing can fail any more.  The program is bad, or cannot be read, after `stop' segments,
\* if there are that many.
exec(m, old, img, stop, len) ==
  LET Load(x) == FoldLeft(LoadSegment, x, SubSeq(img, 1, Min({stop, Len(img)})))
      Bad(x)  == IF stop <= Len(img) THEN Fail(x) ELSE x
      Push(x) == PushArgs(x, len)
      Commit(x) ==
        IF x.ok
        THEN [pt |-> x, sum |-> proc_freepagetable([x EXCEPT !.pt = old.pagetable], old.sz)]
        ELSE [pt |-> x, sum |-> IF x.pt = NoTable THEN x ELSE proc_freepagetable(x, x.sz)] IN
  Commit(Then(Then(Then(Then(proc_pagetable(m, old.trapframe), Load), Bad), AddStack), Push))

\* sys_exec() copies each argument to a page of its own, and frees these pages whether or
\* not exec() succeeds, or is called.  After nargs of them one may be found to be bad.
sys_exec(p, left, img, stop, nargs, fetched, len) ==
  LET args == FoldLeft(LAMBDA x, k : Then(x, kalloc), Begin(left, NoTable, 0), PagesFrom(0, nargs))
      argv == free \ args.free
      Return(r) == End(kfree(r.sum, argv), p, IF r.pt.ok THEN Process(r.pt) ELSE proc[p]) IN
  /\ Live(p)
  /\ IF args.ok /\ fetched THEN Return(exec(args, proc[p], img, stop, len))
                           ELSE End(kfree(args, argv), p, proc[p])

\* What may come of the addresses that p gives for argv[] and for strings, the path's too.
Fetched(p) ==
  {x /\ y : x \in {fetchaddr(proc[p], a) : a \in Addrs},
            y \in {fetchstr(proc[p], a, n) : a \in Addrs, n \in 0..PGSIZE}}

\* The bound is reached.
Done == ncalls = MaxCalls /\ UNCHANGED vars

Next ==
  \/ Done
  \/ \E p \in Procs, left \in Lefts :
    \/ \E n \in -MaxSz..MaxSz : growproc(p, left, n)
    \/ \E q \in Procs : fork(p, q, left)
    \/ \E img \in Images : \E stop \in 0..Len(img) + 1, nargs \in 0..MaxArgs,
                             fetched \in Fetched(p), len \in {Word, PGSIZE + 1} :
         sys_exec(p, left, img, stop, nargs, fetched, len)
    \/ reap(p)

Spec == Init /\ [][Next]_vars

-----------------------------------------------------------------------------
(* Properties.                                                             *)

UserPages(p) == DOMAIN proc[p].pagetable.leaf \ {TRAMPOLINE, TRAPFRAME}

\* Every page of memory is in exactly one place: on the free list, a trapframe, a
\* page of a page table, or mapped at one address of one process.  So nothing is
\* lost, freed twice or shared, wherever kalloc() fails in fork(), exec() or sbrk(),
\* and none of vm.c's panics about page tables is met.
PagesOwned ==
  /\ ~panicked
  /\ \A pg \in Pages :
      Cardinality({p \in Procs : proc[p].trapframe = pg})
      + Cardinality({x \in UNION {{p} \X DOMAIN proc[p].pagetable.nodes : p \in Procs} :
                       proc[x[1]].pagetable.nodes[x[2]] = pg})
      + Cardinality({x \in UNION {{p} \X UserPages(p) : p \in Procs} :
                       proc[x[1]].pagetable.leaf[x[2]].pa = pg})
      + (IF pg \in free THEN 1 ELSE 0) = 1

\* A process can use the pages below its size, and no others: after a failed sbrk()
\* its size is what is mapped, and after a failed exec() it has its old image, with
\* its own trapframe.
SizeIsMapped ==
  \A p \in Procs : proc[p].pagetable # NoTable =>
    /\ UserPages(p) = 0..(PGROUNDUP(proc[p].sz) - 1)
    /\ TrapframeOf(proc[p].pagetable) = proc[p].trapframe

\* Whatever address and length a program gives, copyout() and copyin() reach its own
\* memory only: all of the bytes between them if it can use them all, and otherwise
\* those before the first page that it cannot, such as the guard page, the trapframe
\* or one that was never there.
CopiesInside ==
  \A p \in Procs : proc[p].pagetable # NoTable => \A a \in Addrs, len \in 0..2 * PGSIZE + 1 :
    LET leaf      == proc[p].pagetable.leaf
        PageOf(b) == b \div PGSIZE
        Usable(b) == PageOf(b) \in UserPages(p) /\ leaf[PageOf(b)].user
        good      == {b \in a..(a + len - 1) : \A c \in a..b : Usable(c)}
        copy      == copyout(proc[p].pagetable, a, len) IN
    /\ copy.ok <=> Cardinality(good) = len
    /\ copy.bytes = {<<leaf[PageOf(b)].pa, b % PGSIZE>> : b \in good}
=============================================================================
