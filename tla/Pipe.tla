-------------------------------- MODULE Pipe --------------------------------
(***************************************************************************)
(* kernel/pipe.c, the file table of kernel/file.c and the descriptors of   *)
(* kernel/sysfile.c: pipe(), dup(), read(), write() and close(), the part  *)
(* that fork() and exit() have in them, and kill().                        *)
(*                                                                         *)
(* pi->lock is a variable, since kill() does not take it: a process can be *)
(* killed between two bytes.  A process is single-threaded, so its own     *)
(* descriptors stay what they are during a call.                           *)
(***************************************************************************)
EXTENDS Integers, Sequences, FiniteSets, FiniteSetsExt, Functions

CONSTANTS
  Procs,
  Pages,      \* pages kalloc() can give to pipes
  NFILE,      \* struct file entries
  NOFILE,     \* descriptors of a process
  PIPESIZE,
  Counters,   \* nread and nwrite count modulo this (2^32), a multiple of PIPESIZE
  Count,      \* bytes a read or a write asks for
  Byte,
  None

ASSUME PipeAssumption ==
  /\ NFILE \in Nat \ {0} /\ NOFILE \in Nat \ {0} /\ PIPESIZE \in Nat \ {0} /\ Count \in Nat
  /\ Counters \in Nat /\ Counters % PIPESIZE = 0 /\ Counters > PIPESIZE
  /\ None \notin Pages \cup Procs \cup (1..NFILE) /\ 0 \in Byte /\ IsFiniteSet(Procs)

Files == 1..NFILE
Fds   == 1..NOFILE

VARIABLES
  file,            \* ftable.file: ref, pipe (None: FD_NONE) and writable
  pipe,            \* the pipes: live, data, nread, nwrite, readopen, writeopen, lock
  cut,             \* pipes in which a killed writer left bytes without a wakeup
  alive, killed,
  ofile,           \* p->ofile
  pc, pi, i,       \* per process: where it is, its pipe, bytes done
  new,             \* files of pipealloc() that have no descriptor yet
  closing,         \* files it has to fileclose(), in this order
  ff               \* fileclose()'s copy of a file whose last reference is gone

own  == <<ofile, new, closing, ff>>
vars == <<file, pipe, cut, alive, killed, pc, pi, i, own>>

FreeFile == [ref |-> 0, pipe |-> None, writable |-> FALSE]

\* A pipe without bytes, whose ends are both open or (a free page) both closed.
EmptyPipe(open) ==
  [live |-> open, data |-> [k \in 0..PIPESIZE - 1 |-> 0], nread |-> 0, nwrite |-> 0,
   readopen |-> open, writeopen |-> open, lock |-> None]
FreePipe == EmptyPipe(FALSE)

Points == {"user", "pipe_fds", "write", "w_sleep", "w_asleep", "read", "r_sleep",
           "r_asleep", "copy", "exit"}

TypeOK ==
  /\ file \in [Files -> [ref : Nat, pipe : Pages \cup {None}, writable : BOOLEAN]]
  /\ pipe \in [Pages -> [live : BOOLEAN, data : [0..PIPESIZE - 1 -> Byte], nread : 0..Counters - 1,
                         nwrite : 0..Counters - 1, readopen : BOOLEAN, writeopen : BOOLEAN,
                         lock : Procs \cup {None}]]
  /\ cut \subseteq Pages /\ alive \subseteq Procs /\ killed \subseteq Procs
  /\ ofile \in [Procs -> [Fds -> Files \cup {None}]]
  /\ pc \in [Procs -> Points] /\ pi \in [Procs -> Pages \cup {None}] /\ i \in [Procs -> 0..Count]
  /\ new \in [Procs -> Seq(Files)] /\ closing \in [Procs -> Seq(Files)]
  /\ ff \in [Procs -> [ref : {0}, pipe : Pages \cup {None}, writable : BOOLEAN]]

NoFiles == [d \in Fds |-> None]

\* No process yet.
Init ==
  /\ file = [f \in Files |-> FreeFile]
  /\ pipe = [c \in Pages |-> FreePipe]
  /\ cut = {} /\ killed = {} /\ alive = {}
  /\ ofile = [p \in Procs |-> NoFiles]
  /\ pc = [p \in Procs |-> "user"] /\ pi = [p \in Procs |-> None] /\ i = [p \in Procs |-> 0]
  /\ new = [p \in Procs |-> <<>>] /\ closing = [p \in Procs |-> <<>>]
  /\ ff = [p \in Procs |-> FreeFile]

\* p is at this point, with nothing left to close.
At(p, point) == p \in alive /\ pc[p] = point /\ closing[p] = <<>> /\ ff[p].pipe = None

\* A process that has been killed does not get back to user code.
User(p) == At(p, "user") /\ p \notin killed

Holding(p, f) == {d \in Fds : ofile[p][d] = f}

Open(p) == {d \in Fds : ofile[p][d] # None}
Free(p) == Fds \ Open(p)

\* fdalloc()
fdalloc(of, f) == [of EXCEPT ![Min({d \in Fds : of[d] = None})] = f]

\* filealloc() and filedup(), on the file table.
filealloc(tab)  == Min({f \in Files : tab[f].ref = 0})
filedup(tab, f) == [tab EXCEPT ![f].ref = @ + 1]

Goto(p, point) == pc' = [pc EXCEPT ![p] = point]

-----------------------------------------------------------------------------
(* sys_pipe()                                                              *)

\* pipealloc(): two files and a page, or none of them.
pipealloc(p) ==
  LET f0 == filealloc(file)
      f1 == filealloc([file EXCEPT ![f0].ref = 1]) IN
  /\ User(p) /\ Cardinality({f \in Files : file[f].ref = 0}) >= 2
  /\ \E c \in Pages :
       /\ ~pipe[c].live
       /\ pipe' = [pipe EXCEPT ![c] = EmptyPipe(TRUE)]
       /\ cut' = cut \ {c}
       /\ file' = [file EXCEPT ![f0] = [ref |-> 1, pipe |-> c, writable |-> FALSE],
                               ![f1] = [ref |-> 1, pipe |-> c, writable |-> TRUE]]
  /\ new' = [new EXCEPT ![p] = <<f0, f1>>]
  /\ Goto(p, "pipe_fds")
  /\ UNCHANGED <<alive, killed, pi, i, ofile, closing, ff>>

\* Mutant: after a failed copyout() the first descriptor stays.
pipe_fds_stay(p) ==
  /\ At(p, "pipe_fds")
  /\ new' = [new EXCEPT ![p] = <<>>]
  /\ \/ /\ Cardinality(Free(p)) >= 2
        /\ ofile' = [ofile EXCEPT ![p] = fdalloc(fdalloc(@, new[p][1]), new[p][2])]
        /\ UNCHANGED closing
     \/ /\ Cardinality(Free(p)) >= 2
        /\ ofile' = [ofile EXCEPT ![p] = fdalloc(@, new[p][1])]
        /\ closing' = [closing EXCEPT ![p] = new[p]]
  /\ Goto(p, "user")
  /\ UNCHANGED <<file, pipe, cut, alive, killed, pi, i, ff>>

\* Two descriptors, whose numbers are copied to the program.  If there are not two,
\* or the copy fails, the ones taken are given back and the files closed.
pipe_fds(p) ==
  /\ At(p, "pipe_fds")
  /\ new' = [new EXCEPT ![p] = <<>>]
  /\ \/ /\ Cardinality(Free(p)) >= 2
        /\ ofile' = [ofile EXCEPT ![p] = fdalloc(fdalloc(@, new[p][1]), new[p][2])]
        /\ UNCHANGED closing
     \/ closing' = [closing EXCEPT ![p] = new[p]] /\ UNCHANGED ofile
  /\ Goto(p, "user")
  /\ UNCHANGED <<file, pipe, cut, alive, killed, pi, i, ff>>

-----------------------------------------------------------------------------
(* Descriptors.                                                            *)

sys_dup(p, d) ==
  /\ User(p) /\ d \in Open(p) /\ Free(p) # {}
  /\ ofile' = [ofile EXCEPT ![p] = fdalloc(@, ofile[p][d])]
  /\ file' = filedup(file, ofile[p][d])
  /\ UNCHANGED <<pipe, cut, alive, killed, pc, pi, i, new, closing, ff>>

sys_close(p, d) ==
  /\ User(p) /\ d \in Open(p)
  /\ ofile' = [ofile EXCEPT ![p][d] = None]
  /\ closing' = [closing EXCEPT ![p] = <<ofile[p][d]>>]
  /\ UNCHANGED <<file, pipe, cut, alive, killed, pc, pi, i, new, ff>>

\* fork(): the child has the same descriptors.
fork(p, q) ==
  /\ User(p) /\ q \notin alive
  /\ alive' = alive \cup {q}
  /\ ofile' = [ofile EXCEPT ![q] = ofile[p]]
  /\ file' = [f \in Files |-> [file[f] EXCEPT !.ref = @ + Cardinality(Holding(p, f))]]
  /\ UNCHANGED <<pipe, cut, killed, pc, pi, i, new, closing, ff>>

\* init starts a program: a process without pipes.
start(q) ==
  /\ q \notin alive
  /\ alive' = alive \cup {q}
  /\ UNCHANGED <<file, pipe, cut, killed, pc, pi, i, own>>

\* exit(): no call comes after it, but its own closes.
exit(p) ==
  /\ At(p, "user")
  /\ Goto(p, "exit")
  /\ UNCHANGED <<file, pipe, cut, alive, killed, pi, i, own>>

\* Every open file is closed, in the order of the descriptors.
exit_close(p) ==
  LET d == Min(Open(p)) IN
  /\ At(p, "exit") /\ Open(p) # {}
  /\ ofile' = [ofile EXCEPT ![p][d] = None]
  /\ closing' = [closing EXCEPT ![p] = <<ofile[p][d]>>]
  /\ UNCHANGED <<file, pipe, cut, alive, killed, pc, pi, i, new, ff>>

\* The process is a zombie; its slot is used again when the parent has waited.
exit_end(p) ==
  /\ At(p, "exit") /\ Open(p) = {}
  /\ Goto(p, "user")
  /\ alive' = alive \ {p} /\ killed' = killed \ {p}
  /\ UNCHANGED <<file, pipe, cut, pi, i, own>>

\* kill(), by any other process: the victim no longer sleeps.
kill(q) ==
  /\ q \in alive
  /\ killed' = killed \cup {q}
  /\ pc' = [pc EXCEPT ![q] = CASE @ = "r_asleep" -> "read" [] @ = "w_asleep" -> "write" [] OTHER -> @]
  /\ UNCHANGED <<file, pipe, cut, alive, pi, i, own>>

\* Mutant: the pipe is not told that its last file is gone.
fileclose_quiet(p) ==
  LET f == Head(closing[p]) IN
  /\ closing[p] # <<>> /\ ff[p].pipe = None
  /\ closing' = [closing EXCEPT ![p] = Tail(@)]
  /\ file' = [file EXCEPT ![f] = IF @.ref > 1 THEN [@ EXCEPT !.ref = @ - 1] ELSE FreeFile]
  /\ UNCHANGED <<pipe, cut, alive, killed, pc, pi, i, ofile, new, ff>>

\* fileclose(): the last reference frees the entry before the pipe is told.
fileclose(p) ==
  LET f == Head(closing[p]) IN
  /\ closing[p] # <<>> /\ ff[p].pipe = None
  /\ closing' = [closing EXCEPT ![p] = Tail(@)]
  /\ IF file[f].ref > 1
     THEN file' = [file EXCEPT ![f].ref = @ - 1] /\ UNCHANGED ff
     ELSE /\ file' = [file EXCEPT ![f] = FreeFile]
          /\ ff' = [ff EXCEPT ![p] = [file[f] EXCEPT !.ref = 0]]
  /\ UNCHANGED <<pipe, cut, alive, killed, pc, pi, i, ofile, new>>

-----------------------------------------------------------------------------
(* Pipes.                                                                  *)

\* wakeup(&pi->nread) and wakeup(&pi->nwrite), on what p's own step makes of pc.
Wakeup(c, asleep, awake, f) ==
  [q \in Procs |-> IF f[q] = asleep /\ pi[q] = c THEN awake ELSE f[q]]
WakeReaders(c, f) == Wakeup(c, "r_asleep", "read", f)
WakeWriters(c, f) == Wakeup(c, "w_asleep", "write", f)

Empty(c) == pipe[c].nread = pipe[c].nwrite

\* Mutant: one byte too many.
FullLate(c) == pipe[c].nwrite = (pipe[c].nread + PIPESIZE + 1) % Counters

Full(c) == pipe[c].nwrite = (pipe[c].nread + PIPESIZE) % Counters

\* p holds pi->lock or can take it.
Locks(p) == pipe[pi[p]].lock \in {p, None}

pipeclose(p) ==
  LET c == ff[p].pipe
      w == ff[p].writable
      e == [pipe[c] EXCEPT !.readopen = @ /\ w, !.writeopen = @ /\ ~w] IN
  /\ c # None /\ pipe[c].lock = None
  /\ pc' = IF w THEN WakeReaders(c, pc) ELSE WakeWriters(c, pc)
  /\ pipe' = [pipe EXCEPT ![c] = IF e.readopen \/ e.writeopen THEN e ELSE FreePipe]
  /\ ff' = [ff EXCEPT ![p] = FreeFile]
  /\ UNCHANGED <<file, cut, alive, killed, pi, i, ofile, new, closing>>

\* read() or write() of a descriptor for that end of a pipe; i = 0.
Call(p, d, point) ==
  /\ User(p) /\ d \in Open(p)
  /\ file[ofile[p][d]].writable = (point = "write")
  /\ Goto(p, point)
  /\ pi' = [pi EXCEPT ![p] = file[ofile[p][d]].pipe]
  /\ UNCHANGED <<file, pipe, cut, alive, killed, i, own>>

sys_read(p, d)  == Call(p, d, "read")
sys_write(p, d) == Call(p, d, "write")

\* pi->lock is released and the call returns; f is what it makes of pc.
Return(p, f) ==
  /\ pc' = [f EXCEPT ![p] = "user"]
  /\ pipe' = [pipe EXCEPT ![pi[p]].lock = None]
  /\ pi' = [pi EXCEPT ![p] = None] /\ i' = [i EXCEPT ![p] = 0]

\* pipewrite(), one turn of its loop: the reader is gone or the writer killed; the
\* pipe is full; a byte is copied, or cannot be; all bytes are written.
pipewrite_return(p) ==
  /\ At(p, "write") /\ Locks(p) /\ i[p] < Count
  /\ ~pipe[pi[p]].readopen \/ p \in killed
  /\ Return(p, pc)
  /\ cut' = IF i[p] > 0 THEN cut \cup {pi[p]} ELSE cut
  /\ UNCHANGED <<file, alive, killed, own>>

\* Mutant: the readers are not woken.
pipewrite_full_quiet(p) ==
  /\ At(p, "write") /\ Locks(p) /\ i[p] < Count
  /\ pipe[pi[p]].readopen /\ p \notin killed /\ Full(pi[p])
  /\ pc' = [pc EXCEPT ![p] = "w_sleep"]
  /\ pipe' = [pipe EXCEPT ![pi[p]].lock = p]
  /\ UNCHANGED <<file, cut, alive, killed, pi, i, own>>

pipewrite_full(p) ==
  /\ At(p, "write") /\ Locks(p) /\ i[p] < Count
  /\ pipe[pi[p]].readopen /\ p \notin killed /\ Full(pi[p])
  /\ pc' = WakeReaders(pi[p], [pc EXCEPT ![p] = "w_sleep"])
  /\ pipe' = [pipe EXCEPT ![pi[p]].lock = p]
  /\ UNCHANGED <<file, cut, alive, killed, pi, i, own>>

\* sleep(&pi->nwrite, &pi->lock), sleep(&pi->nread, &pi->lock)
sleep(p) ==
  /\ pc[p] \in {"w_sleep", "r_sleep"}
  /\ Goto(p, IF pc[p] = "w_sleep" THEN "w_asleep" ELSE "r_asleep")
  /\ pipe' = [pipe EXCEPT ![pi[p]].lock = None]
  /\ UNCHANGED <<file, cut, alive, killed, pi, i, own>>

pipewrite_byte(p) ==
  LET w == pipe[pi[p]].nwrite IN
  /\ At(p, "write") /\ Locks(p) /\ i[p] < Count
  /\ pipe[pi[p]].readopen /\ p \notin killed /\ ~Full(pi[p])
  /\ \E ch \in Byte :
       pipe' = [pipe EXCEPT ![pi[p]].data[w % PIPESIZE] = ch,
                            ![pi[p]].nwrite = (w + 1) % Counters, ![pi[p]].lock = p]
  /\ i' = [i EXCEPT ![p] = @ + 1]
  /\ UNCHANGED <<file, cut, alive, killed, pc, pi, own>>

\* The loop ends: all is written, or copyin() fails.
pipewrite_end(p) ==
  /\ At(p, "write") /\ Locks(p)
  /\ i[p] = Count \/ (pipe[pi[p]].readopen /\ p \notin killed /\ ~Full(pi[p]))
  /\ Return(p, WakeReaders(pi[p], pc))
  /\ UNCHANGED <<file, cut, alive, killed, own>>

\* piperead(): nothing to read, and there can be more.
piperead_wait(p) ==
  /\ At(p, "read") /\ Locks(p)
  /\ Empty(pi[p]) /\ pipe[pi[p]].writeopen
  /\ IF p \in killed
     THEN Return(p, pc)
     ELSE /\ Goto(p, "r_sleep")
          /\ pipe' = [pipe EXCEPT ![pi[p]].lock = p]
          /\ UNCHANGED <<pi, i>>
  /\ UNCHANGED <<file, cut, alive, killed, own>>

piperead_go(p) ==
  /\ At(p, "read") /\ Locks(p)
  /\ ~(Empty(pi[p]) /\ pipe[pi[p]].writeopen)
  /\ Goto(p, "copy")
  /\ pipe' = [pipe EXCEPT ![pi[p]].lock = p]
  /\ UNCHANGED <<file, cut, alive, killed, pi, i, own>>

\* A byte is taken and copied to the program.
piperead_byte(p) ==
  /\ At(p, "copy") /\ i[p] < Count /\ ~Empty(pi[p])
  /\ pipe' = [pipe EXCEPT ![pi[p]].nread = (@ + 1) % Counters]
  /\ i' = [i EXCEPT ![p] = @ + 1]
  /\ UNCHANGED <<file, cut, alive, killed, pc, pi, own>>

\* All are read, or none is left, or copyout() of the last one taken failed.
piperead_end(p) ==
  /\ At(p, "copy")
  /\ i[p] > 0 \/ i[p] = Count \/ Empty(pi[p])
  /\ Return(p, WakeWriters(pi[p], pc))
  /\ UNCHANGED <<file, cut, alive, killed, own>>

-----------------------------------------------------------------------------
Next ==
  \E p \in Procs :
    \/ pipealloc(p) \/ pipe_fds(p) \/ fileclose(p) \/ pipeclose(p)
    \/ start(p) \/ exit(p) \/ exit_close(p) \/ exit_end(p) \/ kill(p) \/ sleep(p)
    \/ pipewrite_return(p) \/ pipewrite_full(p) \/ pipewrite_byte(p) \/ pipewrite_end(p)
    \/ piperead_wait(p) \/ piperead_go(p) \/ piperead_byte(p) \/ piperead_end(p)
    \/ \E d \in Fds : sys_dup(p, d) \/ sys_close(p, d) \/ sys_read(p, d) \/ sys_write(p, d)
    \/ \E q \in Procs : fork(p, q)

Spec == Init /\ [][Next]_vars

-----------------------------------------------------------------------------
(* Properties.                                                             *)

\* A file's reference count is the number of descriptors, in all processes, and of
\* files about to be given one or to be closed: dup(), fork(), the failures of
\* pipe() and the closes of exit() all keep it, and an entry is free exactly when
\* it is 0.
FileRefs ==
  \A f \in Files :
    file[f].ref = Cardinality({x \in Procs \X Fds : ofile[x[1]][x[2]] = f})
                  + Cardinality({p \in Procs : f \in Range(new[p] \o closing[p])})

\* An end of a pipe is open exactly as long as there is a file for it or a close()
\* on its way to the pipe.  So a pipe is freed once, and when nobody can reach it:
\* no process reads, writes or sleeps in a pipe that is gone.
EndOpen(c, w) ==
  \/ \E f \in Files : file[f].ref > 0 /\ file[f].pipe = c /\ file[f].writable = w
  \/ \E p \in Procs : ff[p].pipe = c /\ ff[p].writable = w

PipeEnds ==
  /\ \A c \in Pages : /\ pipe[c].readopen = EndOpen(c, FALSE)
                      /\ pipe[c].writeopen = EndOpen(c, TRUE)
                      /\ pipe[c].live = (EndOpen(c, FALSE) \/ EndOpen(c, TRUE))
  /\ \A p \in Procs : pi[p] # None => pipe[pi[p]].live

\* No wakeup is lost: who sleeps in a pipe has a reason to.  The exception is a
\* writer that is killed between two bytes, which returns without wakeup(): in such
\* a pipe a reader may sleep over the bytes it left.
NoLostWakeup ==
  \A p \in Procs :
    /\ pc[p] = "r_asleep" => pipe[pi[p]].writeopen /\ (Empty(pi[p]) \/ pi[p] \in cut
                             \/ pipe[pi[p]].lock # None)
    /\ pc[p] = "w_asleep" => pipe[pi[p]].readopen /\ (Full(pi[p]) \/ pipe[pi[p]].lock # None)

\* Reading and writing through the ring of PIPESIZE bytes, with counters that wrap
\* around, is a queue with two ends.
Contents(c) ==
  [k \in 1..((pipe[c].nwrite - pipe[c].nread) % Counters) |->
     pipe[c].data[(pipe[c].nread + k - 1) % PIPESIZE]]

Queue == INSTANCE Channel WITH
  Size <- PIPESIZE,
  q    <- [c \in Pages |-> Contents(c)],
  open <- [c \in Pages |-> (IF pipe[c].readopen THEN {"r"} ELSE {})
                           \cup (IF pipe[c].writeopen THEN {"w"} ELSE {})]

IsChannel == Queue!Spec
=============================================================================
