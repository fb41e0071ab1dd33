-------------------------------- MODULE Mem --------------------------------
(***************************************************************************)
(* User memory: the page allocator (kalloc.c), the three-level page tables *)
(* (vm.c) and the calls that build, grow, copy and free address spaces:    *)
(* fork() and freeproc() (proc.c), exec() (exec.c, sysfile.c) and sbrk()   *)
(* (sysproc.c, proc.c).                                                    *)
(*                                                                         *)
(* Every kalloc() is a step of its own, so that the other processes can    *)
(* take the last page between any two of them: each call can fail at each  *)
(* of its allocations.  The kfree()s of one undo or of one freed address   *)
(* space are one step.  Pages are interchangeable, so kmem.freelist is the *)
(* number of free pages, and an address space is the set of its table      *)
(* pages (named by the indices that lead to them) with the leaves mapped.  *)
(* Addresses are in units of a page, sizes in bytes.                       *)
(***************************************************************************)
EXTENDS Integers, Sequences, FiniteSets, FiniteSetsExt

CONSTANTS Proc, InitProc,
          NPAGE,      \* pages kinit() gives the allocator
          PGSIZE,     \* bytes of a page
          RADIX,      \* entries of a page-table page (512)
          MAXVA,      \* pages of address space; more than NPAGE + 2
          UINT,       \* 2^32: growproc() computes sizes in a uint
          Grow,       \* the arguments of sbrk()
          MAXARG,     \* arguments of exec(), one kernel page each
          Progs       \* the programs exec() loads: sequences of segments

VARIABLES nfree,      \* length of kmem.freelist
          tf,         \* processes whose trapframe page is allocated
          pt,         \* <<p,"cur">>: p->pagetable and p->sz; <<p,"new">>: exec()'s
          live,       \* processes that fork() or userinit() has completed
          th,         \* what each process is doing in the kernel
          panicked    \* uvmunmap(), mappages() or freewalk() has panicked

vars == <<nfree, tf, pt, live, th, panicked>>

Cur(p) == <<p, "cur">>
New(p) == <<p, "new">>
TRAMPOLINE == MAXVA - 1
TRAPFRAME == MAXVA - 2
High == {TRAMPOLINE, TRAPFRAME}

\* PGROUNDUP(sz) / PGSIZE.
PgCount(sz) == (sz + PGSIZE - 1) \div PGSIZE

(* pagetable == 0, or no process. *)
NoTable == [tabs |-> {}, leaf |-> [v \in {} |-> "user"], sz |-> 0]

Idle == [call |-> "none", pc |-> "idle", t |-> <<>>, from |-> 0, a |-> 0,
         newsz |-> 0, segs |-> <<>>, argv |-> 0]

(* The pages an address space owns: its tables and its user leaves.  The   *)
(* trampoline is kernel text and the trapframe belongs to the process.     *)
Owned(t) == Cardinality(t.tabs) + Cardinality(DOMAIN t.leaf \ High)

PX(level, va) == (va \div RADIX^level) % RADIX

(* walk(): the tables on the way to va, and the one it allocates next.     *)
Walkable(t, va) == <<PX(2, va), PX(1, va)>> \in t.tabs
NextTable(t, va) == IF <<PX(2, va)>> \in t.tabs THEN <<PX(2, va), PX(1, va)>>
                                                ELSE <<PX(2, va)>>

WithLeaf(t, va, perm) ==
  [t EXCEPT !.leaf = [v \in DOMAIN t.leaf \cup {va} |->
                        IF v = va THEN perm ELSE t.leaf[v]]]
WithTable(t, va) == [t EXCEPT !.tabs = @ \cup {NextTable(t, va)}]

\* uvmunmap(), which panics unless every page is mapped.
Unmap(t, vs) == [t EXCEPT !.leaf = [v \in DOMAIN t.leaf \ vs |-> t.leaf[v]]]
UnmapPanics(t, vs) == ~ (vs \subseteq DOMAIN t.leaf)

(* proc_freepagetable(t, sz): unmap the two high pages and the sz bytes    *)
(* of user memory, then freewalk(), which panics on a leaf left behind.    *)
FreePanics(t, sz) == DOMAIN t.leaf # High \cup 0..PgCount(sz)-1
-----------------------------------------------------------------------------
(* Boot: userinit() with uvminit()'s one page. *)
InitTable ==
  [tabs |-> {<<>>} \cup {<<PX(2, v)>> : v \in High \cup {0}}
              \cup {<<PX(2, v), PX(1, v)>> : v \in High \cup {0}},
   leaf |-> [v \in High \cup {0} |-> IF v = 0 THEN "user" ELSE "kernel"],
   sz |-> PGSIZE]

Init ==
  /\ nfree = NPAGE - Owned(InitTable) - 1
  /\ tf = {InitProc}
  /\ pt = [s \in Proc \X {"cur", "new"} |->
             IF s = Cur(InitProc) THEN InitTable ELSE NoTable]
  /\ live = {InitProc}
  /\ th = [p \in Proc |-> Idle]
  /\ panicked = FALSE

(* A process in user space: a process whose memory is gone faults.         *)
Runs(p) == p \in live /\ th[p] = Idle /\ pt[Cur(p)].sz > 0

Goto(p, pc) == th' = [th EXCEPT ![p].pc = pc]
Set(s, t) == pt' = [pt EXCEPT ![s] = t]

(* kalloc() in process p: on success the step goes on, with an empty list  *)
(* it goes to the caller's error path.                                     *)
Kalloc == nfree > 0 /\ nfree' = nfree - 1

(* n calls of kfree(). *)
Kfree(n) == nfree' = nfree + n
-----------------------------------------------------------------------------
(* proc_pagetable(): the root, then the tables and the leaves of the       *)
(* trampoline and of the trapframe; any failure frees what was built.      *)
After(p) == IF th[p].call = "fork" THEN "grow" ELSE "seg"

Root(p) ==
  /\ th[p].pc = "root" /\ Kalloc
  /\ Set(th[p].t, [NoTable EXCEPT !.tabs = {<<>>}])
  /\ Goto(p, "high")
  /\ UNCHANGED <<tf, live, panicked>>

HighVa(t) == IF TRAMPOLINE \in DOMAIN t.leaf THEN TRAPFRAME ELSE TRAMPOLINE

MapHigh(p) ==
  LET t == pt[th[p].t]  va == HighVa(t) IN
  /\ th[p].pc = "high"
  /\ \/ /\ ~Walkable(t, va) /\ Kalloc
        /\ Set(th[p].t, WithTable(t, va))
        /\ UNCHANGED th
     \/ /\ Walkable(t, va)
        /\ Set(th[p].t, WithLeaf(t, va, "kernel"))
        /\ Goto(p, IF va = TRAPFRAME THEN After(p) ELSE "high")
        /\ UNCHANGED nfree
  /\ UNCHANGED <<tf, live, panicked>>

PagetableFails(p) ==
  LET t == pt[th[p].t] IN
  /\ nfree = 0
  /\ \/ th[p].pc = "root"
     \/ th[p].pc = "high" /\ ~Walkable(t, HighVa(t))
  /\ Kfree(Owned(t))
  /\ Set(th[p].t, NoTable)
  /\ Goto(p, "fails")
  /\ UNCHANGED <<tf, live, panicked>>
-----------------------------------------------------------------------------
(* The loop of uvmalloc() and of uvmcopy(): a page, its mapping with the   *)
(* tables on the way, and the next address, until th.newsz is covered.     *)
GrowPage(p) ==
  /\ th[p].pc = "grow" /\ th[p].a < PgCount(th[p].newsz) /\ Kalloc
  /\ Goto(p, "map")
  /\ UNCHANGED <<tf, pt, live, panicked>>

Perm(p) == IF th[p].call = "fork" THEN pt[Cur(p)].leaf[th[p].a] ELSE "user"

GrowMap(p) ==
  LET t == pt[th[p].t]  a == th[p].a IN
  /\ th[p].pc = "map"
  /\ \/ /\ ~Walkable(t, a) /\ Kalloc
        /\ Set(th[p].t, WithTable(t, a))
        /\ UNCHANGED <<th, panicked>>
     \/ /\ Walkable(t, a)
        /\ panicked' = (panicked \/ a \in DOMAIN t.leaf)
        /\ Set(th[p].t, WithLeaf(t, a, Perm(p)))
        /\ th' = [th EXCEPT ![p].a = a + 1, ![p].pc = "grow"]
        /\ UNCHANGED nfree
  /\ UNCHANGED <<tf, live>>

Undone(p) == th[p].from .. th[p].a - 1
InHand(p) == IF th[p].pc = "map" THEN 1 ELSE 0

\* Mutant: the page that could not be mapped is not given back.
UndoFreesMapped(p) == Cardinality(Undone(p))

UndoFrees(p) == InHand(p) + Cardinality(Undone(p))

(* No page, or no table for it: kfree(mem), then uvmdealloc() or the err   *)
(* label of uvmcopy() takes back what this call has mapped.                *)
GrowFails(p) ==
  LET t == pt[th[p].t] IN
  /\ nfree = 0
  /\ \/ th[p].pc = "grow" /\ th[p].a < PgCount(th[p].newsz)
     \/ th[p].pc = "map" /\ ~Walkable(t, th[p].a)
  /\ Kfree(UndoFrees(p))
  /\ panicked' = (panicked \/ UnmapPanics(t, Undone(p)))
  /\ Set(th[p].t, Unmap(t, Undone(p)))
  /\ Goto(p, "fails")
  /\ UNCHANGED <<tf, live>>

Grown(p, call) ==
  /\ th[p].call = call /\ th[p].pc = "grow" /\ th[p].a >= PgCount(th[p].newsz)
-----------------------------------------------------------------------------
(* sys_sbrk() and growproc(): sz + n is a uint, and uvmdealloc() and       *)
(* uvmalloc() ignore a new size on the wrong side of the old one.  The     *)
(* first process, which may not exit, keeps some of its memory.            *)
Sbrk(p, n) ==
  LET t == pt[Cur(p)]
      newsz == (t.sz + n) % UINT
      gone == PgCount(newsz) .. PgCount(t.sz) - 1
  IN
  /\ Runs(p)
  /\ \/ /\ n > 0 /\ newsz > t.sz
        /\ th' = [th EXCEPT ![p] = [Idle EXCEPT !.call = "sbrk", !.pc = "grow",
                    !.t = Cur(p), !.from = PgCount(t.sz), !.a = PgCount(t.sz),
                    !.newsz = newsz]]
        /\ UNCHANGED <<nfree, pt, panicked>>
     \/ /\ n < 0 /\ newsz < t.sz /\ (p = InitProc => newsz > 0)
        /\ panicked' = (panicked \/ UnmapPanics(t, gone))
        /\ Kfree(Cardinality(gone))
        /\ Set(Cur(p), [Unmap(t, gone) EXCEPT !.sz = newsz])
        /\ UNCHANGED th
  /\ UNCHANGED <<tf, live>>

SbrkDone(p) ==
  /\ Grown(p, "sbrk")
  /\ pt' = [pt EXCEPT ![Cur(p)].sz = th[p].newsz]
  /\ th' = [th EXCEPT ![p] = Idle]
  /\ UNCHANGED <<nfree, tf, live, panicked>>

\* Mutant: p->sz is set although uvmalloc() failed.
SbrkFailsGrown(p) ==
  /\ th[p].call = "sbrk" /\ th[p].pc = "fails"
  /\ pt' = [pt EXCEPT ![Cur(p)].sz = th[p].newsz]
  /\ th' = [th EXCEPT ![p] = Idle]
  /\ UNCHANGED <<nfree, tf, live, panicked>>

SbrkFails(p) ==
  /\ th[p].call = "sbrk" /\ th[p].pc = "fails"
  /\ th' = [th EXCEPT ![p] = Idle]
  /\ UNCHANGED <<nfree, tf, pt, live, panicked>>
-----------------------------------------------------------------------------
(* fork(): allocproc() takes an UNUSED slot and its trapframe page, builds *)
(* the page table and uvmcopy() copies the parent's memory.                *)
Unused(c) == c \notin live /\ \A q \in Proc : th[q].t # Cur(c)

Fork(p, c) ==
  /\ Runs(p) /\ Unused(c)
  /\ \/ /\ Kalloc
        /\ tf' = tf \cup {c}
        /\ th' = [th EXCEPT ![p] = [Idle EXCEPT !.call = "fork", !.pc = "root",
                    !.t = Cur(c), !.newsz = pt[Cur(p)].sz]]
     \/ nfree = 0 /\ UNCHANGED <<nfree, tf, th>>
  /\ UNCHANGED <<pt, live, panicked>>

ForkDone(p) ==
  /\ Grown(p, "fork")
  /\ pt' = [pt EXCEPT ![th[p].t].sz = th[p].newsz]
  /\ live' = live \cup {th[p].t[1]}
  /\ th' = [th EXCEPT ![p] = Idle]
  /\ UNCHANGED <<nfree, tf, panicked>>

(* freeproc(c): the trapframe, then proc_freepagetable() when there is one.*)
FreeProc(c) ==
  LET t == pt[Cur(c)] IN
  /\ tf' = tf \ {c}
  /\ panicked' = (panicked \/ (t.tabs # {} /\ FreePanics(t, t.sz)))
  /\ Kfree(Cardinality(tf \cap {c}) + Owned(t))
  /\ Set(Cur(c), NoTable)

ForkFails(p) ==
  /\ th[p].call = "fork" /\ th[p].pc = "fails"
  /\ FreeProc(th[p].t[1])
  /\ th' = [th EXCEPT ![p] = Idle]
  /\ UNCHANGED live

(* exit() and the parent's wait(), which calls freeproc().                 *)
Reap(c) ==
  /\ c \in live /\ th[c] = Idle /\ c # InitProc
  /\ FreeProc(c)
  /\ live' = live \ {c}
  /\ UNCHANGED th
-----------------------------------------------------------------------------
(* sys_exec(): a kernel page for each argument, freed on both returns.     *)
Exec(p, prog) ==
  /\ Runs(p)
  /\ th' = [th EXCEPT ![p] = [Idle EXCEPT !.call = "exec", !.pc = "argv",
              !.t = New(p), !.segs = prog]]
  /\ UNCHANGED <<nfree, tf, pt, live, panicked>>

ExecArg(p) ==
  /\ th[p].pc = "argv" /\ th[p].argv < MAXARG
  /\ \/ /\ Kalloc
        /\ th' = [th EXCEPT ![p].argv = @ + 1]
     \/ nfree = 0 /\ Goto(p, "fails") /\ UNCHANGED nfree
  /\ UNCHANGED <<tf, pt, live, panicked>>

(* exec() finds the file and its header good, or goes to bad before it has *)
(* a page table.                                                           *)
ExecHeader(p) ==
  /\ th[p].pc = "argv"
  /\ \E pc \in {"root", "fails"} : Goto(p, pc)
  /\ UNCHANGED <<nfree, tf, pt, live, panicked>>

(* One program header: the checks, then uvmalloc(pagetable, sz, vaddr +    *)
(* memsz), which leaves a larger sz alone and whose result 0 is an error.  *)
(* A header that cannot be read, or whose sum overflows, ends in the same  *)
(* way as one that fails the first check.                                  *)
ExecSeg(p) ==
  LET s == Head(th[p].segs)  t == pt[New(p)]  end == s.vaddr + s.memsz IN
  /\ th[p].pc = "seg" /\ th[p].segs # <<>>
  /\ IF s.memsz < s.filesz \/ (end = 0 /\ t.sz = 0)
     THEN Goto(p, "fails")
     ELSE th' = [th EXCEPT ![p].pc = "grow", ![p].from = PgCount(t.sz),
                           ![p].a = PgCount(t.sz),
                           ![p].newsz = IF end < t.sz THEN t.sz ELSE end]
  /\ UNCHANGED <<nfree, tf, pt, live, panicked>>

(* loadseg() panics on an address walkaddr() does not find; readi() may    *)
(* come short.                                                             *)
ExecLoad(p) ==
  LET s == Head(th[p].segs)  t == pt[New(p)]
      v0 == s.vaddr \div PGSIZE
      to == v0 .. v0 + PgCount(s.filesz) - 1
  IN
  /\ Grown(p, "exec") /\ th[p].segs # <<>>
  /\ Set(New(p), [t EXCEPT !.sz = th[p].newsz])
  /\ IF s.vaddr % PGSIZE # 0
     THEN Goto(p, "fails") /\ UNCHANGED panicked
     ELSE /\ panicked' = (panicked \/ \E v \in to : v \notin DOMAIN t.leaf)
          /\ \/ th' = [th EXCEPT ![p].pc = "seg", ![p].segs = Tail(@)]
             \/ to # {} /\ Goto(p, "fails")
  /\ UNCHANGED <<nfree, tf, live>>

(* Two more pages at the next page boundary, the guard and the stack.      *)
ExecStack(p) ==
  LET n == PgCount(pt[New(p)].sz) IN
  /\ th[p].pc = "seg" /\ th[p].segs = <<>>
  /\ pt' = [pt EXCEPT ![New(p)].sz = n * PGSIZE]
  /\ th' = [th EXCEPT ![p].pc = "grow", ![p].from = n, ![p].a = n,
                      ![p].newsz = (n + 2) * PGSIZE]
  /\ UNCHANGED <<nfree, tf, live, panicked>>

\* oldsz, read before the image is replaced.
OldSz(p) == pt[Cur(p)].sz

(* uvmclear() the guard; the arguments fit, and the new image replaces the *)
(* old one, which is freed with its own size; or they do not: bad.         *)
ExecDone(p) ==
  LET t == WithLeaf([pt[New(p)] EXCEPT !.sz = th[p].newsz],
                    PgCount(th[p].newsz) - 2, "guard")
      old == pt[Cur(p)]
  IN
  /\ Grown(p, "exec") /\ th[p].segs = <<>>
  /\ \/ /\ pt' = [pt EXCEPT ![Cur(p)] = t, ![New(p)] = NoTable]
        /\ panicked' = (panicked \/ FreePanics(old, OldSz(p)))
        /\ Kfree(Owned(old) + th[p].argv)
        /\ th' = [th EXCEPT ![p] = Idle]
     \/ /\ Set(New(p), t)
        /\ Goto(p, "fails")
        /\ UNCHANGED <<nfree, panicked>>
  /\ UNCHANGED <<tf, live>>

(* The label bad, and sys_exec()'s loop over argv.                         *)
ExecFails(p) ==
  LET t == pt[New(p)] IN
  /\ th[p].call = "exec" /\ th[p].pc = "fails"
  /\ panicked' = (panicked \/ (t.tabs # {} /\ FreePanics(t, t.sz)))
  /\ Kfree(Owned(t) + th[p].argv)
  /\ Set(New(p), NoTable)
  /\ th' = [th EXCEPT ![p] = Idle]
  /\ UNCHANGED <<tf, live>>
-----------------------------------------------------------------------------
Next ==
  \E p \in Proc :
    \/ Root(p) \/ MapHigh(p) \/ PagetableFails(p)
    \/ GrowPage(p) \/ GrowMap(p) \/ GrowFails(p)
    \/ \E n \in Grow : Sbrk(p, n)
    \/ SbrkDone(p) \/ SbrkFails(p)
    \/ \E c \in Proc : Fork(p, c)
    \/ ForkDone(p) \/ ForkFails(p) \/ Reap(p)
    \/ \E prog \in Progs : Exec(p, prog)
    \/ ExecArg(p) \/ ExecHeader(p) \/ ExecSeg(p) \/ ExecLoad(p)
    \/ ExecStack(p) \/ ExecDone(p) \/ ExecFails(p)

Spec == Init /\ [][Next]_vars
-----------------------------------------------------------------------------

(* walkaddr() and the loops of copyout() and copyin(): copy n bytes at va, *)
(* page by page, until an address without a user mapping.  The result is   *)
(* how many bytes were copied; the call succeeds when that is n.           *)
Walkaddr(t, page) ==
  page < MAXVA /\ Walkable(t, page) /\ page \in DOMAIN t.leaf /\ t.leaf[page] = "user"

Copied(t, va, n) ==
  LET done[k \in 0..n] ==          \* k bytes are still to be copied
        LET page == (va + n - k) \div PGSIZE
            inPage == PGSIZE - ((va + n - k) % PGSIZE)
            m == IF inPage > k THEN k ELSE inPage
        IN IF k = 0 \/ ~Walkaddr(t, page) THEN n - k ELSE done[k - m]
  IN done[n]
-----------------------------------------------------------------------------
(* No page is lost and none is freed twice: whatever call fails at         *)
(* whatever allocation, the free list and the owners account for every     *)
(* page that kinit() found.                                                *)
PagesConserved ==
  NPAGE = nfree + Cardinality(tf)
            + MapThenSumSet(LAMBDA s : Owned(pt[s]), DOMAIN pt)
            + MapThenSumSet(LAMBDA p : th[p].argv + InHand(p), Proc)

(* Between calls an address space is exactly what its size says: the pages *)
(* below sz are mapped, with the two high pages and nothing else, and so   *)
(* it stays after a fork(), exec() or sbrk() that failed half way.         *)
ImageExact ==
  \A p \in live : (th[p] = Idle \/ th[p].call # "sbrk") =>
    /\ DOMAIN pt[Cur(p)].leaf = High \cup 0 .. PgCount(pt[Cur(p)].sz) - 1
    /\ \A v \in DOMAIN pt[Cur(p)].leaf : Walkable(pt[Cur(p)], v)
    /\ p \in tf

(* No sequence of calls reaches the panics of mappages(), uvmunmap(),      *)
(* freewalk() and loadseg().                                               *)
NoPanic == ~panicked

(* copyout() and copyin() move every byte below p->sz outside the guard    *)
(* page and none else: they stop at the first byte the process may not     *)
(* use itself.                                                             *)
UserCopies ==
  \A p \in live : th[p] = Idle =>
    LET t == pt[Cur(p)]
        ok(b) == b < PgCount(t.sz) * PGSIZE /\ t.leaf[b \div PGSIZE] # "guard"
    IN \A va \in 0 .. t.sz + PGSIZE, n \in 0 .. PGSIZE + 2 :
         LET k == Copied(t, va, n) IN
         /\ \A b \in va .. va + k - 1 : ok(b)
         /\ k < n => ~ok(va + k)
=============================================================================
