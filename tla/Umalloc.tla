------------------------------ MODULE Umalloc ------------------------------
(***************************************************************************)
(* The allocator of the user programs (user/umalloc.c): a circular list of *)
(* free blocks in the order of their addresses, searched first-fit from    *)
(* where the last call left off.  Addresses and sizes are in units of a    *)
(* Header; a block starts with its header.  The block at 0 is `base'.      *)
(* Only the program grows its heap: between two calls it may also call     *)
(* sbrk() itself, and then the pieces of the allocator are not adjacent.   *)
(***************************************************************************)
EXTENDS Integers, FiniteSets, FiniteSetsExt

CONSTANTS MaxBrk,    \* end of the memory that sbrk() can give
          CORE,      \* units morecore() asks for at least (4096)
          Units      \* sizes that malloc() asks for, header included

VARIABLES brk,       \* first unit beyond the heap
          ptr, size, \* headers of the blocks on the free list, base included
          freep,
          used,      \* blocks handed out: address -> size
          gap        \* units the program took with sbrk()

vars == <<brk, ptr, size, freep, used, gap>>

Init ==
  /\ brk = 1
  /\ ptr = [a \in {0} |-> 0] /\ size = [a \in {0} |-> 0]   \* first malloc()
  /\ freep = 0
  /\ used = [a \in {} |-> 0]
  /\ gap = {}

Put(f, a, v) == [x \in DOMAIN f \cup {a} |-> IF x = a THEN v ELSE f[x]]
Drop(f, a) == [x \in DOMAIN f \ {a} |-> f[x]]

(* The nodes that a loop over p = p->s.ptr meets, starting at a.           *)
Node(next, a) == LET n[k \in 0..Cardinality(DOMAIN next)] ==
                       IF k = 0 THEN a ELSE next[n[k - 1]]
                 IN n
First(S) == Min(S)

(* Where free() stops: between p and its successor, or at the end of the   *)
(* address order when bp is beyond either end.                             *)
Place(bp, p) ==
  \/ bp > p /\ bp < ptr[p]
  \/ p >= ptr[p] /\ (bp > p \/ bp < ptr[p])

(* bp + bp->s.size == p->s.ptr *)
Meets(bp, n, p) == bp + n = ptr[p]

(* free() of n units at bp: join the upper neighbour, then the lower one.  *)
FreeList(bp, n) ==
  LET node == Node(ptr, freep)
      p == node[First({k \in DOMAIN node : Place(bp, node[k])})]
      up == Meets(bp, n, p)
      bsize == IF up THEN n + size[ptr[p]] ELSE n
      bptr == IF up THEN ptr[ptr[p]] ELSE ptr[p]
      low == p + size[p] = bp
      ptr1 == IF up THEN Drop(ptr, ptr[p]) ELSE ptr
      size1 == IF up THEN Drop(size, ptr[p]) ELSE size
  IN [freep |-> p,
      ptr |-> IF low THEN Put(ptr1, p, bptr) ELSE Put(Put(ptr1, bp, bptr), p, bp),
      size |-> IF low THEN Put(size1, p, size[p] + bsize) ELSE Put(size1, bp, bsize)]

Free(bp) ==
  LET f == FreeList(bp, used[bp]) IN
  /\ ptr' = f.ptr /\ size' = f.size /\ freep' = f.freep
  /\ used' = Drop(used, bp)
  /\ UNCHANGED <<brk, gap>>

(* Mutant: the block is cut from the head, whose header is then lost. *)
CutHead(p, n) == p

(* The block malloc() returns of a larger one at p: its tail.              *)
Cut(p, n) == p + size[p] - n

(* malloc(): the first block large enough after freep ...                  *)
Malloc(n) ==
  LET node == Node(ptr, ptr[freep])
      hit == {k \in 0..Cardinality(DOMAIN ptr) - 1 : size[node[k]] >= n}
      k == First(hit)
      p == node[k]
      prevp == IF k = 0 THEN freep ELSE node[k - 1]
  IN
  /\ hit # {}
  /\ IF size[p] = n
     THEN /\ ptr' = Drop(Put(ptr, prevp, ptr[p]), p)
          /\ size' = Drop(size, p)
          /\ used' = Put(used, p, n)
     ELSE /\ size' = Put(size, p, size[p] - n)
          /\ used' = Put(used, Cut(p, n), n)
          /\ UNCHANGED ptr
  /\ freep' = prevp
  /\ UNCHANGED <<brk, gap>>

(* ... or, once round the list, morecore(): sbrk() and free(); the search  *)
(* goes on from there and finds it (a Malloc step).  Sizes are in units    *)
(* and small: nu * sizeof(Header) is below 2^31, so that sbrk()'s int      *)
(* argument is what was asked for.                                         *)
Morecore(n) ==
  LET nu == IF n < CORE THEN CORE ELSE n
      f == FreeList(brk, nu)
  IN
  /\ \A a \in DOMAIN size : size[a] < n
  /\ brk + nu <= MaxBrk
  /\ ptr' = f.ptr /\ size' = f.size /\ freep' = f.freep
  /\ brk' = brk + nu
  /\ UNCHANGED <<used, gap>>

(* sbrk() fails, and so does malloc().                                     *)
MallocFails(n) == (\A a \in DOMAIN size : size[a] < n) /\ UNCHANGED vars

Sbrk ==
  /\ brk < MaxBrk
  /\ gap' = gap \cup {brk}
  /\ brk' = brk + 1
  /\ UNCHANGED <<ptr, size, freep, used>>

Next ==
  \/ \E n \in Units : Malloc(n) \/ Morecore(n) \/ MallocFails(n)
  \/ \E bp \in DOMAIN used : Free(bp)
  \/ Sbrk

Spec == Init /\ [][Next]_vars
-----------------------------------------------------------------------------
Span(f, a) == a .. a + f[a] - 1

(* Every unit of the heap is in exactly one block: no block handed out     *)
(* overlaps another or the free list, and no unit is lost to both.         *)
HeapPartition ==
  LET n == MapThenSumSet(LAMBDA a : size[a], DOMAIN size)
             + MapThenSumSet(LAMBDA a : used[a], DOMAIN used)
      all == UNION {Span(size, a) : a \in DOMAIN size}
               \cup UNION {Span(used, a) : a \in DOMAIN used}
  IN all = (1 .. brk - 1) \ gap /\ n = Cardinality(all)

(* The list is one circle in the order of the addresses, freep on it, and  *)
(* neighbours are joined: no two free blocks touch, so that freeing all    *)
(* gives the whole heap back in as few pieces as sbrk() left.              *)
ListSorted ==
  /\ freep \in DOMAIN ptr
  /\ \A a \in DOMAIN ptr :
       LET above == {b \in DOMAIN ptr : b > a} IN
       ptr[a] = IF above = {} THEN 0 ELSE First(above)
  /\ \A a \in DOMAIN ptr : a > 0 => a + size[a] \notin DOMAIN ptr
=============================================================================
