------------------------------- MODULE FileIO -------------------------------
(***************************************************************************)
(* The contents of files: balloc, bfree, bmap, itrunc, readi and writei of *)
(* kernel/fs.c, under fileread() and filewrite() of kernel/file.c.         *)
(*                                                                         *)
(* readi, writei and itrunc run under the inode's lock, writei and itrunc  *)
(* in a transaction: each is one step, and filewrite() is one step for     *)
(* each piece.  A byte of a file is the pair of the file and the position  *)
(* it was written for, so that a byte found elsewhere tells; an older byte *)
(* of the same position does not.                                          *)
(***************************************************************************)
EXTENDS Integers, FiniteSets, SequencesExt

CONSTANTS Ino,         \* inodes
          File,        \* open files (struct file)
          IpOf,        \* f->ip, a function
          NBlock,      \* data blocks are 1..NBlock
          BSIZE, NDIRECT, NINDIRECT,
          MAXOPBLOCKS,
          UINT,        \* uint arithmetic is modulo this
          BPB,         \* bits of a bitmap block
          Lens         \* lengths the calls ask for, 0xffffffff (-1) included

\* A block holds BSIZE bytes, or NINDIRECT block numbers, which are fewer.
Slots == 0..(BSIZE - 1)
MAXFILE == NDIRECT + NINDIRECT
Smaller(a, b) == IF a < b THEN a ELSE b

\* Mutant: no room for writes that are not aligned to blocks.
MaxPieceAligned == ((MAXOPBLOCKS - 1 - 1) \div 2) * BSIZE

\* max of filewrite()
MaxPiece == ((MAXOPBLOCKS - 1 - 1 - 2) \div 2) * BSIZE

VARIABLES fs,     \* used: the bitmap; addrs, size: the inodes; blk: the blocks;
                  \* log: the blocks log_write() has seen, during a step
          toobig, \* a step logged more blocks than begin_op() reserves
          off,    \* f->off
          todo    \* filewrite: the bytes n - i still to write, 0 outside

vars == <<fs, toobig, off, todo>>

Zero == [k \in Slots |-> 0]

\* What is left in a free block is of no use to anyone, but it is not zero.
Junk == [k \in Slots |-> 1]

Init ==
  /\ fs = [used |-> {}, log |-> {}, size |-> [i \in Ino |-> 0],
           addrs |-> [i \in Ino |-> [k \in 0..NDIRECT |-> 0]],
           blk |-> [b \in 1..NBlock |-> Junk]]
  /\ toobig = FALSE
  /\ off = [f \in File |-> 0]
  /\ todo = [f \in File |-> 0]

----------------------------------------------------------------------------
(* Blocks *)

Logged(s, what, n) == [s EXCEPT !.log = @ \cup {<<what, n>>}]

\* The first block whose bit is clear; none left is a panic.
FirstFree(s) ==
  CHOOSE b \in 1..NBlock \ s.used :
    \A c \in 1..NBlock \ s.used : b <= c

\* balloc with the bzero it ends in; the block is FirstFree(s).
Balloc(s) ==
  LET b == FirstFree(s) IN
  Logged(Logged([s EXCEPT !.used = @ \cup {b}, !.blk[b] = Zero],
                "bitmap", b \div BPB), "block", b)

\* bfree of a block that is free is a panic; BlocksOwned excludes it.
Bfree(s, b) ==
  Logged([s EXCEPT !.used = @ \ {b}, !.blk[b] = Junk], "bitmap", b \div BPB)

\* ip->addrs[k], allocated if there is none.
Direct(s, i, k) ==
  IF s.addrs[i][k] # 0 THEN s
  ELSE [Balloc(s) EXCEPT !.addrs[i][k] = FirstFree(s)]

\* bmap: the state in which block bn of inode i exists, and its address there.
Bmap(s, i, bn) ==
  IF bn < NDIRECT THEN Direct(s, i, bn)
  ELSE LET s1 == Direct(s, i, NDIRECT)
           a  == s1.addrs[i][NDIRECT]
       IN  IF s1.blk[a][bn - NDIRECT] # 0 THEN s1
           ELSE Logged([Balloc(s1) EXCEPT !.blk[a][bn - NDIRECT] = FirstFree(s1)],
                       "block", a)

AddrOf(s, i, bn) ==
  IF bn < NDIRECT THEN s.addrs[i][bn]
  ELSE s.blk[s.addrs[i][NDIRECT]][bn - NDIRECT]

----------------------------------------------------------------------------
(* writei, readi, itrunc *)

Iupdate(s, i) == Logged(s, "inode", i)

\* The bytes of a call in block bn of the file, copied from user memory.
CopyBytes(s, i, bn, from, n) ==
  LET s1  == Bmap(s, i, bn)
      a   == AddrOf(s1, i, bn)
      at(k) == bn * BSIZE + k
  IN  [s1 EXCEPT !.blk[a] =
         [k \in Slots |-> IF at(k) \in from..(from + n - 1) THEN <<i, at(k)>> ELSE @[k]]]

\* One turn of writei()'s loop: the block goes to log_write().
CopyIn(s, i, bn, from, n) ==
  LET s1 == CopyBytes(s, i, bn, from, n) IN Logged(s1, "block", AddrOf(s1, i, bn))

\* Mutant: an offset beyond the end of the file is accepted.
WriteRefusedHoles(s, i, from, n) ==
  (from + n) % UINT < from \/ (from + n) % UINT > MAXFILE * BSIZE

WriteRefused(s, i, from, n) ==
  \/ from > s.size[i] \/ (from + n) % UINT < from
  \/ (from + n) % UINT > MAXFILE * BSIZE

\* What writei() may return for n bytes: all, or those before the first block
\* whose copy from user memory fails.
Copied(from, n) == {n} \cup {r \in 0..(n - 1) : r = 0 \/ (from + r) % BSIZE = 0}

\* How many bytes more the copy into that block may have moved.
Partial(from, n, r) ==
  IF r = n THEN {0} ELSE 0 .. Smaller(n - r, BSIZE - ((from + r) % BSIZE)) - 1

\* writei() that copies r of n bytes; the block that fails is allocated, and x
\* bytes of it are changed in the cache without a log_write().
Writei(s, i, from, n, r, x) ==
  LET first == from \div BSIZE
      full  == IF r = 0 THEN 0 ELSE (from + r - 1) \div BSIZE - first + 1
      s1 == FoldLeft(LAMBDA t, k : CopyIn(t, i, first + k - 1, from, r),
                     s, [k \in 1..full |-> k])
      s2 == IF r < n THEN CopyBytes(s1, i, (from + r) \div BSIZE, from + r, x) ELSE s1
  IN  Iupdate([s2 EXCEPT !.size[i] = IF from + r > @ THEN from + r ELSE @], i)

\* The blocks the two loops of itrunc() free.
Held(s, i) ==
  LET ind == s.addrs[i][NDIRECT]
  IN  ({s.addrs[i][k] : k \in 0..NDIRECT} \cup
       (IF ind = 0 THEN {} ELSE {s.blk[ind][k] : k \in 0..(NINDIRECT - 1)})) \ {0}

Itrunc(s, i) ==
  LET s1 == FoldLeft(Bfree, s, SetToSeq(Held(s, i)))
  IN  Iupdate([s1 EXCEPT !.addrs[i] = [k \in 0..NDIRECT |-> 0], !.size[i] = 0], i)

\* readi(): the bytes it returns, clipped at the end of the file.
ReadLen(s, i, from, n) ==
  IF from > s.size[i] \/ (from + n) % UINT < from THEN 0
  ELSE Smaller(n % UINT, s.size[i] - from)

----------------------------------------------------------------------------
(* fileread, filewrite, O_TRUNC *)

\* end_op(): the file system is now s.
Commit(s) ==
  /\ fs' = [s EXCEPT !.log = {}]
  /\ toobig' = (Cardinality(s.log) > MAXOPBLOCKS)

FileWrite(f, n) ==
  /\ todo[f] = 0 /\ n > 0
  /\ todo' = [todo EXCEPT ![f] = n]
  /\ UNCHANGED <<fs, toobig, off>>

\* One turn of filewrite()'s loop, a transaction of its own.
Piece(f) ==
  LET i == IpOf[f]
      n1 == Smaller(todo[f], MaxPiece)
  IN  /\ todo[f] > 0
      /\ \/ /\ WriteRefused(fs, i, off[f], n1)
            /\ todo' = [todo EXCEPT ![f] = 0]
            /\ UNCHANGED <<fs, toobig, off>>
         \/ /\ ~WriteRefused(fs, i, off[f], n1)
            /\ \E r \in Copied(off[f], n1) : \E x \in Partial(off[f], n1, r) :
                 /\ Commit(Writei(fs, i, off[f], n1, r, x))
                 /\ off' = [off EXCEPT ![f] = @ + r]
                 /\ todo' = [todo EXCEPT ![f] = IF r = n1 THEN @ - r ELSE 0]

\* All bytes are copied out, or readi() returns -1.
FileRead(f, n) ==
  /\ todo[f] = 0
  /\ \E r \in {0, ReadLen(fs, IpOf[f], off[f], n)} : off' = [off EXCEPT ![f] = @ + r]
  /\ UNCHANGED <<fs, toobig, todo>>

\* open() with O_TRUNC, or the last iput() of an unlinked file.
Truncate(i) ==
  /\ Commit(Itrunc(fs, i))
  /\ UNCHANGED <<off, todo>>

Next ==
  \/ \E f \in File, n \in Lens : FileWrite(f, n)
  \/ \E f \in File : Piece(f)
  \/ \E f \in File, n \in Lens : FileRead(f, n)
  \/ \E i \in Ino : Truncate(i)

Spec == Init /\ [][Next]_vars

----------------------------------------------------------------------------
(* Properties *)

\* Every position of a file before its end lies in a block of the file, with
\* a byte that was written for that position of that file, through direct and
\* indirect blocks, truncation and reuse.
ReadsBack ==
  \A i \in Ino : \A q \in 0..(fs.size[i] - 1) :
    LET a == AddrOf(fs, i, q \div BSIZE)
    IN  a # 0 /\ fs.blk[a][q % BSIZE] = <<i, q>>

\* Every block is free or belongs to one file, in one place: the bitmap marks
\* exactly the blocks that the inodes and their indirect blocks name.
Named(i) ==
  LET ind == fs.addrs[i][NDIRECT]
  IN  [k \in 0..(NDIRECT + NINDIRECT) |->
         IF k <= NDIRECT THEN fs.addrs[i][k]
         ELSE IF ind = 0 THEN 0 ELSE fs.blk[ind][k - NDIRECT - 1]]
Names == Ino \X (0..(NDIRECT + NINDIRECT))
BlockOf(x) == Named(x[1])[x[2]]
BlocksOwned ==
  /\ fs.used = {BlockOf(x) : x \in Names} \ {0}
  /\ \A x, y \in Names : BlockOf(x) = BlockOf(y) /\ x # y => BlockOf(x) = 0

\* What filewrite() gives writei() at a time fits the reservation of
\* begin_op(), alignment, indirect block, bitmap and inode included.
FitsTransaction == ~toobig
=============================================================================
