---------------------------- MODULE StashProofs ----------------------------
(***************************************************************************)
(* Proofs about Stash, for any number of blocks and objects, any texts and *)
(* any interleaving of their writing, reading and sending: first that the  *)
(* blocks of the stashes are chains that share nothing, then that the      *)
(* chains hold the texts.                                                  *)
(***************************************************************************)
EXTENDS Stash, FiniteSetTheorems, WellFoundedInduction, TLAPS

(* A nonempty set of numbers has a least member.                           *)
LEMMA LeastOf ==
  ASSUME NEW T \in SUBSET Nat, T # {}
  PROVE  \E x \in T : \A y \in T : x <= y
<1> DEFINE R == {rs \in Nat \X Nat : rs[1] < rs[2]}
<1>1. IsWellFoundedOn(R, Nat)
  BY NatLessThanWellFounded DEF OpToRel
<1>2. PICK x \in T : \A y \in T : ~(<<y, x>> \in R)
  <2> HIDE DEF R
  <2> QED BY <1>1, WFMin
<1>3. ASSUME NEW y \in T PROVE x <= y
  <2>1. ~(y < x)
    BY <1>2, <1>3
  <2> QED BY <2>1
<1> QED BY <1>3

(* Induction over an interval, for a set.                                  *)
LEMMA Induct ==
  ASSUME NEW S, NEW N \in Nat, 0 \in S, \A k \in 0 .. N - 1 : k \in S => k + 1 \in S
  PROVE  \A k \in 0 .. N : k \in S
<1> DEFINE T == {k \in 0 .. N : k \notin S}
<1>2. ASSUME T # {} PROVE FALSE
  <2>1. T \in SUBSET Nat
    OBVIOUS
  <2>2. PICK x \in T : \A y \in T : x <= y
    <3> HIDE DEF T
    <3> QED BY <1>2, <2>1, LeastOf
  <2>3. x # 0 /\ x \in 0 .. N /\ x \notin S
    OBVIOUS
  <2>4. x - 1 \in 0 .. N - 1 /\ x - 1 + 1 = x
    BY <2>3
  <2>5. x - 1 \notin S
    BY <2>3, <2>4
  <2>6. x - 1 \in T
    BY <2>4, <2>5
  <2> QED BY <2>2, <2>3, <2>6
<1> QED BY <1>2

-----------------------------------------------------------------------------
(* The chain that starts in a block: the function in BlockAt.              *)
Follows(m, s, n, f) ==
  f = [k \in 0 .. n |-> IF k = 0 THEN s.first ELSE Page(m, f[k - 1])[NextPlace]]

(* A chain can be followed as far as one likes.                            *)
LEMMA FollowExists == ASSUME NEW m, NEW s, NEW n \in Nat PROVE \E f : Follows(m, s, n, f)
<1> DEFINE S == {k \in Nat : \E f : Follows(m, s, k, f)}
<1>1. 0 \in S
  <2> DEFINE g == [k \in 0 .. 0 |-> s.first]
  <2>1. Follows(m, s, 0, g)
    BY DEF Follows
  <2> QED BY <2>1
<1>2. ASSUME NEW k \in 0 .. n - 1, k \in S PROVE k + 1 \in S
  <2>1. PICK f : Follows(m, s, k, f)
    BY <1>2
  <2> DEFINE g == [i \in 0 .. k + 1 |-> IF i = k + 1 THEN Page(m, f[k])[NextPlace] ELSE f[i]]
  <2>2. \A i \in 0 .. k :
          f[i] = IF i = 0 THEN s.first ELSE Page(m, f[i - 1])[NextPlace]
    BY <2>1 DEF Follows
  <2>3. ASSUME NEW i \in 0 .. k + 1
        PROVE  g[i] = IF i = 0 THEN s.first ELSE Page(m, g[i - 1])[NextPlace]
    <3>1. CASE i = k + 1
      <4>1. i # 0 /\ i - 1 = k /\ k \in 0 .. k + 1 /\ k # k + 1
        BY <3>1
      <4>2. g[k] = f[k]
        BY <4>1
      <4> QED BY <3>1, <4>1, <4>2
    <3>2. CASE i # k + 1
      <4>1. i \in 0 .. k /\ g[i] = f[i]
        BY <3>2
      <4>2. i # 0 => i - 1 \in 0 .. k + 1 /\ i - 1 # k + 1
        BY <4>1
      <4>3. i # 0 => g[i - 1] = f[i - 1]
        BY <4>2
      <4> HIDE DEF g
      <4> QED BY <2>2, <4>1, <4>3
    <3> QED BY <3>1, <3>2
  <2>4. Follows(m, s, k + 1, g)
    <3>1. g = [i \in 0 .. k + 1 |-> g[i]]
      OBVIOUS
    <3> HIDE DEF g
    <3> QED BY <2>3, <3>1 DEF Follows
  <2> QED BY <2>4
<1> HIDE DEF S
<1>3. n \in S
  BY <1>1, <1>2, Induct
<1> QED BY <1>3 DEF S

(* There is one way to follow it.                                          *)
LEMMA FollowUnique ==
  ASSUME NEW m, NEW s, NEW n \in Nat, NEW k \in Nat, n <= k, NEW f, NEW g,
         Follows(m, s, n, f), Follows(m, s, k, g)
  PROVE  f[n] = g[n]
<1> DEFINE S == {i \in Nat : f[i] = g[i]}
<1>1. /\ \A i \in 0 .. n : f[i] = IF i = 0 THEN s.first ELSE Page(m, f[i - 1])[NextPlace]
      /\ \A i \in 0 .. k : g[i] = IF i = 0 THEN s.first ELSE Page(m, g[i - 1])[NextPlace]
  BY DEF Follows
<1>2. 0 \in S
  BY <1>1
<1>3. ASSUME NEW i \in 0 .. n - 1, i \in S PROVE i + 1 \in S
  <2>1. i + 1 \in 0 .. n /\ i + 1 \in 0 .. k /\ i + 1 # 0 /\ (i + 1) - 1 = i
    OBVIOUS
  <2>2. f[i + 1] = Page(m, f[i])[NextPlace] /\ g[i + 1] = Page(m, g[i])[NextPlace]
    BY <1>1, <2>1
  <2> QED BY <1>3, <2>2
<1> HIDE DEF S
<1>4. n \in S
  BY <1>2, <1>3, Induct
<1> QED BY <1>4 DEF S

(* BlockAt goes from block to block along their next fields.               *)
LEMMA BlockAtFollows ==
  ASSUME NEW m, NEW s, NEW n \in Nat
  PROVE  \E f : Follows(m, s, n, f) /\ BlockAt(m, s, n) = f[n]
<1> DEFINE P(f) == f = [k \in 0 .. n |-> IF k = 0 THEN s.first
                                        ELSE Page(m, f[k - 1])[NextPlace]]
<1>1. BlockAt(m, s, n) = (CHOOSE f : P(f))[n]
  BY DEF BlockAt
<1>2. \E f : P(f)
  <2>1. PICK f : Follows(m, s, n, f)
    BY FollowExists
  <2>2. P(f)
    BY <2>1 DEF Follows
  <2> QED BY <2>2
<1>3. P(CHOOSE f : P(f))
  <2> HIDE DEF P
  <2> QED BY <1>2
<1> QED BY <1>1, <1>3 DEF Follows

(* The first block of a chain.                                             *)
LEMMA BlockAtZero == ASSUME NEW m, NEW s PROVE BlockAt(m, s, 0) = s.first
<1>1. PICK f : Follows(m, s, 0, f) /\ BlockAt(m, s, 0) = f[0]
  BY BlockAtFollows
<1>2. f[0] = s.first
  BY <1>1 DEF Follows
<1> QED BY <1>1, <1>2

(* The one after any other.                                                *)
LEMMA BlockAtNext ==
  ASSUME NEW m, NEW s, NEW n \in Nat
  PROVE  BlockAt(m, s, n + 1) = Page(m, BlockAt(m, s, n))[NextPlace]
<1>1. PICK f : Follows(m, s, n, f) /\ BlockAt(m, s, n) = f[n]
  BY BlockAtFollows
<1>2. PICK g : Follows(m, s, n + 1, g) /\ BlockAt(m, s, n + 1) = g[n + 1]
  BY BlockAtFollows
<1>3. f[n] = g[n]
  BY <1>1, <1>2, FollowUnique
<1>4. g[n + 1] = Page(m, g[n])[NextPlace]
  <2>1. \A i \in 0 .. n + 1 : g[i] = IF i = 0 THEN s.first ELSE Page(m, g[i - 1])[NextPlace]
    BY <1>2 DEF Follows
  <2>2. n + 1 \in 0 .. n + 1 /\ n + 1 # 0 /\ (n + 1) - 1 = n
    OBVIOUS
  <2> QED BY <2>1, <2>2
<1> QED BY <1>1, <1>2, <1>3, <1>4

(* A chain stays as it is when the next fields on the way do.              *)
SameWay(m, s, m2, t, N) ==
  /\ N \in Nat /\ t.first = s.first
  /\ \A k \in 0 .. N - 1 : Page(m2, BlockAt(m, s, k))[NextPlace]
                            = Page(m, BlockAt(m, s, k))[NextPlace]

(* So are the blocks that are N steps or less from the first.              *)
LEMMA ChainSame ==
  ASSUME NEW m, NEW s, NEW m2, NEW t, NEW N, SameWay(m, s, m2, t, N)
  PROVE  \A k \in 0 .. N : BlockAt(m2, t, k) = BlockAt(m, s, k)
<1> USE DEF SameWay
<1> DEFINE S == {k \in Nat : BlockAt(m2, t, k) = BlockAt(m, s, k)}
<1>1. 0 \in S
  <2>1. BlockAt(m2, t, 0) = t.first /\ BlockAt(m, s, 0) = s.first
    BY BlockAtZero
  <2> QED BY <2>1
<1>2. ASSUME NEW k \in 0 .. N - 1, k \in S PROVE k + 1 \in S
  BY <1>2, BlockAtNext
<1> HIDE DEF S
<1>3. \A k \in 0 .. N : k \in S
  BY <1>1, <1>2, Induct
<1> QED BY <1>3 DEF S

-----------------------------------------------------------------------------
(* The memory: two buffers, one of them over the chip's pages.             *)
Spare == Pages \ {0}
Bytes == [Places -> Nat]
Memory ==
  [pages : [Pages -> Bytes], wb : [bnum : Pages, bytes : Bytes],
   rb : [bnum : Pages \union {None}, bytes : Bytes], free : SUBSET Spare]

(* Blocks and places are numbers, and 255 is no block.                     *)
LEMMA Sizes ==
  /\ Blocks \in Nat /\ Blocks # 0 /\ Blocks <= None /\ None = 255 /\ None \notin Pages
  /\ TailPlace \in Nat /\ TailPlace >= HeaderSize /\ HeaderSize = 3
  /\ NextPlace = TailPlace + 1 /\ NextPlace \in Nat
  /\ {0, 1, 2, TailPlace, NextPlace} \subseteq Places /\ 0 .. TailPlace \subseteq Places
  /\ Pages \subseteq Nat /\ 0 \in Pages
  /\ Header.count = 0 /\ Header.first = 1 /\ Header.last = 2
BY StashAssumption DEF None, HeaderSize, Pages, Places, NextPlace, Header

(* A block has a byte in every place.                                      *)
LEMMA PageType == ASSUME NEW m \in Memory, NEW b \in Pages PROVE Page(m, b) \in Bytes
BY DEF Memory, Page

(* m2 is m but for what the read buffer holds of blocks other than those   *)
(* of B: what is in the blocks, and which of them are free, is the same.   *)
SameBlocks(m, m2) ==
  /\ m2 \in Memory /\ m2.free = m.free
  /\ \A b \in Pages : Page(m2, b) = Page(m, b)

(* load into the write buffer moves bytes and changes none; the read       *)
(* buffer forgets the block that is loaded.                                *)
LEMMA LoadWriteKeeps ==
  ASSUME NEW m \in Memory, NEW b \in Pages
  PROVE  /\ SameBlocks(m, LoadWrite(m, b))
         /\ LoadWrite(m, b).wb = [bnum |-> b, bytes |-> Page(m, b)]
         /\ LoadWrite(m, b).rb.bytes = m.rb.bytes
         /\ LoadWrite(m, b).rb.bnum = IF m.wb.bnum # b /\ m.rb.bnum = b THEN None
                                      ELSE m.rb.bnum
<1> DEFINE flushed == [m.pages EXCEPT ![m.wb.bnum] = m.wb.bytes]
<1>1. CASE b = m.wb.bnum
  <2>1. LoadWrite(m, b) = m
    BY <1>1 DEF LoadWrite
  <2>2. m.wb = [bnum |-> m.wb.bnum, bytes |-> m.wb.bytes]
    BY DEF Memory
  <2> QED BY <1>1, <2>1, <2>2 DEF SameBlocks, Page
<1>2. CASE b # m.wb.bnum
  <2>1. LoadWrite(m, b)
          = [m EXCEPT !.pages = flushed, !.wb = [bnum |-> b, bytes |-> flushed[b]],
                      !.rb = Forgotten(@, b)]
    BY <1>2 DEF LoadWrite
  <2>2. /\ flushed \in [Pages -> Bytes] /\ flushed[m.wb.bnum] = m.wb.bytes
        /\ \A c \in Pages : c # m.wb.bnum => flushed[c] = m.pages[c]
    BY DEF Memory
  <2>6. /\ Forgotten(m.rb, b) \in [bnum : Pages \union {None}, bytes : Bytes]
        /\ Forgotten(m.rb, b).bytes = m.rb.bytes
        /\ Forgotten(m.rb, b).bnum = IF m.rb.bnum = b THEN None ELSE m.rb.bnum
    BY DEF Forgotten, Memory
  <2> HIDE DEF flushed
  <2>7. LoadWrite(m, b) = [pages |-> flushed, wb |-> [bnum |-> b, bytes |-> flushed[b]],
                           rb |-> Forgotten(m.rb, b), free |-> m.free]
    BY <2>1 DEF Memory
  <2>3. /\ LoadWrite(m, b).pages = flushed
        /\ LoadWrite(m, b).wb = [bnum |-> b, bytes |-> flushed[b]]
        /\ LoadWrite(m, b).rb = Forgotten(m.rb, b)
        /\ LoadWrite(m, b).free = m.free
        /\ LoadWrite(m, b) \in Memory
    BY <2>2, <2>6, <2>7 DEF Memory
  <2>4. ASSUME NEW c \in Pages PROVE Page(LoadWrite(m, b), c) = Page(m, c)
    BY <1>2, <2>2, <2>3 DEF Page
  <2>5. flushed[b] = Page(m, b)
    BY <1>2, <2>2 DEF Page
  <2> QED BY <1>2, <2>3, <2>4, <2>5, <2>6 DEF SameBlocks
<1> QED BY <1>1, <1>2

(* load into the read buffer changes nothing but that buffer, which holds  *)
(* the block as it is unless it was there already.                         *)
LEMMA LoadReadKeeps ==
  ASSUME NEW m \in Memory, NEW b \in Pages
  PROVE  /\ SameBlocks(m, LoadRead(m, b)) /\ LoadRead(m, b).wb = m.wb
         /\ LoadRead(m, b).pages = m.pages
         /\ LoadRead(m, b).rb.bnum = b
         /\ LoadRead(m, b).rb.bytes = IF m.rb.bnum = b THEN m.rb.bytes ELSE Page(m, b)
<1>1. CASE b = m.rb.bnum
  BY <1>1 DEF LoadRead, SameBlocks
<1>2. CASE b # m.rb.bnum /\ b = m.wb.bnum
  <2>1. LoadRead(m, b) = [m EXCEPT !.rb = m.wb]
    BY <1>2 DEF LoadRead
  <2>2. m.wb \in [bnum : Pages, bytes : Bytes]
    BY DEF Memory
  <2>3. /\ LoadRead(m, b).rb = m.wb /\ LoadRead(m, b).wb = m.wb /\ LoadRead(m, b).pages = m.pages
        /\ LoadRead(m, b).free = m.free /\ LoadRead(m, b) \in Memory
    BY <2>1, <2>2 DEF Memory
  <2> QED BY <1>2, <2>2, <2>3 DEF SameBlocks, Page
<1>3. CASE b # m.rb.bnum /\ b # m.wb.bnum
  <2>1. LoadRead(m, b) = [m EXCEPT !.rb = [bnum |-> b, bytes |-> m.pages[b]]]
    BY <1>3 DEF LoadRead
  <2>2. m.pages[b] \in Bytes
    BY DEF Memory
  <2>3. /\ LoadRead(m, b).rb = [bnum |-> b, bytes |-> m.pages[b]]
        /\ LoadRead(m, b).wb = m.wb /\ LoadRead(m, b).pages = m.pages
        /\ LoadRead(m, b).free = m.free /\ LoadRead(m, b) \in Memory
    BY <2>1, <2>2 DEF Memory
  <2> QED BY <1>3, <2>3 DEF SameBlocks, Page
<1> QED BY <1>1, <1>2, <1>3

(* Changing the bytes in the write buffer changes one block.               *)
LEMMA WriteChanges ==
  ASSUME NEW m \in Memory, NEW bytes \in Bytes
  PROVE  /\ Write(m, bytes) \in Memory /\ Write(m, bytes).free = m.free
         /\ Write(m, bytes).rb = m.rb /\ Write(m, bytes).pages = m.pages
         /\ Write(m, bytes).wb = [bnum |-> m.wb.bnum, bytes |-> bytes]
         /\ \A c \in Pages : Page(Write(m, bytes), c) = IF c = m.wb.bnum THEN bytes
                                                        ELSE Page(m, c)
<1>1. /\ Write(m, bytes).wb = [bnum |-> m.wb.bnum, bytes |-> bytes]
      /\ Write(m, bytes).free = m.free /\ Write(m, bytes).rb = m.rb
      /\ Write(m, bytes).pages = m.pages /\ Write(m, bytes) \in Memory
  BY DEF Write, Memory
<1> QED BY <1>1 DEF Page

(* The allocator hands out a free block, if there is one.                  *)
LEMMA AllocTakes ==
  ASSUME NEW m \in Memory, m.free # {}
  PROVE  /\ AllocBlock(m) \in m.free /\ AllocBlock(m) \in Spare
         /\ Taken(m) \in Memory /\ Taken(m).free = m.free \ {AllocBlock(m)}
         /\ Taken(m).wb = m.wb /\ Taken(m).rb = m.rb
         /\ \A b \in Pages : Page(Taken(m), b) = Page(m, b)
<1>1. m.free \in SUBSET Nat /\ m.free \subseteq Spare
  BY Sizes DEF Memory, Spare
<1>2. \E x \in m.free : \A y \in m.free : x <= y
  BY <1>1, LeastOf
<1>3. AllocBlock(m) \in m.free
  BY <1>2 DEF AllocBlock, Lowest
<1>4. /\ Taken(m).free = m.free \ {AllocBlock(m)} /\ Taken(m).wb = m.wb
      /\ Taken(m).rb = m.rb /\ Taken(m).pages = m.pages /\ Taken(m) \in Memory
  BY DEF Taken, Memory
<1> QED BY <1>1, <1>3, <1>4 DEF Page

-----------------------------------------------------------------------------
(* What holds of a stash s and the memory m.  Its blocks are a chain of    *)
(* different ones, up to a last block that has room.                       *)
Object ==
  [count : Pages, first : Pages, last : Pages, curr : Pages, offs : 0 .. TailPlace]
Chained(m, s) ==
  /\ \A n \in 0 .. s.count : BlockAt(m, s, n) \in Spare
  /\ \A i, j \in 0 .. s.count : BlockAt(m, s, i) = BlockAt(m, s, j) => i = j
  /\ s.last = BlockAt(m, s, s.count) /\ Page(m, s.last)[NextPlace] = 0
  /\ Page(m, s.last)[TailPlace] \in 0 .. TailPlace
  /\ s.count = 0 => Page(m, s.last)[TailPlace] >= HeaderSize

(* While it is written, the read buffer may hold an old copy of its first  *)
(* block, and of no other.                                                 *)
Writing(m, s) ==
  /\ s.curr = s.first /\ s.offs = HeaderSize
  /\ m.rb.bnum \in BlocksOf(m, s) => m.rb.bnum = s.first

(* Once it is saved, its header is in its first block and a copy of a      *)
(* block is a right one; the next letter is at offs in block n of it.      *)
InBlock(m, s, n) ==
  /\ n \in 0 .. s.count /\ s.curr = BlockAt(m, s, n)
  /\ n = 0 => s.offs >= HeaderSize
  /\ n = s.count => s.offs <= Page(m, s.last)[TailPlace]
Copied(m, s) == m.rb.bnum \in BlocksOf(m, s) => m.rb.bytes = Page(m, m.rb.bnum)
Reading(m, s) ==
  /\ Page(m, s.first)[Header.count] = s.count /\ Page(m, s.first)[Header.first] = s.first
  /\ Page(m, s.first)[Header.last] = s.last
  /\ Copied(m, s) /\ \E n \in 0 .. s.count : InBlock(m, s, n)

(* All of it, for the stash of o that is at stage g.                       *)
Kept(o, m, s, g) ==
  /\ o \in sketch.objs
  /\ Chained(m, s) /\ LengthOf(m, s) <= Len(Letters[o])
  /\ g = "writing" => Writing(m, s)
  /\ g # "writing" => Reading(m, s)

Stages == {"none", "writing", "saved", "prepared"}
Types ==
  /\ sketch \in Sketches
  /\ mem \in Memory /\ mem.wb.bnum \notin mem.free
  /\ obj \in [Objs -> Object]
  /\ stage \in [Objs -> Stages]
  /\ prepared \in Objs \union {Nothing}
Message ==
  /\ \A o \in Objs : stage[o] = "prepared" <=> prepared = o
  /\ prepared # Nothing =>
       /\ Page(mem, 0)[0] = LengthOf(mem, obj[prepared])
       /\ Page(mem, 0)[1] = obj[prepared].first
Shared == Spare = mem.free \union UNION {Owned(o) : o \in Live}
StashInv ==
  /\ Types /\ Message /\ BlocksDisjoint /\ Shared
  /\ \A o \in Live : Kept(o, mem, obj[o], stage[o])

(* The hypothesis of the theorems: there are enough blocks for the texts of *)
(* the sketch, and release is called with everything written back.         *)
Room ==
  \A s \in Sketches : \E share \in [s.objs -> SUBSET Spare] :
    /\ \A o, p \in s.objs : o # p => share[o] \intersect share[p] = {}
    /\ \A o \in s.objs : NextPlace * Cardinality(share[o]) > HeaderSize + Len(Letters[o])

(* The first block of a stash, and its last one, are among its blocks.     *)
LEMMA ChainEnds ==
  ASSUME NEW m, NEW s, s.count \in Nat, Chained(m, s)
  PROVE  /\ s.first = BlockAt(m, s, 0) /\ s.first \in BlocksOf(m, s)
         /\ s.last \in BlocksOf(m, s) /\ BlocksOf(m, s) \subseteq Spare
         /\ BlocksOf(m, s) \subseteq Pages
<1>1. 0 \in 0 .. s.count /\ s.count \in 0 .. s.count
  OBVIOUS
<1>2. s.first = BlockAt(m, s, 0)
  BY BlockAtZero
<1>3. s.first \in BlocksOf(m, s) /\ s.last \in BlocksOf(m, s)
  BY <1>1, <1>2 DEF BlocksOf, Chained
<1> QED BY <1>2, <1>3 DEF BlocksOf, Chained, Spare

(* A stash has the same blocks as before if their links are the same.      *)
LEMMA ChainKept ==
  ASSUME NEW m, NEW m2, NEW s, NEW t, s.count \in Nat, Chained(m, s),
         \A b \in BlocksOf(m, s) : /\ Page(m2, b)[NextPlace] = Page(m, b)[NextPlace]
                                   /\ Page(m2, b)[TailPlace] = Page(m, b)[TailPlace],
         t.first = s.first, t.count = s.count, t.last = s.last
  PROVE  /\ \A n \in 0 .. s.count : BlockAt(m2, t, n) = BlockAt(m, s, n)
         /\ BlocksOf(m2, t) = BlocksOf(m, s) /\ Chained(m2, t)
         /\ LengthOf(m2, t) = LengthOf(m, s)
<1>1. SameWay(m, s, m2, t, s.count)
  BY DEF SameWay, BlocksOf
<1>2. \A n \in 0 .. s.count : BlockAt(m2, t, n) = BlockAt(m, s, n)
  BY <1>1, ChainSame
<1>3. BlocksOf(m2, t) = BlocksOf(m, s)
  BY <1>2 DEF BlocksOf
<1>4. /\ Page(m2, t.last)[NextPlace] = Page(m, s.last)[NextPlace]
      /\ Page(m2, t.last)[TailPlace] = Page(m, s.last)[TailPlace]
  BY ChainEnds
<1>5. s.count \in 0 .. s.count
  OBVIOUS
<1>6. Chained(m2, t)
  BY <1>2, <1>4, <1>5 DEF Chained
<1>7. LengthOf(m2, t) = LengthOf(m, s)
  BY <1>4 DEF LengthOf
<1> QED BY <1>2, <1>3, <1>6, <1>7

(* The blocks hold the same letters; the header may be another.            *)
SameLetters(m, s, m2) ==
  \A b \in BlocksOf(m, s) :
    /\ Page(m2, b)[NextPlace] = Page(m, b)[NextPlace]
    /\ \A p \in 0 .. TailPlace :
         b # s.first \/ p >= HeaderSize => Page(m2, b)[p] = Page(m, b)[p]

(* And so is what is kept of it, if the read buffer has no new copy of it. *)
LEMMA OtherKept ==
  ASSUME NEW m, NEW m2, NEW s, s.count \in Nat, NEW o, NEW g, Kept(o, m, s, g),
         \A b \in BlocksOf(m, s) : Page(m2, b) = Page(m, b),
         m2.rb.bnum \in BlocksOf(m, s) => m2.rb = m.rb
  PROVE  Kept(o, m2, s, g) /\ BlocksOf(m2, s) = BlocksOf(m, s)
<1>1. Chained(m, s)
  BY DEF Kept
<1>2. /\ \A n \in 0 .. s.count : BlockAt(m2, s, n) = BlockAt(m, s, n)
      /\ BlocksOf(m2, s) = BlocksOf(m, s) /\ Chained(m2, s)
      /\ LengthOf(m2, s) = LengthOf(m, s)
  BY <1>1, ChainKept
<1>3. Page(m2, s.last) = Page(m, s.last) /\ Page(m2, s.first) = Page(m, s.first)
  BY <1>1, ChainEnds
<1>4. Writing(m, s) => Writing(m2, s)
  BY <1>2 DEF Writing
<1>5. Copied(m, s) => Copied(m2, s)
  BY <1>2 DEF Copied
<1>6. \A n : InBlock(m, s, n) => InBlock(m2, s, n)
  BY <1>2, <1>3 DEF InBlock
<1>7. Reading(m, s) => Reading(m2, s)
  BY <1>3, <1>5, <1>6 DEF Reading
<1> QED BY <1>2, <1>4, <1>7 DEF Kept

(* The blocks that o has, none if its stash does not exist.                *)
Held(o) == IF o \in Live THEN Owned(o) ELSE {}

(* A step that has to do with the stash of o leaves the blocks of the      *)
(* others alone.                                                           *)
Apart(o) ==
  /\ sketch' = sketch
  /\ \A p \in Objs : p # o => obj'[p] = obj[p] /\ stage'[p] = stage[p]
  /\ \A p \in Live : p # o =>
       /\ \A b \in Owned(p) : Page(mem', b) = Page(mem, b)
       /\ mem'.rb.bnum \in Owned(p) => mem'.rb = mem.rb

(* Then the invariant needs to be shown of the stash of o only, whose      *)
(* blocks come from the free ones or become free.                          *)
LEMMA StepInv ==
  ASSUME StashInv, NEW o \in Objs, Apart(o), Types', Message',
         stage'[o] # "none" => Kept(o, mem', obj'[o], stage'[o]),
         Held(o)' \union mem'.free = Held(o) \union mem.free,
         Held(o)' \intersect mem'.free = {}
  PROVE  StashInv' /\ Apart(o)
<1>1. ASSUME NEW p \in Live, p # o
      PROVE  Kept(p, mem', obj'[p], stage'[p]) /\ Owned(p)' = Owned(p) /\ p \in Live'
  <2>1. Kept(p, mem, obj[p], stage[p]) /\ p \in Objs
    BY DEF StashInv, Live
  <2>2. obj[p].count \in Nat
    BY <2>1, Sizes DEF StashInv, Types, Object
  <2>3. /\ \A b \in BlocksOf(mem, obj[p]) : Page(mem', b) = Page(mem, b)
        /\ mem'.rb.bnum \in BlocksOf(mem, obj[p]) => mem'.rb = mem.rb
        /\ obj'[p] = obj[p] /\ stage'[p] = stage[p]
    BY <1>1, <2>1 DEF Apart, Owned
  <2>4. Kept(p, mem', obj[p], stage[p]) /\ BlocksOf(mem', obj[p]) = BlocksOf(mem, obj[p])
    BY <2>1, <2>2, <2>3, OtherKept
  <2>5. p \in Live'
    BY <2>1, <2>3 DEF Live
  <2> QED BY <2>3, <2>4, <2>5 DEF Owned
<1>2. \A p \in Live' : p \in Objs /\ (p # o => p \in Live)
  BY DEF Apart, Live
<1>3. \A p \in Live' : Kept(p, mem', obj'[p], stage'[p])
  BY <1>1, <1>2 DEF Live
<1>4. \A p \in Live' : Kept(p, mem, obj[p], stage[p])'
  BY <1>3 DEF Kept, Apart
<1>5. \A p \in Live : p # o => Owned(p) \intersect (Held(o) \union mem.free) = {}
  BY DEF StashInv, BlocksDisjoint, Held
<1>6. o \in Live' => Owned(o)' = Held(o)'
  BY DEF Held
<1>7. BlocksDisjoint'
  <2>1. ASSUME NEW p \in Live' PROVE Owned(p)' \intersect mem'.free = {}
    <3>1. CASE p = o
      BY <1>6, <3>1
    <3>2. CASE p # o
      BY <1>1, <1>2, <1>5, <3>2
    <3> QED BY <3>1, <3>2
  <2>2. ASSUME NEW p \in Live', NEW q \in Live', p # q
        PROVE  Owned(p)' \intersect Owned(q)' = {}
    <3>1. CASE p # o /\ q # o
      <4>1. p \in Live /\ q \in Live
        BY <1>2, <3>1
      <4>2. Owned(p)' = Owned(p) /\ Owned(q)' = Owned(q)
        BY <1>1, <3>1, <4>1
      <4> QED BY <2>2, <4>1, <4>2 DEF StashInv, BlocksDisjoint
    <3>2. CASE p = o
      <4>1. q \in Live /\ Owned(q)' = Owned(q)
        BY <1>1, <1>2, <2>2, <3>2
      <4> QED BY <1>5, <1>6, <2>2, <3>2, <4>1
    <3>3. CASE q = o
      <4>1. p \in Live /\ Owned(p)' = Owned(p)
        BY <1>1, <1>2, <2>2, <3>3
      <4> QED BY <1>5, <1>6, <2>2, <3>3, <4>1
    <3> QED BY <3>1, <3>2, <3>3
  <2> QED BY <2>1, <2>2 DEF BlocksDisjoint
<1>8. Shared'
  <2>1. UNION {Owned(p) : p \in Live} = Held(o) \union UNION {Owned(p) : p \in Live \ {o}}
    BY DEF Held
  <2>2. UNION {Owned(p)' : p \in Live'} = Held(o)' \union UNION {Owned(p)' : p \in Live' \ {o}}
    BY DEF Held
  <2>3. Live' \ {o} = Live \ {o}
    BY <1>1, <1>2
  <2>4. UNION {Owned(p)' : p \in Live' \ {o}} = UNION {Owned(p) : p \in Live \ {o}}
    BY <1>1, <2>3
  <2>5. Spare = mem.free \union UNION {Owned(p) : p \in Live}
    BY DEF StashInv, Shared
  <2>6. Spare = mem'.free \union UNION {Owned(p)' : p \in Live'}
    BY <2>1, <2>2, <2>4, <2>5
  <2> QED BY <2>6 DEF Shared, Spare, Pages
<1> QED BY <1>4, <1>7, <1>8 DEF StashInv

-----------------------------------------------------------------------------
(* Loading a block of a stash whose copies are right gives what is in it.  *)
LEMMA LoadOwn ==
  ASSUME NEW m \in Memory, NEW s, s.count \in Nat, Chained(m, s), Copied(m, s),
         NEW b \in BlocksOf(m, s)
  PROVE  /\ SameBlocks(m, LoadRead(m, b)) /\ LoadRead(m, b).wb = m.wb
         /\ LoadRead(m, b).pages = m.pages
         /\ LoadRead(m, b).rb.bnum = b /\ LoadRead(m, b).rb.bytes = Page(m, b)
         /\ Copied(LoadRead(m, b), s)
<1>1. b \in Pages
  BY ChainEnds
<1>2. /\ SameBlocks(m, LoadRead(m, b)) /\ LoadRead(m, b).wb = m.wb
      /\ LoadRead(m, b).pages = m.pages
      /\ LoadRead(m, b).rb.bnum = b
      /\ LoadRead(m, b).rb.bytes = IF m.rb.bnum = b THEN m.rb.bytes ELSE Page(m, b)
  BY <1>1, LoadReadKeeps
<1>3. LoadRead(m, b).rb.bytes = Page(m, b)
  BY <1>2 DEF Copied
<1>4. Page(LoadRead(m, b), b) = Page(m, b)
  BY <1>1, <1>2 DEF SameBlocks
<1> QED BY <1>2, <1>3, <1>4 DEF Copied

(* get moves on by one letter, to the next block at the end of one, and    *)
(* stays where it is at the end of the last.                               *)
LEMMA GetByteMoves ==
  ASSUME NEW m \in Memory, NEW s \in Object, Chained(m, s), Copied(m, s),
         NEW n, InBlock(m, s, n)
  PROVE  LET g == GetByte(m, s)
             tail == Page(m, s.last)[TailPlace] IN
         /\ g.mem = LoadRead(m, s.curr) /\ g.obj \in Object
         /\ g.obj.count = s.count /\ g.obj.first = s.first /\ g.obj.last = s.last
         /\ \/ n = s.count /\ s.offs = tail /\ g.obj = s /\ g.c = 0
            \/ /\ n # s.count \/ s.offs < tail
               /\ g.c = Page(m, s.curr)[s.offs]
               /\ \/ InBlock(m, g.obj, n) /\ g.obj.offs = s.offs + 1
                  \/ /\ n # s.count /\ s.offs = TailPlace
                     /\ InBlock(m, g.obj, n + 1) /\ g.obj.offs = 0
<1> DEFINE g == GetByte(m, s)
           tail == Page(m, s.last)[TailPlace]
           page == Page(m, s.curr)
<1>1. /\ s.count \in Nat /\ n \in 0 .. s.count /\ n \in Nat /\ s.curr = BlockAt(m, s, n)
      /\ s.curr \in BlocksOf(m, s) /\ s.curr \in Pages /\ s.curr \in Spare
  <2>1. s.count \in Nat /\ n \in 0 .. s.count /\ s.curr = BlockAt(m, s, n)
    BY Sizes DEF InBlock, Object
  <2>2. s.curr \in BlocksOf(m, s)
    BY <2>1 DEF BlocksOf
  <2> QED BY <2>1, <2>2, ChainEnds
<1>2. /\ LoadRead(m, s.curr).rb.bytes = page /\ page \in Bytes
  BY <1>1, LoadOwn, PageType
<1>3. s.curr = s.last <=> n = s.count
  BY <1>1 DEF Chained
<1>4. tail \in 0 .. TailPlace /\ s.offs \in 0 .. TailPlace /\ TailPlace \in Nat
  BY Sizes DEF Chained, Object
<1> HIDE DEF tail
<1>5. CASE n = s.count /\ s.offs >= tail
  <2>1. page[TailPlace] = tail
    BY <1>3, <1>5 DEF tail
  <2>2. g = [mem |-> LoadRead(m, s.curr), obj |-> s, c |-> 0]
    BY <1>2, <1>3, <1>5, <2>1 DEF GetByte
  <2>3. s.offs = tail
    BY <1>4, <1>5 DEF InBlock, tail
  <2> QED BY <1>5, <2>2, <2>3 DEF tail
<1>6. CASE ~(n = s.count /\ s.offs >= tail)
  <2>1. ~(s.curr = s.last /\ s.offs >= page[TailPlace])
    BY <1>3, <1>6 DEF tail
  <2> DEFINE t == IF s.offs + 1 > TailPlace /\ s.curr # s.last
                  THEN [s EXCEPT !.curr = page[NextPlace], !.offs = 0]
                  ELSE [s EXCEPT !.offs = @ + 1]
  <2>2. g = [mem |-> LoadRead(m, s.curr), c |-> page[s.offs], obj |-> t]
    BY <1>2, <2>1 DEF GetByte
  <2>3. n # s.count \/ s.offs < tail
    BY <1>4, <1>6
  <2>4. CASE s.offs = TailPlace /\ n # s.count
    <3>1. t = [s EXCEPT !.curr = page[NextPlace], !.offs = 0]
      BY <1>3, <1>4, <2>4
    <3>2. page[NextPlace] = BlockAt(m, s, n + 1) /\ n + 1 \in 0 .. s.count /\ n + 1 # 0
      BY <1>1, <2>4, BlockAtNext
    <3>3. page[NextPlace] \in Pages
      BY <3>2 DEF Chained, Spare
    <3>9. t = [count |-> s.count, first |-> s.first, last |-> s.last,
               curr |-> page[NextPlace], offs |-> 0]
      BY <3>1 DEF Object
    <3>4. t \in Object
      BY <1>4, <3>3, <3>9 DEF Object
    <3>5. /\ t.count = s.count /\ t.first = s.first /\ t.last = s.last
          /\ t.curr = page[NextPlace] /\ t.offs = 0
      BY <3>9
    <3>6. SameWay(m, s, m, t, s.count)
      BY <1>1, <3>5 DEF SameWay
    <3>7. BlockAt(m, t, n + 1) = BlockAt(m, s, n + 1)
      BY <3>2, <3>6, ChainSame
    <3>8. InBlock(m, t, n + 1)
      BY <1>4, <3>2, <3>5, <3>7 DEF InBlock, tail
    <3> HIDE DEF t
    <3> QED BY <2>2, <2>3, <2>4, <3>4, <3>5, <3>8 DEF tail
  <2>5. CASE ~(s.offs = TailPlace /\ n # s.count)
    <3>1. t = [s EXCEPT !.offs = @ + 1] /\ s.offs + 1 \in 0 .. TailPlace
      BY <1>3, <1>4, <2>3, <2>5
    <3>2. t \in Object
      BY <3>1 DEF Object
    <3>3. /\ t.count = s.count /\ t.first = s.first /\ t.last = s.last
          /\ t.curr = s.curr /\ t.offs = s.offs + 1
      BY <3>1 DEF Object
    <3>4. SameWay(m, s, m, t, s.count)
      BY <1>1, <3>3 DEF SameWay
    <3>5. BlockAt(m, t, n) = BlockAt(m, s, n)
      BY <1>1, <3>4, ChainSame
    <3>6. /\ n = 0 => t.offs >= HeaderSize
          /\ n = s.count => t.offs <= Page(m, t.last)[TailPlace]
      BY <1>1, <1>4, <2>3, <3>3, Sizes DEF InBlock, tail
    <3>7. InBlock(m, t, n)
      BY <1>1, <3>3, <3>5, <3>6 DEF InBlock
    <3> HIDE DEF t
    <3> QED BY <2>2, <2>3, <3>2, <3>3, <3>7 DEF tail
  <2> QED BY <2>4, <2>5
<1> QED BY <1>5, <1>6

(* open goes back to the first letter.                                     *)
LEMMA OpenFinds ==
  ASSUME NEW m \in Memory, NEW s \in Object, Chained(m, s), Reading(m, s)
  PROVE  LET t == OpenObject(m, s.first) IN
         /\ t \in Object /\ InBlock(m, t, 0) /\ t.offs = HeaderSize
         /\ t.count = s.count /\ t.first = s.first /\ t.last = s.last
<1> DEFINE t == OpenObject(m, s.first)
<1>1. s.count \in Nat /\ s.first \in BlocksOf(m, s)
  BY Sizes, ChainEnds DEF Object
<1>2. LoadRead(m, s.first).rb.bytes = Page(m, s.first)
  BY <1>1, LoadOwn DEF Reading
<1>3. t = [count |-> s.count, first |-> s.first, last |-> s.last, curr |-> s.first,
           offs |-> HeaderSize]
  BY <1>2 DEF OpenObject, OpenRead, Reading
<1>4. t \in Object
  BY <1>3, Sizes DEF Object
<1>5. InBlock(m, t, 0)
  <2>1. t.curr = BlockAt(m, t, 0)
    BY <1>3, BlockAtZero
  <2> QED BY <1>1, <1>3, <2>1, Sizes DEF InBlock, Chained
<1> QED BY <1>3, <1>4, <1>5

(* Reading a stash changes nothing else of it.                             *)
LEMMA ReadKept ==
  ASSUME NEW m \in Memory, NEW m2, SameBlocks(m, m2), NEW s \in Object, NEW t \in Object,
         t.count = s.count, t.first = s.first, t.last = s.last,
         NEW o, NEW g, Kept(o, m, s, g), g # "writing", Copied(m2, s),
         NEW n, InBlock(m, t, n)
  PROVE  /\ Kept(o, m2, t, g) /\ BlocksOf(m2, t) = BlocksOf(m, s)
         /\ LengthOf(m2, t) = LengthOf(m, s) /\ InBlock(m2, t, n)
<1>1. Chained(m, s) /\ Reading(m, s) /\ s.count \in Nat
  BY Sizes DEF Kept, Object
<1>2. BlocksOf(m, s) \subseteq Pages /\ s.first \in BlocksOf(m, s) /\ s.last \in BlocksOf(m, s)
  BY <1>1, ChainEnds
<1>3. \A b \in BlocksOf(m, s) : Page(m2, b) = Page(m, b)
  BY <1>2 DEF SameBlocks
<1>4. /\ \A k \in 0 .. s.count : BlockAt(m2, t, k) = BlockAt(m, s, k)
      /\ BlocksOf(m2, t) = BlocksOf(m, s) /\ Chained(m2, t)
      /\ LengthOf(m2, t) = LengthOf(m, s)
  BY <1>1, <1>3, ChainKept
<1>5. InBlock(m2, t, n)
  <2>1. SameWay(m, s, m, t, s.count)
    BY <1>1 DEF SameWay
  <2>2. \A k \in 0 .. s.count : BlockAt(m, t, k) = BlockAt(m, s, k)
    BY <2>1, ChainSame
  <2>3. Page(m2, t.last) = Page(m, t.last)
    BY <1>2, <1>3
  <2> QED BY <1>4, <2>2, <2>3 DEF InBlock
<1>6. Copied(m2, t)
  <2>1. Page(m2, m2.rb.bnum) = Page(m2, m2.rb.bnum) /\ BlocksOf(m2, s) = BlocksOf(m2, t)
    <3>1. BlocksOf(m2, s) = BlocksOf(m, s)
      BY <1>1, <1>3, ChainKept
    <3> QED BY <1>4, <3>1
  <2> QED BY <2>1 DEF Copied
<1>7. Reading(m2, t)
  <2>1. Page(m2, t.first) = Page(m, s.first)
    BY <1>2, <1>3
  <2>2. n \in 0 .. t.count
    BY <1>5 DEF InBlock
  <2> QED BY <1>1, <1>5, <1>6, <2>1, <2>2 DEF Reading
<1> QED BY <1>4, <1>5, <1>7 DEF Kept

(* What the invariant says of one stash.                                   *)
LEMMA LiveFacts ==
  ASSUME StashInv, NEW o \in Live
  PROVE  /\ o \in Objs /\ mem \in Memory /\ obj[o] \in Object /\ obj[o].count \in Nat
         /\ Kept(o, mem, obj[o], stage[o]) /\ Chained(mem, obj[o])
         /\ stage[o] = "writing" => Writing(mem, obj[o])
         /\ stage[o] # "writing" => Reading(mem, obj[o]) /\ Copied(mem, obj[o])
         /\ Owned(o) = BlocksOf(mem, obj[o]) /\ Owned(o) \subseteq Pages
         /\ Owned(o) \subseteq Spare
         /\ obj[o].first \in Owned(o) /\ obj[o].last \in Owned(o)
         /\ Owned(o) \intersect mem.free = {}
         /\ \A p \in Live : p # o => Owned(p) \intersect Owned(o) = {}
<1>1. o \in Objs /\ mem \in Memory /\ obj[o] \in Object
  BY DEF StashInv, Types, Live
<1>2. obj[o].count \in Nat
  BY <1>1, Sizes DEF Object
<1>3. Kept(o, mem, obj[o], stage[o])
  BY DEF StashInv
<1>4. Chained(mem, obj[o])
  BY <1>3 DEF Kept
<1>5. /\ stage[o] = "writing" => Writing(mem, obj[o])
      /\ stage[o] # "writing" => Reading(mem, obj[o]) /\ Copied(mem, obj[o])
  BY <1>3 DEF Kept, Reading
<1>6. /\ Owned(o) \intersect mem.free = {}
      /\ \A p \in Live : p # o => Owned(p) \intersect Owned(o) = {}
  BY DEF StashInv, BlocksDisjoint
<1> QED BY <1>1, <1>2, <1>3, <1>4, <1>5, <1>6, ChainEnds DEF Owned

(* The message goes on describing the stash it was prepared from, in a     *)
(* step that changes neither that nor block 0.                             *)
LEMMA MessageKept ==
  ASSUME StashInv, UNCHANGED prepared,
         \A p \in Objs : stage'[p] = "prepared" <=> stage[p] = "prepared",
         Page(mem', 0) = Page(mem, 0),
         \A p \in Live : stage[p] = "prepared" =>
           /\ obj'[p].first = obj[p].first /\ obj'[p].count = obj[p].count
           /\ obj'[p].last = obj[p].last
           /\ \A b \in Owned(p) : Page(mem', b) = Page(mem, b)
  PROVE  Message'
<1>1. ASSUME prepared # Nothing
      PROVE  /\ LengthOf(mem', obj'[prepared]) = LengthOf(mem, obj[prepared])
             /\ obj'[prepared].first = obj[prepared].first
  <2>1. prepared \in Live /\ stage[prepared] = "prepared"
    BY <1>1 DEF StashInv, Types, Message, Live
  <2>2. Chained(mem, obj[prepared]) /\ obj[prepared].count \in Nat
    BY <2>1, LiveFacts
  <2>3. \A b \in BlocksOf(mem, obj[prepared]) : Page(mem', b) = Page(mem, b)
    BY <2>1 DEF Owned
  <2>4. /\ obj'[prepared].first = obj[prepared].first
        /\ obj'[prepared].count = obj[prepared].count
        /\ obj'[prepared].last = obj[prepared].last
    BY <2>1
  <2>5. LengthOf(mem', obj'[prepared]) = LengthOf(mem, obj[prepared])
    BY <2>2, <2>3, <2>4, ChainKept
  <2> QED BY <2>4, <2>5
<1> QED BY <1>1 DEF StashInv, Message

(* So a step that only reads the stash of o keeps the invariant.           *)
LEMMA ReadStep ==
  ASSUME StashInv, NEW o \in Live, stage[o] # "writing",
         NEW t \in Object, NEW n, InBlock(mem, t, n),
         t.count = obj[o].count, t.first = obj[o].first, t.last = obj[o].last,
         NEW b \in Owned(o), mem' = LoadRead(mem, b),
         obj' = [obj EXCEPT ![o] = t], UNCHANGED <<sketch, stage, prepared>>
  PROVE  StashInv' /\ Apart(o)
<1>1. obj' \in [Objs -> Object] /\ obj'[o] = t /\ \A p \in Objs : p # o => obj'[p] = obj[p]
  BY DEF StashInv, Types, Live
<1>2. o \in Objs /\ Kept(o, mem, obj[o], stage[o])
  BY LiveFacts
<1>3. /\ SameBlocks(mem, mem') /\ mem'.wb = mem.wb /\ mem'.rb.bnum = b
      /\ Copied(mem', obj[o])
  BY LiveFacts, LoadOwn
<1>4. /\ Kept(o, mem', t, stage[o]) /\ BlocksOf(mem', t) = Owned(o)
      /\ LengthOf(mem', t) = LengthOf(mem, obj[o])
  BY <1>2, <1>3, LiveFacts, ReadKept
<1>5. Live' = Live /\ \A p \in Live : Owned(p) \subseteq Pages
  BY LiveFacts DEF Live
<1>6. Apart(o)
  <2>1. \A p \in Live : p # o => b \notin Owned(p)
    BY LiveFacts
  <2> QED BY <1>1, <1>3, <1>5, <2>1 DEF Apart, SameBlocks
<1>7. Types'
  BY <1>1, <1>3 DEF StashInv, Types, SameBlocks
<1>8. Message'
  <2>1. Page(mem', 0) = Page(mem, 0)
    BY <1>3, Sizes DEF SameBlocks
  <2>2. ASSUME NEW p \in Live
        PROVE  /\ obj'[p].first = obj[p].first /\ obj'[p].count = obj[p].count
               /\ obj'[p].last = obj[p].last
               /\ \A c \in Owned(p) : Page(mem', c) = Page(mem, c)
    BY <1>1, <1>3, <1>5 DEF SameBlocks, Live
  <2> QED BY <2>1, <2>2, MessageKept
<1>9. Held(o)' = Held(o)
  BY <1>1, <1>4, <1>5 DEF Held, Owned
<1>10. Held(o) \intersect mem.free = {} /\ mem'.free = mem.free
  BY <1>3 DEF StashInv, BlocksDisjoint, Held, SameBlocks
<1>11. Kept(o, mem', obj'[o], stage'[o])
  BY <1>1, <1>4
<1> QED BY <1>2, <1>6, <1>7, <1>8, <1>9, <1>10, <1>11, StepInv

(* get keeps the invariant.                                                *)
LEMMA GetInv == ASSUME StashInv, NEW o \in Objs, Get(o) PROVE StashInv' /\ Apart(o)
<1> DEFINE s == obj[o]
           g == GetByte(mem, s)
<1>1. o \in Live /\ stage[o] # "writing"
  BY DEF Get, Readable, Live
<1>2. PICK n : InBlock(mem, s, n)
  BY <1>1, LiveFacts DEF Reading
<1>3. /\ g.mem = LoadRead(mem, s.curr) /\ g.obj \in Object
      /\ g.obj.count = s.count /\ g.obj.first = s.first /\ g.obj.last = s.last
      /\ \E k : InBlock(mem, g.obj, k)
  <2>1. mem \in Memory /\ s \in Object /\ Chained(mem, s) /\ Copied(mem, s)
    BY <1>1, LiveFacts
  <2> HIDE DEF s
  <2> QED BY <1>2, <2>1, GetByteMoves
<1>4. s.curr \in Owned(o)
  BY <1>2 DEF InBlock, Owned, BlocksOf
<1>5. /\ mem' = LoadRead(mem, s.curr) /\ obj' = [obj EXCEPT ![o] = g.obj]
      /\ UNCHANGED <<sketch, stage, prepared>>
  BY <1>3 DEF Get
<1> HIDE DEF g
<1> QED BY <1>1, <1>3, <1>4, <1>5, ReadStep

(* So does opening a stash again.                                          *)
LEMMA OpenInv == ASSUME StashInv, NEW o \in Objs, Open(o) PROVE StashInv' /\ Apart(o)
<1> DEFINE s == obj[o]
           t == OpenObject(mem, s.first)
<1>1. o \in Live /\ stage[o] # "writing"
  BY DEF Open, Readable, Live
<1>2. /\ t \in Object /\ InBlock(mem, t, 0)
      /\ t.count = s.count /\ t.first = s.first /\ t.last = s.last
  BY <1>1, LiveFacts, OpenFinds
<1>3. /\ mem' = LoadRead(mem, s.first) /\ s.first \in Owned(o)
      /\ obj' = [obj EXCEPT ![o] = t] /\ UNCHANGED <<sketch, stage, prepared>>
  BY <1>1, LiveFacts DEF Open, OpenRead
<1> HIDE DEF t
<1> QED BY <1>1, <1>2, <1>3, ReadStep

(* Loading a block and changing it changes no other, and leaves no copy of *)
(* it behind unless it was loaded already.                                 *)
LEMMA OneBlock ==
  ASSUME NEW m \in Memory, NEW b \in Pages, NEW bytes \in Bytes
  PROVE  LET m2 == Write(LoadWrite(m, b), bytes) IN
         /\ m2 \in Memory /\ m2.free = m.free /\ m2.wb.bnum = b
         /\ \A c \in Pages : Page(m2, c) = IF c = b THEN bytes ELSE Page(m, c)
         /\ m2.rb = m.rb \/ m2.rb.bnum = None
         /\ m.wb.bnum # b => m2.rb.bnum # b
<1> DEFINE w == LoadWrite(m, b)
<1>1. /\ w \in Memory /\ w.free = m.free /\ \A c \in Pages : Page(w, c) = Page(m, c)
      /\ w.wb = [bnum |-> b, bytes |-> Page(m, b)] /\ w.rb.bytes = m.rb.bytes
      /\ w.rb.bnum = IF m.wb.bnum # b /\ m.rb.bnum = b THEN None ELSE m.rb.bnum
  BY LoadWriteKeeps DEF SameBlocks
<1> HIDE DEF w
<1>2. w.rb = m.rb \/ w.rb.bnum = None
  BY <1>1 DEF Memory
<1>3. m.wb.bnum # b => w.rb.bnum # b
  <2>1. None # b
    BY Sizes
  <2> QED BY <1>1, <2>1
<1>4. /\ Write(w, bytes) \in Memory /\ Write(w, bytes).free = w.free
      /\ Write(w, bytes).rb = w.rb
      /\ Write(w, bytes).wb = [bnum |-> w.wb.bnum, bytes |-> bytes]
      /\ \A c \in Pages : Page(Write(w, bytes), c) = IF c = w.wb.bnum THEN bytes ELSE Page(w, c)
  <2>1. w \in Memory
    BY <1>1
  <2> QED BY <2>1, WriteChanges
<1> QED BY <1>1, <1>2, <1>3, <1>4 DEF w

(* save keeps the invariant: it puts the header into the first block, and  *)
(* makes the read buffer forget the copy that create left there.           *)
LEMMA SaveInv ==
  ASSUME StashInv, NEW o \in Objs, Save(o)
  PROVE  StashInv' /\ Apart(o) /\ SameLetters(mem, obj[o], mem')
<1> DEFINE s == obj[o]
           head == [Page(mem, s.first) EXCEPT ![Header.count] = s.count,
                      ![Header.first] = s.first, ![Header.last] = s.last]
           m == Write(LoadWrite(mem, s.first), head)
<1>1. o \in Live /\ stage[o] = "writing"
  BY DEF Save, Live
<1>2. /\ mem \in Memory /\ s \in Object /\ s.count \in Nat /\ s.first \in Nat /\ s.last \in Nat
      /\ s.first \in Spare /\ s.first \in Pages /\ s.first # 0
      /\ Chained(mem, s) /\ Writing(mem, s) /\ Owned(o) = BlocksOf(mem, s)
      /\ Kept(o, mem, s, "writing") /\ s.first \in Owned(o) /\ s.last \in Owned(o)
      /\ Owned(o) \subseteq Spare /\ Owned(o) \subseteq Pages
  <2>1. s \in Object /\ s.first \in Owned(o) /\ Owned(o) \subseteq Spare
    BY <1>1, LiveFacts
  <2>2. s.first \in Nat /\ s.last \in Nat /\ s.first \in Pages /\ s.first # 0
    <3>1. s.first \in Pages /\ s.last \in Pages /\ s.first # 0
      BY <2>1 DEF Object, Spare
    <3> HIDE DEF s
    <3> QED BY <3>1, Sizes
  <2> QED BY <1>1, <2>1, <2>2, LiveFacts
<1>3. /\ head \in Bytes /\ head[Header.count] = s.count /\ head[Header.first] = s.first
      /\ head[Header.last] = s.last
      /\ head[NextPlace] = Page(mem, s.first)[NextPlace]
      /\ head[TailPlace] = Page(mem, s.first)[TailPlace]
      /\ \A p \in 0 .. TailPlace : p >= HeaderSize => head[p] = Page(mem, s.first)[p]
  <2>1. Page(mem, s.first) \in Bytes
    BY <1>2, PageType
  <2> HIDE DEF s
  <2> QED BY <1>2, <2>1, Sizes DEF Bytes
<1> HIDE DEF head
<1>4. /\ m \in Memory /\ m.free = mem.free /\ m.wb.bnum = s.first
      /\ \A c \in Pages : Page(m, c) = IF c = s.first THEN head ELSE Page(mem, c)
      /\ m.rb = mem.rb \/ m.rb.bnum = None
  BY <1>2, <1>3, OneBlock
<1>5. mem' = IF m.rb.bnum = s.first THEN LoadRead(m, 0) ELSE m
  <2>1. LoadWrite(mem, s.first).wb = [bnum |-> s.first, bytes |-> Page(mem, s.first)]
    BY <1>2, LoadWriteKeeps
  <2> QED BY <2>1 DEF Save, head
<1> HIDE DEF m
<1>6. /\ mem' \in Memory /\ mem'.free = mem.free /\ mem'.wb.bnum = s.first
      /\ \A c \in Pages : Page(mem', c) = IF c = s.first THEN head ELSE Page(mem, c)
      /\ mem'.rb.bnum # s.first
      /\ mem'.rb = mem.rb \/ mem'.rb.bnum \in {0, None}
  <2>1. CASE m.rb.bnum = s.first
    <3>1. /\ SameBlocks(m, LoadRead(m, 0)) /\ LoadRead(m, 0).wb = m.wb
          /\ LoadRead(m, 0).rb.bnum = 0
      <4>1. m \in Memory /\ 0 \in Pages
        BY <1>4, Sizes
      <4> QED BY <4>1, LoadReadKeeps
    <3>2. mem' = LoadRead(m, 0)
      BY <1>5, <2>1
    <3>3. /\ mem' \in Memory /\ mem'.free = m.free
          /\ \A c \in Pages : Page(mem', c) = Page(m, c)
      BY <3>1, <3>2 DEF SameBlocks
    <3>4. mem'.rb.bnum = 0 /\ mem'.wb = m.wb /\ s.first # 0
      BY <1>2, <3>1, <3>2
    <3> HIDE DEF s
    <3> QED BY <1>4, <3>3, <3>4
  <2>2. CASE m.rb.bnum # s.first
    <3>1. mem' = m
      BY <1>5, <2>2
    <3> HIDE DEF s
    <3> QED BY <1>4, <2>2, <3>1
  <2> QED BY <2>1, <2>2
<1>7. 0 \notin Spare /\ None \notin Spare
  BY Sizes DEF Spare
<1>8. \A b \in Owned(o) : /\ Page(mem', b)[NextPlace] = Page(mem, b)[NextPlace]
                         /\ Page(mem', b)[TailPlace] = Page(mem, b)[TailPlace]
  BY <1>2, <1>3, <1>6
<1>9. /\ Chained(mem', s) /\ BlocksOf(mem', s) = BlocksOf(mem, s)
      /\ LengthOf(mem', s) = LengthOf(mem, s)
  BY <1>2, <1>8, ChainKept
<1>10. Reading(mem', s)
  <2>1. Page(mem', s.first) = head
    BY <1>2, <1>6
  <2>2. mem'.rb.bnum \notin BlocksOf(mem', s)
    <3>1. mem.rb.bnum \in BlocksOf(mem, s) => mem.rb.bnum = s.first
      BY <1>2 DEF Writing
    <3>2. BlocksOf(mem', s) = BlocksOf(mem, s) /\ BlocksOf(mem, s) \subseteq Spare
      BY <1>2, <1>9
    <3>3. mem'.rb = mem.rb => mem'.rb.bnum \notin BlocksOf(mem, s)
      BY <1>6, <3>1
    <3> QED BY <1>6, <1>7, <3>2, <3>3
  <2>3. InBlock(mem', s, 0)
    <3>1. s.curr = s.first /\ s.offs = HeaderSize
      BY <1>2 DEF Writing
    <3>2. s.curr = BlockAt(mem', s, 0)
      BY <3>1, BlockAtZero
    <3>3. 0 = s.count => s.offs <= Page(mem', s.last)[TailPlace]
      <4>1. /\ Page(mem', s.last)[TailPlace] \in 0 .. TailPlace
            /\ s.count = 0 => Page(mem', s.last)[TailPlace] >= HeaderSize
        BY <1>9 DEF Chained
      <4> HIDE DEF s
      <4> QED BY <3>1, <4>1, Sizes
    <3>4. 0 \in 0 .. s.count
      BY <1>2
    <3> QED BY <3>1, <3>2, <3>3, <3>4, Sizes DEF InBlock
  <2>4. 0 \in 0 .. s.count
    BY <1>2
  <2> QED BY <1>3, <2>1, <2>2, <2>3, <2>4 DEF Reading, Copied
<1>11. /\ stage' = [stage EXCEPT ![o] = "saved"]
       /\ UNCHANGED <<sketch, obj, prepared>>
  BY DEF Save
<1>12. /\ stage' \in [Objs -> Stages] /\ stage'[o] = "saved"
       /\ \A p \in Objs : p # o => stage'[p] = stage[p]
  BY <1>11 DEF StashInv, Types, Stages
<1>13. Kept(o, mem', obj'[o], stage'[o])
  BY <1>2, <1>9, <1>10, <1>11, <1>12 DEF Kept
<1>14. Types'
  BY <1>1, <1>2, <1>6, <1>11, <1>12, LiveFacts DEF StashInv, Types
<1>15. Apart(o)
  <2>1. ASSUME NEW p \in Live, p # o
        PROVE  /\ \A b \in Owned(p) : Page(mem', b) = Page(mem, b)
               /\ mem'.rb.bnum \in Owned(p) => mem'.rb = mem.rb
    <3>1. Owned(p) \subseteq Spare /\ Owned(p) \subseteq Pages /\ s.first \notin Owned(p)
      BY <1>1, <1>2, <2>1, LiveFacts
    <3> QED BY <1>6, <1>7, <3>1
  <2> QED BY <1>11, <1>12, <2>1 DEF Apart
<1>16. Message'
  <2>1. Page(mem', 0) = Page(mem, 0)
    BY <1>2, <1>6, Sizes
  <2>2. \A p \in Objs : stage'[p] = "prepared" <=> stage[p] = "prepared"
    BY <1>1, <1>12
  <2>3. ASSUME NEW p \in Live, stage[p] = "prepared"
        PROVE  \A b \in Owned(p) : Page(mem', b) = Page(mem, b)
    BY <1>1, <1>15, <2>3 DEF Apart
  <2> QED BY <1>11, <2>1, <2>2, <2>3, MessageKept
<1>17. Held(o)' = Owned(o) /\ Held(o) = Owned(o)
  BY <1>1, <1>2, <1>9, <1>11, <1>12 DEF Held, Live, Owned
<1>18. Owned(o) \intersect mem.free = {}
  BY <1>1, LiveFacts
<1>19. SameLetters(mem, s, mem')
  BY <1>2, <1>3, <1>6 DEF SameLetters
<1>20. StashInv'
  BY <1>6, <1>13, <1>14, <1>15, <1>16, <1>17, <1>18, StepInv
<1> QED BY <1>15, <1>19, <1>20

-----------------------------------------------------------------------------
(* The spare blocks are finitely many, and so are those of any part of it. *)
LEMMA SpareSize ==
  /\ IsFiniteSet(Spare) /\ Cardinality(Spare) = Blocks - 1
  /\ \A T \in SUBSET Spare : IsFiniteSet(T) /\ Cardinality(T) \in Nat
<1>1. Spare = 1 .. Blocks - 1
  BY Sizes DEF Spare, Pages
<1>2. IsFiniteSet(Spare) /\ Cardinality(Spare) = Blocks - 1
  <2>1. 1 \in Int /\ Blocks - 1 \in Int /\ Blocks - 1 >= 0
    BY Sizes
  <2>2. /\ IsFiniteSet(1 .. Blocks - 1)
        /\ Cardinality(1 .. Blocks - 1) = IF 1 > Blocks - 1 THEN 0 ELSE Blocks - 1 - 1 + 1
    BY <2>1, FS_Interval
  <2> QED BY <1>1, <2>1, <2>2
<1> QED BY <1>2, FS_Subset, FS_CardinalityType

(* A set of spare blocks, listed without repetition.                       *)
Lists(T, e) ==
  /\ e \in [1 .. Cardinality(T) -> T]
  /\ \A i, j \in 1 .. Cardinality(T) : e[i] = e[j] => i = j

(* Every such set can be listed.                                           *)
LEMMA Listed == ASSUME NEW T \in SUBSET Spare PROVE \E e : Lists(T, e)
<1>1. IsFiniteSet(T)
  BY SpareSize
<1>2. ExistsBijection(1 .. Cardinality(T), T)
  BY <1>1, FS_CardinalityType
<1>3. PICK e : e \in Bijection(1 .. Cardinality(T), T)
  BY <1>2 DEF ExistsBijection
<1>4. Lists(T, e)
  BY <1>3 DEF Bijection, Injection, IsInjective, Lists
<1> QED BY <1>4

(* Fewer blocks hold less.                                                 *)
LEMMA TimesLess ==
  ASSUME NEW a \in Nat, NEW b \in Nat, NEW c \in Nat, a * b < a * c PROVE b < c
<1> SUFFICES ASSUME c <= b PROVE FALSE
  OBVIOUS
<1>1. PICK d \in Nat : b = c + d
  <2>1. b - c \in Nat /\ b = c + (b - c)
    OBVIOUS
  <2> QED BY <2>1
<1>2. a * b = a * c + a * d
  BY <1>1
<1>3. a * d \in Nat /\ a * c \in Nat
  OBVIOUS
<1> QED BY <1>2, <1>3

(* A chain that has one more block to take is not the whole memory.        *)
LEMMA ChainFits ==
  ASSUME NEW m, NEW s, s.count \in Nat, Chained(m, s)
  PROVE  s.count + 1 <= Blocks - 1
<1> DEFINE f == [n \in 0 .. s.count |-> BlockAt(m, s, n)]
<1>1. /\ IsFiniteSet(0 .. s.count) /\ Cardinality(0 .. s.count) = s.count + 1
  <2>1. 0 \in Int /\ s.count \in Int /\ ~(0 > s.count) /\ s.count - 0 + 1 = s.count + 1
    OBVIOUS
  <2> QED BY <2>1, FS_Interval
<1>2. f \in [0 .. s.count -> Spare] /\ \A i, j \in 0 .. s.count : f[i] = f[j] => i = j
  BY DEF Chained
<1> HIDE DEF f
<1>3. ~(Cardinality(Spare) < Cardinality(0 .. s.count))
  BY <1>1, <1>2, SpareSize, FS_PigeonHole
<1> QED BY <1>1, <1>3, SpareSize, Sizes

(* How many blocks o has, and what its chain may take for its text.        *)
Size(o) == IF o \in Live THEN obj[o].count + 1 ELSE 0

(* With room for the texts, a stash that has not all of its share finds a  *)
(* free block: were there none, the blocks of all the stashes would be all *)
(* the blocks there are, and they fit into the shares with one to spare.   *)
LEMMA RoomLeft ==
  ASSUME Room, StashInv, NEW o \in sketch.objs,
         NextPlace * Size(o) <= HeaderSize + Len(Letters[o])
  PROVE  mem.free # {}
<1> SUFFICES ASSUME mem.free = {} PROVE FALSE
  OBVIOUS
<1>1. PICK share \in [sketch.objs -> SUBSET Spare] :
        /\ \A p, q \in sketch.objs : p # q => share[p] \intersect share[q] = {}
        /\ \A p \in sketch.objs :
             NextPlace * Cardinality(share[p]) > HeaderSize + Len(Letters[p])
  BY DEF Room, StashInv, Types
<1>2. \A p \in sketch.objs : Len(Letters[p]) \in Nat /\ Cardinality(share[p]) \in Nat
  <2>1. sketch.objs \subseteq Objs
    BY StashAssumption DEF StashInv, Types
  <2> QED BY <2>1, StashAssumption, SpareSize
<1>3. Live \subseteq sketch.objs /\ \A p \in Live : obj[p].count \in Nat
  BY LiveFacts DEF Kept, StashInv
<1>4. ASSUME NEW p \in Live PROVE obj[p].count + 1 <= Cardinality(share[p])
  <2>1. /\ NextPlace * obj[p].count + Page(mem, obj[p].last)[TailPlace] - HeaderSize
             <= Len(Letters[p])
        /\ Page(mem, obj[p].last)[TailPlace] \in 0 .. TailPlace
    BY LiveFacts, Sizes DEF Kept, LengthOf, Chained
  <2>2. NextPlace * obj[p].count < NextPlace * Cardinality(share[p])
    <3>1. /\ NextPlace * obj[p].count \in Int /\ NextPlace * Cardinality(share[p]) \in Int
          /\ Page(mem, obj[p].last)[TailPlace] \in Nat /\ HeaderSize \in Int
      BY <1>2, <1>3, <2>1, Sizes
    <3>2. NextPlace * Cardinality(share[p]) > HeaderSize + Len(Letters[p])
      BY <1>1, <1>3
    <3>3. Len(Letters[p]) \in Nat
      BY <1>2, <1>3
    <3> QED BY <2>1, <3>1, <3>2, <3>3
  <2>3. /\ NextPlace \in Nat /\ obj[p].count \in Nat /\ Cardinality(share[p]) \in Nat
    BY <1>2, <1>3, Sizes
  <2>4. obj[p].count < Cardinality(share[p])
    BY <2>2, <2>3, TimesLess
  <2> QED BY <2>3, <2>4
<1>5. Size(o) < Cardinality(share[o]) /\ Size(o) \in Nat
  <2>1. Size(o) \in Nat
    BY <1>3 DEF Size
  <2>2. NextPlace * Size(o) < NextPlace * Cardinality(share[o])
    <3>1. /\ NextPlace * Size(o) \in Int /\ NextPlace * Cardinality(share[o]) \in Int
          /\ HeaderSize \in Int
      BY <1>2, <2>1, Sizes
    <3> QED BY <1>1, <1>2, <3>1
  <2>3. NextPlace \in Nat /\ Cardinality(share[o]) \in Nat
    BY <1>2, Sizes
  <2> QED BY <2>1, <2>2, <2>3, TimesLess
<1> DEFINE e[p \in sketch.objs] == CHOOSE h : Lists(share[p], h)
<1>6. \A p \in sketch.objs : Lists(share[p], e[p])
  BY <1>1, Listed
<1> HIDE DEF e
<1>7. \A b \in Spare : \E p \in Live, n \in Nat :
        n \in 0 .. obj[p].count /\ b = BlockAt(mem, obj[p], n)
  BY <1>3 DEF StashInv, Shared, Owned, BlocksOf
<1> DEFINE owner[b \in Spare] == CHOOSE p \in Live :
             \E n \in 0 .. obj[p].count : b = BlockAt(mem, obj[p], n)
           index[b \in Spare] == CHOOSE n \in 0 .. obj[owner[b]].count :
             b = BlockAt(mem, obj[owner[b]], n)
           x == e[o][Size(o) + 1]
           f == [b \in Spare |-> e[owner[b]][index[b] + 1]]
<1>8. ASSUME NEW b \in Spare
      PROVE  /\ owner[b] \in Live /\ index[b] \in 0 .. obj[owner[b]].count
             /\ b = BlockAt(mem, obj[owner[b]], index[b])
  <2>1. \E p \in Live : \E n \in 0 .. obj[p].count : b = BlockAt(mem, obj[p], n)
    BY <1>7
  <2>2. /\ owner[b] \in Live
        /\ \E n \in 0 .. obj[owner[b]].count : b = BlockAt(mem, obj[owner[b]], n)
    BY <2>1
  <2> HIDE DEF owner
  <2> QED BY <2>2
<1> HIDE DEF owner, index
<1>9. ASSUME NEW b \in Spare
      PROVE  /\ owner[b] \in sketch.objs /\ index[b] \in Nat
             /\ index[b] + 1 \in 1 .. Cardinality(share[owner[b]])
             /\ f[b] = e[owner[b]][index[b] + 1] /\ f[b] \in share[owner[b]]
  <2>1. owner[b] \in sketch.objs /\ owner[b] \in Live /\ index[b] \in Nat
    BY <1>3, <1>8
  <2>2. index[b] + 1 \in 1 .. Cardinality(share[owner[b]])
    BY <1>2, <1>3, <1>4, <1>8, <2>1
  <2> QED BY <1>6, <2>1, <2>2 DEF Lists
<1>10. Size(o) + 1 \in 1 .. Cardinality(share[o]) /\ x \in share[o] /\ x \in Spare
  <2>1. Size(o) + 1 \in 1 .. Cardinality(share[o])
    BY <1>2, <1>5
  <2> QED BY <1>1, <1>6, <2>1 DEF Lists
<1> HIDE DEF f, x
<1>11. \A b, c \in Spare : f[b] = f[c] => b = c
  <2> SUFFICES ASSUME NEW b \in Spare, NEW c \in Spare, f[b] = f[c] PROVE b = c
    OBVIOUS
  <2>1. owner[b] = owner[c]
    BY <1>1, <1>9
  <2>2. index[b] + 1 = index[c] + 1
    BY <1>6, <1>9, <2>1 DEF Lists
  <2>3. index[b] = index[c]
    BY <1>9, <2>2
  <2> QED BY <1>8, <2>1, <2>3
<1>12. \A b \in Spare : f[b] \in Spare \ {x}
  <2> SUFFICES ASSUME NEW b \in Spare PROVE f[b] \in Spare /\ f[b] # x
    OBVIOUS
  <2>1. f[b] \in Spare
    BY <1>1, <1>9
  <2>2. ASSUME f[b] = x PROVE FALSE
    <3>1. owner[b] = o
      BY <1>1, <1>9, <1>10, <2>2
    <3>2. index[b] + 1 = Size(o) + 1
      BY <1>6, <1>9, <1>10, <2>2, <3>1 DEF Lists, x
    <3>3. o \in Live /\ index[b] \in 0 .. obj[o].count
      BY <1>8, <3>1
    <3>4. Size(o) = obj[o].count + 1
      BY <3>3 DEF Size
    <3> QED BY <1>3, <3>2, <3>3, <3>4
  <2> QED BY <2>1, <2>2
<1>13. f \in [Spare -> Spare \ {x}]
  BY <1>12 DEF f
<1>14. /\ IsFiniteSet(Spare \ {x}) /\ Cardinality(Spare \ {x}) = Cardinality(Spare) - 1
       /\ Cardinality(Spare) \in Nat /\ IsFiniteSet(Spare)
  <2>1. IsFiniteSet(Spare) /\ Cardinality(Spare) \in Nat
    BY SpareSize, FS_CardinalityType
  <2> QED BY <1>10, <2>1, FS_RemoveElement
<1>15. Cardinality(Spare \ {x}) < Cardinality(Spare)
  BY <1>14
<1>16. \E b, c \in Spare : b # c /\ f[b] = f[c]
  BY <1>13, <1>14, <1>15, FS_PigeonHole
<1> QED BY <1>11, <1>16

(* create keeps the invariant: it takes a free block, and reads the header *)
(* that it has written, as load has made the read buffer forget the block. *)
LEMMA CreateInv ==
  ASSUME StashInv, Room, NEW o \in Objs, Create(o)
  PROVE  StashInv' /\ Apart(o) /\ LengthOf(mem', obj'[o]) = 0
<1> DEFINE b == AllocBlock(mem)
           head == [Page(mem, b) EXCEPT ![Header.count] = 0, ![Header.first] = b,
                      ![Header.last] = b, ![TailPlace] = HeaderSize, ![NextPlace] = 0]
           m == Write(LoadWrite(Taken(mem), b), head)
           t == OpenObject(m, b)
<1>1. /\ o \in sketch.objs /\ stage[o] = "none" /\ o \notin Live /\ mem \in Memory
      /\ mem.wb.bnum \notin mem.free
  BY DEF Create, Live, StashInv, Types
<1>2. Len(Letters[o]) \in Nat
  BY StashAssumption
<1>3. mem.free # {}
  <2>1. Size(o) = 0 /\ NextPlace * 0 = 0
    BY <1>1, Sizes DEF Size
  <2> QED BY <1>1, <1>2, <2>1, RoomLeft, Sizes
<1>4. /\ b \in mem.free /\ b \in Spare /\ b \in Pages /\ b \in Nat /\ b # 0
      /\ Taken(mem) \in Memory /\ Taken(mem).free = mem.free \ {b}
      /\ Taken(mem).wb = mem.wb /\ Taken(mem).rb = mem.rb
      /\ \A c \in Pages : Page(Taken(mem), c) = Page(mem, c)
  <2>1. /\ b \in mem.free /\ b \in Spare
        /\ Taken(mem) \in Memory /\ Taken(mem).free = mem.free \ {b}
        /\ Taken(mem).wb = mem.wb /\ Taken(mem).rb = mem.rb
        /\ \A c \in Pages : Page(Taken(mem), c) = Page(mem, c)
    BY <1>1, <1>3, AllocTakes
  <2> HIDE DEF b
  <2>2. b \in Pages /\ b # 0
    BY <2>1 DEF Spare
  <2> QED BY <2>1, <2>2, Sizes
<1>5. LoadWrite(Taken(mem), b).wb = [bnum |-> b, bytes |-> Page(mem, b)]
  <2> HIDE DEF b
  <2>1. LoadWrite(Taken(mem), b).wb = [bnum |-> b, bytes |-> Page(Taken(mem), b)]
    BY <1>4, LoadWriteKeeps
  <2> QED BY <1>4, <2>1
<1>6. /\ mem' = LoadRead(m, b) /\ obj' = [obj EXCEPT ![o] = t]
      /\ stage' = [stage EXCEPT ![o] = "writing"] /\ UNCHANGED <<sketch, prepared>>
  BY <1>5 DEF Create, OpenRead
<1> HIDE DEF b
<1>7. /\ head \in Bytes /\ head[Header.count] = 0 /\ head[Header.first] = b
      /\ head[Header.last] = b /\ head[TailPlace] = HeaderSize /\ head[NextPlace] = 0
  <2>1. Page(mem, b) \in Bytes
    BY <1>1, <1>4, PageType
  <2> QED BY <1>4, <2>1, Sizes DEF Bytes
<1> HIDE DEF head
<1>8. /\ m \in Memory /\ m.free = mem.free \ {b} /\ m.wb.bnum = b
      /\ \A c \in Pages : Page(m, c) = IF c = b THEN head ELSE Page(mem, c)
      /\ m.rb.bnum # b
  BY <1>1, <1>4, <1>7, OneBlock
<1> HIDE DEF m
<1>9. /\ mem' \in Memory /\ mem'.free = mem.free \ {b} /\ mem'.wb.bnum = b
      /\ \A c \in Pages : Page(mem', c) = IF c = b THEN head ELSE Page(mem, c)
      /\ mem'.rb.bnum = b /\ mem'.rb.bytes = head
  <2>1. /\ SameBlocks(m, LoadRead(m, b)) /\ LoadRead(m, b).wb = m.wb
        /\ LoadRead(m, b).rb.bnum = b /\ LoadRead(m, b).rb.bytes = Page(m, b)
    BY <1>4, <1>8, LoadReadKeeps
  <2> QED BY <1>4, <1>6, <1>8, <2>1 DEF SameBlocks
<1>10. t = [count |-> 0, first |-> b, last |-> b, curr |-> b, offs |-> HeaderSize]
  BY <1>6, <1>7, <1>9 DEF OpenObject, OpenRead
<1> HIDE DEF t
<1>11. t \in Object
  BY <1>4, <1>10, Sizes DEF Object
<1>12. /\ obj' \in [Objs -> Object] /\ obj'[o] = t
       /\ stage' \in [Objs -> Stages] /\ stage'[o] = "writing"
       /\ \A p \in Objs : p # o => obj'[p] = obj[p] /\ stage'[p] = stage[p]
  BY <1>6, <1>11 DEF StashInv, Types, Stages
<1>13. BlockAt(mem', t, 0) = b /\ \A n \in 0 .. t.count : n = 0
  BY <1>10, BlockAtZero
<1>14. BlocksOf(mem', t) = {b}
  BY <1>10, <1>13 DEF BlocksOf
<1>15. Chained(mem', t) /\ LengthOf(mem', t) = 0
  <2>1. Page(mem', t.last) = head /\ t.last = b /\ t.count = 0
    BY <1>4, <1>9, <1>10
  <2>2. LengthOf(mem', t) = 0
    <3>1. (TailPlace + 1) * 0 + HeaderSize - HeaderSize = 0
      BY Sizes
    <3> QED BY <1>7, <2>1, <3>1 DEF LengthOf
  <2> QED BY <1>4, <1>7, <1>13, <2>1, <2>2, Sizes DEF Chained
<1>16. Kept(o, mem', obj'[o], stage'[o])
  <2>1. Writing(mem', t)
    BY <1>9, <1>10 DEF Writing
  <2> QED BY <1>1, <1>2, <1>6, <1>12, <1>15, <2>1 DEF Kept
<1>17. Types'
  BY <1>6, <1>9, <1>12 DEF StashInv, Types
<1>18. Apart(o)
  <2>1. ASSUME NEW p \in Live
        PROVE  b \notin Owned(p) /\ \A c \in Owned(p) : Page(mem', c) = Page(mem, c)
    <3>1. Owned(p) \subseteq Pages /\ Owned(p) \intersect mem.free = {}
      BY <2>1, LiveFacts
    <3> QED BY <1>4, <1>9, <3>1
  <2> QED BY <1>6, <1>9, <1>12, <2>1 DEF Apart
<1>19. Message'
  <2>1. Page(mem', 0) = Page(mem, 0)
    BY <1>4, <1>9, Sizes
  <2>2. \A p \in Objs : stage'[p] = "prepared" <=> stage[p] = "prepared"
    BY <1>1, <1>12
  <2>3. ASSUME NEW p \in Live
        PROVE  obj'[p] = obj[p] /\ \A c \in Owned(p) : Page(mem', c) = Page(mem, c)
    BY <1>1, <1>12, <1>18, <2>3 DEF Apart, Live
  <2> QED BY <1>6, <2>1, <2>2, <2>3, MessageKept
<1>20. Held(o)' = {b} /\ Held(o) = {}
  BY <1>1, <1>12, <1>14 DEF Held, Live, Owned
<1>21. StashInv'
  BY <1>4, <1>9, <1>16, <1>17, <1>18, <1>19, <1>20, StepInv
<1> QED BY <1>12, <1>15, <1>18, <1>21

(* The text of s has grown by a letter: in the last block, after the       *)
(* letters that are in it.                                                 *)
Grown(m, s, m2, s2, letter) ==
  LET tail == Page(m, s.last)[TailPlace]
  IN /\ \A n \in 0 .. s.count : BlockAt(m2, s2, n) = BlockAt(m, s, n)
     /\ \A n \in 0 .. s.count, p \in 0 .. TailPlace : n # s.count \/ p < tail =>
          Page(m2, BlockAt(m, s, n))[p] = Page(m, BlockAt(m, s, n))[p]
     /\ Page(m2, s.last)[tail] = letter
     /\ LengthOf(m2, s2) = LengthOf(m, s) + 1
NextLetter(o) == Letters[o][LengthOf(mem, obj[o]) + 1]

(* A letter goes into the last block while there is a place in it.         *)
LEMMA PutHere ==
  ASSUME StashInv, NEW o \in Objs, Put(o), Page(mem, obj[o].last)[TailPlace] + 1 <= TailPlace
  PROVE  StashInv' /\ Apart(o) /\ obj' = obj /\ Grown(mem, obj[o], mem', obj[o], NextLetter(o))
<1> DEFINE s == obj[o]
           l == s.last
           page == Page(mem, l)
           t == page[TailPlace]
           letter == NextLetter(o)
           bytes == [[page EXCEPT ![t] = letter] EXCEPT ![TailPlace] = t + 1]
           m == Write(LoadWrite(mem, l), bytes)
<1>1. /\ o \in Live /\ stage[o] = "writing" /\ LengthOf(mem, s) \in 0 .. Len(Letters[o]) - 1
      /\ UNCHANGED <<sketch, stage, prepared>>
  BY DEF Put, Live
<1>2. /\ mem \in Memory /\ s \in Object /\ s.count \in Nat
      /\ Kept(o, mem, s, "writing") /\ Chained(mem, s) /\ Writing(mem, s)
      /\ Owned(o) = BlocksOf(mem, s) /\ Owned(o) \subseteq Pages
      /\ Owned(o) \subseteq Spare /\ l \in Owned(o) /\ l \in Pages
      /\ Owned(o) \intersect mem.free = {}
  BY <1>1, LiveFacts
<1>3. letter \in Nat
  BY <1>1, StashAssumption DEF NextLetter
<1>4. /\ page \in Bytes /\ t \in 0 .. TailPlace /\ t \in Nat /\ t + 1 \in 0 .. TailPlace
      /\ TailPlace \in Nat /\ t # TailPlace /\ page[NextPlace] = 0
  <2>1. page \in Bytes
    BY <1>2, PageType
  <2>2. t \in 0 .. TailPlace /\ page[NextPlace] = 0
    BY <1>2 DEF Chained
  <2> QED BY <2>1, <2>2, Sizes
<1>5. mem' = m /\ obj' = [obj EXCEPT ![o] = s]
  <2>1. LoadWrite(mem, l).wb = [bnum |-> l, bytes |-> page]
    BY <1>2, LoadWriteKeeps
  <2>2. t + 1 <= TailPlace
    OBVIOUS
  <2>3. PutTo(s, letter) = [mem |-> m, obj |-> s]
    <3> HIDE DEF s, letter, l
    <3> QED BY <2>1, <2>2 DEF PutTo, l
  <2> HIDE DEF m
  <2> QED BY <2>3 DEF Put, NextLetter
<1>6. obj' = obj
  BY <1>5 DEF StashInv, Types
<1> HIDE DEF letter, t, l
<1>7. /\ bytes \in Bytes /\ bytes[TailPlace] = t + 1 /\ bytes[NextPlace] = 0
      /\ bytes[t] = letter /\ \A p \in 0 .. TailPlace : p < t => bytes[p] = page[p]
  <2>1. t \in Places /\ t # NextPlace /\ TailPlace # NextPlace
    BY <1>4, Sizes
  <2> HIDE DEF page
  <2> DEFINE put == [page EXCEPT ![t] = letter]
  <2>2. /\ put \in Bytes /\ put[NextPlace] = 0 /\ put[t] = letter
        /\ \A p \in 0 .. TailPlace : p < t => put[p] = page[p]
    BY <1>3, <1>4, <2>1, Sizes DEF Bytes
  <2> HIDE DEF put
  <2> QED BY <1>4, <2>1, <2>2, Sizes DEF Bytes
<1> HIDE DEF bytes
<1>8. /\ mem' \in Memory /\ mem'.free = mem.free /\ mem'.wb.bnum = l
      /\ \A c \in Pages : Page(mem', c) = IF c = l THEN bytes ELSE Page(mem, c)
      /\ mem'.rb = mem.rb \/ mem'.rb.bnum = None
  BY <1>2, <1>5, <1>7, OneBlock
<1> HIDE DEF m
<1>9. 0 \notin Spare /\ None \notin Spare
  BY Sizes DEF Spare
<1>10. \A b \in Owned(o) : Page(mem', b)[NextPlace] = Page(mem, b)[NextPlace]
  BY <1>2, <1>4, <1>7, <1>8
<1>11. /\ \A n \in 0 .. s.count : BlockAt(mem', s, n) = BlockAt(mem, s, n)
       /\ BlocksOf(mem', s) = BlocksOf(mem, s)
  <2>1. SameWay(mem, s, mem', s, s.count)
    BY <1>2, <1>10 DEF SameWay, BlocksOf
  <2>2. \A n \in 0 .. s.count : BlockAt(mem', s, n) = BlockAt(mem, s, n)
    BY <2>1, ChainSame
  <2> QED BY <2>2 DEF BlocksOf
<1>12. Page(mem', s.last) = bytes /\ l = s.last
  BY <1>2, <1>8 DEF l
<1>13. Chained(mem', s)
  <2>1. /\ \A n \in 0 .. s.count : BlockAt(mem', s, n) \in Spare
        /\ \A i, j \in 0 .. s.count : BlockAt(mem', s, i) = BlockAt(mem', s, j) => i = j
        /\ s.last = BlockAt(mem', s, s.count)
    BY <1>2, <1>11 DEF Chained
  <2>2. s.count = 0 => t >= HeaderSize
    BY <1>2 DEF Chained, t, l
  <2> QED BY <1>4, <1>7, <1>12, <2>1, <2>2, Sizes DEF Chained
<1>14. LengthOf(mem', s) = LengthOf(mem, s) + 1
  <2>1. /\ LengthOf(mem', s) = (TailPlace + 1) * s.count + (t + 1) - HeaderSize
        /\ LengthOf(mem, s) = (TailPlace + 1) * s.count + t - HeaderSize
    BY <1>7, <1>12 DEF LengthOf, t, l
  <2>2. (TailPlace + 1) * s.count \in Int /\ HeaderSize \in Int
    BY <1>2, Sizes
  <2> QED BY <1>4, <2>1, <2>2
<1>15. Kept(o, mem', obj'[o], stage'[o])
  <2>1. Writing(mem', s)
    BY <1>2, <1>8, <1>9, <1>11 DEF Writing
  <2>2. LengthOf(mem', s) <= Len(Letters[o])
    BY <1>1, <1>14, StashAssumption
  <2> QED BY <1>1, <1>2, <1>6, <1>13, <2>1, <2>2 DEF Kept
<1>16. Types'
  BY <1>1, <1>2, <1>6, <1>8 DEF StashInv, Types
<1>17. Apart(o)
  <2>1. ASSUME NEW p \in Live, p # o
        PROVE  /\ \A b \in Owned(p) : Page(mem', b) = Page(mem, b)
               /\ mem'.rb.bnum \in Owned(p) => mem'.rb = mem.rb
    <3>1. Owned(p) \subseteq Spare /\ Owned(p) \subseteq Pages /\ l \notin Owned(p)
      BY <1>1, <1>2, <2>1, LiveFacts
    <3> QED BY <1>8, <1>9, <3>1
  <2> QED BY <1>1, <1>6, <2>1 DEF Apart
<1>18. Message'
  <2>1. Page(mem', 0) = Page(mem, 0)
    BY <1>2, <1>8, <1>9, Sizes
  <2>2. ASSUME NEW p \in Live, stage[p] = "prepared"
        PROVE  \A b \in Owned(p) : Page(mem', b) = Page(mem, b)
    BY <1>1, <1>17, <2>2 DEF Apart
  <2> QED BY <1>1, <1>6, <2>1, <2>2, MessageKept
<1>19. Held(o)' = Owned(o) /\ Held(o) = Owned(o)
  BY <1>1, <1>2, <1>6, <1>11 DEF Held, Live, Owned
<1>20. StashInv'
  BY <1>2, <1>8, <1>15, <1>16, <1>17, <1>18, <1>19, StepInv
<1>21. Grown(mem, s, mem', s, letter)
  <2>1. /\ Page(mem, s.last)[TailPlace] = t /\ s.last = l
        /\ s.last = BlockAt(mem, s, s.count) /\ Page(mem, s.last) = page
    BY <1>2 DEF Chained, t, l
  <2>2. ASSUME NEW n \in 0 .. s.count, NEW p \in 0 .. TailPlace, n # s.count \/ p < t
        PROVE  Page(mem', BlockAt(mem, s, n))[p] = Page(mem, BlockAt(mem, s, n))[p]
    <3>1. BlockAt(mem, s, n) \in Pages /\ (BlockAt(mem, s, n) = l <=> n = s.count)
      BY <1>2, <2>1 DEF Chained, Spare
    <3>2. CASE n = s.count
      BY <1>7, <1>12, <2>1, <2>2, <3>2
    <3>3. CASE n # s.count
      BY <1>8, <3>1, <3>3
    <3> QED BY <3>2, <3>3
  <2>3. Page(mem', s.last)[t] = letter
    BY <1>7, <1>12
  <2> QED BY <1>11, <1>14, <2>1, <2>2, <2>3 DEF Grown
<1> QED BY <1>6, <1>17, <1>20, <1>21 DEF letter

(* In the last place of a block the letter takes the place of tail, and a  *)
(* free block becomes the last one.                                        *)
LEMMA PutOn ==
  ASSUME StashInv, Room, NEW o \in Objs, Put(o),
         ~(Page(mem, obj[o].last)[TailPlace] + 1 <= TailPlace)
  PROVE  /\ StashInv' /\ Apart(o) /\ Grown(mem, obj[o], mem', obj'[o], NextLetter(o))
         /\ \E b \in Nat :
              obj' = [obj EXCEPT ![o] = [obj[o] EXCEPT !.last = b, !.count = obj[o].count + 1]]
<1> DEFINE s == obj[o]
           l == s.last
           c == s.count
           page == Page(mem, l)
           t == page[TailPlace]
           letter == NextLetter(o)
           w == LoadWrite(mem, l)
           b == AllocBlock(w)
           put == [page EXCEPT ![t] = letter]
           full == [put EXCEPT ![NextPlace] = b]
           linked == Write(Taken(w), full)
           fresh == [Page(linked, b) EXCEPT ![TailPlace] = 0, ![NextPlace] = 0]
           m == Write(LoadWrite(linked, b), fresh)
           s2 == [s EXCEPT !.last = b, !.count = c + 1]
<1>1. /\ o \in Live /\ stage[o] = "writing" /\ LengthOf(mem, s) \in 0 .. Len(Letters[o]) - 1
      /\ UNCHANGED <<sketch, stage, prepared>>
  BY DEF Put, Live
<1>2. /\ mem \in Memory /\ s \in Object /\ c \in Nat /\ mem.wb.bnum \notin mem.free
      /\ Kept(o, mem, s, "writing") /\ Chained(mem, s) /\ Writing(mem, s)
      /\ Owned(o) = BlocksOf(mem, s) /\ Owned(o) \subseteq Pages
      /\ Owned(o) \subseteq Spare /\ l \in Owned(o) /\ l \in Pages
      /\ Owned(o) \intersect mem.free = {} /\ s.first \in Owned(o)
  BY <1>1, LiveFacts DEF StashInv, Types
<1>3. letter \in Nat
  BY <1>1, StashAssumption DEF NextLetter
<1>4. /\ page \in Bytes /\ t = TailPlace /\ TailPlace \in Nat
      /\ \A p \in 0 .. TailPlace : p # TailPlace <=> p < TailPlace
  <2>1. page \in Bytes
    BY <1>2, PageType
  <2>2. t \in 0 .. TailPlace
    BY <1>2 DEF Chained
  <2> QED BY <2>1, <2>2, Sizes
<1>5. mem.free # {}
  <2>1. LengthOf(mem, s) = NextPlace * c + TailPlace - HeaderSize
    BY <1>4, Sizes DEF LengthOf
  <2>2. /\ NextPlace * c \in Int /\ Size(o) = c + 1 /\ HeaderSize \in Int
        /\ Len(Letters[o]) \in Nat
    BY <1>1, <1>2, StashAssumption, Sizes DEF Size
  <2>3. NextPlace * (c + 1) = NextPlace * c + NextPlace
    BY <1>2, Sizes
  <2>4. NextPlace * Size(o) <= HeaderSize + Len(Letters[o])
    BY <1>1, <2>1, <2>2, <2>3, Sizes
  <2> QED BY <1>2, <2>4, RoomLeft DEF Kept
<1>6. /\ w \in Memory /\ w.free = mem.free /\ \A p \in Pages : Page(w, p) = Page(mem, p)
      /\ w.wb = [bnum |-> l, bytes |-> page]
      /\ w.rb = mem.rb \/ w.rb.bnum = None
  <2>1. /\ SameBlocks(mem, w) /\ w.wb = [bnum |-> l, bytes |-> page]
        /\ w.rb.bytes = mem.rb.bytes
        /\ w.rb.bnum = IF mem.wb.bnum # l /\ mem.rb.bnum = l THEN None ELSE mem.rb.bnum
    BY <1>2, LoadWriteKeeps
  <2> HIDE DEF w
  <2>2. w.rb = mem.rb \/ w.rb.bnum = None
    BY <1>2, <2>1 DEF SameBlocks, Memory
  <2> QED BY <2>1, <2>2 DEF SameBlocks
<1>7. PutTo(s, letter)
        = [mem |-> Write(LoadWrite(linked, b),
                         [LoadWrite(linked, b).wb.bytes EXCEPT ![TailPlace] = 0,
                            ![NextPlace] = 0]),
           obj |-> s2]
  <2>1. w.wb.bytes = page /\ ~(t + 1 <= TailPlace)
    BY <1>6
  <2> HIDE DEF s, letter, l
  <2> QED BY <2>1 DEF PutTo, l
<1> HIDE DEF w
<1>8. /\ b \in mem.free /\ b \in Spare /\ b \in Pages /\ b \in Nat /\ b # 0
      /\ Taken(w) \in Memory /\ Taken(w).free = mem.free \ {b}
      /\ Taken(w).wb = w.wb /\ Taken(w).rb = w.rb
      /\ \A p \in Pages : Page(Taken(w), p) = Page(mem, p)
  <2>1. /\ b \in w.free /\ b \in Spare
        /\ Taken(w) \in Memory /\ Taken(w).free = w.free \ {b}
        /\ Taken(w).wb = w.wb /\ Taken(w).rb = w.rb
        /\ \A p \in Pages : Page(Taken(w), p) = Page(w, p)
    BY <1>5, <1>6, AllocTakes
  <2> HIDE DEF b
  <2>2. b \in Pages /\ b # 0
    BY <2>1 DEF Spare
  <2> QED BY <1>6, <2>1, <2>2, Sizes
<1> HIDE DEF b, letter
<1>9. b # l /\ b \notin Owned(o)
  BY <1>2, <1>8
<1>10. /\ full \in Bytes /\ full[NextPlace] = b /\ full[TailPlace] = letter
       /\ \A p \in 0 .. TailPlace : p < TailPlace => full[p] = page[p]
  <2> HIDE DEF page
  <2>1. /\ put \in Bytes /\ put[TailPlace] = letter
        /\ \A p \in 0 .. TailPlace : p < TailPlace => put[p] = page[p]
    BY <1>3, <1>4, Sizes DEF Bytes
  <2> HIDE DEF put
  <2> QED BY <1>4, <1>8, <2>1, Sizes DEF Bytes
<1> HIDE DEF full
<1>11. /\ linked \in Memory /\ linked.free = mem.free \ {b} /\ linked.rb = w.rb
       /\ linked.wb = [bnum |-> l, bytes |-> full]
       /\ \A p \in Pages : Page(linked, p) = IF p = l THEN full ELSE Page(mem, p)
  <2>1. /\ linked \in Memory /\ linked.free = Taken(w).free /\ linked.rb = Taken(w).rb
        /\ linked.wb = [bnum |-> Taken(w).wb.bnum, bytes |-> full]
        /\ \A p \in Pages : Page(linked, p) = IF p = Taken(w).wb.bnum THEN full
                                              ELSE Page(Taken(w), p)
    BY <1>8, <1>10, WriteChanges
  <2> HIDE DEF linked
  <2>2. Taken(w).wb.bnum = l
    BY <1>6, <1>8
  <2> QED BY <1>8, <2>1, <2>2
<1> HIDE DEF linked
<1>12. LoadWrite(linked, b).wb.bytes = Page(linked, b)
  <2>1. LoadWrite(linked, b).wb = [bnum |-> b, bytes |-> Page(linked, b)]
    BY <1>8, <1>11, LoadWriteKeeps
  <2> QED BY <2>1
<1>13. mem' = m /\ obj' = [obj EXCEPT ![o] = s2]
  <2>1. PutTo(s, letter) = [mem |-> m, obj |-> s2]
    BY <1>7, <1>12
  <2> HIDE DEF m, s2
  <2> QED BY <2>1 DEF Put, NextLetter, letter
<1>14. fresh \in Bytes /\ fresh[TailPlace] = 0 /\ fresh[NextPlace] = 0
  <2>1. Page(linked, b) \in Bytes
    BY <1>8, <1>11, PageType
  <2> QED BY <2>1, Sizes DEF Bytes
<1> HIDE DEF fresh
<1>15. /\ mem' \in Memory /\ mem'.free = mem.free \ {b} /\ mem'.wb.bnum = b
       /\ \A p \in Pages : Page(mem', p) = IF p = b THEN fresh ELSE
                                           IF p = l THEN full ELSE Page(mem, p)
       /\ mem'.rb = mem.rb \/ mem'.rb.bnum = None
       /\ mem'.rb.bnum # b
  <2>1. /\ m \in Memory /\ m.free = linked.free /\ m.wb.bnum = b
        /\ \A p \in Pages : Page(m, p) = IF p = b THEN fresh ELSE Page(linked, p)
        /\ m.rb = linked.rb \/ m.rb.bnum = None
        /\ linked.wb.bnum # b => m.rb.bnum # b
    BY <1>8, <1>11, <1>14, OneBlock
  <2> HIDE DEF m
  <2>2. linked.wb.bnum = l /\ linked.rb = w.rb
    BY <1>11
  <2>3. m.rb = mem.rb \/ m.rb.bnum = None
    BY <1>6, <2>1, <2>2
  <2>4. /\ mem' \in Memory /\ mem'.free = mem.free \ {b} /\ mem'.wb.bnum = b
        /\ \A p \in Pages : Page(mem', p) = IF p = b THEN fresh ELSE Page(linked, p)
    BY <1>11, <1>13, <2>1
  <2>5. mem'.rb.bnum # b /\ (mem'.rb = mem.rb \/ mem'.rb.bnum = None)
    BY <1>9, <1>13, <2>1, <2>2, <2>3
  <2>6. \A p \in Pages : Page(linked, p) = IF p = l THEN full ELSE Page(mem, p)
    BY <1>11
  <2> QED BY <2>4, <2>5, <2>6
<1> HIDE DEF m
<1>16. /\ Page(mem', b) = fresh /\ Page(mem', l) = full
       /\ \A p \in Pages : p # b /\ p # l => Page(mem', p) = Page(mem, p)
  BY <1>2, <1>8, <1>9, <1>15
<1>17. /\ s2 \in Object /\ s2.first = s.first /\ s2.curr = s.curr /\ s2.offs = s.offs
       /\ s2.last = b /\ s2.count = c + 1
  <2>1. c + 1 \in Pages
    <3>1. c + 1 <= Blocks - 1
      BY <1>2, ChainFits
    <3> QED BY <1>2, <3>1, Sizes DEF Pages
  <2>2. s \in Object /\ b \in Pages
    BY <1>2, <1>8
  <2> HIDE DEF c, s
  <2> QED BY <2>1, <2>2 DEF Object
<1> HIDE DEF s2
<1>18. \A n \in 0 .. c : BlockAt(mem', s2, n) = BlockAt(mem, s, n)
  <2>1. ASSUME NEW n \in 0 .. c - 1
        PROVE  Page(mem', BlockAt(mem, s, n)) = Page(mem, BlockAt(mem, s, n))
    <3>1. n \in 0 .. c /\ c \in 0 .. c /\ n # c
      BY <1>2
    <3>2. BlockAt(mem, s, n) # l /\ BlockAt(mem, s, n) \in Owned(o)
      BY <1>2, <3>1 DEF Chained, BlocksOf
    <3> QED BY <1>2, <1>9, <1>16, <3>2
  <2>2. SameWay(mem, s, mem', s2, c)
    BY <1>2, <1>17, <2>1 DEF SameWay
  <2> QED BY <2>2, ChainSame
<1>19. BlockAt(mem', s2, c + 1) = b
  <2>1. BlockAt(mem', s2, c + 1) = Page(mem', BlockAt(mem', s2, c))[NextPlace]
    BY <1>2, BlockAtNext
  <2>2. BlockAt(mem', s2, c) = l
    BY <1>2, <1>18 DEF Chained
  <2> QED BY <1>10, <1>16, <2>1, <2>2
<1>20. \A n \in 0 .. c + 1 : n \in 0 .. c \/ n = c + 1
  BY <1>2
<1>21. BlocksOf(mem', s2) = Owned(o) \union {b}
  <2>1. 0 .. c + 1 = 0 .. c \union {c + 1}
    BY <1>2
  <2> QED BY <1>2, <1>17, <1>18, <1>19, <2>1 DEF BlocksOf
<1>22. Chained(mem', s2)
  <2>1. \A n \in 0 .. c : BlockAt(mem', s2, n) \in Owned(o)
    BY <1>2, <1>18 DEF BlocksOf
  <2>2. \A n \in 0 .. c + 1 : BlockAt(mem', s2, n) \in Spare
    BY <1>2, <1>8, <1>19, <1>20, <2>1
  <2>3. ASSUME NEW i \in 0 .. c + 1, NEW j \in 0 .. c + 1,
               BlockAt(mem', s2, i) = BlockAt(mem', s2, j)
        PROVE  i = j
    <3>1. CASE i \in 0 .. c /\ j \in 0 .. c
      BY <1>2, <1>18, <2>3, <3>1 DEF Chained
    <3>2. CASE i = c + 1 \/ j = c + 1
      BY <1>9, <1>19, <1>20, <2>1, <2>3, <3>2
    <3> QED BY <1>20, <3>1, <3>2
  <2>4. s2.count # 0 /\ 0 \in 0 .. TailPlace
    BY <1>2, <1>4, <1>17
  <2> QED BY <1>14, <1>16, <1>17, <1>19, <2>2, <2>3, <2>4 DEF Chained
<1>23. LengthOf(mem', s2) = LengthOf(mem, s) + 1
  <2>1. LengthOf(mem', s2) = (TailPlace + 1) * (c + 1) + 0 - HeaderSize
    BY <1>14, <1>16, <1>17 DEF LengthOf
  <2>3. LengthOf(mem, s) = (TailPlace + 1) * c + TailPlace - HeaderSize
    BY <1>4 DEF LengthOf
  <2>2. /\ (TailPlace + 1) * (c + 1) = (TailPlace + 1) * c + (TailPlace + 1)
        /\ (TailPlace + 1) * c \in Int /\ HeaderSize \in Int
    BY <1>2, Sizes
  <2> QED BY <1>4, <2>1, <2>2, <2>3
<1>24. /\ obj' \in [Objs -> Object] /\ obj'[o] = s2
       /\ \A p \in Objs : p # o => obj'[p] = obj[p]
  BY <1>13, <1>17 DEF StashInv, Types
<1>25. 0 \notin Spare /\ None \notin Spare
  BY Sizes DEF Spare
<1>26. Kept(o, mem', obj'[o], stage'[o])
  <2>1. Writing(mem', s2)
    <3>1. mem'.rb.bnum \in BlocksOf(mem', s2) => mem'.rb.bnum \in Owned(o)
      BY <1>15, <1>21
    <3>2. mem'.rb.bnum \in Owned(o) => mem'.rb.bnum = s.first
      BY <1>2, <1>15, <1>25 DEF Writing
    <3>3. s.curr = s.first /\ s.offs = HeaderSize
      BY <1>2 DEF Writing
    <3> QED BY <1>17, <3>1, <3>2, <3>3 DEF Writing
  <2>2. LengthOf(mem', s2) <= Len(Letters[o])
    BY <1>1, <1>23, StashAssumption
  <2> QED BY <1>1, <1>2, <1>22, <1>24, <2>1, <2>2 DEF Kept
<1>27. Types'
  BY <1>1, <1>15, <1>24 DEF StashInv, Types
<1>28. Apart(o)
  <2>1. ASSUME NEW p \in Live, p # o
        PROVE  /\ \A q \in Owned(p) : Page(mem', q) = Page(mem, q)
               /\ mem'.rb.bnum \in Owned(p) => mem'.rb = mem.rb
    <3>1. /\ Owned(p) \subseteq Spare /\ Owned(p) \subseteq Pages
          /\ l \notin Owned(p) /\ b \notin Owned(p)
      BY <1>1, <1>2, <1>8, <2>1, LiveFacts
    <3> QED BY <1>15, <1>16, <1>25, <3>1
  <2> QED BY <1>1, <1>24, <2>1 DEF Apart
<1>29. Message'
  <2>1. Page(mem', 0) = Page(mem, 0)
    BY <1>2, <1>8, <1>16, <1>25, Sizes
  <2>2. ASSUME NEW p \in Live, stage[p] = "prepared"
        PROVE  /\ obj'[p] = obj[p] /\ \A q \in Owned(p) : Page(mem', q) = Page(mem, q)
    BY <1>1, <1>24, <1>28, <2>2 DEF Apart, Live
  <2> QED BY <1>1, <2>1, <2>2, MessageKept
<1>30. Held(o)' = Owned(o) \union {b} /\ Held(o) = Owned(o)
  BY <1>1, <1>21, <1>24 DEF Held, Live, Owned
<1>31. StashInv'
  <2>1. Held(o)' \union mem'.free = Held(o) \union mem.free
    BY <1>8, <1>15, <1>30
  <2>2. Held(o)' \intersect mem'.free = {}
    BY <1>2, <1>15, <1>30
  <2> QED BY <1>26, <1>27, <1>28, <1>29, <2>1, <2>2, StepInv
<1>32. Grown(mem, s, mem', s2, letter)
  <2>1. ASSUME NEW n \in 0 .. c, NEW p \in 0 .. TailPlace, n # c \/ p < t
        PROVE  Page(mem', BlockAt(mem, s, n))[p] = Page(mem, BlockAt(mem, s, n))[p]
    <3>1. /\ BlockAt(mem, s, n) \in Owned(o) /\ c \in 0 .. c
          /\ l = BlockAt(mem, s, c) /\ (BlockAt(mem, s, n) = l <=> n = c)
      BY <1>2 DEF Chained, BlocksOf
    <3>2. CASE n = c
      BY <1>4, <1>10, <1>16, <2>1, <3>1, <3>2
    <3>3. CASE n # c
      BY <1>2, <1>9, <1>16, <3>1, <3>3
    <3> QED BY <3>2, <3>3
  <2>2. Page(mem', s.last)[t] = letter
    BY <1>4, <1>10, <1>16
  <2> QED BY <1>18, <1>23, <2>1, <2>2 DEF Grown
<1>33. obj' = [obj EXCEPT ![o] = [s EXCEPT !.last = b, !.count = c + 1]]
  BY <1>13 DEF s2
<1> QED BY <1>8, <1>24, <1>28, <1>31, <1>32, <1>33 DEF letter

(* Either way put keeps the invariant and lets the text grow.              *)
LEMMA PutInv ==
  ASSUME StashInv, Room, NEW o \in Objs, Put(o)
  PROVE  /\ StashInv' /\ Apart(o) /\ Grown(mem, obj[o], mem', obj'[o], NextLetter(o))
         /\ obj'[o].first = obj[o].first
<1>1. CASE Page(mem, obj[o].last)[TailPlace] + 1 <= TailPlace
  BY <1>1, PutHere
<1>2. CASE ~(Page(mem, obj[o].last)[TailPlace] + 1 <= TailPlace)
  <2>1. PICK b \in Nat :
          obj' = [obj EXCEPT ![o] = [obj[o] EXCEPT !.last = b, !.count = obj[o].count + 1]]
    BY <1>2, PutOn
  <2>2. obj \in [Objs -> Object]
    BY DEF StashInv, Types
  <2>3. obj'[o].first = obj[o].first
    BY <2>1, <2>2 DEF Object
  <2> QED BY <1>2, <2>3, PutOn
<1> QED BY <1>1, <1>2

-----------------------------------------------------------------------------
(* A stash has no negative number of letters.                              *)
LEMMA LengthNat ==
  ASSUME NEW m, NEW s, s.count \in Nat, Chained(m, s)
  PROVE  LengthOf(m, s) \in Nat
<1> DEFINE tail == Page(m, s.last)[TailPlace]
<1>1. tail \in 0 .. TailPlace /\ (s.count = 0 => tail >= HeaderSize)
  BY DEF Chained
<1>2. LengthOf(m, s) = (TailPlace + 1) * s.count + tail - HeaderSize
  BY DEF LengthOf
<1> HIDE DEF tail
<1>3. CASE s.count = 0
  BY <1>1, <1>2, <1>3, Sizes
<1>4. CASE s.count # 0
  <2>1. PICK k \in Nat : s.count = k + 1
    <3>1. s.count - 1 \in Nat /\ s.count = (s.count - 1) + 1
      BY <1>4
    <3> QED BY <3>1
  <2>2. (TailPlace + 1) * s.count = (TailPlace + 1) * k + (TailPlace + 1)
    BY <2>1, Sizes
  <2>3. (TailPlace + 1) * k \in Nat
    BY Sizes
  <2> QED BY <1>1, <1>2, <2>2, <2>3, Sizes
<1> QED BY <1>3, <1>4

(* Of a stash whose copies are right, size() is the number of letters.     *)
LEMMA SizeRight ==
  ASSUME NEW m \in Memory, m.wb.bnum = 0, NEW s, s.count \in Nat, Chained(m, s),
         Copied(m, s), NEW t, t.count = s.count, t.last = s.last
  PROVE  SizeOf(m, t) = LengthOf(m, s)
<1>1. s.last \in BlocksOf(m, s) /\ s.last # 0
  BY ChainEnds DEF Spare
<1>2. FetchByte(m, s.last, TailPlace) = Page(m, s.last)[TailPlace]
  BY <1>1 DEF FetchByte, Page, Copied
<1> QED BY <1>2 DEF SizeOf, LengthOf

(* prepare keeps the invariant: what it writes into block 0 is the length  *)
(* of the stash and its first block.                                       *)
LEMMA PrepareInv ==
  ASSUME StashInv, NEW o \in Objs, Prepare(o)
  PROVE  StashInv' /\ Apart(o) /\ SameLetters(mem, obj[o], mem')
<1> DEFINE s == obj[o]
           w == LoadWrite(mem, 0)
           h == OpenObject(w, s.first)
           m == LoadRead(w, s.first)
           bytes == [m.wb.bytes EXCEPT ![0] = SizeOf(m, h), ![1] = h.first]
<1>1. /\ o \in Live /\ stage[o] = "saved" /\ stage' = [stage EXCEPT ![o] = "prepared"]
      /\ prepared = Nothing /\ prepared' = o /\ mem' = Write(m, bytes)
      /\ UNCHANGED <<sketch, obj>>
  BY DEF Prepare, Live, OpenRead
<1>2. /\ mem \in Memory /\ s \in Object /\ s.count \in Nat
      /\ Kept(o, mem, s, "saved") /\ Chained(mem, s)
      /\ Owned(o) = BlocksOf(mem, s) /\ Owned(o) \subseteq Pages
      /\ Owned(o) \subseteq Spare /\ s.first \in Owned(o) /\ s.last \in Owned(o)
      /\ Owned(o) \intersect mem.free = {}
  BY <1>1, LiveFacts
<1>3. 0 \notin Spare /\ None \notin Spare
  BY Sizes DEF Spare
<1>4. /\ w \in Memory /\ w.free = mem.free /\ w.wb.bnum = 0
      /\ \A b \in Pages : Page(w, b) = Page(mem, b)
      /\ w.rb = mem.rb \/ w.rb.bnum = None
  <2>1. /\ SameBlocks(mem, w) /\ w.wb = [bnum |-> 0, bytes |-> Page(mem, 0)]
        /\ w.rb.bytes = mem.rb.bytes
        /\ w.rb.bnum = IF mem.wb.bnum # 0 /\ mem.rb.bnum = 0 THEN None ELSE mem.rb.bnum
    BY <1>2, LoadWriteKeeps, Sizes
  <2> HIDE DEF w
  <2>2. w.rb = mem.rb \/ w.rb.bnum = None
    BY <1>2, <2>1 DEF SameBlocks, Memory
  <2> QED BY <2>1, <2>2 DEF SameBlocks
<1> HIDE DEF w
<1>5. Kept(o, w, s, "saved") /\ BlocksOf(w, s) = BlocksOf(mem, s)
  <2>1. /\ \A b \in BlocksOf(mem, s) : Page(w, b) = Page(mem, b)
        /\ w.rb.bnum \in BlocksOf(mem, s) => w.rb = mem.rb
    BY <1>2, <1>3, <1>4
  <2> HIDE DEF s
  <2> QED BY <1>2, <2>1, OtherKept
<1>6. Chained(w, s) /\ Reading(w, s) /\ Copied(w, s)
  BY <1>5 DEF Kept, Reading
<1>7. h \in Object /\ h.count = s.count /\ h.first = s.first /\ h.last = s.last
  <2> HIDE DEF s
  <2> QED BY <1>2, <1>4, <1>6, OpenFinds
<1> HIDE DEF h
<1>8. /\ m \in Memory /\ m.free = mem.free /\ m.wb.bnum = 0
      /\ \A b \in Pages : Page(m, b) = Page(mem, b)
      /\ m.rb.bnum = s.first /\ Copied(m, s)
  <2>1. /\ SameBlocks(w, m) /\ m.wb = w.wb /\ m.rb.bnum = s.first /\ Copied(m, s)
    <3>1. s.first \in BlocksOf(w, s)
      BY <1>2, <1>5
    <3> HIDE DEF s
    <3> QED BY <1>2, <1>4, <1>6, <3>1, LoadOwn
  <2> HIDE DEF m, s
  <2> QED BY <1>4, <2>1 DEF SameBlocks
<1> HIDE DEF m
<1>9. Kept(o, m, s, "saved") /\ BlocksOf(m, s) = BlocksOf(mem, s) /\ Chained(m, s)
      /\ LengthOf(m, s) = LengthOf(mem, s)
  <2>1. \A b \in BlocksOf(mem, s) : Page(m, b) = Page(mem, b)
    BY <1>2, <1>8
  <2>2. /\ BlocksOf(m, s) = BlocksOf(mem, s) /\ Chained(m, s)
        /\ LengthOf(m, s) = LengthOf(mem, s)
        /\ \A n \in 0 .. s.count : BlockAt(m, s, n) = BlockAt(mem, s, n)
    BY <1>2, <2>1, ChainKept
  <2>3. PICK n \in 0 .. s.count : InBlock(mem, s, n)
    BY <1>2 DEF Kept, Reading
  <2>4. InBlock(m, s, n)
    BY <1>2, <2>1, <2>2, <2>3 DEF InBlock
  <2>5. Reading(m, s)
    BY <1>2, <1>8, <2>1, <2>4 DEF Reading, Kept
  <2> QED BY <1>2, <2>2, <2>5 DEF Kept
<1>10. SizeOf(m, h) = LengthOf(mem, s) /\ LengthOf(mem, s) \in Nat
  <2>1. SizeOf(m, h) = LengthOf(m, s)
    BY <1>2, <1>7, <1>8, <1>9, SizeRight
  <2>2. LengthOf(mem, s) \in Nat
    BY <1>2, LengthNat
  <2> QED BY <1>9, <2>1, <2>2
<1>11. bytes \in Bytes /\ bytes[0] = LengthOf(mem, s) /\ bytes[1] = s.first
  <2>1. m.wb.bytes \in Bytes
    BY <1>8 DEF Memory
  <2>2. s.first \in Nat
    BY <1>2, Sizes
  <2> HIDE DEF s
  <2> QED BY <1>7, <1>10, <2>1, <2>2, Sizes DEF Bytes
<1> HIDE DEF bytes
<1>12. /\ mem' \in Memory /\ mem'.free = mem.free /\ mem'.wb.bnum = 0 /\ mem'.rb = m.rb
       /\ \A b \in Pages : Page(mem', b) = IF b = 0 THEN bytes ELSE Page(mem, b)
  <2>1. /\ mem' \in Memory /\ mem'.free = m.free /\ mem'.rb = m.rb
        /\ mem'.wb = [bnum |-> m.wb.bnum, bytes |-> bytes]
        /\ \A b \in Pages : Page(mem', b) = IF b = m.wb.bnum THEN bytes ELSE Page(m, b)
    BY <1>1, <1>8, <1>11, WriteChanges
  <2> QED BY <1>8, <2>1
<1>13. /\ Kept(o, mem', s, "saved") /\ BlocksOf(mem', s) = BlocksOf(mem, s)
       /\ LengthOf(mem', s) = LengthOf(mem, s)
  <2>1. /\ \A b \in BlocksOf(m, s) : Page(mem', b) = Page(m, b)
        /\ mem'.rb.bnum \in BlocksOf(m, s) => mem'.rb = m.rb
    BY <1>2, <1>3, <1>8, <1>9, <1>12
  <2>2. Kept(o, mem', s, "saved") /\ BlocksOf(mem', s) = BlocksOf(m, s)
    BY <1>2, <1>9, <2>1, OtherKept
  <2>3. LengthOf(mem', s) = LengthOf(m, s)
    BY <1>2, <1>9, <2>1, ChainKept
  <2> QED BY <1>9, <2>2, <2>3
<1>14. /\ stage' \in [Objs -> Stages] /\ stage'[o] = "prepared"
       /\ \A p \in Objs : p # o => stage'[p] = stage[p]
  BY <1>1 DEF StashInv, Types, Stages
<1>15. Kept(o, mem', obj'[o], stage'[o])
  BY <1>1, <1>13, <1>14 DEF Kept
<1>16. Types'
  <2>1. 0 \notin mem'.free
    BY <1>2, <1>3, <1>12 DEF Memory
  <2> QED BY <1>1, <1>12, <1>14, <2>1 DEF StashInv, Types
<1>17. Message'
  <2>1. \A p \in Objs : stage[p] # "prepared"
    BY <1>1, StashAssumption DEF StashInv, Message
  <2>2. Page(mem', 0) = bytes
    BY <1>12, Sizes
  <2> QED BY <1>1, <1>11, <1>13, <1>14, <2>1, <2>2 DEF Message
<1>18. Apart(o)
  <2>1. ASSUME NEW p \in Live, p # o
        PROVE  /\ \A b \in Owned(p) : Page(mem', b) = Page(mem, b)
               /\ mem'.rb.bnum \notin Owned(p)
    <3>1. Owned(p) \subseteq Spare /\ Owned(p) \subseteq Pages /\ s.first \notin Owned(p)
      BY <1>1, <1>2, <2>1, LiveFacts
    <3> QED BY <1>3, <1>8, <1>12, <3>1
  <2> QED BY <1>1, <1>14, <2>1 DEF Apart
<1>19. Held(o)' = Owned(o) /\ Held(o) = Owned(o)
  BY <1>1, <1>2, <1>13, <1>14 DEF Held, Live, Owned
<1>20. StashInv'
  BY <1>2, <1>12, <1>15, <1>16, <1>17, <1>18, <1>19, StepInv
<1>21. \A b \in BlocksOf(mem, s) : Page(mem', b) = Page(mem, b)
  BY <1>2, <1>3, <1>12
<1>22. SameLetters(mem, s, mem')
  BY <1>21 DEF SameLetters
<1> QED BY <1>18, <1>20, <1>22

-----------------------------------------------------------------------------
(* The first blocks of a chain, with the 0 that ends it.                   *)
Reached(m, s, n) == {BlockAt(m, s, k) : k \in {k \in 0 .. n : k <= s.count + 1}}

(* release finds one more of them at every step.                           *)
LEMMA ReachedNext ==
  ASSUME NEW m \in Memory, NEW s, s.count \in Nat, Chained(m, s),
         m.wb.bnum \notin BlocksOf(m, s), NEW n \in Nat
  PROVE  Reached(m, s, n + 1)
           = Reached(m, s, n) \union
             {m.pages[b][NextPlace] : b \in Reached(m, s, n) \ {0}}
<1> DEFINE R == Reached(m, s, n)
<1>1. ASSUME NEW k \in Nat, k <= s.count
      PROVE  /\ BlockAt(m, s, k) # 0
             /\ m.pages[BlockAt(m, s, k)][NextPlace] = BlockAt(m, s, k + 1)
  <2>1. k \in 0 .. s.count
    BY <1>1
  <2>2. BlockAt(m, s, k) \in BlocksOf(m, s) /\ BlockAt(m, s, k) # 0
    BY <2>1 DEF BlocksOf, Chained, Spare
  <2>3. Page(m, BlockAt(m, s, k)) = m.pages[BlockAt(m, s, k)]
    BY <2>2 DEF Page
  <2> QED BY <2>2, <2>3, BlockAtNext
<1>2. BlockAt(m, s, s.count + 1) = 0
  <2>1. BlockAt(m, s, s.count + 1) = Page(m, BlockAt(m, s, s.count))[NextPlace]
    BY BlockAtNext
  <2> QED BY <2>1 DEF Chained
<1>3. ASSUME NEW b \in Reached(m, s, n + 1)
      PROVE  b \in R \union {m.pages[c][NextPlace] : c \in R \ {0}}
  <2>1. PICK k \in 0 .. n + 1 : k <= s.count + 1 /\ b = BlockAt(m, s, k)
    BY <1>3 DEF Reached
  <2>2. CASE k \in 0 .. n
    BY <2>1, <2>2 DEF Reached
  <2>3. CASE k = n + 1
    <3>1. n \in 0 .. n /\ n <= s.count /\ n <= s.count + 1
      BY <2>1, <2>3
    <3>2. BlockAt(m, s, n) \in R /\ BlockAt(m, s, n) # 0
      BY <1>1, <3>1 DEF Reached
    <3>3. b = m.pages[BlockAt(m, s, n)][NextPlace]
      BY <1>1, <2>1, <2>3, <3>1
    <3> HIDE DEF R
    <3> QED BY <3>2, <3>3
  <2> QED BY <2>2, <2>3
<1>4. ASSUME NEW c \in R, c # 0
      PROVE  m.pages[c][NextPlace] \in Reached(m, s, n + 1)
  <2>1. PICK k \in 0 .. n : k <= s.count + 1 /\ c = BlockAt(m, s, k)
    BY <1>4 DEF Reached
  <2>2. k <= s.count
    <3>1. k # s.count + 1
      BY <1>2, <1>4, <2>1
    <3> QED BY <2>1, <3>1
  <2>3. k + 1 \in 0 .. n + 1 /\ k + 1 <= s.count + 1
    BY <2>2
  <2>4. m.pages[c][NextPlace] = BlockAt(m, s, k + 1)
    BY <1>1, <2>1, <2>2
  <2> QED BY <2>3, <2>4 DEF Reached
<1>5. R \subseteq Reached(m, s, n + 1)
  <2>1. 0 .. n \subseteq 0 .. n + 1
    OBVIOUS
  <2> QED BY <2>1 DEF Reached
<1> HIDE DEF R
<1> QED BY <1>3, <1>4, <1>5 DEF R

(* It frees the blocks of the stash, all of them and no others.            *)
LEMMA ChainOf ==
  ASSUME NEW m \in Memory, NEW s, s.count \in Nat, Chained(m, s),
         m.wb.bnum \notin BlocksOf(m, s)
  PROVE  Chain(m, s.first) = BlocksOf(m, s)
<1> DEFINE P(f) == f = [n \in 0 .. Blocks |->
                          IF n = 0 THEN {s.first}
                          ELSE LET R == f[n - 1]
                               IN R \union {m.pages[b][NextPlace] : b \in R \ {0}}]
           g == [n \in 0 .. Blocks |-> Reached(m, s, n)]
           reach == CHOOSE f : P(f)
<1>1. Chain(m, s.first) = reach[Blocks] \ {0}
  BY DEF Chain
<1>2. Reached(m, s, 0) = {s.first}
  <2>1. {k \in 0 .. 0 : k <= s.count + 1} = {0}
    OBVIOUS
  <2>2. BlockAt(m, s, 0) = s.first
    BY BlockAtZero
  <2> QED BY <2>1, <2>2 DEF Reached
<1>3. P(g)
  <2>1. ASSUME NEW n \in 0 .. Blocks
        PROVE  g[n] = IF n = 0 THEN {s.first}
                      ELSE g[n - 1] \union {m.pages[b][NextPlace] : b \in g[n - 1] \ {0}}
    <3>1. CASE n = 0
      BY <1>2, <3>1
    <3>2. CASE n # 0
      <4>1. n - 1 \in 0 .. Blocks /\ n - 1 \in Nat /\ (n - 1) + 1 = n
        BY <3>2, Sizes
      <4>2. g[n - 1] = Reached(m, s, n - 1)
        BY <4>1
      <4>3. Reached(m, s, n) = Reached(m, s, n - 1) \union
              {m.pages[b][NextPlace] : b \in Reached(m, s, n - 1) \ {0}}
        BY <4>1, ReachedNext
      <4> QED BY <3>2, <4>2, <4>3
    <3> QED BY <3>1, <3>2
  <2>2. g = [n \in 0 .. Blocks |-> g[n]]
    OBVIOUS
  <2> HIDE DEF g
  <2> QED BY <2>1, <2>2
<1>4. P(reach)
  <2> HIDE DEF P, g
  <2> QED BY <1>3
<1>5. \A n \in 0 .. Blocks :
        reach[n] = IF n = 0 THEN {s.first}
                   ELSE reach[n - 1] \union
                        {m.pages[b][NextPlace] : b \in reach[n - 1] \ {0}}
  <2> HIDE DEF reach
  <2> QED BY <1>4
<1> HIDE DEF reach
<1> DEFINE S == {n \in Nat : reach[n] = Reached(m, s, n)}
<1>6. 0 \in S
  <2>1. 0 \in 0 .. Blocks
    BY Sizes
  <2>2. reach[0] = {s.first}
    BY <1>5, <2>1
  <2> QED BY <1>2, <2>2
<1>7. ASSUME NEW n \in 0 .. Blocks - 1, n \in S PROVE n + 1 \in S
  <2>1. n + 1 \in 0 .. Blocks /\ n + 1 # 0 /\ (n + 1) - 1 = n /\ n \in Nat
    BY Sizes
  <2>2. reach[n + 1] = reach[n] \union {m.pages[b][NextPlace] : b \in reach[n] \ {0}}
    BY <1>5, <2>1
  <2>3. reach[n] = Reached(m, s, n)
    BY <1>7
  <2>4. reach[n + 1] = Reached(m, s, n + 1)
    BY <2>1, <2>2, <2>3, ReachedNext
  <2> QED BY <2>1, <2>4
<1> HIDE DEF S
<1>8. Blocks \in S
  <2>1. Blocks \in Nat /\ Blocks \in 0 .. Blocks
    BY Sizes
  <2> QED BY <1>6, <1>7, <2>1, Induct
<1>9. reach[Blocks] = BlocksOf(m, s) \union {0}
  <2>1. s.count + 1 <= Blocks
    BY ChainFits, Sizes
  <2>2. {k \in 0 .. Blocks : k <= s.count + 1} = 0 .. s.count \union {s.count + 1}
    BY <2>1, Sizes
  <2>3. BlockAt(m, s, s.count + 1) = 0
    <3>1. BlockAt(m, s, s.count + 1) = Page(m, BlockAt(m, s, s.count))[NextPlace]
      BY BlockAtNext
    <3> QED BY <3>1 DEF Chained
  <2>4. reach[Blocks] = Reached(m, s, Blocks)
    BY <1>8 DEF S
  <2> QED BY <2>2, <2>3, <2>4 DEF Reached, BlocksOf
<1>10. 0 \notin BlocksOf(m, s)
  BY ChainEnds DEF Spare
<1> QED BY <1>1, <1>9, <1>10

(* Releasing the stash of o changes which blocks are free and nothing in   *)
(* them.                                                                   *)
LEMMA FreeKeeps ==
  ASSUME StashInv, NEW o \in Live, NEW m, SameBlocks(mem, m), m.wb.bnum = 0
  PROVE  LET r == Released(m, obj[o].first) IN
         /\ r \in Memory /\ r.free = mem.free \union Owned(o) /\ r.rb = m.rb /\ r.wb = m.wb
         /\ 0 \notin r.free /\ \A b \in Pages : Page(r, b) = Page(mem, b)
<1> DEFINE s == obj[o]
           r == Released(m, s.first)
<1>1. /\ mem \in Memory /\ s.count \in Nat /\ Chained(mem, s)
      /\ Owned(o) = BlocksOf(mem, s) /\ Owned(o) \subseteq Pages
      /\ Owned(o) \subseteq Spare /\ 0 \notin Spare
  BY LiveFacts DEF Spare
<1>2. m \in Memory /\ m.free = mem.free /\ \A b \in Pages : Page(m, b) = Page(mem, b)
  BY DEF SameBlocks
<1>3. BlocksOf(m, s) = Owned(o) /\ Chained(m, s)
  <2>1. \A b \in BlocksOf(mem, s) : Page(m, b) = Page(mem, b)
    BY <1>1, <1>2
  <2> QED BY <1>1, <2>1, ChainKept
<1>4. Chain(m, s.first) = Owned(o)
  BY <1>1, <1>2, <1>3, ChainOf
<1>5. r = [m EXCEPT !.free = @ \union Owned(o)]
  BY <1>4 DEF Released
<1> HIDE DEF r
<1>6. /\ r \in Memory /\ r.free = m.free \union Owned(o) /\ r.wb = m.wb /\ r.rb = m.rb
      /\ r.pages = m.pages
  BY <1>1, <1>2, <1>5 DEF Memory
<1>7. 0 \notin r.free
  BY <1>6 DEF Memory, Spare
<1>8. \A b \in Pages : Page(r, b) = Page(m, b)
  BY <1>6 DEF Page
<1> QED BY <1>2, <1>6, <1>7, <1>8 DEF r

(* So a step that releases the stash of o keeps the invariant.             *)
LEMMA FreeInv ==
  ASSUME StashInv, NEW o \in Live, NEW m, SameBlocks(mem, m), m.wb.bnum = 0,
         m.rb = mem.rb \/ m.rb.bnum \in Owned(o) \union {0, None},
         mem' = Released(m, obj[o].first), Message', prepared' \in Objs \union {Nothing},
         stage' = [stage EXCEPT ![o] = "none"], sketch' = sketch,
         obj' \in [Objs -> Object], \A p \in Objs : p # o => obj'[p] = obj[p]
  PROVE  StashInv' /\ Apart(o)
<1>1. /\ o \in Objs /\ 0 \notin Spare /\ None \notin Spare
      /\ Owned(o) \intersect mem.free = {}
  BY LiveFacts, Sizes DEF Spare
<1>2. /\ mem' \in Memory /\ mem'.free = mem.free \union Owned(o) /\ mem'.rb = m.rb
      /\ mem'.wb = m.wb /\ 0 \notin mem'.free
      /\ \A b \in Pages : Page(mem', b) = Page(mem, b)
  BY FreeKeeps
<1>3. /\ stage' \in [Objs -> Stages] /\ stage'[o] = "none"
      /\ \A p \in Objs : p # o => stage'[p] = stage[p]
  BY <1>1 DEF StashInv, Types, Stages
<1>4. Types'
  BY <1>2, <1>3 DEF StashInv, Types
<1>5. Apart(o)
  <2>1. ASSUME NEW p \in Live, p # o
        PROVE  /\ \A b \in Owned(p) : Page(mem', b) = Page(mem, b)
               /\ mem'.rb.bnum \in Owned(p) => mem'.rb = mem.rb
    <3>1. /\ Owned(p) \subseteq Spare /\ Owned(p) \subseteq Pages
          /\ Owned(p) \intersect Owned(o) = {}
      BY <2>1, LiveFacts
    <3> QED BY <1>1, <1>2, <3>1
  <2> QED BY <1>3, <2>1 DEF Apart
<1>6. Held(o)' = {} /\ Held(o) = Owned(o)
  BY <1>3 DEF Held, Live
<1> QED BY <1>1, <1>2, <1>3, <1>4, <1>5, <1>6, StepInv

(* release keeps the invariant, when nothing is left in the write buffer.  *)
LEMMA ReleaseInv ==
  ASSUME StashInv, ~Hurried, NEW o \in Objs, Release(o)
  PROVE  StashInv' /\ Apart(o)
<1> DEFINE s == obj[o]
<1>1. /\ o \in Live /\ stage[o] = "saved" /\ stage' = [stage EXCEPT ![o] = "none"]
      /\ mem.wb.bnum = 0 /\ mem' = Released(mem, s.first)
      /\ obj' = [obj EXCEPT ![o] = [s EXCEPT !.first = 0]]
      /\ UNCHANGED <<sketch, prepared>>
  BY DEF Release, Live
<1>2. mem \in Memory /\ s \in Object /\ s.first \in Nat
  <2>1. mem \in Memory /\ s \in Object
    BY <1>1, LiveFacts
  <2> HIDE DEF s
  <2> QED BY <2>1, Sizes DEF Object
<1>3. SameBlocks(mem, mem)
  BY <1>2 DEF SameBlocks
<1>4. /\ obj' \in [Objs -> Object] /\ \A p \in Objs : p # o => obj'[p] = obj[p]
  <2>1. [s EXCEPT !.first = 0] \in Object
    BY <1>2, Sizes DEF Object
  <2> HIDE DEF s
  <2> QED BY <1>1, <2>1 DEF StashInv, Types
<1>5. /\ stage' \in [Objs -> Stages] /\ stage'[o] = "none"
      /\ \A p \in Objs : p # o => stage'[p] = stage[p]
  BY <1>1 DEF StashInv, Types, Stages
<1>6. \A b \in Pages : Page(mem', b) = Page(mem, b)
  BY <1>1, <1>3, FreeKeeps
<1>8. Message'
  <2>1. \A p \in Objs : stage'[p] = "prepared" <=> stage[p] = "prepared"
    BY <1>1, <1>5
  <2>2. ASSUME NEW p \in Live, stage[p] = "prepared"
        PROVE  /\ obj'[p] = obj[p] /\ \A b \in Owned(p) : Page(mem', b) = Page(mem, b)
    <3>1. p # o /\ p \in Objs /\ Owned(p) \subseteq Pages
      BY <1>1, <2>2, LiveFacts
    <3> QED BY <1>4, <1>6, <3>1
  <2> QED BY <1>1, <1>6, <2>1, <2>2, MessageKept, Sizes
<1>9. prepared' \in Objs \union {Nothing}
  BY <1>1 DEF StashInv, Types
<1> QED BY <1>1, <1>3, <1>4, <1>8, <1>9, FreeInv

-----------------------------------------------------------------------------
(* Every place in a text is in one block.                                  *)
LEMMA OnePlace ==
  ASSUME NEW n \in Nat, NEW p \in 0 .. TailPlace
  PROVE  /\ (NextPlace * n + p) \div (TailPlace + 1) = n
         /\ (NextPlace * n + p) % (TailPlace + 1) = p
<1>1. NextPlace = TailPlace + 1 /\ TailPlace \in Nat /\ p \in Nat /\ p <= TailPlace
  BY Sizes
<1> DEFINE d == TailPlace + 1
<1>2. d \in Nat /\ d > 0 /\ p \in 0 .. d - 1
  BY <1>1
<1> HIDE DEF d
<1>3. d * n + p \in Int
  BY <1>2
<1>4. (d * n + p) \div d = n /\ (d * n + p) % d = p
  BY <1>2, <1>3
<1> QED BY <1>1, <1>4 DEF d

(* A text has as many letters as its length says, and letter k + 1 is k    *)
(* places from its start.                                                  *)
LEMMA TextAt ==
  ASSUME NEW m, NEW s, LengthOf(m, s) \in Nat, NEW k \in 0 .. LengthOf(m, s) - 1,
         NEW n \in Nat, NEW p \in 0 .. TailPlace, NextPlace * n + p = HeaderSize + k
  PROVE  TextOf(m, s)[k + 1] = Page(m, BlockAt(m, s, n))[p]
<1>1. k + 1 \in 1 .. LengthOf(m, s) /\ HeaderSize + (k + 1) - 1 = NextPlace * n + p
  BY Sizes
<1>2. TextOf(m, s)[k + 1]
        = Page(m, BlockAt(m, s, (NextPlace * n + p) \div (TailPlace + 1)))
            [(NextPlace * n + p) % (TailPlace + 1)]
  BY <1>1 DEF TextOf
<1> QED BY <1>2, OnePlace

(* Division with a remainder.                                              *)
LEMMA DivMod ==
  ASSUME NEW d \in Nat, d > 0, NEW x \in Nat
  PROVE  x = d * (x \div d) + (x % d) /\ x % d \in 0 .. d - 1 /\ x \div d \in Nat
OBVIOUS

(* With the same letters in its blocks a stash holds the same text.        *)
LEMMA TextKept ==
  ASSUME NEW m, NEW m2, NEW s, NEW t, s.count \in Nat, Chained(m, s),
         SameLetters(m, s, m2), t.first = s.first, t.count = s.count, t.last = s.last
  PROVE  TextOf(m2, t) = TextOf(m, s)
<1> DEFINE d == TailPlace + 1
           len == LengthOf(m, s)
           tail == Page(m, s.last)[TailPlace]
<1>1. /\ \A n \in 0 .. s.count : BlockAt(m2, t, n) = BlockAt(m, s, n)
      /\ LengthOf(m2, t) = LengthOf(m, s) /\ len \in Nat
      /\ d \in Nat /\ d > 0 /\ HeaderSize \in Nat /\ tail \in 0 .. d - 1
  <2>1. ASSUME NEW b \in BlocksOf(m, s)
        PROVE  /\ Page(m2, b)[NextPlace] = Page(m, b)[NextPlace]
               /\ Page(m2, b)[TailPlace] = Page(m, b)[TailPlace]
    <3>1. TailPlace \in 0 .. TailPlace /\ TailPlace >= HeaderSize
      BY Sizes
    <3> QED BY <3>1 DEF SameLetters
  <2> HIDE DEF d, len, tail
  <2>2. /\ \A n \in 0 .. s.count : BlockAt(m2, t, n) = BlockAt(m, s, n)
        /\ LengthOf(m2, t) = LengthOf(m, s)
    BY <2>1, ChainKept
  <2>3. tail \in 0 .. d - 1
    BY Sizes DEF Chained, tail, d
  <2>4. len \in Nat
    BY LengthNat DEF len
  <2>5. d \in Nat /\ d > 0 /\ HeaderSize \in Nat
    BY Sizes DEF d
  <2> QED BY <2>2, <2>3, <2>4, <2>5
<1>2. len = d * s.count + tail - HeaderSize
  BY DEF LengthOf
<1> HIDE DEF tail
<1>3. ASSUME NEW k \in 1 .. len
      PROVE  LET x == HeaderSize + k - 1 IN
             Page(m2, BlockAt(m2, t, x \div d))[x % d] = Page(m, BlockAt(m, s, x \div d))[x % d]
  <2> DEFINE x == HeaderSize + k - 1
             n == x \div d
  <2> HIDE DEF d, len
  <2>1. x \in Nat /\ d * s.count \in Nat /\ x < d * s.count + d
    BY <1>1, <1>2, <1>3
  <2> HIDE DEF x
  <2>2. x = d * n + (x % d) /\ x % d \in 0 .. d - 1 /\ n \in Nat
    BY <1>1, <2>1, DivMod
  <2> HIDE DEF n
  <2>3. n < s.count + 1
    <3>1. /\ d * n \in Nat /\ d * (s.count + 1) = d * s.count + d
          /\ d * n <= x
      <4>1. d * n \in Nat
        BY <1>1, <2>2
      <4>2. d * n <= x
        BY <2>2, <4>1
      <4>3. d * (s.count + 1) = d * s.count + d
        BY <1>1
      <4> QED BY <4>1, <4>2, <4>3
    <3>2. d * n < d * (s.count + 1)
      <4> HIDE DEF d
      <4>1. d * s.count + d \in Nat
        BY <1>1, <2>1
      <4> QED BY <2>1, <3>1, <4>1
    <3> QED BY <1>1, <2>2, <3>2, TimesLess
  <2>4. n \in 0 .. s.count
    BY <2>2, <2>3
  <2>5. BlockAt(m, s, n) \in BlocksOf(m, s)
    BY <2>4 DEF BlocksOf
  <2>6. x % d \in 0 .. TailPlace
    BY <2>2, Sizes DEF d
  <2>7. BlockAt(m, s, n) # s.first \/ x % d >= HeaderSize
    <3>1. ASSUME n = 0 PROVE x % d >= HeaderSize
      <4>1. x = x % d /\ x >= HeaderSize
        BY <1>1, <1>3, <2>2, <3>1 DEF x
      <4> QED BY <4>1
    <3>2. n # 0 => BlockAt(m, s, n) # BlockAt(m, s, 0)
      BY <2>4 DEF Chained
    <3> QED BY <3>1, <3>2, BlockAtZero
  <2>8. Page(m2, BlockAt(m, s, n))[x % d] = Page(m, BlockAt(m, s, n))[x % d]
    BY <2>5, <2>6, <2>7 DEF SameLetters
  <2> QED BY <1>1, <2>4, <2>8 DEF n, x
<1> QED BY <1>1, <1>3 DEF TextOf, len, d

(* The letter at offs in block n is the one at the end of the text or one  *)
(* before it.                                                              *)
LEMMA InText ==
  ASSUME NEW m, NEW s \in Object, Chained(m, s), NEW n, InBlock(m, s, n)
  PROVE  /\ s.count \in Nat /\ n \in 0 .. s.count /\ n \in Nat /\ s.offs \in 0 .. TailPlace
         /\ LengthOf(m, s) \in Nat /\ NextPlace * n + s.offs - HeaderSize \in Nat
         /\ IF n = s.count /\ s.offs = Page(m, s.last)[TailPlace]
            THEN NextPlace * n + s.offs - HeaderSize = LengthOf(m, s)
            ELSE NextPlace * n + s.offs - HeaderSize < LengthOf(m, s)
<1> DEFINE tail == Page(m, s.last)[TailPlace]
           x == NextPlace * n
           y == NextPlace * s.count
<1>1. /\ s.count \in Nat /\ n \in 0 .. s.count /\ n \in Nat /\ s.offs \in 0 .. TailPlace
      /\ tail \in 0 .. TailPlace
  <2>1. s.count \in Nat /\ s.offs \in 0 .. TailPlace
    BY Sizes DEF Object
  <2>2. n \in 0 .. s.count /\ n \in Nat
    BY <2>1 DEF InBlock
  <2> QED BY <2>1, <2>2 DEF Chained
<1>2. LengthOf(m, s) \in Nat /\ LengthOf(m, s) = y + tail - HeaderSize
  BY <1>1, LengthNat, Sizes DEF LengthOf
<1>3. /\ n = s.count => s.offs <= tail
      /\ n = 0 => s.offs >= HeaderSize
      /\ s.count = 0 => tail >= HeaderSize
  BY DEF InBlock, Chained
<1> HIDE DEF tail
<1>4. x \in Nat /\ y \in Nat
  BY <1>1, Sizes
<1>5. n # 0 => x >= NextPlace
  <2>1. ASSUME n # 0 PROVE x >= NextPlace
    <3>1. PICK k \in Nat : n = k + 1
      <4>1. n - 1 \in Nat /\ n = (n - 1) + 1
        BY <1>1, <2>1
      <4> QED BY <4>1
    <3>2. x = NextPlace * k + NextPlace /\ NextPlace * k \in Nat
      BY <3>1, Sizes
    <3> QED BY <3>2, Sizes
  <2> QED BY <2>1
<1>6. n # s.count => x + NextPlace <= y
  <2>1. ASSUME n # s.count PROVE x + NextPlace <= y
    <3>1. PICK k \in Nat : s.count = n + 1 + k
      <4>1. s.count - n - 1 \in Nat /\ s.count = n + 1 + (s.count - n - 1)
        BY <1>1, <2>1
      <4> QED BY <4>1
    <3>2. y = x + NextPlace + NextPlace * k /\ NextPlace * k \in Nat
      BY <1>1, <3>1, Sizes
    <3> QED BY <1>4, <3>2, Sizes
  <2> QED BY <2>1
<1>7. n = s.count => x = y
  OBVIOUS
<1> HIDE DEF x, y
<1>8. x + s.offs - HeaderSize \in Nat
  BY <1>1, <1>3, <1>4, <1>5, Sizes
<1>9. CASE n = s.count
  BY <1>1, <1>2, <1>3, <1>4, <1>7, <1>8, <1>9, Sizes DEF x, tail
<1>10. CASE n # s.count
  BY <1>1, <1>2, <1>4, <1>6, <1>8, <1>10, Sizes DEF x
<1> QED BY <1>9, <1>10

(* After k letters of the stash s in m0 have been read, with memory m and  *)
(* object t now.                                                           *)
At(m0, s, m, t, k) ==
  /\ SameBlocks(m0, m) /\ m.wb = m0.wb /\ Copied(m, s)
  /\ t \in Object /\ t.count = s.count /\ t.first = s.first /\ t.last = s.last
  /\ \E n : InBlock(m0, t, n) /\ NextPlace * n + t.offs = HeaderSize + k

(* The same stash after it was read.                                       *)
LEMMA AtSame ==
  ASSUME NEW m0 \in Memory, NEW s \in Object, Chained(m0, s),
         NEW m, NEW t, NEW k, At(m0, s, m, t, k)
  PROVE  /\ s.count \in Nat
         /\ \A n \in 0 .. s.count : /\ BlockAt(m0, t, n) = BlockAt(m0, s, n)
                                    /\ BlockAt(m, s, n) = BlockAt(m0, s, n)
                                    /\ BlockAt(m, t, n) = BlockAt(m0, s, n)
         /\ BlocksOf(m0, t) = BlocksOf(m0, s) /\ BlocksOf(m, s) = BlocksOf(m0, s)
         /\ BlocksOf(m, t) = BlocksOf(m0, s)
         /\ Chained(m0, t) /\ Chained(m, s) /\ Chained(m, t) /\ Copied(m, t)
         /\ LengthOf(m0, t) = LengthOf(m0, s) /\ LengthOf(m, s) = LengthOf(m0, s)
         /\ \A b \in BlocksOf(m0, s) : Page(m, b) = Page(m0, b)
         /\ s.first \in BlocksOf(m0, s) /\ s.last \in BlocksOf(m0, s)
         /\ BlocksOf(m0, s) \subseteq Spare
<1>1. /\ s.count \in Nat /\ t.count = s.count /\ t.first = s.first /\ t.last = s.last
      /\ SameBlocks(m0, m) /\ Copied(m, s)
  BY Sizes DEF Object, At
<1>2. /\ BlocksOf(m0, s) \subseteq Pages /\ s.first \in BlocksOf(m0, s)
      /\ s.last \in BlocksOf(m0, s) /\ BlocksOf(m0, s) \subseteq Spare
  BY <1>1, ChainEnds
<1>3. \A b \in BlocksOf(m0, s) : Page(m, b) = Page(m0, b)
  BY <1>1, <1>2 DEF SameBlocks
<1>4. /\ \A n \in 0 .. s.count : BlockAt(m0, t, n) = BlockAt(m0, s, n)
      /\ BlocksOf(m0, t) = BlocksOf(m0, s) /\ Chained(m0, t)
      /\ LengthOf(m0, t) = LengthOf(m0, s)
  BY <1>1, ChainKept
<1>5. /\ \A n \in 0 .. s.count : BlockAt(m, s, n) = BlockAt(m0, s, n)
      /\ BlocksOf(m, s) = BlocksOf(m0, s) /\ Chained(m, s)
      /\ LengthOf(m, s) = LengthOf(m0, s)
  BY <1>1, <1>3, ChainKept
<1>6. /\ \A n \in 0 .. s.count : BlockAt(m, t, n) = BlockAt(m0, s, n)
      /\ BlocksOf(m, t) = BlocksOf(m0, s) /\ Chained(m, t)
  BY <1>1, <1>3, ChainKept
<1>7. Copied(m, t)
  BY <1>1, <1>5, <1>6 DEF Copied
<1> QED BY <1>1, <1>2, <1>3, <1>4, <1>5, <1>6, <1>7

(* A place in it is where it was.                                          *)
LEMMA AtBlock ==
  ASSUME NEW m0 \in Memory, NEW s \in Object, Chained(m0, s),
         NEW m, NEW t, NEW k, At(m0, s, m, t, k),
         NEW u, u.count = s.count, u.first = s.first, u.last = s.last, NEW i
  PROVE  InBlock(m, u, i) <=> InBlock(m0, u, i)
<1>1. /\ s.count \in Nat /\ s.last \in BlocksOf(m0, s)
      /\ \A b \in BlocksOf(m0, s) : Page(m, b) = Page(m0, b)
  BY AtSame
<1>2. /\ \A j \in 0 .. s.count : BlockAt(m, u, j) = BlockAt(m0, s, j)
  BY <1>1, ChainKept
<1>3. /\ \A j \in 0 .. s.count : BlockAt(m0, u, j) = BlockAt(m0, s, j)
  BY <1>1, ChainKept
<1>4. Page(m, u.last) = Page(m0, u.last)
  BY <1>1
<1>5. i \in 0 .. u.count => BlockAt(m, u, i) = BlockAt(m0, u, i)
  BY <1>2, <1>3
<1> QED BY <1>4, <1>5 DEF InBlock

(* get returns the next letter of the text, or 0 at its end.               *)
LEMMA ReadMoves ==
  ASSUME NEW m0 \in Memory, NEW s \in Object, Chained(m0, s),
         NEW m, NEW t, NEW k \in Nat, At(m0, s, m, t, k)
  PROVE  LET g == GetByte(m, t) IN
         /\ k <= LengthOf(m0, s) /\ LengthOf(m0, s) \in Nat
         /\ IF k < LengthOf(m0, s)
            THEN At(m0, s, g.mem, g.obj, k + 1) /\ g.c = TextOf(m0, s)[k + 1]
            ELSE At(m0, s, g.mem, g.obj, k) /\ g.c = 0
<1> DEFINE g == GetByte(m, t)
           tail == Page(m, t.last)[TailPlace]
<1>1. /\ m \in Memory /\ t \in Object /\ t.count = s.count /\ t.first = s.first
      /\ t.last = s.last /\ SameBlocks(m0, m) /\ m.wb = m0.wb
  BY DEF At, SameBlocks
<1>2. /\ s.count \in Nat /\ Chained(m0, t) /\ Chained(m, t) /\ Copied(m, t)
      /\ \A n \in 0 .. s.count : /\ BlockAt(m0, t, n) = BlockAt(m0, s, n)
                                 /\ BlockAt(m, t, n) = BlockAt(m0, s, n)
      /\ BlocksOf(m, t) = BlocksOf(m0, s) /\ BlocksOf(m, s) = BlocksOf(m0, s)
      /\ LengthOf(m0, t) = LengthOf(m0, s)
      /\ \A b \in BlocksOf(m0, s) : Page(m, b) = Page(m0, b)
      /\ t.last \in BlocksOf(m0, s)
  BY <1>1, AtSame
<1>3. PICK n : InBlock(m0, t, n) /\ NextPlace * n + t.offs = HeaderSize + k
  BY DEF At
<1>4. /\ n \in 0 .. s.count /\ n \in Nat /\ t.offs \in 0 .. TailPlace
      /\ LengthOf(m0, s) \in Nat /\ Page(m0, t.last) = Page(m, t.last)
      /\ IF n = s.count /\ t.offs = tail THEN k = LengthOf(m0, s) ELSE k < LengthOf(m0, s)
  <2>2. Page(m0, t.last) = Page(m, t.last)
    BY <1>2
  <2>3. /\ n \in 0 .. t.count /\ n \in Nat /\ t.offs \in 0 .. TailPlace
        /\ LengthOf(m0, t) \in Nat
        /\ IF n = t.count /\ t.offs = Page(m0, t.last)[TailPlace]
           THEN NextPlace * n + t.offs - HeaderSize = LengthOf(m0, t)
           ELSE NextPlace * n + t.offs - HeaderSize < LengthOf(m0, t)
    <3>1. t \in Object /\ Chained(m0, t) /\ InBlock(m0, t, n)
      BY <1>1, <1>2, <1>3
    <3> QED BY <3>1, InText
  <2>1. NextPlace * n + t.offs - HeaderSize = k
    <3>1. NextPlace * n \in Int /\ t.offs \in Int /\ HeaderSize \in Int
      BY <2>3, Sizes
    <3> QED BY <1>3, <3>1
  <2> QED BY <1>1, <1>2, <2>1, <2>2, <2>3
<1>6. InBlock(m, t, n)
  BY <1>1, <1>3, AtBlock
<1>7. /\ g.mem = LoadRead(m, t.curr) /\ g.obj \in Object
      /\ g.obj.count = s.count /\ g.obj.first = s.first /\ g.obj.last = s.last
      /\ \/ n = s.count /\ t.offs = tail /\ g.obj = t /\ g.c = 0
         \/ /\ n # s.count \/ t.offs < tail
            /\ g.c = Page(m, t.curr)[t.offs]
            /\ \/ InBlock(m, g.obj, n) /\ g.obj.offs = t.offs + 1
               \/ /\ n # s.count /\ t.offs = TailPlace
                  /\ InBlock(m, g.obj, n + 1) /\ g.obj.offs = 0
  BY <1>1, <1>2, <1>6, GetByteMoves
<1>8. SameBlocks(m0, g.mem) /\ g.mem.wb = m0.wb /\ Copied(g.mem, s)
  <2>1. t.curr \in BlocksOf(m, s) /\ Chained(m, s) /\ Copied(m, s)
    <3>1. t.curr = BlockAt(m, t, n)
      BY <1>6 DEF InBlock
    <3>2. t.curr \in BlocksOf(m, t)
      BY <1>1, <1>4, <3>1 DEF BlocksOf
    <3> QED BY <1>2, <3>2, AtSame DEF At
  <2>2. /\ SameBlocks(m, LoadRead(m, t.curr)) /\ LoadRead(m, t.curr).wb = m.wb
        /\ LoadRead(m, t.curr).rb.bnum = t.curr /\ Copied(LoadRead(m, t.curr), s)
    BY <1>1, <1>2, <2>1, LoadOwn
  <2>3. SameBlocks(m, g.mem) /\ g.mem.wb = m.wb /\ g.mem.rb.bnum = t.curr /\ Copied(g.mem, s)
    BY <1>7, <2>2
  <2>4. SameBlocks(m0, g.mem)
    BY <1>1, <2>3 DEF SameBlocks
  <2> QED BY <1>1, <1>2, <2>1, <2>3, <2>4
<1> HIDE DEF g
<1>9. CASE n = s.count /\ t.offs = tail
  <2>1. g.obj = t /\ g.c = 0
    BY <1>4, <1>7, <1>9
  <2>2. k = LengthOf(m0, s)
    BY <1>4, <1>9
  <2>3. At(m0, s, g.mem, g.obj, k)
    BY <1>1, <1>3, <1>8, <2>1 DEF At
  <2> QED BY <1>4, <2>1, <2>2, <2>3 DEF g
<1>10. CASE ~(n = s.count /\ t.offs = tail)
  <2>1. k < LengthOf(m0, s)
    BY <1>4, <1>10
  <2>2. /\ g.c = Page(m, t.curr)[t.offs]
        /\ \/ InBlock(m, g.obj, n) /\ g.obj.offs = t.offs + 1
           \/ /\ n # s.count /\ t.offs = TailPlace
              /\ InBlock(m, g.obj, n + 1) /\ g.obj.offs = 0
    BY <1>7, <1>10
  <2>3. \E i : InBlock(m0, g.obj, i) /\ NextPlace * i + g.obj.offs = HeaderSize + (k + 1)
    <3>1. CASE InBlock(m, g.obj, n) /\ g.obj.offs = t.offs + 1
      <4>1. InBlock(m0, g.obj, n)
        BY <1>7, <3>1, AtBlock
      <4>2. NextPlace * n + (t.offs + 1) = HeaderSize + (k + 1)
        <5>1. NextPlace * n \in Int /\ t.offs \in Int /\ HeaderSize \in Int
          BY <1>4, Sizes
        <5> QED BY <1>3, <5>1
      <4> QED BY <3>1, <4>1, <4>2
    <3>2. CASE n # s.count /\ t.offs = TailPlace /\ InBlock(m, g.obj, n + 1) /\ g.obj.offs = 0
      <4>1. InBlock(m0, g.obj, n + 1)
        BY <1>7, <3>2, AtBlock
      <4>2. NextPlace * (n + 1) + 0 = HeaderSize + (k + 1)
        <5>1. NextPlace * n \in Int /\ HeaderSize \in Int /\ NextPlace = TailPlace + 1
              /\ NextPlace * (n + 1) = NextPlace * n + NextPlace /\ TailPlace \in Int
          BY <1>4, Sizes
        <5>2. NextPlace * n + TailPlace = HeaderSize + k
          BY <1>3, <3>2
        <5> QED BY <5>1, <5>2
      <4> QED BY <3>2, <4>1, <4>2
    <3> QED BY <2>2, <3>1, <3>2
  <2>4. At(m0, s, g.mem, g.obj, k + 1)
    BY <1>7, <1>8, <2>3 DEF At, g
  <2>5. g.c = TextOf(m0, s)[k + 1]
    <3>1. t.curr = BlockAt(m0, s, n) /\ t.curr \in BlocksOf(m0, s)
      BY <1>2, <1>3, <1>4 DEF InBlock, BlocksOf
    <3>2. k \in 0 .. LengthOf(m0, s) - 1
      BY <1>4, <2>1
    <3>3. TextOf(m0, s)[k + 1] = Page(m0, BlockAt(m0, s, n))[t.offs]
      BY <1>3, <1>4, <3>2, TextAt
    <3> QED BY <1>2, <2>2, <3>1, <3>3
  <2> QED BY <1>4, <2>1, <2>4, <2>5 DEF g
<1> QED BY <1>9, <1>10

-----------------------------------------------------------------------------
(* What Fill does n times, one letter each: the function read in it.       *)
Next1(r) ==
  LET g == GetByte(r.mem, r.obj)
  IN [mem |-> g.mem, obj |-> g.obj, out |-> Append(r.out, g.c)]
Reads(r, n, f) == f = [k \in 0 .. n |-> IF k = 0 THEN r ELSE Next1(f[k - 1])]

(* That can be done any number of times.                                   *)
LEMMA ReadsExist == ASSUME NEW r, NEW n \in Nat PROVE \E f : Reads(r, n, f)
<1> DEFINE S == {k \in Nat : \E f : Reads(r, k, f)}
<1>1. 0 \in S
  <2> DEFINE g == [k \in 0 .. 0 |-> r]
  <2>1. Reads(r, 0, g)
    BY DEF Reads
  <2> QED BY <2>1
<1>2. ASSUME NEW k \in 0 .. n - 1, k \in S PROVE k + 1 \in S
  <2>1. PICK f : Reads(r, k, f)
    BY <1>2
  <2> DEFINE g == [i \in 0 .. k + 1 |-> IF i = k + 1 THEN Next1(f[k]) ELSE f[i]]
  <2>2. \A i \in 0 .. k : f[i] = IF i = 0 THEN r ELSE Next1(f[i - 1])
    BY <2>1 DEF Reads
  <2>3. ASSUME NEW i \in 0 .. k + 1 PROVE g[i] = IF i = 0 THEN r ELSE Next1(g[i - 1])
    <3>1. CASE i = k + 1
      <4>1. i # 0 /\ i - 1 = k /\ k \in 0 .. k + 1 /\ k # k + 1
        BY <3>1
      <4>2. g[k] = f[k]
        BY <4>1
      <4> QED BY <3>1, <4>1, <4>2
    <3>2. CASE i # k + 1
      <4>1. i \in 0 .. k /\ g[i] = f[i]
        BY <3>2
      <4>2. i # 0 => i - 1 \in 0 .. k + 1 /\ i - 1 # k + 1
        BY <4>1
      <4>3. i # 0 => g[i - 1] = f[i - 1]
        BY <4>2
      <4> HIDE DEF g
      <4> QED BY <2>2, <4>1, <4>3
    <3> QED BY <3>1, <3>2
  <2>4. Reads(r, k + 1, g)
    <3>1. g = [i \in 0 .. k + 1 |-> g[i]]
      OBVIOUS
    <3> HIDE DEF g
    <3> QED BY <2>3, <3>1 DEF Reads
  <2> QED BY <2>4
<1> HIDE DEF S
<1>3. n \in S
  BY <1>1, <1>2, Induct
<1> QED BY <1>3 DEF S

(* A sequence with one more of the values of a function.                   *)
LEMMA OneMore ==
  ASSUME NEW T, NEW k \in Nat
  PROVE  Append([i \in 1 .. k |-> T[i]], T[k + 1]) = [i \in 1 .. k + 1 |-> T[i]]
OBVIOUS

(* open goes to the start of the text.                                     *)
LEMMA OpenAt ==
  ASSUME NEW m \in Memory, NEW s \in Object, Chained(m, s), Reading(m, s)
  PROVE  At(m, s, LoadRead(m, s.first), OpenObject(m, s.first), 0)
<1>1. s.count \in Nat /\ s.first \in BlocksOf(m, s) /\ Copied(m, s)
  <2>1. s.count \in Nat
    BY Sizes DEF Object
  <2>2. s.first \in BlocksOf(m, s)
    BY <2>1, ChainEnds
  <2> QED BY <2>1, <2>2 DEF Reading
<1>2. /\ SameBlocks(m, LoadRead(m, s.first)) /\ LoadRead(m, s.first).wb = m.wb
      /\ Copied(LoadRead(m, s.first), s)
  BY <1>1, LoadOwn
<1>3. LET t == OpenObject(m, s.first) IN
      /\ t \in Object /\ InBlock(m, t, 0) /\ t.offs = HeaderSize
      /\ t.count = s.count /\ t.first = s.first /\ t.last = s.last
  BY OpenFinds
<1>4. NextPlace * 0 + HeaderSize = HeaderSize + 0
  BY Sizes
<1> QED BY <1>2, <1>3, <1>4 DEF At

(* Reading the whole of a text, from its start.                            *)
LEMMA ReadAll ==
  ASSUME NEW m \in Memory, NEW s \in Object, Chained(m, s), Reading(m, s),
         NEW f, Reads([mem |-> LoadRead(m, s.first), obj |-> OpenObject(m, s.first),
                       out |-> << >>], LengthOf(m, s), f)
  PROVE  LET last == f[LengthOf(m, s)] IN
         /\ At(m, s, last.mem, last.obj, LengthOf(m, s))
         /\ last.out = TextOf(m, s)
<1> DEFINE len == LengthOf(m, s)
           T == TextOf(m, s)
           start == [mem |-> LoadRead(m, s.first), obj |-> OpenObject(m, s.first),
                     out |-> << >>]
           S == {k \in Nat : /\ At(m, s, f[k].mem, f[k].obj, k)
                             /\ f[k].out = [i \in 1 .. k |-> T[i]]}
<1>1. /\ s.count \in Nat /\ s.first \in BlocksOf(m, s) /\ Copied(m, s) /\ len \in Nat
  <2>1. s.count \in Nat
    BY Sizes DEF Object
  <2>2. s.first \in BlocksOf(m, s) /\ len \in Nat
    BY <2>1, ChainEnds, LengthNat
  <2> QED BY <2>1, <2>2 DEF Reading
<1>2. \A k \in 0 .. len : f[k] = IF k = 0 THEN start ELSE Next1(f[k - 1])
  BY DEF Reads
<1>3. T = [i \in 1 .. len |-> T[i]]
  BY DEF TextOf
<1> HIDE DEF len, T
<1>4. 0 \in S
  <2>1. f[0] = start
    <3>1. 0 \in 0 .. len
      BY <1>1
    <3> HIDE DEF start
    <3> QED BY <1>2, <3>1
  <2>5. At(m, s, LoadRead(m, s.first), OpenObject(m, s.first), 0)
    BY OpenAt
  <2>6. << >> = [i \in 1 .. 0 |-> T[i]]
    OBVIOUS
  <2> QED BY <2>1, <2>5, <2>6
<1>5. ASSUME NEW k \in 0 .. len - 1, k \in S PROVE k + 1 \in S
  <2> DEFINE r == f[k]
             g == GetByte(r.mem, r.obj)
  <2>1. k \in Nat /\ k < len /\ k + 1 \in 0 .. len /\ k + 1 # 0 /\ (k + 1) - 1 = k
    BY <1>1
  <2>2. f[k + 1] = Next1(r)
    BY <1>2, <2>1
  <2>3. f[k + 1].mem = g.mem /\ f[k + 1].obj = g.obj /\ f[k + 1].out = Append(r.out, g.c)
    BY <2>2 DEF Next1
  <2>4. At(m, s, r.mem, r.obj, k) /\ r.out = [i \in 1 .. k |-> T[i]]
    BY <1>5
  <2> HIDE DEF r
  <2>5. At(m, s, g.mem, g.obj, k + 1) /\ g.c = T[k + 1]
    BY <2>1, <2>4, ReadMoves DEF len, T
  <2> HIDE DEF g
  <2>6. Append(r.out, g.c) = [i \in 1 .. k + 1 |-> T[i]]
    BY <2>1, <2>4, <2>5, OneMore
  <2> QED BY <2>1, <2>3, <2>5, <2>6
<1> HIDE DEF S
<1>6. len \in S
  <2>1. len \in 0 .. len
    BY <1>1
  <2> QED BY <1>1, <1>4, <1>5, <2>1, Induct
<1> QED BY <1>3, <1>6 DEF S, len, T

(* The datafill callback sends the text that was prepared, and keeps the   *)
(* invariant.                                                              *)
LEMMA FillSends ==
  ASSUME StashInv, Fill
  PROVE  /\ StashInv' /\ prepared \in Live /\ Apart(prepared)
         /\ sent' = TextOf(mem, obj[prepared])
         /\ prepared' = Nothing /\ stage' = [stage EXCEPT ![prepared] = "none"]
         /\ obj' = obj /\ got' = got
<1> DEFINE o == prepared
           s == obj[o]
           w == LoadWrite(mem, 0)
           len == w.wb.bytes[0]
           fd == w.wb.bytes[1]
           start == [mem |-> OpenRead(w, fd), obj |-> OpenObject(w, fd), out |-> << >>]
           P(f) == f = [n \in 0 .. len |->
                          IF n = 0 THEN start
                          ELSE LET r == f[n - 1]
                                   g == GetByte(r.mem, r.obj)
                               IN [mem |-> g.mem, obj |-> g.obj, out |-> Append(r.out, g.c)]]
           read == CHOOSE f : P(f)
           after == OpenRead(read[len].mem, fd)
<1>1. /\ o # Nothing /\ prepared' = Nothing /\ sent' = read[len].out
      /\ mem' = Released(after, OpenObject(after, fd).first)
      /\ stage' = [stage EXCEPT ![o] = "none"] /\ UNCHANGED <<sketch, obj, got>>
  BY DEF Fill
<1>2. /\ o \in Live /\ stage[o] = "prepared" /\ o \in Objs
  BY <1>1 DEF StashInv, Types, Message, Live
<1>3. /\ mem \in Memory /\ s \in Object /\ s.count \in Nat
      /\ Kept(o, mem, s, "prepared") /\ Chained(mem, s) /\ Reading(mem, s)
      /\ Owned(o) = BlocksOf(mem, s) /\ Owned(o) \subseteq Pages
      /\ Owned(o) \subseteq Spare /\ s.first \in Owned(o)
  BY <1>2, LiveFacts
<1>4. 0 \notin Spare /\ None \notin Spare
  BY Sizes DEF Spare
<1>5. /\ w \in Memory /\ SameBlocks(mem, w) /\ w.wb = [bnum |-> 0, bytes |-> Page(mem, 0)]
      /\ w.rb = mem.rb \/ w.rb.bnum = None
      /\ \A b \in Pages : Page(w, b) = Page(mem, b)
  <2>1. /\ SameBlocks(mem, w) /\ w.wb = [bnum |-> 0, bytes |-> Page(mem, 0)]
        /\ w.rb.bytes = mem.rb.bytes
        /\ w.rb.bnum = IF mem.wb.bnum # 0 /\ mem.rb.bnum = 0 THEN None ELSE mem.rb.bnum
    BY <1>3, LoadWriteKeeps, Sizes
  <2> HIDE DEF w
  <2>2. w.rb = mem.rb \/ w.rb.bnum = None
    BY <1>3, <2>1 DEF SameBlocks, Memory
  <2> QED BY <2>1, <2>2 DEF SameBlocks
<1>6. len = LengthOf(mem, s) /\ fd = s.first
  <2>1. Page(mem, 0)[0] = LengthOf(mem, s) /\ Page(mem, 0)[1] = s.first
    BY <1>1 DEF StashInv, Message
  <2>2. w.wb.bytes = Page(mem, 0)
    <3> HIDE DEF w
    <3> QED BY <1>5
  <2> QED BY <2>1, <2>2
<1> HIDE DEF w
<1>7. /\ Kept(o, w, s, "prepared") /\ BlocksOf(w, s) = BlocksOf(mem, s)
      /\ Chained(w, s) /\ Reading(w, s) /\ LengthOf(w, s) = LengthOf(mem, s)
      /\ TextOf(w, s) = TextOf(mem, s)
  <2>1. /\ \A b \in BlocksOf(mem, s) : Page(w, b) = Page(mem, b)
        /\ w.rb.bnum \in BlocksOf(mem, s) => w.rb = mem.rb
    BY <1>3, <1>4, <1>5
  <2>2. Kept(o, w, s, "prepared") /\ BlocksOf(w, s) = BlocksOf(mem, s)
    BY <1>3, <2>1, OtherKept
  <2>3. LengthOf(w, s) = LengthOf(mem, s)
    BY <1>3, <2>1, ChainKept
  <2>4. TextOf(w, s) = TextOf(mem, s)
    BY <1>3, <2>1, TextKept DEF SameLetters
  <2> QED BY <2>2, <2>3, <2>4 DEF Kept
<1>8. Reads([mem |-> LoadRead(w, s.first), obj |-> OpenObject(w, s.first), out |-> << >>],
            LengthOf(w, s), read)
  <2> DEFINE r0 == [mem |-> LoadRead(w, s.first), obj |-> OpenObject(w, s.first),
                    out |-> << >>]
  <2>1. \A f : P(f) <=> Reads(r0, LengthOf(w, s), f)
    BY <1>6, <1>7 DEF Reads, Next1, OpenRead
  <2>2. LengthOf(w, s) \in Nat
    BY <1>3, <1>7, LengthNat
  <2> HIDE DEF r0, P
  <2>3. \E f : P(f)
    BY <2>1, <2>2, ReadsExist
  <2>4. P(read)
    BY <2>3
  <2> QED BY <2>1, <2>4 DEF r0
<1> HIDE DEF read
<1> DEFINE m == read[len].mem
<1>9. /\ At(w, s, m, read[len].obj, len) /\ sent' = TextOf(mem, s)
  BY <1>1, <1>3, <1>5, <1>6, <1>7, <1>8, ReadAll
<1> HIDE DEF m
<1>10. /\ SameBlocks(w, m) /\ m \in Memory /\ m.wb = w.wb /\ Copied(m, s)
       /\ BlocksOf(m, s) = BlocksOf(mem, s) /\ Chained(m, s)
  <2>1. SameBlocks(w, m) /\ m \in Memory /\ m.wb = w.wb /\ Copied(m, s)
    BY <1>9 DEF At, SameBlocks
  <2>2. BlocksOf(m, s) = BlocksOf(w, s) /\ Chained(m, s)
    <3>1. w \in Memory /\ s \in Object /\ Chained(w, s)
      BY <1>3, <1>5, <1>7
    <3> QED BY <1>9, <3>1, AtSame
  <2> QED BY <1>7, <2>1, <2>2
<1>11. after = LoadRead(m, s.first)
  BY <1>6 DEF OpenRead, m
<1> HIDE DEF after
<1>12. /\ SameBlocks(m, after) /\ after.wb = w.wb /\ after.rb.bnum = s.first
       /\ after.rb.bytes = Page(m, s.first)
  BY <1>3, <1>10, <1>11, LoadOwn
<1>13. /\ SameBlocks(mem, after) /\ after.wb.bnum = 0
  BY <1>5, <1>10, <1>12 DEF SameBlocks
<1>14. OpenObject(after, fd).first = s.first
  <2>1. LoadRead(after, s.first) = after
    BY <1>12 DEF LoadRead
  <2>2. Page(m, s.first) = Page(mem, s.first)
    BY <1>3, <1>5, <1>10 DEF SameBlocks
  <2>3. Page(mem, s.first)[Header.first] = s.first
    BY <1>3 DEF Reading
  <2> QED BY <1>6, <1>12, <2>1, <2>2, <2>3 DEF OpenObject, OpenRead
<1>15. mem' = Released(after, s.first)
  BY <1>1, <1>14
<1>16. /\ stage'[o] = "none" /\ \A p \in Objs : p # o => stage'[p] = stage[p]
  BY <1>1, <1>2 DEF StashInv, Types
<1>17. Message'
  BY <1>1, <1>16, StashAssumption DEF StashInv, Message
<1>18. StashInv' /\ Apart(o)
  <2>1. obj' \in [Objs -> Object] /\ \A p \in Objs : p # o => obj'[p] = obj[p]
    BY <1>1 DEF StashInv, Types
  <2> QED BY <1>1, <1>2, <1>3, <1>12, <1>13, <1>15, <1>17, <2>1, FreeInv
<1> QED BY <1>1, <1>2, <1>9, <1>18

-----------------------------------------------------------------------------
(* At power-up all blocks are free.                                        *)
LEMMA InitInv == ASSUME Init PROVE StashInv
<1>1. PICK j \in Junk :
        mem = [pages |-> [b \in Pages |-> [p \in Places |-> j]],
               wb |-> Zeros, rb |-> Zeros, free |-> Pages \ {0}]
  BY DEF Init
<1>2. j \in Nat /\ 0 \in Pages /\ 0 \in Nat
  BY StashAssumption, Sizes
<1>3. Zeros \in [bnum : Pages, bytes : Bytes] /\ Zeros.bnum = 0
  BY <1>2 DEF Zeros, Bytes
<1>4. mem \in Memory /\ mem.wb.bnum \notin mem.free /\ mem.free = Spare
  <2>1. [b \in Pages |-> [p \in Places |-> j]] \in [Pages -> Bytes]
    BY <1>2 DEF Bytes
  <2>2. Zeros \in [bnum : Pages \union {None}, bytes : Bytes]
    BY <1>3
  <2> QED BY <1>1, <1>3, <2>1, <2>2 DEF Memory, Spare
<1>5. NewObject \in Object
  BY <1>2, Sizes DEF NewObject, Object
<1>6. Types
  BY <1>4, <1>5 DEF Init, Types, Stages
<1>7. Live = {}
  BY DEF Init, Live
<1>8. Message
  BY StashAssumption DEF Init, Message
<1> QED BY <1>4, <1>6, <1>7, <1>8 DEF StashInv, BlocksDisjoint, Shared

(* Every step keeps the invariant.                                         *)
LEMMA NextInv == ASSUME Room, ~Hurried, StashInv, [Next]_vars PROVE StashInv'
<1>1. CASE Fill
  BY <1>1, FillSends
<1>2. ASSUME NEW o \in Objs, Create(o) PROVE StashInv'
  BY <1>2, CreateInv
<1>3. ASSUME NEW o \in Objs, Put(o) PROVE StashInv'
  BY <1>3, PutInv
<1>4. ASSUME NEW o \in Objs, Save(o) PROVE StashInv'
  BY <1>4, SaveInv
<1>5. ASSUME NEW o \in Objs, Get(o) PROVE StashInv'
  BY <1>5, GetInv
<1>6. ASSUME NEW o \in Objs, Open(o) PROVE StashInv'
  BY <1>6, OpenInv
<1>7. ASSUME NEW o \in Objs, Prepare(o) PROVE StashInv'
  BY <1>7, PrepareInv
<1>8. ASSUME NEW o \in Objs, Release(o) PROVE StashInv'
  BY <1>8, ReleaseInv
<1>9. CASE UNCHANGED vars
  BY <1>9 DEF vars, StashInv, Types, Message, BlocksDisjoint, Shared, Kept, Live, Owned
<1> QED BY <1>1, <1>2, <1>3, <1>4, <1>5, <1>6, <1>7, <1>8, <1>9 DEF Next

(* So the invariant always holds.                                          *)
LEMMA InvHolds == ASSUME Room, ~Hurried PROVE Spec => []StashInv
<1>1. Init => StashInv
  BY InitInv
<1>2. StashInv /\ [Next]_vars => StashInv'
  BY NextInv
<1> QED BY <1>1, <1>2, PTL DEF Spec

(* Every field of a stash, and both buffers, name blocks there are; the    *)
(* place to read is in a block.                                            *)
THEOREM TypeCorrect == ASSUME Room, ~Hurried PROVE Spec => []TypeOK
<1>1. StashInv => TypeOK
  <2> SUFFICES ASSUME StashInv PROVE TypeOK
    OBVIOUS
  <2>1. /\ sketch \in Sketches /\ mem \in Memory /\ obj \in [Objs -> Object]
        /\ stage \in [Objs -> Stages] /\ prepared \in Objs \union {Nothing}
    BY DEF StashInv, Types
  <2>2. /\ mem.wb.bnum \in Pages /\ mem.rb.bnum \in Pages \union {None}
        /\ mem.free \subseteq Pages
    BY <2>1 DEF Memory, Spare
  <2>3. ASSUME NEW o \in Objs
        PROVE  /\ obj[o].count \in Pages /\ obj[o].first \in Pages /\ obj[o].last \in Pages
               /\ obj[o].curr \in Pages /\ obj[o].offs \in 0 .. TailPlace
    <3>1. obj[o] \in Object
      BY <2>1
    <3> QED BY <3>1 DEF Object
  <2> QED BY <2>1, <2>2, <2>3 DEF TypeOK, Stages
<1> QED BY <1>1, InvHolds, PTL

(* No block is in two stashes, or both free and in one: allocBlock never   *)
(* hands out a block in use, and release frees none of another stash.      *)
THEOREM BlocksNeverShared == ASSUME Room, ~Hurried PROVE Spec => []BlocksDisjoint
<1>1. StashInv => BlocksDisjoint
  BY DEF StashInv
<1> QED BY <1>1, InvHolds, PTL

(* Every block is free, or in a stash, or in the message to be sent: what  *)
(* release and the datafill callback free is all there was to free.        *)
THEOREM NothingLeaks == ASSUME Room, ~Hurried PROVE Spec => []NoLeak
<1>1. StashInv => NoLeak
  <2> SUFFICES ASSUME StashInv PROVE NoLeak
    OBVIOUS
  <2>1. Pages \ {0} = mem.free \union UNION {Owned(o) : o \in Live}
    BY DEF StashInv, Shared, Spare
  <2>2. ASSUME prepared # Nothing PROVE Pending = Owned(prepared) /\ prepared \in Live
    <3> DEFINE s == obj[prepared]
               h == [count |-> Page(mem, s.first)[Header.count], first |-> s.first]
    <3>1. prepared \in Live /\ stage[prepared] = "prepared" /\ Page(mem, 0)[1] = s.first
      BY <2>2 DEF StashInv, Types, Message, Live
    <3>2. Pending = BlocksOf(mem, h)
      BY <2>2, <3>1 DEF Pending
    <3>3. h.count = s.count /\ h.first = s.first /\ s.count \in Nat
      BY <3>1, LiveFacts DEF Reading
    <3> HIDE DEF h
    <3>4. SameWay(mem, s, mem, h, s.count)
      BY <3>3 DEF SameWay
    <3>5. BlocksOf(mem, h) = BlocksOf(mem, s)
      BY <3>3, <3>4, ChainSame DEF BlocksOf
    <3> QED BY <3>1, <3>2, <3>5 DEF Owned
  <2>3. Pending \subseteq UNION {Owned(o) : o \in Live}
    BY <2>2 DEF Pending
  <2> QED BY <2>1, <2>3 DEF NoLeak
<1> QED BY <1>1, InvHolds, PTL

-----------------------------------------------------------------------------
(* The texts of TextStore, and how far each has been read.                 *)
LEMMA Views ==
  /\ \A o \in Objs : text[o] = IF o \in Live THEN TextOf(mem, obj[o]) ELSE << >>
  /\ \A o \in Objs : pos[o] = IF o \in Live THEN PosOf(mem, obj[o]) ELSE 0
  /\ text = [o \in Objs |-> text[o]] /\ pos = [o \in Objs |-> pos[o]]
BY DEF text, pos

(* The place of a letter is found by the block it is in.                   *)
LEMMA PosIs ==
  ASSUME NEW m, NEW s, s.count \in Nat, Chained(m, s), NEW n, InBlock(m, s, n)
  PROVE  PosOf(m, s) = NextPlace * n + s.offs - HeaderSize
<1> DEFINE P(i) == BlockAt(m, s, i) = s.curr
           k == CHOOSE i \in 0 .. s.count : P(i)
<1>1. n \in 0 .. s.count /\ P(n)
  BY DEF InBlock
<1>2. \A i \in 0 .. s.count : P(i) => i = n
  BY <1>1 DEF Chained
<1>3. PosOf(m, s) = (TailPlace + 1) * k + s.offs - HeaderSize
  BY DEF PosOf
<1>4. k = n
  <2> HIDE DEF P
  <2> QED BY <1>1, <1>2
<1> HIDE DEF k
<1> QED BY <1>3, <1>4, Sizes

(* Nothing has been read of a text that is still written.                  *)
LEMMA PlaceOf ==
  ASSUME NEW m, NEW s \in Object, Chained(m, s), Writing(m, s)
  PROVE  InBlock(m, s, 0) /\ PosOf(m, s) = 0
<1>1. s.count \in Nat /\ s.curr = s.first /\ s.offs = HeaderSize
  BY Sizes DEF Writing, Object
<1>2. s.curr = BlockAt(m, s, 0) /\ 0 \in 0 .. s.count
  BY <1>1, BlockAtZero
<1>3. 0 = s.count => s.offs <= Page(m, s.last)[TailPlace]
  <2>1. /\ Page(m, s.last)[TailPlace] \in 0 .. TailPlace
        /\ s.count = 0 => Page(m, s.last)[TailPlace] >= HeaderSize
    BY DEF Chained
  <2> QED BY <1>1, <2>1, Sizes
<1>4. InBlock(m, s, 0)
  BY <1>1, <1>2, <1>3, Sizes DEF InBlock
<1>5. PosOf(m, s) = NextPlace * 0 + HeaderSize - HeaderSize
  BY <1>1, <1>4, PosIs
<1> QED BY <1>4, <1>5, Sizes

(* Every stash has a place to read.                                        *)
LEMMA LivePlace == ASSUME StashInv, NEW o \in Live PROVE \E n : InBlock(mem, obj[o], n)
BY LiveFacts, PlaceOf DEF Reading

(* A text keeps its place while its blocks and its object do.              *)
LEMMA PosKept ==
  ASSUME NEW m, NEW m2, NEW s, NEW t, s.count \in Nat, Chained(m, s), Chained(m2, t),
         t.count \in Nat, s.count <= t.count,
         \A n \in 0 .. s.count : BlockAt(m2, t, n) = BlockAt(m, s, n),
         t.curr = s.curr, t.offs = s.offs, NEW n, InBlock(m, s, n)
  PROVE  PosOf(m2, t) = PosOf(m, s)
<1> DEFINE P(i) == BlockAt(m2, t, i) = t.curr
           k == CHOOSE i \in 0 .. t.count : P(i)
<1>1. n \in 0 .. s.count /\ n \in 0 .. t.count /\ P(n)
  BY DEF InBlock
<1>2. \A i \in 0 .. t.count : P(i) => i = n
  BY <1>1 DEF Chained
<1>3. PosOf(m2, t) = (TailPlace + 1) * k + s.offs - HeaderSize
  BY DEF PosOf
<1>4. k = n
  <2> HIDE DEF P
  <2> QED BY <1>1, <1>2
<1> HIDE DEF k
<1>5. PosOf(m, s) = NextPlace * n + s.offs - HeaderSize
  BY PosIs
<1> QED BY <1>3, <1>4, <1>5, Sizes

(* A stash that only gets a header shows the same text and place.          *)
LEMMA SameView ==
  ASSUME StashInv, NEW p \in Live, p \in Live', obj'[p] = obj[p], SameLetters(mem, obj[p], mem')
  PROVE  text'[p] = text[p] /\ pos'[p] = pos[p]
<1> DEFINE s == obj[p]
<1>1. s.count \in Nat /\ Chained(mem, s) /\ \E n : InBlock(mem, s, n)
  BY LiveFacts, LivePlace
<1>2. TextOf(mem', s) = TextOf(mem, s)
  BY <1>1, TextKept
<1>3. PosOf(mem', s) = PosOf(mem, s)
  <2>1. ASSUME NEW b \in BlocksOf(mem, s)
        PROVE  /\ Page(mem', b)[NextPlace] = Page(mem, b)[NextPlace]
               /\ Page(mem', b)[TailPlace] = Page(mem, b)[TailPlace]
    <3>1. TailPlace \in 0 .. TailPlace /\ TailPlace >= HeaderSize
      BY Sizes
    <3> QED BY <3>1 DEF SameLetters
  <2>2. Chained(mem', s) /\ \A n \in 0 .. s.count : BlockAt(mem', s, n) = BlockAt(mem, s, n)
    BY <1>1, <2>1, ChainKept
  <2> QED BY <1>1, <2>2, PosKept
<1>4. text[p] = TextOf(mem, s) /\ pos[p] = PosOf(mem, s)
  BY Views DEF Live
<1>5. text'[p] = TextOf(mem', obj'[p]) /\ pos'[p] = PosOf(mem', obj'[p])
  BY DEF text, pos, Live
<1> QED BY <1>2, <1>3, <1>4, <1>5

(* A step that has to do with the stash of o changes no other text.        *)
LEMMA OthersView ==
  ASSUME StashInv, NEW o \in Objs, Apart(o), NEW p \in Objs, p # o
  PROVE  text'[p] = text[p] /\ pos'[p] = pos[p]
<1>1. obj'[p] = obj[p] /\ (p \in Live' <=> p \in Live)
  BY DEF Apart, Live
<1>2. CASE p \in Live
  <2>1. SameLetters(mem, obj[p], mem')
    BY <1>2 DEF Apart, Owned, SameLetters
  <2> QED BY <1>1, <1>2, <2>1, SameView
<1>3. CASE p \notin Live
  <2>1. text[p] = << >> /\ pos[p] = 0
    BY <1>3, Views
  <2>2. text'[p] = << >> /\ pos'[p] = 0
    BY <1>1, <1>3 DEF text, pos
  <2> QED BY <2>1, <2>2
<1> QED BY <1>2, <1>3

(* So the texts differ in one.                                             *)
LEMMA OneView ==
  ASSUME StashInv, NEW o \in Objs, Apart(o), NEW x, NEW y,
         text'[o] = x, pos'[o] = y
  PROVE  text' = [text EXCEPT ![o] = x] /\ pos' = [pos EXCEPT ![o] = y]
<1>1. \A p \in Objs : p # o => text'[p] = text[p] /\ pos'[p] = pos[p]
  BY OthersView
<1>2. text' = [p \in Objs |-> text'[p]] /\ pos' = [p \in Objs |-> pos'[p]]
  BY DEF text, pos
<1>3. text = [p \in Objs |-> text[p]] /\ pos = [p \in Objs |-> pos[p]]
  BY Views
<1> DEFINE t == text
           t2 == text'
           q == pos
           q2 == pos'
<1> HIDE DEF t, t2, q, q2
<1>4. t2 = [t EXCEPT ![o] = x]
  BY <1>1, <1>2, <1>3 DEF t, t2
<1>5. q2 = [q EXCEPT ![o] = y]
  BY <1>1, <1>2, <1>3 DEF q, q2
<1> QED BY <1>4, <1>5 DEF t, t2, q, q2

(* A letter more in the last block is a letter more at the end of the text. *)
LEMMA GrownText ==
  ASSUME NEW m, NEW s, s.count \in Nat, Chained(m, s), NEW m2, NEW s2, NEW letter,
         Grown(m, s, m2, s2, letter)
  PROVE  TextOf(m2, s2) = Append(TextOf(m, s), letter)
<1> DEFINE d == TailPlace + 1
           len == LengthOf(m, s)
           tail == Page(m, s.last)[TailPlace]
           T == TextOf(m, s)
           T2 == TextOf(m2, s2)
<1>1. /\ len \in Nat /\ LengthOf(m2, s2) = len + 1
      /\ d \in Nat /\ d > 0 /\ tail \in 0 .. TailPlace /\ tail \in 0 .. d - 1
      /\ HeaderSize \in Nat /\ NextPlace = d
  <2>1. len \in Nat /\ LengthOf(m2, s2) = len + 1
    BY LengthNat DEF Grown
  <2>2. tail \in 0 .. TailPlace
    BY DEF Chained
  <2> HIDE DEF tail, len
  <2> QED BY <2>1, <2>2, Sizes
<1>2. len = d * s.count + tail - HeaderSize
  BY DEF LengthOf
<1>3. /\ T = [k \in 1 .. len |-> T[k]] /\ T2 = [k \in 1 .. len + 1 |-> T2[k]]
  BY <1>1 DEF TextOf
<1>4. /\ \A n \in 0 .. s.count : BlockAt(m2, s2, n) = BlockAt(m, s, n)
      /\ Page(m2, s.last)[tail] = letter /\ s.last = BlockAt(m, s, s.count)
  BY DEF Grown, Chained
<1>5. ASSUME NEW n \in 0 .. s.count, NEW p \in 0 .. TailPlace, n # s.count \/ p < tail
      PROVE  Page(m2, BlockAt(m, s, n))[p] = Page(m, BlockAt(m, s, n))[p]
  BY <1>5 DEF Grown
<1> HIDE DEF T, T2, tail, len
<1>6. ASSUME NEW k \in 1 .. len PROVE T2[k] = T[k]
  <2> DEFINE x == HeaderSize + k - 1
             n == x \div d
             p == x % d
  <2>1. T[k] = Page(m, BlockAt(m, s, n))[p] /\ T2[k] = Page(m2, BlockAt(m2, s2, n))[p]
    BY <1>1, <1>6 DEF TextOf, T, T2, len
  <2> HIDE DEF d
  <2>2. x \in Nat /\ d * s.count \in Nat /\ x < d * s.count + tail
    BY <1>1, <1>2, <1>6
  <2> HIDE DEF x
  <2>3. x = d * n + p /\ p \in 0 .. d - 1 /\ n \in Nat
    BY <1>1, <2>2, DivMod
  <2> HIDE DEF n, p
  <2>4. d * n \in Nat /\ d * n <= x
    <3>1. d * n \in Nat
      BY <1>1, <2>3
    <3> QED BY <2>3, <3>1
  <2>5. n < s.count + 1
    <3>1. d * (s.count + 1) = d * s.count + d
      BY <1>1
    <3>2. d * n < d * (s.count + 1)
      BY <1>1, <2>2, <2>4, <3>1
    <3> QED BY <1>1, <2>3, <3>2, TimesLess
  <2>6. n \in 0 .. s.count /\ p \in 0 .. TailPlace
    BY <2>3, <2>5, Sizes DEF d
  <2>7. n = s.count => p < tail
    <3>1. n = s.count => d * n = d * s.count
      OBVIOUS
    <3> QED BY <1>1, <2>2, <2>3, <3>1
  <2>8. Page(m2, BlockAt(m, s, n))[p] = Page(m, BlockAt(m, s, n))[p]
    BY <1>5, <2>6, <2>7
  <2> QED BY <1>4, <2>1, <2>6, <2>8
<1>7. T2[len + 1] = letter
  <2>1. len \in 0 .. LengthOf(m2, s2) - 1 /\ LengthOf(m2, s2) \in Nat
    BY <1>1
  <2>2. NextPlace * s.count + tail = HeaderSize + len
    <3>1. d * s.count \in Nat
      BY <1>1
    <3> QED BY <1>1, <1>2, <3>1
  <2>3. T2[len + 1] = Page(m2, BlockAt(m2, s2, s.count))[tail]
    <3>1. LengthOf(m2, s2) \in Nat /\ len \in 0 .. LengthOf(m2, s2) - 1
      BY <2>1
    <3>2. s.count \in Nat /\ tail \in 0 .. TailPlace
      BY <1>1
    <3> HIDE DEF d
    <3>3. TextOf(m2, s2)[len + 1] = Page(m2, BlockAt(m2, s2, s.count))[tail]
      BY <2>2, <3>1, <3>2, TextAt
    <3> QED BY <3>3 DEF T2
  <2>4. BlockAt(m2, s2, s.count) = s.last
    BY <1>4
  <2> QED BY <1>4, <2>3, <2>4
<1>8. [k \in 1 .. len |-> T2[k]] = T
  BY <1>3, <1>6
<1>9. Append([k \in 1 .. len |-> T2[k]], T2[len + 1]) = [k \in 1 .. len + 1 |-> T2[k]]
  BY <1>1, OneMore
<1> QED BY <1>3, <1>7, <1>8, <1>9 DEF T, T2

(* The text and the place after reading.                                   *)
LEMMA AtView ==
  ASSUME NEW m0 \in Memory, NEW s \in Object, Chained(m0, s),
         NEW m, NEW t, NEW k \in Nat, At(m0, s, m, t, k)
  PROVE  TextOf(m, t) = TextOf(m0, s) /\ PosOf(m, t) = k
<1>1. /\ s.count \in Nat /\ Chained(m, t)
      /\ \A b \in BlocksOf(m0, s) : Page(m, b) = Page(m0, b)
  BY AtSame
<1>2. t \in Object /\ t.count = s.count /\ t.first = s.first /\ t.last = s.last
  BY DEF At
<1>3. TextOf(m, t) = TextOf(m0, s)
  <2>1. SameLetters(m0, s, m)
    BY <1>1 DEF SameLetters
  <2> QED BY <1>1, <1>2, <2>1, TextKept
<1>4. PICK n : InBlock(m0, t, n) /\ NextPlace * n + t.offs = HeaderSize + k
  BY DEF At
<1>5. InBlock(m, t, n)
  BY <1>2, <1>4, AtBlock
<1>6. PosOf(m, t) = NextPlace * n + t.offs - HeaderSize
  BY <1>1, <1>2, <1>5, PosIs
<1>7. NextPlace * n \in Int /\ t.offs \in Int /\ HeaderSize \in Int
  <2>1. n \in Nat /\ t.offs \in 0 .. TailPlace
    <3>1. t \in Object /\ Chained(m, t)
      BY <1>1, <1>2
    <3> QED BY <1>5, <3>1, InText
  <2> QED BY <2>1, Sizes
<1> QED BY <1>3, <1>4, <1>6, <1>7

(* A text has as many letters as the stash has.                            *)
LEMMA TextLen ==
  ASSUME NEW m, NEW s, LengthOf(m, s) \in Nat
  PROVE  Len(TextOf(m, s)) = LengthOf(m, s)
BY DEF TextOf

(* What the text and the place of a stash are, now and after a step.       *)
LEMMA ViewNow ==
  ASSUME StashInv, NEW o \in Live
  PROVE  /\ text[o] = TextOf(mem, obj[o]) /\ pos[o] = PosOf(mem, obj[o])
         /\ LengthOf(mem, obj[o]) \in Nat /\ Len(text[o]) = LengthOf(mem, obj[o])
         /\ stage[o] = "writing" => pos[o] = 0
<1>1. /\ o \in Objs /\ obj[o] \in Object /\ obj[o].count \in Nat /\ Chained(mem, obj[o])
      /\ stage[o] = "writing" => Writing(mem, obj[o])
  BY LiveFacts
<1>2. text[o] = TextOf(mem, obj[o]) /\ pos[o] = PosOf(mem, obj[o])
  BY <1>1, Views
<1>3. LengthOf(mem, obj[o]) \in Nat
  BY <1>1, LengthNat
<1>4. stage[o] = "writing" => PosOf(mem, obj[o]) = 0
  BY <1>1, PlaceOf
<1> QED BY <1>2, <1>3, <1>4, TextLen

LEMMA ViewNext ==
  ASSUME StashInv', NEW o \in Objs, stage'[o] # "none"
  PROVE  /\ text'[o] = TextOf(mem', obj'[o]) /\ pos'[o] = PosOf(mem', obj'[o])
         /\ stage'[o] = "writing" => pos'[o] = 0
<1>1. text'[o] = TextOf(mem', obj'[o]) /\ pos'[o] = PosOf(mem', obj'[o])
  BY DEF text, pos, Live
<1>2. obj'[o] \in Object /\ Chained(mem', obj'[o])
      /\ (stage'[o] = "writing" => Writing(mem', obj'[o]))
  <2>1. obj' \in [Objs -> Object]
    BY DEF StashInv, Types
  <2>2. o \in Live'
    BY DEF Live
  <2>3. Kept(o, mem, obj[o], stage[o])'
    BY <2>2 DEF StashInv
  <2> QED BY <2>1, <2>3 DEF Kept
<1> QED BY <1>1, <1>2, PlaceOf

(* A stash that is no more has no text.                                    *)
LEMMA ViewGone ==
  ASSUME NEW o \in Objs, stage'[o] = "none"
  PROVE  text'[o] = << >> /\ pos'[o] = 0
BY DEF text, pos, Live

(* The texts are a function of the stashes.                                *)
LEMMA SameTexts ==
  ASSUME NEW o \in Objs
  PROVE  text = [text EXCEPT ![o] = text[o]] /\ pos = [pos EXCEPT ![o] = pos[o]]
<1> DEFINE t == text
           q == pos
<1>1. t = [p \in Objs |-> t[p]] /\ q = [p \in Objs |-> q[p]]
  BY Views
<1> HIDE DEF t, q
<1>2. t = [t EXCEPT ![o] = t[o]] /\ q = [q EXCEPT ![o] = q[o]]
  BY <1>1
<1> QED BY <1>2 DEF t, q

-----------------------------------------------------------------------------
(* Each operation of the sketch does what TextStore says.                  *)
LEMMA RefInit == ASSUME Init PROVE Abstract!Init
<1>1. Live = {}
  BY DEF Init, Live
<1> QED BY <1>1 DEF Init, Abstract!Init, text, pos

(* create starts an empty text.                                            *)
LEMMA CreateRef ==
  ASSUME StashInv, Room, NEW o \in Objs, Create(o)
  PROVE  Abstract!Create(o)
<1>1. StashInv' /\ Apart(o) /\ LengthOf(mem', obj'[o]) = 0
  BY CreateInv
<1>2. /\ stage[o] = "none" /\ stage' = [stage EXCEPT ![o] = "writing"]
      /\ stage'[o] = "writing" /\ UNCHANGED <<got, prepared, sent>>
  BY DEF Create, StashInv, Types
<1>3. text[o] = << >> /\ pos[o] = 0
  BY <1>2, Views DEF Live
<1>4. text'[o] = << >>
  <2>1. TextOf(mem', obj'[o]) = << >>
    BY <1>1 DEF TextOf
  <2> QED BY <1>1, <1>2, <2>1, ViewNext
<1>5. pos'[o] = 0
  BY <1>1, <1>2, ViewNext
<1>6. text' = text /\ pos' = pos
  BY <1>1, <1>3, <1>4, <1>5, OneView, SameTexts
<1> QED BY <1>2, <1>6 DEF Abstract!Create

(* put appends the next letter of the text.                                *)
LEMMA PutRef ==
  ASSUME StashInv, Room, NEW o \in Objs, Put(o)
  PROVE  Abstract!Put(o)
<1>1. StashInv' /\ Apart(o) /\ Grown(mem, obj[o], mem', obj'[o], NextLetter(o))
  BY PutInv
<1>2. /\ o \in Live /\ stage[o] = "writing" /\ LengthOf(mem, obj[o]) < Len(Letters[o])
      /\ UNCHANGED <<stage, got, prepared, sent>>
  <2>1. Len(Letters[o]) \in Nat
    BY StashAssumption
  <2> QED BY <2>1 DEF Put, Live
<1>3. /\ text[o] = TextOf(mem, obj[o]) /\ Len(text[o]) = LengthOf(mem, obj[o]) /\ pos[o] = 0
  BY <1>2, ViewNow
<1>4. text'[o] = TextOf(mem', obj'[o]) /\ pos'[o] = 0
  BY <1>1, <1>2, ViewNext
<1>5. TextOf(mem', obj'[o]) = Append(TextOf(mem, obj[o]), NextLetter(o))
  BY <1>1, <1>2, LiveFacts, GrownText
<1>6. text'[o] = Append(text[o], Letters[o][Len(text[o]) + 1])
  BY <1>3, <1>4, <1>5 DEF NextLetter
<1>7. /\ text' = [text EXCEPT ![o] = Append(text[o], Letters[o][Len(text[o]) + 1])]
      /\ pos' = [pos EXCEPT ![o] = pos[o]]
  <2>1. pos'[o] = pos[o]
    BY <1>3, <1>4
  <2> QED BY <1>1, <1>6, <2>1, OneView
<1>8. pos' = pos
  BY <1>7, SameTexts
<1> QED BY <1>2, <1>3, <1>7, <1>8 DEF Abstract!Put

(* save and prepare change no text.                                        *)
LEMMA HeaderRef ==
  ASSUME StashInv, NEW o \in Live, Apart(o), SameLetters(mem, obj[o], mem'),
         o \in Live', obj' = obj
  PROVE  text' = text /\ pos' = pos
<1>1. o \in Objs /\ text'[o] = text[o] /\ pos'[o] = pos[o]
  BY SameView, LiveFacts
<1> QED BY <1>1, OneView, SameTexts

LEMMA SaveRef == ASSUME StashInv, NEW o \in Objs, Save(o) PROVE Abstract!Save(o)
<1>1. /\ o \in Live /\ stage[o] = "writing" /\ stage' = [stage EXCEPT ![o] = "saved"]
      /\ o \in Live' /\ UNCHANGED <<obj, got, prepared, sent>>
  BY DEF Save, Live, StashInv, Types
<1>2. text' = text /\ pos' = pos
  BY <1>1, SaveInv, HeaderRef
<1> QED BY <1>1, <1>2 DEF Abstract!Save

LEMMA PrepareRef == ASSUME StashInv, NEW o \in Objs, Prepare(o) PROVE Abstract!Prepare(o)
<1>1. /\ o \in Live /\ stage[o] = "saved" /\ stage' = [stage EXCEPT ![o] = "prepared"]
      /\ o \in Live' /\ prepared = Nothing /\ prepared' = o /\ UNCHANGED <<obj, got, sent>>
  BY DEF Prepare, Live, StashInv, Types
<1>2. text' = text /\ pos' = pos
  BY <1>1, PrepareInv, HeaderRef
<1> QED BY <1>1, <1>2 DEF Abstract!Prepare

(* What is read of the stash of o is all that can change.                  *)
LEMMA ReadRef ==
  ASSUME StashInv, StashInv', NEW o \in Live, Apart(o), stage'[o] # "none",
         NEW k \in Nat, At(mem, obj[o], mem', obj'[o], k)
  PROVE  text' = text /\ pos' = [pos EXCEPT ![o] = k]
<1>1. o \in Objs /\ mem \in Memory /\ obj[o] \in Object /\ Chained(mem, obj[o])
  BY LiveFacts
<1>2. TextOf(mem', obj'[o]) = TextOf(mem, obj[o]) /\ PosOf(mem', obj'[o]) = k
  BY <1>1, AtView
<1>3. text'[o] = text[o] /\ pos'[o] = k
  BY <1>1, <1>2, ViewNow, ViewNext
<1> QED BY <1>1, <1>3, OneView, SameTexts

(* get returns the letter at the place reached, and 0 at the end.          *)
LEMMA GetRef == ASSUME StashInv, NEW o \in Objs, Get(o) PROVE Abstract!Get(o)
<1> DEFINE s == obj[o]
           g == GetByte(mem, s)
           k == pos[o]
<1>1. /\ o \in Live /\ stage[o] \in {"saved", "prepared"} /\ stage[o] # "writing"
      /\ mem' = g.mem /\ obj'[o] = g.obj /\ got' = g.c
      /\ UNCHANGED <<stage, prepared, sent>>
  BY DEF Get, Readable, Live, StashInv, Types
<1>2. /\ mem \in Memory /\ s \in Object /\ s.count \in Nat /\ Chained(mem, s)
      /\ Copied(mem, s)
  BY <1>1, LiveFacts
<1>3. StashInv' /\ Apart(o) /\ stage'[o] # "none"
  BY <1>1, GetInv
<1>4. text[o] = TextOf(mem, s) /\ Len(text[o]) = LengthOf(mem, s) /\ k = PosOf(mem, s)
  BY <1>1, ViewNow
<1>5. k \in Nat /\ At(mem, s, mem, s, k)
  <2>1. PICK n : InBlock(mem, s, n)
    BY <1>1, LivePlace
  <2>2. /\ n \in Nat /\ s.offs \in 0 .. TailPlace
        /\ NextPlace * n + s.offs - HeaderSize \in Nat
    BY <1>2, <2>1, InText
  <2>3. k = NextPlace * n + s.offs - HeaderSize
    BY <1>2, <1>4, <2>1, PosIs
  <2> HIDE DEF k
  <2>4. NextPlace * n + s.offs = HeaderSize + k
    <3>1. NextPlace * n \in Int
      BY <2>2, Sizes
    <3> QED BY <2>2, <2>3, <3>1, Sizes
  <2>5. SameBlocks(mem, mem)
    BY <1>2 DEF SameBlocks
  <2> QED BY <1>2, <2>1, <2>2, <2>3, <2>4, <2>5 DEF At
<1> HIDE DEF k, g, s
<1>6. IF k < LengthOf(mem, s)
      THEN At(mem, s, g.mem, g.obj, k + 1) /\ g.c = TextOf(mem, s)[k + 1]
      ELSE At(mem, s, g.mem, g.obj, k) /\ g.c = 0
  BY <1>2, <1>5, ReadMoves DEF g
<1>7. CASE k < LengthOf(mem, s)
  <2>1. At(mem, obj[o], mem', obj'[o], k + 1) /\ k + 1 \in Nat
    BY <1>1, <1>5, <1>6, <1>7 DEF s
  <2>2. text' = text /\ pos' = [pos EXCEPT ![o] = k + 1]
    BY <1>1, <1>3, <2>1, ReadRef
  <2>3. got' = text[o][k + 1]
    BY <1>1, <1>4, <1>6, <1>7
  <2> QED BY <1>1, <1>4, <1>7, <2>2, <2>3 DEF Abstract!Get, k
<1>8. CASE ~(k < LengthOf(mem, s))
  <2>1. At(mem, obj[o], mem', obj'[o], k)
    BY <1>1, <1>6, <1>8 DEF s
  <2>2. text' = text /\ pos' = [pos EXCEPT ![o] = k]
    BY <1>1, <1>3, <1>5, <2>1, ReadRef
  <2>3. pos' = pos
    BY <2>2, SameTexts DEF k
  <2> QED BY <1>1, <1>4, <1>6, <1>8, <2>2, <2>3 DEF Abstract!Get, k
<1> QED BY <1>7, <1>8

(* open starts again.                                                      *)
LEMMA OpenRef == ASSUME StashInv, NEW o \in Objs, Open(o) PROVE Abstract!Open(o)
<1>1. /\ o \in Live /\ stage[o] \in {"saved", "prepared"} /\ stage[o] # "writing"
      /\ mem' = LoadRead(mem, obj[o].first) /\ obj'[o] = OpenObject(mem, obj[o].first)
      /\ UNCHANGED <<stage, got, prepared, sent>>
  BY DEF Open, Readable, Live, OpenRead, StashInv, Types
<1>2. /\ mem \in Memory /\ obj[o] \in Object /\ Chained(mem, obj[o]) /\ Reading(mem, obj[o])
  BY <1>1, LiveFacts
<1>3. StashInv' /\ Apart(o) /\ stage'[o] # "none"
  BY <1>1, OpenInv
<1>4. At(mem, obj[o], mem', obj'[o], 0)
  BY <1>1, <1>2, OpenAt
<1>5. text' = text /\ pos' = [pos EXCEPT ![o] = 0]
  BY <1>1, <1>3, <1>4, ReadRef
<1> QED BY <1>1, <1>5 DEF Abstract!Open

(* A stash that is freed is forgotten, and only it.                        *)
LEMMA ForgetRef ==
  ASSUME StashInv, NEW o \in Objs, Apart(o), stage' = [stage EXCEPT ![o] = "none"]
  PROVE  Abstract!Forget(o)
<1>1. stage'[o] = "none"
  BY DEF StashInv, Types
<1>2. text'[o] = << >> /\ pos'[o] = 0
  BY <1>1, ViewGone
<1> QED BY <1>2, OneView DEF Abstract!Forget

(* The datafill callback sends the text that was prepared.                 *)
LEMMA FillRef == ASSUME StashInv, Fill PROVE Abstract!Fill
<1>1. /\ prepared \in Live /\ Apart(prepared)
      /\ sent' = TextOf(mem, obj[prepared]) /\ prepared' = Nothing
      /\ stage' = [stage EXCEPT ![prepared] = "none"] /\ got' = got
  BY FillSends
<1>2. prepared \in Objs /\ prepared # Nothing /\ sent' = text[prepared]
  BY <1>1, ViewNow DEF Fill, Live
<1>3. Abstract!Forget(prepared)
  BY <1>1, <1>2, ForgetRef
<1> QED BY <1>1, <1>2, <1>3 DEF Abstract!Fill

LEMMA ReleaseRef ==
  ASSUME StashInv, ~Hurried, NEW o \in Objs, Release(o)
  PROVE  Abstract!Release(o)
<1>1. /\ stage[o] = "saved" /\ stage' = [stage EXCEPT ![o] = "none"]
      /\ UNCHANGED <<got, prepared, sent>>
  BY DEF Release
<1>2. Abstract!Forget(o)
  BY <1>1, ReleaseInv, ForgetRef
<1> QED BY <1>1, <1>2 DEF Abstract!Release

(* Every step is one of TextStore, or leaves the texts alone.              *)
LEMMA NextRef ==
  ASSUME Room, ~Hurried, StashInv, [Next]_vars
  PROVE  [Abstract!Next]_Abstract!tvars
<1>1. CASE Fill
  BY <1>1, FillRef DEF Abstract!Next
<1>2. ASSUME NEW o \in Objs,
             \/ Create(o) \/ Put(o) \/ Save(o) \/ Get(o) \/ Open(o) \/ Prepare(o) \/ Release(o)
      PROVE  Abstract!Next
  <2>1. \/ Abstract!Create(o) \/ Abstract!Put(o) \/ Abstract!Save(o) \/ Abstract!Get(o)
        \/ Abstract!Open(o) \/ Abstract!Prepare(o) \/ Abstract!Release(o)
    BY <1>2, CreateRef, PutRef, SaveRef, GetRef, OpenRef, PrepareRef, ReleaseRef
  <2> QED BY <2>1 DEF Abstract!Next
<1>3. CASE UNCHANGED vars
  BY <1>3 DEF vars, Abstract!tvars, text, pos, Live
<1> QED BY <1>1, <1>2, <1>3 DEF Next

(* The stash keeps every text: what the sketch writes is what it reads     *)
(* back and what the datafill callback sends, whatever it writes, reads,   *)
(* sends and releases in between, through one write and one read buffer.   *)
THEOREM KeepsTheTexts == ASSUME Room, ~Hurried PROVE Spec => KeepsTexts
<1>1. Init => Abstract!Init
  BY RefInit
<1>2. StashInv /\ [Next]_vars => [Abstract!Next]_Abstract!tvars
  BY NextRef
<1> QED BY <1>1, <1>2, InvHolds, PTL DEF Spec, KeepsTexts, Abstract!Spec
=============================================================================
