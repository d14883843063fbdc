------------------------------- MODULE Stash -------------------------------
(***************************************************************************)
(* The stash of stash.cpp: texts kept in the spare memory of the network   *)
(* chip as chains of 64-byte blocks, seen through one write buffer, which  *)
(* is written back when another block is needed, and one read buffer.      *)
(* Block 0 holds the message that prepare describes and that the datafill  *)
(* callback of tcpSend (tcpip.cpp) extracts later.                         *)
(*                                                                         *)
(* A block is an array of bytes: letters up to tail, where the last block  *)
(* of a chain keeps the number of bytes in use, and then the number of the *)
(* next block.  The first one starts with the header count, first, last.   *)
(***************************************************************************)
EXTENDS Integers, Sequences, FiniteSets

CONSTANTS
  Objs,     \* the Stash objects of the sketch
  Letters,  \* what it prints to each of them
  Blocks,   \* SCRATCH_PAGE_NUM
  TailPlace, \* the place of tail in a block, 62
  Junk,     \* what the chip's memory may hold at power-up
  Sketches, \* objs: the stashes a sketch uses; reads: those of them that it
            \* reads back itself, with get
  Hurried,  \* release is called with blocks not written back
  Nothing

NextPlace == TailPlace + 1
HeaderSize == 3
None == 255

ASSUME StashAssumption ==
  /\ Blocks \in 1 .. None /\ TailPlace \in Nat /\ TailPlace >= HeaderSize
  /\ Hurried \in BOOLEAN
  /\ Sketches \subseteq [objs : SUBSET Objs, reads : SUBSET Objs]
  /\ Nothing \notin Objs
  /\ Junk \subseteq 0 .. Blocks - 1
  /\ \A o \in Objs : Letters[o] \in Seq(Nat)

VARIABLES
  sketch,
  mem,   \* pages: the chip's memory; wb, rb: bufs[WRITEBUF], bufs[READBUF];
         \* free: the blocks with their bit set in map
  obj,   \* the fields of each Stash object
  stage, \* where the sketch is with it: "none", "writing", "saved", "prepared"
  prepared, got, sent

vars == <<sketch, mem, obj, stage, prepared, got, sent>>

Pages == 0 .. Blocks - 1
Places == 0 .. NextPlace
Header == [count |-> 0, first |-> 1, last |-> 2]  \* places in the first block

TypeOK ==
  /\ sketch \in Sketches
  /\ mem.wb.bnum \in Pages /\ mem.rb.bnum \in Pages \union {None}
  /\ mem.free \subseteq Pages
  /\ \A o \in Objs :
       /\ obj[o].count \in Pages /\ obj[o].first \in Pages /\ obj[o].last \in Pages
       /\ obj[o].curr \in Pages /\ obj[o].offs \in 0 .. TailPlace
  /\ stage \in [Objs -> {"none", "writing", "saved", "prepared"}]
  /\ prepared \in Objs \union {Nothing}

NewObject == [count |-> 0, first |-> 0, last |-> 0, curr |-> 0, offs |-> 0]
Zeros == [bnum |-> 0, bytes |-> [p \in Places |-> 0]]

(* begin() has called initMap.                                             *)
Init ==
  /\ sketch \in Sketches
  /\ \E j \in Junk :
       mem = [pages |-> [b \in Pages |-> [p \in Places |-> j]],
              wb |-> Zeros, rb |-> Zeros, free |-> Pages \ {0}]
  /\ obj = [o \in Objs |-> NewObject]
  /\ stage = [o \in Objs |-> "none"]
  /\ prepared = Nothing /\ got = 0 /\ sent = << >>

-----------------------------------------------------------------------------
(* load and the block allocator: functions from memory to memory.          *)
LoadWriteKeepsRead(m, blk) ==
  IF blk = m.wb.bnum THEN m
  ELSE LET flushed == [m.pages EXCEPT ![m.wb.bnum] = m.wb.bytes]
       IN [m EXCEPT !.pages = flushed,
                    !.wb = [bnum |-> blk, bytes |-> flushed[blk]]]
Forgotten(buf, blk) == IF buf.bnum = blk THEN [buf EXCEPT !.bnum = None] ELSE buf
LoadWriteNoFlush(m, blk) ==
  IF blk = m.wb.bnum THEN m
  ELSE [m EXCEPT !.wb = [bnum |-> blk, bytes |-> m.pages[blk]],
                 !.rb = Forgotten(@, blk)]
LoadWrite(m, blk) ==
  IF blk = m.wb.bnum THEN m
  ELSE LET flushed == [m.pages EXCEPT ![m.wb.bnum] = m.wb.bytes]
       IN [m EXCEPT !.pages = flushed,
                    !.wb = [bnum |-> blk, bytes |-> flushed[blk]],
                    !.rb = Forgotten(@, blk)]
Write(m, bytes) == [m EXCEPT !.wb = [bnum |-> @.bnum, bytes |-> bytes]]

LoadRead(m, blk) ==
  CASE blk = m.rb.bnum -> m
    [] blk # m.rb.bnum /\ blk = m.wb.bnum -> [m EXCEPT !.rb = m.wb]
    [] OTHER -> [m EXCEPT !.rb = [bnum |-> blk, bytes |-> m.pages[blk]]]

FetchByte(m, blk, off) ==
  CASE blk = m.wb.bnum -> m.wb.bytes[off]
    [] blk # m.wb.bnum /\ blk = m.rb.bnum -> m.rb.bytes[off]
    [] OTHER -> m.pages[blk][off]

Lowest(S) == CHOOSE b \in S : \A c \in S : b <= c
AllocBlock(m) == IF m.free = {} THEN 0 ELSE Lowest(m.free)
Taken(m) == [m EXCEPT !.free = @ \ {AllocBlock(m)}]

(* open: the header of the first block, through the read buffer.           *)
OpenRead(m, blk) == LoadRead(m, blk)
OpenObject(m, blk) ==
  LET head == OpenRead(m, blk).rb.bytes
  IN [count |-> head[Header.count], first |-> head[Header.first],
      last |-> head[Header.last], curr |-> blk, offs |-> HeaderSize]

(* get: the memory, the object and the letter after it.                    *)
GetByteStays(m, s) ==
  LET r == LoadRead(m, s.curr)
      page == r.rb.bytes
  IN IF s.curr = s.last /\ s.offs >= page[TailPlace] THEN [mem |-> r, obj |-> s, c |-> 0]
     ELSE [mem |-> r, c |-> page[s.offs], obj |-> [s EXCEPT !.offs = @ + 1]]
GetByte(m, s) ==
  LET r == LoadRead(m, s.curr)
      page == r.rb.bytes
  IN IF s.curr = s.last /\ s.offs >= page[TailPlace] THEN [mem |-> r, obj |-> s, c |-> 0]
     ELSE [mem |-> r, c |-> page[s.offs],
           obj |-> IF s.offs + 1 > TailPlace /\ s.curr # s.last
                   THEN [s EXCEPT !.curr = page[NextPlace], !.offs = 0]
                   ELSE [s EXCEPT !.offs = @ + 1]]
SizeOf(m, s) == (TailPlace + 1) * s.count + FetchByte(m, s.last, TailPlace) - HeaderSize

(* release: from first along the next fields in the chip's own memory.  A  *)
(* cycle, which only a stale field can make, would keep the code in it.    *)
Chain(m, first) ==
  LET reach[n \in 0 .. Blocks] ==
        IF n = 0 THEN {first}
        ELSE LET R == reach[n - 1] IN R \union {m.pages[b][NextPlace] : b \in R \ {0}}
  IN reach[Blocks] \ {0}
ReleasedShort(m, first) ==
  [m EXCEPT !.free = @ \union ({first, m.pages[first][NextPlace]} \ {0})]
Released(m, first) == [m EXCEPT !.free = @ \union Chain(m, first)]

(* A block as it is, with the write buffer if it is in there; the blocks of *)
(* a stash, and the text in them with its length, which is how many letters *)
(* the sketch has printed.                                                 *)
Page(m, b) == IF b = m.wb.bnum THEN m.wb.bytes ELSE m.pages[b]
BlockAt(m, s, n) ==
  LET follow[k \in 0 .. n] == IF k = 0 THEN s.first ELSE Page(m, follow[k - 1])[NextPlace]
  IN follow[n]
BlocksOf(m, s) == {BlockAt(m, s, n) : n \in 0 .. s.count}
LengthOf(m, s) == (TailPlace + 1) * s.count + Page(m, s.last)[TailPlace] - HeaderSize
TextOf(m, s) ==
  [k \in 1 .. LengthOf(m, s) |->
     LET place == HeaderSize + k - 1
     IN Page(m, BlockAt(m, s, place \div (TailPlace + 1)))[place % (TailPlace + 1)]]
PosOf(m, s) ==
  LET n == CHOOSE n \in 0 .. s.count : BlockAt(m, s, n) = s.curr
  IN (TailPlace + 1) * n + s.offs - HeaderSize

-----------------------------------------------------------------------------
(* The operations of the sketch.                                           *)
Create(o) ==
  LET blk == AllocBlock(mem)
      w == LoadWrite(Taken(mem), blk)
      m == Write(w, [w.wb.bytes EXCEPT ![Header.count] = 0, ![Header.first] = blk,
                       ![Header.last] = blk, ![TailPlace] = HeaderSize, ![NextPlace] = 0])
  IN /\ o \in sketch.objs /\ stage[o] = "none"
     /\ stage' = [stage EXCEPT ![o] = "writing"]
     /\ mem' = OpenRead(m, blk)
     /\ obj' = [obj EXCEPT ![o] = OpenObject(m, blk)]
     /\ UNCHANGED <<sketch, prepared, got, sent>>

PutTo(s, letter) ==
  LET w == LoadWrite(mem, s.last)
      t == w.wb.bytes[TailPlace]
      put == [w.wb.bytes EXCEPT ![t] = letter]
      blk == AllocBlock(w)
      next == LoadWrite(Write(Taken(w), [put EXCEPT ![NextPlace] = blk]), blk)
      fresh == [next.wb.bytes EXCEPT ![TailPlace] = 0, ![NextPlace] = 0]
  IN IF t + 1 <= TailPlace
     THEN [mem |-> Write(w, [put EXCEPT ![TailPlace] = t + 1]), obj |-> s]
     ELSE [mem |-> Write(next, fresh), obj |-> [s EXCEPT !.last = blk, !.count = @ + 1]]

Put(o) ==
  /\ stage[o] = "writing" /\ LengthOf(mem, obj[o]) \in 0 .. Len(Letters[o]) - 1
  /\ LET p == PutTo(obj[o], Letters[o][LengthOf(mem, obj[o]) + 1])
     IN mem' = p.mem /\ obj' = [obj EXCEPT ![o] = p.obj]
  /\ UNCHANGED <<sketch, stage, prepared, got, sent>>

Save(o) ==
  LET s == obj[o]
      w == LoadWrite(mem, s.first)
      m == Write(w, [w.wb.bytes EXCEPT ![Header.count] = s.count,
                       ![Header.first] = s.first, ![Header.last] = s.last])
  IN /\ stage[o] = "writing" /\ stage' = [stage EXCEPT ![o] = "saved"]
     /\ mem' = IF m.rb.bnum = s.first THEN LoadRead(m, 0) ELSE m
     /\ UNCHANGED <<sketch, obj, prepared, got, sent>>

Readable(o) == o \in sketch.reads /\ stage[o] \in {"saved", "prepared"}
Get(o) ==
  LET g == GetByte(mem, obj[o])
  IN /\ Readable(o)
     /\ mem' = g.mem /\ obj' = [obj EXCEPT ![o] = g.obj] /\ got' = g.c
     /\ UNCHANGED <<sketch, stage, prepared, sent>>
Open(o) ==
  /\ Readable(o)
  /\ mem' = OpenRead(mem, obj[o].first)
  /\ obj' = [obj EXCEPT ![o] = OpenObject(mem, obj[o].first)]
  /\ UNCHANGED <<sketch, stage, prepared, got, sent>>

(* prepare("...$D...$H", size(), fd): the length and fd go to block 0.     *)
Prepare(o) ==
  LET w == LoadWrite(mem, 0)
      h == OpenObject(w, obj[o].first)
      m == OpenRead(w, obj[o].first)
  IN /\ stage[o] = "saved" /\ stage' = [stage EXCEPT ![o] = "prepared"]
     /\ prepared = Nothing /\ prepared' = o
     /\ mem' = Write(m, [m.wb.bytes EXCEPT ![0] = SizeOf(m, h), ![1] = h.first])
     /\ UNCHANGED <<sketch, obj, got, sent>>

(* tcp_datafill_cb: length, extract of the whole message, cleanup.         *)
Fill ==
  LET w == LoadWrite(mem, 0)
      len == w.wb.bytes[0]
      fd == w.wb.bytes[1]
      read[n \in 0 .. len] ==
        IF n = 0 THEN [mem |-> OpenRead(w, fd), obj |-> OpenObject(w, fd), out |-> << >>]
        ELSE LET r == read[n - 1]
                 g == GetByte(r.mem, r.obj)
             IN [mem |-> g.mem, obj |-> g.obj, out |-> Append(r.out, g.c)]
      after == OpenRead(read[len].mem, fd)
  IN /\ prepared # Nothing /\ prepared' = Nothing
     /\ sent' = read[len].out
     /\ mem' = Released(after, OpenObject(after, fd).first)
     /\ stage' = [stage EXCEPT ![prepared] = "none"]
     /\ UNCHANGED <<sketch, obj, got>>

Release(o) ==
  /\ stage[o] = "saved" /\ stage' = [stage EXCEPT ![o] = "none"]
  /\ Hurried \/ mem.wb.bnum = 0
  /\ mem' = Released(mem, obj[o].first)
  /\ obj' = [obj EXCEPT ![o].first = 0]
  /\ UNCHANGED <<sketch, prepared, got, sent>>

Next ==
  \/ Fill
  \/ \E o \in Objs : \/ Create(o) \/ Put(o) \/ Save(o) \/ Get(o) \/ Open(o)
                     \/ Prepare(o) \/ Release(o)

Spec == Init /\ [][Next]_vars

-----------------------------------------------------------------------------
Live == {o \in Objs : stage[o] # "none"}
Owned(o) == BlocksOf(mem, obj[o])

(* The stash of the message that block 0 describes.                        *)
Pending ==
  IF prepared = Nothing THEN {}
  ELSE LET fd == Page(mem, 0)[1]
       IN BlocksOf(mem, [count |-> Page(mem, fd)[Header.count], first |-> fd])

text == [o \in Objs |-> IF o \in Live THEN TextOf(mem, obj[o]) ELSE << >>]
pos == [o \in Objs |-> IF o \in Live THEN PosOf(mem, obj[o]) ELSE 0]

(* The stash keeps every text in order until it is read or sent, however   *)
(* the writing of one and the sending of another alternate.                *)
Abstract ==
  INSTANCE TextStore WITH Objs <- Objs, Letters <- Letters, Nothing <- Nothing,
    stage <- stage, text <- text, pos <- pos, got <- got, prepared <- prepared,
    sent <- sent
KeepsTexts == Abstract!Spec

(* No block belongs to two stashes, or to a stash and the free list.       *)
BlocksDisjoint ==
  /\ \A o \in Live : Owned(o) \intersect mem.free = {}
  /\ \A o, p \in Live : o # p => Owned(o) \intersect Owned(p) = {}

(* Every block is free or in use: nothing leaks.                           *)
NoLeak == Pages \ {0} = mem.free \union Pending \union UNION {Owned(o) : o \in Live}

=============================================================================
