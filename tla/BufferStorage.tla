---------------------------- MODULE BufferStorage ----------------------------
(***************************************************************************)
(* The storage accounting of one buffer object: its two sections, the tail *)
(* of each (used), the fills that move the tails, and the driver's memory  *)
(* they write to.  Those who fill a buffer keep the start they are told    *)
(* (start_out_opt): that is the set of blocks.                             *)
(*                                                                         *)
(* A buffer made by a3bufferCreate has both sections on the same storage,  *)
(* so it is filled through one of them: section 0, or section 1 when it is *)
(* an index buffer, which a3indexInternalStore always fills there.         *)
(***************************************************************************)
EXTENDS Integers

CONSTANTS
  Width,        \* 2^32: sizes and offsets are a3ui32
  Capacities,   \* sizes that buffers, or their sections, are made with
  Requests,     \* sizes and offsets that are asked for
  MaxFills      \* bound on the fills of StorageNext in one buffer's life

\* The sums of the code are taken modulo Width and compared without a test for
\* that: the code relies on its callers, whose sizes are far smaller.
ASSUME StorageConstants ==
  /\ Width \in Nat \ {0} /\ MaxFills \in Nat
  /\ Capacities \subseteq Nat /\ Requests \subseteq Nat
  /\ \A c, d \in Capacities, o, r \in Requests \union {0} : c + d + o + r < Width

VARIABLES
  handle,       \* the buffer exists
  size, split, used,
  sections,     \* the sections it is filled through
  content,      \* the driver's memory: which fill wrote each cell, 0 if none
  blocks,       \* what callers were told of their data
  fills         \* number of fills of this buffer so far

accountVars == <<handle, size, split, used, sections>>
storageVars == <<accountVars, content, blocks, fills>>

Cells    == 0 .. (Width - 1)
Sections == {0, 1}
NoCells  == [s \in Sections |-> 0]

Block == [section : Sections, start : Nat, end : Nat, id : Nat \ {0}]

Add(a, b) == (a + b) % Width

\* First cell of a section.
Base(s) == IF s = 1 /\ sections = Sections THEN split[0] ELSE 0

StorageTypeOK ==
  /\ handle \in BOOLEAN
  /\ size \in Cells
  /\ split \in [Sections -> Cells] /\ used \in [Sections -> Cells]
  /\ sections \in SUBSET Sections
  /\ content \in [0 .. (size - 1) -> Nat]
  /\ blocks \in SUBSET Block
  /\ fills \in Nat

StorageInit ==
  /\ handle = FALSE /\ size = 0
  /\ split = NoCells /\ used = NoCells /\ sections = {}
  /\ content = [i \in {} |-> 0]
  /\ blocks = {} /\ fills = 0

------------------------------------------------------------------------------
(* Data in the driver and in the callers' hands.                            *)

\* glBufferData: the memory of a new buffer, all of it with the data of fill id.
Allocated(c, id) == [i \in 0 .. (c - 1) |-> id]

\* glBufferSubData: cells start .. end - 1 get the data of fill id.
Written(start, end, id) ==
  [i \in DOMAIN content |-> IF start <= i /\ i < end THEN id ELSE content[i]]

\* The fill that comes next is told where its data is.
Told(s, start, end) ==
  blocks \union {[section |-> s, start |-> start, end |-> end, id |-> fills + 1]}

------------------------------------------------------------------------------
(* The operations of a3_BufferObject.                                       *)

\* a3bufferCreate: an undivided buffer, empty or with data in all of it.
Create(c, data, s) ==
  /\ ~handle /\ c > 0
  /\ handle' = TRUE /\ size' = c
  /\ split' = [t \in Sections |-> c]
  /\ used' = [t \in Sections |-> IF data THEN c ELSE 0]
  /\ sections' = {s}
  /\ IF data THEN /\ content' = Allocated(c, fills + 1)
                  /\ blocks' = Told(s, 0, c)
                  /\ fills' = fills + 1
             ELSE content' = Allocated(c, 0) /\ UNCHANGED <<blocks, fills>>

\* a3bufferCreateSplit, as every caller uses it: without initial data.
CreateSplit(c0, c1) ==
  /\ ~handle /\ Add(c0, c1) # 0
  /\ handle' = TRUE /\ size' = Add(c0, c1)
  /\ split' = [s \in Sections |-> IF s = 0 THEN c0 ELSE Add(c0, c1)]
  /\ used' = [s \in Sections |-> IF s = 0 THEN 0 ELSE c0]
  /\ sections' = Sections
  /\ content' = Allocated(Add(c0, c1), 0)
  /\ UNCHANGED <<blocks, fills>>

\* Slip: only the request is compared with the limit, not where it ends.
FitsAlone(s, start, n) == n <= split[s]

\* The test that a3bufferFill, a3bufferFillOffset and a3bufferValidateBlockSize share.
Fits(s, start, n) == Add(start, n) <= split[s]

\* Slip: the tail moves by the size and leaves the offset out.
NextTailBySize(s, start, n, data) ==
  IF Add(start, n) > used[s] THEN IF data THEN Add(used[s], n) ELSE start ELSE used[s]

\* The tail after a fill at an offset.
NextTail(s, start, n, data) ==
  IF Add(start, n) > used[s] THEN IF data THEN Add(start, n) ELSE start ELSE used[s]

\* a3bufferFillOffset: start lies offset cells behind the tail.  Null data
\* erases the cells, and the tail comes to where they start.
FillOffset(s, offset, n, data) ==
  LET start == Add(used[s], offset)
  IN /\ handle /\ s \in sections /\ n > 0
     /\ Fits(s, start, n)
     /\ used' = [used EXCEPT ![s] = NextTail(s, start, n, data)]
     /\ IF data THEN /\ content' = Written(start, Add(start, n), fills + 1)
                     /\ blocks' = Told(s, start, Add(start, n))
                     /\ fills' = fills + 1
                ELSE /\ content' = Written(start, Add(start, n), 0)
                     /\ UNCHANGED <<blocks, fills>>
     /\ UNCHANGED <<handle, size, split, sections>>

\* a3bufferFill appends.
Fill(s, n) ==
  LET start == used[s]
  IN /\ handle /\ s \in sections /\ n > 0
     /\ Fits(s, start, n)
     /\ used' = [used EXCEPT ![s] = Add(start, n)]
     /\ content' = Written(start, Add(start, n), fills + 1)
     /\ blocks' = Told(s, start, Add(start, n))
     /\ fills' = fills + 1
     /\ UNCHANGED <<handle, size, split, sections>>

\* The demo's "reset used flag so we can always fill buffers", done to its
\* uniform buffers after every fill: the data stays, but nobody counts on it.
ResetUsed ==
  /\ handle /\ sections = {0}
  /\ used' = [used EXCEPT ![0] = 0]
  /\ blocks' = {b \in blocks : b.section # 0}
  /\ UNCHANGED <<handle, size, split, sections, content, fills>>

\* Slip: the size survives the buffer.
EmptiedKeepsSize ==
  /\ handle' = FALSE /\ split' = NoCells /\ used' = NoCells
  /\ sections' = {} /\ blocks' = {} /\ fills' = 0
  /\ content' = [i \in {} |-> 0]
  /\ UNCHANGED size

\* The last a3bufferRelease: every field is cleared with the handle.
Emptied ==
  /\ handle' = FALSE /\ size' = 0 /\ split' = NoCells /\ used' = NoCells
  /\ sections' = {} /\ blocks' = {} /\ fills' = 0
  /\ content' = [i \in {} |-> 0]

Release == handle /\ Emptied

StorageNext ==
  \/ \E c \in Capacities, data \in BOOLEAN, s \in Sections : Create(c, data, s)
  \/ \E c0, c1 \in Capacities : CreateSplit(c0, c1)
  \/ \E s \in Sections, n \in Requests : fills < MaxFills /\ Fill(s, n)
  \/ \E s \in Sections, o \in Requests \union {0}, n \in Requests, data \in BOOLEAN :
       fills < MaxFills /\ FillOffset(s, o, n, data)
  \/ ResetUsed
  \/ Release

StorageSpec == StorageInit /\ [][StorageNext]_storageVars

------------------------------------------------------------------------------
(* Properties.                                                              *)

\* Whatever is stored later, in either section and at any offset, the data of
\* a caller stays in the driver's memory where the caller was told it is: fills
\* append, no tail ever falls back behind data that is still counted on, and
\* data of one section never reaches into the other (vertices and indices of the
\* scene share one buffer), nor past the end of the storage.
DataIsKept ==
  \A b \in blocks :
    /\ Base(b.section) <= b.start /\ b.end <= split[b.section] /\ b.end <= size
    /\ \A i \in b.start .. (b.end - 1) : content[i] = b.id

\* The blocks behave as those of a BlockStore: every operation hands out room
\* that nobody has, moves nothing, and takes nothing back but what was given up.
Blocks == INSTANCE BlockStore WITH
            Limit <- Width, held <- {<<b.start, b.end>> : b \in blocks}
ImplementsBlockStore == Blocks!Spec

==============================================================================
