------------------------ MODULE BufferStorage_proofs ------------------------
(***************************************************************************)
(* The storage accounting keeps the data it is given, and implements       *)
(* BlockStore, for all sizes, requests and lengths of use.                 *)
(*                                                                         *)
(* DataIsKept is not inductive: that a fill writes over nobody's data      *)
(* follows from where the tail is, that a fill in one section stays out of *)
(* the other from the order of the sections, and that no sum wraps from    *)
(* the bound on what is asked for.  IInv adds these.                       *)
(*                                                                         *)
(* Then the materials that share such a buffer and textures: their counts  *)
(* are sums over the materials, each step changes one term of each sum.    *)
(*                                                                         *)
(* And the scene that is loaded into such a buffer: what is used of it is  *)
(* the sum over the meshes stored so far, in the same terms as the sum     *)
(* over all of them that the buffer was made for; and each drawable has    *)
(* its vertices and indices in blocks that the accounting keeps.           *)
(***************************************************************************)
EXTENDS Materials, SceneGeometry, Sums, TLAPS

\* The tail of a section that is in use lies in the section, and the section in
\* the storage.
Tails ==
  \A s \in sections : Base(s) <= used[s] /\ used[s] <= split[s] /\ split[s] <= size

\* Whatever is asked of the buffer, the sums do not wrap.
SumsFit ==
  handle => \A o, r \in Requests \union {0} : size + o + r < Width

\* Blocks are not empty and lie between the start of their section and its tail.
Placed ==
  \A b \in blocks : /\ b.section \in sections
                    /\ Base(b.section) <= b.start
                    /\ b.start < b.end
                    /\ b.end <= used[b.section]

Kept == \A b \in blocks : \A i \in b.start .. (b.end - 1) : content[i] = b.id

\* No two blocks come from the same fill.
Numbered ==
  /\ \A b \in blocks : b.id <= fills
  /\ \A a, b \in blocks : a.id = b.id => a = b

\* What any fill that fits keeps, whatever it stores.
Sound ==
  /\ StorageTypeOK
  /\ ~handle => blocks = {}
  /\ Tails /\ Placed /\ Kept /\ Numbered

IInv == Sound /\ SumsFit

-----------------------------------------------------------------------------

\* A sum below the width is the sum.
LEMMA AddFits ==
  ASSUME NEW a \in Nat, NEW b \in Nat, a + b < Width
  PROVE  Add(a, b) = a + b
  BY StorageConstants DEF Add

\* Where a fill starts, and the test that there is room, mean what they say:
\* the cells of the fill lie behind the tail and in the section.
LEMMA FillFits ==
  ASSUME IInv, handle, NEW s \in sections,
         NEW o \in Requests \union {0}, NEW n \in Requests
  PROVE  /\ Add(used[s], o) = used[s] + o
         /\ Add(used[s] + o, n) = used[s] + o + n
         /\ used[s] \in Nat /\ o \in Nat /\ n \in Nat /\ split[s] \in Nat
<1>1. used[s] \in Nat /\ split[s] \in Nat /\ size \in Nat /\ Width \in Nat
  BY StorageConstants DEF IInv, Sound, StorageTypeOK, Cells
<1>2. o \in Nat /\ n \in Nat
  BY StorageConstants
<1>3. used[s] <= size
  BY <1>1 DEF IInv, Sound, Tails
<1>4. size + o + n < Width
  BY DEF IInv, Sound, SumsFit
<1>5. used[s] + o < Width /\ (used[s] + o) + n < Width
  BY <1>1, <1>2, <1>3, <1>4
<1> QED
  BY <1>1, <1>2, <1>5, AddFits

\* Writing behind the tail of a section, inside the section, leaves the data of
\* every block alone.
LEMMA Untouched ==
  ASSUME Sound, NEW s \in sections, NEW start \in Nat, NEW end \in Nat, NEW id \in Nat,
         used[s] <= start, end <= split[s]
  PROVE  \A b \in blocks : \A i \in b.start .. (b.end - 1) : Written(start, end, id)[i] = b.id
<1> SUFFICES ASSUME NEW b \in blocks, NEW i \in b.start .. (b.end - 1)
             PROVE  Written(start, end, id)[i] = b.id
  OBVIOUS
<1>1. /\ b.section \in Sections /\ b.start \in Nat /\ b.end \in Nat
      /\ b.section \in sections /\ s \in Sections
  BY DEF Sound, StorageTypeOK, Block, Placed
<1>2. /\ \A t \in Sections : used[t] \in Nat /\ split[t] \in Nat
      /\ size \in Nat
  BY StorageConstants DEF Sound, StorageTypeOK, Cells
<1>3. /\ Base(b.section) <= b.start /\ b.end <= used[b.section]
      /\ used[b.section] <= split[b.section] /\ split[b.section] <= size
  BY <1>1 DEF Sound, Placed, Tails
<1>4. Base(s) <= used[s]
  BY DEF Sound, Tails
<1>5. i \in DOMAIN content
  <2>1. i >= 0 /\ i < size
    BY <1>1, <1>2, <1>3
  <2> QED
    BY <2>1, <1>1, <1>2 DEF Sound, StorageTypeOK
<1>6. ~(start <= i /\ i < end)
  <2>1. CASE b.section = s
    BY <2>1, <1>1, <1>2, <1>3
  <2>2. CASE b.section # s
    <3>1. sections = Sections
      <4>1. sections \subseteq Sections
        BY DEF Sound, StorageTypeOK
      <4>2. 0 \in sections /\ 1 \in sections
        BY <2>2, <1>1 DEF Sections
      <4> QED
        BY <4>1, <4>2 DEF Sections
    <3>2. CASE s = 0
      BY <3>1, <3>2, <2>2, <1>1, <1>2, <1>3 DEF Base, Sections
    <3>3. CASE s = 1
      <4>1. split[0] <= used[1] /\ b.section = 0
        BY <3>1, <3>3, <2>2, <1>1, <1>4 DEF Base, Sections
      <4> QED
        BY <4>1, <3>3, <1>1, <1>2, <1>3
    <3> QED
      BY <3>2, <3>3, <1>1 DEF Sections
  <2> QED
    BY <2>1, <2>2
<1>7. content[i] = b.id
  BY DEF Sound, Kept
<1> QED
  BY <1>5, <1>6, <1>7 DEF Written

-----------------------------------------------------------------------------

\* The invariant of a buffer that is not there, or was just made.
LEMMA EmptyInv ==
  ASSUME StorageTypeOK, blocks = {}, ~handle, sections = {}
  PROVE  IInv
  BY DEF IInv, Sound, Tails, SumsFit, Placed, Kept, Numbered

\* The structure starts cleared.
LEMMA InitInv == StorageInit => IInv
<1> SUFFICES ASSUME StorageInit PROVE IInv
  OBVIOUS
<1>1. StorageTypeOK
  BY StorageConstants DEF StorageInit, StorageTypeOK, NoCells, Cells, Sections
<1> QED
  BY <1>1, EmptyInv DEF StorageInit

\* a3bufferCreate.
LEMMA CreateInv ==
  ASSUME IInv, NEW c \in Capacities, NEW given \in BOOLEAN, NEW s \in Sections,
         Create(c, given, s)
  PROVE  IInv'
<1>1. c \in Nat /\ c \in Cells /\ fills \in Nat /\ Width \in Nat /\ c > 0
  <2>1. c + c + 0 + 0 < Width
    BY StorageConstants
  <2> QED
    BY <2>1, StorageConstants DEF IInv, Sound, StorageTypeOK, Cells, Create
<1>2. blocks = {} /\ ~handle
  BY DEF IInv, Sound, Create
<1>3. StorageTypeOK'
  <2>1. split' \in [Sections -> Cells] /\ size' \in Cells /\ sections' \in SUBSET Sections
    BY <1>1 DEF Create
  <2>2. used' \in [Sections -> Cells]
    BY <1>1 DEF Create, Cells
  <2>3. content' \in [0 .. (size' - 1) -> Nat] /\ fills' \in Nat /\ blocks' \in SUBSET Block
    <3>1. CASE given
      <4>1. [section |-> s, start |-> 0, end |-> c, id |-> fills + 1] \in Block
        BY <1>1 DEF Block
      <4> QED
        BY <3>1, <4>1, <1>1, <1>2 DEF Create, Allocated, Told
    <3>2. CASE ~given
      BY <3>2, <1>1, <1>2 DEF Create, Allocated, IInv, Sound, StorageTypeOK
    <3> QED
      BY <3>1, <3>2
  <2> QED
    BY <2>1, <2>2, <2>3 DEF Create, StorageTypeOK
<1>4. sections' = {s} /\ used'[s] = (IF given THEN c ELSE 0) /\ split'[s] = c /\ size' = c
  BY DEF Create
<1>5. Base(s)' = 0
  BY <1>4 DEF Base, Sections
<1>6. Tails'
  BY <1>1, <1>4, <1>5 DEF Tails
<1>7. SumsFit'
  <2>1. \A o, r \in Requests \union {0} : c + o + r < Width
    <3> TAKE o, r \in Requests \union {0}
    <3>1. c + c + o + r < Width /\ o \in Nat /\ r \in Nat
      BY StorageConstants
    <3> QED
      BY <3>1, <1>1
  <2> QED
    BY <2>1, <1>4 DEF SumsFit
<1>8. Placed' /\ Kept' /\ Numbered'
  <2>1. CASE given
    <3>1. blocks' = {[section |-> s, start |-> 0, end |-> c, id |-> fills + 1]}
      BY <2>1, <1>2 DEF Create, Told
    <3>2. content' = [i \in 0 .. (c - 1) |-> fills + 1] /\ fills' = fills + 1
      BY <2>1 DEF Create, Allocated
    <3>3. Placed'
      BY <2>1, <3>1, <1>1, <1>4, <1>5 DEF Placed
    <3>4. Kept'
      BY <3>1, <3>2, <1>1 DEF Kept
    <3>5. Numbered'
      BY <3>1, <3>2, <1>1 DEF Numbered
    <3> QED
      BY <3>3, <3>4, <3>5
  <2>2. CASE ~given
    BY <2>2, <1>2 DEF Create, Placed, Kept, Numbered
  <2> QED
    BY <2>1, <2>2
<1> QED
  BY <1>3, <1>6, <1>7, <1>8 DEF IInv, Sound, Create

\* a3bufferCreateSplit: the two sections behind each other, of any sizes whose
\* sum does not wrap.
LEMMA CreateSplitSound ==
  ASSUME Sound, NEW c0 \in Nat, NEW c1 \in Nat, c0 + c1 < Width, CreateSplit(c0, c1)
  PROVE  /\ Sound'
         /\ handle' /\ sections' = Sections /\ size' = c0 + c1
         /\ split'[0] = c0 /\ split'[1] = c0 + c1
         /\ used'[0] = 0 /\ used'[1] = c0
<1>1. Width \in Nat
  BY StorageConstants
<1>2. Add(c0, c1) = c0 + c1
  BY AddFits
<1>3. blocks = {} /\ blocks' = {}
  BY DEF Sound, CreateSplit
<1>4. StorageTypeOK'
  <2>1. c0 \in Cells /\ c0 + c1 \in Cells /\ 0 \in Cells
    BY <1>1 DEF Cells
  <2>2. split' \in [Sections -> Cells] /\ used' \in [Sections -> Cells] /\ size' \in Cells
    BY <2>1, <1>2 DEF CreateSplit
  <2>3. content' \in [0 .. (size' - 1) -> Nat]
    BY <1>2 DEF CreateSplit, Allocated
  <2> QED
    BY <2>2, <2>3, <1>3 DEF CreateSplit, StorageTypeOK, Sound
<1>5. /\ handle' /\ sections' = Sections /\ size' = c0 + c1
      /\ split'[0] = c0 /\ split'[1] = c0 + c1
      /\ used'[0] = 0 /\ used'[1] = c0
  BY <1>2 DEF CreateSplit, Sections
<1>6. Base(0)' = 0 /\ Base(1)' = c0
  BY <1>5 DEF Base
<1>7. Tails'
  <2>1. \A s \in Sections : Base(s)' <= used'[s] /\ used'[s] <= split'[s] /\ split'[s] <= size'
    BY <1>1, <1>5, <1>6 DEF Sections
  <2> QED
    BY <2>1, <1>5 DEF Tails
<1>8. Placed' /\ Kept' /\ Numbered'
  BY <1>3 DEF Placed, Kept, Numbered
<1> QED
  BY <1>3, <1>4, <1>5, <1>7, <1>8 DEF Sound

\* With sizes that buffers are made with, every request is added without a wrap.
LEMMA CreateSplitInv ==
  ASSUME IInv, NEW c0 \in Capacities, NEW c1 \in Capacities, CreateSplit(c0, c1)
  PROVE  IInv'
<1>1. c0 \in Nat /\ c1 \in Nat /\ c0 + c1 < Width
  <2>1. c0 + c1 + 0 + 0 < Width
    BY StorageConstants
  <2> QED
    BY <2>1, StorageConstants
<1>2. Sound' /\ size' = c0 + c1
  BY <1>1, CreateSplitSound DEF IInv
<1>3. SumsFit'
  <2>1. \A o, r \in Requests \union {0} : c0 + c1 + o + r < Width
    BY StorageConstants
  <2> QED
    BY <2>1, <1>2 DEF SumsFit
<1> QED
  BY <1>2, <1>3 DEF IInv

\* What both fills do that are given data: some cells behind the tail of a
\* section are written, one block more is told of them, and the tail comes to
\* their end.  (A fill that erases tells nobody, and leaves the tail before them.)
LEMMA FilledSound ==
  ASSUME Sound, handle, NEW s \in sections,
         NEW start \in Nat, NEW n \in Nat \ {0},
         used[s] <= start, start + n <= split[s],
         UNCHANGED <<handle, size, split, sections>>,
         used' = [used EXCEPT ![s] = start + n],
         content' = Written(start, start + n, fills + 1),
         blocks' = Told(s, start, start + n),
         fills' = fills + 1
  PROVE  Sound'
<1> DEFINE new == [section |-> s, start |-> start, end |-> start + n, id |-> fills + 1]
<1>1. /\ \A t \in Sections : used[t] \in Nat /\ split[t] \in Nat /\ split[t] \in Cells
      /\ size \in Nat /\ fills \in Nat /\ Width \in Nat
      /\ s \in Sections /\ sections \subseteq Sections
  BY StorageConstants DEF Sound, StorageTypeOK, Cells
<1>2. start + n \in Cells
  <2>1. split[s] < Width
    BY <1>1 DEF Cells
  <2> QED
    BY <2>1, <1>1 DEF Cells
<1>3. blocks' = blocks \union {new} /\ new \in Block
  BY <1>1 DEF Told, Block
<1>4. StorageTypeOK'
  <2>1. used' \in [Sections -> Cells]
    BY <1>1, <1>2 DEF Sound, StorageTypeOK
  <2>2. content' \in [0 .. (size - 1) -> Nat]
    BY <1>1 DEF Sound, StorageTypeOK, Written
  <2>3. blocks' \in SUBSET Block
    BY <1>3 DEF Sound, StorageTypeOK
  <2> QED
    BY <2>1, <2>2, <2>3, <1>1 DEF Sound, StorageTypeOK
<1>5. \A t : Base(t)' = Base(t)
  BY DEF Base
<1>6. /\ used'[s] = start + n
      /\ \A t \in Sections : t # s => used'[t] = used[t]
  BY <1>1 DEF Sound, StorageTypeOK
<1>7. Base(s) <= used[s] /\ split[s] <= size /\ Base(s) \in Nat
  BY <1>1 DEF Sound, Tails, Base, Sections
<1>8. Tails'
  <2> SUFFICES ASSUME NEW t \in sections
               PROVE  Base(t) <= used'[t] /\ used'[t] <= split[t] /\ split[t] <= size
    BY <1>5 DEF Tails
  <2>1. CASE t = s
    BY <2>1, <1>1, <1>6, <1>7
  <2>2. CASE t # s
    BY <2>2, <1>1, <1>6 DEF Sound, Tails
  <2> QED
    BY <2>1, <2>2
<1>9. Placed'
  <2> SUFFICES ASSUME NEW b \in blocks'
               PROVE  /\ b.section \in sections /\ Base(b.section) <= b.start
                      /\ b.start < b.end /\ b.end <= used'[b.section]
    BY <1>5 DEF Placed
  <2>1. CASE b = new
    BY <2>1, <1>1, <1>6, <1>7
  <2>2. CASE b \in blocks
    <3>1. /\ b.section \in sections /\ Base(b.section) <= b.start
          /\ b.start < b.end /\ b.end <= used[b.section]
      BY <2>2 DEF Sound, Placed
    <3>2. b.section \in Sections /\ b.end \in Nat
      BY <2>2 DEF Sound, StorageTypeOK, Block
    <3>3. used[b.section] <= used'[b.section]
      <4>1. CASE b.section = s
        BY <4>1, <1>1, <1>6
      <4>2. CASE b.section # s
        BY <4>2, <3>2, <1>1, <1>6
      <4> QED
        BY <4>1, <4>2
    <3>4. used'[b.section] \in Nat
      BY <3>2, <1>4 DEF StorageTypeOK, Cells
    <3> QED
      BY <3>1, <3>2, <3>3, <3>4, <1>1
  <2> QED
    BY <2>1, <2>2, <1>3
<1>10. Kept'
  <2>1. \A b \in blocks : \A i \in b.start .. (b.end - 1) : content'[i] = b.id
    <3>1. start + n \in Nat /\ fills + 1 \in Nat
      BY <1>1
    <3> QED
      BY <3>1, Untouched
  <2>2. \A i \in start .. (start + n - 1) : content'[i] = fills + 1
    <3> TAKE i \in start .. (start + n - 1)
    <3>1. 0 <= i /\ i < size
      BY <1>1, <1>7
    <3>2. i \in DOMAIN content
      BY <3>1, <1>1 DEF Sound, StorageTypeOK
    <3> QED
      BY <3>2, <1>1 DEF Written
  <2> QED
    BY <2>1, <2>2, <1>3 DEF Kept
<1>11. Numbered'
  <2>1. \A b \in blocks : b.id \in Nat /\ b.id <= fills
    BY DEF Sound, Numbered, StorageTypeOK, Block
  <2> QED
    BY <2>1, <1>1, <1>3 DEF Sound, Numbered
<1> QED
  BY <1>4, <1>8, <1>9, <1>10, <1>11 DEF Sound

\* a3bufferFillOffset, with data or to erase.
LEMMA FillOffsetInv ==
  ASSUME IInv, NEW s \in Sections, NEW o \in Requests \union {0}, NEW n \in Requests,
         NEW given \in BOOLEAN, FillOffset(s, o, n, given)
  PROVE  IInv'
<1> DEFINE start == used[s] + o
<1>1. handle /\ s \in sections /\ n > 0
  BY DEF FillOffset
<1>2. /\ Add(used[s], o) = start /\ Add(start, n) = start + n
      /\ used[s] \in Nat /\ o \in Nat /\ n \in Nat /\ split[s] \in Nat
  BY <1>1, FillFits
<1>3. start \in Nat /\ used[s] <= start /\ n \in Nat \ {0} /\ start + n > used[s]
  BY <1>1, <1>2
<1>4. start + n <= split[s]
  BY <1>2 DEF FillOffset, Fits
<1>5. used' = [used EXCEPT ![s] = IF given THEN start + n ELSE start]
  BY <1>2, <1>3 DEF FillOffset, NextTail
<1> HIDE DEF start
<1>6. CASE given
  <2>1. /\ content' = Written(start, start + n, fills + 1)
        /\ blocks' = Told(s, start, start + n) /\ fills' = fills + 1
        /\ UNCHANGED <<handle, size, split, sections>>
    BY <1>2, <1>6 DEF FillOffset
  <2> QED
    BY <2>1, <1>1, <1>3, <1>4, <1>5, <1>6, FilledSound DEF IInv, SumsFit
<1>7. CASE ~given
  <2>1. /\ content' = Written(start, start + n, 0)
        /\ UNCHANGED <<handle, size, split, sections, blocks, fills>>
        /\ used' = [used EXCEPT ![s] = start]
    BY <1>2, <1>5, <1>7 DEF FillOffset
  <2>2. /\ \A t \in Sections : used[t] \in Nat /\ split[t] \in Nat /\ split[t] \in Cells
        /\ size \in Nat /\ Width \in Nat /\ sections \subseteq Sections
    BY StorageConstants DEF IInv, Sound, StorageTypeOK, Cells
  <2>3. start \in Cells
    <3>1. split[s] < Width
      BY <2>2 DEF Cells
    <3> QED
      BY <3>1, <1>2, <1>3, <1>4, <2>2 DEF Cells
  <2>4. StorageTypeOK'
    <3>1. used' \in [Sections -> Cells]
      BY <2>1, <2>3 DEF IInv, Sound, StorageTypeOK
    <3>2. content' \in [0 .. (size - 1) -> Nat]
      BY <2>1 DEF IInv, Sound, StorageTypeOK, Written
    <3> QED
      BY <2>1, <3>1, <3>2 DEF IInv, Sound, StorageTypeOK
  <2>5. \A t : Base(t)' = Base(t)
    BY <2>1 DEF Base
  <2>6. used'[s] = start /\ \A t \in Sections : t # s => used'[t] = used[t]
    BY <2>1 DEF IInv, Sound, StorageTypeOK
  <2>7. \A t \in Sections : used[t] <= used'[t] /\ used'[t] \in Nat /\ Base(t) \in Nat
    BY <1>3, <2>2, <2>6 DEF Base, Sections
  <2>8. Tails'
    <3> SUFFICES ASSUME NEW t \in sections
                 PROVE  Base(t) <= used'[t] /\ used'[t] <= split[t] /\ split[t] <= size
      BY <2>1, <2>5 DEF Tails
    <3>1. Base(t) <= used[t] /\ used[t] <= split[t] /\ split[t] <= size /\ t \in Sections
      BY <2>2 DEF IInv, Sound, Tails
    <3>2. CASE t = s
      BY <3>1, <3>2, <1>2, <1>3, <1>4, <2>2, <2>6, <2>7
    <3>3. CASE t # s
      BY <3>1, <3>3, <2>6
    <3> QED
      BY <3>2, <3>3
  <2>9. Placed'
    <3> SUFFICES ASSUME NEW b \in blocks
                 PROVE  /\ b.section \in sections /\ Base(b.section) <= b.start
                        /\ b.start < b.end /\ b.end <= used'[b.section]
      BY <2>1, <2>5 DEF Placed
    <3>1. b.section \in Sections /\ b.end \in Nat
      BY DEF IInv, Sound, StorageTypeOK, Block
    <3> QED
      BY <3>1, <2>2, <2>7 DEF IInv, Sound, Placed
  <2>10. Kept'
    <3>1. start + n \in Nat /\ 0 \in Nat
      BY <1>3
    <3>2. \A b \in blocks : \A i \in b.start .. (b.end - 1) : content'[i] = b.id
      BY <3>1, <2>1, <1>1, <1>3, <1>4, Untouched DEF IInv
    <3> QED
      BY <3>2, <2>1 DEF Kept
  <2> QED
    BY <2>1, <2>4, <2>8, <2>9, <2>10 DEF IInv, Sound, SumsFit, Numbered
<1> QED
  BY <1>6, <1>7

\* a3bufferFill, of any size that does not wrap.
LEMMA FillSound ==
  ASSUME Sound, NEW s \in Sections, NEW n \in Nat, used[s] + n < Width, Fill(s, n)
  PROVE  /\ Sound'
         /\ used' = [used EXCEPT ![s] = used[s] + n]
         /\ blocks' = Told(s, used[s], used[s] + n)
         /\ fills' = fills + 1
         /\ UNCHANGED <<handle, size, split, sections>>
<1>1. handle /\ s \in sections /\ n \in Nat \ {0}
  BY DEF Fill
<1>2. used[s] \in Nat /\ split[s] \in Nat
  BY StorageConstants DEF Sound, StorageTypeOK, Cells
<1>3. Add(used[s], n) = used[s] + n /\ used[s] <= used[s]
  BY <1>2, AddFits
<1>4. used[s] + n <= split[s]
  BY <1>3 DEF Fill, Fits
<1>5. /\ UNCHANGED <<handle, size, split, sections>>
      /\ used' = [used EXCEPT ![s] = used[s] + n]
      /\ content' = Written(used[s], used[s] + n, fills + 1)
      /\ blocks' = Told(s, used[s], used[s] + n)
      /\ fills' = fills + 1
  BY <1>3 DEF Fill
<1> QED
  BY <1>1, <1>2, <1>3, <1>4, <1>5, FilledSound

\* With sizes that are asked for, no size wraps.
LEMMA FillInv ==
  ASSUME IInv, NEW s \in Sections, NEW n \in Requests, Fill(s, n)
  PROVE  IInv'
<1>1. handle /\ s \in sections
  BY DEF Fill
<1>2. 0 \in Requests \union {0} /\ n \in Nat
  BY StorageConstants
<1>3. /\ used[s] \in Nat /\ size \in Nat
      /\ used[s] <= split[s] /\ split[s] <= size /\ split[s] \in Nat
  BY <1>1, StorageConstants DEF IInv, Sound, StorageTypeOK, Cells, Tails
<1>4. size + 0 + n < Width /\ Width \in Nat
  BY <1>1, <1>2, StorageConstants DEF IInv, SumsFit
<1>5. used[s] + n < Width
  BY <1>2, <1>3, <1>4
<1>6. Sound' /\ UNCHANGED <<handle, size>>
  BY <1>2, <1>5, FillSound DEF IInv
<1> QED
  BY <1>6 DEF IInv, SumsFit

\* The used counter of an undivided buffer starts again.
LEMMA ResetUsedInv == ASSUME IInv, ResetUsed PROVE IInv'
<1>1. blocks' = {}
  <2>1. \A b \in blocks : b.section = 0
    BY DEF IInv, Sound, Placed, ResetUsed
  <2> QED
    BY <2>1 DEF ResetUsed
<1>2. Width \in Nat \ {0} /\ 0 \in Cells /\ 0 \in Sections
  BY StorageConstants DEF Cells, Sections
<1>3. StorageTypeOK'
  BY <1>1, <1>2 DEF IInv, Sound, StorageTypeOK, ResetUsed
<1>4. sections' = {0} /\ used'[0] = 0 /\ split' = split /\ size' = size
  BY <1>2 DEF ResetUsed, IInv, Sound, StorageTypeOK
<1>5. Base(0)' = 0
  BY DEF Base
<1>6. split[0] <= size /\ split[0] \in Nat
  BY <1>2 DEF IInv, Sound, Tails, ResetUsed, StorageTypeOK, Cells
<1>7. Tails'
  BY <1>4, <1>5, <1>6 DEF Tails
<1> QED
  BY <1>1, <1>3, <1>7 DEF IInv, Sound, SumsFit, Placed, Kept, Numbered, ResetUsed

\* The last a3bufferRelease.
LEMMA ReleaseInv == ASSUME IInv, Release PROVE IInv'
<1>1. StorageTypeOK'
  BY StorageConstants DEF Release, Emptied, StorageTypeOK, NoCells, Cells, Sections
<1> QED
  BY <1>1 DEF Release, Emptied, IInv, Sound, Tails, SumsFit, Placed, Kept, Numbered

\* Every operation keeps the invariant.
LEMMA NextInv == IInv /\ [StorageNext]_storageVars => IInv'
<1> SUFFICES ASSUME IInv, [StorageNext]_storageVars PROVE IInv'
  OBVIOUS
<1>1. ASSUME NEW c \in Capacities, NEW given \in BOOLEAN, NEW s \in Sections,
             Create(c, given, s)
      PROVE  IInv'
  BY <1>1, CreateInv
<1>2. ASSUME NEW c0 \in Capacities, NEW c1 \in Capacities, CreateSplit(c0, c1)
      PROVE  IInv'
  BY <1>2, CreateSplitInv
<1>3. ASSUME NEW s \in Sections, NEW n \in Requests, Fill(s, n)
      PROVE  IInv'
  BY <1>3, FillInv
<1>4. ASSUME NEW s \in Sections, NEW o \in Requests \union {0}, NEW n \in Requests,
             NEW given \in BOOLEAN, FillOffset(s, o, n, given)
      PROVE  IInv'
  BY <1>4, FillOffsetInv
<1>5. CASE ResetUsed
  BY <1>5, ResetUsedInv
<1>6. CASE Release
  BY <1>6, ReleaseInv
<1>7. CASE UNCHANGED storageVars
  BY <1>7 DEF storageVars, accountVars, IInv, Sound, StorageTypeOK, Tails, SumsFit, Placed, Kept,
              Numbered, Base, Cells, Block
<1> QED
  BY <1>1, <1>2, <1>3, <1>4, <1>5, <1>6, <1>7 DEF StorageNext

\* The invariant holds throughout.
THEOREM Invariance == StorageSpec => []IInv
  BY InitInv, NextInv, PTL DEF StorageSpec

\* Every field of a buffer keeps its type: no size or tail reaches 2^32, and
\* the driver's memory is exactly as long as the size says.
THEOREM StorageTypeCorrect == StorageSpec => []StorageTypeOK
<1>1. IInv => StorageTypeOK
  BY DEF IInv, Sound
<1> QED
  BY <1>1, Invariance, PTL

\* The data of the blocks is kept.
LEMMA SoundKeeps == Sound => DataIsKept
<1> SUFFICES ASSUME Sound, NEW b \in blocks
             PROVE  /\ Base(b.section) <= b.start /\ b.end <= split[b.section] /\ b.end <= size
                    /\ \A i \in b.start .. (b.end - 1) : content[i] = b.id
  BY DEF DataIsKept
<1>1. /\ b.section \in Sections /\ b.end \in Nat /\ size \in Nat
      /\ used[b.section] \in Nat /\ split[b.section] \in Nat
  BY StorageConstants DEF Sound, StorageTypeOK, Block, Cells
<1> QED
  BY <1>1 DEF Sound, Placed, Tails, Kept

\* What a caller stored stays where it was told, in its section, through any
\* number of fills, erasures, resets and lives of the buffer.
THEOREM DataKept == StorageSpec => []DataIsKept
<1>1. IInv => DataIsKept
  BY SoundKeeps DEF IInv
<1> QED
  BY <1>1, Invariance, PTL

-----------------------------------------------------------------------------
(* The accounting implements BlockStore.                                    *)

Held == {<<b.start, b.end>> : b \in blocks}

\* Two blocks with different data have no cell in common.
LEMMA BlocksDisjoint ==
  ASSUME Sound, NEW a \in blocks, NEW b \in blocks, a # b
  PROVE  a.end <= b.start \/ b.end <= a.start
<1>1. /\ a.start \in Nat /\ a.end \in Nat /\ b.start \in Nat /\ b.end \in Nat
      /\ a.id \in Nat /\ b.id \in Nat
  BY DEF Sound, StorageTypeOK, Block
<1>2. a.id # b.id
  BY DEF Sound, Numbered
<1>3. a.start < a.end /\ b.start < b.end
  BY DEF Sound, Placed
<1>4. \A i \in a.start .. (a.end - 1) : content[i] = a.id
  BY DEF Sound, Kept
<1>5. \A i \in b.start .. (b.end - 1) : content[i] = b.id
  BY DEF Sound, Kept
<1>6. CASE a.start <= b.start /\ b.start < a.end
  <2>1. b.start \in a.start .. (a.end - 1) /\ b.start \in b.start .. (b.end - 1)
    BY <1>1, <1>3, <1>6
  <2> QED
    BY <2>1, <1>2, <1>4, <1>5
<1>7. CASE b.start <= a.start /\ a.start < b.end
  <2>1. a.start \in a.start .. (a.end - 1) /\ a.start \in b.start .. (b.end - 1)
    BY <1>1, <1>3, <1>7
  <2> QED
    BY <2>1, <1>2, <1>4, <1>5
<1> QED
  BY <1>1, <1>6, <1>7

\* What the blocks hold is well placed in the sense of BlockStore.
LEMMA HeldWellPlaced == Sound => Blocks!WellPlaced(Held)
<1> SUFFICES ASSUME Sound PROVE Blocks!WellPlaced(Held)
  OBVIOUS
<1>1. ASSUME NEW x \in Held PROVE 0 <= x[1] /\ x[1] < x[2] /\ x[2] <= Width
  <2>1. PICK b \in blocks : x = <<b.start, b.end>>
    BY DEF Held
  <2>2. /\ b.section \in Sections /\ b.section \in sections
        /\ b.start \in Nat /\ b.end \in Nat
    BY DEF Sound, StorageTypeOK, Block, Placed
  <2>3. /\ b.start < b.end /\ b.end <= used[b.section]
        /\ used[b.section] \in Nat /\ used[b.section] < Width /\ Width \in Nat
    BY <2>2, StorageConstants DEF Sound, Placed, StorageTypeOK, Cells
  <2> QED
    BY <2>1, <2>2, <2>3
<1>2. ASSUME NEW x \in Held, NEW y \in Held, x # y
      PROVE  x[2] <= y[1] \/ y[2] <= x[1]
  <2>1. PICK a \in blocks : x = <<a.start, a.end>>
    BY DEF Held
  <2>2. PICK b \in blocks : y = <<b.start, b.end>>
    BY DEF Held
  <2>3. a # b
    BY <2>1, <2>2, <1>2
  <2> QED
    BY <2>1, <2>2, <2>3, BlocksDisjoint
<1> QED
  BY <1>1, <1>2 DEF Blocks!WellPlaced, Blocks!Disjoint

\* Every step is one of BlockStore, or leaves what is held alone.
LEMMA StepImplements ==
  IInv /\ IInv' /\ [StorageNext]_storageVars => [Blocks!Next]_Held
<1>w. Sound' => Blocks!WellPlaced(Held)'
  BY HeldWellPlaced, PTL
<1> SUFFICES ASSUME IInv, IInv', [StorageNext]_storageVars PROVE Blocks!Next \/ Held' = Held
  BY DEF Held
<1>1. Blocks!WellPlaced(Held)'
  BY <1>w DEF IInv
<1>2. ASSUME blocks \subseteq blocks' PROVE Blocks!Next
  <2>1. Held \subseteq Held'
    BY <1>2 DEF Held
  <2> QED
    BY <2>1, <1>1 DEF Blocks!Next, Blocks!Store, Held
<1>3. ASSUME blocks' \subseteq blocks PROVE Blocks!Next
  BY <1>3 DEF Blocks!Next, Blocks!GiveUp, Held
<1>4. ASSUME NEW c \in Capacities, NEW given \in BOOLEAN, NEW s \in Sections,
             Create(c, given, s)
      PROVE  Blocks!Next
  BY <1>2, <1>4 DEF Create, Told
<1>5. ASSUME NEW c0 \in Capacities, NEW c1 \in Capacities, CreateSplit(c0, c1)
      PROVE  Blocks!Next
  BY <1>2, <1>5 DEF CreateSplit
<1>6. ASSUME NEW s \in Sections, NEW n \in Requests, Fill(s, n)
      PROVE  Blocks!Next
  BY <1>2, <1>6 DEF Fill, Told
<1>7. ASSUME NEW s \in Sections, NEW o \in Requests \union {0}, NEW n \in Requests,
             NEW given \in BOOLEAN, FillOffset(s, o, n, given)
      PROVE  Blocks!Next
  BY <1>2, <1>7 DEF FillOffset, Told
<1>8. CASE ResetUsed
  BY <1>3, <1>8 DEF ResetUsed
<1>9. CASE Release
  BY <1>3, <1>9 DEF Release, Emptied
<1>10. CASE UNCHANGED storageVars
  BY <1>10 DEF storageVars, Held
<1> QED
  BY <1>4, <1>5, <1>6, <1>7, <1>8, <1>9, <1>10 DEF StorageNext

\* A buffer object, used in any way, behaves as a store of blocks: it hands out
\* room that nobody has, moves nothing, and takes back only what is given up.
THEOREM Implementation == StorageSpec => ImplementsBlockStore
<1>1. StorageInit => Blocks!Init
  BY DEF StorageInit, Blocks!Init
<1>2. IInv /\ IInv' /\ [StorageNext]_storageVars => [Blocks!Next]_Held
  BY StepImplements
<1> QED
  BY <1>1, <1>2, Invariance, PTL DEF StorageSpec, ImplementsBlockStore, Blocks!Spec, Held

-----------------------------------------------------------------------------
(* Materials, which share a buffer and textures.                             *)

\* That a held material is complete follows from the counts, but for its
\* pointer and the bindings; and only a material that somebody holds is active.
Bound ==
  \A m \in MaterialIds : active = m => /\ refs[m] > 0
                                       /\ \A u \in DOMAIN textureList[m] :
                                            boundTextures[u] = textureList[m][u]

MaterialsInv ==
  /\ MaterialsTypeOK /\ CountsAreExact /\ Bound
  /\ \A m \in MaterialIds : refs[m] > 0 => uniformBuffer[m]

\* A sum below the width is a cell, and so is any sum taken modulo it.
LEMMA AddIsACell ==
  /\ \A a, b \in Nat : Add(a, b) \in Cells
  /\ \A c \in Capacities : c \in Cells /\ c \in Nat
  /\ 0 \in Cells /\ Cells \subseteq Nat
<1>1. Width \in Nat \ {0} /\ Capacities \subseteq Nat
  BY StorageConstants
<1>2. ASSUME NEW a \in Nat, NEW b \in Nat PROVE Add(a, b) \in Cells
  <2> DEFINE s == a + b
  <2>1. s \in Nat
    OBVIOUS
  <2> HIDE DEF s
  <2>2. s % Width \in 0 .. (Width - 1)
    BY <1>1, <2>1
  <2> QED
    BY <2>2 DEF Add, Cells, s
<1>3. ASSUME NEW c \in Capacities PROVE c \in Cells /\ c \in Nat
  <2>1. c + c + 0 + 0 < Width
    BY StorageConstants
  <2> QED
    BY <1>1, <2>1 DEF Cells
<1>4. 0 \in Cells /\ Cells \subseteq Nat
  BY <1>1 DEF Cells
<1> QED
  BY <1>2, <1>3, <1>4

\* What has been written is memory of the same size.
LEMMA WrittenType ==
  ASSUME StorageTypeOK, NEW start \in Nat, NEW end \in Nat, NEW id \in Nat
  PROVE  Written(start, end, id) \in [0 .. (size - 1) -> Nat]
<1>1. content \in [0 .. (size - 1) -> Nat]
  BY DEF StorageTypeOK
<1>2. DOMAIN content = 0 .. (size - 1) /\ \A i \in 0 .. (size - 1) : content[i] \in Nat
  BY <1>1
<1> QED
  BY <1>2 DEF Written

\* A block that a caller is told of is a block.
LEMMA ToldType ==
  ASSUME StorageTypeOK, NEW s \in Sections, NEW start \in Nat, NEW end \in Nat
  PROVE  Told(s, start, end) \in SUBSET Block
<1>1. blocks \in SUBSET Block /\ fills + 1 \in Nat \ {0}
  BY DEF StorageTypeOK
<1>2. [section |-> s, start |-> start, end |-> end, id |-> fills + 1] \in Block
  BY <1>1 DEF Block
<1> QED
  BY <1>1, <1>2 DEF Told

\* Whatever its size, a fill keeps the types of the buffer.
LEMMA FillOffsetType ==
  ASSUME StorageTypeOK, NEW o \in Nat, NEW n \in Nat, NEW given \in BOOLEAN,
         FillOffset(0, o, n, given)
  PROVE  StorageTypeOK' /\ handle' = handle
<1> DEFINE start == Add(used[0], o)
<1>1. /\ 0 \in Sections /\ used \in [Sections -> Cells] /\ split \in [Sections -> Cells]
      /\ fills \in Nat /\ blocks \in SUBSET Block /\ size \in Cells /\ handle \in BOOLEAN
      /\ sections \in SUBSET Sections
  BY DEF StorageTypeOK, Sections
<1>2. used[0] \in Nat /\ used[0] \in Cells
  BY <1>1, AddIsACell
<1>3. start \in Cells /\ start \in Nat
  BY <1>2, AddIsACell
<1>4. Add(start, n) \in Cells /\ Add(start, n) \in Nat
  BY <1>3, AddIsACell
<1>5. NextTail(0, start, n, given) \in Cells
  BY <1>2, <1>3, <1>4 DEF NextTail
<1> HIDE DEF start
<1>6. /\ used' = [used EXCEPT ![0] = NextTail(0, start, n, given)]
      /\ UNCHANGED <<handle, size, split, sections>>
  BY DEF FillOffset, start
<1>7. used' \in [Sections -> Cells]
  BY <1>1, <1>5, <1>6
<1>8. content' \in [0 .. (size - 1) -> Nat] /\ blocks' \in SUBSET Block /\ fills' \in Nat
  <2>1. CASE given
    <3>1. /\ content' = Written(start, Add(start, n), fills + 1)
          /\ blocks' = Told(0, start, Add(start, n)) /\ fills' = fills + 1
      BY <2>1 DEF FillOffset, start
    <3>2. fills + 1 \in Nat
      BY <1>1
    <3>3. Written(start, Add(start, n), fills + 1) \in [0 .. (size - 1) -> Nat]
      BY <1>3, <1>4, <3>2, WrittenType
    <3>4. Told(0, start, Add(start, n)) \in SUBSET Block
      BY <1>1, <1>3, <1>4, ToldType
    <3> QED
      BY <3>1, <3>2, <3>3, <3>4
  <2>2. CASE ~given
    <3>1. content' = Written(start, Add(start, n), 0) /\ UNCHANGED <<blocks, fills>>
      BY <2>2 DEF FillOffset, start
    <3>2. 0 \in Nat
      OBVIOUS
    <3>3. Written(start, Add(start, n), 0) \in [0 .. (size - 1) -> Nat]
      BY <1>3, <1>4, <3>2, WrittenType
    <3> QED
      BY <1>1, <3>1, <3>3
  <2> QED
    BY <2>1, <2>2
<1> QED
  BY <1>1, <1>6, <1>7, <1>8 DEF StorageTypeOK

\* A buffer that is made or emptied has its types.
LEMMA CreateType ==
  ASSUME StorageTypeOK, NEW c \in Capacities, NEW filled \in BOOLEAN, Create(c, filled, 0)
  PROVE  StorageTypeOK'
<1>1. c \in Cells /\ c \in Nat /\ 0 \in Cells /\ 0 \in Nat /\ 0 \in Sections
      /\ blocks \in SUBSET Block /\ fills \in Nat
  BY AddIsACell DEF StorageTypeOK, Sections
<1>2. /\ handle' = TRUE /\ size' = c /\ split' = [t \in Sections |-> c]
      /\ used' = [t \in Sections |-> IF filled THEN c ELSE 0] /\ sections' = {0}
  BY DEF Create
<1>3. /\ split' \in [Sections -> Cells] /\ used' \in [Sections -> Cells]
      /\ sections' \in SUBSET Sections
  BY <1>1, <1>2
<1>4. content' \in [0 .. (c - 1) -> Nat] /\ blocks' \in SUBSET Block /\ fills' \in Nat
  <2>1. CASE filled
    <3>1. /\ content' = [i \in 0 .. (c - 1) |-> fills + 1] /\ blocks' = Told(0, 0, c)
          /\ fills' = fills + 1
      BY <2>1 DEF Create, Allocated
    <3>2. fills + 1 \in Nat
      BY <1>1
    <3>3. Told(0, 0, c) \in SUBSET Block
      BY <1>1, ToldType
    <3> QED
      BY <3>1, <3>2, <3>3
  <2>2. CASE ~filled
    <3>1. content' = [i \in 0 .. (c - 1) |-> 0] /\ UNCHANGED <<blocks, fills>>
      BY <2>2 DEF Create, Allocated
    <3> QED
      BY <1>1, <3>1
  <2> QED
    BY <2>1, <2>2
<1> QED
  BY <1>1, <1>2, <1>3, <1>4 DEF StorageTypeOK

\* A buffer that the last release has cleared has its types.
LEMMA EmptiedType == ASSUME Emptied PROVE StorageTypeOK'
<1>1. 0 \in Cells /\ NoCells \in [Sections -> Cells]
  BY AddIsACell DEF NoCells
<1>2. [i \in {} |-> 0] \in [0 .. (0 - 1) -> Nat]
  OBVIOUS
<1> QED
  BY <1>1, <1>2 DEF Emptied, StorageTypeOK

-----------------------------------------------------------------------------

\* Counting: the units of a list that have a texture.
LEMMA UsesType ==
  ASSUME NEW us \in SUBSET Units, NEW list \in [us -> Textures], NEW t
  PROVE  /\ Uses(list, t) \in Nat
         /\ Uses(list, t) > 0 <=> \E u \in us : list[u] = t
<1> DEFINE having == {u \in DOMAIN list : list[u] = t}
<1>1. IsFiniteSet(having)
  <2>1. having \in SUBSET Units /\ IsFiniteSet(Units)
    BY MaterialConstants
  <2> QED
    BY <2>1, FS_Subset
<1>2. Cardinality(having) \in Nat /\ (Cardinality(having) = 0 <=> having = {})
  BY <1>1, FS_CardinalityType, FS_EmptySet
<1>3. having # {} <=> \E u \in us : list[u] = t
  OBVIOUS
<1> QED
  BY <1>2, <1>3 DEF Uses

\* One reference to one texture.
LEMMA UsesOwn ==
  ASSUME NEW t, NEW x
  PROVE  Uses(Own(t), x) = IF x = t THEN 1 ELSE 0
<1>1. CASE x = t
  <2>1. {u \in DOMAIN Own(t) : Own(t)[u] = x} = {0}
    BY <1>1 DEF Own
  <2>2. Cardinality({0}) = 1
    BY FS_Singleton
  <2> QED
    BY <1>1, <2>1, <2>2 DEF Uses
<1>2. CASE x # t
  <2>1. {u \in DOMAIN Own(t) : Own(t)[u] = x} = {}
    BY <1>2 DEF Own
  <2>2. Cardinality({}) = 0
    BY FS_EmptySet
  <2> QED
    BY <1>2, <2>1, <2>2 DEF Uses
<1> QED
  BY <1>1, <1>2

\* What is left of a count when some references go.
LEMMA LeftOver ==
  ASSUME NEW a \in Int
  PROVE  Max({0, a}) = IF a > 0 THEN a ELSE 0
<1> DEFINE top == IF a > 0 THEN a ELSE 0
<1>1. top \in {0, a} /\ \A y \in {0, a} : top >= y
  OBVIOUS
<1>2. \A x \in {0, a} : (\A y \in {0, a} : x >= y) => x = top
  OBVIOUS
<1> HIDE DEF top
<1>3. Max({0, a}) = top
  BY <1>1, <1>2 DEF Max
<1> QED
  BY <1>3 DEF top

\* Products of counts.
LEMMA Products ==
  ASSUME NEW r \in Nat, NEW u \in Nat
  PROVE  /\ r * u \in Nat /\ 0 * u = 0 /\ 1 * u = u
         /\ (r + 1) * u = r * u + u
         /\ r > 0 => (r - 1) * u = r * u - u /\ r * u >= u
<1>1. r * u \in Nat /\ 0 * u = 0 /\ 1 * u = u /\ (r + 1) * u = r * u + u
  OBVIOUS
<1>2. ASSUME r > 0 PROVE (r - 1) * u = r * u - u /\ r * u >= u
  <2>1. r - 1 \in Nat
    BY <1>2
  <2>2. (r - 1) * u \in Nat
    BY <2>1
  <2>3. (r - 1) * u = r * u - u
    OBVIOUS
  <2> QED
    BY <1>1, <2>2, <2>3
<1> QED
  BY <1>1, <1>2

\* The lists that materials store are of living textures.
LEMMA StoredLives ==
  ASSUME NEW list \in TextureLists
  PROVE  \E us \in SUBSET Units :
           /\ Stored(list) \in [us -> Textures]
           /\ \A u \in us : textureCount[Stored(list)[u]] > 0
<1> DEFINE usable == {i \in DOMAIN list : /\ list[i].texture # NoTexture
                                          /\ textureCount[list[i].texture] > 0}
           of(u) == {i \in usable : list[i].unit = u}
           us == {list[i].unit : i \in usable}
<1>1. list \in Seq([texture : Textures \union {NoTexture}, unit : Units])
  BY MaterialConstants
<1>2. /\ DOMAIN list \subseteq Nat
      /\ \A i \in DOMAIN list : list[i].texture \in Textures \union {NoTexture} /\ list[i].unit \in Units
  <2> DEFINE Entry == [texture : Textures \union {NoTexture}, unit : Units]
  <2>1. DOMAIN list = 1 .. Len(list) /\ Len(list) \in Nat /\ \A i \in 1 .. Len(list) : list[i] \in Entry
    <3> HIDE DEF Entry
    <3>1. list \in Seq(Entry)
      BY <1>1 DEF Entry
    <3> QED
      BY <3>1
  <2>2. \A e \in Entry : e.texture \in Textures \union {NoTexture} /\ e.unit \in Units
    OBVIOUS
  <2> HIDE DEF Entry
  <2> QED
    BY <2>1, <2>2
<1>3. us \in SUBSET Units
  BY <1>2
<1>4. ASSUME NEW u \in us PROVE Min(of(u)) \in usable
  <2>1. of(u) \in SUBSET Nat /\ of(u) # {} /\ of(u) \subseteq usable
    BY <1>2, <1>4
  <2> HIDE DEF of, usable
  <2>2. PICK k \in of(u) : \A m \in of(u) : ~(m < k)
    BY <2>1, SmallestNumber
  <2>3. \A m \in of(u) : k <= m
    BY <2>1, <2>2
  <2>4. Min(of(u)) \in of(u)
    BY <2>2, <2>3 DEF Min
  <2> QED
    BY <2>1, <2>4
<1>5. Stored(list) = [u \in us |-> list[Min(of(u))].texture]
  BY DEF Stored
<1>6. \A i \in usable : list[i].texture \in Textures /\ textureCount[list[i].texture] > 0
  BY <1>2
<1> HIDE DEF us, of, usable
<1>7. \A u \in us : Stored(list)[u] \in Textures /\ textureCount[Stored(list)[u]] > 0
  BY <1>4, <1>5, <1>6
<1>8. Stored(list) \in [us -> Textures]
  BY <1>5, <1>7
<1> QED
  BY <1>3, <1>7, <1>8

-----------------------------------------------------------------------------

\* Sums over the materials.
LEMMA SumsOverMaterials ==
  /\ \A f : Summed(f) = SumOver(f, MaterialIds)
  /\ IsFiniteSet(MaterialIds)
<1>1. \A f : Summed(f) = SumOver(f, MaterialIds)
  BY DEF Summed, SumOver
<1> QED
  BY <1>1, MaterialConstants

\* Equal terms have equal sums.
LEMMA SummedSame ==
  ASSUME NEW f, NEW g, \A k \in MaterialIds : g[k] = f[k]
  PROVE  Summed(g) = Summed(f)
  BY SumsOverMaterials, SumEqual

\* A sum of natural numbers is one, and covers each of its terms.
LEMMA SummedNat ==
  ASSUME NEW f, \A k \in MaterialIds : f[k] \in Nat
  PROVE  Summed(f) \in Nat /\ \A m \in MaterialIds : f[m] <= Summed(f)
<1>1. Summed(f) \in Nat
  BY SumsOverMaterials, SumType
<1>2. \A m \in MaterialIds : f[m] <= Summed(f)
  BY SumsOverMaterials, SumCovers
<1> QED
  BY <1>1, <1>2

\* When one term changes, the sum changes by as much.
LEMMA SummedOne ==
  ASSUME NEW f, NEW g, NEW m \in MaterialIds,
         \A k \in MaterialIds : f[k] \in Nat,
         g[m] \in Nat, \A k \in MaterialIds : k # m => g[k] = f[k]
  PROVE  Summed(g) = Summed(f) - f[m] + g[m]
<1>1. (\A k \in MaterialIds : f[k] \in Int) /\ g[m] \in Int
  OBVIOUS
<1> QED
  BY <1>1, SumsOverMaterials, SumExcept

\* The terms of the sums are natural numbers.
LEMMA Terms ==
  ASSUME MaterialsTypeOK
  PROVE  /\ \A m \in MaterialIds : refs[m] \in Nat /\ refs[m] <= MaxRefs
         /\ \A t : \A m \in MaterialIds : Uses(textureList[m], t) \in Nat
         /\ \A t : \A m \in MaterialIds : HeldOf(t)[m] = refs[m] * Uses(textureList[m], t)
         /\ \A t : \A m \in MaterialIds : HeldOf(t)[m] \in Nat
         /\ \A m \in MaterialIds : \A u \in DOMAIN textureList[m] :
              /\ u \in Units /\ textureList[m][u] \in Textures
              /\ Uses(textureList[m], textureList[m][u]) > 0
<1>1. \A m \in MaterialIds : refs[m] \in Nat /\ refs[m] <= MaxRefs
  BY MaterialConstants DEF MaterialsTypeOK
<1>2. ASSUME NEW m \in MaterialIds
      PROVE  /\ \A t : Uses(textureList[m], t) \in Nat
             /\ \A u \in DOMAIN textureList[m] :
                  /\ u \in Units /\ textureList[m][u] \in Textures
                  /\ Uses(textureList[m], textureList[m][u]) > 0
  <2>1. PICK us \in SUBSET Units : textureList[m] \in [us -> Textures]
    <3>1. textureList[m] \in ListsByUnit
      BY DEF MaterialsTypeOK
    <3> QED
      BY <3>1 DEF ListsByUnit
  <2>2. \A t : /\ Uses(textureList[m], t) \in Nat
               /\ Uses(textureList[m], t) > 0 <=> \E u \in us : textureList[m][u] = t
    BY <2>1, UsesType
  <2> QED
    BY <2>1, <2>2
<1>3. \A t : \A m \in MaterialIds : HeldOf(t)[m] = refs[m] * Uses(textureList[m], t)
  BY DEF HeldOf
<1>4. \A t : \A m \in MaterialIds : HeldOf(t)[m] \in Nat
  BY <1>1, <1>2, <1>3, Products
<1> QED
  BY <1>1, <1>2, <1>3, <1>4

\* What the counts say of a material that somebody holds, and of the others
\* when it is the last user of the buffer.
LEMMA InUse ==
  ASSUME MaterialsTypeOK, CountsAreExact, NEW m \in MaterialIds, refs[m] > 0
  PROVE  /\ handle /\ bufferCount > 0
         /\ \A t \in Textures : textureCount[t] >= refs[m] * Uses(textureList[m], t)
         /\ \A t \in Textures : textureCount[t] >= Uses(textureList[m], t)
         /\ \A u \in DOMAIN textureList[m] : textureCount[textureList[m][u]] > 0
         /\ bufferCount = 1 => /\ refs[m] = 1 /\ ~ownsBuffer
                               /\ \A k \in MaterialIds : k # m => refs[k] = 0
<1>1. /\ \A k \in MaterialIds : refs[k] \in Nat
      /\ \A t : Uses(textureList[m], t) \in Nat
      /\ \A t : HeldOf(t)[m] = refs[m] * Uses(textureList[m], t)
      /\ \A t : \A k \in MaterialIds : HeldOf(t)[k] \in Nat
  BY Terms
<1>2. Summed(refs) \in Nat /\ refs[m] <= Summed(refs)
  BY <1>1, SummedNat
<1>3. handle /\ bufferCount > 0
  BY <1>1, <1>2 DEF CountsAreExact
<1>4. ASSUME NEW t \in Textures
      PROVE  /\ textureCount[t] >= refs[m] * Uses(textureList[m], t)
             /\ textureCount[t] >= Uses(textureList[m], t) /\ textureCount[t] \in Nat
  <2>1. Summed(HeldOf(t)) \in Nat /\ HeldOf(t)[m] <= Summed(HeldOf(t))
    BY <1>1, SummedNat
  <2>2. textureCount[t] = Summed(HeldOf(t)) + (IF t \in ownsTexture THEN 1 ELSE 0)
    BY DEF CountsAreExact
  <2>3. textureCount[t] \in Nat
    BY DEF MaterialsTypeOK
  <2>4. refs[m] * Uses(textureList[m], t) >= Uses(textureList[m], t)
    BY <1>1, Products
  <2> DEFINE a == refs[m] * Uses(textureList[m], t)
             b == Uses(textureList[m], t)
             c == Summed(HeldOf(t))
  <2>5. a \in Nat /\ b \in Nat /\ c \in Nat /\ a <= c /\ a >= b
        /\ textureCount[t] = c + (IF t \in ownsTexture THEN 1 ELSE 0)
    BY <1>1, <2>1, <2>2, <2>4
  <2> HIDE DEF a, b, c
  <2>6. textureCount[t] >= a /\ textureCount[t] >= b
    BY <2>5
  <2> QED
    BY <2>3, <2>6 DEF a, b
<1>5. ASSUME NEW u \in DOMAIN textureList[m] PROVE textureCount[textureList[m][u]] > 0
  <2>1. textureList[m][u] \in Textures /\ Uses(textureList[m], textureList[m][u]) > 0
    BY Terms
  <2> QED
    BY <1>1, <1>4, <2>1
<1>6. ASSUME bufferCount = 1
      PROVE  /\ refs[m] = 1 /\ ~ownsBuffer
             /\ \A k \in MaterialIds : k # m => refs[k] = 0
  <2> DEFINE others == [refs EXCEPT ![m] = 0]
  <2>1. /\ others[m] = 0 /\ 0 \in Nat /\ \A k \in MaterialIds : k # m => others[k] = refs[k]
    BY DEF MaterialsTypeOK
  <2>2. \A k \in MaterialIds : others[k] \in Nat
    BY <1>1, <2>1
  <2> HIDE DEF others
  <2>3. Summed(others) = Summed(refs) - refs[m] + others[m]
    BY <1>1, <2>1, SummedOne
  <2>4. Summed(others) \in Nat /\ \A k \in MaterialIds : others[k] <= Summed(others)
    BY <2>2, SummedNat
  <2>5. bufferCount = Summed(refs) + (IF ownsBuffer THEN 1 ELSE 0) /\ ownsBuffer \in BOOLEAN
    BY DEF CountsAreExact, MaterialsTypeOK
  <2>6. refs[m] = 1 /\ ~ownsBuffer /\ Summed(others) = 0
    BY <1>1, <1>2, <1>6, <2>1, <2>3, <2>4, <2>5
  <2> QED
    BY <2>1, <2>2, <2>4, <2>6
<1> QED
  BY <1>3, <1>4, <1>5, <1>6

\* Nobody holds a material of a buffer that is not there, or that is only
\* the application's.
LEMMA NotInUse ==
  ASSUME MaterialsTypeOK, CountsAreExact, ~handle \/ (bufferCount = 1 /\ ownsBuffer)
  PROVE  \A m \in MaterialIds : refs[m] = 0
<1>1. ASSUME NEW m \in MaterialIds, refs[m] > 0 PROVE FALSE
  BY <1>1, InUse
<1>2. \A m \in MaterialIds : refs[m] \in Nat
  BY Terms
<1> QED
  BY <1>1, <1>2

-----------------------------------------------------------------------------

\* The buffer and every texture of a material that somebody holds are there.
PartsLive ==
  \A m \in MaterialIds : refs[m] > 0 =>
    /\ handle
    /\ \A u \in DOMAIN textureList[m] : textureCount[textureList[m][u]] > 0

\* Exact counts keep alive what a held material is made of.
LEMMA CountedPartsLive == MaterialsTypeOK /\ CountsAreExact => PartsLive
BY InUse DEF PartsLive

\* Types of what is not storage.
OwnTypes ==
  /\ bufferCount \in Nat /\ ownsBuffer \in BOOLEAN
  /\ textureCount \in [Textures -> Nat] /\ ownsTexture \subseteq Textures
  /\ uniformBuffer \in [MaterialIds -> BOOLEAN]
  /\ textureList \in [MaterialIds -> ListsByUnit]
  /\ dataSize \in [MaterialIds -> DataSizes \union {0}]
  /\ data \in [MaterialIds -> BOOLEAN]
  /\ refs \in [MaterialIds -> 0 .. MaxRefs]
  /\ boundTextures \in [Units -> Textures \union {NoTexture}]
  /\ active \in MaterialIds \union {NoMaterial}

\* The types are those of the storage and those of the rest.
LEMMA TypesSplit == MaterialsTypeOK <=> StorageTypeOK /\ OwnTypes
BY DEF MaterialsTypeOK, OwnTypes

\* The counts are exact as long as nobody takes or gives a reference.
LEMMA CountsSame ==
  ASSUME CountsAreExact, UNCHANGED <<bufferUse, textureUse, refs, textureList, handle>>
  PROVE  CountsAreExact'
<1>1. \A t : HeldOf(t)' = HeldOf(t)
  BY DEF HeldOf
<1> QED
  BY <1>1 DEF CountsAreExact, bufferUse, textureUse

\* Everything starts unused.
LEMMA MaterialsStart == MaterialsInit => MaterialsInv
<1> SUFFICES ASSUME MaterialsInit PROVE MaterialsInv
  OBVIOUS
<1>1. StorageTypeOK
  <2>1. 0 \in Cells /\ NoCells \in [Sections -> Cells] /\ [i \in {} |-> 0] \in [0 .. (0 - 1) -> Nat]
    BY AddIsACell DEF NoCells
  <2> QED
    BY <2>1 DEF MaterialsInit, StorageInit, StorageTypeOK
<1>2. OwnTypes
  <2>1. 0 \in 0 .. MaxRefs /\ 0 \in Nat
    BY MaterialConstants
  <2>2. NoTextures \in [{} -> Textures] /\ {} \in SUBSET Units
    BY DEF NoTextures
  <2>3. NoTextures \in ListsByUnit
    BY <2>2 DEF ListsByUnit
  <2>4. textureList \in [MaterialIds -> ListsByUnit]
    BY <2>3 DEF MaterialsInit
  <2> QED
    BY <2>1, <2>4 DEF MaterialsInit, OwnTypes
<1>3. MaterialsTypeOK
  BY <1>1, <1>2, TypesSplit
<1>4. CountsAreExact
  <2>1. \A m \in MaterialIds : refs[m] = 0 /\ refs[m] \in Int
    BY DEF MaterialsInit
  <2>2. \A f : (\A m \in MaterialIds : f[m] = 0) => Summed(f) = 0
    <3> SUFFICES ASSUME NEW f, \A m \in MaterialIds : f[m] = 0 PROVE Summed(f) = 0
      OBVIOUS
    <3>1. SumOver(f, MaterialIds) = SumOver(f, {})
      BY SumsOverMaterials, SumWithoutZeros
    <3> QED
      BY <3>1, SumsOverMaterials, SumEmpty
  <2>3. Summed(refs) = 0
    BY <2>1, <2>2
  <2>4. ASSUME NEW t \in Textures PROVE Summed(HeldOf(t)) = 0
    <3>1. \A m \in MaterialIds : HeldOf(t)[m] = 0
      <4> SUFFICES ASSUME NEW m \in MaterialIds PROVE HeldOf(t)[m] = 0
        OBVIOUS
      <4>1. HeldOf(t)[m] = refs[m] * Uses(textureList[m], t) /\ Uses(textureList[m], t) \in Nat
        BY <1>3, Terms
      <4>2. 0 * Uses(textureList[m], t) = 0
        BY <4>1, Products
      <4> QED
        BY <2>1, <4>1, <4>2
    <3> QED
      BY <2>2, <3>1
  <2> QED
    BY <2>3, <2>4 DEF CountsAreExact, MaterialsInit, StorageInit
<1>5. Bound
  BY MaterialConstants DEF MaterialsInit, Bound, NoMaterial
<1> QED
  BY <1>3, <1>4, <1>5 DEF MaterialsInv, MaterialsInit

-----------------------------------------------------------------------------
(* The application's own references.                                         *)

\* A buffer is made where there was none, so nobody has a reference to it yet.
LEMMA MakeUniformBufferKeeps ==
  ASSUME MaterialsInv, NEW c \in Capacities, NEW filled \in BOOLEAN, MakeUniformBuffer(c, filled)
  PROVE  MaterialsInv'
<1>1. MaterialsTypeOK /\ CountsAreExact /\ Bound /\ ~handle /\ handle' = TRUE
  BY DEF MaterialsInv, MakeUniformBuffer, Create
<1>2. bufferCount' = 1 /\ ownsBuffer' = TRUE /\ UNCHANGED <<textureUse, materialDesc, bindings>>
  BY DEF MakeUniformBuffer
<1>3. StorageTypeOK'
  BY <1>1, TypesSplit, CreateType DEF MakeUniformBuffer
<1>4. MaterialsTypeOK'
  BY <1>1, <1>2, <1>3 DEF MaterialsTypeOK, textureUse, materialDesc, bindings
<1>5. Summed(refs) = 0
  <2>1. Summed(refs) \in Nat /\ bufferCount \in Nat
    BY <1>1, Terms, SummedNat DEF MaterialsTypeOK
  <2> QED
    BY <1>1, <2>1 DEF CountsAreExact
<1>6. CountsAreExact'
  <2>1. \A t : HeldOf(t)' = HeldOf(t)
    BY <1>2 DEF HeldOf, materialDesc
  <2> QED
    BY <1>1, <1>2, <1>5, <2>1 DEF CountsAreExact, textureUse, materialDesc
<1> QED
  BY <1>1, <1>2, <1>4, <1>6 DEF MaterialsInv, Bound, materialDesc, bindings

\* One reference to the buffer goes, the last one with the buffer.
LEMMA BufferGoes ==
  ASSUME StorageTypeOK, bufferCount \in Nat, bufferCount > 0, handle, BufferReleased
  PROVE  /\ StorageTypeOK' /\ bufferCount' = bufferCount - 1
         /\ bufferCount' \in Nat /\ (handle' <=> bufferCount' > 0)
<1>1. CASE bufferCount = 1
  <2>1. Emptied /\ bufferCount' = 0
    BY <1>1 DEF BufferReleased
  <2>2. StorageTypeOK'
    BY <2>1, EmptiedType
  <2>3. handle' = FALSE
    BY <2>1 DEF Emptied
  <2> QED
    BY <1>1, <2>1, <2>2, <2>3
<1>2. CASE bufferCount # 1
  <2>1. UNCHANGED storageVars /\ bufferCount' = bufferCount - 1
    BY <1>2 DEF BufferReleased
  <2>2. StorageTypeOK' /\ handle' = handle
    BY <2>1 DEF StorageTypeOK, storageVars, accountVars, Block
  <2> QED
    BY <1>2, <2>1, <2>2
<1> QED
  BY <1>1, <1>2

\* The application gives up its own reference to the buffer.
LEMMA LetGoOfBufferKeeps ==
  ASSUME MaterialsInv, LetGoOfBuffer
  PROVE  MaterialsInv'
<1>1. MaterialsTypeOK /\ CountsAreExact /\ Bound /\ ownsBuffer /\ BufferReleased
  BY DEF MaterialsInv, LetGoOfBuffer
<1>2. ownsBuffer' = FALSE /\ UNCHANGED <<textureUse, materialDesc, bindings>>
  BY DEF LetGoOfBuffer
<1>3. Summed(refs) \in Nat /\ bufferCount = Summed(refs) + 1 /\ handle
  <2>1. Summed(refs) \in Nat
    BY <1>1, Terms, SummedNat
  <2> QED
    BY <1>1, <2>1 DEF CountsAreExact
<1>4. /\ StorageTypeOK' /\ bufferCount' = Summed(refs)
      /\ bufferCount' \in Nat /\ (handle' <=> bufferCount' > 0)
  BY <1>1, <1>3, BufferGoes DEF MaterialsTypeOK
<1>5. MaterialsTypeOK'
  BY <1>1, <1>2, <1>4 DEF MaterialsTypeOK, textureUse, materialDesc, bindings
<1>6. CountsAreExact'
  <2>1. \A t : HeldOf(t)' = HeldOf(t)
    BY <1>2 DEF HeldOf, materialDesc
  <2>2. refs' = refs /\ bufferCount' = Summed(refs) + 0
    BY <1>2, <1>3, <1>4 DEF materialDesc
  <2> QED
    BY <1>1, <1>2, <1>4, <2>1, <2>2 DEF CountsAreExact, textureUse
<1> QED
  BY <1>1, <1>2, <1>5, <1>6 DEF MaterialsInv, Bound, materialDesc, bindings

\* A texture is made whose count was 0, so no material in use has it.
LEMMA MakeTextureKeeps ==
  ASSUME MaterialsInv, NEW t \in Textures, MakeTexture(t)
  PROVE  MaterialsInv'
<1>1. MaterialsTypeOK /\ CountsAreExact /\ Bound /\ textureCount[t] = 0
  BY DEF MaterialsInv, MakeTexture
<1>2. /\ textureCount' = [textureCount EXCEPT ![t] = 1] /\ ownsTexture' = ownsTexture \union {t}
      /\ UNCHANGED <<storageVars, bufferUse, materialDesc, bindings>>
  BY DEF MakeTexture
<1>3. textureCount \in [Textures -> Nat] /\ 1 \in Nat
  BY <1>1 DEF MaterialsTypeOK
<1>4. /\ textureCount' \in [Textures -> Nat] /\ textureCount'[t] = 1
      /\ \A x \in Textures : x # t => textureCount'[x] = textureCount[x]
  BY <1>2, <1>3
<1>5. MaterialsTypeOK'
  <2>1. StorageTypeOK'
    BY <1>1, <1>2 DEF MaterialsTypeOK, StorageTypeOK, storageVars, accountVars, Block
  <2> QED
    BY <1>1, <1>2, <1>4, <2>1 DEF MaterialsTypeOK, bufferUse, materialDesc, bindings
<1>6. CountsAreExact'
  <2>1. \A x : HeldOf(x)' = HeldOf(x)
    BY <1>2 DEF HeldOf, materialDesc
  <2>2. Summed(HeldOf(t)) = 0
    <3>1. Summed(HeldOf(t)) \in Nat
      BY <1>1, Terms, SummedNat
    <3> QED
      BY <1>1, <3>1 DEF CountsAreExact
  <2>3. ASSUME NEW x \in Textures
        PROVE  textureCount'[x] = Summed(HeldOf(x)) + (IF x \in ownsTexture' THEN 1 ELSE 0)
    BY <1>1, <1>2, <1>4, <2>2 DEF CountsAreExact
  <2>4. UNCHANGED <<handle, refs, bufferCount, ownsBuffer>>
    BY <1>2 DEF storageVars, accountVars, materialDesc, bufferUse
  <2> QED
    BY <1>1, <2>1, <2>3, <2>4 DEF CountsAreExact
<1> QED
  BY <1>1, <1>2, <1>5, <1>6 DEF MaterialsInv, Bound, materialDesc, bindings

\* Where the counts cover a list, releasing its textures takes each use off, and
\* the driver keeps what still has a count.
LEMMA TexturesGo ==
  ASSUME MaterialsTypeOK, NEW list, TexturesReleased(list),
         \A t \in Textures : Uses(list, t) \in Nat /\ Uses(list, t) <= textureCount[t]
  PROVE  /\ textureCount' \in [Textures -> Nat]
         /\ \A t \in Textures : textureCount'[t] = textureCount[t] - Uses(list, t)
         /\ boundTextures' \in [Units -> Textures \union {NoTexture}]
         /\ \A u \in Units : /\ boundTextures[u] \in Textures
                             /\ textureCount'[boundTextures[u]] > 0
                             => boundTextures'[u] = boundTextures[u]
<1> DEFINE left(t) == Max({0, textureCount[t] - Uses(list, t)})
<1>1. textureCount \in [Textures -> Nat] /\ boundTextures \in [Units -> Textures \union {NoTexture}]
  BY DEF MaterialsTypeOK
<1>2. ASSUME NEW t \in Textures PROVE left(t) = textureCount[t] - Uses(list, t) /\ left(t) \in Nat
  <2>1. textureCount[t] - Uses(list, t) \in Nat
    BY <1>1
  <2> QED
    BY <2>1, LeftOver
<1>3. /\ textureCount' = [t \in Textures |-> left(t)]
      /\ boundTextures' = [u \in Units |->
            IF boundTextures[u] # NoTexture /\ left(boundTextures[u]) = 0 THEN NoTexture
                                                                        ELSE boundTextures[u]]
  BY DEF TexturesReleased
<1> HIDE DEF left
<1>4. \A t \in Textures : textureCount'[t] = left(t)
  BY <1>3
<1>5. ASSUME NEW u \in Units, boundTextures[u] \in Textures, textureCount'[boundTextures[u]] > 0
      PROVE  boundTextures'[u] = boundTextures[u]
  BY <1>3, <1>4, <1>5
<1>6. textureCount' \in [Textures -> Nat] /\ boundTextures' \in [Units -> Textures \union {NoTexture}]
  BY <1>1, <1>2, <1>3
<1> QED
  BY <1>2, <1>4, <1>5, <1>6

\* The application gives up its own reference to a texture; those that held
\* materials count stay bound.
LEMMA LetGoOfTextureKeeps ==
  ASSUME MaterialsInv, NEW t \in Textures, LetGoOfTexture(t)
  PROVE  MaterialsInv'
<1>1. /\ MaterialsTypeOK /\ CountsAreExact /\ Bound /\ t \in ownsTexture
      /\ TexturesReleased(Own(t))
  BY DEF MaterialsInv, LetGoOfTexture
<1>2. /\ ownsTexture' = ownsTexture \ {t}
      /\ UNCHANGED <<storageVars, bufferUse, materialDesc, active>>
  BY DEF LetGoOfTexture
<1>3. \A x \in Textures : Summed(HeldOf(x)) \in Nat /\ textureCount[x] \in Nat
  BY <1>1, Terms, SummedNat DEF MaterialsTypeOK
<1>4. \A x \in Textures : Uses(Own(t), x) \in Nat /\ Uses(Own(t), x) <= textureCount[x]
  <2> SUFFICES ASSUME NEW x \in Textures
               PROVE  Uses(Own(t), x) \in Nat /\ Uses(Own(t), x) <= textureCount[x]
    OBVIOUS
  <2>1. x = t => textureCount[x] = Summed(HeldOf(x)) + 1
    BY <1>1 DEF CountsAreExact
  <2> QED
    BY <1>3, <2>1, UsesOwn
<1>5. /\ textureCount' \in [Textures -> Nat]
      /\ \A x \in Textures : textureCount'[x] = textureCount[x] - Uses(Own(t), x)
      /\ boundTextures' \in [Units -> Textures \union {NoTexture}]
      /\ \A u \in Units : /\ boundTextures[u] \in Textures
                          /\ textureCount'[boundTextures[u]] > 0
                          => boundTextures'[u] = boundTextures[u]
  BY <1>1, <1>4, TexturesGo
<1>6. MaterialsTypeOK'
  <2>1. StorageTypeOK'
    BY <1>1, <1>2 DEF MaterialsTypeOK, StorageTypeOK, storageVars, accountVars, Block
  <2> QED
    BY <1>1, <1>2, <1>5, <2>1 DEF MaterialsTypeOK, bufferUse, materialDesc
<1>7. CountsAreExact'
  <2>1. \A x : HeldOf(x)' = HeldOf(x)
    BY <1>2 DEF HeldOf, materialDesc
  <2>2. ASSUME NEW x \in Textures
        PROVE  textureCount'[x] = Summed(HeldOf(x)) + (IF x \in ownsTexture' THEN 1 ELSE 0)
    <3>1. textureCount[x] = Summed(HeldOf(x)) + (IF x \in ownsTexture THEN 1 ELSE 0)
      BY <1>1 DEF CountsAreExact
    <3>2. textureCount'[x] = textureCount[x] - (IF x = t THEN 1 ELSE 0)
      BY <1>5, UsesOwn
    <3> QED
      BY <1>1, <1>2, <1>3, <3>1, <3>2
  <2>3. UNCHANGED <<handle, refs, bufferCount, ownsBuffer>>
    BY <1>2 DEF storageVars, accountVars, materialDesc, bufferUse
  <2> QED
    BY <1>1, <2>1, <2>2, <2>3 DEF CountsAreExact
<1>8. Bound'
  <2>1. PartsLive'
    BY <1>6, <1>7, CountedPartsLive, PTL
  <2>2. UNCHANGED <<refs, textureList, active>>
    BY <1>2 DEF materialDesc
  <2> SUFFICES ASSUME NEW m \in MaterialIds, active = m, NEW u \in DOMAIN textureList[m], refs[m] > 0
               PROVE  boundTextures'[u] = textureList[m][u]
    BY <1>1, <2>2 DEF Bound
  <2>3. boundTextures[u] = textureList[m][u] /\ u \in Units /\ textureList[m][u] \in Textures
    BY <1>1, Terms DEF Bound
  <2>4. textureCount'[textureList[m][u]] > 0
    BY <2>1, <2>2 DEF PartsLive
  <2> QED
    BY <1>5, <2>3, <2>4
<1> QED
  BY <1>1, <1>2, <1>6, <1>7, <1>8 DEF MaterialsInv, materialDesc

-----------------------------------------------------------------------------
(* The life of a material.                                                   *)

\* When the references of one material, or its list, change, the sum of a
\* texture changes by what that material held of it and holds now.
LEMMA OneHolds ==
  ASSUME MaterialsTypeOK, NEW m \in MaterialIds, NEW t, HeldOf(t)[m]' \in Nat,
         \A k \in MaterialIds : k # m => refs'[k] = refs[k] /\ textureList'[k] = textureList[k]
  PROVE  Summed(HeldOf(t))' = Summed(HeldOf(t)) - HeldOf(t)[m] + HeldOf(t)[m]'
<1>1. \A k \in MaterialIds : HeldOf(t)[k] \in Nat
  BY Terms
<1>2. \A k \in MaterialIds : k # m => HeldOf(t)'[k] = HeldOf(t)[k]
  BY DEF HeldOf
<1> QED
  BY <1>1, <1>2, SummedOne

\* Where the textures of a list live, a reference counts each use of them.
LEMMA TexturesCome ==
  ASSUME MaterialsTypeOK, NEW list, Referenced(list),
         \A t \in Textures : /\ Uses(list, t) \in Nat
                             /\ Uses(list, t) > 0 => textureCount[t] > 0
  PROVE  /\ textureCount' \in [Textures -> Nat]
         /\ \A t \in Textures : textureCount'[t] = textureCount[t] + Uses(list, t)
         /\ bufferCount' = bufferCount + 1
<1>1. textureCount \in [Textures -> Nat]
  BY DEF MaterialsTypeOK
<1>2. /\ bufferCount' = bufferCount + 1
      /\ textureCount' = [t \in Textures |->
            IF textureCount[t] > 0 THEN textureCount[t] + Uses(list, t) ELSE 0]
  BY DEF Referenced
<1>3. ASSUME NEW t \in Textures
      PROVE  textureCount'[t] = textureCount[t] + Uses(list, t) /\ textureCount'[t] \in Nat
  BY <1>1, <1>2
<1> QED
  BY <1>2, <1>3

\* The counts after a reference to m, or its release.
LEMMA CountsFollow ==
  ASSUME MaterialsTypeOK, CountsAreExact, NEW m \in MaterialIds, NEW e \in {-1, 1},
         refs'[m] = refs[m] + e, refs'[m] \in Nat, bufferCount' = bufferCount + e,
         \A k \in MaterialIds : k # m => refs'[k] = refs[k] /\ textureList'[k] = textureList[k],
         UNCHANGED <<ownsBuffer, ownsTexture>>, handle' <=> bufferCount' > 0,
         \A t \in Textures : /\ HeldOf(t)[m]' \in Nat /\ textureCount'[t] \in Nat
                             /\ textureCount'[t] - textureCount[t] = HeldOf(t)[m]' - HeldOf(t)[m]
  PROVE  CountsAreExact'
<1>1. /\ \A k \in MaterialIds : refs[k] \in Nat
      /\ \A t : \A k \in MaterialIds : HeldOf(t)[k] \in Nat
      /\ bufferCount \in Nat /\ \A t \in Textures : textureCount[t] \in Nat
  BY Terms DEF MaterialsTypeOK
<1>2. Summed(refs)' = Summed(refs) - refs[m] + refs'[m] /\ Summed(refs) \in Nat
  BY <1>1, SummedOne, SummedNat
<1>3. bufferCount' = Summed(refs)' + (IF ownsBuffer' THEN 1 ELSE 0)
  BY <1>1, <1>2 DEF CountsAreExact
<1>4. ASSUME NEW t \in Textures
      PROVE  textureCount'[t] = Summed(HeldOf(t))' + (IF t \in ownsTexture' THEN 1 ELSE 0)
  <2>1. Summed(HeldOf(t))' = Summed(HeldOf(t)) - HeldOf(t)[m] + HeldOf(t)[m]'
    BY OneHolds
  <2>2. Summed(HeldOf(t)) \in Nat /\ HeldOf(t)[m] \in Nat /\ HeldOf(t)[m]' \in Nat
    BY <1>1, SummedNat
  <2>3. textureCount[t] = Summed(HeldOf(t)) + (IF t \in ownsTexture THEN 1 ELSE 0)
    BY DEF CountsAreExact
  <2>4. textureCount'[t] - textureCount[t] = HeldOf(t)[m]' - HeldOf(t)[m] /\ textureCount[t] \in Nat
    BY <1>1
  <2>5. textureCount'[t] \in Nat
    OBVIOUS
  <2> QED
    BY <2>1, <2>2, <2>3, <2>4, <2>5
<1> QED
  BY <1>3, <1>4 DEF CountsAreExact

\* A material comes to life: it was in nobody's hands, as it had no buffer.
LEMMA MaterialCreateKeeps ==
  ASSUME MaterialsInv, NEW m \in MaterialIds, NEW n \in DataSizes, NEW given \in BOOLEAN,
         NEW list \in TextureLists, MaterialCreate(m, n, given, list)
  PROVE  MaterialsInv'
<1> DEFINE stored == Stored(list)
<1>1. /\ MaterialsTypeOK /\ CountsAreExact /\ Bound /\ handle /\ ~uniformBuffer[m]
      /\ \A k \in MaterialIds : refs[k] > 0 => uniformBuffer[k]
  BY DEF MaterialsInv, MaterialCreate
<1>2. /\ uniformBuffer' = [uniformBuffer EXCEPT ![m] = TRUE]
      /\ textureList' = [textureList EXCEPT ![m] = stored]
      /\ dataSize' = [dataSize EXCEPT ![m] = n] /\ data' = [data EXCEPT ![m] = given]
      /\ Referenced(stored) /\ refs' = [refs EXCEPT ![m] = 1]
      /\ UNCHANGED <<storageVars, ownsBuffer, ownsTexture, bindings>>
  BY DEF MaterialCreate
<1>3. /\ \A k \in MaterialIds : refs[k] \in Nat
      /\ refs[m] = 0
  BY <1>1, Terms
<1>4. PICK us \in SUBSET Units : /\ stored \in [us -> Textures]
                                 /\ \A u \in us : textureCount[stored[u]] > 0
  BY StoredLives
<1> HIDE DEF stored
<1>5. \A t \in Textures : /\ Uses(stored, t) \in Nat
                          /\ Uses(stored, t) > 0 => textureCount[t] > 0
  BY <1>4, UsesType
<1>6. /\ textureCount' \in [Textures -> Nat]
      /\ \A t \in Textures : textureCount'[t] = textureCount[t] + Uses(stored, t)
      /\ bufferCount' = bufferCount + 1
  BY <1>1, <1>2, <1>5, TexturesCome
<1>7. /\ refs \in [MaterialIds -> 0 .. MaxRefs] /\ uniformBuffer \in [MaterialIds -> BOOLEAN]
      /\ dataSize \in [MaterialIds -> DataSizes \union {0}] /\ data \in [MaterialIds -> BOOLEAN]
      /\ textureList \in [MaterialIds -> ListsByUnit]
  BY <1>1 DEF MaterialsTypeOK
<1>8. /\ refs' \in [MaterialIds -> 0 .. MaxRefs] /\ uniformBuffer' \in [MaterialIds -> BOOLEAN]
      /\ dataSize' \in [MaterialIds -> DataSizes \union {0}] /\ data' \in [MaterialIds -> BOOLEAN]
      /\ textureList' \in [MaterialIds -> ListsByUnit]
  <2>1. 1 \in 0 .. MaxRefs /\ stored \in ListsByUnit
    BY <1>4, MaterialConstants DEF ListsByUnit
  <2> QED
    BY <1>2, <1>7, <2>1
<1>9. /\ refs'[m] = 1 /\ textureList'[m] = stored /\ uniformBuffer'[m] = TRUE
      /\ \A k \in MaterialIds : k # m => /\ refs'[k] = refs[k] /\ textureList'[k] = textureList[k]
                                         /\ uniformBuffer'[k] = uniformBuffer[k]
  BY <1>2, <1>7
<1>10. StorageTypeOK' /\ handle' = handle
  BY <1>1, <1>2 DEF MaterialsTypeOK, StorageTypeOK, storageVars, accountVars, Block
<1>11. MaterialsTypeOK'
  <2>1. bufferCount' \in Nat
    BY <1>1, <1>6 DEF MaterialsTypeOK
  <2> QED
    BY <1>1, <1>2, <1>6, <1>8, <1>10, <2>1 DEF MaterialsTypeOK, bindings
<1>12. \A t \in Textures : /\ HeldOf(t)[m] = 0 /\ HeldOf(t)[m]' = Uses(stored, t)
  <2> SUFFICES ASSUME NEW t \in Textures
               PROVE  HeldOf(t)[m] = 0 /\ HeldOf(t)[m]' = Uses(stored, t)
    OBVIOUS
  <2>1. HeldOf(t)[m] = 0
    <3>1. HeldOf(t)[m] = refs[m] * Uses(textureList[m], t) /\ Uses(textureList[m], t) \in Nat
      BY <1>1, Terms
    <3>2. 0 * Uses(textureList[m], t) = 0
      BY <3>1, Products
    <3> QED
      BY <1>3, <3>1, <3>2
  <2>2. HeldOf(t)[m]' = 1 * Uses(stored, t)
    BY <1>9 DEF HeldOf
  <2> QED
    BY <1>5, <2>1, <2>2, Products
<1>13. CountsAreExact'
  <2>1. refs'[m] = refs[m] + 1 /\ refs'[m] \in Nat /\ 1 \in {-1, 1}
    BY <1>3, <1>9
  <2>2. handle' <=> bufferCount' > 0
    BY <1>1, <1>6, <1>10 DEF CountsAreExact, MaterialsTypeOK
  <2>3. \A t \in Textures : /\ HeldOf(t)[m]' \in Nat /\ textureCount'[t] \in Nat
                            /\ textureCount'[t] - textureCount[t] = HeldOf(t)[m]' - HeldOf(t)[m]
    <3> SUFFICES ASSUME NEW t \in Textures
                 PROVE  /\ HeldOf(t)[m]' \in Nat /\ textureCount'[t] \in Nat
                        /\ textureCount'[t] - textureCount[t] = HeldOf(t)[m]' - HeldOf(t)[m]
      OBVIOUS
    <3>1. textureCount[t] \in Nat
      BY <1>1 DEF MaterialsTypeOK
    <3> QED
      BY <1>5, <1>6, <1>12, <3>1
  <2> QED
    BY <1>1, <1>2, <1>6, <1>9, <2>1, <2>2, <2>3, CountsFollow
<1>14. Bound'
  <2>1. active # m /\ UNCHANGED <<boundTextures, active>>
    BY <1>1, <1>2, <1>3 DEF Bound, bindings
  <2> QED
    BY <1>1, <1>9, <2>1 DEF Bound
<1> QED
  BY <1>1, <1>9, <1>11, <1>13, <1>14 DEF MaterialsInv

\* One more reference to a material in use.
LEMMA MaterialReferenceKeeps ==
  ASSUME MaterialsInv, NEW m \in MaterialIds, MaterialReference(m)
  PROVE  MaterialsInv'
<1>1. /\ MaterialsTypeOK /\ CountsAreExact /\ Bound
      /\ \A k \in MaterialIds : refs[k] > 0 => uniformBuffer[k]
  BY DEF MaterialsInv
<1>2. /\ refs[m] \in 1 .. (MaxRefs - 1) /\ Referenced(textureList[m])
      /\ refs' = [refs EXCEPT ![m] = refs[m] + 1]
      /\ UNCHANGED <<storageVars, ownsBuffer, ownsTexture, uniformBuffer, textureList,
                     dataSize, data, bindings>>
  BY DEF MaterialReference
<1>3. /\ \A t \in Textures : textureCount[t] \in Nat /\ textureCount[t] >= Uses(textureList[m], t)
      /\ \A t : Uses(textureList[m], t) \in Nat
      /\ handle /\ bufferCount > 0
  BY <1>1, <1>2, Terms, InUse DEF MaterialsTypeOK
<1>4. /\ textureCount' \in [Textures -> Nat]
      /\ \A t \in Textures : textureCount'[t] = textureCount[t] + Uses(textureList[m], t)
      /\ bufferCount' = bufferCount + 1
  <2>1. \A t \in Textures : /\ Uses(textureList[m], t) \in Nat
                            /\ Uses(textureList[m], t) > 0 => textureCount[t] > 0
    BY <1>3
  <2> QED
    BY <1>1, <1>2, <2>1, TexturesCome
<1>5. /\ refs' \in [MaterialIds -> 0 .. MaxRefs] /\ refs'[m] = refs[m] + 1
      /\ \A k \in MaterialIds : k # m => refs'[k] = refs[k]
  <2>1. refs[m] + 1 \in 0 .. MaxRefs
    BY <1>2, MaterialConstants
  <2>2. refs \in [MaterialIds -> 0 .. MaxRefs]
    BY <1>1 DEF MaterialsTypeOK
  <2> QED
    BY <1>2, <2>1, <2>2
<1>6. StorageTypeOK' /\ handle' = handle
  BY <1>1, <1>2 DEF MaterialsTypeOK, StorageTypeOK, storageVars, accountVars, Block
<1>7. bufferCount' \in Nat /\ bufferCount' > 0
  BY <1>1, <1>4 DEF MaterialsTypeOK
<1>8. MaterialsTypeOK'
  BY <1>1, <1>2, <1>4, <1>5, <1>6, <1>7 DEF MaterialsTypeOK, bindings
<1>9. CountsAreExact'
  <2>1. refs'[m] = refs[m] + 1 /\ refs'[m] \in Nat /\ 1 \in {-1, 1}
    BY <1>2, <1>5, MaterialConstants
  <2>2. handle' <=> bufferCount' > 0
    BY <1>3, <1>6, <1>7
  <2>3. \A t \in Textures : /\ HeldOf(t)[m]' \in Nat /\ textureCount'[t] \in Nat
                            /\ textureCount'[t] - textureCount[t] = HeldOf(t)[m]' - HeldOf(t)[m]
    <3> SUFFICES ASSUME NEW t \in Textures
                 PROVE  /\ HeldOf(t)[m]' \in Nat /\ textureCount'[t] \in Nat
                        /\ textureCount'[t] - textureCount[t] = HeldOf(t)[m]' - HeldOf(t)[m]
      OBVIOUS
    <3> DEFINE u == Uses(textureList[m], t)
               r == refs[m]
    <3>1. HeldOf(t)[m] = r * u /\ u \in Nat /\ r \in Nat
      BY <1>1, Terms
    <3>2. HeldOf(t)[m]' = (r + 1) * u
      BY <1>2, <1>5 DEF HeldOf
    <3>3. textureCount[t] \in Nat /\ textureCount'[t] = textureCount[t] + u
      BY <1>3, <1>4
    <3> HIDE DEF u, r
    <3>4. (r + 1) * u = r * u + u /\ r * u \in Nat
      BY <3>1, Products
    <3> QED
      BY <3>1, <3>2, <3>3, <3>4
  <2> QED
    BY <1>1, <1>2, <1>4, <1>5, <2>1, <2>2, <2>3, CountsFollow
<1>10. Bound'
  <2>1. UNCHANGED <<boundTextures, active, textureList>> /\ refs'[m] > 0
    BY <1>2, <1>5 DEF bindings
  <2> QED
    BY <1>1, <1>5, <2>1 DEF Bound
<1>11. \A k \in MaterialIds : refs'[k] > 0 => uniformBuffer'[k]
  BY <1>1, <1>2, <1>5
<1> QED
  BY <1>8, <1>9, <1>10, <1>11 DEF MaterialsInv

\* A reference goes, of the buffer and of each texture; the last reference of
\* the buffer clears the pointers of the material that held it.
LEMMA MaterialReleaseKeeps ==
  ASSUME MaterialsInv, NEW m \in MaterialIds, MaterialRelease(m)
  PROVE  MaterialsInv'
<1>1. /\ MaterialsTypeOK /\ CountsAreExact /\ Bound /\ refs[m] > 0
      /\ \A k \in MaterialIds : refs[k] > 0 => uniformBuffer[k]
  BY DEF MaterialsInv, MaterialRelease
<1>2. /\ BufferReleased /\ TexturesReleased(textureList[m])
      /\ refs' = [refs EXCEPT ![m] = refs[m] - 1]
      /\ active' = IF active = m /\ refs[m] = 1 THEN NoMaterial ELSE active
      /\ UNCHANGED <<ownsBuffer, ownsTexture, dataSize, data>>
  BY DEF MaterialRelease
<1>3. bufferCount = 1 => /\ uniformBuffer' = [uniformBuffer EXCEPT ![m] = FALSE]
                         /\ textureList' = [textureList EXCEPT ![m] = NoTextures]
  BY DEF MaterialRelease
<1>4. bufferCount # 1 => UNCHANGED <<uniformBuffer, textureList>>
  BY DEF MaterialRelease
<1>5. /\ \A t \in Textures : textureCount[t] \in Nat /\ textureCount[t] >= Uses(textureList[m], t)
      /\ \A t : Uses(textureList[m], t) \in Nat
      /\ handle /\ bufferCount > 0
      /\ bufferCount = 1 => refs[m] = 1 /\ \A k \in MaterialIds : k # m => refs[k] = 0
      /\ \A k \in MaterialIds : refs[k] \in Nat
  BY <1>1, Terms, InUse DEF MaterialsTypeOK
<1>6. /\ StorageTypeOK' /\ bufferCount' = bufferCount - 1
      /\ bufferCount' \in Nat /\ (handle' <=> bufferCount' > 0)
  BY <1>1, <1>2, <1>5, BufferGoes DEF MaterialsTypeOK
<1>7. /\ textureCount' \in [Textures -> Nat]
      /\ \A t \in Textures : textureCount'[t] = textureCount[t] - Uses(textureList[m], t)
      /\ boundTextures' \in [Units -> Textures \union {NoTexture}]
      /\ \A u \in Units : /\ boundTextures[u] \in Textures
                          /\ textureCount'[boundTextures[u]] > 0
                          => boundTextures'[u] = boundTextures[u]
  <2>1. \A t \in Textures : /\ Uses(textureList[m], t) \in Nat
                            /\ Uses(textureList[m], t) <= textureCount[t]
    BY <1>5
  <2> QED
    BY <1>1, <1>2, <2>1, TexturesGo
<1>8. /\ refs \in [MaterialIds -> 0 .. MaxRefs] /\ uniformBuffer \in [MaterialIds -> BOOLEAN]
      /\ textureList \in [MaterialIds -> ListsByUnit] /\ active \in MaterialIds \union {NoMaterial}
  BY <1>1 DEF MaterialsTypeOK
<1>9. /\ refs' \in [MaterialIds -> 0 .. MaxRefs] /\ refs'[m] = refs[m] - 1 /\ refs'[m] \in Nat
      /\ \A k \in MaterialIds : k # m => refs'[k] = refs[k]
  <2>1. refs[m] - 1 \in 0 .. MaxRefs /\ refs[m] - 1 \in Nat
    BY <1>1, <1>8, MaterialConstants
  <2> QED
    BY <1>2, <1>8, <2>1
<1>10. /\ uniformBuffer' \in [MaterialIds -> BOOLEAN] /\ textureList' \in [MaterialIds -> ListsByUnit]
       /\ \A k \in MaterialIds : k # m => /\ textureList'[k] = textureList[k]
                                          /\ uniformBuffer'[k] = uniformBuffer[k]
       /\ bufferCount # 1 => textureList'[m] = textureList[m] /\ uniformBuffer'[m] = uniformBuffer[m]
  <2>1. NoTextures \in ListsByUnit
    <3>1. NoTextures \in [{} -> Textures] /\ {} \in SUBSET Units
      BY DEF NoTextures
    <3> QED
      BY <3>1 DEF ListsByUnit
  <2>2. CASE bufferCount = 1
    BY <1>3, <1>8, <2>1, <2>2
  <2>3. CASE bufferCount # 1
    BY <1>4, <1>8, <2>3
  <2> QED
    BY <2>2, <2>3
<1>11. MaterialsTypeOK'
  <2>1. active' \in MaterialIds \union {NoMaterial}
    BY <1>2, <1>8
  <2> QED
    BY <1>1, <1>2, <1>6, <1>7, <1>9, <1>10, <2>1 DEF MaterialsTypeOK
<1>12. CountsAreExact'
  <2>1. -1 \in {-1, 1} /\ refs'[m] = refs[m] + (-1) /\ bufferCount' = bufferCount + (-1)
    BY <1>1, <1>5, <1>6, <1>9 DEF MaterialsTypeOK
  <2>2. \A t \in Textures : /\ HeldOf(t)[m]' \in Nat /\ textureCount'[t] \in Nat
                            /\ textureCount'[t] - textureCount[t] = HeldOf(t)[m]' - HeldOf(t)[m]
    <3> SUFFICES ASSUME NEW t \in Textures
                 PROVE  /\ HeldOf(t)[m]' \in Nat /\ textureCount'[t] \in Nat
                        /\ textureCount'[t] - textureCount[t] = HeldOf(t)[m]' - HeldOf(t)[m]
      OBVIOUS
    <3> DEFINE u == Uses(textureList[m], t)
               r == refs[m]
    <3>1. HeldOf(t)[m] = r * u /\ u \in Nat /\ r \in Nat /\ r > 0
      BY <1>1, Terms
    <3>2. textureCount[t] \in Nat /\ textureCount'[t] = textureCount[t] - u /\ textureCount'[t] \in Nat
      BY <1>5, <1>7
    <3>3. HeldOf(t)[m]' = (r - 1) * u
      <4>1. HeldOf(t)[m]' = refs'[m] * Uses(textureList'[m], t)
        BY DEF HeldOf
      <4>2. CASE bufferCount # 1
        BY <1>9, <1>10, <4>1, <4>2
      <4>3. CASE bufferCount = 1
        <5>1. refs'[m] = 0 /\ r - 1 = 0
          BY <1>5, <1>9, <4>3
        <5>2. Uses(textureList'[m], t) \in Nat
          <6>1. textureList'[m] \in ListsByUnit
            BY <1>10
          <6>2. PICK us \in SUBSET Units : textureList'[m] \in [us -> Textures]
            BY <6>1 DEF ListsByUnit
          <6> QED
            BY <6>2, UsesType
        <5>3. 0 * Uses(textureList'[m], t) = 0 /\ 0 * u = 0
          BY <3>1, <5>2, Products
        <5> QED
          BY <4>1, <5>1, <5>3
      <4> QED
        BY <4>2, <4>3
    <3> HIDE DEF u, r
    <3>4. (r - 1) * u = r * u - u /\ r * u >= u /\ r * u \in Nat
      BY <3>1, Products
    <3> QED
      BY <3>1, <3>2, <3>3, <3>4
  <2> QED
    BY <1>1, <1>2, <1>6, <1>9, <1>10, <2>1, <2>2, CountsFollow
<1>13. \A k \in MaterialIds : refs'[k] > 0 => uniformBuffer'[k]
  <2> SUFFICES ASSUME NEW k \in MaterialIds, refs'[k] > 0 PROVE uniformBuffer'[k]
    OBVIOUS
  <2>1. CASE k # m
    BY <1>1, <1>9, <1>10, <2>1
  <2>2. CASE k = m
    <3>1. bufferCount # 1
      BY <1>5, <1>9, <2>2
    <3> QED
      BY <1>1, <1>10, <2>2, <3>1
  <2> QED
    BY <2>1, <2>2
<1>14. Bound'
  <2>1. PartsLive'
    BY <1>11, <1>12, CountedPartsLive, PTL
  <2> SUFFICES ASSUME NEW k \in MaterialIds, active' = k
               PROVE  /\ refs'[k] > 0
                      /\ \A u \in DOMAIN textureList'[k] : boundTextures'[u] = textureList'[k][u]
    BY DEF Bound
  <2>2. active = k /\ (k = m => refs[m] # 1)
    BY <1>2, MaterialConstants DEF NoMaterial
  <2>3. refs[k] > 0 /\ \A u \in DOMAIN textureList[k] : boundTextures[u] = textureList[k][u]
    BY <1>1, <2>2 DEF Bound
  <2>4. refs'[k] > 0
    BY <1>5, <1>9, <2>2, <2>3
  <2>5. textureList'[k] = textureList[k]
    BY <1>5, <1>10, <2>2
  <2>6. ASSUME NEW u \in DOMAIN textureList[k] PROVE boundTextures'[u] = textureList[k][u]
    <3>1. u \in Units /\ textureList[k][u] \in Textures /\ boundTextures[u] = textureList[k][u]
      BY <1>1, <2>3, Terms
    <3>2. textureCount'[textureList[k][u]] > 0
      BY <2>1, <2>4, <2>5 DEF PartsLive
    <3> QED
      BY <1>7, <3>1, <3>2
  <2> QED
    BY <2>4, <2>5, <2>6
<1> QED
  BY <1>11, <1>12, <1>13, <1>14 DEF MaterialsInv

-----------------------------------------------------------------------------
(* Its data, and drawing with it: no reference is taken or given.            *)

\* An upload of any size changes nothing but the storage and what is remembered of the data.
LEMMA UploadKeeps ==
  ASSUME MaterialsInv, NEW m \in MaterialIds, NEW o \in Nat, NEW n \in Nat, NEW given \in BOOLEAN,
         FillOffset(0, o, n, given),
         UNCHANGED <<bufferUse, textureUse, uniformBuffer, textureList, refs, bindings>>,
         dataSize' \in [MaterialIds -> DataSizes \union {0}], data' \in [MaterialIds -> BOOLEAN]
  PROVE  MaterialsInv'
<1>1. /\ MaterialsTypeOK /\ CountsAreExact /\ Bound
      /\ \A k \in MaterialIds : refs[k] > 0 => uniformBuffer[k]
  BY DEF MaterialsInv
<1>2. StorageTypeOK' /\ handle' = handle
  BY <1>1, TypesSplit, FillOffsetType
<1>3. MaterialsTypeOK'
  BY <1>1, <1>2 DEF MaterialsTypeOK, bufferUse, textureUse, bindings
<1>4. CountsAreExact'
  BY <1>1, <1>2, CountsSame
<1> QED
  BY <1>1, <1>3, <1>4 DEF MaterialsInv, Bound, bindings

\* The units of the activated material are bound to its textures.
LEMMA ActivatedBinds ==
  ASSUME MaterialsTypeOK, NEW m \in MaterialIds, refs[m] > 0, Activated(m),
         UNCHANGED <<refs, textureList>>
  PROVE  /\ Bound' /\ active' \in MaterialIds \union {NoMaterial}
         /\ boundTextures' \in [Units -> Textures \union {NoTexture}]
<1>1. /\ active' = m
      /\ boundTextures' = [u \in Units |-> IF u \in DOMAIN textureList[m]
                                           THEN textureList[m][u] ELSE boundTextures[u]]
  BY DEF Activated
<1>2. \A u \in DOMAIN textureList[m] : u \in Units /\ textureList[m][u] \in Textures
  BY Terms
<1>3. Bound'
  BY <1>1, <1>2 DEF Bound
<1>4. boundTextures' \in [Units -> Textures \union {NoTexture}]
  <2>1. \A u \in Units : boundTextures[u] \in Textures \union {NoTexture}
    BY DEF MaterialsTypeOK
  <2> QED
    BY <1>1, <1>2, <2>1
<1> QED
  BY <1>1, <1>3, <1>4

\* An activation changes the bindings, and perhaps the storage and the data.
LEMMA ActivateKeeps ==
  ASSUME MaterialsInv, NEW m \in MaterialIds, refs[m] > 0, Activated(m),
         UNCHANGED <<bufferUse, textureUse, uniformBuffer, textureList, refs, handle>>,
         dataSize' \in [MaterialIds -> DataSizes \union {0}], data' \in [MaterialIds -> BOOLEAN],
         StorageTypeOK'
  PROVE  MaterialsInv'
<1>1. /\ MaterialsTypeOK /\ CountsAreExact
      /\ \A k \in MaterialIds : refs[k] > 0 => uniformBuffer[k]
  BY DEF MaterialsInv
<1>2. /\ Bound' /\ active' \in MaterialIds \union {NoMaterial}
      /\ boundTextures' \in [Units -> Textures \union {NoTexture}]
  BY <1>1, ActivatedBinds
<1>3. MaterialsTypeOK'
  BY <1>1, <1>2 DEF MaterialsTypeOK, bufferUse, textureUse
<1>4. CountsAreExact'
  BY <1>1, CountsSame
<1> QED
  BY <1>1, <1>2, <1>3, <1>4 DEF MaterialsInv

\* Storage that is left alone keeps its types.
LEMMA StorageSame == StorageTypeOK /\ UNCHANGED storageVars => StorageTypeOK' /\ handle' = handle
BY DEF StorageTypeOK, storageVars, accountVars, Block

\* A name for what a caller gives with new data.
NewData(m, given, n) ==
  /\ dataSize' = [dataSize EXCEPT ![m] = n]
  /\ data' = [data EXCEPT ![m] = given]

\* New data has the types of the old.
LEMMA NewDataType ==
  ASSUME MaterialsTypeOK, NEW m \in MaterialIds, NEW given \in BOOLEAN, NEW n \in DataSizes,
         NewData(m, given, n)
  PROVE  dataSize' \in [MaterialIds -> DataSizes \union {0}] /\ data' \in [MaterialIds -> BOOLEAN]
BY DEF NewData, MaterialsTypeOK

\* Activation with new data, whether the buffer has room for it or not.
LEMMA ActivateUploadNewKeeps ==
  ASSUME MaterialsInv, NEW m \in MaterialIds, NEW given \in BOOLEAN, NEW n \in DataSizes,
         MaterialActivateUploadNew(m, given, n)
  PROVE  MaterialsInv'
<1>1. MaterialsTypeOK /\ StorageTypeOK /\ n \in Nat /\ 0 \in Nat
  BY TypesSplit, MaterialConstants DEF MaterialsInv
<1>2. /\ refs[m] > 0 /\ Activated(m)
      /\ UNCHANGED <<bufferUse, textureUse, uniformBuffer, textureList, refs>>
  BY DEF MaterialActivateUploadNew, unchangedUse
<1>3. /\ StorageTypeOK' /\ handle' = handle /\ dataSize' \in [MaterialIds -> DataSizes \union {0}]
      /\ data' \in [MaterialIds -> BOOLEAN]
  <2>1. CASE n <= size
    <3>1. /\ content' = Written(0, n, 0) /\ blocks' = {b \in blocks : b.start >= n}
          /\ NewData(m, given, n) /\ UNCHANGED <<accountVars, fills>>
      BY <2>1 DEF MaterialActivateUploadNew, NewData
    <3>2. Written(0, n, 0) \in [0 .. (size - 1) -> Nat]
      BY <1>1, WrittenType
    <3>3. blocks' \in SUBSET Block
      BY <1>1, <3>1 DEF StorageTypeOK
    <3>4. StorageTypeOK' /\ handle' = handle
      BY <1>1, <3>1, <3>2, <3>3 DEF StorageTypeOK, accountVars, Block
    <3> QED
      BY <1>1, <3>1, <3>4, NewDataType
  <2>2. CASE ~(n <= size)
    <3>1. UNCHANGED storageVars /\ UNCHANGED <<dataSize, data>>
      BY <2>2 DEF MaterialActivateUploadNew
    <3> QED
      BY <1>1, <3>1, StorageSame DEF MaterialsTypeOK
  <2> QED
    BY <2>1, <2>2
<1> QED
  BY <1>2, <1>3, ActivateKeeps

\* The reset of the used counter.
LEMMA BufferResetKeeps ==
  ASSUME MaterialsInv, BufferReset
  PROVE  MaterialsInv'
<1>1. MaterialsTypeOK /\ CountsAreExact /\ Bound /\ StorageTypeOK
  BY TypesSplit DEF MaterialsInv
<1>2. UNCHANGED <<bufferUse, textureUse, materialDesc, bindings>> /\ ResetUsed
  BY DEF BufferReset, unchangedUse
<1>3. StorageTypeOK' /\ handle' = handle
  <2>1. /\ used' = [used EXCEPT ![0] = 0] /\ blocks' = {b \in blocks : b.section # 0}
        /\ UNCHANGED <<handle, size, split, sections, content, fills>>
    BY <1>2 DEF ResetUsed
  <2>2. used' \in [Sections -> Cells] /\ blocks' \in SUBSET Block
    BY <1>1, <2>1, AddIsACell DEF StorageTypeOK
  <2> QED
    BY <1>1, <2>1, <2>2 DEF StorageTypeOK, Block
<1>4. MaterialsTypeOK'
  BY <1>1, <1>2, <1>3 DEF MaterialsTypeOK, bufferUse, textureUse, materialDesc, bindings
<1>5. CountsAreExact'
  BY <1>1, <1>2, <1>3, CountsSame DEF materialDesc
<1> QED
  BY <1>1, <1>2, <1>4, <1>5 DEF MaterialsInv, Bound, materialDesc, bindings

\* Every step of materials and application keeps the invariant.
LEMMA MaterialsSteps ==
  MaterialsInv /\ [MaterialsNext]_<<storageVars, materialVars>> => MaterialsInv'
<1> SUFFICES ASSUME MaterialsInv, [MaterialsNext]_<<storageVars, materialVars>>
             PROVE  MaterialsInv'
  OBVIOUS
<1>1. /\ MaterialsTypeOK /\ CountsAreExact /\ StorageTypeOK
      /\ dataSize \in [MaterialIds -> DataSizes \union {0}] /\ data \in [MaterialIds -> BOOLEAN]
      /\ 0 \in Nat /\ DataSizes \subseteq Nat /\ Requests \subseteq Nat
  BY TypesSplit, MaterialConstants, StorageConstants DEF MaterialsInv, MaterialsTypeOK
<1>2. CASE UNCHANGED <<storageVars, materialVars>>
  <2>1. StorageTypeOK' /\ handle' = handle
    BY <1>1, <1>2, StorageSame
  <2>2. MaterialsTypeOK'
    BY <1>1, <1>2, <2>1 DEF MaterialsTypeOK, materialVars, bufferUse, textureUse, materialDesc, bindings
  <2>3. CountsAreExact'
    BY <1>1, <1>2, <2>1, CountsSame DEF materialVars, materialDesc
  <2> QED
    BY <1>2, <2>2, <2>3 DEF MaterialsInv, Bound, materialVars, materialDesc, bindings
<1>3. ASSUME NEW c \in Capacities, NEW filled \in BOOLEAN, MakeUniformBuffer(c, filled)
      PROVE  MaterialsInv'
  BY <1>3, MakeUniformBufferKeeps
<1>4. CASE LetGoOfBuffer
  BY <1>4, LetGoOfBufferKeeps
<1>5. ASSUME NEW t \in Textures, MakeTexture(t) \/ LetGoOfTexture(t) PROVE MaterialsInv'
  BY <1>5, MakeTextureKeeps, LetGoOfTextureKeeps
<1>6. ASSUME NEW m \in MaterialIds, NEW n \in DataSizes, NEW given \in BOOLEAN,
             NEW list \in TextureLists, MaterialCreate(m, n, given, list)
      PROVE  MaterialsInv'
  BY <1>6, MaterialCreateKeeps
<1>7. ASSUME NEW m \in MaterialIds, MaterialReference(m) \/ MaterialRelease(m) PROVE MaterialsInv'
  BY <1>7, MaterialReferenceKeeps, MaterialReleaseKeeps
<1>8. ASSUME NEW m \in MaterialIds, MaterialUpload(m) PROVE MaterialsInv'
  <2>1. dataSize[m] \in Nat /\ data[m] \in BOOLEAN
    BY <1>1
  <2>2. /\ FillOffset(0, 0, dataSize[m], data[m])
        /\ UNCHANGED <<bufferUse, textureUse, uniformBuffer, textureList, refs, bindings>>
        /\ UNCHANGED <<dataSize, data>>
    BY <1>8 DEF MaterialUpload, unchangedUse, materialDesc
  <2> QED
    BY <1>1, <2>1, <2>2, UploadKeeps
<1>9. ASSUME NEW m \in MaterialIds, NEW start \in Requests, NEW n \in Requests,
             MaterialUploadSection(m, start, n)
      PROVE  MaterialsInv'
  <2>1. start \in Nat /\ n \in Nat /\ data[m] \in BOOLEAN
    BY <1>1
  <2>2. /\ FillOffset(0, start, n, data[m])
        /\ UNCHANGED <<bufferUse, textureUse, uniformBuffer, textureList, refs, bindings>>
        /\ UNCHANGED <<dataSize, data>>
    BY <1>9 DEF MaterialUploadSection, unchangedUse, materialDesc
  <2> QED
    BY <1>1, <2>1, <2>2, UploadKeeps
<1>10. ASSUME NEW m \in MaterialIds, NEW n \in DataSizes, NEW given \in BOOLEAN,
              MaterialUploadNew(m, given, n)
       PROVE  MaterialsInv'
  <2>1. /\ FillOffset(0, 0, n, given) /\ NewData(m, given, n) /\ n \in Nat
        /\ UNCHANGED <<bufferUse, textureUse, uniformBuffer, textureList, refs, bindings>>
    BY <1>1, <1>10 DEF MaterialUploadNew, NewData, unchangedUse
  <2>2. dataSize' \in [MaterialIds -> DataSizes \union {0}] /\ data' \in [MaterialIds -> BOOLEAN]
    BY <1>1, <2>1, NewDataType
  <2> QED
    BY <1>1, <2>1, <2>2, UploadKeeps
<1>11. ASSUME NEW m \in MaterialIds, MaterialActivate(m) PROVE MaterialsInv'
  <2>1. /\ refs[m] > 0 /\ Activated(m) /\ UNCHANGED storageVars
        /\ UNCHANGED <<bufferUse, textureUse, uniformBuffer, textureList, refs>>
        /\ UNCHANGED <<dataSize, data>>
    BY <1>11 DEF MaterialActivate, unchangedUse, materialDesc
  <2>2. StorageTypeOK' /\ handle' = handle
    BY <1>1, <2>1, StorageSame
  <2> QED
    BY <1>1, <2>1, <2>2, ActivateKeeps
<1>12. ASSUME NEW m \in MaterialIds, NEW n \in DataSizes, NEW given \in BOOLEAN,
              MaterialActivateUploadNew(m, given, n)
       PROVE  MaterialsInv'
  BY <1>12, ActivateUploadNewKeeps
<1>13. CASE BufferReset
  BY <1>13, BufferResetKeeps
<1> QED
  BY <1>2, <1>3, <1>4, <1>5, <1>6, <1>7, <1>8, <1>9, <1>10, <1>11, <1>12, <1>13
     DEF MaterialsNext

\* The invariant of the materials holds throughout.
THEOREM MaterialsStaySound == MaterialsSpec => []MaterialsInv
  BY MaterialsStart, MaterialsSteps, PTL DEF MaterialsSpec

\* Descriptors, counts, lists and bindings keep their types, and a buffer that is
\* released with a material has every field cleared (a3materialRelease).
THEOREM MaterialsTypeCorrect == MaterialsSpec => []MaterialsTypeOK
<1>1. MaterialsInv => MaterialsTypeOK
  BY DEF MaterialsInv
<1> QED
  BY <1>1, MaterialsStaySound, PTL

\* The buffer and the textures count exactly those who use them
\* (a3materialReference, a3materialRelease).
THEOREM MaterialCountsExact == MaterialsSpec => []CountsAreExact
<1>1. MaterialsInv => CountsAreExact
  BY DEF MaterialsInv
<1> QED
  BY <1>1, MaterialsStaySound, PTL

\* A material that somebody holds has its buffer and all of its textures, and
\* those of the active one are bound (a3materialInternalActivate).
THEOREM HeldIsComplete == MaterialsSpec => []HeldMaterialIsComplete
<1>1. MaterialsInv => HeldMaterialIsComplete
  <2> SUFFICES ASSUME MaterialsInv PROVE HeldMaterialIsComplete
    OBVIOUS
  <2>1. PartsLive
    BY CountedPartsLive DEF MaterialsInv
  <2> QED
    BY <2>1 DEF MaterialsInv, PartsLive, Bound, HeldMaterialIsComplete
<1> QED
  BY <1>1, MaterialsStaySound, PTL

------------------------------------------------------------------------------
(* The scene: sizes.                                                         *)

\* The totals of the scene are sums.
LEMMA TotalIsSum == \A f, S : Total(f, S) = SumOver(f, S)
  BY DEF Total, SumOver

\* The drawables are finitely many and distinct, and none of them is the dummy.
LEMMA DrawnSets ==
  /\ Len(Drawn) \in Nat \ {0} /\ DOMAIN Drawn = 1 .. Len(Drawn)
  /\ IsFiniteSet(Names) /\ "dummy" \notin Names
  /\ \A i \in DOMAIN Drawn : Drawn[i] \in Names /\ ArrayOf[Drawn[i]] \in Arrays
  /\ \A d \in Names : ArrayOf[d] \in Arrays /\ \E i \in DOMAIN Drawn : d = Drawn[i]
  /\ \A i, j \in DOMAIN Drawn : Drawn[i] = Drawn[j] => i = j
<1>1. Len(Drawn) \in Nat \ {0} /\ DOMAIN Drawn = 1 .. Len(Drawn)
  BY SceneConstants
<1>2. \A i \in DOMAIN Drawn : Drawn[i] \in STRING \ {"dummy"}
  BY SceneConstants
<1>3. Names = {Drawn[i] : i \in DOMAIN Drawn}
  BY DEF Names, Range
<1>4. IsFiniteSet(Names)
  <2>1. IsFiniteSet(1 .. Len(Drawn))
    BY <1>1, FS_Interval
  <2>2. Drawn \in [DOMAIN Drawn -> Names]
    BY <1>3, SceneConstants
  <2>3. Drawn \in Surjection(DOMAIN Drawn, Names)
    BY <2>2, <1>3 DEF Surjection
  <2> QED
    BY <1>1, <2>1, <2>3, FS_Surjection
<1>5. ArrayOf \in [Names -> Arrays]
  BY SceneConstants DEF Names
<1>6. \A i, j \in DOMAIN Drawn : Drawn[i] = Drawn[j] => i = j
  BY SceneConstants DEF IsInjective
<1> QED
  BY <1>1, <1>2, <1>3, <1>4, <1>5, <1>6

\* Sizes are given in words of four bytes.
Fours == {4 * k : k \in Nat}

\* The least of some natural numbers is one of them.
LEMMA MinIsLeast ==
  ASSUME NEW S \in SUBSET Nat, S # {}
  PROVE  Min(S) \in S /\ \A y \in S : Min(S) <= y
<1>1. PICK n \in S : \A m \in S : ~(m < n)
  BY SmallestNumber
<1>2. \A y \in S : n <= y
  BY <1>1
<1> QED
  BY <1>2 DEF Min

\* An attribute's size is a number of words.
LEMMA AttribSizeType ==
  ASSUME NEW a \in Arrays, NEW n
  PROVE  AttribSize(a, n) \in Fours /\ AttribSize(a, n) \in Nat
<1> DEFINE list  == AttribLists[a]
           given == {i \in DOMAIN list : list[i].name = n /\ list[i].elements > 0}
           attrs == [name : AttribNames, elements : Nat]
<1>1. list \in Seq(attrs)
  BY SceneConstants
<1>2. DOMAIN list \subseteq Nat /\ \A i \in DOMAIN list : list[i].elements \in Nat
  <2>0. \A x \in attrs : x.elements \in Nat
    OBVIOUS
  <2> HIDE DEF list, attrs
  <2>1. DOMAIN list = 1 .. Len(list) /\ Len(list) \in Nat
    BY <1>1
  <2>2. \A i \in 1 .. Len(list) : list[i] \in attrs
    BY <1>1
  <2>3. \A i \in 1 .. Len(list) : list[i].elements \in Nat
    BY <2>0, <2>2
  <2> QED
    BY <2>1, <2>3
<1>3. CASE given = {}
  <2>1. AttribSize(a, n) = 4 * 0
    BY <1>3 DEF AttribSize
  <2> QED
    BY <2>1 DEF Fours
<1>4. CASE given # {}
  <2>1. AttribSize(a, n) = 4 * list[Min(given)].elements
    BY <1>4 DEF AttribSize
  <2>2. given \in SUBSET Nat
    BY <1>2
  <2>3. Min(given) \in given
    BY <1>4, <2>2, MinIsLeast
  <2> DEFINE k == list[Min(given)].elements
  <2>4. k \in Nat
    BY <1>2, <2>3
  <2> HIDE DEF k
  <2>5. AttribSize(a, n) = 4 * k
    BY <2>1 DEF k
  <2> QED
    BY <2>4, <2>5 DEF Fours
<1> QED
  BY <1>3, <1>4

\* Sums and multiples of numbers of words are numbers of words, which need no
\* padding, and padding never shortens.
LEMMA Words ==
  /\ 0 \in Fours /\ Fours \subseteq Nat
  /\ \A x, y \in Fours : x + y \in Fours
  /\ \A x \in Fours, k \in Nat : x * k \in Fours
  /\ \A x \in Fours : Pad4(x) = x
  /\ \A x \in Nat : Pad4(x) \in Nat /\ Pad4(x) >= x
<1>1. 0 \in Fours
  <2>1. 0 = 4 * 0
    OBVIOUS
  <2> QED
    BY <2>1 DEF Fours
<1>2. ASSUME NEW x \in Fours, NEW y \in Fours PROVE x + y \in Fours
  <2>1. PICK j \in Nat : x = 4 * j
    BY DEF Fours
  <2>2. PICK k \in Nat : y = 4 * k
    BY DEF Fours
  <2>3. x + y = 4 * (j + k) /\ j + k \in Nat
    BY <2>1, <2>2
  <2> QED
    BY <2>3 DEF Fours
<1>3. ASSUME NEW x \in Fours, NEW k \in Nat PROVE x * k \in Fours
  <2>1. PICK j \in Nat : x = 4 * j
    BY DEF Fours
  <2>2. x * k = 4 * (j * k)
    BY <2>1
  <2>3. j * k \in Nat
    OBVIOUS
  <2> QED
    BY <2>2, <2>3 DEF Fours
<1>4. ASSUME NEW x \in Fours PROVE Pad4(x) = x
  <2>1. PICK j \in Nat : x = 4 * j
    BY DEF Fours
  <2>2. x % 4 = 0
    BY <2>1
  <2>3. (4 - 0) % 4 = 0 /\ x + 0 = x
    BY <2>1
  <2> QED
    BY <2>2, <2>3 DEF Pad4
<1>5. ASSUME NEW x \in Nat PROVE Pad4(x) \in Nat /\ Pad4(x) >= x
  <2>1. (4 - (x % 4)) % 4 \in Nat
    OBVIOUS
  <2> QED
    BY <2>1 DEF Pad4
<1>6. Fours \subseteq Nat
  BY DEF Fours
<1> QED
  BY <1>1, <1>2, <1>3, <1>4, <1>5, <1>6

\* The size of a vertex, too, is a number of words.
LEMMA VertexSizeType ==
  ASSUME NEW a \in Arrays
  PROVE  /\ VertexSize(a) \in Fours /\ VertexSize(a) \in Nat
         /\ \A count \in Nat : VertexStorage(a, count) = VertexSize(a) * count
<1>1. VertexSize(a) = SumOver(AttribSizes(a), AttribNames)
  BY TotalIsSum DEF VertexSize
<1>2. \A n \in AttribNames : AttribSizes(a)[n] \in Fours
  BY AttribSizeType DEF AttribSizes
<1>3. VertexSize(a) \in Fours
  BY <1>1, <1>2, SceneConstants, Words, SumClosed
<1>4. \A count \in Nat : VertexSize(a) * count \in Fours
  BY <1>3, Words
<1>5. \A count \in Nat : Pad4(VertexSize(a) * count) = VertexSize(a) * count
  BY <1>4, Words
<1> QED
  BY <1>3, <1>5, Words DEF VertexStorage

\* A mesh that is missing is the last one, and the others have vertices.
LEMMA MeshesType ==
  ASSUME NEW meshes \in Meshes
  PROVE  /\ meshes \in [Names -> MeshSizes \union {NoMesh}]
         /\ \A d \in Names : meshes[d][1] \in Nat /\ meshes[d][2] \in Nat
         /\ \A d \in Names : meshes[d][1] = 0 => meshes[d][2] = 0 /\ d = Drawn[Len(Drawn)]
<1>1. PICK sizes \in [Names -> MeshSizes], missing \in SUBSET Optional :
        meshes = [d \in Names |-> IF d \in missing THEN NoMesh ELSE sizes[d]]
  BY DEF Meshes
<1>2. MeshSizes \subseteq (Nat \ {0}) \X Nat
  BY SceneConstants
<1>3. NoMesh[1] = 0 /\ NoMesh[2] = 0
  BY DEF NoMesh
<1>4. ASSUME NEW d \in Names
      PROVE  /\ meshes[d] \in MeshSizes \union {NoMesh}
             /\ meshes[d][1] \in Nat /\ meshes[d][2] \in Nat
             /\ meshes[d][1] = 0 => meshes[d][2] = 0 /\ d = Drawn[Len(Drawn)]
  <2>1. CASE d \in missing
    BY <2>1, <1>1, <1>3, SceneOrder
  <2>2. CASE d \notin missing
    <3>1. meshes[d] = sizes[d] /\ sizes[d] \in MeshSizes
      BY <2>2, <1>1
    <3>2. sizes[d][1] \in Nat \ {0} /\ sizes[d][2] \in Nat
      BY <3>1, <1>2
    <3> QED
      BY <3>1, <3>2
  <2> QED
    BY <2>1, <2>2
<1>5. DOMAIN meshes = Names /\ meshes = [d \in Names |-> meshes[d]]
  BY <1>1
<1> QED
  BY <1>4, <1>5

\* The common index format can number all vertices.
LEMMA IndexFormatNumbersAll ==
  ASSUME NEW meshes \in Meshes
  PROVE  /\ IndexFormat(meshes) \in {1, 2, 4}
         /\ Total(VertexCounts(meshes), Names) <= IndexRange[IndexFormat(meshes)]
<1> DEFINE wide == {b \in {1, 2, 4} :
                      IndexRange[b] >= Total(VertexCounts(meshes), Names) \/ b = 4}
           n    == Total(VertexCounts(meshes), Names)
<1>1. n \in Nat
  <2>1. \A d \in Names : VertexCounts(meshes)[d] \in Nat
    BY MeshesType DEF VertexCounts
  <2>2. SumOver(VertexCounts(meshes), Names) \in Nat
    BY <2>1, DrawnSets, SumType
  <2> QED
    BY <2>2, TotalIsSum
<1>2. n <= IndexRange[4]
  BY SceneBounds
<1>3. \A b \in {1, 2, 4} : IndexRange[b] \in Nat
  BY SceneConstants
<1>4. wide \in SUBSET Nat /\ wide # {}
  BY <1>2
<1>5. Min(wide) \in wide
  BY <1>4, MinIsLeast
<1>6. IndexFormat(meshes) = Min(wide)
  BY DEF IndexFormat
<1> HIDE DEF n
<1>7. \A b \in wide : b \in {1, 2, 4} /\ n <= IndexRange[b]
  BY <1>1, <1>2, <1>3 DEF n
<1> QED
  BY <1>5, <1>6, <1>7 DEF n

\* What is stored of each mesh, and what all of it takes.
LEMMA ScenesSizes ==
  ASSUME NEW meshes \in Meshes, NEW b \in {1, 2, 4}
  PROVE  /\ \A d \in Names : /\ VertexCounts(meshes)[d] = meshes[d][1]
                             /\ VertexBytes(meshes)[d] = VertexStorage(ArrayOf[d], meshes[d][1])
                             /\ VertexBytes(meshes)[d] = VertexSize(ArrayOf[d]) * meshes[d][1]
                             /\ IndexBytes(meshes, b)[d] = IndexStorage(b, meshes[d][2])
         /\ \A d \in Names : /\ VertexCounts(meshes)[d] \in Nat
                             /\ VertexBytes(meshes)[d] \in Nat
                             /\ IndexBytes(meshes, b)[d] \in Nat
                             /\ IndexBytes(meshes, b)[d] >= b * meshes[d][2]
                             /\ meshes[d][2] = 0 => IndexBytes(meshes, b)[d] = 0
<1> SUFFICES ASSUME NEW d \in Names
             PROVE  /\ VertexCounts(meshes)[d] = meshes[d][1]
                    /\ VertexBytes(meshes)[d] = VertexStorage(ArrayOf[d], meshes[d][1])
                    /\ VertexBytes(meshes)[d] = VertexSize(ArrayOf[d]) * meshes[d][1]
                    /\ IndexBytes(meshes, b)[d] = IndexStorage(b, meshes[d][2])
                    /\ VertexCounts(meshes)[d] \in Nat
                    /\ VertexBytes(meshes)[d] \in Nat
                    /\ IndexBytes(meshes, b)[d] \in Nat
                    /\ IndexBytes(meshes, b)[d] >= b * meshes[d][2]
                    /\ meshes[d][2] = 0 => IndexBytes(meshes, b)[d] = 0
  OBVIOUS
<1>1. /\ VertexCounts(meshes)[d] = meshes[d][1]
      /\ VertexBytes(meshes)[d] = VertexStorage(ArrayOf[d], meshes[d][1])
      /\ IndexBytes(meshes, b)[d] = Pad4(b * meshes[d][2])
  BY DEF VertexCounts, VertexBytes, IndexBytes, IndexStorage
<1>2. meshes[d][1] \in Nat /\ meshes[d][2] \in Nat /\ ArrayOf[d] \in Arrays
  BY MeshesType, DrawnSets
<1>3. VertexStorage(ArrayOf[d], meshes[d][1]) = VertexSize(ArrayOf[d]) * meshes[d][1]
  BY <1>2, VertexSizeType
<1>4. VertexSize(ArrayOf[d]) * meshes[d][1] \in Nat
  <2>1. VertexSize(ArrayOf[d]) \in Nat
    BY <1>2, VertexSizeType
  <2> QED
    BY <2>1, <1>2
<1>5. Pad4(b * meshes[d][2]) \in Nat /\ Pad4(b * meshes[d][2]) >= b * meshes[d][2]
  <2>1. b * meshes[d][2] \in Nat
    BY <1>2
  <2> QED
    BY <2>1, Words
<1>6. ASSUME meshes[d][2] = 0 PROVE Pad4(b * meshes[d][2]) = 0
  <2>1. b * meshes[d][2] = 0
    BY <1>6
  <2> QED
    BY <2>1, Words
<1> QED
  BY <1>1, <1>2, <1>3, <1>4, <1>5, <1>6 DEF IndexStorage

\* Sums over some of the drawables: natural numbers, none greater than that over
\* all, and one more drawable adds what it needs.
LEMMA PartialTotals ==
  ASSUME NEW f, \A d \in Names : f[d] \in Nat, NEW S \in SUBSET Names
  PROVE  /\ Total(f, S) \in Nat /\ Total(f, Names) \in Nat
         /\ Total(f, S) <= Total(f, Names)
         /\ \A d \in Names \ S : /\ Total(f, S \cup {d}) = Total(f, S) + f[d]
                                 /\ Total(f, S) + f[d] <= Total(f, Names)
<1>1. IsFiniteSet(Names) /\ IsFiniteSet(S)
  BY DrawnSets, FS_Subset
<1>2. SumOver(f, S) \in Nat /\ SumOver(f, Names) \in Nat
  BY <1>1, SumType
<1>3. \A T \in SUBSET Names : SumOver(f, T) <= SumOver(f, Names)
  BY <1>1, SumPart
<1>4. ASSUME NEW d \in Names \ S PROVE SumOver(f, S \cup {d}) = SumOver(f, S) + f[d]
  <2>1. \A x \in S \cup {d} : f[x] \in Int
    OBVIOUS
  <2>2. SumOver(f, S \cup {d}) = f[d] + SumOver(f, S)
    BY <1>1, <2>1, SumAdd
  <2> QED
    BY <2>2, <1>2
<1>5. \A d \in Names \ S : S \cup {d} \in SUBSET Names
  OBVIOUS
<1> QED
  BY <1>2, <1>3, <1>4, <1>5, TotalIsSum

\* The sizes of the two sections, which the width holds.
LEMMA SceneTotals ==
  ASSUME NEW meshes \in Meshes, NEW b, b = IndexFormat(meshes)
  PROVE  /\ Total(VertexBytes(meshes), Names) \in Nat
         /\ Total(IndexBytes(meshes, b), Names) \in Nat
         /\ VertexTotal(meshes) = Total(VertexBytes(meshes), Names)
         /\ IndexTotal(meshes, b) = Total(IndexBytes(meshes, b), Names)
         /\ Total(VertexBytes(meshes), Names) + Total(IndexBytes(meshes, b), Names) < Width
<1>1. b \in {1, 2, 4}
  BY IndexFormatNumbersAll
<1>2. Names \in SUBSET Names
  OBVIOUS
<1>3. \A d \in Names : VertexBytes(meshes)[d] \in Nat /\ IndexBytes(meshes, b)[d] \in Nat
  BY <1>1, ScenesSizes
<1>4. Total(VertexBytes(meshes), Names) \in Nat /\ Total(IndexBytes(meshes, b), Names) \in Nat
  BY <1>2, <1>3, PartialTotals
<1>5. Total(VertexBytes(meshes), Names) + Total(IndexBytes(meshes, b), Names) < Width
  BY SceneBounds
<1>6. Width \in Nat
  BY StorageConstants
<1> DEFINE v == Total(VertexBytes(meshes), Names)
           i == Total(IndexBytes(meshes, b), Names)
<1>7. v % Width = v /\ i % Width = i
  <2> HIDE DEF v, i
  <2>1. v \in Nat /\ i \in Nat /\ v + i < Width
    BY <1>4, <1>5 DEF v, i
  <2> QED
    BY <2>1, <1>6
<1> QED
  BY <1>4, <1>5, <1>7 DEF VertexTotal, IndexTotal

------------------------------------------------------------------------------
(* The scene: what loading keeps.                                            *)

\* The drawables that are loaded before the i-th.
Before(i) == {Drawn[j] : j \in {k \in DOMAIN Drawn : k < i}}

\* The vertices of those before this one are stored.
ReadyTo == IF pc = "indices" THEN at + 1 ELSE at

\* What the sizing pass has found is what the storing pass uses up.
Accounts ==
  /\ handle /\ sections = Sections
  /\ split[0] = Total(VertexBytes(mesh), Names)
  /\ split[1] = split[0] + Total(IndexBytes(mesh, indexSize), Names)
  /\ used[0] = Total(VertexBytes(mesh), Before(ReadyTo))
  /\ used[1] = split[0] + Total(IndexBytes(mesh, indexSize), Before(at))
  /\ pc # "loaded" => offset = used[0]

\* How far the loading is: each mesh that is there has been stored so far.
Progress ==
  /\ mesh \in Meshes /\ indexSize = IndexFormat(mesh)
  /\ IF pc = "loaded" THEN at = Len(Drawn) + 1 ELSE at \in DOMAIN Drawn
  /\ pc = "indices" => Verts(Drawn[at]) > 0 /\ drawables[Drawn[at]].id = fills
  /\ \A i \in DOMAIN Drawn :
       /\ i < at \/ (i = at /\ pc \in {"vertices", "indices"}) =>
            (Verts(Drawn[i]) > 0 => arrays[ArrayOf[Drawn[i]]].live)
       /\ drawables[Drawn[i]].live <=> i < at /\ Verts(Drawn[i]) > 0

\* The vertex array in work ends at the tail, and no array has more vertices
\* than are stored.
WorkedAt == IF pc = "array" THEN at - 1 ELSE at

EndsAtTail(a) == arrays[a].offset + arrays[a].count * VertexSize(a) = used[0]

ArraysInv ==
  /\ pc # "loaded" /\ WorkedAt > 0 =>
       (Verts(Drawn[WorkedAt]) > 0 => EndsAtTail(ArrayOf[Drawn[WorkedAt]]))
  /\ \A a \in Arrays : arrays[a].count <= Total(VertexCounts(mesh), Before(ReadyTo))

\* Drawable d with vertex array a has its vertices in a block, where the array
\* has them from number base on.
HasVertices(d, a) ==
  /\ drawables[d].verts = Verts(d)
  /\ drawables[d].base + Verts(d) <= arrays[a].count
  /\ \E b \in blocks : /\ b.id = drawables[d].id
                       /\ b.start = arrays[a].offset + drawables[d].base * VertexSize(a)
                       /\ b.end = b.start + VertexSize(a) * Verts(d)

\* It draws all its indices, which are in the block after, or all its vertices.
HasIndices(d) ==
  IF Inds(d) = 0
  THEN /\ ~drawables[d].indexed
       /\ drawables[d].first = drawables[d].base /\ drawables[d].count = Verts(d)
  ELSE /\ drawables[d].indexed /\ drawables[d].count = Inds(d)
       /\ \E b \in blocks : /\ b.section = 1 /\ b.id = drawables[d].id + 1
                            /\ b.start = drawables[d].first
                            /\ b.end = b.start + IndexStorage(indexSize, Inds(d))

DrawablesInv ==
  /\ \A i \in DOMAIN Drawn : Verts(Drawn[i]) > 0 =>
       /\ i < ReadyTo => HasVertices(Drawn[i], ArrayOf[Drawn[i]])
       /\ i < at => HasIndices(Drawn[i])
  /\ drawables["dummy"] = IF pc = "loaded" THEN [drawables[Drawn[1]] EXCEPT !.count = 1]
                                           ELSE NoDrawable

\* A scene that is being loaded, or is loaded.
Loading == SceneTypeOK /\ Sound /\ Accounts /\ Progress /\ ArraysInv /\ DrawablesInv

NothingLoaded ==
  /\ at = 0
  /\ arrays = [a \in Arrays |-> NoArray]
  /\ drawables = [d \in Names \union {"dummy"} |-> NoDrawable]

SceneInv ==
  IF pc = "idle" THEN SceneTypeOK /\ IInv /\ NothingLoaded ELSE Loading

\* The drawables before one, and that one, are those before the next.
LEMMA BeforeSets ==
  /\ \A i : Before(i) \in SUBSET Names
  /\ Before(1) = {} /\ Before(Len(Drawn) + 1) = Names
  /\ \A i \in DOMAIN Drawn : /\ Before(i + 1) = Before(i) \union {Drawn[i]}
                             /\ Drawn[i] \in Names \ Before(i)
<1>1. /\ Len(Drawn) \in Nat /\ DOMAIN Drawn = 1 .. Len(Drawn)
      /\ \A i \in DOMAIN Drawn : Drawn[i] \in Names
      /\ \A d \in Names : \E i \in DOMAIN Drawn : d = Drawn[i]
      /\ \A i, j \in DOMAIN Drawn : Drawn[i] = Drawn[j] => i = j
  BY DrawnSets
<1>2. \A i : Before(i) \in SUBSET Names
  BY <1>1 DEF Before
<1>3. Before(1) = {}
  <2>1. \A k \in DOMAIN Drawn : ~(k < 1)
    BY <1>1
  <2> QED
    BY <2>1 DEF Before
<1>4. Before(Len(Drawn) + 1) = Names
  <2>1. \A k \in DOMAIN Drawn : k < Len(Drawn) + 1
    BY <1>1
  <2> QED
    BY <2>1, <1>1 DEF Before
<1>5. ASSUME NEW i \in DOMAIN Drawn
      PROVE  Before(i + 1) = Before(i) \union {Drawn[i]} /\ Drawn[i] \in Names \ Before(i)
  <2>1. \A k \in DOMAIN Drawn : k < i + 1 <=> k < i \/ k = i
    BY <1>1
  <2>2. Before(i + 1) = Before(i) \union {Drawn[i]}
    BY <2>1 DEF Before
  <2>3. Drawn[i] \notin Before(i)
    <3>1. ~(i < i)
      BY <1>1
    <3> QED
      BY <3>1, <1>1 DEF Before
  <2> QED
    BY <2>2, <2>3, <1>1
<1> QED
  BY <1>2, <1>3, <1>4, <1>5

\* What the types and the accounts say of numbers.
LEMMA SceneNumbers ==
  ASSUME Loading
  PROVE  /\ used[0] \in Nat /\ used[1] \in Nat /\ split[0] \in Nat /\ split[1] \in Nat
         /\ Width \in Nat \ {0} /\ split[0] <= split[1] /\ split[1] < Width
         /\ at \in Nat /\ indexSize \in {1, 2, 4}
         /\ 0 \in sections /\ 1 \in sections /\ handle
         /\ fills \in Nat
<1>1. /\ StorageTypeOK /\ mesh \in Meshes /\ indexSize = IndexFormat(mesh)
      /\ handle /\ sections = Sections
      /\ split[0] = Total(VertexBytes(mesh), Names)
      /\ split[1] = split[0] + Total(IndexBytes(mesh, indexSize), Names)
  BY DEF Loading, Sound, Accounts, Progress
<1>2. /\ Total(VertexBytes(mesh), Names) \in Nat
      /\ Total(IndexBytes(mesh, indexSize), Names) \in Nat
      /\ Total(VertexBytes(mesh), Names) + Total(IndexBytes(mesh, indexSize), Names) < Width
  BY <1>1, SceneTotals
<1>3. split[0] <= split[1] /\ split[1] < Width /\ split[0] \in Nat /\ split[1] \in Nat
  BY <1>1, <1>2
<1>4. used[0] \in Nat /\ used[1] \in Nat /\ fills \in Nat /\ Width \in Nat \ {0}
  BY <1>1, StorageConstants DEF StorageTypeOK, Cells, Sections
<1>5. at \in Nat
  BY DrawnSets DEF Loading, Progress
<1>6. indexSize \in {1, 2, 4}
  BY <1>1, IndexFormatNumbersAll
<1> QED
  BY <1>1, <1>3, <1>4, <1>5, <1>6 DEF Sections

\* While vertices are to be stored, there is room for those of the mesh at hand:
\* what it needs was counted for it.
LEMMA VerticesFit ==
  ASSUME Loading, pc = "vertices", NEW d, d = Drawn[at], NEW n,
         n = VertexStorage(ArrayOf[d], Verts(d))
  PROVE  /\ n \in Nat /\ n = VertexSize(ArrayOf[d]) * Verts(d)
         /\ used[0] + n <= split[0] /\ used[0] + n < Width
         /\ used[0] + n = Total(VertexBytes(mesh), Before(at + 1))
         /\ Verts(d) > 0 => CanStoreVertices(d)
<1>1. at \in DOMAIN Drawn /\ mesh \in Meshes /\ indexSize \in {1, 2, 4} /\ d \in Names
  BY SceneNumbers, DrawnSets DEF Loading, Progress
<1>2. used[0] = Total(VertexBytes(mesh), Before(at)) /\ split[0] = Total(VertexBytes(mesh), Names)
  BY DEF Loading, Accounts, ReadyTo
<1>3. \A x \in Names : VertexBytes(mesh)[x] \in Nat
  BY <1>1, ScenesSizes
<1>4. VertexBytes(mesh)[d] = n /\ VertexBytes(mesh)[d] = VertexSize(ArrayOf[d]) * Verts(d)
  BY <1>1, ScenesSizes DEF Verts
<1>5. Before(at) \in SUBSET Names /\ Before(at + 1) = Before(at) \union {d} /\ d \in Names \ Before(at)
  BY <1>1, BeforeSets
<1>6. /\ Total(VertexBytes(mesh), Before(at + 1)) = used[0] + n
      /\ used[0] + n <= split[0]
  BY <1>2, <1>3, <1>4, <1>5, PartialTotals
<1>7. used[0] \in Nat /\ split[0] \in Nat /\ split[1] \in Nat /\ split[0] <= split[1]
      /\ split[1] < Width /\ Width \in Nat
  BY SceneNumbers
<1>8. n \in Nat
  BY <1>1, <1>3, <1>4
<1>9. used[0] + n < Width
  BY <1>6, <1>7, <1>8
<1>10. ASSUME Verts(d) > 0 PROVE CanStoreVertices(d)
  <2>1. arrays[ArrayOf[d]].live
    BY <1>1, <1>10 DEF Loading, Progress
  <2>2. Add(used[0], n) = used[0] + n
    BY <1>7, <1>8, <1>9, AddFits
  <2> QED
    BY <2>1, <2>2, <1>6, <1>10 DEF CanStoreVertices, Fits
<1> QED
  BY <1>4, <1>6, <1>8, <1>9, <1>10

\* And for its indices.
LEMMA IndicesFit ==
  ASSUME Loading, at \in DOMAIN Drawn, NEW d, d = Drawn[at], NEW n,
         n = IndexStorage(indexSize, Inds(d))
  PROVE  /\ n \in Nat
         /\ used[1] + n <= split[1] /\ used[1] + n < Width
         /\ used[1] + n = split[0] + Total(IndexBytes(mesh, indexSize), Before(at + 1))
         /\ Inds(d) = 0 => n = 0
         /\ Fits(1, used[1], n)
<1>1. mesh \in Meshes /\ indexSize \in {1, 2, 4} /\ d \in Names
  BY SceneNumbers, DrawnSets DEF Loading, Progress
<1>2. /\ used[1] = split[0] + Total(IndexBytes(mesh, indexSize), Before(at))
      /\ split[1] = split[0] + Total(IndexBytes(mesh, indexSize), Names)
  BY DEF Loading, Accounts
<1>3. \A x \in Names : IndexBytes(mesh, indexSize)[x] \in Nat
  BY <1>1, ScenesSizes
<1>4. IndexBytes(mesh, indexSize)[d] = n /\ (Inds(d) = 0 => n = 0)
  BY <1>1, ScenesSizes DEF Inds
<1>5. Before(at) \in SUBSET Names /\ Before(at + 1) = Before(at) \union {d} /\ d \in Names \ Before(at)
  BY <1>1, BeforeSets
<1> DEFINE before == Total(IndexBytes(mesh, indexSize), Before(at))
           all    == Total(IndexBytes(mesh, indexSize), Names)
           after  == Total(IndexBytes(mesh, indexSize), Before(at + 1))
<1>6. after = before + n /\ before + n <= all /\ before \in Nat /\ all \in Nat
  BY <1>3, <1>4, <1>5, PartialTotals
<1>7. split[0] \in Nat /\ split[1] < Width /\ Width \in Nat
  BY SceneNumbers
<1>8. n \in Nat
  BY <1>1, <1>3, <1>4
<1>9. used[1] = split[0] + before /\ split[1] = split[0] + all
  BY <1>2
<1> HIDE DEF before, all, after
<1>10. used[1] + n <= split[1] /\ used[1] + n < Width /\ used[1] + n = split[0] + after /\ used[1] \in Nat
  BY <1>6, <1>7, <1>8, <1>9
<1>11. Add(used[1], n) = used[1] + n
  BY <1>8, <1>10, AddFits
<1> QED
  BY <1>4, <1>8, <1>10, <1>11 DEF Fits, after

\* What a drawable has stays its own while others are added.
LEMMA HasKept ==
  ASSUME NEW d, NEW a, drawables'[d] = drawables[d], mesh'[d] = mesh[d], indexSize' = indexSize,
         arrays'[a].offset = arrays[a].offset,
         arrays[a].count \in Nat, arrays'[a].count \in Nat, arrays[a].count <= arrays'[a].count,
         drawables[d].base \in Nat, mesh[d][1] \in Nat, blocks \subseteq blocks'
  PROVE  /\ HasVertices(d, a) => HasVertices(d, a)'
         /\ HasIndices(d) => HasIndices(d)'
<1>1. ASSUME HasVertices(d, a) PROVE HasVertices(d, a)'
  <2>1. drawables[d].base + mesh[d][1] <= arrays'[a].count
    BY <1>1 DEF HasVertices, Verts
  <2>2. PICK b \in blocks : /\ b.id = drawables[d].id
                            /\ b.start = arrays[a].offset + drawables[d].base * VertexSize(a)
                            /\ b.end = b.start + VertexSize(a) * mesh[d][1]
    BY <1>1 DEF HasVertices, Verts
  <2>3. b \in blocks'
    OBVIOUS
  <2> QED
    BY <1>1, <2>1, <2>2, <2>3 DEF HasVertices, Verts
<1>2. ASSUME HasIndices(d) PROVE HasIndices(d)'
  BY <1>2 DEF HasIndices, Verts, Inds
<1> QED
  BY <1>1, <1>2

------------------------------------------------------------------------------
(* The scene: the steps of loading.                                          *)

\* Only the mesh that comes last may be missing.
LEMMA OnlyLastMissing ==
  ASSUME mesh \in Meshes, NEW j \in DOMAIN Drawn
  PROVE  /\ Verts(Drawn[j]) \in Nat /\ Inds(Drawn[j]) \in Nat
         /\ mesh[Drawn[j]][1] \in Nat
         /\ Verts(Drawn[j]) = 0 => j = Len(Drawn) /\ Inds(Drawn[j]) = 0
<1>1. Drawn[j] \in Names /\ Len(Drawn) \in DOMAIN Drawn
  BY DrawnSets
<1> QED
  BY <1>1, DrawnSets, MeshesType DEF Verts, Inds

\* What is sound stays so while the buffer is left alone.
LEMMA SoundSame == Sound /\ UNCHANGED storageVars => Sound'
  BY DEF Sound, storageVars, accountVars, StorageTypeOK, Tails, Placed, Kept, Numbered, Base,
         Cells, Block

\* The drawables that are loaded, through a step that leaves them alone and adds
\* blocks and vertices at most.
LEMMA DrawablesKept ==
  ASSUME Loading, NEW j \in DOMAIN Drawn, Verts(Drawn[j]) > 0,
         NEW a, a = ArrayOf[Drawn[j]],
         drawables'[Drawn[j]] = drawables[Drawn[j]], mesh' = mesh, indexSize' = indexSize,
         arrays'[a].offset = arrays[a].offset,
         arrays'[a].count \in Nat, arrays[a].count <= arrays'[a].count,
         blocks \subseteq blocks'
  PROVE  /\ HasVertices(Drawn[j], a) => HasVertices(Drawn[j], a)'
         /\ HasIndices(Drawn[j]) => HasIndices(Drawn[j])'
<1>1. /\ arrays \in [Arrays -> [live : BOOLEAN, offset : Nat, count : Nat]]
      /\ drawables \in [Names \union {"dummy"} -> DrawableDesc]
      /\ mesh \in Meshes
  BY DEF Loading, SceneTypeOK, Progress
<1>2. Drawn[j] \in Names /\ a \in Arrays
  BY DrawnSets
<1>3. arrays[a].count \in Nat /\ drawables[Drawn[j]].base \in Nat /\ mesh[Drawn[j]][1] \in Nat
  BY <1>1, <1>2, OnlyLastMissing DEF DrawableDesc
<1> QED
  BY <1>3, HasKept

\* Only the format of a mesh's indices and its sizes are new when the buffer is made.
LEMMA MakeSceneBufferKeeps ==
  ASSUME SceneInv, NEW meshes \in Meshes, MakeSceneBuffer(meshes)
  PROVE  SceneInv'
<1> DEFINE bytes == IndexFormat(meshes)
           v == Total(VertexBytes(meshes), Names)
           i == Total(IndexBytes(meshes, bytes), Names)
<1>1. SceneTypeOK /\ IInv /\ NothingLoaded
  BY DEF SceneInv, MakeSceneBuffer
<1>2. /\ CreateSplit(VertexTotal(meshes), IndexTotal(meshes, bytes))
      /\ mesh' = meshes /\ indexSize' = bytes
      /\ pc' = "array" /\ at' = 1 /\ offset' = 0
      /\ UNCHANGED <<arrays, drawables>>
  BY DEF MakeSceneBuffer
<1>3. VertexTotal(meshes) = v /\ IndexTotal(meshes, bytes) = i /\ v \in Nat /\ i \in Nat /\ v + i < Width
  BY SceneTotals
<1>4. bytes \in {1, 2, 4}
  BY IndexFormatNumbersAll
<1> HIDE DEF v, i, bytes
<1>5. /\ Sound' /\ handle' /\ sections' = Sections
      /\ split'[0] = v /\ split'[1] = v + i /\ used'[0] = 0 /\ used'[1] = v
  BY <1>1, <1>2, <1>3, CreateSplitSound DEF IInv
<1>6. Before(1) = {} /\ \A f : Total(f, {}) = 0
  <2>1. \A f : Total(f, {}) = 0
    BY TotalIsSum, SumEmpty
  <2> QED
    BY <2>1, BeforeSets
<1>7. 1 \in DOMAIN Drawn /\ \A j \in DOMAIN Drawn : ~(j < 1)
  BY DrawnSets
<1>8. SceneTypeOK'
  <2>1. StorageTypeOK'
    BY <1>5 DEF Sound
  <2>2. 1 \in 0 .. Len(Drawn) + 1
    BY DrawnSets
  <2>3. 0 \in Cells
    BY AddIsACell
  <2>4. mesh' \in [Names -> MeshSizes \union {NoMesh}]
    BY <1>2, MeshesType
  <2> QED
    BY <2>1, <2>2, <2>3, <2>4, <1>1, <1>2, <1>4 DEF SceneTypeOK
<1>9. ReadyTo' = 1 /\ WorkedAt' = 0 /\ ~(0 > 0)
  BY <1>2 DEF ReadyTo, WorkedAt
<1>10. Accounts'
  <2>1. Total(VertexBytes(mesh), Names)' = v /\ Total(IndexBytes(mesh, indexSize), Names)' = i
    BY <1>2 DEF v, i, bytes
  <2>2. Total(VertexBytes(mesh), Before(ReadyTo))' = 0 /\ Total(IndexBytes(mesh, indexSize), Before(at))' = 0
    BY <1>2, <1>6, <1>9
  <2>3. v + 0 = v
    BY <1>3
  <2> QED
    BY <2>1, <2>2, <2>3, <1>2, <1>5 DEF Accounts
<1>11. \A d \in Names \union {"dummy"} : drawables'[d] = NoDrawable
  BY <1>1, <1>2 DEF NothingLoaded
<1>12. Progress'
  <2>1. \A j \in DOMAIN Drawn : ~drawables'[Drawn[j]].live /\ ~(j < at')
    BY <1>2, <1>7, <1>11, DrawnSets DEF NoDrawable
  <2> QED
    BY <2>1, <1>2, <1>7 DEF Progress, bytes
<1>13. ArraysInv'
  <2>1. \A a \in Arrays : arrays'[a].count = 0
    BY <1>1, <1>2 DEF NothingLoaded, NoArray
  <2>2. Total(VertexCounts(mesh), Before(ReadyTo))' = 0
    BY <1>6, <1>9
  <2>3. 0 <= 0
    OBVIOUS
  <2> QED
    BY <2>1, <2>2, <2>3, <1>9 DEF ArraysInv
<1>14. DrawablesInv'
  <2>1. drawables'["dummy"] = NoDrawable
    BY <1>11
  <2> QED
    BY <2>1, <1>2, <1>7, <1>9 DEF DrawablesInv
<1> QED
  BY <1>2, <1>5, <1>8, <1>10, <1>12, <1>13, <1>14 DEF SceneInv, Loading

\* A vertex array is made where the tail is, or the one in work is used again:
\* those that share it come one after another.
LEMMA GenerateVertexArrayKeeps ==
  ASSUME SceneInv, GenerateVertexArray
  PROVE  SceneInv'
<1> DEFINE d == Drawn[at]
           a == ArrayOf[d]
           new == [live |-> TRUE, offset |-> offset, count |-> 0]
<1>1. Loading /\ pc = "array"
  BY DEF SceneInv, GenerateVertexArray
<1>2. /\ arrays' = IF FirstOfArray(a) /\ Verts(d) > 0 THEN [arrays EXCEPT ![a] = new] ELSE arrays
      /\ pc' = "vertices"
      /\ UNCHANGED <<storageVars, at, mesh, offset, indexSize, drawables>>
  BY DEF GenerateVertexArray
<1>3. /\ at \in DOMAIN Drawn /\ mesh \in Meshes /\ d \in Names /\ a \in Arrays
      /\ DOMAIN Drawn = 1 .. Len(Drawn) /\ Len(Drawn) \in Nat \ {0}
  BY <1>1, DrawnSets DEF Loading, Progress
<1>4. offset \in Nat /\ offset = used[0] /\ used[0] \in Nat
  BY <1>1, SceneNumbers DEF Loading, Accounts
<1>5. arrays \in [Arrays -> [live : BOOLEAN, offset : Nat, count : Nat]]
  BY <1>1 DEF Loading, SceneTypeOK
<1>6. \A x \in Arrays : x # a => arrays'[x] = arrays[x]
  BY <1>2, <1>3, <1>5
<1>7. arrays' \in [Arrays -> [live : BOOLEAN, offset : Nat, count : Nat]]
  <2>1. new \in [live : BOOLEAN, offset : Nat, count : Nat]
    BY <1>4
  <2> HIDE DEF new
  <2> QED
    BY <2>1, <1>2, <1>5
<1>8. \A j \in DOMAIN Drawn : j < at => arrays'[ArrayOf[Drawn[j]]] = arrays[ArrayOf[Drawn[j]]]
  <2> SUFFICES ASSUME NEW j \in DOMAIN Drawn, j < at
               PROVE  arrays'[ArrayOf[Drawn[j]]] = arrays[ArrayOf[Drawn[j]]]
    OBVIOUS
  <2>1. ArrayOf[Drawn[j]] \in Arrays
    BY DrawnSets
  <2>2. ASSUME ArrayOf[Drawn[j]] = a PROVE ~FirstOfArray(a)
    <3>1. j \in 1 .. (at - 1)
      BY <1>3
    <3> QED
      BY <2>2, <3>1 DEF FirstOfArray
  <2> QED
    BY <2>1, <2>2, <1>2, <1>6
<1>9. ASSUME Verts(d) > 0
      PROVE  /\ arrays'[a].live
             /\ arrays'[a].offset + arrays'[a].count * VertexSize(a) = used[0]
  <2>1. VertexSize(a) \in Nat
    BY <1>3, VertexSizeType
  <2>2. CASE FirstOfArray(a)
    <3>1. arrays'[a] = new
      BY <1>2, <1>3, <1>5, <1>9, <2>2
    <3>2. used[0] + 0 * VertexSize(a) = used[0]
      BY <2>1, <1>4
    <3> QED
      BY <3>1, <3>2, <1>4
  <2>3. CASE ~FirstOfArray(a)
    <3>1. PICK j \in 1 .. (at - 1) : ArrayOf[Drawn[j]] = a
      BY <2>3 DEF FirstOfArray
    <3>2. /\ j \in DOMAIN Drawn /\ j < at /\ j # Len(Drawn)
          /\ at - 1 \in DOMAIN Drawn /\ at - 1 > 0 /\ at - 1 # Len(Drawn) /\ at - 1 < at
      <4> DEFINE last == Len(Drawn)
      <4>1. at \in 1 .. last /\ last \in Nat \ {0} /\ DOMAIN Drawn = 1 .. last
        BY <1>3
      <4> HIDE DEF last
      <4>2. /\ j \in 1 .. last /\ j < at /\ j # last
            /\ at - 1 \in 1 .. last /\ at - 1 > 0 /\ at - 1 # last /\ at - 1 < at
        BY <4>1, <3>1
      <4> QED
        BY <4>1, <4>2 DEF last
    <3>3. Verts(Drawn[j]) > 0 /\ Verts(Drawn[at - 1]) > 0
      <4>1. Verts(Drawn[j]) \in Nat /\ Verts(Drawn[j]) # 0
        BY <1>3, <3>2, OnlyLastMissing
      <4>2. Verts(Drawn[at - 1]) \in Nat /\ Verts(Drawn[at - 1]) # 0
        BY <1>3, <3>2, OnlyLastMissing
      <4> QED
        BY <4>1, <4>2
    <3>4. arrays[a].live
      BY <1>1, <3>1, <3>2, <3>3 DEF Loading, Progress
    <3>5. ArrayOf[Drawn[at - 1]] = a
      <4>1. CASE j = at - 1
        BY <4>1, <3>1
      <4>2. CASE j # at - 1
        <5>1. j < at - 1
          BY <4>2, <3>1, <1>3
        <5> QED
          BY <5>1, <3>1, <3>2, <1>3, SceneOrder
      <4> QED
        BY <4>1, <4>2
    <3>6. EndsAtTail(a)
      <4>1. WorkedAt = at - 1 /\ pc # "loaded"
        BY <1>1 DEF WorkedAt
      <4> QED
        BY <4>1, <1>1, <3>2, <3>3, <3>5 DEF Loading, ArraysInv
    <3> QED
      BY <3>4, <3>6, <2>3, <1>2 DEF EndsAtTail
  <2> QED
    BY <2>2, <2>3
<1> HIDE DEF d, a, new
<1>10. /\ UNCHANGED <<handle, size, split, used, sections, content, blocks, fills>>
       /\ ReadyTo = at /\ ReadyTo' = at /\ WorkedAt' = at
  BY <1>1, <1>2 DEF storageVars, accountVars, ReadyTo, WorkedAt
<1>11. SceneTypeOK'
  <2>1. StorageTypeOK'
    BY <1>1, <1>2, SoundSame DEF Loading, Sound
  <2> QED
    BY <2>1, <1>1, <1>2, <1>7 DEF Loading, SceneTypeOK, Cells
<1>12. Sound'
  BY <1>1, <1>2, SoundSame DEF Loading
<1>13. Accounts'
  BY <1>1, <1>2, <1>10 DEF Loading, Accounts
<1>14. Progress'
  <2>1. \A j \in DOMAIN Drawn :
          /\ j < at \/ j = at => (Verts(Drawn[j]) > 0 => arrays'[ArrayOf[Drawn[j]]].live)
          /\ drawables[Drawn[j]].live <=> j < at /\ Verts(Drawn[j]) > 0
    BY <1>1, <1>8, <1>9 DEF Loading, Progress, d, a
  <2>2. \A x : Verts(x)' = Verts(x)
    BY <1>2 DEF Verts
  <2> QED
    BY <2>1, <2>2, <1>1, <1>2 DEF Loading, Progress
<1>15. ArraysInv'
  <2>1. Verts(d) > 0 => arrays'[a].offset + arrays'[a].count * VertexSize(a) = used'[0]
    BY <1>9, <1>10
  <2>2. Total(VertexCounts(mesh), Before(at)) \in Nat
    BY <1>3, BeforeSets, PartialTotals, ScenesSizes
  <2>3. \A x \in Arrays : arrays'[x].count <= Total(VertexCounts(mesh), Before(at))
    <3> SUFFICES ASSUME NEW x \in Arrays
                 PROVE  arrays'[x].count <= Total(VertexCounts(mesh), Before(at))
      OBVIOUS
    <3>1. CASE arrays'[x] = arrays[x]
      BY <3>1, <1>1, <1>10 DEF Loading, ArraysInv
    <3>2. CASE arrays'[x] # arrays[x]
      <4>1. arrays'[x] = new
        BY <3>2, <1>2, <1>3, <1>5, <1>6
      <4>2. arrays'[x].count = 0
        BY <4>1 DEF new
      <4> QED
        BY <4>2, <2>2
    <3> QED
      BY <3>1, <3>2
  <2>4. Verts(d)' = mesh[d][1]
    BY <1>2 DEF Verts, d
  <2> QED
    BY <2>1, <2>3, <1>2, <1>10 DEF ArraysInv, EndsAtTail, Verts, d, a
<1>16. DrawablesInv'
  <2>1. ASSUME NEW j \in DOMAIN Drawn, Verts(Drawn[j]) > 0, j < at
        PROVE  HasVertices(Drawn[j], ArrayOf[Drawn[j]])' /\ HasIndices(Drawn[j])'
    <3>1. ArrayOf[Drawn[j]] \in Arrays
      BY DrawnSets
    <3>2. arrays'[ArrayOf[Drawn[j]]] = arrays[ArrayOf[Drawn[j]]]
      BY <1>8, <2>1
    <3>3. arrays[ArrayOf[Drawn[j]]].count \in Nat
      BY <3>1, <1>5
    <3>4. arrays[ArrayOf[Drawn[j]]].count <= arrays[ArrayOf[Drawn[j]]].count
      BY <3>3
    <3>5. /\ HasVertices(Drawn[j], ArrayOf[Drawn[j]]) => HasVertices(Drawn[j], ArrayOf[Drawn[j]])'
          /\ HasIndices(Drawn[j]) => HasIndices(Drawn[j])'
      BY <1>1, <1>2, <1>10, <2>1, <3>2, <3>3, <3>4, DrawablesKept
    <3> QED
      BY <3>5, <2>1, <1>1, <1>10 DEF Loading, DrawablesInv
  <2>2. \A x : Verts(x)' = Verts(x)
    BY <1>2 DEF Verts
  <2>3. drawables'["dummy"] = NoDrawable /\ pc' # "loaded"
    BY <1>1, <1>2 DEF Loading, DrawablesInv
  <2> QED
    BY <2>1, <2>2, <2>3, <1>2, <1>10 DEF DrawablesInv
<1> QED
  BY <1>2, <1>11, <1>12, <1>13, <1>14, <1>15, <1>16 DEF SceneInv, Loading

\* The stand-in is replaced after the last drawable, and no other drawable with it.
LEMMA DummyType ==
  ASSUME NEW ds \in [Names \union {"dummy"} -> DrawableDesc]
  PROVE  /\ WithDummy(ds) \in [Names \union {"dummy"} -> DrawableDesc]
         /\ \A d \in Names : WithDummy(ds)[d] = ds[d]
         /\ WithDummy(ds)["dummy"] =
              IF at = Len(Drawn) THEN [ds[Drawn[1]] EXCEPT !.count = 1] ELSE ds["dummy"]
<1> DEFINE all == Names \union {"dummy"}
           new == [ds[Drawn[1]] EXCEPT !.count = 1]
<1>1. Drawn[1] \in all /\ \A d \in Names : d # "dummy"
  BY DrawnSets
<1>2. new \in DrawableDesc
  <2>1. ds[Drawn[1]] \in DrawableDesc
    BY <1>1
  <2> QED
    BY <2>1 DEF DrawableDesc
<1>3. WithDummy(ds) = IF at = Len(Drawn) THEN [ds EXCEPT !["dummy"] = new] ELSE ds
  BY DEF WithDummy
<1> HIDE DEF new
<1>4. "dummy" \in all
  OBVIOUS
<1> HIDE DEF all
<1>5. WithDummy(ds) \in [all -> DrawableDesc]
  BY <1>2, <1>3 DEF all
<1>6. \A d \in Names : WithDummy(ds)[d] = ds[d]
  BY <1>1, <1>3 DEF all
<1>7. WithDummy(ds)["dummy"] = IF at = Len(Drawn) THEN new ELSE ds["dummy"]
  BY <1>3, <1>4 DEF all
<1> QED
  BY <1>5, <1>6, <1>7 DEF all, new

\* With a drawable that is stored, or missing, the loading is one further.
LEMMA AdvanceKeeps ==
  ASSUME Loading, pc \in {"vertices", "indices"}, NEW d, d = Drawn[at], NEW a, a = ArrayOf[d],
         NEW ds \in [Names \union {"dummy"} -> DrawableDesc],
         \A x \in Names : x # d => ds[x] = drawables[x],
         ds["dummy"] = NoDrawable, ds[d].live <=> Verts(d) > 0,
         drawables' = WithDummy(ds), Advance, UNCHANGED <<mesh, indexSize, arrays>>,
         pc = "vertices" => Verts(d) = 0, pc = "indices" => offset' = offset, offset' \in Cells,
         Sound', blocks \subseteq blocks',
         UNCHANGED <<handle, split, sections>>, used'[0] = used[0],
         used'[1] = used[1] + IndexStorage(indexSize, Inds(d)),
         Verts(d) > 0 => HasVertices(d, a)' /\ HasIndices(d)'
  PROVE  SceneInv'
<1>1. /\ at \in DOMAIN Drawn /\ mesh \in Meshes /\ d \in Names /\ a \in Arrays
      /\ DOMAIN Drawn = 1 .. Len(Drawn) /\ Len(Drawn) \in Nat \ {0} /\ at \in Nat
      /\ Drawn[1] \in Names
  BY DrawnSets DEF Loading, Progress
<1>2. /\ at' = at + 1
      /\ pc' = IF at = Len(Drawn) THEN "loaded" ELSE "array"
  BY DEF Advance
<1>3. ReadyTo' = at + 1 /\ (at # Len(Drawn) => WorkedAt' = at)
  <2>1. (at + 1) - 1 = at
    BY <1>1
  <2> QED
    BY <2>1, <1>2 DEF ReadyTo, WorkedAt
<1>4. Verts(d) \in Nat /\ Inds(d) \in Nat /\ (at # Len(Drawn) => Verts(d) > 0)
  BY <1>1, OnlyLastMissing
<1>5. pc = "vertices" => at = Len(Drawn)
  BY <1>4
<1>6. /\ \A x \in Names : drawables'[x] = ds[x]
      /\ drawables' \in [Names \union {"dummy"} -> DrawableDesc]
      /\ drawables'["dummy"] =
           IF at = Len(Drawn) THEN [ds[Drawn[1]] EXCEPT !.count = 1] ELSE NoDrawable
  BY DummyType
<1>7. \A j \in DOMAIN Drawn : /\ j < at + 1 <=> j < at \/ j = at
                              /\ Drawn[j] \in Names /\ (Drawn[j] = d <=> j = at)
  BY <1>1, DrawnSets
<1>8. \A x : Verts(x)' = Verts(x) /\ Inds(x)' = Inds(x)
  BY DEF Verts, Inds
<1>9. SceneTypeOK'
  <2>1. StorageTypeOK'
    BY DEF Sound
  <2>2. at' \in 0 .. Len(Drawn) + 1
    BY <1>1, <1>2
  <2>3. pc' \in {"idle", "array", "vertices", "indices", "loaded"}
    BY <1>2
  <2> QED
    BY <2>1, <2>2, <2>3, <1>6 DEF Loading, SceneTypeOK, Cells
<1>10. Accounts'
  <2>1. used[0] = Total(VertexBytes(mesh), Before(at + 1))
    <3>1. CASE pc = "indices"
      BY <3>1 DEF Loading, Accounts, ReadyTo
    <3>2. CASE pc = "vertices"
      <4>1. used[0] \in Nat /\ VertexSize(a) \in Nat /\ Verts(d) = 0
        BY <1>1, <3>2, SceneNumbers, VertexSizeType
      <4>2. VertexSize(a) * Verts(d) = 0
        BY <4>1
      <4>3. used[0] + VertexSize(a) * Verts(d) = Total(VertexBytes(mesh), Before(at + 1))
        BY <3>2, VerticesFit
      <4> QED
        BY <4>1, <4>2, <4>3
    <3> QED
      BY <3>1, <3>2
  <2>2. used'[1] = split[0] + Total(IndexBytes(mesh, indexSize), Before(at + 1))
    BY <1>1, IndicesFit
  <2>3. pc' # "loaded" => offset' = used[0]
    BY <1>2, <1>5 DEF Loading, Accounts
  <2>4. /\ handle /\ sections = Sections
        /\ split[0] = Total(VertexBytes(mesh), Names)
        /\ split[1] = split[0] + Total(IndexBytes(mesh, indexSize), Names)
    BY DEF Loading, Accounts
  <2> QED
    BY <2>1, <2>2, <2>3, <2>4, <1>2, <1>3 DEF Accounts
<1>11. Progress'
  <2>1. IF pc' = "loaded" THEN at' = Len(Drawn) + 1 ELSE at' \in DOMAIN Drawn
    BY <1>1, <1>2
  <2>2. ASSUME NEW j \in DOMAIN Drawn, j < at + 1, Verts(Drawn[j]) > 0
        PROVE  arrays[ArrayOf[Drawn[j]]].live
    <3>1. j < at \/ (j = at /\ pc \in {"vertices", "indices"})
      BY <2>2, <1>7
    <3> QED
      BY <2>2, <3>1 DEF Loading, Progress
  <2>3. ASSUME NEW j \in DOMAIN Drawn
        PROVE  drawables'[Drawn[j]].live <=> j < at + 1 /\ Verts(Drawn[j]) > 0
    <3>1. CASE j = at
      BY <3>1, <1>1, <1>6, <1>7
    <3>2. CASE j # at
      <4>1. drawables'[Drawn[j]] = drawables[Drawn[j]]
        BY <3>2, <1>6, <1>7
      <4>2. drawables[Drawn[j]].live <=> j < at /\ Verts(Drawn[j]) > 0
        BY DEF Loading, Progress
      <4> QED
        BY <3>2, <4>1, <4>2, <1>7
    <3> QED
      BY <3>1, <3>2
  <2>4. mesh \in Meshes /\ indexSize = IndexFormat(mesh)
    BY DEF Loading, Progress
  <2>5. \A j \in DOMAIN Drawn : ~(j = at' /\ pc' \in {"vertices", "indices"})
    BY <1>2
  <2> QED
    BY <2>1, <2>2, <2>3, <2>4, <2>5, <1>2, <1>8 DEF Progress
<1>12. ArraysInv'
  <2>1. ASSUME pc' # "loaded" PROVE EndsAtTail(a)
    <3>1. pc = "indices" /\ at # Len(Drawn)
      BY <2>1, <1>2, <1>5
    <3>2. WorkedAt = at /\ pc # "loaded" /\ at > 0
      BY <3>1, <1>1 DEF WorkedAt
    <3> QED
      BY <3>1, <3>2, <1>4 DEF Loading, ArraysInv
  <2>2. Total(VertexCounts(mesh), Before(ReadyTo)) <= Total(VertexCounts(mesh), Before(at + 1))
    <3>1. \A x \in Names : VertexCounts(mesh)[x] \in Nat
      BY <1>1, ScenesSizes
    <3>2. VertexCounts(mesh)[d] \in Nat
      BY <3>1, <1>1
    <3>3. /\ Before(at) \in SUBSET Names /\ Before(at + 1) = Before(at) \union {d}
          /\ Before(at + 1) \in SUBSET Names /\ d \in Names \ Before(at)
      BY <1>1, BeforeSets
    <3>4. /\ Total(VertexCounts(mesh), Before(at)) \in Nat
          /\ Total(VertexCounts(mesh), Before(at + 1))
             = Total(VertexCounts(mesh), Before(at)) + VertexCounts(mesh)[d]
      BY <3>1, <3>3, PartialTotals
    <3>5. Total(VertexCounts(mesh), Before(at)) <= Total(VertexCounts(mesh), Before(at + 1))
      BY <3>2, <3>4
    <3>6. Total(VertexCounts(mesh), Before(at + 1)) \in Nat
      BY <3>2, <3>4
    <3> QED
      BY <3>5, <3>6 DEF ReadyTo
  <2>3. \A x \in Arrays : arrays[x].count <= Total(VertexCounts(mesh), Before(at + 1))
    <3> SUFFICES ASSUME NEW x \in Arrays
                 PROVE  arrays[x].count <= Total(VertexCounts(mesh), Before(at + 1))
      OBVIOUS
    <3>1. arrays[x].count <= Total(VertexCounts(mesh), Before(ReadyTo))
      BY DEF Loading, ArraysInv
    <3>2. arrays[x].count \in Nat
      BY DEF Loading, SceneTypeOK
    <3>3. \A i : Total(VertexCounts(mesh), Before(i)) \in Nat
      BY <1>1, BeforeSets, PartialTotals, ScenesSizes
    <3> QED
      BY <3>1, <3>2, <3>3, <2>2
  <2>4. pc' # "loaded" => WorkedAt' = at
    BY <1>2, <1>3
  <2> QED
    BY <2>1, <2>3, <2>4, <1>3 DEF ArraysInv, EndsAtTail
<1>13. DrawablesInv'
  <2>1. ASSUME NEW j \in DOMAIN Drawn, Verts(Drawn[j]) > 0, j < at + 1
        PROVE  HasVertices(Drawn[j], ArrayOf[Drawn[j]])' /\ HasIndices(Drawn[j])'
    <3>1. CASE j = at
      BY <3>1, <2>1
    <3>2. CASE j # at
      <4>1. drawables'[Drawn[j]] = drawables[Drawn[j]] /\ j < at
        BY <3>2, <2>1, <1>6, <1>7
      <4>2. /\ arrays'[ArrayOf[Drawn[j]]].offset = arrays[ArrayOf[Drawn[j]]].offset
            /\ arrays'[ArrayOf[Drawn[j]]].count \in Nat
            /\ arrays[ArrayOf[Drawn[j]]].count <= arrays'[ArrayOf[Drawn[j]]].count
        <5>1. arrays[ArrayOf[Drawn[j]]].count \in Nat
          BY DrawnSets DEF Loading, SceneTypeOK
        <5> QED
          BY <5>1
      <4>3. /\ HasVertices(Drawn[j], ArrayOf[Drawn[j]]) => HasVertices(Drawn[j], ArrayOf[Drawn[j]])'
            /\ HasIndices(Drawn[j]) => HasIndices(Drawn[j])'
        BY <2>1, <4>1, <4>2, DrawablesKept
      <4>4. j < ReadyTo
        BY <2>1, <4>1 DEF ReadyTo
      <4> QED
        BY <2>1, <4>1, <4>3, <4>4 DEF Loading, DrawablesInv
    <3> QED
      BY <3>1, <3>2
  <2>2. drawables'["dummy"] = IF pc' = "loaded" THEN [drawables'[Drawn[1]] EXCEPT !.count = 1]
                                                ELSE NoDrawable
    BY <1>1, <1>2, <1>6
  <2> QED
    BY <2>1, <2>2, <1>2, <1>3, <1>8 DEF DrawablesInv
<1>14. pc' # "idle"
  BY <1>2
<1> QED
  BY <1>9, <1>10, <1>11, <1>12, <1>13, <1>14 DEF SceneInv, Loading

\* A missing mesh is the last, and nothing comes of it.
LEMMA GenerateNothingKeeps ==
  ASSUME SceneInv, GenerateNothing
  PROVE  SceneInv'
<1> DEFINE d == Drawn[at]
           a == ArrayOf[d]
<1>1. Loading /\ pc = "vertices"
  BY DEF SceneInv, GenerateNothing
<1>2. /\ ~CanStoreVertices(d)
      /\ offset' = (offset + Width - 1) % Width
      /\ drawables' = WithDummy(drawables)
      /\ Advance
      /\ UNCHANGED <<storageVars, mesh, indexSize, arrays>>
  BY DEF GenerateNothing
<1>3. at \in DOMAIN Drawn /\ mesh \in Meshes /\ d \in Names /\ at \in Nat
  BY <1>1, DrawnSets DEF Loading, Progress
<1>4. Verts(d) = 0 /\ Inds(d) = 0 /\ indexSize \in {1, 2, 4}
  <2>1. ~(Verts(d) > 0)
    BY <1>1, <1>2, VerticesFit
  <2>2. Verts(d) \in Nat /\ (Verts(d) = 0 => Inds(d) = 0)
    BY <1>3, OnlyLastMissing
  <2> QED
    BY <2>1, <2>2, <1>1, SceneNumbers
<1>5. IndexStorage(indexSize, Inds(d)) = 0 /\ used[1] + 0 = used[1]
  BY <1>1, <1>3, <1>4, IndicesFit, SceneNumbers
<1>6. offset' \in Cells
  <2>1. Width \in Nat \ {0} /\ offset \in Nat
    BY <1>1, SceneNumbers DEF Loading, Accounts
  <2>2. offset + Width - 1 \in Nat
    BY <2>1
  <2> DEFINE x == offset + Width - 1
  <2> HIDE DEF x
  <2>3. x % Width \in 0 .. (Width - 1)
    BY <2>1, <2>2 DEF x
  <2> QED
    BY <2>3, <1>2 DEF Cells, x
<1>7. /\ drawables \in [Names \union {"dummy"} -> DrawableDesc]
      /\ drawables["dummy"] = NoDrawable
      /\ ~drawables[d].live
  <2>1. ~(at < at)
    BY <1>3
  <2> QED
    BY <2>1, <1>1, <1>3 DEF Loading, SceneTypeOK, DrawablesInv, Progress
<1>8. /\ Sound' /\ blocks \subseteq blocks' /\ UNCHANGED <<handle, split, sections>>
      /\ used'[0] = used[0] /\ used'[1] = used[1]
  BY <1>1, <1>2, SoundSame DEF Loading, storageVars, accountVars
<1>9. ~(Verts(d) > 0)
  BY <1>4
<1> HIDE DEF d, a
<1>10. d = Drawn[at] /\ a = ArrayOf[d]
  BY DEF d, a
<1> QED
  BY <1>1, <1>2, <1>4, <1>5, <1>6, <1>7, <1>8, <1>9, <1>10, AdvanceKeeps

\* Vertices go behind those of the array in work, and of every other mesh.
LEMMA StoreVerticesKeeps ==
  ASSUME SceneInv, StoreVertices
  PROVE  SceneInv'
<1>0. PICK d, a : d = Drawn[at] /\ a = ArrayOf[d]
  OBVIOUS
<1> DEFINE n == VertexStorage(a, Verts(d))
           v == Verts(d)
           made == [NoDrawable EXCEPT !.base = arrays[a].count, !.verts = v, !.id = fills + 1]
           block == [section |-> 0, start |-> used[0], end |-> used[0] + n, id |-> fills + 1]
<1>1. Loading /\ pc = "vertices"
  BY DEF SceneInv, StoreVertices
<1>2. /\ CanStoreVertices(d) /\ Fill(0, n)
      /\ drawables' = [drawables EXCEPT ![d] = made]
      /\ arrays' = [arrays EXCEPT ![a].count = @ + v]
      /\ offset' = Add(offset, n)
      /\ pc' = "indices"
      /\ UNCHANGED <<at, mesh, indexSize>>
  BY <1>0 DEF StoreVertices
<1>3. /\ at \in DOMAIN Drawn /\ mesh \in Meshes /\ d \in Names /\ a \in Arrays /\ at \in Nat
      /\ DOMAIN Drawn = 1 .. Len(Drawn) /\ at > 0
  BY <1>0, <1>1, DrawnSets DEF Loading, Progress
<1>4. /\ used[0] \in Nat /\ fills \in Nat /\ 0 \in Sections /\ 1 \in Sections
      /\ Width \in Nat \ {0} /\ indexSize \in {1, 2, 4}
  BY <1>1, SceneNumbers DEF Sections
<1>5. /\ n \in Nat /\ n = VertexSize(a) * v /\ used[0] + n < Width
      /\ used[0] + n = Total(VertexBytes(mesh), Before(at + 1))
  BY <1>0, <1>1, VerticesFit
<1>6. v \in Nat /\ v > 0 /\ v = mesh[d][1]
  BY <1>0, <1>2, <1>3, OnlyLastMissing DEF CanStoreVertices, Verts
<1>7. Sound
  BY <1>1 DEF Loading
<1>8. /\ arrays \in [Arrays -> [live : BOOLEAN, offset : Nat, count : Nat]]
      /\ drawables \in [Names \union {"dummy"} -> DrawableDesc]
      /\ used \in [Sections -> Cells]
  BY <1>1, <1>7 DEF Loading, SceneTypeOK, Sound, StorageTypeOK
<1> HIDE DEF n, v
<1>9. /\ Sound'
      /\ used' = [used EXCEPT ![0] = used[0] + n]
      /\ blocks' = Told(0, used[0], used[0] + n) /\ fills' = fills + 1
      /\ UNCHANGED <<handle, size, split, sections>>
  BY <1>2, <1>4, <1>5, <1>7, FillSound
<1>10. /\ used'[0] = used[0] + n /\ used'[1] = used[1]
       /\ blocks' = blocks \union {block}
  <2>1. 0 # 1
    OBVIOUS
  <2> QED
    BY <2>1, <1>4, <1>8, <1>9 DEF Told
<1>11. /\ drawables'[d] = made /\ made.live = FALSE
       /\ made.base = arrays[a].count /\ made.verts = v /\ made.id = fills + 1
       /\ \A x \in Names \union {"dummy"} : x # d => drawables'[x] = drawables[x]
       /\ drawables' \in [Names \union {"dummy"} -> DrawableDesc]
  <2>1. arrays[a].count \in Nat
    BY <1>3, <1>8
  <2>2. made \in DrawableDesc
    <3> DEFINE x == [NoDrawable EXCEPT !.base = arrays[a].count]
               y == [x EXCEPT !.verts = v]
    <3>1. NoDrawable \in DrawableDesc
      BY DEF NoDrawable, DrawableDesc
    <3>2. x \in DrawableDesc
      BY <2>1, <3>1 DEF DrawableDesc
    <3> HIDE DEF x
    <3>3. y \in DrawableDesc
      BY <3>2, <1>6 DEF DrawableDesc
    <3> HIDE DEF y
    <3>4. fills + 1 \in Nat
      BY <1>4
    <3>5. [y EXCEPT !.id = fills + 1] \in DrawableDesc
      BY <3>3, <3>4 DEF DrawableDesc
    <3>6. made = [y EXCEPT !.id = fills + 1]
      BY DEF x, y
    <3> QED
      BY <3>5, <3>6
  <2>3. /\ made.live = FALSE
        /\ made.base = arrays[a].count /\ made.verts = v /\ made.id = fills + 1
    BY DEF NoDrawable
  <2> HIDE DEF made
  <2> QED
    BY <2>2, <2>3, <1>2, <1>3, <1>8
<1> HIDE DEF made
<1>12. /\ arrays'[a].offset = arrays[a].offset /\ arrays'[a].live = arrays[a].live
       /\ arrays'[a].count = arrays[a].count + v
       /\ \A x \in Arrays : x # a => arrays'[x] = arrays[x]
       /\ arrays' \in [Arrays -> [live : BOOLEAN, offset : Nat, count : Nat]]
       /\ arrays[a].count \in Nat /\ arrays[a].offset \in Nat
  <2> DEFINE new == [arrays[a] EXCEPT !.count = arrays[a].count + v]
  <2>1. arrays' = [arrays EXCEPT ![a] = new]
    BY <1>2
  <2>2. arrays[a] \in [live : BOOLEAN, offset : Nat, count : Nat]
    BY <1>3, <1>8
  <2>3. arrays[a].count + v \in Nat /\ arrays[a].count \in Nat /\ arrays[a].offset \in Nat
    BY <2>2, <1>6
  <2>4. /\ new \in [live : BOOLEAN, offset : Nat, count : Nat]
        /\ new.offset = arrays[a].offset /\ new.live = arrays[a].live
        /\ new.count = arrays[a].count + v
    BY <2>2, <2>3
  <2> HIDE DEF new
  <2>5. arrays'[a] = new
    BY <2>1, <1>3, <1>8
  <2> QED
    BY <2>1, <2>3, <2>4, <2>5, <1>8
<1>13. ReadyTo = at /\ ReadyTo' = at + 1 /\ WorkedAt = at /\ WorkedAt' = at
  BY <1>1, <1>2 DEF ReadyTo, WorkedAt
<1>14. \A x : Verts(x)' = Verts(x) /\ Inds(x)' = Inds(x)
  BY <1>2 DEF Verts, Inds
<1>15. \A j \in DOMAIN Drawn : /\ j < at + 1 <=> j < at \/ j = at
                               /\ Drawn[j] \in Names /\ (Drawn[j] = d <=> j = at)
                               /\ ArrayOf[Drawn[j]] \in Arrays
  BY <1>0, <1>3, DrawnSets
<1>16. EndsAtTail(a)
  BY <1>0, <1>1, <1>3, <1>6, <1>13 DEF Loading, ArraysInv, v
<1>17. VertexSize(a) \in Nat /\ EndsAtTail(a)'
  <2>1. VertexSize(a) \in Nat
    BY <1>3, VertexSizeType
  <2> DEFINE s == VertexSize(a)
             c == arrays[a].count
             o == arrays[a].offset
  <2>2. s \in Nat /\ c \in Nat /\ o \in Nat /\ o + c * s = used[0] /\ n = s * v
    BY <2>1, <1>5, <1>12, <1>16 DEF EndsAtTail
  <2> HIDE DEF s, c, o
  <2>3. (c + v) * s = c * s + s * v
    BY <2>2, <1>6
  <2>4. c * s \in Nat /\ s * v \in Nat
    BY <2>2, <1>6
  <2>5. o + (c + v) * s = used[0] + n
    BY <2>2, <2>3, <2>4
  <2> QED
    BY <2>1, <2>5, <1>10, <1>12 DEF EndsAtTail, s, c, o
<1>18. SceneTypeOK'
  <2>1. StorageTypeOK'
    BY <1>9 DEF Sound
  <2>2. offset' \in Cells
    BY <1>1, <1>2, <1>4, <1>5, AddIsACell DEF Loading, Accounts
  <2> QED
    BY <2>1, <2>2, <1>1, <1>2, <1>11, <1>12 DEF Loading, SceneTypeOK, Cells
<1>19. Accounts'
  <2>1. offset' = used[0] + n
    <3>1. offset = used[0]
      BY <1>1 DEF Loading, Accounts
    <3> QED
      BY <3>1, <1>2, <1>4, <1>5, AddFits
  <2>2. /\ handle /\ sections = Sections
        /\ split[0] = Total(VertexBytes(mesh), Names)
        /\ split[1] = split[0] + Total(IndexBytes(mesh, indexSize), Names)
        /\ used[1] = split[0] + Total(IndexBytes(mesh, indexSize), Before(at))
    BY <1>1 DEF Loading, Accounts
  <2> QED
    BY <2>1, <2>2, <1>2, <1>5, <1>9, <1>10, <1>13 DEF Accounts
<1>20. Progress'
  <2>1. ASSUME NEW j \in DOMAIN Drawn, j < at \/ j = at, Verts(Drawn[j]) > 0
        PROVE  arrays'[ArrayOf[Drawn[j]]].live
    <3>1. arrays[ArrayOf[Drawn[j]]].live
      BY <2>1, <1>1 DEF Loading, Progress
    <3> QED
      BY <3>1, <1>12, <1>15
  <2>2. ASSUME NEW j \in DOMAIN Drawn
        PROVE  drawables'[Drawn[j]].live <=> j < at /\ Verts(Drawn[j]) > 0
    <3>1. CASE j = at
      <4>1. drawables'[Drawn[j]].live = FALSE
        BY <3>1, <1>11, <1>15
      <4>2. ~(j < at)
        BY <3>1, <1>3
      <4> QED
        BY <4>1, <4>2
    <3>2. CASE j # at
      BY <3>2, <1>1, <1>11, <1>15 DEF Loading, Progress
    <3> QED
      BY <3>1, <3>2
  <2>3. mesh \in Meshes /\ indexSize = IndexFormat(mesh) /\ Verts(Drawn[at]) > 0
    BY <1>0, <1>1, <1>6 DEF Loading, Progress, v
  <2>4. drawables'[Drawn[at]].id = fills'
    BY <1>0, <1>9, <1>11
  <2> QED
    BY <2>1, <2>2, <2>3, <2>4, <1>2, <1>3, <1>14 DEF Progress
<1>21. \A x \in Arrays : arrays'[x].count <= Total(VertexCounts(mesh), Before(at + 1))
  <2>1. \A x \in Names : VertexCounts(mesh)[x] \in Nat
    BY <1>3, <1>4, ScenesSizes
  <2>2. VertexCounts(mesh)[d] = v
    BY <1>3, <1>4, <1>6, ScenesSizes
  <2>3. /\ Before(at) \in SUBSET Names /\ Before(at + 1) = Before(at) \union {d}
        /\ d \in Names \ Before(at)
    BY <1>0, <1>3, BeforeSets
  <2> DEFINE t == Total(VertexCounts(mesh), Before(at))
  <2>4. t \in Nat /\ Total(VertexCounts(mesh), Before(at + 1)) = t + v
    BY <2>1, <2>2, <2>3, PartialTotals
  <2>5. \A x \in Arrays : arrays[x].count <= t
    BY <1>1, <1>13 DEF Loading, ArraysInv
  <2> HIDE DEF t
  <2> SUFFICES ASSUME NEW x \in Arrays PROVE arrays'[x].count <= t + v
    BY <2>4
  <2>6. arrays[x].count \in Nat /\ arrays[x].count <= t
    BY <2>5, <1>8
  <2>7. arrays'[x].count = arrays[x].count \/ arrays'[x].count = arrays[x].count + v
    BY <1>12
  <2> QED
    BY <2>4, <2>6, <2>7, <1>6
<1>22. ArraysInv'
  BY <1>0, <1>2, <1>13, <1>17, <1>21 DEF ArraysInv
<1>23. HasVertices(d, a)'
  <2>1. drawables'[d].verts = v /\ drawables'[d].base = arrays[a].count /\ drawables'[d].id = fills + 1
    BY <1>11
  <2>2. drawables'[d].base + v <= arrays'[a].count
    BY <2>1, <1>6, <1>12
  <2>3. /\ block \in blocks' /\ block.id = drawables'[d].id
        /\ block.start = arrays'[a].offset + drawables'[d].base * VertexSize(a)
        /\ block.end = block.start + VertexSize(a) * v
    BY <2>1, <1>5, <1>10, <1>12, <1>16 DEF EndsAtTail
  <2>4. Verts(d)' = v
    BY <1>2, <1>6 DEF Verts
  <2> HIDE DEF block
  <2> QED
    BY <2>1, <2>2, <2>3, <2>4 DEF HasVertices
<1>24. DrawablesInv'
  <2>1. ASSUME NEW j \in DOMAIN Drawn, Verts(Drawn[j]) > 0, j < at
        PROVE  HasVertices(Drawn[j], ArrayOf[Drawn[j]])' /\ HasIndices(Drawn[j])'
    <3> DEFINE b == ArrayOf[Drawn[j]]
    <3>1. j # at /\ b \in Arrays
      BY <2>1, <1>3, <1>15
    <3>2. drawables'[Drawn[j]] = drawables[Drawn[j]]
      BY <3>1, <1>11, <1>15
    <3>3. /\ arrays'[b].offset = arrays[b].offset /\ arrays'[b].count \in Nat
          /\ arrays[b].count <= arrays'[b].count
      <4>1. arrays[b].count \in Nat
        BY <3>1, <1>8
      <4>2. CASE b = a
        BY <4>1, <4>2, <1>6, <1>12
      <4>3. CASE b # a
        BY <4>1, <4>3, <3>1, <1>12
      <4> QED
        BY <4>2, <4>3
    <3>4. blocks \subseteq blocks'
      BY <1>10
    <3>5. HasVertices(Drawn[j], b) /\ HasIndices(Drawn[j])
      BY <2>1, <1>1, <1>13 DEF Loading, DrawablesInv
    <3> QED
      BY <2>1, <3>2, <3>3, <3>4, <3>5, <1>1, <1>2, DrawablesKept
  <2>2. \A j \in DOMAIN Drawn : Verts(Drawn[j]) > 0 /\ j < at + 1 =>
          HasVertices(Drawn[j], ArrayOf[Drawn[j]])'
    BY <2>1, <1>0, <1>15, <1>23
  <2>3. drawables'["dummy"] = NoDrawable
    <3>1. d # "dummy" /\ drawables["dummy"] = NoDrawable
      BY <1>1, <1>3, DrawnSets DEF Loading, DrawablesInv
    <3> QED
      BY <3>1, <1>11
  <2> QED
    BY <2>1, <2>2, <2>3, <1>2, <1>13, <1>14 DEF DrawablesInv
<1> QED
  BY <1>2, <1>9, <1>18, <1>19, <1>20, <1>22, <1>24 DEF SceneInv, Loading

\* Indices go behind those of every other mesh, and the drawable is complete.
LEMMA StoreIndicesKeeps ==
  ASSUME SceneInv, StoreIndices
  PROVE  SceneInv'
<1>0. PICK d, a : d = Drawn[at] /\ a = ArrayOf[d]
  OBVIOUS
<1> DEFINE n == IndexStorage(indexSize, Inds(d))
           finished(indexed, first, count) ==
             [[[[drawables[d] EXCEPT !.live = TRUE] EXCEPT !.indexed = indexed]
                EXCEPT !.first = first] EXCEPT !.count = count]
           ds(indexed, first, count) == [drawables EXCEPT ![d] = finished(indexed, first, count)]
           \* The result's fields.
           Has(r, indexed, first, count) ==
             /\ r.live = TRUE /\ r.indexed = indexed /\ r.first = first /\ r.count = count
             /\ r.base = drawables[d].base /\ r.verts = drawables[d].verts
             /\ r.id = drawables[d].id
<1>1. Loading /\ pc = "indices"
  BY DEF SceneInv, StoreIndices
<1>2. /\ at \in DOMAIN Drawn /\ mesh \in Meshes /\ d \in Names /\ a \in Arrays /\ at \in Nat
      /\ d # "dummy"
  BY <1>0, <1>1, DrawnSets DEF Loading, Progress
<1>3. Verts(d) > 0 /\ Verts(d) \in Nat /\ Inds(d) \in Nat
  BY <1>0, <1>1, <1>2, OnlyLastMissing DEF Loading, Progress
<1>4. /\ n \in Nat /\ used[1] + n < Width /\ Fits(1, used[1], n)
      /\ Inds(d) = 0 => n = 0
  BY <1>0, <1>1, <1>2, IndicesFit
<1>5. /\ drawables \in [Names \union {"dummy"} -> DrawableDesc]
      /\ drawables["dummy"] = NoDrawable
      /\ used \in [Sections -> Cells] /\ offset \in Cells
  BY <1>1 DEF Loading, SceneTypeOK, Sound, StorageTypeOK, DrawablesInv
<1>6. ASSUME NEW indexed \in BOOLEAN, NEW first \in Nat, NEW count \in Nat
      PROVE  /\ ds(indexed, first, count) \in [Names \union {"dummy"} -> DrawableDesc]
             /\ Has(ds(indexed, first, count)[d], indexed, first, count)
             /\ \A x \in Names \union {"dummy"} :
                  x # d => ds(indexed, first, count)[x] = drawables[x]
             /\ [drawables EXCEPT ![d].live = TRUE, ![d].indexed = indexed,
                                  ![d].first = first, ![d].count = count]
                = ds(indexed, first, count)
  <2> DEFINE r == finished(indexed, first, count)
  <2>1. drawables[d] \in DrawableDesc
    BY <1>2, <1>5
  <2>2. r \in DrawableDesc
    BY <2>1 DEF DrawableDesc
  <2>3. Has(r, indexed, first, count)
    BY <2>1 DEF DrawableDesc
  <2>4. [drawables EXCEPT ![d].live = TRUE, ![d].indexed = indexed,
                          ![d].first = first, ![d].count = count]
        = ds(indexed, first, count)
    BY <1>2, <1>5
  <2> HIDE DEF r, Has
  <2>5. ds(indexed, first, count) = [drawables EXCEPT ![d] = r]
    BY DEF r
  <2> QED
    BY <2>2, <2>3, <2>4, <2>5, <1>2, <1>5
<1>7. /\ used[1] \in Nat /\ drawables[d].base \in Nat /\ 1 \in Sections /\ 0 \in Sections
      /\ indexSize \in {1, 2, 4}
  <2>1. drawables[d] \in DrawableDesc
    BY <1>2, <1>5
  <2> QED
    BY <2>1, <1>1, SceneNumbers DEF Sections, DrawableDesc
<1>8. HasVertices(d, a)
  <2>1. at < ReadyTo
    BY <1>1, <1>2 DEF ReadyTo
  <2> QED
    BY <2>1, <1>0, <1>1, <1>2, <1>3 DEF Loading, DrawablesInv
<1>9. Advance /\ UNCHANGED <<mesh, offset, indexSize, arrays>>
  BY DEF StoreIndices
<1>10. \A x : Verts(x)' = Verts(x) /\ Inds(x)' = Inds(x)
  BY <1>9 DEF Verts, Inds
<1>11. \A t : WithDummy(t)[d] = t[d] \/ t \notin [Names \union {"dummy"} -> DrawableDesc]
  BY <1>2, DummyType
<1>12. CASE Inds(d) = 0
  <2> DEFINE t == ds(FALSE, drawables[d].base, Verts(d))
  <2>1. drawables' = WithDummy([drawables EXCEPT ![d].live = TRUE, ![d].indexed = FALSE,
                                                 ![d].first = drawables[d].base,
                                                 ![d].count = Verts(d)])
    BY <1>0, <1>12 DEF StoreIndices
  <2>2. UNCHANGED storageVars
    BY <1>0, <1>12 DEF StoreIndices
  <2>3. /\ t \in [Names \union {"dummy"} -> DrawableDesc]
        /\ Has(t[d], FALSE, drawables[d].base, Verts(d))
        /\ \A x \in Names \union {"dummy"} : x # d => t[x] = drawables[x]
        /\ drawables' = WithDummy(t)
    <3>1. FALSE \in BOOLEAN
      OBVIOUS
    <3>2. drawables[d].base \in Nat /\ Verts(d) \in Nat
      BY <1>3, <1>7
    <3> HIDE DEF ds, Has
    <3>3. /\ t \in [Names \union {"dummy"} -> DrawableDesc]
          /\ Has(t[d], FALSE, drawables[d].base, Verts(d))
          /\ \A x \in Names \union {"dummy"} : x # d => t[x] = drawables[x]
          /\ [drawables EXCEPT ![d].live = TRUE, ![d].indexed = FALSE,
                                ![d].first = drawables[d].base, ![d].count = Verts(d)] = t
      BY <3>1, <3>2, <1>6, Zenon
    <3> QED
      BY <2>1, <3>3, Zenon
  <2>4. Has(drawables'[d], FALSE, drawables[d].base, Verts(d))
    BY <2>3, <1>11
  <2>5. /\ Sound' /\ blocks' = blocks /\ UNCHANGED <<handle, split, sections>>
        /\ used'[0] = used[0] /\ used'[1] = used[1] + n
    <3>1. used[1] + 0 = used[1] /\ n = 0
      BY <1>4, <1>7, <1>12
    <3> QED
      BY <3>1, <2>2, <1>1, SoundSame DEF Loading, storageVars, accountVars
  <2>6. HasVertices(d, a)' /\ HasIndices(d)'
    BY <2>4, <2>5, <1>8, <1>9, <1>10, <1>12 DEF HasVertices, HasIndices
  <2>7. /\ t["dummy"] = NoDrawable /\ (t[d].live <=> Verts(d) > 0)
        /\ \A x \in Names : x # d => t[x] = drawables[x]
    BY <2>3, <1>2, <1>3, <1>5
  <2> HIDE DEF t, ds, finished
  <2> QED
    BY <2>3, <2>5, <2>6, <2>7, <1>1, <1>0, <1>5, <1>9, AdvanceKeeps
<1>13. CASE Inds(d) > 0
  <2> DEFINE t == ds(TRUE, used[1], Inds(d))
             block == [section |-> 1, start |-> used[1], end |-> used[1] + n, id |-> fills + 1]
  <2>1. /\ drawables' = WithDummy([drawables EXCEPT ![d].live = TRUE, ![d].indexed = TRUE,
                                                    ![d].first = used[1], ![d].count = Inds(d)])
        /\ Fill(1, n)
    <3>1. Inds(d) # 0
      BY <1>3, <1>13
    <3> QED
      BY <3>1, <1>0, <1>4, <1>13 DEF StoreIndices
  <2>2. /\ t \in [Names \union {"dummy"} -> DrawableDesc]
        /\ Has(t[d], TRUE, used[1], Inds(d))
        /\ \A x \in Names \union {"dummy"} : x # d => t[x] = drawables[x]
        /\ drawables' = WithDummy(t)
    <3>1. TRUE \in BOOLEAN
      OBVIOUS
    <3>2. used[1] \in Nat /\ Inds(d) \in Nat
      BY <1>3, <1>7
    <3> HIDE DEF ds, Has
    <3>3. /\ t \in [Names \union {"dummy"} -> DrawableDesc]
          /\ Has(t[d], TRUE, used[1], Inds(d))
          /\ \A x \in Names \union {"dummy"} : x # d => t[x] = drawables[x]
          /\ [drawables EXCEPT ![d].live = TRUE, ![d].indexed = TRUE,
                                ![d].first = used[1], ![d].count = Inds(d)] = t
      BY <3>1, <3>2, <1>6, Zenon
    <3> QED
      BY <2>1, <3>3, Zenon
  <2>3. Has(drawables'[d], TRUE, used[1], Inds(d))
    BY <2>2, <1>11
  <2> HIDE DEF n
  <2>4. /\ Sound' /\ used' = [used EXCEPT ![1] = used[1] + n]
        /\ blocks' = Told(1, used[1], used[1] + n)
        /\ UNCHANGED <<handle, size, split, sections>>
    BY <2>1, <1>1, <1>4, <1>7, FillSound DEF Loading
  <2>5. used'[0] = used[0] /\ used'[1] = used[1] + n /\ blocks' = blocks \union {block}
    <3>1. 0 # 1
      OBVIOUS
    <3> QED
      BY <3>1, <2>4, <1>5, <1>7 DEF Told
  <2>6. HasVertices(d, a)'
    BY <2>3, <2>5, <1>8, <1>9, <1>10 DEF HasVertices
  <2>7. HasIndices(d)'
    <3>1. Inds(d)' = Inds(d) /\ Inds(d) # 0 /\ indexSize' = indexSize
      BY <1>3, <1>9, <1>10, <1>13
    <3>2. drawables'[d].indexed /\ drawables'[d].count = Inds(d) /\ drawables'[d].first = used[1]
          /\ drawables'[d].id = drawables[d].id
      BY <2>3
    <3>3. block \in blocks' /\ block.section = 1 /\ block.start = used[1]
          /\ block.end = block.start + IndexStorage(indexSize, Inds(d)) /\ block.id = fills + 1
      BY <2>5 DEF n
    <3>4. fills + 1 = drawables[d].id + 1
      BY <1>0, <1>1 DEF Loading, Progress
    <3> HIDE DEF block
    <3> QED
      BY <3>1, <3>2, <3>3, <3>4 DEF HasIndices
  <2>8. /\ t["dummy"] = NoDrawable /\ (t[d].live <=> Verts(d) > 0)
        /\ \A x \in Names : x # d => t[x] = drawables[x]
    BY <2>2, <1>2, <1>3, <1>5
  <2> HIDE DEF t, ds, finished
  <2> QED
    BY <2>2, <2>4, <2>5, <2>6, <2>7, <2>8, <1>1, <1>0, <1>5, <1>9, AdvanceKeeps DEF n
<1> QED
  BY <1>3, <1>12, <1>13

\* Before the scene is loaded others use the buffer, and a step of nobody
\* changes nothing.
LEMMA OtherUseKeeps == SceneInv /\ OtherUse => SceneInv'
<1> SUFFICES ASSUME SceneInv, OtherUse PROVE SceneInv'
  OBVIOUS
<1>1. pc = "idle" /\ SceneTypeOK /\ IInv /\ NothingLoaded
  BY DEF SceneInv, OtherUse
<1>2. StorageNext /\ UNCHANGED <<pc, at, mesh, offset, indexSize, arrays, drawables>>
  BY DEF OtherUse, sceneVars
<1>3. IInv'
  BY <1>1, <1>2, NextInv
<1>4. SceneTypeOK'
  BY <1>1, <1>2, <1>3 DEF IInv, Sound, SceneTypeOK, Cells
<1> QED
  BY <1>1, <1>2, <1>3, <1>4 DEF SceneInv, NothingLoaded

LEMMA IdleKeeps == SceneInv /\ UNCHANGED <<storageVars, sceneVars>> => SceneInv'
<1> SUFFICES ASSUME SceneInv, UNCHANGED <<storageVars, sceneVars>> PROVE SceneInv'
  OBVIOUS
<1>1. /\ UNCHANGED <<pc, at, mesh, offset, indexSize, arrays, drawables>>
      /\ UNCHANGED <<handle, size, split, used, sections, content, blocks, fills>>
      /\ UNCHANGED storageVars
  BY DEF storageVars, accountVars, sceneVars
<1>2. CASE pc = "idle"
  <2>1. SceneTypeOK /\ IInv /\ NothingLoaded
    BY <1>2 DEF SceneInv
  <2>2. IInv'
    BY <2>1, <1>1, NextInv
  <2>3. SceneTypeOK'
    BY <2>1, <2>2, <1>1 DEF IInv, Sound, SceneTypeOK, Cells
  <2> QED
    BY <2>1, <2>2, <2>3, <1>1, <1>2 DEF SceneInv, NothingLoaded
<1>3. CASE pc # "idle"
  <2>1. Loading
    BY <1>3 DEF SceneInv
  <2>2. Sound'
    BY <2>1, <1>1, SoundSame DEF Loading
  <2>3. SceneTypeOK'
    BY <2>1, <2>2, <1>1 DEF Loading, Sound, SceneTypeOK, Cells
  <2>4. ReadyTo' = ReadyTo /\ WorkedAt' = WorkedAt
    BY <1>1 DEF ReadyTo, WorkedAt
  <2>5. Accounts'
    BY <2>1, <2>4, <1>1 DEF Loading, Accounts
  <2>6. \A x : Verts(x)' = Verts(x) /\ Inds(x)' = Inds(x)
    BY <1>1 DEF Verts, Inds
  <2>7. Progress'
    BY <2>1, <2>6, <1>1 DEF Loading, Progress
  <2>8. ArraysInv'
    BY <2>1, <2>4, <2>6, <1>1 DEF Loading, ArraysInv, EndsAtTail
  <2>9. /\ \A x, y : HasVertices(x, y) => HasVertices(x, y)'
        /\ \A x : HasIndices(x) => HasIndices(x)'
    BY <2>6, <1>1 DEF HasVertices, HasIndices
  <2>10. DrawablesInv'
    BY <2>1, <2>4, <2>6, <2>9, <1>1 DEF Loading, DrawablesInv
  <2> QED
    BY <2>2, <2>3, <2>5, <2>7, <2>8, <2>10, <1>1, <1>3 DEF SceneInv, Loading
<1> QED
  BY <1>2, <1>3

LEMMA SceneStarts == SceneInit => SceneInv
<1> SUFFICES ASSUME SceneInit PROVE SceneInv
  OBVIOUS
<1>1. IInv /\ pc = "idle"
  BY InitInv DEF SceneInit
<1>2. NoDrawable \in DrawableDesc /\ NoArray \in [live : BOOLEAN, offset : Nat, count : Nat]
  BY DEF NoDrawable, DrawableDesc, NoArray
<1>3. 0 \in Cells /\ 0 \in 0 .. Len(Drawn) + 1
  BY AddIsACell, DrawnSets
<1>4. SceneTypeOK
  BY <1>1, <1>2, <1>3 DEF SceneInit, SceneTypeOK, IInv, Sound
<1> QED
  BY <1>1, <1>4 DEF SceneInv, SceneInit, NothingLoaded

LEMMA SceneSteps == SceneInv /\ [SceneNext]_<<storageVars, sceneVars>> => SceneInv'
<1> SUFFICES ASSUME SceneInv, [SceneNext]_<<storageVars, sceneVars>> PROVE SceneInv'
  OBVIOUS
<1>1. ASSUME NEW meshes \in Meshes, MakeSceneBuffer(meshes) PROVE SceneInv'
  BY <1>1, MakeSceneBufferKeeps
<1>2. CASE GenerateVertexArray
  BY <1>2, GenerateVertexArrayKeeps
<1>3. CASE GenerateNothing
  BY <1>3, GenerateNothingKeeps
<1>4. CASE StoreVertices
  BY <1>4, StoreVerticesKeeps
<1>5. CASE StoreIndices
  BY <1>5, StoreIndicesKeeps
<1>6. CASE OtherUse
  BY <1>6, OtherUseKeeps
<1>7. CASE UNCHANGED <<storageVars, sceneVars>>
  BY <1>7, IdleKeeps
<1> QED
  BY <1>1, <1>2, <1>3, <1>4, <1>5, <1>6, <1>7 DEF SceneNext

\* Whatever the meshes are, the account of the scene stays true while it is loaded.
THEOREM SceneStaysSound == SceneSpec => []SceneInv
  BY SceneStarts, SceneSteps, PTL DEF SceneSpec

\* The state of the loading keeps its types; offsets, counts and first vertices
\* are cells of a buffer that is not wider than 32 bits.
THEOREM SceneTypeCorrect == SceneSpec => []SceneTypeOK
<1>1. SceneInv => SceneTypeOK
  BY DEF SceneInv, Loading
<1> QED
  BY <1>1, SceneStaysSound, PTL

\* What a3demo_loadGeometry counted for each mesh is what it stores, whichever
\* meshes there are and in whatever formats: nothing that exists is left out for
\* want of room, and no room is left over.
THEOREM SceneFits == SceneSpec => []SceneFitsExactly
<1>1. ASSUME SceneInv, pc = "loaded" PROVE used = split
  <2>1. Loading /\ ReadyTo = Len(Drawn) + 1 /\ at = Len(Drawn) + 1
    BY <1>1 DEF SceneInv, Loading, Progress, ReadyTo
  <2>2. used[0] = split[0] /\ used[1] = split[1]
    BY <2>1, BeforeSets DEF Loading, Accounts
  <2>3. used \in [Sections -> Cells] /\ split \in [Sections -> Cells] /\ Sections = {0, 1}
    BY <2>1 DEF Loading, Sound, StorageTypeOK, Sections
  <2> QED
    BY <2>2, <2>3
<1>2. ASSUME SceneInv, pc = "loaded", NEW d \in Names
      PROVE  drawables[d].live <=> Verts(d) > 0
  <2>1. PICK i \in DOMAIN Drawn : d = Drawn[i]
    BY DrawnSets
  <2>2. Loading /\ at = Len(Drawn) + 1
    BY <1>2 DEF SceneInv, Loading, Progress
  <2>3. i < Len(Drawn) + 1
    BY DrawnSets
  <2> QED
    BY <2>1, <2>2, <2>3 DEF Loading, Progress
<1>3. SceneInv => SceneFitsExactly
  BY <1>1, <1>2 DEF SceneFitsExactly
<1> QED
  BY <1>3, SceneStaysSound, PTL

\* The data of a mesh that is stored stays where it is.
THEOREM SceneDataKept == SceneSpec => []DataIsKept
<1>1. SceneInv => DataIsKept
  BY SoundKeeps DEF SceneInv, Loading, IInv
<1> QED
  BY <1>1, SceneStaysSound, PTL

\* Loading the scene uses the buffer as a store of blocks, too.
THEOREM SceneImplements == SceneSpec => ImplementsBlockStore
<1>1. SceneInit => Blocks!Init
  BY DEF SceneInit, StorageInit, Blocks!Init
<1>2. SceneInv /\ SceneInv' /\ [SceneNext]_<<storageVars, sceneVars>> => [Blocks!Next]_Held
  <2>w. Sound' => Blocks!WellPlaced(Held)'
    BY HeldWellPlaced, PTL
  <2> SUFFICES ASSUME SceneInv, SceneInv', [SceneNext]_<<storageVars, sceneVars>>
               PROVE  [Blocks!Next]_Held
    OBVIOUS
  <2>1. Blocks!WellPlaced(Held)'
    BY <2>w DEF SceneInv, Loading, IInv
  <2>2. ASSUME blocks \subseteq blocks' PROVE Blocks!Next
    <3>1. Held \subseteq Held'
      BY <2>2 DEF Held
    <3> QED
      BY <3>1, <2>1 DEF Blocks!Next, Blocks!Store, Held
  <2>3. ASSUME NEW meshes \in Meshes, MakeSceneBuffer(meshes) PROVE blocks \subseteq blocks'
    BY <2>3 DEF MakeSceneBuffer, CreateSplit
  <2>4. ASSUME GenerateVertexArray \/ GenerateNothing PROVE blocks \subseteq blocks'
    BY <2>4 DEF GenerateVertexArray, GenerateNothing, storageVars, accountVars
  <2>5. ASSUME StoreVertices PROVE blocks \subseteq blocks'
    BY <2>5 DEF StoreVertices, Fill, Told
  <2>6. ASSUME StoreIndices PROVE blocks \subseteq blocks'
    <3>1. UNCHANGED storageVars \/ Fill(1, IndexStorage(indexSize, Inds(Drawn[at])))
      BY <2>6 DEF StoreIndices
    <3> QED
      BY <3>1 DEF Fill, Told, storageVars, accountVars
  <2>7. CASE OtherUse
    <3>1. IInv /\ StorageNext
      BY <2>7 DEF SceneInv, OtherUse
    <3>2. IInv'
      BY <3>1, NextInv
    <3> QED
      BY <3>1, <3>2, StepImplements
  <2>8. CASE UNCHANGED <<storageVars, sceneVars>>
    BY <2>8 DEF storageVars, accountVars, Held
  <2> QED
    BY <2>2, <2>3, <2>4, <2>5, <2>6, <2>7, <2>8 DEF SceneNext
<1> QED
  BY <1>1, <1>2, SceneStaysSound, PTL DEF SceneSpec, ImplementsBlockStore, Blocks!Spec, Held

------------------------------------------------------------------------------
(* The scene: what is drawn.                                                 *)

\* Byte r of the k-th vertex is found again by division.
LEMMA DivMod ==
  ASSUME NEW V \in Nat \ {0}, NEW k \in Nat, NEW r \in 0 .. (V - 1)
  PROVE  (k * V + r) % V = r /\ (k * V + r) \div V = k
<1> DEFINE x == k * V + r
           q == x \div V
           m == x % V
<1>1. x \in Nat
  OBVIOUS
<1> HIDE DEF x
<1>2. q \in Int /\ m \in 0 .. (V - 1) /\ x = V * q + m
  BY <1>1
<1> HIDE DEF q, m
<1>3. k * V + r = V * q + m
  BY <1>2 DEF x
<1>4. q <= k
  <2> SUFFICES ASSUME q >= k + 1 PROVE FALSE
    BY <1>2
  <2>1. V * q >= V * (k + 1)
    BY <1>2
  <2>2. V * (k + 1) = k * V + V
    OBVIOUS
  <2> QED
    BY <2>1, <2>2, <1>2, <1>3
<1>5. k <= q
  <2> SUFFICES ASSUME q + 1 <= k PROVE FALSE
    BY <1>2
  <2>1. V * (q + 1) <= V * k
    BY <1>2
  <2>2. V * (q + 1) = V * q + V /\ V * k = k * V
    BY <1>2
  <2> QED
    BY <2>1, <2>2, <1>2, <1>3
<1>6. q = k
  BY <1>2, <1>4, <1>5
<1>7. m = r
  BY <1>2, <1>3, <1>6
<1> QED
  BY <1>6, <1>7 DEF x, q, m

\* In a vertex the attributes lie behind each other, in the order of their names,
\* and inside the vertex.
LEMMA AttributesApart ==
  ASSUME NEW a \in Arrays, NEW n \in AttribNames
  PROVE  /\ AttribOffset(a, n) \in Nat /\ AttribSize(a, n) \in Nat
         /\ AttribOffset(a, n) + AttribSize(a, n) <= VertexSize(a)
         /\ \A m \in AttribNames :
              n < m => AttribOffset(a, n) + AttribSize(a, n) <= AttribOffset(a, m)
<1> DEFINE f == AttribSizes(a)
           Below(m) == {k \in AttribNames : k < m}
<1>1. AttribNames \in SUBSET Nat /\ IsFiniteSet(AttribNames)
  BY SceneConstants
<1>2. \A k \in AttribNames : f[k] \in Nat /\ f[k] = AttribSize(a, k)
  BY AttribSizeType DEF AttribSizes
<1>3. /\ VertexSize(a) = SumOver(f, AttribNames)
      /\ \A m : AttribOffset(a, m) = SumOver(f, Below(m))
  BY TotalIsSum DEF VertexSize, AttribOffset
<1> HIDE DEF f
<1>4. \A m : Below(m) \in SUBSET AttribNames /\ IsFiniteSet(Below(m))
  BY <1>1, FS_Subset
<1>5. \A m : SumOver(f, Below(m)) \in Nat
  BY <1>2, <1>4, SumType
<1>6. SumOver(f, Below(n) \union {n}) = f[n] + SumOver(f, Below(n))
  <2>1. n \notin Below(n)
    BY <1>1
  <2>2. \A y \in Below(n) \union {n} : f[y] \in Int
    BY <1>2
  <2> HIDE DEF Below
  <2> QED
    BY <2>1, <2>2, <1>4, SumAdd
<1>7. SumOver(f, Below(n) \union {n}) <= SumOver(f, AttribNames)
  <2>1. Below(n) \union {n} \in SUBSET AttribNames
    OBVIOUS
  <2> QED
    BY <2>1, <1>1, <1>2, SumPart
<1>8. ASSUME NEW m \in AttribNames, n < m
      PROVE  SumOver(f, Below(n) \union {n}) <= SumOver(f, Below(m))
  <2>0. \A k \in AttribNames : k < n => k < m
    <3>1. n \in Nat /\ m \in Nat /\ \A k \in AttribNames : k \in Nat
      BY <1>1
    <3> QED
      BY <3>1, <1>8
  <2>1. Below(n) \union {n} \in SUBSET Below(m)
    BY <2>0, <1>8
  <2>2. \A y \in Below(m) : f[y] \in Nat
    BY <1>2
  <2> HIDE DEF Below
  <2> QED
    BY <2>1, <2>2, <1>4, SumPart
<1>9. SumOver(f, AttribNames) \in Nat /\ SumOver(f, Below(n)) \in Nat
  BY <1>1, <1>2, <1>5, SumType
<1> HIDE DEF Below
<1>10. f[n] + SumOver(f, Below(n)) = AttribOffset(a, n) + AttribSize(a, n)
  BY <1>2, <1>3, <1>9
<1> QED
  BY <1>2, <1>3, <1>6, <1>7, <1>8, <1>9, <1>10

\* A byte of the block belongs to the attribute in whose range it is, of the
\* vertex in whose range it is.
LEMMA InterleavedByte ==
  ASSUME NEW a \in Arrays, NEW n \in AttribNames, NEW k \in Nat, NEW r \in Nat,
         AttribOffset(a, n) <= r, r < AttribOffset(a, n) + AttribSize(a, n)
  PROVE  Interleaved(a, k * VertexSize(a) + r) = <<n, k>>
<1> DEFINE V == VertexSize(a)
<1>1. /\ AttribOffset(a, n) \in Nat /\ AttribSize(a, n) \in Nat /\ V \in Nat
      /\ AttribOffset(a, n) + AttribSize(a, n) <= V
  BY AttributesApart, VertexSizeType
<1> HIDE DEF V
<1>2. V \in Nat \ {0} /\ r \in 0 .. (V - 1)
  BY <1>1
<1>3. (k * V + r) % V = r /\ (k * V + r) \div V = k
  BY <1>2, DivMod
<1>4. ASSUME NEW m \in AttribNames, AttribOffset(a, m) <= r,
             r < AttribOffset(a, m) + AttribSize(a, m)
      PROVE  m = n
  <2>1. /\ AttribOffset(a, m) \in Nat /\ AttribSize(a, m) \in Nat /\ m \in Nat /\ n \in Nat
    BY AttributesApart, SceneConstants
  <2>2. ~(m < n)
    <3>1. m < n => AttribOffset(a, m) + AttribSize(a, m) <= AttribOffset(a, n)
      BY AttributesApart
    <3> QED
      BY <3>1, <2>1, <1>1, <1>4
  <2>3. ~(n < m)
    <3>1. n < m => AttribOffset(a, n) + AttribSize(a, n) <= AttribOffset(a, m)
      BY AttributesApart
    <3> QED
      BY <3>1, <2>1, <1>1, <1>4
  <2> QED
    BY <2>1, <2>2, <2>3
<1> DEFINE found == CHOOSE m \in AttribNames : /\ AttribOffset(a, m) <= r
                                               /\ r < AttribOffset(a, m) + AttribSize(a, m)
<1>5. found = n
  BY <1>4
<1>6. Interleaved(a, k * V + r) = <<found, (k * V + r) \div V>>
  BY <1>3 DEF Interleaved, V
<1> HIDE DEF found
<1> QED
  BY <1>3, <1>5, <1>6 DEF V

\* What of a drawable that is live is in the buffer.
LEMMA LiveHas ==
  ASSUME SceneInv, NEW d \in Names, drawables[d].live, NEW a, a = ArrayOf[d]
  PROVE  /\ Loading /\ a \in Arrays /\ Verts(d) \in Nat \ {0} /\ Inds(d) \in Nat
         /\ HasVertices(d, a) /\ HasIndices(d)
         /\ drawables[d].base \in Nat /\ drawables[d].base + Verts(d) <= IndexRange[indexSize]
         /\ arrays[a].offset \in Nat
<1>1. PICK i \in DOMAIN Drawn : d = Drawn[i]
  BY DrawnSets
<1>2. Loading
  <2>1. CASE pc = "idle"
    BY <2>1 DEF SceneInv, NothingLoaded, NoDrawable
  <2> QED
    BY <2>1 DEF SceneInv
<1>3. i < at /\ Verts(d) > 0 /\ i \in Nat /\ at \in Nat
  <2>1. i \in Nat
    BY DrawnSets
  <2> QED
    BY <2>1, <1>1, <1>2, SceneNumbers DEF Loading, Progress
<1>4. i < ReadyTo
  BY <1>3 DEF ReadyTo
<1>5. HasVertices(d, a) /\ HasIndices(d)
  BY <1>1, <1>2, <1>3, <1>4 DEF Loading, DrawablesInv
<1>6. a \in Arrays /\ mesh \in Meshes /\ indexSize = IndexFormat(mesh) /\ indexSize \in {1, 2, 4}
  BY <1>2, DrawnSets, SceneNumbers DEF Loading, Progress
<1>7. Verts(d) \in Nat /\ Inds(d) \in Nat
  BY <1>1, <1>6, OnlyLastMissing
<1>8. drawables[d].base \in Nat /\ arrays[a].offset \in Nat /\ arrays[a].count \in Nat
  <2>1. drawables[d] \in DrawableDesc /\ arrays[a] \in [live : BOOLEAN, offset : Nat, count : Nat]
    BY <1>2, <1>6 DEF Loading, SceneTypeOK
  <2> QED
    BY <2>1 DEF DrawableDesc
<1>9. drawables[d].base + Verts(d) <= IndexRange[indexSize]
  <2> DEFINE some == Total(VertexCounts(mesh), Before(ReadyTo))
             all  == Total(VertexCounts(mesh), Names)
  <2>1. \A x \in Names : VertexCounts(mesh)[x] \in Nat
    BY <1>6, ScenesSizes
  <2>2. some \in Nat /\ all \in Nat /\ some <= all
    BY <2>1, BeforeSets, PartialTotals
  <2>3. arrays[a].count <= some
    BY <1>2, <1>6 DEF Loading, ArraysInv
  <2>4. all <= IndexRange[indexSize] /\ IndexRange[indexSize] \in Nat
    BY <1>6, IndexFormatNumbersAll, SceneConstants
  <2> HIDE DEF some, all
  <2>5. drawables[d].base + Verts(d) <= arrays[a].count
    BY <1>5 DEF HasVertices
  <2> QED
    BY <2>2, <2>3, <2>4, <2>5, <1>7, <1>8
<1> QED
  BY <1>2, <1>3, <1>5, <1>6, <1>7, <1>8, <1>9

\* The vertices drawn are those from its base on, as many as the mesh has.
LEMMA VerticesReadAre ==
  ASSUME SceneInv, NEW d \in Names, drawables[d].live
  PROVE  /\ VerticesRead(d) = drawables[d].base .. (drawables[d].base + Verts(d) - 1)
         /\ Cardinality(VerticesRead(d)) = Verts(d)
<1> DEFINE base == drawables[d].base
           v    == Verts(d)
           range == IndexRange[indexSize]
<1>1. /\ Verts(d) \in Nat \ {0} /\ HasVertices(d, ArrayOf[d]) /\ HasIndices(d)
      /\ base \in Nat /\ base + Verts(d) <= range /\ Loading
  BY LiveHas
<1>2. range \in Nat \ {0}
  BY <1>1, SceneNumbers, SceneConstants
<1>3. drawables[d].verts = v
  BY <1>1 DEF HasVertices
<1>4. v \in Nat \ {0} /\ base \in Nat /\ base + v <= range
  BY <1>1
<1>5. VerticesRead(d) = base .. (base + v - 1)
  <2>1. CASE drawables[d].indexed
    <3>1. VerticesRead(d) = {(x + base) % range : x \in 0 .. (v - 1)}
      BY <2>1, <1>3 DEF VerticesRead, StoredIndex
    <3> HIDE DEF base, v, range
    <3>2. \A x \in 0 .. (v - 1) : (x + base) % range = x + base
      BY <1>2, <1>4
    <3>3. VerticesRead(d) = {x + base : x \in 0 .. (v - 1)}
      BY <3>1, <3>2
    <3>4. \A y \in base .. (base + v - 1) : y - base \in 0 .. (v - 1) /\ (y - base) + base = y
      BY <1>4
    <3>5. \A x \in 0 .. (v - 1) : x + base \in base .. (base + v - 1)
      BY <1>4
    <3> QED
      BY <3>3, <3>4, <3>5
  <2>2. CASE ~drawables[d].indexed
    <3>1. drawables[d].first = base /\ drawables[d].count = v
      BY <2>2, <1>1 DEF HasIndices
    <3> QED
      BY <3>1, <2>2 DEF VerticesRead
  <2> QED
    BY <2>1, <2>2
<1> HIDE DEF base, v, range
<1>6. Cardinality(base .. (base + v - 1)) = v
  <2>1. base \in Int /\ base + v - 1 \in Int /\ ~(base > base + v - 1)
        /\ (base + v - 1) - base + 1 = v
    BY <1>4
  <2> QED
    BY <2>1, FS_Interval
<1> QED
  BY <1>5, <1>6 DEF base, v

\* Vertex k of the mesh, of v vertices with V bytes, lies inside the mesh's data.
LEMMA VertexInside ==
  ASSUME NEW V \in Nat, NEW v \in Nat, NEW k \in 0 .. (v - 1), NEW base \in Nat
  PROVE  /\ k * V \in Nat /\ base * V \in Nat /\ v * V \in Nat
         /\ k * V + V <= v * V /\ (base + k) * V = base * V + k * V
<1>1. k * V \in Nat /\ base * V \in Nat /\ v * V \in Nat
  OBVIOUS
<1>2. (base + k) * V = base * V + k * V
  OBVIOUS
<1>3. (k + 1) * V <= v * V
  <2>1. k + 1 \in Nat /\ v - (k + 1) \in Nat
    OBVIOUS
  <2>2. (v - (k + 1)) * V \in Nat
    BY <2>1
  <2>3. v * V = (k + 1) * V + (v - (k + 1)) * V
    OBVIOUS
  <2>4. (k + 1) * V \in Nat
    BY <2>1
  <2> QED
    BY <2>2, <2>3, <2>4, <1>1
<1>4. (k + 1) * V = k * V + V
  OBVIOUS
<1> QED
  BY <1>1, <1>2, <1>3, <1>4

\* Each attribute of each vertex drawn is found in the drawable's own block.
LEMMA AttributesAreOwn ==
  ASSUME SceneInv, NEW d \in Names, drawables[d].live, NEW a, a = ArrayOf[d],
         NEW own, own = CHOOSE b \in blocks : b.id = drawables[d].id,
         NEW x \in VerticesRead(d), NEW n \in AttribNames, AttribSize(a, n) > 0,
         NEW first, first = arrays[a].offset + x * VertexSize(a) - own.start + AttribOffset(a, n)
  PROVE  /\ first >= 0
         /\ own.start + first + AttribSize(a, n) <= own.end
         /\ \A byte \in first .. (first + AttribSize(a, n) - 1) :
              Interleaved(a, byte) = <<n, x - drawables[d].base>>
<1> DEFINE base == drawables[d].base
           v == Verts(d)
           V == VertexSize(a)
           o == arrays[a].offset
           off == AttribOffset(a, n)
           size_n == AttribSize(a, n)
           k == x - base
<1>1. /\ a \in Arrays /\ Loading /\ Verts(d) \in Nat \ {0} /\ HasVertices(d, a)
      /\ base \in Nat /\ o \in Nat
  BY LiveHas
<1>2. x \in base .. (base + v - 1)
  BY VerticesReadAre
<1>3. V \in Nat
  BY <1>1, VertexSizeType
<1>4. off \in Nat /\ size_n \in Nat /\ off + size_n <= V /\ size_n > 0
  BY <1>1, AttributesApart
<1>5. own.start = o + base * V /\ own.end = own.start + V * v
  <2>1. PICK b \in blocks : /\ b.id = drawables[d].id
                            /\ b.start = o + base * V
                            /\ b.end = b.start + V * v
    BY <1>1 DEF HasVertices
  <2>2. \A c \in blocks : c.id = drawables[d].id => c = b
    BY <2>1, <1>1 DEF Loading, Sound, Numbered
  <2>3. own = b
    BY <2>1, <2>2
  <2> QED
    BY <2>1, <2>3
<1>6. v \in Nat
  BY <1>1
<1>7. first = o + x * V - own.start + off
  OBVIOUS
<1> HIDE DEF v, V, o, off, size_n
<1>8. k \in 0 .. (v - 1) /\ x = base + k /\ k \in Nat
  BY <1>1, <1>2, <1>6
<1> HIDE DEF k, base
<1>9. /\ k * V \in Nat /\ base * V \in Nat /\ v * V \in Nat
      /\ k * V + V <= v * V /\ x * V = base * V + k * V /\ V * v = v * V
  BY <1>1, <1>3, <1>6, <1>8, VertexInside
<1> DEFINE kV == k * V
           bV == base * V
           vV == v * V
           xV == x * V
<1>10. /\ kV \in Nat /\ bV \in Nat /\ vV \in Nat /\ kV + V <= vV /\ xV = bV + kV
       /\ own.start = o + bV /\ own.end = own.start + vV /\ first = o + xV - own.start + off
  BY <1>5, <1>7, <1>9
<1> HIDE DEF kV, bV, vV, xV
<1>11. /\ first = kV + off /\ first >= 0 /\ own.start + first + size_n <= own.end
  BY <1>1, <1>3, <1>4, <1>10
<1>12. ASSUME NEW byte \in first .. (first + size_n - 1)
       PROVE  Interleaved(a, byte) = <<n, k>>
  <2>1. byte \in Int /\ byte - kV \in Nat /\ off <= byte - kV /\ byte - kV < off + size_n
        /\ kV + (byte - kV) = byte
    BY <1>4, <1>10, <1>11
  <2> DEFINE r == byte - kV
  <2> HIDE DEF r
  <2>2. r \in Nat /\ off <= r /\ r < off + size_n /\ k * V + r = byte
    BY <2>1 DEF r, kV
  <2>3. Interleaved(a, k * V + r) = <<n, k>>
    BY <2>2, <1>1, <1>8, InterleavedByte DEF off, size_n, V
  <2> QED
    BY <2>2, <2>3
<1> QED
  BY <1>11, <1>12 DEF size_n, k, base

LEMMA VerticesOwn == SceneInv => VerticesAreOwn
<1> SUFFICES ASSUME SceneInv, NEW d \in {n \in Names : drawables[n].live}
             PROVE  LET a     == ArrayOf[d]
                        own   == CHOOSE b \in blocks : b.id = drawables[d].id
                        vertexAt(x) == arrays[a].offset + x * VertexSize(a) - own.start
                    IN /\ Cardinality(VerticesRead(d)) = Verts(d)
                       /\ \A x \in VerticesRead(d) : \A n \in AttribNames : AttribSize(a, n) > 0 =>
                            LET first == vertexAt(x) + AttribOffset(a, n)
                            IN /\ first >= 0
                               /\ own.start + first + AttribSize(a, n) <= own.end
                               /\ \A byte \in first .. (first + AttribSize(a, n) - 1) :
                                    Interleaved(a, byte) = <<n, x - drawables[d].base>>
  BY DEF VerticesAreOwn
<1> DEFINE a   == ArrayOf[d]
           own == CHOOSE b \in blocks : b.id = drawables[d].id
           First(x, n) == arrays[a].offset + x * VertexSize(a) - own.start + AttribOffset(a, n)
<1>1. Cardinality(VerticesRead(d)) = Verts(d)
  BY VerticesReadAre
<1>2. ASSUME NEW x \in VerticesRead(d), NEW n \in AttribNames, AttribSize(a, n) > 0
      PROVE  /\ First(x, n) >= 0
             /\ own.start + First(x, n) + AttribSize(a, n) <= own.end
             /\ \A byte \in First(x, n) .. (First(x, n) + AttribSize(a, n) - 1) :
                  Interleaved(a, byte) = <<n, x - drawables[d].base>>
  BY <1>2, AttributesAreOwn
<1> QED
  BY <1>1, <1>2

LEMMA IndicesOwn == SceneInv => IndicesAreOwn
<1> SUFFICES ASSUME SceneInv, NEW d \in DOMAIN drawables, drawables[d].live, drawables[d].indexed
             PROVE  \E b \in blocks : /\ b.section = 1 /\ b.id = drawables[d].id + 1
                                      /\ Base(1) <= b.start /\ b.start = drawables[d].first
                                      /\ drawables[d].first + indexSize * drawables[d].count
                                           <= b.end
  BY DEF IndicesAreOwn
<1>0. d \in Names \/ d = "dummy"
  <2>1. SceneTypeOK
    BY DEF SceneInv, Loading
  <2> QED
    BY <2>1 DEF SceneTypeOK
<1>1. ASSUME NEW c \in Names, drawables[c].live, drawables[c].indexed
      PROVE  \E b \in blocks : /\ b.section = 1 /\ b.id = drawables[c].id + 1
                               /\ Base(1) <= b.start /\ b.start = drawables[c].first
                               /\ b.start \in Nat /\ b.end \in Nat
                               /\ drawables[c].first + indexSize * Inds(c) <= b.end
                               /\ drawables[c].count = Inds(c) /\ Inds(c) \in Nat \ {0}
                               /\ indexSize \in {1, 2, 4}
  <2>1. Loading /\ HasIndices(c) /\ Inds(c) \in Nat
    BY <1>1, LiveHas
  <2>2. Inds(c) # 0 /\ drawables[c].count = Inds(c) /\ indexSize \in {1, 2, 4}
    BY <2>1, <1>1, SceneNumbers DEF HasIndices
  <2>3. PICK b \in blocks : /\ b.section = 1 /\ b.id = drawables[c].id + 1
                            /\ b.start = drawables[c].first
                            /\ b.end = b.start + IndexStorage(indexSize, Inds(c))
    BY <2>1, <2>2 DEF HasIndices
  <2>4. Base(1) <= b.start /\ b.start \in Nat /\ b.end \in Nat
    BY <2>1, <2>3 DEF Loading, Sound, Placed, StorageTypeOK, Block
  <2>5. IndexStorage(indexSize, Inds(c)) \in Nat
        /\ indexSize * Inds(c) <= IndexStorage(indexSize, Inds(c)) /\ indexSize * Inds(c) \in Nat
    <3>1. indexSize * Inds(c) \in Nat
      BY <2>1, <2>2
    <3> QED
      BY <3>1, Words DEF IndexStorage
  <2>6. drawables[c].first + indexSize * Inds(c) <= b.end
    BY <2>3, <2>4, <2>5
  <2> QED
    BY <2>1, <2>2, <2>3, <2>4, <2>6
<1>2. CASE d \in Names
  BY <1>1, <1>2
<1>3. CASE d = "dummy"
  <2> DEFINE c == Drawn[1]
  <2>1. Loading
    <3>1. CASE pc = "idle"
      BY <3>1, <1>3 DEF SceneInv, NothingLoaded, NoDrawable
    <3> QED
      BY <3>1 DEF SceneInv
  <2>2. c \in Names
    BY DrawnSets
  <2>3. drawables["dummy"] = [drawables[c] EXCEPT !.count = 1]
    BY <2>1, <1>3 DEF Loading, DrawablesInv, NoDrawable
  <2>4. drawables[c] \in DrawableDesc
    BY <2>1, <2>2 DEF Loading, SceneTypeOK
  <2>5. /\ drawables[c].live /\ drawables[d].indexed = drawables[c].indexed /\ drawables[d].count = 1
        /\ drawables[d].first = drawables[c].first /\ drawables[d].id = drawables[c].id
    BY <2>3, <2>4, <1>3 DEF DrawableDesc
  <2> HIDE DEF c
  <2>6. PICK b \in blocks : /\ b.section = 1 /\ b.id = drawables[c].id + 1
                            /\ Base(1) <= b.start /\ b.start = drawables[c].first
                            /\ b.start \in Nat /\ b.end \in Nat
                            /\ drawables[c].first + indexSize * Inds(c) <= b.end
                            /\ drawables[c].count = Inds(c) /\ Inds(c) \in Nat \ {0}
                            /\ indexSize \in {1, 2, 4}
    BY <2>2, <2>5, <1>1
  <2>7. indexSize * 1 <= indexSize * Inds(c) /\ indexSize * Inds(c) \in Nat /\ indexSize * 1 \in Nat
    BY <2>6
  <2> QED
    BY <2>5, <2>6, <2>7
<1> QED
  BY <1>0, <1>2, <1>3

\* Drawing reads the drawable's own vertices, each attribute in its place, and
\* its own indices, however many meshes share the buffer, the vertex array and
\* the range of the indices.
THEOREM SceneReadsOwn == SceneSpec => []DrawablesReadTheirOwnData
<1>1. SceneInv => DrawablesReadTheirOwnData
  BY VerticesOwn, IndicesOwn DEF DrawablesReadTheirOwnData
<1> QED
  BY <1>1, SceneStaysSound, PTL

=============================================================================
