# A verification development for the animal3D demo

This directory models the parts of the repository that carry its own logic in
TLA+, checks them with TLC on small instances, and proves the properties that
matter most with TLAPS. The repository is a student extension of animal3D, a
small C framework for real-time graphics. It consists of

* `animal3D` (windowing, input, timer, threads): a closed library, present here
  as headers and inline functions;
* `animal3D-A3DM`: a mathematics library, closed except for its headers;
* `animal3D-A3DG`: the graphics library, in full: reference-counted handles,
  buffers, vertex arrays, drawables, textures, framebuffers, programs, text;
* `animal3D-DemoProject`: the demo, a library that the launcher loads, calls
  through callbacks, and can rebuild and reload while it runs.

Paths below are relative to `src/animal3D-SDK/animal3D-SDK/`; `A3_DEMO/` stands
for `source/animal3D-DemoProject/A3_DEMO/`, `A3DG/` for the graphics library.

## 1. Inventory

| Component | State | Operations | What is hard | What makes it correct |
|---|---|---|---|---|
| Handles (`a3_GraphicsObjectHandle.inl`) | driver name, count, release function | create, increment, decrement, release, set release function | a count that reaches zero deletes; the name can then be given again | exact counts, one owner for a name |
| Buffers, vertex arrays, drawables | handle; pointer to the buffer; pointers to VAO and index buffer | create, reference, release | each of the three counts on behalf of others | what is held is usable, what is not is gone |
| Buffer storage (`a3_BufferObject-OpenGL.c`) | size, and split and used of two sections | create, create split, fill, fill at an offset, erase, reset, release | 32-bit sums; gaps and erased cells behind a tail; two sections in one memory | data stays where its owner was told it is |
| Vertex formats and scene geometry (`a3_VertexDescriptors.c`, `a3_VertexBuffer.c`, `a3demo_loadGeometry`) | formats, vertex arrays with a running vertex count, drawables | size, create, interleave, re-base indices | sizing and storing are two loops; an index is re-based in 1, 2 or 4 bytes; a model may be missing | each drawing reads its own mesh, the buffer is filled to the byte |
| Materials (`a3_Material.*`) | pointers to a buffer and to textures by unit, data | create, reference, release, three uploads, two activations | counts of shared parts; unusable and repeated textures; accounting is bypassed by one of the uploads | exact counts, a held material is complete |
| Shaders and programs (`a3_ShaderProgram*`) | name, count, type; linked, validated, attached shaders | create, reference, release, attach, detach, link, load, validate, activate, create self-contained | objects are released while attached or in use and deleted later; names come back | records agree with the driver, nothing is lost, linked is final |
| Framebuffers (`a3_Framebuffer*`) | the names of one or two framebuffers and their textures, which side is in front | create, reference, release, swap, activate, bind | release walks raw memory; handles and texture offsets must change sides together | nothing leaks, nothing foreign is deleted, never sample what is drawn to |
| Render pipeline (`a3_DemoState_idle-render.c`) | contents of ten framebuffers | fourteen passes, display | swaps outlive the frame; inputs depend on them | inputs and display are this frame's |
| Modes and keys (`a3_demo_callbacks.c`) | mode, sub-mode, output, pipeline, preview | eight selection keys | settings made in one mode matter in the other | the selection is always one that is rendered |
| Light volumes (`a3_DemoState_idle-update.c`) | count, blocks, count in each block | two keys, upload, draw | counts change between uploads; unsigned steps of four | a frame draws the count |
| Curve editor and follower | waypoints, handles, lengths, speeds, spline types, follower clock and index | place, delete, drag, five keys, update | indices off by one between place and delete; stale index of the follower | accounting agrees with what is drawn; the follower gets on |
| Mutex (`a3_Thread.inl`) | the owner's thread id | lock, unlock | no atomic operation | exclusion, progress |
| Load, unload, hot-build | release functions, address of the state, driver objects | load, unload, refresh, reload shaders, resize | the code and the block of memory are replaced under live objects | no call into old code, nothing left behind |
| Input (`a3_KeyboardInput.inl`, `a3_MouseInput.inl`) | this and the last update's keys and buttons | set, update, reset | events outside the window, without the focus or during a hot-build are never reported | what is down in the demo is down at the device |
| Text renderer (`a3_TextRenderer*`) | display lists of four fonts | initialise, release | made and released by a key, loads and unloads; may be refused | lists exist exactly while it is initialised |
| Textures, threads and timer, scene objects | see `PROJECT.json` | | | partly modelled, each with its reason |
| Atlas, launcher, mathematics, GLSL, vendored kits | | | | not modelled: parsing, closed, numeric, or not this program's |

**How they interact.** Everything but the mutex runs on one thread: the
launcher's message loop calls the callbacks of `a3_demo_callbacks.c` one at a
time. Keys and mouse messages change the demo state, and an idle call whose
timer has ticked runs update, input and render in this order. Render reads what
update and the keys left; it is passed a `const` state and yet swaps double
framebuffers, so a frame depends on those before it. Geometry objects call each
other's release, and so do materials. Buffers are filled by the scene, by
materials and by the updates, each of which keeps offsets that the buffer told
it. The launcher can unload the library between two calls and load a rebuilt one.

The hazards that follow from this are listed, each at its line, in
`PROJECT.json` under `hazards`, with the properties that watch them. Where the
hazard is something the code does run into, or an assumption keeps it out, no
property is named and a note says what the model does there; section 3 lists
those that are disagreements.

## 2. Modules

| Module | Models | State and actions |
|---|---|---|
| `GraphicsHandles` | handles of buffers, VAOs, drawables | one function for each field of the three structures, `held` (who has yet to release), the driver's names; one action for each create, reference and release |
| `ResourceLifetime` | what counting promises | held, uses, exists; existence is reachability from what is held |
| `BufferStorage` | the accounting of one buffer | the fields of `a3_BufferObject`, the driver's memory (`content`: which fill wrote each cell) and what callers were told (`blocks`); one action for each operation of the buffer and the demo's reset of `used` |
| `BlockStore` | what a buffer promises | the cells handed out: disjoint, inside, never moved |
| `Materials` | EXTENDS `BufferStorage`: two materials on one buffer | who holds buffer and textures, the driver's units; one action for each function of `a3_Material` and for the application's own references |
| `SceneGeometry` | EXTENDS `BufferStorage`: `a3demo_loadGeometry` | vertex formats as operators; creating the buffer, then for each drawable its vertex array, vertices and indices, each of which may fail |
| `ShaderPrograms` | shaders and programs, and the driver's deferred deletion | descriptors, the driver's tables, the program in use; one action for each function |
| `Framebuffers` | `a3_Framebuffer.c`, its OpenGL half and inline half | each structure as its sequence of 32-bit words from the handle on; create, double create, reference, release, swap |
| `DemoModes` | keys that select what is shown | one action for each key |
| `LightVolumes` | EXTENDS `DemoModes`: counts, upload, draw | keys between idles, `Update`, `Render` |
| `RenderPipeline` | EXTENDS `DemoModes`: one frame, pass by pass | `BeginFrame`, `RunPass(p)`, `DisplayFrame`, `EndFrame`; keys and `Resize` between frames |
| `CurveEditor` | curve mode | one action for each mouse message and key, `UpdateCurve` for an idle tick |
| `SpinMutex` | `a3mutexLock`, `a3mutexUnlock` | the stored id and one program counter for each thread; one action for each access to the id |
| `DemoLifecycle` | load, unload, hot-build | one action for each callback |
| `DemoCallbacks` | EXTENDS `DemoLifecycle`: input events and text while the demo comes and goes | the device's keys and button beside the demo's picture of them, the text's display lists; one action for each event, `Load`, `Unload` and the hot pair |
| `MC...` | instances | constants and symmetry for `GraphicsHandles`, `CurveEditor`, `SpinMutex`, `Materials`, `SceneGeometry`, `ShaderPrograms`, `Framebuffers` |
| `Sums` | theorems | about sums of a function over a finite set |
| `..._proofs` | theorems | about `GraphicsHandles`; `BufferStorage`, `Materials` and `SceneGeometry`; `ShaderPrograms`; `SpinMutex`; `DemoModes`, `RenderPipeline` and `LightVolumes`; `DemoLifecycle`, `DemoCallbacks` and `CurveEditor`; `Framebuffers` |

How they are composed: `Materials` and `SceneGeometry` drive the operations of
`BufferStorage`, `LightVolumes` and `RenderPipeline` run between the keys of
`DemoModes`, and `DemoCallbacks` interleaves input and text with
`DemoLifecycle`, which it is proved to implement.

Conventions. An operation whose guard fails returns a code and changes nothing,
so it is no step. Operators marked *Slip* are plausible mistakes; they are used
nowhere in a specification, and `PROJECT.json` pairs each with the property it
breaks, which is how we know that each property depends on the code.

### What the models abstract

* **Numbers.** Lengths, times and positions in `CurveEditor` are small integers
  and two points; what a segment measures is given by two constant operators of
  which only arguments and zeros matter. Rounding is left out. The unsigned
  wraps that the code can reach are kept (`MouseMove`), and `LightsTypeOK` says
  that the other unsigned counter never wraps. `BufferStorage` adds modulo
  `Width`, with the assumption that what callers ask for adds up to less:
  the code compares the sums without a test.
* **Data.** A cell of a buffer holds the number of the fill that wrote it; what
  an interleaved vertex holds is computed byte by byte, as attribute and vertex.
  Data that is null (a material without data) erases, as the header of
  `a3bufferFillOffset` says.
* **Drawing.** A framebuffer's content is the pass that drew it.
* **The driver** gives an unused name. In `Framebuffers` the names that a
  creation gets are those that `NewNames` offers, of which only that they are
  unused is assumed; the run's instance offers the smallest ones, or none, so
  that deleted names are reused at once. A shader or program that is
  deleted while attached or in use goes with its last use, and a program that is
  not linked is not used, as the OpenGL specification has it.
* **Undefined behaviour.** A data race in `SpinMutex` is a choice between builds
  that read the integer at each place and builds that merge the reads. A write
  through the wrapped index in `MouseMove` either lands at the end of the
  preceding array (32-bit) or ends the process. A remainder by zero traps.
* **External parts** (the driver, the window system, the closed library's index
  format, the callers of the mutex) are marked so in the map.

## 3. Runs

Passing runs, with their sizes on the instance given in the `.cfg`:

| Run | Distinct states | Bounds | Why they are enough |
|---|---|---|---|
| `handles` | 151 323 (up to symmetry; 605 204 up to that of clients and drawables) | 2 clients, 2 buffers, 2 VAOs, 2 drawables, 2 names of each kind | two holders, two dependants and a shared index buffer give every way in which counts can be shared; with two names a name is reused as soon as it is free. No definition chooses among the permuted model values, so the symmetry is sound, for the refinement too, which has no liveness part |
| `curve_editor` | 1 295 360 | 3 waypoints, 2 points, speed 1, `TimeCap` 9 | three waypoints are two segments and one index past them; the greatest time that matters is `FullTime` times the greatest total, 8, so the cap hides no transition |
| `mutex` | 3 352 | 3 threads, both builds, termination | a claim, a waiting claim and an unlock at once |
| `light_volumes` | 1 076 400 | 2 blocks of 8, steps of 4 | counts of every kind: none, half a block, a block, a block and a half, all |
| `render_pipeline` | 1 720 320 | none but the display toggles left out | every setting and selection, any number of frames |
| `framebuffers` | 185 657 | a single and a double framebuffer, 2 colour targets, 2 references, both builds, `MaxLost` 1 | the layout with unused slots before the depth slot, a neighbour to hit, and a creation after one that failed |
| `demo_lifecycle` | 1 337 280 | 2 addresses, 3 loadings, 2 keys and a button | a hot-build to the same and to another address, and a cold load after an unload, with a second key to be unaffected by the first |
| `materials` | 1 871 790 (up to symmetry) | 2 materials with up to 2 references, 2 textures, 2 units, a buffer of 2 cells, uploads of 1 and 2, 2 fills | a list that names a texture twice, one that names a null and one that is gone; the buffer full after one upload or two |
| `scene_geometry` | 51 582 | the demo's ten drawables and four vertex formats, two mesh sizes, the model file there or not; before it, a buffer of up to 8 cells with 3 fills | the formats and the order are the demo's own; `IndexRange` is scaled down (8, 16 and 64 values for 1, 2 and 4 bytes) so that more than one index width occurs with meshes of one or two vertices |
| `shader_programs` | 81 526 (up to symmetry) | 2 shaders, 2 programs, 3 types, 5 names, 2 references | a shader in both programs and two types in one, with the names of deleted objects used again; no definition chooses among the permuted names, shaders or programs |

What they show:

* **Counting is right.** Each count is the number of outstanding references;
  what is held is usable; the driver holds exactly what is named; when all is
  released nothing is left, in any order, which is what the unload callback
  relies on when it does not release in reverse. `ImplementsLifetime` says the
  same with no count in sight.
* **The pipeline samples what it means to.** Through swaps, the display's extra
  swap for the horizontal blurs, pipeline changes and resizes, each pass reads
  what its sources drew in this frame, and the screen shows the selected pass.
  The comment `DO NOT 'BREAK'!` is load-bearing: a mutant that breaks shows the
  vertical blur twice.
* **Selection stays valid** within mode 0, and the chosen output is one that
  the pass has.
* **Light counts** never wrap, and a frame draws exactly the count.
* **Framebuffer release** is exact in 32-bit builds, and for double framebuffers
  in 64-bit ones; no structure ever names another's object.
* **Curve accounting**: what is measured follows the waypoints through placing
  and deleting (`MeasuresFollowWaypoints`), the follower stays in the arrays
  though its index is never corrected, and it finishes the segment it is on
  if that one exists and has a length.
* **The mutex** loses exclusion, but not itself: the stored id is always that of
  a thread that will still unlock.
* **Storage**: whatever is filled, at an offset or behind the tail, in vertices
  or indices, data that somebody still counts on is not written over
  (`DataIsKept`), and in the scene every drawing goes through the vertices of
  its own mesh and no others, in every vertex array and with every index width;
  a missing model costs its own drawable only. Sizing and storing agree to the
  byte (`SceneFitsExactly`).
* **Materials**: the counts of buffer and textures are exact though materials,
  application and repeated units share them, and an active material that is held
  has all its textures bound.
* **Programs**: what a program has on record as attached is what the driver has
  attached, no shader or program is lost track of in any order of release,
  and a linked program stays as it is.
* **The demo and its window**: hot-building calls no function of an unloaded
  library, and a key is never stuck in the demo but where its release fell into
  a hot-build, which the demo has no way to learn of.

### Disagreements between code and documents

Two are runs with `expect: violation` and entries in `findings`, each checking
one sentence of the source that the code does not keep:

* `mutex_exclusion`: two threads hold the mutex at once (`a3_Thread.inl:48`);
* `lifecycle_move`: after a hot load the state's interior pointers lead into the
  freed block.

Others were met on the way. The models contain them, because they follow the
code, and no property is stated that they would break:

* `a3_DemoState_idle-update.c:291`: on a deleted segment of length zero the
  follower stops for ever, since every comparison with 0/0 is false; so
  `FollowerFinishesSegment` speaks of segments with a length.
* `a3_demo_callbacks.c:524`: in curve mode, the initial one, the four cycling
  keys take a remainder by zero (`DivideByZero`).
* `a3_Framebuffer-OpenGL.c:43`: in a 64-bit build the release of a single
  framebuffer stops one word short of its depth texture (`numHandles`).
* `a3_BufferObject-OpenGL.c:212`: a fill at an offset starts that far behind the
  section's tail, though `a3_BufferObject.h` (line 131) calls the offset the
  "start point in specified section". `BufferStorage` counts from the tail, and
  `DataIsKept` rests on it: counted from the section's start, a fill would write
  over what is stored there.
* `a3_Material.inl:37`: "Re-upload material data" (`a3_Material.h`) appends
  behind the tail, until there is no room left.
* `a3_ShaderProgram-OpenGL.c:456`: activating a program returns 1 also when it
  is not linked, and then the driver keeps the one in use.
* `a3_ShaderProgram-OpenGL.c:231`: the record keeps a shader's name in 16 bits
  (`a3i16 shadersAttached[6]`); the model assumes names below 2^16.
* `a3_ShaderProgram.inl:124`: a self-contained program without its vertex shader
  is reported as failed and stays created.
* `a3_demo_callbacks.c:823`: a drag with no waypoint left indexes with an
  unsigned -1 (`MouseMove`; "if left is down, placing waypoint", line 813).
* `a3_DemoState_idle-update.c:296`: after a deletion the only segment is not the
  whole of the stored total, though the comment says that its share is 1.
* `a3_DemoState_idle-render.c:371`: the list shows one segment that is deleted
  already.
* `a3_demo_callbacks.c:703`: the last Catmull-Rom segment is measured with
  another control point than it is drawn with.
* `a3_Thread.inl:54`, `:66`, `:47`: a 0 from Lock need not mean "owner"; an
  Unlock can clear another's lock; with merged reads the wait never ends.
* `a3_demo_callbacks.c:141`: changing the pipeline in curve mode leaves mode 0
  on the light volumes pass outside deferred lighting (so
  `OfferedStaysOffered` speaks of keys in mode 0).
* `a3_Framebuffer.c:139`: a double framebuffer that is reported as not created
  leaves its first half in the driver (`Lost`).
* `a3_DemoState_loading.c:847`: two of the four curve uniform buffers lie beyond
  the array that refresh, unload and the final check walk (`extraUniformBuffer`).

### Fairness

* `CurveEditor` assumes weak fairness of `UpdateCurve`: the launcher's loop
  calls idle for ever and the timer ticks. Nothing is assumed of the user.
* `SpinMutex` assumes weak fairness of every step of a call that has begun: the
  operating system runs each runnable thread. Nobody has to call Lock. With a
  thread terminated the handle can stay locked for ever, and with merged reads a
  wait can, as in the code; the liveness properties say what remains.
* The other modules state safety only.

Deadlock is checked where a client can always act (`GraphicsHandles`,
`Materials`, `ShaderPrograms`). The demo may end (`crashed`), threads may all be
terminated or hung, a scene is loaded once, loadings are bounded by `MaxLoads`
and creations by `MaxLost`, so the other configurations say `CHECK_DEADLOCK
FALSE`.

## 4. Proofs

The theorems hold for every value of the constants that satisfies the named
assumptions of the modules; TLC evaluates the assumptions in the runs. A proof
module that is about several modules has the assumptions of all of them in
scope, but those of one module never limit the constants of another: whatever
the others are, constants that satisfy them exist.

**`GraphicsHandles_proofs`.** From `HandleConstants` (finite sets of clients and
storage, disjoint kinds of storage, driver names that are not zero):

* `TypeCorrect`, `NamesOwned` are inductive by themselves or with the type.
* `CountsExact` and `HeldUsable` need each other and more. The inductive
  invariant is `TypeOK /\ CountsAreExact /\ Linked`, where `Linked` says how the
  pointers agree with who holds what: a live VAO points to a buffer, a dead one
  is held by nobody, a drawable that is held points to a VAO. Without it a
  release could decrement a count on behalf of a pointer that has already been
  cleared. The counts are cardinalities of sets of pairs (client, object), so a
  step that adds or removes one holder changes exactly one or two of these sets
  by one element; lemmas state this for each of the four sets, and the step
  proofs combine them with the two ways `Decrement` can go.
* `HeldUsable` follows from exact counts, since a held reference makes a count
  positive, a positive count a live handle, and by `NamesOwned` a live handle
  exists in the driver. `NothingLeaks` follows in the other direction.

**The lifetimes, in the same module.** `LifetimeImplemented` shows that the counting
implements `ResourceLifetime`, which has no count: what exists is what something
held reaches. Under the invariant above the two agree in every state
(`ExistingIsNeeded`): a live VAO has a holder or a held drawable
(`ReachedObjects`), and what exists uses only what exists (`PartsExist`). A
create and a reference then map by extending one entry of the mapped functions.
For a release the abstract step computes what is needed with the *old* uses and
then forgets those of what is gone; `ForgottenUses` shows that forgetting them
first gives the same set, and `PartsKept` that the code forgets exactly those: a
drawable that is still held keeps its pointers, as they are cleared only with the
VAO's last reference (`ReleasedDrawableLinks`).

**`BufferStorage_proofs`.** From `StorageConstants` (two sizes, an offset and a
request add up to less than `Width`). The inductive invariant adds four things
to the type: `Tails` (each tail lies in its section), `SumsFit` (no sum that a
fill makes reaches the width), `Placed` (each block lies in its section and
before its tail) and `Kept` (its cells hold its number; `Numbered`: no other
block has it). The point of `Placed` is erasing:
a fill without data moves the tail *back to where the erased cells start* only
if that is in front of the tail, so no block is ever behind one, and a fill,
which starts at the tail or past it, writes no cell of a block (`Untouched`).
`DataKept` follows at once. For `Implementation`, blocks of different numbers
cannot share a cell, as the cell would hold two numbers (`BlocksDisjoint`).

**Materials, in the same module.** From `MaterialConstants`. The counts of
`Materials` are sums: a texture is counted once for each unit of each material
that has it and once for each reference of the application. The inductive
invariant `MaterialsInv` adds to the type, and to the counts being exact, that
the active material's textures are bound (`Bound`) and that what is held points
to the buffer. Every operation changes one term of each sum, so `SumExcept`
gives the new sum; a texture list that names a texture twice is counted by
cardinality of the units that have it (`ListsByUnit`). The hard step is the last
release: it may clear the buffer only if nobody else counts on it, which is
what an exact count of one says. The storage actions come from `BufferStorage`
and keep their type whatever size a material uploads (`MaterialsTypeCorrect`).

**The scene, in the same module.** From `SceneConstants`, for any drawables,
vertex formats and meshes, with two more assumptions that the code justifies.
`SceneOrder`: drawables that share a vertex array are loaded one after another
(`a3demo_loadGeometry` is one sequence, format by format), and the mesh that
may be missing is the last one (the teapot; all others are generated). It is
needed: a vertex array's vertices are found by number from where its first one
is, so nothing else may come between them, and a missing mesh shifts the running
offset by -1 for whoever comes after it. `SceneBounds`: all that is counted fits
in 32 bits, which the code takes for granted.

While the scene is loaded `SumsFit` is of no use, since what is asked of the
buffer is not a request of `BufferStorage` but the size of a mesh. The
invariant of the buffer is therefore split: `Sound` is what any fill that fits
keeps, and it is the same for both users. `SceneInv` adds, while loading,

* `Accounts`: what is used of a section is the sum over the meshes stored so
  far, and its size the sum over all, so there is room for the one at hand
  (`VerticesFit`, `IndicesFit`); the sums are over the same padded sizes, and
  vertex sizes are multiples of four, so that their padding is none (`Words`);
* `Progress`: a mesh stored so far is live if it exists, and so is its array;
* `ArraysInv`: the vertex array in work ends at the tail of the section, and no
  array counts more vertices than are stored;
* `DrawablesInv`: each drawable's vertices are in a block that starts where the
  array has its first one, and its indices in the block filled next.

`SceneFits` is `Accounts` when everything is stored. For `SceneReadsOwn`, an index
that is re-based does not wrap, because the base and the mesh's own count are no
more than what the common index format was chosen for
(`IndexFormatNumbersAll`); a vertex is inside its block by `DrawablesInv`; and
the byte found at an attribute's offset is that attribute's, because attributes
lie behind each other inside the vertex (`AttributesApart`, `InterleavedByte`).
`SceneDataKept` and `SceneImplements` follow from `Sound` as before.

**`Sums`.** A sum over a finite set is a fold, and the library's induction
theorems take an operator as a parameter, which no installed prover
instantiates. What is needed of sums is proved without them: a property of all
finite subsets of a set is put as the set of its counterexamples, and if that
is not empty a subset of smallest cardinality is in it (`SmallestSet`), from
which one element is taken away. `SumAdd` (one element more), `SumExcept` (one
value changed), `SumClosed` (sums stay in a set closed under addition),
`SumType`, `SumEqual`, `SumWithoutZeros`, `SumPart` (no part of a sum of natural
numbers is greater than it) and `SumCovers` (nor is a term) are what the proofs
of materials, the scene and the curve cite.

**`ShaderPrograms_proofs`.** The invariant relates three records of one fact: a
descriptor's `attached`, the driver's attachments, and the types of live shaders.
It says of every live program that its attachments are what is on record, one
name for each type, compute alone (`Recorded`, `RightTypes`); of every object in
the driver that it is held by one descriptor, or deleted and still in use
(`Owned`, `Waiting`); and that what is in use is linked. A release is the hard
step: a shader that is deleted while attached keeps its name on record, and the
name is given again only when no program
has it (`ShaderReleaseInv`, `ProgramGoneInv`, `DetachInv`).

**`DemoCallbacks_proofs`.** Every step is a step of `DemoLifecycle` or leaves its
variables alone (`StepRefines`), so the composition implements the lifecycle and
inherits its theorems. `NothingStaysDown` is not inductive: without the focus no
release is reported, so the invariant adds that a key still on record *there* was
missed already (deactivation resets the demo's picture unless it falls into a
hot-build), and the same for the button and the pointer, and that without a demo
nothing is on record.

**`SpinMutex_proofs`.** `StoredIdHasUnlockAhead` is inductive with the type: the
only step that stores an id moves its thread to the critical section, and a
thread can leave the last place only by clearing the handle or by finding
another id in it. That another thread clears it too early does not matter.

**`DemoModes_proofs`.** `OutputInRange` is inductive with the type: `}` and `{`
write one entry, that of the pass displayed, with a remainder by that pass's own
count. `OfferedStaysOffered` is a fact about one step, by cases on the key.

**Frames, in the same module.** `FrameInv` is about a frame that is under way.
`Ran` is the set of the passes that have run in it; what each of them has drawn
is on the page of its target that is sampled, or, if a later pass of the frame
has drawn to the same target (`Covered`), on its other page (`DrawingsAreKept`).
Every source that a pass samples is the target of a pass that has run and is not
covered, or is covered and read from the other side, so `SamplesThisFrame`
follows; `ShowsSelected` and `DisplaysAttachment` follow from the state at the
display. Keys and resizes come between frames, of which nothing is said.

**Lights, in the same module.** `LightsTypeCorrect` says that the count, which
is unsigned and moves in steps, never wraps: it stays a multiple of the step
from zero to the maximum. `DrawsTheCount` says that the blocks drawn share out
the lights below the count: all blocks before the last are full, and the last
holds the rest.

**`Framebuffers_proofs`.** From `FramebufferConstants` and `DriverConstants`, for
any number of structures, colour targets and names. A release walks
`numHandles` words from the handle on and deletes every name it finds, so each
*word* matters, not only the fields in use. The inductive invariant says that
a structure names framebuffers of the driver exactly while it is referenced
(`Handled`); that its other words are textures of the driver or zero (`Held`), of
a dead structure too, since the walk that is one word short leaves a texture
behind; that no name is in two places (`Unshared`); and what is attached to each
page of a double framebuffer (`Attached`). `NamesOwnedOnce`, `SampledNotDrawn`
and `ReleaseIsExact` follow from it.

**The curve, in `DemoCallbacks_proofs`.** From `CurveConstants`. `CurveInv`, the
type with `MeasuresFollowWaypoints` and `FollowerReadsInside`, is inductive as it
stands. Placing a waypoint measures every segment again, deleting one subtracts
a term from the stored total, which is a natural number again because a sum
covers each of its terms (`SumCovers`).

**The lifecycle, in `DemoCallbacks_proofs`.** `NoCallIntoOldLibrary` needs `FunctionsAreCurrent`:
while the demo runs, whatever its unload functions walk has release functions of
the library in memory. It may fail between a hot unload and the next load, where
nothing is released, and for the uniform buffers beyond their array, which
nothing releases. Since a create on a set handle keeps the old function, the
invariant also depends on what a reload leaves alive (`ReloadIsCurrent`).

The type invariants of `GraphicsHandles`, `SpinMutex`, `DemoModes` and
`DemoLifecycle` and `OutputInRange` are proved and no longer run by themselves.

**Only model-checked:** liveness under fairness (`FollowerFinishesSegment`,
`LockIsGivenBack`, `WaitingLetsSomeoneIn`), which with ENABLED is beyond the
prover; every invariant and action property of the passing runs is proved, as is
every refinement. A module that declares a RECURSIVE
operator cannot hold a theorem, so none does, and no induction theorem of the
library is used.

## 5. Plan

Done: handles, framebuffers, pipeline, modes, lights, curve, mutex, lifecycle;
then storage, materials, scene geometry, programs, input and text, with the
proofs listed above, the refinement of lifetimes included. What is left, in order:

1. Uniforms: what is sent to which program when. The one call out of order in
   `a3demo_render_main` (the inverse projection, sent before its program is
   activated) has no effect, as no shader declares that uniform.
2. `Framebuffers` under `DemoLifecycle`: the refresh sets release functions of
   double framebuffers on both sides.

## 6. Not modelled

The mathematics library and shaders (numeric functions without state), file
parsers for models, atlases and images, the closed launcher and its libraries,
edge queries on the input (they change nothing), the counter `attached` of a
shader (written and never read), and everything that only changes how a picture
looks. `PROJECT.json` lists each with its reason.

Most lines of the repository are not this program's: headers of third-party kits
(OpenGL loaders, networking, sound) and the declarations and inline arithmetic
of the mathematics library. The code with control of its own, the `.c` and
`.inl` files of the graphics library and the demo, is about 11 000 lines, and
what of it is not in the map is mainly pixel and vertex format tables, drawing
calls, procedural scene set-up and file reading.
