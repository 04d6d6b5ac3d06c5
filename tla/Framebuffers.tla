----------------------------- MODULE Framebuffers -----------------------------
(***************************************************************************)
(* Single and double framebuffers down to the memory that their release    *)
(* functions walk.  A framebuffer structure starts with its reference-     *)
(* counted handle, and the words that follow the handle's own are meant to *)
(* be the names of everything else it owns: the second framebuffer of a    *)
(* double one, its colour textures, its depth textures.  A release         *)
(* function gets the address of the first word and a count.  In a 64-bit   *)
(* build the handle structure ends in a word of padding (zero, as the      *)
(* structures are zeroed), which comes between.                            *)
(*                                                                         *)
(* The driver hands out names that are not in use, so that a deleted name  *)
(* may be given again, and refuses when there are none.                    *)
(***************************************************************************)
EXTENDS Integers, FiniteSets, Functions

CONSTANTS
  Singles, Doubles,     \* storage for a3_Framebuffer, a3_FramebufferDouble
  ColorMax,             \* a3fbo_colorTargetMax (16)
  Builds,               \* of "x86" and "x64"
  GLNames,              \* the driver's names
  NewNames(_, _),       \* the n names it gives when some are in use
  MaxRefs,              \* bound: references to one framebuffer
  MaxLost               \* bound: nothing is created with more textures lost than this

ASSUME FramebufferConstants ==
  /\ Singles \cap Doubles = {}
  /\ ColorMax \in Nat \ {0} /\ MaxRefs \in Nat \ {0} /\ MaxLost \in Nat
  /\ Builds \subseteq {"x86", "x64"}

ASSUME DriverConstants ==
  /\ GLNames \subseteq Nat \ {0}
  /\ \A n \in 0 .. ColorMax + 1, used \in SUBSET GLNames :
       Cardinality(GLNames \ used) >= n =>
         NewNames(n, used) \in [1 .. n -> GLNames \ used] /\ IsInjective(NewNames(n, used))

Framebuffers == Singles \cup Doubles

VARIABLES
  build,
  words,         \* the words of each structure from the handle's own on
  refs,          \* the handle's refCount
  color,         \* the number of colour targets
  frontColor,    \* offset of the colour textures of the front page
  glFbos,        \* the driver's framebuffers: name -> textures attached to it
  glTextures     \* the driver's textures

vars == <<build, words, refs, color, frontColor, glFbos, glTextures>>

------------------------------------------------------------------------------
(* Memory layout: positions in the words of a structure.                    *)

Extra == IF build = "x64" THEN 3 ELSE 2        \* the first word after the handle
HandleDouble == Extra

Textures0(f)  == IF f \in Singles THEN Extra ELSE Extra + 1
Pages(f)      == IF f \in Singles THEN {0} ELSE {0, 1}
ColorAt(f, i) == Textures0(f) + i
DepthAt(f, i) == Textures0(f) + ColorMax * Cardinality(Pages(f)) + i
Size(f)       == DepthAt(f, Cardinality(Pages(f)) - 1)

\* Slip: only the colour textures are counted besides the framebuffer.
numHandlesNoDepth(f) == (1 + ColorMax) * Cardinality(Pages(f))

numHandles(f) == (2 + ColorMax) * Cardinality(Pages(f))

Zeroes(n) == [i \in 1 .. n |-> 0]

Live(f) == words[f][1] # 0

------------------------------------------------------------------------------
(* The driver.                                                              *)

\* What one a3framebufferInternalCreate adds: the framebuffer's name and its n
\* textures, colours first; nothing when the driver gives no name.
NewFbo(ok, n, usedFbos, usedTextures) ==
  IF ok /\ Cardinality(GLNames \ usedFbos) >= 1 /\ Cardinality(GLNames \ usedTextures) >= n
  THEN [handle |-> NewNames(1, usedFbos)[1], textures |-> NewNames(n, usedTextures)]
  ELSE [handle |-> 0, textures |-> <<>>]

\* The driver after it has made the given framebuffers.
AddToDriver(news) ==
  LET made == {x \in news : x.handle # 0}
  IN /\ glFbos' = [name \in DOMAIN glFbos \cup {x.handle : x \in made} |->
                     IF name \in DOMAIN glFbos THEN glFbos[name]
                     ELSE Range((CHOOSE x \in made : x.handle = name).textures)]
     /\ glTextures' = glTextures \cup UNION {Range(x.textures) : x \in made}

RemoveFromDriver(fbos, textures) ==
  /\ glFbos' = [name \in DOMAIN glFbos \ fbos |-> glFbos[name] \ textures]
  /\ glTextures' = glTextures \ textures

Owned(f) == {words[f][i] : i \in Textures0(f) .. Size(f)} \ {0}

\* Textures of the driver that no structure names any longer.
Lost == glTextures \ UNION {Owned(f) : f \in Framebuffers}

------------------------------------------------------------------------------
Init ==
  /\ build \in Builds
  /\ words = [f \in Framebuffers |-> Zeroes(Size(f))]
  /\ refs = [f \in Framebuffers |-> 0]
  /\ color = [f \in Framebuffers |-> 0]
  /\ frontColor = [f \in Framebuffers |-> 0]
  /\ glFbos = [x \in {} |-> {}]
  /\ glTextures = {}

\* Store what was made for page p of f: k colours and a depth texture if any.
Stored(w, f, p, k, new) ==
  [i \in DOMAIN w |->
     CASE \E t \in 0 .. k - 1 : i = ColorAt(f, p * ColorMax + t) ->
            new.textures[i - ColorAt(f, p * ColorMax) + 1]
       [] i = DepthAt(f, p) /\ k + 1 \in DOMAIN new.textures -> new.textures[k + 1]
       [] OTHER -> w[i]]

\* The format: k colour targets, and d = 1 with a depth texture; neither is refused.
Create(f, k, d, ok) ==
  LET new == NewFbo(ok, k + d, DOMAIN glFbos, glTextures)
  IN /\ ~Live(f) /\ k + d > 0 /\ Cardinality(Lost) <= MaxLost
     /\ AddToDriver({new})
     /\ IF new.handle # 0
        THEN /\ words' = [words EXCEPT ![f] =
                            [Stored(Zeroes(Size(f)), f, 0, k, new) EXCEPT ![1] = new.handle]]
             /\ refs' = [refs EXCEPT ![f] = 1]
             /\ color' = [color EXCEPT ![f] = k]
        ELSE UNCHANGED <<words, refs, color>>
     /\ UNCHANGED <<build, frontColor>>

\* Two framebuffers; the structure is filled only when the driver gave both.
DoubleCreate(f, k, d, backOk, frontOk) ==
  LET back  == NewFbo(backOk, k + d, DOMAIN glFbos, glTextures)
      front == NewFbo(frontOk, k + d, DOMAIN glFbos \cup ({back.handle} \ {0}),
                      glTextures \cup Range(back.textures))
      filled == Stored(Stored(Zeroes(Size(f)), f, 0, k, back), f, 1, k, front)
  IN /\ ~Live(f) /\ k + d > 0 /\ Cardinality(Lost) <= MaxLost
     /\ AddToDriver({back, front})
     /\ IF back.handle # 0 /\ front.handle # 0
        THEN /\ words' = [words EXCEPT ![f] =
                   [filled EXCEPT ![1] = back.handle, ![HandleDouble] = front.handle]]
             /\ refs' = [refs EXCEPT ![f] = 1]
             /\ color' = [color EXCEPT ![f] = k]
             /\ frontColor' = [frontColor EXCEPT ![f] = ColorMax]
        ELSE UNCHANGED <<words, refs, color, frontColor>>
     /\ UNCHANGED build

\* a3framebufferReference and a3framebufferDoubleReference.
Reference(f) ==
  /\ Live(f) /\ refs[f] < MaxRefs
  /\ refs' = [refs EXCEPT ![f] = @ + 1]
  /\ UNCHANGED <<build, words, color, frontColor, glFbos, glTextures>>

\* The release functions: the words they delete as framebuffers, and the first
\* word of the textures; the count of words they are given includes the former.
FboWords(f) == IF f \in Singles THEN {1} ELSE {1, HandleDouble}

TextureWords(f) ==
  LET first == IF f \in Singles THEN 2 ELSE HandleDouble + 1
      count == numHandles(f) - Cardinality(FboWords(f))
  IN first .. (first + count - 1)

Release(f) ==
  /\ Live(f)
  /\ refs' = [refs EXCEPT ![f] = @ - 1]
  /\ IF refs[f] > 1
     THEN UNCHANGED <<words, color, frontColor, glFbos, glTextures>>
     ELSE /\ RemoveFromDriver({words[f][i] : i \in FboWords(f)},
                              {words[f][i] : i \in TextureWords(f)} \ {0})
          /\ words' = [words EXCEPT ![f] =
                         [i \in DOMAIN @ |-> IF i \in FboWords(f) \cup TextureWords(f)
                                             THEN 0 ELSE @[i]]]
          /\ color' = [color EXCEPT ![f] = 0]
          /\ frontColor' = [frontColor EXCEPT ![f] = 0]
  /\ UNCHANGED build

\* Slips: the offset does not move; it moves one way only.
SameSide(offset) == offset
SideAfter(offset) == offset + ColorMax

OtherSide(offset) == ColorMax - offset

\* Slip: an exchange without the temporary.
ExchangedInPlace(w) == [w EXCEPT ![1] = w[HandleDouble]]

Exchanged(w) == [w EXCEPT ![1] = w[HandleDouble], ![HandleDouble] = w[1]]

Swap(f) ==
  /\ Live(f)
  /\ words' = [words EXCEPT ![f] = Exchanged(@)]
  /\ frontColor' = [frontColor EXCEPT ![f] = OtherSide(@)]
  /\ UNCHANGED <<build, refs, color, glFbos, glTextures>>

Next ==
  \/ \E f \in Singles, k \in 0 .. ColorMax, d \in {0, 1}, ok \in BOOLEAN : Create(f, k, d, ok)
  \/ \E f \in Doubles, k \in 0 .. ColorMax, d \in {0, 1}, b, r \in BOOLEAN :
       DoubleCreate(f, k, d, b, r)
  \/ \E f \in Framebuffers : Reference(f) \/ Release(f)
  \/ \E f \in Doubles : Swap(f)

Spec == Init /\ [][Next]_vars

------------------------------------------------------------------------------
(* Properties.                                                              *)

TypeOK ==
  /\ build \in Builds
  /\ DOMAIN words = Framebuffers
  /\ \A f \in Framebuffers : words[f] \in [1 .. Size(f) -> GLNames \cup {0}]
  /\ refs \in [Framebuffers -> 0 .. MaxRefs]
  /\ color \in [Framebuffers -> 0 .. ColorMax]
  /\ frontColor \in [Framebuffers -> {0, ColorMax}]
  /\ glTextures \subseteq GLNames /\ DOMAIN glFbos \subseteq GLNames
  /\ \A name \in DOMAIN glFbos : glFbos[name] \subseteq glTextures

FboPositions(f) == IF f \in Singles THEN {1} ELSE {1, HandleDouble}

\* Every name in a live structure is that of an object the driver has, and no
\* other place in any live structure holds the same name: no release, swap or
\* refused creation takes away or shares what another framebuffer draws to.
LiveNamesAreOwnedOnce ==
  \A f \in Framebuffers : Live(f) =>
    /\ {words[f][i] : i \in FboPositions(f)} \subseteq DOMAIN glFbos
    /\ Owned(f) \subseteq glTextures
    /\ \A g \in Framebuffers : \A i \in 1 .. Size(f), j \in 1 .. Size(g) :
         /\ words[f][i] # 0 /\ words[f][i] = words[g][j]
         /\ i \in FboPositions(f) <=> j \in FboPositions(g)
         => f = g /\ i = j

\* The last release deletes what the structure owns and nothing else, whichever
\* page is in front and whatever lies between the names: the word counts, the
\* padding and the two release functions agree.  Excepted is the single
\* framebuffer of a 64-bit build: only its double sister's function skips the
\* padding, and it leaves its depth texture in the driver.
LastReleaseIsExact ==
  [][\A f \in Framebuffers :
       Live(f) /\ ~Live(f)' /\ (f \in Doubles \/ build = "x86") =>
         /\ glTextures' = glTextures \ Owned(f)
         /\ DOMAIN glFbos' = DOMAIN glFbos \ {words[f][i] : i \in FboPositions(f)}]_vars

\* What is sampled from a double framebuffer are the textures of the page that
\* is not drawn to, after any number of swaps: the handles and the texture
\* offsets always change sides together (a3framebufferDoubleSwap).
SampledPageIsNotDrawn ==
  \A f \in Doubles : Live(f) =>
    LET sampled == {words[f][ColorAt(f, frontColor[f] + t)] : t \in 0 .. color[f] - 1}
    IN /\ sampled \subseteq glFbos[words[f][HandleDouble]]
       /\ sampled \cap glFbos[words[f][1]] = {}

==============================================================================
