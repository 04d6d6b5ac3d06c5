-------------------------- MODULE Framebuffers_proofs --------------------------
(***************************************************************************)
(* No framebuffer ever names what belongs to another, for any number of    *)
(* framebuffers, any number of colour targets and either build.            *)
(*                                                                         *)
(* LiveNamesAreOwnedOnce speaks of live structures only and is not         *)
(* inductive: a creation starts from zeroed words, but a release must      *)
(* leave nothing behind that a later name could equal.  IInv says of every *)
(* structure, dead ones included, what its words can be.                   *)
(***************************************************************************)
EXTENDS Framebuffers, FiniteSetTheorems, TLAPS

------------------------------------------------------------------------------
(* Memory layout.                                                           *)

\* Where things lie, without cardinalities.
Layout ==
  /\ Extra \in {2, 3}
  /\ build = "x86" => Extra = 2
  /\ \A f \in Singles : /\ Textures0(f) = Extra /\ Size(f) = Extra + ColorMax
                        /\ DepthAt(f, 0) = Extra + ColorMax
                        /\ FboPositions(f) = {1} /\ FboWords(f) = {1}
                        /\ TextureWords(f) = 2 .. (ColorMax + 2)
  /\ \A f \in Doubles : /\ f \notin Singles
                        /\ Textures0(f) = Extra + 1 /\ Size(f) = Extra + 2 * ColorMax + 2
                        /\ \A p \in {0, 1} : DepthAt(f, p) = Extra + 1 + 2 * ColorMax + p
                        /\ FboPositions(f) = {1, Extra} /\ FboWords(f) = {1, Extra}
                        /\ TextureWords(f) = (Extra + 1) .. (Extra + 2 * ColorMax + 2)

\* A framebuffer has one page or two.
LEMMA PageCounts ==
  /\ \A f \in Singles : Cardinality(Pages(f)) = 1
  /\ \A f \in Doubles : f \notin Singles /\ Cardinality(Pages(f)) = 2
<1>1. Cardinality({0}) = 1
  BY FS_Singleton
<1>2. Cardinality({0, 1}) = 2
  <2>1. {0} \cup {1} = {0, 1} /\ IsFiniteSet({0}) /\ 1 \notin {0}
    BY FS_Singleton
  <2> QED
    BY <1>1, <2>1, FS_AddElement
<1>3. \A f \in Doubles : f \notin Singles
  BY FramebufferConstants
<1> QED
  BY <1>1, <1>2, <1>3 DEF Pages

\* The layout is what the structures and the release functions make it.
LEMMA LayoutHolds == Layout
<1>1. ColorMax \in Nat \ {0}
  BY FramebufferConstants
<1>2. Extra \in {2, 3} /\ (build = "x86" => Extra = 2)
  BY DEF Extra
<1>3. ASSUME NEW f \in Singles
      PROVE  /\ Textures0(f) = Extra /\ Size(f) = Extra + ColorMax
             /\ DepthAt(f, 0) = Extra + ColorMax
             /\ FboPositions(f) = {1} /\ FboWords(f) = {1}
             /\ TextureWords(f) = 2 .. (ColorMax + 2)
  <2>1. Cardinality(Pages(f)) = 1
    BY PageCounts
  <2>2. Cardinality({1}) = 1
    BY FS_Singleton
  <2>3. /\ Textures0(f) = Extra /\ Size(f) = Extra + ColorMax
        /\ DepthAt(f, 0) = Extra + ColorMax
    BY <1>1, <1>2, <2>1 DEF Textures0, Size, DepthAt
  <2>4. FboWords(f) = {1} /\ FboPositions(f) = {1}
    BY DEF FboWords, FboPositions
  <2>5. TextureWords(f) = 2 .. (ColorMax + 2)
    BY <1>1, <2>1, <2>2, <2>4 DEF TextureWords, numHandles
  <2> QED
    BY <2>3, <2>4, <2>5
<1>4. ASSUME NEW f \in Doubles
      PROVE  /\ f \notin Singles
             /\ Textures0(f) = Extra + 1 /\ Size(f) = Extra + 2 * ColorMax + 2
             /\ \A p \in {0, 1} : DepthAt(f, p) = Extra + 1 + 2 * ColorMax + p
             /\ FboPositions(f) = {1, Extra} /\ FboWords(f) = {1, Extra}
             /\ TextureWords(f) = (Extra + 1) .. (Extra + 2 * ColorMax + 2)
  <2>1. f \notin Singles /\ Cardinality(Pages(f)) = 2
    BY PageCounts
  <2>2. Cardinality({1, Extra}) = 2
    <3>1. {1} \cup {Extra} = {1, Extra} /\ Extra \notin {1}
      BY <1>2
    <3>2. Cardinality({1}) = 1 /\ IsFiniteSet({1})
      BY FS_Singleton
    <3>3. Cardinality({1} \cup {Extra}) = Cardinality({1}) + 1
      BY <3>1, <3>2, FS_AddElement
    <3> QED
      BY <3>1, <3>2, <3>3
  <2>3. /\ Textures0(f) = Extra + 1 /\ Size(f) = Extra + 2 * ColorMax + 2
        /\ \A p \in {0, 1} : DepthAt(f, p) = Extra + 1 + 2 * ColorMax + p
    BY <1>1, <1>2, <2>1 DEF Textures0, Size, DepthAt
  <2>4. FboWords(f) = {1, Extra} /\ FboPositions(f) = {1, Extra}
    BY <2>1 DEF FboWords, FboPositions, HandleDouble
  <2>5. TextureWords(f) = (Extra + 1) .. (Extra + 2 * ColorMax + 2)
    BY <1>1, <1>2, <2>1, <2>2, <2>4 DEF TextureWords, numHandles, HandleDouble
  <2> QED
    BY <2>1, <2>3, <2>4, <2>5
<1> QED
  BY <1>2, <1>3, <1>4 DEF Layout

\* No step changes the build, and with it the layout.
LEMMA LayoutKept ==
  ASSUME build' = build
  PROVE  /\ Extra' = Extra /\ HandleDouble' = HandleDouble
         /\ \A f : /\ Textures0(f)' = Textures0(f) /\ Size(f)' = Size(f)
                   /\ FboPositions(f)' = FboPositions(f)
         /\ \A f, i : ColorAt(f, i)' = ColorAt(f, i) /\ DepthAt(f, i)' = DepthAt(f, i)
BY DEF Extra, HandleDouble, Textures0, Size, DepthAt, ColorAt, FboPositions, Pages

------------------------------------------------------------------------------
(* The inductive invariant.                                                  *)

TexturePlaces(f) == Textures0(f) .. Size(f)

\* A structure that is referenced names framebuffers of the driver, one that is
\* not names none.
Handled ==
  \A f \in Framebuffers : \A i \in FboPositions(f) :
    IF refs[f] > 0 THEN words[f][i] \in DOMAIN glFbos ELSE words[f][i] = 0

\* The other words are textures of the driver or nothing, also in a structure
\* that is dead, and the padding is zero.
Held ==
  \A f \in Framebuffers : \A i \in 1 .. Size(f) :
    IF i \in TexturePlaces(f) THEN words[f][i] \in glTextures \cup {0}
                              ELSE i \in FboPositions(f) \/ words[f][i] = 0

\* No name is in two places that are meant for names of its kind.
Unshared ==
  \A f, g \in Framebuffers : \A i \in 1 .. Size(f), j \in 1 .. Size(g) :
    /\ words[f][i] # 0 /\ words[f][i] = words[g][j]
    /\ i \in FboPositions(f) <=> j \in FboPositions(g)
    => f = g /\ i = j

\* The textures attached to the framebuffer of one page of f are those of the
\* page whose colours start at the given offset, and depth textures.
PageAttached(f, name, offset) ==
  /\ \A t \in 0 .. color[f] - 1 : words[f][ColorAt(f, offset + t)] \in glFbos[name]
  /\ \A x \in glFbos[name] :
       \/ \E t \in 0 .. ColorMax - 1 : x = words[f][ColorAt(f, offset + t)]
       \/ x \in {words[f][DepthAt(f, 0)], words[f][DepthAt(f, 1)]}

Attached ==
  \A f \in Doubles : refs[f] > 0 =>
    /\ PageAttached(f, words[f][HandleDouble], frontColor[f])
    /\ PageAttached(f, words[f][1], OtherSide(frontColor[f]))

IInv == TypeOK /\ Handled /\ Held /\ Unshared /\ Attached

\* Names are positive, so that none is taken for an empty word.
LEMMA NamesArePositive ==
  ASSUME TypeOK
  PROVE  /\ 0 \notin GLNames /\ 0 \notin DOMAIN glFbos /\ 0 \notin glTextures
         /\ DOMAIN glFbos \subseteq GLNames /\ glTextures \subseteq GLNames
BY DriverConstants DEF TypeOK

\* The first word tells whether a structure is referenced.
LEMMA LiveIsReferenced ==
  ASSUME TypeOK, Handled, NEW f \in Framebuffers
  PROVE  Live(f) <=> refs[f] > 0
<1>1. 1 \in FboPositions(f)
  BY DEF FboPositions
<1> QED
  BY <1>1, NamesArePositive DEF Handled, Live

\* Where the words of a structure are.
LEMMA PlacesOf ==
  ASSUME NEW f \in Framebuffers
  PROVE  /\ FboPositions(f) \subseteq 1 .. Size(f)
         /\ TexturePlaces(f) \subseteq 1 .. Size(f)
         /\ FboPositions(f) \cap TexturePlaces(f) = {}
         /\ Size(f) \in Nat
<1>1. ColorMax \in Nat \ {0}
  BY FramebufferConstants
<1>2. f \in Singles \/ f \in Doubles
  BY DEF Framebuffers
<1> QED
  BY <1>1, <1>2, LayoutHolds DEF Layout, TexturePlaces

\* Names that are live are the driver's, and one structure's only.
LEMMA OwnedOnce == IInv => LiveNamesAreOwnedOnce
<1> SUFFICES ASSUME IInv, NEW f \in Framebuffers, Live(f)
             PROVE  /\ {words[f][i] : i \in FboPositions(f)} \subseteq DOMAIN glFbos
                    /\ Owned(f) \subseteq glTextures
                    /\ \A g \in Framebuffers : \A i \in 1 .. Size(f), j \in 1 .. Size(g) :
                         /\ words[f][i] # 0 /\ words[f][i] = words[g][j]
                         /\ i \in FboPositions(f) <=> j \in FboPositions(g)
                         => f = g /\ i = j
  BY DEF LiveNamesAreOwnedOnce
<1>1. refs[f] > 0
  BY LiveIsReferenced DEF IInv
<1>2. {words[f][i] : i \in FboPositions(f)} \subseteq DOMAIN glFbos
  BY <1>1 DEF IInv, Handled
<1>3. Owned(f) \subseteq glTextures
  BY PlacesOf DEF IInv, Held, Owned, TexturePlaces
<1> QED
  BY <1>2, <1>3 DEF IInv, Unshared

\* The colours of the two pages of a double framebuffer are different words.
LEMMA PagesApart ==
  ASSUME NEW f \in Doubles, NEW o \in {0, ColorMax},
         NEW t \in 0 .. ColorMax - 1, NEW u \in 0 .. ColorMax - 1
  PROVE  /\ OtherSide(o) \in {0, ColorMax}
         /\ ColorAt(f, o + t) \in TexturePlaces(f)
         /\ ColorAt(f, OtherSide(o) + u) # ColorAt(f, o + t)
         /\ \A p \in {0, 1} : DepthAt(f, p) \in TexturePlaces(f) /\ DepthAt(f, p) # ColorAt(f, o + t)
<1>1. ColorMax \in Nat \ {0}
  BY FramebufferConstants
<1> QED
  BY <1>1, LayoutHolds DEF Layout, TexturePlaces, ColorAt, OtherSide

\* What is sampled from a live double framebuffer is attached to its front one
\* and not to its back one.
LEMMA SampledApart == IInv => SampledPageIsNotDrawn
<1> SUFFICES ASSUME IInv, NEW f \in Doubles, Live(f), NEW t \in 0 .. color[f] - 1
             PROVE  /\ words[f][ColorAt(f, frontColor[f] + t)] \in glFbos[words[f][HandleDouble]]
                    /\ words[f][ColorAt(f, frontColor[f] + t)] \notin glFbos[words[f][1]]
  BY DEF SampledPageIsNotDrawn
<1> DEFINE o == frontColor[f]
           x == words[f][ColorAt(f, o + t)]
<1>1. f \in Framebuffers /\ TypeOK /\ ColorMax \in Nat \ {0}
  BY FramebufferConstants DEF Framebuffers, IInv
<1>2. refs[f] > 0
  BY <1>1, LiveIsReferenced DEF IInv
<1>3. o \in {0, ColorMax} /\ t \in 0 .. ColorMax - 1
  BY <1>1 DEF TypeOK
<1>4. PageAttached(f, words[f][HandleDouble], o) /\ PageAttached(f, words[f][1], OtherSide(o))
  BY <1>2 DEF IInv, Attached
<1>5. x \in glFbos[words[f][HandleDouble]]
  BY <1>4 DEF PageAttached
<1>6. x # 0
  <2>1. words[f][HandleDouble] \in DOMAIN glFbos
    <3>1. HandleDouble \in FboPositions(f)
      BY LayoutHolds DEF Layout, HandleDouble
    <3> QED
      BY <1>1, <1>2, <3>1 DEF IInv, Handled
  <2> QED
    BY <1>1, <1>5, <2>1, NamesArePositive DEF TypeOK
<1>7. ASSUME NEW i \in TexturePlaces(f), words[f][i] = x
      PROVE  i = ColorAt(f, o + t)
  <2>1. ColorAt(f, o + t) \in TexturePlaces(f)
    BY <1>3, PagesApart
  <2> QED
    BY <1>1, <1>6, <1>7, <2>1, PlacesOf DEF IInv, Unshared
<1>8. ASSUME x \in glFbos[words[f][1]] PROVE FALSE
  <2>1. \/ \E u \in 0 .. ColorMax - 1 : x = words[f][ColorAt(f, OtherSide(o) + u)]
        \/ x \in {words[f][DepthAt(f, 0)], words[f][DepthAt(f, 1)]}
    BY <1>4, <1>8 DEF PageAttached
  <2>2. ASSUME NEW u \in 0 .. ColorMax - 1, x = words[f][ColorAt(f, OtherSide(o) + u)]
        PROVE  FALSE
    BY <1>3, <1>7, <2>2, PagesApart
  <2>3. ASSUME NEW p \in {0, 1}, x = words[f][DepthAt(f, p)] PROVE FALSE
    BY <1>3, <1>7, <2>3, PagesApart
  <2> QED
    BY <2>1, <2>2, <2>3
<1> QED
  BY <1>5, <1>8

------------------------------------------------------------------------------
(* Creation.                                                                 *)

\* The driver has what it had before, and perhaps more.
DriverGrows ==
  /\ DOMAIN glFbos \subseteq DOMAIN glFbos'
  /\ \A name \in DOMAIN glFbos : glFbos'[name] = glFbos[name]
  /\ glTextures \subseteq glTextures'

\* A driver that has more does not disturb structures that have not changed.
LEMMA GrowthIsHarmless ==
  ASSUME IInv, TypeOK', DriverGrows, UNCHANGED <<build, words, refs, color, frontColor>>
  PROVE  IInv'
<1>1. Handled'
  BY LayoutKept DEF IInv, Handled, DriverGrows
<1>2. Held'
  BY LayoutKept DEF IInv, Held, DriverGrows, TexturePlaces
<1>3. Unshared'
  BY LayoutKept DEF IInv, Unshared
<1>4. Attached'
  <2> SUFFICES ASSUME NEW f \in Doubles, refs[f] > 0
               PROVE  /\ PageAttached(f, words[f][HandleDouble], frontColor[f])'
                      /\ PageAttached(f, words[f][1], OtherSide(frontColor[f]))'
    BY DEF Attached
  <2>1. /\ words[f][1] \in DOMAIN glFbos /\ words[f][HandleDouble] \in DOMAIN glFbos
        /\ PageAttached(f, words[f][HandleDouble], frontColor[f])
        /\ PageAttached(f, words[f][1], OtherSide(frontColor[f]))
    BY LayoutHolds DEF IInv, Handled, Attached, Framebuffers, Layout, HandleDouble
  <2> QED
    BY <2>1, LayoutKept DEF DriverGrows, PageAttached, OtherSide
<1> QED
  BY <1>1, <1>2, <1>3, <1>4 DEF IInv

\* A structure filled with new names shares none of them with another structure.
LEMMA FillingSharesNothing ==
  ASSUME IInv, DriverGrows, UNCHANGED build, NEW f \in Framebuffers,
         NEW w \in [1 .. Size(f) -> GLNames \cup {0}],
         words' = [words EXCEPT ![f] = w], refs' = [refs EXCEPT ![f] = 1],
         \A i \in FboPositions(f) : w[i] \in DOMAIN glFbos' \ DOMAIN glFbos,
         0 \notin DOMAIN glFbos',
         \A i \in 1 .. Size(f) :
           IF i \in TexturePlaces(f) THEN w[i] \in (glTextures' \ glTextures) \cup {0}
                                     ELSE i \in FboPositions(f) \/ w[i] = 0,
         \A i, j \in 1 .. Size(f) :
           w[i] # 0 /\ w[i] = w[j] /\ (i \in FboPositions(f) <=> j \in FboPositions(f)) => i = j
  PROVE  Handled' /\ Held' /\ Unshared'
<1>1. words'[f] = w /\ \A g \in Framebuffers : g # f => words'[g] = words[g]
  BY DEF IInv, TypeOK
<1>2. refs'[f] = 1 /\ \A g \in Framebuffers : g # f => refs'[g] = refs[g]
  BY DEF IInv, TypeOK
<1>3. Handled'
  <2> SUFFICES ASSUME NEW g \in Framebuffers, NEW i \in FboPositions(g)
               PROVE  IF refs'[g] > 0 THEN words'[g][i] \in DOMAIN glFbos' ELSE words'[g][i] = 0
    BY LayoutKept DEF Handled
  <2>1. CASE g = f
    <3>1. refs'[g] = 1 /\ words'[g] = w
      BY <2>1, <1>1, <1>2
    <3>2. refs'[g] > 0
      BY <3>1
    <3>3. words'[g][i] = w[i]
      BY <3>1
    <3>4. w[i] \in DOMAIN glFbos' \ DOMAIN glFbos
      BY <2>1
    <3> QED
      BY <3>2, <3>3, <3>4
  <2>2. CASE g # f
    BY <2>2, <1>1, <1>2 DEF IInv, Handled, DriverGrows
  <2> QED
    BY <2>1, <2>2
<1>4. Held'
  BY <1>1, LayoutKept DEF IInv, Held, DriverGrows, TexturePlaces
<1>5. \A g \in Framebuffers : \A i \in 1 .. Size(g) :
        g # f /\ words[g][i] # 0 =>
          IF i \in FboPositions(g) THEN words[g][i] \in DOMAIN glFbos
                                   ELSE words[g][i] \in glTextures
  BY DEF IInv, Handled, Held
<1>6. ASSUME NEW g \in Framebuffers, g # f, NEW i \in 1 .. Size(f), NEW j \in 1 .. Size(g),
             w[i] # 0, w[i] = words[g][j], i \in FboPositions(f) <=> j \in FboPositions(g)
      PROVE  FALSE
  <2>1. CASE i \in FboPositions(f)
    BY <2>1, <1>5, <1>6
  <2>2. CASE i \notin FboPositions(f)
    BY <2>2, <1>5, <1>6
  <2> QED
    BY <2>1, <2>2
<1>7. Unshared'
  <2> SUFFICES ASSUME NEW g \in Framebuffers, NEW h \in Framebuffers,
                      NEW i \in 1 .. Size(g), NEW j \in 1 .. Size(h),
                      words'[g][i] # 0, words'[g][i] = words'[h][j],
                      i \in FboPositions(g) <=> j \in FboPositions(h)
               PROVE  g = h /\ i = j
    BY LayoutKept DEF Unshared
  <2>1. CASE g = f /\ h = f
    BY <2>1, <1>1
  <2>2. CASE g = f /\ h # f
    BY <2>2, <1>1, <1>6
  <2>3. CASE g # f /\ h = f
    BY <2>3, <1>1, <1>6
  <2>4. CASE g # f /\ h # f
    BY <2>4, <1>1 DEF IInv, Unshared
  <2> QED
    BY <2>1, <2>2, <2>3, <2>4
<1> QED
  BY <1>3, <1>4, <1>7

\* The other double framebuffers keep what is attached to them.
LEMMA OthersStayAttached ==
  ASSUME IInv, DriverGrows, UNCHANGED build, NEW f \in Framebuffers,
         \A g \in Framebuffers : g # f => /\ words'[g] = words[g] /\ refs'[g] = refs[g]
                                          /\ color'[g] = color[g]
                                          /\ frontColor'[g] = frontColor[g],
         f \in Doubles => /\ PageAttached(f, words[f][HandleDouble], frontColor[f])'
                          /\ PageAttached(f, words[f][1], OtherSide(frontColor[f]))'
  PROVE  Attached'
<1> SUFFICES ASSUME NEW g \in Doubles, refs'[g] > 0, g # f
             PROVE  /\ PageAttached(g, words[g][HandleDouble], frontColor[g])'
                    /\ PageAttached(g, words[g][1], OtherSide(frontColor[g]))'
  BY DEF Attached
<1>1. g \in Framebuffers /\ refs[g] > 0
  BY DEF Framebuffers
<1>2. /\ words[g][1] \in DOMAIN glFbos /\ words[g][HandleDouble] \in DOMAIN glFbos
      /\ PageAttached(g, words[g][HandleDouble], frontColor[g])
      /\ PageAttached(g, words[g][1], OtherSide(frontColor[g]))
  BY <1>1, LayoutHolds DEF IInv, Handled, Attached, Layout, HandleDouble
<1> QED
  BY <1>1, <1>2, LayoutKept DEF DriverGrows, PageAttached, OtherSide

\* What the driver answers: nothing, or a name and n textures not yet in use.
Fresh(x, n, usedFbos, usedTextures) ==
  IF x.handle = 0 THEN Range(x.textures) = {}
  ELSE /\ x.handle \in GLNames \ usedFbos
       /\ x.textures \in [1 .. n -> GLNames \ usedTextures] /\ IsInjective(x.textures)

\* The driver gives names that are not in use.
LEMMA DriverGivesFresh ==
  ASSUME NEW ok, NEW n \in 0 .. ColorMax + 1,
         NEW usedFbos \in SUBSET GLNames, NEW usedTextures \in SUBSET GLNames
  PROVE  Fresh(NewFbo(ok, n, usedFbos, usedTextures), n, usedFbos, usedTextures)
<1> DEFINE given == ok /\ Cardinality(GLNames \ usedFbos) >= 1
                       /\ Cardinality(GLNames \ usedTextures) >= n
<1>1. CASE given
  <2>1. 1 \in 0 .. ColorMax + 1
    BY FramebufferConstants
  <2>2. NewNames(1, usedFbos) \in [1 .. 1 -> GLNames \ usedFbos]
    BY <1>1, <2>1, DriverConstants
  <2>3. /\ NewNames(n, usedTextures) \in [1 .. n -> GLNames \ usedTextures]
        /\ IsInjective(NewNames(n, usedTextures))
    BY <1>1, DriverConstants
  <2> QED
    BY <1>1, <2>2, <2>3, DriverConstants DEF Fresh, NewFbo
<1>2. CASE ~given
  <2>1. Range(<<>>) = {}
    BY DEF Range
  <2> QED
    BY <1>2, <2>1 DEF Fresh, NewFbo
<1> QED
  BY <1>1, <1>2

\* Framebuffers whose names are new join those of the driver.
LEMMA DriverAfter ==
  ASSUME TypeOK, NEW news, AddToDriver(news),
         \A x \in news : x.handle # 0 => /\ x.handle \in GLNames \ DOMAIN glFbos
                                         /\ Range(x.textures) \subseteq GLNames,
         \A x, y \in news : x.handle = y.handle /\ x.handle # 0 => x = y
  PROVE  /\ DriverGrows
         /\ glTextures' \subseteq GLNames /\ DOMAIN glFbos' \subseteq GLNames
         /\ \A name \in DOMAIN glFbos' : glFbos'[name] \subseteq glTextures'
         /\ \A x \in news : x.handle # 0 =>
              /\ x.handle \in DOMAIN glFbos' \ DOMAIN glFbos
              /\ glFbos'[x.handle] = Range(x.textures)
              /\ Range(x.textures) \subseteq glTextures'
<1> DEFINE made == {x \in news : x.handle # 0}
           names == DOMAIN glFbos \cup {x.handle : x \in made}
           Maker(name) == CHOOSE x \in made : x.handle = name
<1>1. glTextures' = glTextures \cup UNION {Range(x.textures) : x \in made}
  BY DEF AddToDriver
<1>2. glFbos' = [name \in names |-> IF name \in DOMAIN glFbos THEN glFbos[name]
                                    ELSE Range(Maker(name).textures)]
  BY DEF AddToDriver
<1>3. ASSUME NEW x \in made PROVE Maker(x.handle) = x
  <2>1. \E y \in made : y.handle = x.handle
    OBVIOUS
  <2>2. Maker(x.handle) \in made /\ Maker(x.handle).handle = x.handle
    BY <2>1
  <2> QED
    BY <2>2
<1>4. ASSUME NEW x \in made
      PROVE  /\ x.handle \in names \ DOMAIN glFbos
             /\ glFbos'[x.handle] = Range(x.textures)
             /\ Range(x.textures) \subseteq glTextures'
  <2> HIDE DEF Maker
  <2> QED
    BY <1>1, <1>2, <1>3
<1>5. DriverGrows
  <2> HIDE DEF Maker
  <2> QED
    BY <1>1, <1>2 DEF DriverGrows
<1>6. glTextures' \subseteq GLNames
  BY <1>1 DEF TypeOK
<1>7. DOMAIN glFbos' = names
  <2> HIDE DEF Maker
  <2> QED
    BY <1>2
<1>8. names \subseteq GLNames
  BY DEF TypeOK
<1>9. ASSUME NEW name \in names PROVE glFbos'[name] \subseteq glTextures'
  <2>1. CASE name \in DOMAIN glFbos
    BY <2>1, <1>5 DEF DriverGrows, TypeOK
  <2>2. CASE name \notin DOMAIN glFbos
    <3>1. PICK x \in made : name = x.handle
      BY <2>2
    <3> QED
      BY <3>1, <1>4
  <2> QED
    BY <2>1, <2>2
<1> HIDE DEF names, Maker
<1> QED
  BY <1>4, <1>5, <1>6, <1>7, <1>8, <1>9

\* The words that the storing of k colours and d depth textures for page p
\* writes, and which of the textures goes where.
Written(f, p, k, d) ==
  (ColorAt(f, p * ColorMax) .. (ColorAt(f, p * ColorMax) + k - 1))
    \cup {i \in {DepthAt(f, p)} : d = 1}

TextureOf(f, p, k, i) == IF i = DepthAt(f, p) THEN k + 1 ELSE i - ColorAt(f, p * ColorMax) + 1

\* Each texture goes to one of the places for textures, and each to another.
WrittenRight(f, p, k, d) ==
  /\ Written(f, p, k, d) \subseteq TexturePlaces(f)
  /\ \A i \in Written(f, p, k, d) : TextureOf(f, p, k, i) \in 1 .. k + d
  /\ \A i, j \in Written(f, p, k, d) :
       TextureOf(f, p, k, i) = TextureOf(f, p, k, j) => i = j
  /\ \A t \in 0 .. k - 1 : /\ ColorAt(f, p * ColorMax + t) \in Written(f, p, k, d)
                           /\ TextureOf(f, p, k, ColorAt(f, p * ColorMax + t)) = t + 1
  /\ TextureOf(f, p, k, DepthAt(f, p)) = k + 1
  /\ d = 1 => DepthAt(f, p) \in Written(f, p, k, d)
  /\ f \in Doubles => Written(f, 0, k, d) \cap Written(f, 1, k, d) = {}

\* The storing of a page does that.
LEMMA PlacesWritten ==
  ASSUME NEW f \in Framebuffers, NEW p \in Pages(f), NEW k \in 0 .. ColorMax, NEW d \in {0, 1}
  PROVE  WrittenRight(f, p, k, d)
<1>1. ColorMax \in Nat \ {0} /\ 0 * ColorMax = 0 /\ 1 * ColorMax = ColorMax
  BY FramebufferConstants
<1> DEFINE b == ColorAt(f, p * ColorMax)
           e == DepthAt(f, p)
<1>2. /\ p \in {0, 1}
      /\ f \in Singles => p = 0
      /\ f \in Singles \/ f \in Doubles
  BY LayoutHolds DEF Layout, Pages, Framebuffers
<1>3. /\ b \in Nat /\ e \in Nat
      /\ Textures0(f) <= b /\ Textures0(f) \in Nat
      /\ b + ColorMax <= e /\ e <= Size(f)
      /\ Size(f) \in Nat
      /\ \A t \in 0 .. k - 1 : ColorAt(f, p * ColorMax + t) = b + t
  <2>1. CASE p = 0
    BY <1>1, <1>2, <2>1, LayoutHolds DEF Layout, ColorAt
  <2>2. CASE p = 1
    BY <1>1, <1>2, <2>2, LayoutHolds DEF Layout, ColorAt
  <2> QED
    BY <1>2, <2>1, <2>2
<1>4. ASSUME f \in Doubles PROVE Written(f, 0, k, d) \cap Written(f, 1, k, d) = {}
  BY <1>1, <1>4, LayoutHolds DEF Layout, Written, ColorAt
<1>5. Written(f, p, k, d) = (b .. (b + k - 1)) \cup {i \in {e} : d = 1}
  BY DEF Written
<1>6. \A i : TextureOf(f, p, k, i) = IF i = e THEN k + 1 ELSE i - b + 1
  BY DEF TextureOf
<1>7. TexturePlaces(f) = Textures0(f) .. Size(f)
  BY DEF TexturePlaces
<1> HIDE DEF b, e
<1>8. Written(f, p, k, d) \subseteq TexturePlaces(f)
  BY <1>1, <1>3, <1>5, <1>7
<1>9. ASSUME NEW i \in Written(f, p, k, d) PROVE TextureOf(f, p, k, i) \in 1 .. k + d
  BY <1>1, <1>3, <1>5, <1>6
<1>10. ASSUME NEW i \in Written(f, p, k, d), NEW j \in Written(f, p, k, d),
              TextureOf(f, p, k, i) = TextureOf(f, p, k, j)
       PROVE  i = j
  BY <1>1, <1>3, <1>5, <1>6, <1>10
<1>11. ASSUME NEW t \in 0 .. k - 1
       PROVE  b + t \in Written(f, p, k, d) /\ TextureOf(f, p, k, b + t) = t + 1
  BY <1>1, <1>3, <1>5, <1>6
<1>12. TextureOf(f, p, k, e) = k + 1 /\ (d = 1 => e \in Written(f, p, k, d))
  BY <1>5, <1>6
<1> QED
  BY <1>3, <1>4, <1>8, <1>9, <1>10, <1>11, <1>12 DEF WrittenRight, e

\* What storing does: the written words are the textures, the others stay.
StoredRight(w, f, p, k, d, new) ==
  /\ DOMAIN Stored(w, f, p, k, new) = 1 .. Size(f)
  /\ \A i \in Written(f, p, k, d) :
       Stored(w, f, p, k, new)[i] = new.textures[TextureOf(f, p, k, i)]
  /\ \A i \in 1 .. Size(f) \ Written(f, p, k, d) : Stored(w, f, p, k, new)[i] = w[i]

\* Storing the textures of a page does that.
LEMMA StoredWords ==
  ASSUME NEW f \in Framebuffers, NEW p \in Pages(f), NEW k \in 0 .. ColorMax, NEW d \in {0, 1},
         NEW new, DOMAIN new.textures = 1 .. k + d, NEW w, DOMAIN w = 1 .. Size(f)
  PROVE  StoredRight(w, f, p, k, d, new)
<1>1. ColorMax \in Nat \ {0} /\ 0 * ColorMax = 0 /\ 1 * ColorMax = ColorMax
  BY FramebufferConstants
<1>2. /\ p \in {0, 1} /\ Textures0(f) \in Nat /\ Size(f) \in Nat
      /\ p * ColorMax \in Nat
      /\ DepthAt(f, p) \in Nat
      /\ \A t \in 0 .. k - 1 : ColorAt(f, p * ColorMax + t) # DepthAt(f, p)
  <2>1. p \in {0, 1} /\ (f \in Singles => p = 0) /\ (f \in Singles \/ f \in Doubles)
    BY LayoutHolds DEF Layout, Pages, Framebuffers
  <2> QED
    BY <1>1, <2>1, LayoutHolds DEF Layout, ColorAt
<1>3. \A i : (\E t \in 0 .. k - 1 : i = ColorAt(f, p * ColorMax + t))
               <=> i \in ColorAt(f, p * ColorMax) .. (ColorAt(f, p * ColorMax) + k - 1)
  <2>2. \A t \in 0 .. k - 1 :
          ColorAt(f, p * ColorMax + t)
            \in ColorAt(f, p * ColorMax) .. (ColorAt(f, p * ColorMax) + k - 1)
    BY <1>1, <1>2 DEF ColorAt
  <2> SUFFICES ASSUME NEW i \in ColorAt(f, p * ColorMax) .. (ColorAt(f, p * ColorMax) + k - 1)
               PROVE  \E t \in 0 .. k - 1 : i = ColorAt(f, p * ColorMax + t)
    BY <2>2
  <2> DEFINE q == p * ColorMax
  <2>3. q \in Nat /\ ColorAt(f, q) = Textures0(f) + q
    BY <1>2 DEF ColorAt
  <2>4. i \in ColorAt(f, q) .. (ColorAt(f, q) + k - 1)
    OBVIOUS
  <2>5. i - ColorAt(f, q) \in 0 .. k - 1
        /\ ColorAt(f, q + (i - ColorAt(f, q))) = Textures0(f) + (q + (i - ColorAt(f, q)))
    <3> HIDE DEF q
    <3> QED
      BY <1>2, <2>3, <2>4 DEF ColorAt
  <2>1. /\ i - ColorAt(f, q) \in 0 .. k - 1
        /\ i = ColorAt(f, q + (i - ColorAt(f, q)))
    <3> HIDE DEF q
    <3> QED
      BY <1>2, <2>3, <2>4, <2>5
  <2> QED
    BY <2>1
<1>4. k + 1 \in DOMAIN new.textures <=> d = 1
  OBVIOUS
<1>5. Written(f, p, k, d) \subseteq 1 .. Size(f)
  BY PlacesWritten, PlacesOf DEF WrittenRight
<1>6. ASSUME NEW i \in 1 .. Size(f)
      PROVE  Stored(w, f, p, k, new)[i] =
               IF i \in Written(f, p, k, d) THEN new.textures[TextureOf(f, p, k, i)] ELSE w[i]
  <2>1. CASE \E t \in 0 .. k - 1 : i = ColorAt(f, p * ColorMax + t)
    <3>1. i \in Written(f, p, k, d) /\ i # DepthAt(f, p)
      BY <2>1, <1>2, <1>3 DEF Written
    <3> QED
      BY <2>1, <3>1 DEF Stored, TextureOf
  <2>2. CASE i = DepthAt(f, p) /\ d = 1
    <3>1. i \in Written(f, p, k, d) /\ ~ \E t \in 0 .. k - 1 : i = ColorAt(f, p * ColorMax + t)
      BY <2>2, <1>2 DEF Written
    <3> QED
      BY <2>2, <3>1, <1>4 DEF Stored, TextureOf
  <2>3. CASE /\ ~ \E t \in 0 .. k - 1 : i = ColorAt(f, p * ColorMax + t)
             /\ ~ (i = DepthAt(f, p) /\ d = 1)
    <3>1. i \notin Written(f, p, k, d)
      BY <2>3, <1>3 DEF Written
    <3> QED
      BY <2>3, <3>1, <1>4 DEF Stored
  <2> QED
    BY <2>1, <2>2, <2>3
<1> QED
  BY <1>5, <1>6 DEF StoredRight, Stored

\* A creation fills a structure with new names, or leaves all structures alone.
LEMMA CreateKeeps ==
  ASSUME IInv, NEW f \in Singles, NEW k \in 0 .. ColorMax, NEW d \in {0, 1}, NEW ok,
         Create(f, k, d, ok)
  PROVE  IInv'
<1> DEFINE new == NewFbo(ok, k + d, DOMAIN glFbos, glTextures)
           stored == Stored(Zeroes(Size(f)), f, 0, k, new)
           w == [stored EXCEPT ![1] = new.handle]
<1>1. /\ TypeOK /\ f \in Framebuffers /\ f \notin Doubles /\ k + d \in 0 .. ColorMax + 1
      /\ ColorMax \in Nat \ {0} /\ MaxRefs \in Nat \ {0}
      /\ DOMAIN glFbos \subseteq GLNames /\ glTextures \subseteq GLNames
  BY FramebufferConstants DEF Framebuffers, IInv, TypeOK
<1>2. Fresh(new, k + d, DOMAIN glFbos, glTextures)
  BY <1>1, DriverGivesFresh
<1>3. UNCHANGED build /\ UNCHANGED frontColor /\ AddToDriver({new})
  BY DEF Create
<1>4. new.handle = 0 => UNCHANGED <<words, refs, color>>
  BY DEF Create
<1>5. new.handle # 0 => /\ words' = [words EXCEPT ![f] = w]
                        /\ refs' = [refs EXCEPT ![f] = 1] /\ color' = [color EXCEPT ![f] = k]
  BY DEF Create
<1> HIDE DEF new
<1>6. /\ DriverGrows
      /\ glTextures' \subseteq GLNames /\ DOMAIN glFbos' \subseteq GLNames
      /\ \A name \in DOMAIN glFbos' : glFbos'[name] \subseteq glTextures'
      /\ new.handle # 0 => /\ new.handle \in DOMAIN glFbos' \ DOMAIN glFbos
                           /\ Range(new.textures) \subseteq glTextures'
  <2>1. \A x \in {new} : x.handle # 0 => /\ x.handle \in GLNames \ DOMAIN glFbos
                                         /\ Range(x.textures) \subseteq GLNames
    BY <1>2 DEF Fresh, Range
  <2> QED
    BY <1>1, <1>3, <2>1, DriverAfter
<1>7. CASE new.handle = 0
  <2>1. TypeOK'
    BY <1>1, <1>3, <1>4, <1>6, <1>7, LayoutKept DEF TypeOK
  <2> QED
    BY <1>3, <1>4, <1>6, <1>7, <2>1, GrowthIsHarmless
<1>8. CASE new.handle # 0
  <2>1. /\ new.textures \in [1 .. k + d -> GLNames \ glTextures] /\ IsInjective(new.textures)
        /\ new.handle \in GLNames
    BY <1>2, <1>8 DEF Fresh
  <2>2. Zeroes(Size(f)) \in [1 .. Size(f) -> {0}] /\ 0 \in Pages(f)
    BY DEF Zeroes, Pages
  <2>3. /\ DOMAIN stored = 1 .. Size(f)
        /\ \A i \in Written(f, 0, k, d) : stored[i] = new.textures[TextureOf(f, 0, k, i)]
        /\ \A i \in 1 .. Size(f) \ Written(f, 0, k, d) : stored[i] = 0
    <3>1. /\ DOMAIN Zeroes(Size(f)) = 1 .. Size(f)
          /\ \A i \in 1 .. Size(f) : Zeroes(Size(f))[i] = 0
      BY DEF Zeroes
    <3>2. /\ DOMAIN stored = 1 .. Size(f)
          /\ \A i \in Written(f, 0, k, d) : stored[i] = new.textures[TextureOf(f, 0, k, i)]
          /\ \A i \in 1 .. Size(f) \ Written(f, 0, k, d) : stored[i] = Zeroes(Size(f))[i]
      <4>1. DOMAIN new.textures = 1 .. k + d
        BY <2>1
      <4> QED
        <5>1. StoredRight(Zeroes(Size(f)), f, 0, k, d, new)
          BY <1>1, <2>2, <3>1, <4>1, StoredWords
        <5> QED
          BY <5>1 DEF StoredRight
    <3> QED
      BY <3>1, <3>2
  <2>4. /\ Written(f, 0, k, d) \subseteq TexturePlaces(f)
        /\ \A i \in Written(f, 0, k, d) : TextureOf(f, 0, k, i) \in 1 .. k + d
        /\ \A i, j \in Written(f, 0, k, d) :
             TextureOf(f, 0, k, i) = TextureOf(f, 0, k, j) => i = j
    <3>1. WrittenRight(f, 0, k, d)
      BY <1>1, <2>2, PlacesWritten
    <3> QED
      BY <3>1 DEF WrittenRight
  <2>5. FboPositions(f) = {1} /\ 1 \in 1 .. Size(f) /\ 1 \notin TexturePlaces(f)
    BY <1>1, LayoutHolds, PlacesOf DEF Layout
  <2> HIDE DEF stored
  <2>6. /\ DOMAIN w = 1 .. Size(f) /\ w[1] = new.handle
        /\ \A i \in Written(f, 0, k, d) :
             i # 1 /\ w[i] = new.textures[TextureOf(f, 0, k, i)]
        /\ \A i \in 1 .. Size(f) \ Written(f, 0, k, d) : i # 1 => w[i] = 0
        /\ w = [i \in 1 .. Size(f) |-> w[i]]
    <3>1. w = [i \in 1 .. Size(f) |-> IF i = 1 THEN new.handle ELSE stored[i]]
      BY <2>3
    <3> HIDE DEF w
    <3>2. DOMAIN w = 1 .. Size(f) /\ w[1] = new.handle /\ w = [i \in 1 .. Size(f) |-> w[i]]
      BY <2>5, <3>1
    <3>3. \A i \in Written(f, 0, k, d) : i # 1 /\ i \in 1 .. Size(f)
      BY <1>1, <2>4, <2>5, PlacesOf
    <3> QED
      BY <2>3, <3>1, <3>2, <3>3
  <2> HIDE DEF w
  <2>7. \A i \in Written(f, 0, k, d) : w[i] \in (glTextures' \ glTextures) \cap GLNames
    BY <1>6, <1>8, <2>1, <2>4, <2>6 DEF Range
  <2>8. w \in [1 .. Size(f) -> GLNames \cup {0}]
    BY <2>1, <2>6, <2>7
  <2>9. ASSUME NEW i \in 1 .. Size(f), NEW j \in 1 .. Size(f), w[i] # 0, w[i] = w[j],
               i \in FboPositions(f) <=> j \in FboPositions(f)
        PROVE  i = j
    <3>1. CASE i = 1
      BY <2>9, <3>1, <2>5
    <3>2. CASE i # 1
      <4>1. i \in Written(f, 0, k, d) /\ j \in Written(f, 0, k, d)
        BY <2>5, <2>6, <2>9, <3>2
      <4>2. TextureOf(f, 0, k, i) = TextureOf(f, 0, k, j)
        <5>1. \A a, b \in 1 .. k + d : new.textures[a] = new.textures[b] => a = b
          BY <2>1 DEF IsInjective
        <5>2. new.textures[TextureOf(f, 0, k, i)] = new.textures[TextureOf(f, 0, k, j)]
          BY <2>6, <2>9, <4>1
        <5> QED
          BY <2>4, <4>1, <5>1, <5>2
      <4> QED
        BY <2>4, <4>1, <4>2
    <3> QED
      BY <3>1, <3>2
  <2>10. \A i \in FboPositions(f) : w[i] \in DOMAIN glFbos' \ DOMAIN glFbos
    BY <1>6, <1>8, <2>5, <2>6
  <2>11. \A i \in 1 .. Size(f) :
           IF i \in TexturePlaces(f) THEN w[i] \in (glTextures' \ glTextures) \cup {0}
                                     ELSE i \in FboPositions(f) \/ w[i] = 0
    BY <2>4, <2>5, <2>6, <2>7
  <2>12. 0 \notin DOMAIN glFbos'
    BY <1>6, DriverConstants
  <2>13. Handled' /\ Held' /\ Unshared'
    BY <1>1, <1>3, <1>5, <1>6, <1>8, <2>8, <2>9, <2>10, <2>11, <2>12, FillingSharesNothing
  <2>14. \A g \in Framebuffers : g # f => /\ words'[g] = words[g] /\ refs'[g] = refs[g]
                                          /\ color'[g] = color[g]
                                          /\ frontColor'[g] = frontColor[g]
    BY <1>1, <1>3, <1>5, <1>8 DEF TypeOK
  <2>15. Attached'
    BY <1>1, <1>3, <1>6, <2>14, OthersStayAttached
  <2>16. TypeOK'
    <3>1. DOMAIN words' = Framebuffers /\ words'[f] = w
      BY <1>1, <1>5, <1>8 DEF TypeOK
    <3>2. \A g \in Framebuffers : words'[g] \in [1 .. Size(g) -> GLNames \cup {0}]
      BY <1>1, <2>8, <2>14, <3>1 DEF TypeOK
    <3>3. refs' \in [Framebuffers -> 0 .. MaxRefs] /\ color' \in [Framebuffers -> 0 .. ColorMax]
      <4>1. 1 \in 0 .. MaxRefs
        BY <1>1
      <4> QED
        BY <1>1, <1>5, <1>8, <4>1 DEF TypeOK
    <3> QED
      BY <1>1, <1>3, <1>6, <3>1, <3>2, <3>3, LayoutKept DEF TypeOK
  <2> QED
    BY <2>13, <2>15, <2>16 DEF IInv
<1> QED
  BY <1>7, <1>8

\* After the step the textures attached to a name are those of one page of f.
PageGets(f, offset, name) ==
  /\ \A t \in 0 .. color'[f] - 1 : words'[f][ColorAt(f, offset + t)] \in glFbos'[name]
  /\ \A y \in glFbos'[name] :
       \/ \E t \in 0 .. ColorMax - 1 : y = words'[f][ColorAt(f, offset + t)]
       \/ y \in {words'[f][DepthAt(f, 0)], words'[f][DepthAt(f, 1)]}

\* What was stored for a page is attached to its framebuffer.
LEMMA PageFilled ==
  ASSUME UNCHANGED build, NEW f \in Doubles, NEW p \in {0, 1}, NEW k \in 0 .. ColorMax,
         NEW d \in {0, 1}, NEW x, x.textures \in [1 .. k + d -> GLNames],
         color'[f] = k,
         \A i \in Written(f, p, k, d) : words'[f][i] = x.textures[TextureOf(f, p, k, i)],
         NEW name, glFbos'[name] = Range(x.textures), NEW o, o = p * ColorMax
  PROVE  PageGets(f, o, name)
<1>1. f \in Framebuffers /\ p \in Pages(f) /\ ColorMax \in Nat
  BY LayoutHolds, FramebufferConstants DEF Layout, Pages, Framebuffers
<1>2. /\ \A t \in 0 .. k - 1 :
           /\ ColorAt(f, p * ColorMax + t) \in Written(f, p, k, d)
           /\ TextureOf(f, p, k, ColorAt(f, p * ColorMax + t)) = t + 1
      /\ TextureOf(f, p, k, DepthAt(f, p)) = k + 1
      /\ d = 1 => DepthAt(f, p) \in Written(f, p, k, d)
  <2>1. WrittenRight(f, p, k, d)
    BY <1>1, PlacesWritten
  <2> QED
    BY <2>1 DEF WrittenRight
<1>3. \A t \in 0 .. k - 1 : words'[f][ColorAt(f, p * ColorMax + t)] = x.textures[t + 1]
  BY <1>2
<1>4. ASSUME NEW y \in Range(x.textures)
      PROVE  \/ \E t \in 0 .. ColorMax - 1 : y = words'[f][ColorAt(f, p * ColorMax + t)]
             \/ y = words'[f][DepthAt(f, p)]
  <2>1. PICK m \in 1 .. k + d : y = x.textures[m]
    BY DEF Range
  <2>2. CASE m <= k
    <3>1. m - 1 \in 0 .. k - 1 /\ m - 1 \in 0 .. ColorMax - 1 /\ (m - 1) + 1 = m
      BY <1>1, <2>2
    <3>2. y = words'[f][ColorAt(f, p * ColorMax + (m - 1))]
      BY <1>3, <2>1, <3>1
    <3> QED
      BY <3>1, <3>2
  <2>3. CASE m > k
    <3>1. m = k + 1 /\ d = 1
      BY <2>3
    <3> QED
      BY <1>2, <2>1, <3>1
  <2> QED
    BY <2>2, <2>3
<1>5. \A t \in 0 .. k - 1 : x.textures[t + 1] \in Range(x.textures)
  BY DEF Range
<1> QED
  BY <1>3, <1>4, <1>5 DEF PageGets

\* A double creation does so too, whichever of the two framebuffers the driver
\* gives.
LEMMA DoubleCreateKeeps ==
  ASSUME IInv, NEW f \in Doubles, NEW k \in 0 .. ColorMax, NEW d \in {0, 1}, NEW b, NEW r,
         DoubleCreate(f, k, d, b, r)
  PROVE  IInv'
<1> DEFINE back == NewFbo(b, k + d, DOMAIN glFbos, glTextures)
           front == NewFbo(r, k + d, DOMAIN glFbos \cup ({back.handle} \ {0}),
                           glTextures \cup Range(back.textures))
           half == Stored(Zeroes(Size(f)), f, 0, k, back)
           filled == Stored(half, f, 1, k, front)
           w == [filled EXCEPT ![1] = back.handle, ![HandleDouble] = front.handle]
<1>1. /\ TypeOK /\ f \in Framebuffers /\ f \in Doubles /\ k + d \in 0 .. ColorMax + 1
      /\ ColorMax \in Nat \ {0} /\ MaxRefs \in Nat \ {0}
      /\ DOMAIN glFbos \subseteq GLNames /\ glTextures \subseteq GLNames
  BY FramebufferConstants DEF Framebuffers, IInv, TypeOK
<1>2. UNCHANGED build /\ AddToDriver({back, front})
  BY DEF DoubleCreate
<1>3. ~(back.handle # 0 /\ front.handle # 0) => UNCHANGED <<words, refs, color, frontColor>>
  BY DEF DoubleCreate
<1>4. back.handle # 0 /\ front.handle # 0 =>
        /\ words' = [words EXCEPT ![f] = w]
        /\ refs' = [refs EXCEPT ![f] = 1] /\ color' = [color EXCEPT ![f] = k]
        /\ frontColor' = [frontColor EXCEPT ![f] = ColorMax]
  BY DEF DoubleCreate
<1>5. Fresh(back, k + d, DOMAIN glFbos, glTextures)
  BY <1>1, DriverGivesFresh
<1>6. Fresh(front, k + d, DOMAIN glFbos \cup ({back.handle} \ {0}),
            glTextures \cup Range(back.textures))
  <2> HIDE DEF back
  <2>1. Range(back.textures) \subseteq GLNames /\ ({back.handle} \ {0}) \subseteq GLNames
    BY <1>5 DEF Fresh, Range
  <2> QED
    BY <1>1, <2>1, DriverGivesFresh
<1> HIDE DEF back, front
<1>7. /\ DriverGrows
      /\ glTextures' \subseteq GLNames /\ DOMAIN glFbos' \subseteq GLNames
      /\ \A name \in DOMAIN glFbos' : glFbos'[name] \subseteq glTextures'
      /\ \A x \in {back, front} : x.handle # 0 =>
           /\ x.handle \in DOMAIN glFbos' \ DOMAIN glFbos
           /\ glFbos'[x.handle] = Range(x.textures)
           /\ Range(x.textures) \subseteq glTextures'
  <2>1. \A x \in {back, front} : x.handle # 0 => /\ x.handle \in GLNames \ DOMAIN glFbos
                                                 /\ Range(x.textures) \subseteq GLNames
    BY <1>5, <1>6 DEF Fresh, Range
  <2>2. \A x, y \in {back, front} : x.handle = y.handle /\ x.handle # 0 => x = y
    BY <1>5, <1>6 DEF Fresh
  <2> QED
    BY <1>1, <1>2, <2>1, <2>2, DriverAfter
<1>8. CASE ~(back.handle # 0 /\ front.handle # 0)
  <2>1. TypeOK'
    BY <1>1, <1>2, <1>3, <1>7, <1>8, LayoutKept DEF TypeOK
  <2> QED
    BY <1>2, <1>3, <1>7, <1>8, <2>1, GrowthIsHarmless
<1>9. CASE back.handle # 0 /\ front.handle # 0
  <2> DEFINE W0 == Written(f, 0, k, d)
             W1 == Written(f, 1, k, d)
             Tex0(i) == back.textures[TextureOf(f, 0, k, i)]
             Tex1(i) == front.textures[TextureOf(f, 1, k, i)]
  <2>1. /\ back.textures \in [1 .. k + d -> GLNames \ glTextures]
        /\ \A x, y \in 1 .. k + d : back.textures[x] = back.textures[y] => x = y
        /\ back.handle \in GLNames
    BY <1>5, <1>9 DEF Fresh, IsInjective
  <2>2. /\ front.textures \in [1 .. k + d -> GLNames \ (glTextures \cup Range(back.textures))]
        /\ \A x, y \in 1 .. k + d : front.textures[x] = front.textures[y] => x = y
        /\ front.handle \in GLNames /\ front.handle # back.handle
    BY <1>6, <1>9 DEF Fresh, IsInjective
  <2>3. 0 \in Pages(f) /\ 1 \in Pages(f)
    BY <1>1, LayoutHolds DEF Layout, Pages
  <2>4. /\ W0 \subseteq TexturePlaces(f) /\ W1 \subseteq TexturePlaces(f) /\ W0 \cap W1 = {}
        /\ \A i \in W0 : TextureOf(f, 0, k, i) \in 1 .. k + d
        /\ \A i \in W1 : TextureOf(f, 1, k, i) \in 1 .. k + d
        /\ \A i, j \in W0 : TextureOf(f, 0, k, i) = TextureOf(f, 0, k, j) => i = j
        /\ \A i, j \in W1 : TextureOf(f, 1, k, i) = TextureOf(f, 1, k, j) => i = j
    <3>1. WrittenRight(f, 0, k, d) /\ WrittenRight(f, 1, k, d)
      BY <1>1, <2>3, PlacesWritten
    <3> QED
      BY <1>1, <3>1 DEF WrittenRight
  <2>5. /\ FboPositions(f) = {1, HandleDouble} /\ HandleDouble # 1
        /\ 1 \in 1 .. Size(f) /\ 1 \notin TexturePlaces(f)
        /\ HandleDouble \in 1 .. Size(f) /\ HandleDouble \notin TexturePlaces(f)
        /\ TexturePlaces(f) \subseteq 1 .. Size(f)
    BY <1>1, LayoutHolds, PlacesOf DEF Layout, HandleDouble
  <2>6. /\ DOMAIN filled = 1 .. Size(f)
        /\ \A i \in W0 : filled[i] = Tex0(i)
        /\ \A i \in W1 : filled[i] = Tex1(i)
        /\ \A i \in 1 .. Size(f) \ (W0 \cup W1) : filled[i] = 0
    <3>1. /\ DOMAIN Zeroes(Size(f)) = 1 .. Size(f)
          /\ \A i \in 1 .. Size(f) : Zeroes(Size(f))[i] = 0
      BY DEF Zeroes
    <3>2. DOMAIN back.textures = 1 .. k + d /\ DOMAIN front.textures = 1 .. k + d
      BY <2>1, <2>2
    <3>3. StoredRight(Zeroes(Size(f)), f, 0, k, d, back)
      BY <1>1, <2>3, <3>1, <3>2, StoredWords
    <3>4. DOMAIN half = 1 .. Size(f)
      BY <3>3 DEF StoredRight
    <3>5. StoredRight(half, f, 1, k, d, front)
      <4> HIDE DEF half
      <4> QED
        BY <1>1, <2>3, <3>2, <3>4, StoredWords
    <3>6. /\ \A i \in W0 : half[i] = Tex0(i)
          /\ \A i \in 1 .. Size(f) \ W0 : half[i] = 0
      BY <3>1, <3>3 DEF StoredRight
    <3>7. /\ DOMAIN filled = 1 .. Size(f)
          /\ \A i \in W1 : filled[i] = Tex1(i)
          /\ \A i \in 1 .. Size(f) \ W1 : filled[i] = half[i]
      BY <3>5 DEF StoredRight
    <3> HIDE DEF filled, half, W0, W1
    <3> QED
      BY <2>4, <2>5, <3>6, <3>7
  <2> HIDE DEF filled, half
  <2>7. /\ DOMAIN w = 1 .. Size(f) /\ w = [i \in 1 .. Size(f) |-> w[i]]
        /\ w[1] = back.handle /\ w[HandleDouble] = front.handle
        /\ \A i \in W0 : w[i] = Tex0(i)
        /\ \A i \in W1 : w[i] = Tex1(i)
        /\ \A i \in 1 .. Size(f) \ (W0 \cup W1) : i \notin {1, HandleDouble} => w[i] = 0
    <3>1. w = [i \in 1 .. Size(f) |-> IF i = HandleDouble THEN front.handle
                                      ELSE IF i = 1 THEN back.handle ELSE filled[i]]
      BY <2>6
    <3> HIDE DEF w, W0, W1, Tex0, Tex1
    <3>2. /\ DOMAIN w = 1 .. Size(f) /\ w = [i \in 1 .. Size(f) |-> w[i]]
          /\ w[1] = back.handle /\ w[HandleDouble] = front.handle
      BY <2>5, <3>1
    <3>3. \A i \in W0 \cup W1 : i \notin {1, HandleDouble} /\ i \in 1 .. Size(f)
      BY <2>4, <2>5
    <3> QED
      BY <2>6, <3>1, <3>2, <3>3
  <2> HIDE DEF w
  <2>8. /\ \A i \in W0 : Tex0(i) \in (glTextures' \ glTextures) \cap GLNames
        /\ \A i \in W1 : Tex1(i) \in (glTextures' \ glTextures) \cap GLNames
        /\ \A i \in W0, j \in W1 : Tex0(i) # Tex1(j)
        /\ \A i, j \in W0 : Tex0(i) = Tex0(j) => i = j
        /\ \A i, j \in W1 : Tex1(i) = Tex1(j) => i = j
    <3> HIDE DEF W0, W1
    <3>1. Range(back.textures) \subseteq glTextures' /\ Range(front.textures) \subseteq glTextures'
      BY <1>7, <1>9
    <3>2. ASSUME NEW i \in W0
          PROVE  Tex0(i) \in (glTextures' \ glTextures) \cap GLNames /\ Tex0(i) \in Range(back.textures)
      BY <2>1, <2>4, <3>1 DEF Range
    <3>3. ASSUME NEW i \in W1
          PROVE  /\ Tex1(i) \in (glTextures' \ glTextures) \cap GLNames
                 /\ Tex1(i) \notin Range(back.textures)
      BY <2>2, <2>4, <3>1 DEF Range
    <3>4. \A i, j \in W0 : Tex0(i) = Tex0(j) => i = j
      BY <2>1, <2>4
    <3>5. \A i, j \in W1 : Tex1(i) = Tex1(j) => i = j
      BY <2>2, <2>4
    <3> HIDE DEF Tex0, Tex1
    <3> QED
      BY <3>2, <3>3, <3>4, <3>5
  <2>9. w \in [1 .. Size(f) -> GLNames \cup {0}]
    <3> HIDE DEF W0, W1, Tex0, Tex1
    <3>1. ASSUME NEW i \in 1 .. Size(f) PROVE w[i] \in GLNames \cup {0}
      <4>1. CASE i \in W0 \cup W1
        BY <2>7, <2>8, <4>1
      <4>2. CASE i \notin W0 \cup W1 /\ i \in {1, HandleDouble}
        BY <2>1, <2>2, <2>7, <4>2
      <4>3. CASE i \notin W0 \cup W1 /\ i \notin {1, HandleDouble}
        BY <2>7, <4>3
      <4> QED
        BY <4>1, <4>2, <4>3
    <3> QED
      BY <2>7, <3>1
  <2>10. ASSUME NEW i \in 1 .. Size(f), NEW j \in 1 .. Size(f), w[i] # 0, w[i] = w[j],
                i \in FboPositions(f) <=> j \in FboPositions(f)
         PROVE  i = j
    <3> HIDE DEF W0, W1, Tex0, Tex1
    <3>1. CASE i \in {1, HandleDouble}
      BY <2>2, <2>5, <2>7, <2>10, <3>1
    <3>2. CASE i \notin {1, HandleDouble}
      <4>1. i \in W0 \cup W1 /\ j \in W0 \cup W1
        BY <2>5, <2>7, <2>10, <3>2
      <4>2. CASE i \in W0 /\ j \in W0
        BY <2>7, <2>8, <2>10, <4>2
      <4>3. CASE i \in W1 /\ j \in W1
        <5>1. w[i] = Tex1(i) /\ w[j] = Tex1(j)
          BY <2>7, <4>3
        <5> QED
          BY <2>8, <2>10, <4>3, <5>1
      <4>4. CASE i \in W0 /\ j \in W1
        BY <2>7, <2>8, <2>10, <4>4
      <4>5. CASE i \in W1 /\ j \in W0
        BY <2>7, <2>8, <2>10, <4>5
      <4> QED
        BY <4>1, <4>2, <4>3, <4>4, <4>5
    <3> QED
      BY <3>1, <3>2
  <2>11. \A i \in FboPositions(f) : w[i] \in DOMAIN glFbos' \ DOMAIN glFbos
    BY <1>7, <1>9, <2>5, <2>7
  <2>12. \A i \in 1 .. Size(f) :
           IF i \in TexturePlaces(f) THEN w[i] \in (glTextures' \ glTextures) \cup {0}
                                     ELSE i \in FboPositions(f) \/ w[i] = 0
    <3> HIDE DEF W0, W1, Tex0, Tex1
    <3> QED
      BY <2>4, <2>5, <2>7, <2>8
  <2>13. 0 \notin DOMAIN glFbos'
    BY <1>7, DriverConstants
  <2>14. Handled' /\ Held' /\ Unshared'
    BY <1>1, <1>2, <1>4, <1>7, <1>9, <2>9, <2>10, <2>11, <2>12, <2>13, FillingSharesNothing
  <2>15. \A g \in Framebuffers : g # f => /\ words'[g] = words[g] /\ refs'[g] = refs[g]
                                          /\ color'[g] = color[g]
                                          /\ frontColor'[g] = frontColor[g]
    BY <1>1, <1>4, <1>9 DEF TypeOK
  <2>16. /\ words'[f] = w /\ color'[f] = k /\ frontColor'[f] = ColorMax
         /\ DOMAIN words' = Framebuffers
    BY <1>1, <1>4, <1>9 DEF TypeOK
  <2>17. PageAttached(f, words[f][HandleDouble], frontColor[f])'
    <3>1. glFbos'[front.handle] = Range(front.textures)
      BY <1>7, <1>9
    <3>2. front.textures \in [1 .. k + d -> GLNames]
      BY <2>2
    <3>3. \A i \in Written(f, 1, k, d) : words'[f][i] = front.textures[TextureOf(f, 1, k, i)]
      BY <2>7, <2>16
    <3>5. PageGets(f, ColorMax, front.handle)
      <4>1. 1 \in {0, 1} /\ ColorMax = 1 * ColorMax
        BY <1>1
      <4>2. UNCHANGED build /\ color'[f] = k
        BY <1>2, <2>16
      <4> QED
        BY <3>1, <3>2, <3>3, <4>1, <4>2, PageFilled
    <3>4. words'[f][HandleDouble'] = front.handle /\ frontColor'[f] = ColorMax
      BY <1>1, <1>2, <2>7, <2>16, LayoutKept
    <3> QED
      BY <1>2, <3>4, <3>5, LayoutKept DEF PageAttached, PageGets
  <2>18. PageAttached(f, words[f][1], OtherSide(frontColor[f]))'
    <3>1. glFbos'[back.handle] = Range(back.textures)
      BY <1>7, <1>9
    <3>2. back.textures \in [1 .. k + d -> GLNames]
      BY <2>1
    <3>3. \A i \in Written(f, 0, k, d) : words'[f][i] = back.textures[TextureOf(f, 0, k, i)]
      BY <2>7, <2>16
    <3>5. PageGets(f, 0, back.handle)
      <4>1. 0 \in {0, 1} /\ 0 = 0 * ColorMax
        BY <1>1
      <4>2. UNCHANGED build /\ color'[f] = k
        BY <1>2, <2>16
      <4> QED
        BY <3>1, <3>2, <3>3, <4>1, <4>2, PageFilled
    <3>4. words'[f][1] = back.handle /\ OtherSide(frontColor[f])' = 0
      BY <1>1, <2>7, <2>16 DEF OtherSide
    <3> QED
      BY <1>2, <3>4, <3>5, LayoutKept DEF PageAttached, PageGets
  <2>19. Attached'
    BY <1>1, <1>2, <1>7, <2>15, <2>17, <2>18, OthersStayAttached
  <2>20. TypeOK'
    <3>1. \A g \in Framebuffers : words'[g] \in [1 .. Size(g) -> GLNames \cup {0}]
      BY <1>1, <2>9, <2>15, <2>16 DEF TypeOK
    <3>2. 1 \in 0 .. MaxRefs
      BY <1>1
    <3>3. refs' \in [Framebuffers -> 0 .. MaxRefs]
      BY <1>1, <1>4, <1>9, <3>2 DEF TypeOK
    <3>4. color' \in [Framebuffers -> 0 .. ColorMax]
      BY <1>1, <1>4, <1>9 DEF TypeOK
    <3>5. frontColor' \in [Framebuffers -> {0, ColorMax}]
      BY <1>1, <1>4, <1>9 DEF TypeOK
    <3> QED
      BY <1>1, <1>2, <1>7, <2>16, <3>1, <3>3, <3>4, <3>5, LayoutKept DEF TypeOK
  <2> QED
    BY <2>14, <2>19, <2>20 DEF IInv
<1> QED
  BY <1>8, <1>9

------------------------------------------------------------------------------
(* References, swaps and releases.                                           *)

\* A reference is added to a structure that is referenced already.
LEMMA ReferenceKeeps ==
  ASSUME IInv, NEW f \in Framebuffers, Reference(f)
  PROVE  IInv'
<1>1. /\ TypeOK /\ MaxRefs \in Nat \ {0} /\ refs[f] \in 0 .. MaxRefs
      /\ UNCHANGED <<build, words, color, frontColor, glFbos, glTextures>>
      /\ refs' = [refs EXCEPT ![f] = @ + 1] /\ refs[f] < MaxRefs
  BY FramebufferConstants DEF IInv, TypeOK, Reference
<1>2. refs[f] > 0
  BY <1>1, LiveIsReferenced DEF IInv, Reference
<1>3. /\ \A g \in Framebuffers : refs'[g] > 0 <=> refs[g] > 0
      /\ refs' \in [Framebuffers -> 0 .. MaxRefs]
  BY <1>1, <1>2 DEF TypeOK
<1>4. TypeOK'
  BY <1>1, <1>3, LayoutKept DEF TypeOK
<1>5. Handled'
  BY <1>1, <1>3, LayoutKept DEF IInv, Handled
<1>6. Held'
  BY <1>1, LayoutKept DEF IInv, Held, TexturePlaces
<1>7. Unshared'
  BY <1>1, LayoutKept DEF IInv, Unshared
<1>8. Attached'
  <2> SUFFICES ASSUME NEW g \in Doubles, refs'[g] > 0
               PROVE  /\ PageAttached(g, words[g][HandleDouble], frontColor[g])'
                      /\ PageAttached(g, words[g][1], OtherSide(frontColor[g]))'
    BY DEF Attached
  <2>1. /\ PageAttached(g, words[g][HandleDouble], frontColor[g])
        /\ PageAttached(g, words[g][1], OtherSide(frontColor[g]))
    BY <1>3 DEF IInv, Attached, Framebuffers
  <2> QED
    BY <1>1, <2>1, LayoutKept DEF PageAttached, OtherSide
<1> QED
  BY <1>4, <1>5, <1>6, <1>7, <1>8 DEF IInv

\* A swap exchanges the two framebuffer names and, with them, the pages.
LEMMA SwapKeeps ==
  ASSUME IInv, NEW f \in Doubles, Swap(f)
  PROVE  IInv'
<1> DEFINE Other(g, i) == IF g = f /\ i = 1 THEN HandleDouble
                          ELSE IF g = f /\ i = HandleDouble THEN 1 ELSE i
<1>1. /\ TypeOK /\ f \in Framebuffers /\ ColorMax \in Nat \ {0}
      /\ UNCHANGED <<build, refs, color, glFbos, glTextures>>
      /\ words' = [words EXCEPT ![f] = Exchanged(words[f])]
      /\ frontColor' = [frontColor EXCEPT ![f] = OtherSide(frontColor[f])]
  BY FramebufferConstants DEF IInv, Swap, Framebuffers
<1>2. /\ FboPositions(f) = {1, HandleDouble} /\ HandleDouble # 1
      /\ 1 \in 1 .. Size(f) /\ HandleDouble \in 1 .. Size(f)
      /\ 1 \notin TexturePlaces(f) /\ HandleDouble \notin TexturePlaces(f)
  BY <1>1, LayoutHolds, PlacesOf DEF Layout, HandleDouble
<1>3. words[f] \in [1 .. Size(f) -> GLNames \cup {0}]
  BY <1>1 DEF TypeOK
<1>4. /\ DOMAIN words' = Framebuffers
      /\ \A g \in Framebuffers : g # f => words'[g] = words[g]
      /\ words'[f] = Exchanged(words[f])
  BY <1>1 DEF TypeOK
<1>5. /\ Exchanged(words[f]) \in [1 .. Size(f) -> GLNames \cup {0}]
      /\ \A i \in 1 .. Size(f) : Exchanged(words[f])[i] = words[f][Other(f, i)]
  <2>1. Exchanged(words[f]) = [i \in 1 .. Size(f) |->
          IF i = HandleDouble THEN words[f][1]
          ELSE IF i = 1 THEN words[f][HandleDouble] ELSE words[f][i]]
    BY <1>3 DEF Exchanged
  <2> QED
    BY <1>2, <1>3, <2>1
<1>6. \A g \in Framebuffers : \A i \in 1 .. Size(g) :
        /\ words'[g][i] = words[g][Other(g, i)]
        /\ Other(g, i) \in 1 .. Size(g)
        /\ Other(g, i) \in FboPositions(g) <=> i \in FboPositions(g)
        /\ i \notin FboPositions(g) => Other(g, i) = i
        /\ \A j \in 1 .. Size(g) : Other(g, i) = Other(g, j) => i = j
  BY <1>2, <1>4, <1>5
<1>7. \A g \in Framebuffers : frontColor'[g] \in {0, ColorMax}
  <2>1. \A g \in Framebuffers : frontColor[g] \in {0, ColorMax}
    BY <1>1 DEF TypeOK
  <2>2. OtherSide(frontColor[f]) \in {0, ColorMax}
    BY <1>1, <2>1 DEF OtherSide
  <2> QED
    BY <1>1, <2>1, <2>2 DEF TypeOK
<1> HIDE DEF Other
<1>8. TypeOK'
  <2>1. \A g \in Framebuffers : words'[g] \in [1 .. Size(g) -> GLNames \cup {0}]
    BY <1>1, <1>4, <1>5 DEF TypeOK
  <2>2. frontColor' \in [Framebuffers -> {0, ColorMax}]
    <3>1. DOMAIN frontColor' = Framebuffers /\ frontColor' = [g \in Framebuffers |-> frontColor'[g]]
      BY <1>1 DEF TypeOK
    <3> QED
      BY <1>7, <3>1
  <2> QED
    BY <1>1, <1>4, <2>1, <2>2, LayoutKept DEF TypeOK
<1>9. Handled'
  <2> SUFFICES ASSUME NEW g \in Framebuffers, NEW i \in FboPositions(g)
               PROVE  IF refs'[g] > 0 THEN words'[g][i] \in DOMAIN glFbos' ELSE words'[g][i] = 0
    BY <1>1, LayoutKept DEF Handled
  <2>1. i \in 1 .. Size(g)
    BY PlacesOf
  <2>2. words'[g][i] = words[g][Other(g, i)] /\ Other(g, i) \in FboPositions(g)
    BY <1>6, <2>1
  <2> QED
    BY <1>1, <2>2 DEF IInv, Handled
<1>10. Held'
  <2> SUFFICES ASSUME NEW g \in Framebuffers, NEW i \in 1 .. Size(g)
               PROVE  IF i \in TexturePlaces(g) THEN words'[g][i] \in glTextures' \cup {0}
                      ELSE i \in FboPositions(g) \/ words'[g][i] = 0
    BY <1>1, LayoutKept DEF Held, TexturePlaces
  <2>1. CASE i \in FboPositions(g)
    BY <2>1, PlacesOf
  <2>2. CASE i \notin FboPositions(g)
    <3>1. words'[g][i] = words[g][i]
      BY <1>6, <2>2
    <3> QED
      BY <1>1, <2>2, <3>1 DEF IInv, Held
  <2> QED
    BY <2>1, <2>2
<1>11. Unshared'
  <2> SUFFICES ASSUME NEW g \in Framebuffers, NEW h \in Framebuffers,
                      NEW i \in 1 .. Size(g), NEW j \in 1 .. Size(h),
                      words'[g][i] # 0, words'[g][i] = words'[h][j],
                      i \in FboPositions(g) <=> j \in FboPositions(h)
               PROVE  g = h /\ i = j
    BY <1>1, LayoutKept DEF Unshared
  <2>1. /\ words[g][Other(g, i)] # 0 /\ words[g][Other(g, i)] = words[h][Other(h, j)]
        /\ Other(g, i) \in FboPositions(g) <=> Other(h, j) \in FboPositions(h)
        /\ Other(g, i) \in 1 .. Size(g) /\ Other(h, j) \in 1 .. Size(h)
    BY <1>6
  <2>2. g = h /\ Other(g, i) = Other(h, j)
    BY <2>1 DEF IInv, Unshared
  <2> QED
    BY <1>6, <2>2
<1>12. Attached'
  <2> SUFFICES ASSUME NEW g \in Doubles, refs'[g] > 0
               PROVE  /\ PageAttached(g, words[g][HandleDouble], frontColor[g])'
                      /\ PageAttached(g, words[g][1], OtherSide(frontColor[g]))'
    BY DEF Attached
  <2>1. /\ PageAttached(g, words[g][HandleDouble], frontColor[g])
        /\ PageAttached(g, words[g][1], OtherSide(frontColor[g]))
        /\ g \in Framebuffers
    BY <1>1 DEF IInv, Attached, Framebuffers
  <2>2. CASE g # f
    <3>1. words'[g] = words[g] /\ frontColor'[g] = frontColor[g]
      BY <1>1, <1>4, <2>1, <2>2 DEF TypeOK
    <3> QED
      BY <1>1, <2>1, <3>1, LayoutKept DEF PageAttached, OtherSide
  <2>3. CASE g = f
    <3>1. /\ words'[f][HandleDouble] = words[f][1] /\ words'[f][1] = words[f][HandleDouble]
          /\ \A i \in TexturePlaces(f) : words'[f][i] = words[f][i]
      BY <1>1, <1>2, <1>4, <1>5, PlacesOf DEF Other
    <3>2. /\ frontColor[f] \in {0, ColorMax} /\ color[f] \in 0 .. ColorMax
          /\ frontColor'[f] = OtherSide(frontColor[f])
          /\ OtherSide(OtherSide(frontColor[f])) = frontColor[f]
          /\ OtherSide(frontColor[f]) \in {0, ColorMax}
      BY <1>1 DEF TypeOK, OtherSide
    <3>3. \A o \in {0, ColorMax} : \A t \in 0 .. ColorMax - 1 :
            words'[f][ColorAt(f, o + t)] = words[f][ColorAt(f, o + t)]
      BY <3>1, PagesApart
    <3>4. \A p \in {0, 1} : words'[f][DepthAt(f, p)] = words[f][DepthAt(f, p)]
      <4>1. 0 \in 0 .. ColorMax - 1
        BY <1>1
      <4> QED
        BY <3>1, <4>1, PagesApart
    <3>5. ASSUME NEW o \in {0, ColorMax}, NEW name, PageAttached(f, name, o)
          PROVE  PageGets(f, o, name)
      <4>1. \A t \in 0 .. color[f] - 1 : t \in 0 .. ColorMax - 1
        BY <1>1, <3>2
      <4> QED
        BY <1>1, <3>3, <3>4, <3>5, <4>1 DEF PageAttached, PageGets
    <3>6. /\ PageGets(f, OtherSide(frontColor[f]), words[f][1])
          /\ PageGets(f, frontColor[f], words[f][HandleDouble])
      BY <2>1, <2>3, <3>2, <3>5
    <3>7. PageAttached(f, words[f][HandleDouble], frontColor[f])'
      BY <1>1, <3>1, <3>2, <3>6, LayoutKept DEF PageAttached, PageGets
    <3>8. PageAttached(f, words[f][1], OtherSide(frontColor[f]))'
      <4>1. OtherSide(frontColor[f])' = frontColor[f]
        BY <3>2 DEF OtherSide
      <4> QED
        BY <1>1, <3>1, <3>6, <4>1, LayoutKept DEF PageAttached, PageGets
    <3> QED
      BY <2>3, <3>7, <3>8
  <2> QED
    BY <2>2, <2>3
<1> QED
  BY <1>8, <1>9, <1>10, <1>11, <1>12 DEF IInv

\* The words that the last release takes to be names of textures are words of
\* the structure; for a double framebuffer, and in a 32-bit build, exactly those
\* that are.
LEMMA ReleasedWords ==
  ASSUME NEW f \in Framebuffers
  PROVE  /\ FboWords(f) = FboPositions(f)
         /\ TextureWords(f) \subseteq 1 .. Size(f)
         /\ TextureWords(f) \cap FboPositions(f) = {}
         /\ f \in Doubles \/ build = "x86" => TextureWords(f) = TexturePlaces(f)
<1>1. ColorMax \in Nat \ {0}
  BY FramebufferConstants
<1>2. f \in Singles \/ f \in Doubles
  BY DEF Framebuffers
<1>3. Extra \in {2, 3} /\ (build = "x86" => Extra = 2)
  BY LayoutHolds DEF Layout
<1>4. CASE f \in Singles
  <2>1. /\ Textures0(f) = Extra /\ Size(f) = Extra + ColorMax
        /\ FboPositions(f) = {1} /\ FboWords(f) = {1}
        /\ TextureWords(f) = 2 .. (ColorMax + 2) /\ f \notin Doubles
    BY <1>4, LayoutHolds, FramebufferConstants DEF Layout
  <2>2. TextureWords(f) \subseteq 1 .. Size(f) /\ TextureWords(f) \cap FboPositions(f) = {}
    BY <1>1, <1>3, <2>1
  <2>3. build = "x86" => TextureWords(f) = TexturePlaces(f)
    BY <1>1, <1>3, <2>1 DEF TexturePlaces
  <2> QED
    BY <2>1, <2>2, <2>3
<1>5. CASE f \in Doubles
  <2>1. /\ Textures0(f) = Extra + 1 /\ Size(f) = Extra + 2 * ColorMax + 2
        /\ FboPositions(f) = {1, Extra} /\ FboWords(f) = {1, Extra}
        /\ TextureWords(f) = (Extra + 1) .. (Extra + 2 * ColorMax + 2)
    BY <1>5, LayoutHolds DEF Layout
  <2>2. TextureWords(f) \subseteq 1 .. Size(f) /\ TextureWords(f) \cap FboPositions(f) = {}
    BY <1>1, <1>3, <2>1
  <2>3. TextureWords(f) = TexturePlaces(f)
    BY <2>1 DEF TexturePlaces
  <2> QED
    BY <2>1, <2>2, <2>3
<1> QED
  BY <1>2, <1>4, <1>5

\* Any release but the last only counts; the last takes from the driver what no
\* other structure names.
LEMMA ReleaseKeeps ==
  ASSUME IInv, NEW f \in Framebuffers, Release(f)
  PROVE  IInv'
<1>1. /\ TypeOK /\ MaxRefs \in Nat \ {0} /\ refs[f] \in 0 .. MaxRefs
      /\ UNCHANGED build /\ refs' = [refs EXCEPT ![f] = @ - 1]
  BY FramebufferConstants DEF IInv, TypeOK, Release
<1>2. refs[f] > 0
  BY <1>1, LiveIsReferenced DEF IInv, Release
<1>3. /\ refs' \in [Framebuffers -> 0 .. MaxRefs]
      /\ refs'[f] = refs[f] - 1 /\ \A g \in Framebuffers : g # f => refs'[g] = refs[g]
  BY <1>1, <1>2 DEF TypeOK
<1>4. CASE refs[f] > 1
  <2>1. UNCHANGED <<words, color, frontColor, glFbos, glTextures>>
    BY <1>4 DEF Release
  <2>2. \A g \in Framebuffers : refs'[g] > 0 <=> refs[g] > 0
    BY <1>1, <1>3, <1>4
  <2>3. TypeOK'
    BY <1>1, <1>3, <2>1, LayoutKept DEF TypeOK
  <2>4. Handled'
    BY <1>1, <2>1, <2>2, LayoutKept DEF IInv, Handled
  <2>5. Held'
    BY <1>1, <2>1, LayoutKept DEF IInv, Held, TexturePlaces
  <2>6. Unshared'
    BY <1>1, <2>1, LayoutKept DEF IInv, Unshared
  <2>7. Attached'
    <3> SUFFICES ASSUME NEW g \in Doubles, refs'[g] > 0
                 PROVE  /\ PageAttached(g, words[g][HandleDouble], frontColor[g])'
                        /\ PageAttached(g, words[g][1], OtherSide(frontColor[g]))'
      BY DEF Attached
    <3>1. /\ PageAttached(g, words[g][HandleDouble], frontColor[g])
          /\ PageAttached(g, words[g][1], OtherSide(frontColor[g]))
      BY <2>2 DEF IInv, Attached, Framebuffers
    <3> QED
      BY <1>1, <2>1, <3>1, LayoutKept DEF PageAttached, OtherSide
  <2> QED
    BY <2>3, <2>4, <2>5, <2>6, <2>7 DEF IInv
<1>5. CASE ~(refs[f] > 1)
  <2> DEFINE fbos == {words[f][i] : i \in FboWords(f)}
             textures == {words[f][i] : i \in TextureWords(f)} \ {0}
             cleared == FboWords(f) \cup TextureWords(f)
  <2>1. /\ glFbos' = [name \in DOMAIN glFbos \ fbos |-> glFbos[name] \ textures]
        /\ glTextures' = glTextures \ textures
        /\ words' = [words EXCEPT ![f] =
                       [i \in DOMAIN @ |-> IF i \in cleared THEN 0 ELSE @[i]]]
        /\ color' = [color EXCEPT ![f] = 0] /\ frontColor' = [frontColor EXCEPT ![f] = 0]
    BY <1>5 DEF Release, RemoveFromDriver
  <2>2. refs'[f] = 0
    BY <1>1, <1>2, <1>3, <1>5
  <2>3. /\ FboWords(f) = FboPositions(f) /\ TextureWords(f) \subseteq 1 .. Size(f)
        /\ TextureWords(f) \cap FboPositions(f) = {}
        /\ FboPositions(f) \subseteq cleared
    BY ReleasedWords
  <2>4. /\ DOMAIN words' = Framebuffers
        /\ \A g \in Framebuffers : g # f => words'[g] = words[g]
        /\ words'[f] = [i \in 1 .. Size(f) |-> IF i \in cleared THEN 0 ELSE words[f][i]]
    <3>1. DOMAIN words[f] = 1 .. Size(f) /\ DOMAIN words = Framebuffers
      BY <1>1 DEF TypeOK
    <3> HIDE DEF cleared
    <3> QED
      BY <2>1, <3>1
  \* What the release deletes is in no other place of its kind.
  <2>5. ASSUME NEW g \in Framebuffers, NEW i \in FboPositions(g), g # f, words[g][i] # 0
        PROVE  words[g][i] \notin fbos
    <3> SUFFICES ASSUME NEW j \in FboPositions(f), words[g][i] = words[f][j]
                 PROVE  FALSE
      BY <2>3
    <3>1. i \in 1 .. Size(g) /\ j \in 1 .. Size(f)
      BY PlacesOf
    <3> QED
      BY <2>5, <3>1 DEF IInv, Unshared
  <2>6. ASSUME NEW g \in Framebuffers, NEW i \in TexturePlaces(g),
               g # f \/ i \notin TextureWords(f)
        PROVE  words[g][i] \notin textures
    <3> SUFFICES ASSUME NEW j \in TextureWords(f), words[f][j] # 0, words[g][i] = words[f][j]
                 PROVE  FALSE
      OBVIOUS
    <3>1. i \in 1 .. Size(g) /\ j \in 1 .. Size(f) /\ i \notin FboPositions(g) /\ j \notin FboPositions(f)
      BY <2>3, PlacesOf
    <3>2. g = f /\ i = j
      BY <3>1 DEF IInv, Unshared
    <3> QED
      BY <2>6, <3>2
  <2> HIDE DEF fbos, textures
  <2>7. /\ DOMAIN glFbos' = DOMAIN glFbos \ fbos
        /\ \A name \in DOMAIN glFbos' : glFbos'[name] = glFbos[name] \ textures
    BY <2>1
  <2>8. TypeOK'
    <3>1. \A g \in Framebuffers : words[g] \in [1 .. Size(g) -> GLNames \cup {0}]
      BY <1>1 DEF TypeOK
    <3>2. words'[f] \in [1 .. Size(f) -> GLNames \cup {0}]
      <4> HIDE DEF cleared
      <4> QED
        BY <2>4, <3>1
    <3>3. \A g \in Framebuffers : words'[g] \in [1 .. Size(g) -> GLNames \cup {0}]
      BY <2>4, <3>1, <3>2
    <3>4. color' \in [Framebuffers -> 0 .. ColorMax]
      BY <1>1, <2>1, FramebufferConstants DEF TypeOK
    <3>5. frontColor' \in [Framebuffers -> {0, ColorMax}]
      BY <1>1, <2>1 DEF TypeOK
    <3>6. /\ glTextures' \subseteq GLNames /\ DOMAIN glFbos' \subseteq GLNames
          /\ \A name \in DOMAIN glFbos' : glFbos'[name] \subseteq glTextures'
      BY <1>1, <2>1, <2>7 DEF TypeOK
    <3> QED
      BY <1>1, <1>3, <2>4, <3>3, <3>4, <3>5, <3>6, LayoutKept DEF TypeOK
  <2>9. Handled'
    <3> SUFFICES ASSUME NEW g \in Framebuffers, NEW i \in FboPositions(g)
                 PROVE  IF refs'[g] > 0 THEN words'[g][i] \in DOMAIN glFbos' ELSE words'[g][i] = 0
      BY <1>1, LayoutKept DEF Handled
    <3>1. CASE g = f
      <4>1. i \in cleared /\ i \in 1 .. Size(f)
        BY <2>3, <3>1, PlacesOf
      <4>2. words'[f][i] = 0
        BY <2>4, <4>1
      <4> QED
        BY <2>2, <3>1, <4>2
    <3>2. CASE g # f
      <4>1. words'[g] = words[g] /\ refs'[g] = refs[g]
        BY <1>3, <2>4, <3>2
      <4>2. IF refs[g] > 0 THEN words[g][i] \in DOMAIN glFbos ELSE words[g][i] = 0
        BY DEF IInv, Handled
      <4>3. refs[g] > 0 => words[g][i] # 0
        BY <1>1, <4>2, NamesArePositive
      <4> QED
        BY <2>5, <2>7, <3>2, <4>1, <4>2, <4>3
    <3> QED
      BY <3>1, <3>2
  <2>10. Held'
    <3> SUFFICES ASSUME NEW g \in Framebuffers, NEW i \in 1 .. Size(g)
                 PROVE  IF i \in TexturePlaces(g) THEN words'[g][i] \in glTextures' \cup {0}
                        ELSE i \in FboPositions(g) \/ words'[g][i] = 0
      BY <1>1, LayoutKept DEF Held, TexturePlaces
    <3>1. IF i \in TexturePlaces(g) THEN words[g][i] \in glTextures \cup {0}
          ELSE i \in FboPositions(g) \/ words[g][i] = 0
      BY DEF IInv, Held
    <3>2. CASE g = f /\ i \in cleared
      <4>1. words'[g][i] = 0
        BY <2>4, <3>2
      <4> QED
        BY <4>1
    <3>3. CASE ~(g = f /\ i \in cleared)
      <4>1. words'[g][i] = words[g][i]
        <5> HIDE DEF cleared
        <5> QED
          BY <2>4, <3>3
      <4>2. i \in TexturePlaces(g) => words[g][i] \notin textures
        BY <2>6, <3>3
      <4> QED
        BY <2>1, <3>1, <4>1, <4>2
    <3> QED
      BY <3>2, <3>3
  <2>11. Unshared'
    <3>1. \A g \in Framebuffers : \A i \in 1 .. Size(g) :
            words'[g][i] # 0 => words'[g][i] = words[g][i]
      <4> HIDE DEF cleared
      <4> QED
        BY <2>4
    <3> SUFFICES ASSUME NEW g \in Framebuffers, NEW h \in Framebuffers,
                        NEW i \in 1 .. Size(g), NEW j \in 1 .. Size(h),
                        words'[g][i] # 0, words'[g][i] = words'[h][j],
                        i \in FboPositions(g) <=> j \in FboPositions(h)
                 PROVE  g = h /\ i = j
      BY <1>1, LayoutKept DEF Unshared
    <3>2. words[g][i] # 0 /\ words[g][i] = words[h][j]
      BY <3>1
    <3> QED
      BY <3>2 DEF IInv, Unshared
  <2>12. Attached'
    <3> SUFFICES ASSUME NEW g \in Doubles, refs'[g] > 0
                 PROVE  /\ PageAttached(g, words[g][HandleDouble], frontColor[g])'
                        /\ PageAttached(g, words[g][1], OtherSide(frontColor[g]))'
      BY DEF Attached
    <3>1. g \in Framebuffers /\ g # f /\ refs[g] > 0
      BY <1>3, <2>2 DEF Framebuffers
    <3>2. /\ words'[g] = words[g] /\ color'[g] = color[g] /\ frontColor'[g] = frontColor[g]
          /\ color[g] \in 0 .. ColorMax /\ frontColor[g] \in {0, ColorMax}
      BY <1>1, <2>1, <2>4, <3>1 DEF TypeOK
    <3>3. /\ PageAttached(g, words[g][HandleDouble], frontColor[g])
          /\ PageAttached(g, words[g][1], OtherSide(frontColor[g]))
      BY <3>1 DEF IInv, Attached
    <3>4. {1, HandleDouble} = FboPositions(g)
      BY LayoutHolds DEF Layout, HandleDouble
    <3>5. ASSUME NEW i \in {1, HandleDouble}
          PROVE  words[g][i] \in DOMAIN glFbos' /\ glFbos'[words[g][i]] = glFbos[words[g][i]] \ textures
      <4>1. words[g][i] \in DOMAIN glFbos /\ words[g][i] # 0
        BY <1>1, <3>1, <3>4, NamesArePositive DEF IInv, Handled
      <4>2. words[g][i] \notin fbos
        BY <2>5, <3>1, <3>4, <4>1
      <4> QED
        BY <2>7, <4>1, <4>2
    <3>6. ASSUME NEW o \in {0, ColorMax}, NEW t \in 0 .. color[g] - 1
          PROVE  words[g][ColorAt(g, o + t)] \notin textures
      <4>1. t \in 0 .. ColorMax - 1
        BY <3>2, FramebufferConstants
      <4>2. ColorAt(g, o + t) \in TexturePlaces(g)
        BY <4>1, PagesApart
      <4> QED
        BY <2>6, <3>1, <4>2
    <3>7. OtherSide(frontColor[g]) \in {0, ColorMax}
      BY <3>2, FramebufferConstants DEF OtherSide
    <3>8. PageGets(g, frontColor[g], words[g][HandleDouble])
      BY <3>2, <3>3, <3>5, <3>6 DEF PageAttached, PageGets
    <3>9. PageGets(g, OtherSide(frontColor[g]), words[g][1])
      BY <3>2, <3>3, <3>5, <3>6, <3>7 DEF PageAttached, PageGets
    <3>10. PageAttached(g, words[g][HandleDouble], frontColor[g])'
      BY <1>1, <3>2, <3>8, LayoutKept DEF PageAttached, PageGets
    <3>11. PageAttached(g, words[g][1], OtherSide(frontColor[g]))'
      BY <1>1, <3>2, <3>9, LayoutKept DEF PageAttached, PageGets, OtherSide
    <3> QED
      BY <3>10, <3>11
  <2> QED
    BY <2>8, <2>9, <2>10, <2>11, <2>12 DEF IInv
<1> QED
  BY <1>4, <1>5

------------------------------------------------------------------------------
(* Theorems.                                                                 *)

\* At the start no structure names anything.
LEMMA InitHolds == Init => IInv
<1> SUFFICES ASSUME Init PROVE IInv
  OBVIOUS
<1>1. /\ ColorMax \in Nat \ {0} /\ MaxRefs \in Nat \ {0}
      /\ build \in Builds /\ refs = [f \in Framebuffers |-> 0]
      /\ color = [f \in Framebuffers |-> 0] /\ frontColor = [f \in Framebuffers |-> 0]
      /\ DOMAIN glFbos = {} /\ glTextures = {} /\ DOMAIN words = Framebuffers
  BY FramebufferConstants DEF Init
<1>2. \A f \in Framebuffers : words[f] = [i \in 1 .. Size(f) |-> 0]
  BY DEF Init, Zeroes
<1>3. TypeOK
  <2>1. \A f \in Framebuffers : words[f] \in [1 .. Size(f) -> GLNames \cup {0}]
    BY <1>2
  <2> QED
    BY <1>1, <2>1 DEF TypeOK
<1>4. \A f \in Framebuffers : \A i \in 1 .. Size(f) : words[f][i] = 0
  BY <1>2
<1>5. Handled
  BY <1>1, <1>4, PlacesOf DEF Handled
<1>6. Held
  BY <1>4 DEF Held
<1>7. Unshared
  BY <1>4 DEF Unshared
<1>8. Attached
  BY <1>1 DEF Attached, Framebuffers
<1> QED
  BY <1>3, <1>5, <1>6, <1>7, <1>8 DEF IInv

\* A step that changes nothing keeps the invariant.
LEMMA StutterKeeps ==
  ASSUME IInv, UNCHANGED vars
  PROVE  IInv'
<1>1. UNCHANGED <<build, words, refs, color, frontColor, glFbos, glTextures>>
  BY DEF vars
<1>2. TypeOK'
  BY <1>1, LayoutKept DEF IInv, TypeOK
<1>3. DriverGrows
  BY <1>1 DEF DriverGrows
<1> QED
  BY <1>1, <1>2, <1>3, GrowthIsHarmless

\* The invariant is inductive.
LEMMA StepHolds == IInv /\ [Next]_vars => IInv'
<1> SUFFICES ASSUME IInv, [Next]_vars PROVE IInv'
  OBVIOUS
<1>1. ASSUME NEW f \in Singles, NEW k \in 0 .. ColorMax, NEW d \in {0, 1}, NEW ok \in BOOLEAN,
             Create(f, k, d, ok)
      PROVE  IInv'
  BY <1>1, CreateKeeps
<1>2. ASSUME NEW f \in Doubles, NEW k \in 0 .. ColorMax, NEW d \in {0, 1},
             NEW b \in BOOLEAN, NEW r \in BOOLEAN, DoubleCreate(f, k, d, b, r)
      PROVE  IInv'
  BY <1>2, DoubleCreateKeeps
<1>3. ASSUME NEW f \in Framebuffers, Reference(f) PROVE IInv'
  BY <1>3, ReferenceKeeps
<1>4. ASSUME NEW f \in Framebuffers, Release(f) PROVE IInv'
  BY <1>4, ReleaseKeeps
<1>5. ASSUME NEW f \in Doubles, Swap(f) PROVE IInv'
  BY <1>5, SwapKeeps
<1>6. CASE UNCHANGED vars
  BY <1>6, StutterKeeps
<1> QED
  BY <1>1, <1>2, <1>3, <1>4, <1>5, <1>6 DEF Next

\* Every structure, live or dead, holds the driver's names and no other's.
THEOREM FramebuffersStaySound == Spec => []IInv
<1> QED
  BY InitHolds, StepHolds, PTL DEF Spec

\* The words of every framebuffer structure stay names or zero, and what is
\* attached stays in the driver (a3_Framebuffer.inl).
THEOREM FramebuffersTypeCorrect == Spec => []TypeOK
<1>1. IInv => TypeOK
  BY DEF IInv
<1> QED
  BY <1>1, FramebuffersStaySound, PTL

\* Live names belong to one structure (a3framebufferCreate and its sisters).
THEOREM NamesOwnedOnce == Spec => []LiveNamesAreOwnedOnce
<1> QED
  BY OwnedOnce, FramebuffersStaySound, PTL

\* The page that is sampled is not the one drawn to (a3framebufferDoubleSwap).
THEOREM SampledNotDrawn == Spec => []SampledPageIsNotDrawn
<1> QED
  BY SampledApart, FramebuffersStaySound, PTL

LiveAreReferenced == \A f \in Framebuffers : Live(f) <=> refs[f] > 0

\* LiveIsReferenced in a form that can be primed.
LEMMA ReferencedInAll == IInv => LiveAreReferenced
BY LiveIsReferenced DEF IInv, LiveAreReferenced

\* A structure that a step takes to death is released by its last user.
LEMMA DeathIsLastRelease ==
  ASSUME IInv, IInv', Next, NEW f \in Framebuffers, Live(f), ~Live(f)'
  PROVE  Release(f) /\ ~(refs[f] > 1)
<1>1. LiveAreReferenced'
  BY ReferencedInAll, PTL
<1>2. refs[f] > 0 /\ ~(refs'[f] > 0)
  BY <1>1, ReferencedInAll DEF LiveAreReferenced
<1>3. refs \in [Framebuffers -> 0 .. MaxRefs] /\ MaxRefs \in Nat /\ refs[f] \in 0 .. MaxRefs
  BY FramebufferConstants DEF IInv, TypeOK
<1>4. ASSUME NEW g \in Framebuffers, refs' = [refs EXCEPT ![g] = 1] PROVE FALSE
  BY <1>2, <1>3, <1>4
<1>5. ASSUME NEW g \in Singles, NEW k \in 0 .. ColorMax, NEW d \in {0, 1}, NEW ok \in BOOLEAN,
             Create(g, k, d, ok)
      PROVE  FALSE
  BY <1>2, <1>4, <1>5 DEF Create, Framebuffers
<1>6. ASSUME NEW g \in Doubles, NEW k \in 0 .. ColorMax, NEW d \in {0, 1},
             NEW b \in BOOLEAN, NEW r \in BOOLEAN, DoubleCreate(g, k, d, b, r)
      PROVE  FALSE
  BY <1>2, <1>4, <1>6 DEF DoubleCreate, Framebuffers
<1>7. ASSUME NEW g \in Framebuffers, Reference(g) PROVE FALSE
  <2>1. refs' = [refs EXCEPT ![g] = refs[g] + 1] /\ refs[g] \in 0 .. MaxRefs
    BY <1>3, <1>7 DEF Reference
  <2> QED
    BY <1>2, <1>3, <2>1
<1>8. ASSUME NEW g \in Framebuffers, Release(g)
      PROVE  Release(f) /\ ~(refs[f] > 1)
  <2>1. refs' = [refs EXCEPT ![g] = refs[g] - 1] /\ refs[g] \in 0 .. MaxRefs
    BY <1>3, <1>8 DEF Release
  <2>2. g = f /\ ~(refs[f] > 1)
    BY <1>2, <1>3, <2>1
  <2> QED
    BY <1>8, <2>2
<1>9. ASSUME NEW g \in Doubles, Swap(g) PROVE FALSE
  BY <1>2, <1>9 DEF Swap
<1> QED
  BY <1>5, <1>6, <1>7, <1>8, <1>9 DEF Next

\* The last release deletes exactly what the structure owns
\* (a3framebufferHandleRelease_internal and a3framebufferDoubleHandleRelease_internal).
THEOREM ReleaseIsExact == Spec => LastReleaseIsExact
<1> DEFINE Exact(f) ==
      Live(f) /\ ~Live(f)' /\ (f \in Doubles \/ build = "x86") =>
        /\ glTextures' = glTextures \ Owned(f)
        /\ DOMAIN glFbos' = DOMAIN glFbos \ {words[f][i] : i \in FboPositions(f)}
<1>1. ASSUME IInv, IInv', Next, NEW f \in Framebuffers PROVE Exact(f)
  <2> SUFFICES ASSUME Live(f), ~Live(f)', f \in Doubles \/ build = "x86"
               PROVE  /\ glTextures' = glTextures \ Owned(f)
                      /\ DOMAIN glFbos' = DOMAIN glFbos \ {words[f][i] : i \in FboPositions(f)}
    OBVIOUS
  <2>1. Release(f) /\ ~(refs[f] > 1)
    BY <1>1, DeathIsLastRelease
  <2>2. FboWords(f) = FboPositions(f) /\ TextureWords(f) = TexturePlaces(f)
    BY ReleasedWords
  <2>3. RemoveFromDriver({words[f][i] : i \in FboWords(f)},
                         {words[f][i] : i \in TextureWords(f)} \ {0})
    BY <2>1 DEF Release
  <2> QED
    BY <2>2, <2>3 DEF RemoveFromDriver, Owned, TexturePlaces
<1>2. IInv /\ IInv' /\ [Next]_vars => [\A f \in Framebuffers : Exact(f)]_vars
  BY <1>1
<1> QED
  BY <1>2, FramebuffersStaySound, PTL DEF Spec, LastReleaseIsExact

================================================================================
