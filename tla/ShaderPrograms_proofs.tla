------------------------- MODULE ShaderPrograms_proofs -------------------------
(* Shaders, programs and the driver agree, for any number of them, of types  *)
(* and of driver names.                                                      *)
EXTENDS ShaderPrograms, FiniteSetTheorems, TLAPS

\* A descriptor with a handle has references, and one without is clear.
Descriptors ==
  /\ \A s \in Shaders : IF shader[s].name = None THEN shader[s] = NoShader
                                                 ELSE shader[s].count > 0
  /\ \A p \in Programs : IF program[p].name = None THEN program[p] = NoProgram
                                                   ELSE program[p].count > 0

\* What program p has on record is what the driver has attached, each shader once,
\* and a compute shader alone.
RecordOf(p) ==
  program[p].name # None =>
    /\ glPrograms[program[p].name] = {program[p].attached[t] : t \in Types} \ {None}
    /\ \A t, u \in Types : program[p].attached[t] = program[p].attached[u] /\ t # u
                             => program[p].attached[t] = None
    /\ program[p].attached["compute"] # None =>
         \A t \in Types \ {"compute"} : program[p].attached[t] = None

Recorded == \A p \in Programs : RecordOf(p)

\* A shader that still has its handle is attached under its own type.
RightTypes ==
  \A p \in Programs, s \in Shaders, t \in Types :
    /\ program[p].name # None /\ shader[s].name # None
    /\ program[p].attached[t] = shader[s].name
    => shader[s].type = t

\* Handles name objects that are not deleted, each its own, and every such object
\* has a handle.
Owned ==
  /\ \A s \in Shaders : shader[s].name # None => shader[s].name \in glShaders \ glDoomed
  /\ \A p \in Programs : program[p].name # None => program[p].name \in DOMAIN glPrograms \ glDoomed
  /\ \A n \in glShaders \ glDoomed : \E s \in Shaders : shader[s].name = n
  /\ \A n \in DOMAIN glPrograms \ glDoomed : \E p \in Programs : program[p].name = n
  /\ \A s, r \in Shaders : shader[s].name = shader[r].name /\ s # r => shader[s].name = None
  /\ \A p, q \in Programs : program[p].name = program[q].name /\ p # q => program[p].name = None

\* A deleted shader waits for a program, a deleted program to be out of use.
Waiting ==
  /\ \A n \in glDoomed \intersect glShaders : Attached(glPrograms, n)
  /\ glDoomed \intersect DOMAIN glPrograms \subseteq {inUse}

UseIsLinked == inUse # None => inUse \in glLinked

IInv == TypeOK /\ Descriptors /\ Recorded /\ RightTypes /\ Owned /\ Waiting /\ UseIsLinked

\* Before the first call there is nothing to agree about.
LEMMA Init_IInv == Init => IInv
<1> SUFFICES ASSUME Init PROVE IInv
  OBVIOUS
<1> USE ShaderConstants DEF Init, NoShader, NoProgram, NoneAttached
<1>1. TypeOK
  BY DEF TypeOK
<1>2. Descriptors
  BY DEF Descriptors
<1>3. Recorded /\ RightTypes
  BY DEF Recorded, RecordOf, RightTypes
<1>4. Owned /\ Waiting /\ UseIsLinked
  BY DEF Owned, Waiting, UseIsLinked
<1> QED
  BY <1>1, <1>2, <1>3, <1>4 DEF IInv

ShaderDesc  == [name : GLNames \union {None}, count : 0 .. MaxRefs, type : Types]
ProgramDesc == [name : GLNames \union {None}, count : 0 .. MaxRefs,
                linked : BOOLEAN, validated : BOOLEAN,
                attached : [Types -> GLNames \union {None}]]

\* Counting one reference more or less, of several, disturbs nothing.
LEMMA ShaderCountInv ==
  ASSUME IInv, NEW s \in Shaders, shader[s].name # None,
         NEW k \in 1 .. MaxRefs, shader' = [shader EXCEPT ![s].count = k],
         UNCHANGED <<program, driver>>
  PROVE  IInv'
<1> USE DEF driver
<1>1. /\ shader \in [Shaders -> ShaderDesc]
      /\ shader' \in [Shaders -> ShaderDesc]
      /\ \A r \in Shaders : shader'[r].name = shader[r].name /\ shader'[r].type = shader[r].type
      /\ \A r \in Shaders : r # s => shader'[r] = shader[r]
      /\ shader'[s].count = k
  BY DEF IInv, TypeOK, ShaderDesc
<1> HIDE DEF ShaderDesc
<1>2. TypeOK'
  BY <1>1 DEF IInv, TypeOK, ShaderDesc
<1>3. Descriptors'
  BY <1>1 DEF IInv, Descriptors
<1>4. Recorded' /\ RightTypes'
  BY <1>1 DEF IInv, Recorded, RecordOf, RightTypes
<1>5. Owned' /\ Waiting' /\ UseIsLinked'
  BY <1>1 DEF IInv, Owned, Waiting, UseIsLinked, Attached
<1> QED
  BY <1>2, <1>3, <1>4, <1>5 DEF IInv

\* Neither does what changes the count or the flags of a program.
LEMMA ProgramDetailInv ==
  ASSUME IInv, NEW p \in Programs, program[p].name # None,
         program' \in [Programs -> ProgramDesc],
         \A q \in Programs : q # p => program'[q] = program[q],
         program'[p].name = program[p].name, program'[p].attached = program[p].attached,
         program'[p].count > 0,
         UNCHANGED <<shader, glShaders, glDoomed, glPrograms, inUse>>,
         glLinked \subseteq glLinked', glLinked' \subseteq DOMAIN glPrograms
  PROVE  IInv'
<1>1. \A q \in Programs : program'[q].name = program[q].name /\ program'[q].attached = program[q].attached
  OBVIOUS
<1>2. TypeOK'
  BY DEF IInv, TypeOK, ProgramDesc
<1>3. Descriptors'
  BY <1>1 DEF IInv, Descriptors
<1>4. Recorded'
  <2> SUFFICES ASSUME NEW q \in Programs PROVE RecordOf(q)'
    BY DEF Recorded
  <2> QED
    BY <1>1 DEF IInv, Recorded, RecordOf
<1>5. RightTypes'
  BY <1>1 DEF IInv, RightTypes
<1>6. Owned' /\ Waiting' /\ UseIsLinked'
  BY <1>1 DEF IInv, Owned, Waiting, UseIsLinked, Attached
<1> QED
  BY <1>2, <1>3, <1>4, <1>5, <1>6 DEF IInv

\* a3shaderCreateFromSourceList gives its shader an unused name.
LEMMA ShaderCreateInv ==
  ASSUME IInv, NEW s \in Shaders, NEW t \in Types, NEW n \in Unused, ShaderCreate(s, t, n)
  PROVE  IInv'
<1> USE DEF ShaderCreate, Unused
<1>1. /\ n \in GLNames /\ n # None /\ n \notin glShaders /\ n \notin DOMAIN glPrograms
      /\ n \notin glDoomed
  BY ShaderConstants DEF IInv, TypeOK
<1>2. /\ shader'[s] = [name |-> n, count |-> 1, type |-> t]
      /\ \A r \in Shaders : r # s => shader'[r] = shader[r]
      /\ shader' \in [Shaders -> ShaderDesc]
  BY <1>1, ShaderConstants DEF IInv, TypeOK, ShaderDesc
<1>3. TypeOK'
  BY <1>1, <1>2 DEF IInv, TypeOK, ShaderDesc
<1>4. Descriptors'
  BY <1>1, <1>2 DEF IInv, Descriptors
<1>5. Recorded'
  BY DEF IInv, Recorded, RecordOf
<1>6. \A p \in Programs, u \in Types : program[p].name # None => program[p].attached[u] # n
  BY <1>1 DEF IInv, TypeOK, Owned, Recorded, RecordOf
<1>7. RightTypes'
  BY <1>2, <1>6 DEF IInv, RightTypes
<1>8. Owned'
  <2>1. \A r \in Shaders : shader[r].name # n
    BY <1>1 DEF IInv, Owned
  <2>2. \A m \in (glShaders \ glDoomed)' : \E r \in Shaders : shader'[r].name = m
    <3>1. \A m \in glShaders : m # None
      BY ShaderConstants DEF IInv, TypeOK
    <3> QED
      BY <1>1, <1>2, <3>1 DEF IInv, Owned
  <2>3. \A r \in Shaders : shader'[r].name # None => shader'[r].name \in glShaders' \ glDoomed'
    BY <1>1, <1>2 DEF IInv, Owned
  <2>4. \A r, q \in Shaders : shader'[r].name = shader'[q].name /\ r # q => shader'[r].name = None
    BY <1>2, <2>1 DEF IInv, Owned
  <2>5. /\ \A q \in Programs : program[q].name # None => program[q].name \in DOMAIN glPrograms \ glDoomed
        /\ \A m \in DOMAIN glPrograms \ glDoomed : \E q \in Programs : program[q].name = m
        /\ \A p, q \in Programs : program[p].name = program[q].name /\ p # q => program[p].name = None
    BY DEF IInv, Owned
  <2> QED
    BY <2>2, <2>3, <2>4, <2>5 DEF Owned
<1>9. Waiting' /\ UseIsLinked'
  BY <1>1 DEF IInv, Waiting, UseIsLinked, Attached
<1> QED
  BY <1>3, <1>4, <1>5, <1>7, <1>8, <1>9 DEF IInv

\* a3shaderRelease counts down or, the last time, lets the driver delete or flag.
LEMMA ShaderReleaseInv ==
  ASSUME IInv, NEW s \in Shaders, ShaderRelease(s)
  PROVE  IInv'
<1>1. shader[s].name # None /\ shader[s].count \in 1 .. MaxRefs
  BY DEF IInv, TypeOK, Descriptors, NoShader, ShaderRelease
<1>2. CASE shader[s].count # 1
  <2>1. /\ shader' = [shader EXCEPT ![s].count = shader[s].count - 1]
        /\ UNCHANGED <<program, driver>>
        /\ shader[s].count - 1 \in 1 .. MaxRefs
    BY <1>1, <1>2, ShaderConstants DEF ShaderRelease, IInv, TypeOK
  <2> QED
    BY <1>1, <2>1, ShaderCountInv
<1>3. CASE shader[s].count = 1
  <2> DEFINE n == shader[s].name
  <2>1. /\ glDeleteShader(n) /\ shader' = [shader EXCEPT ![s] = NoShader] /\ UNCHANGED program
    BY <1>3 DEF ShaderRelease
  <2>2. n \in glShaders /\ n \notin glDoomed /\ n \notin DOMAIN glPrograms
    BY <1>1 DEF IInv, Owned, TypeOK
  <2>3. UNCHANGED <<glPrograms, glLinked, inUse>>
    BY <2>1 DEF glDeleteShader
  <2>4. \/ Attached(glPrograms, n) /\ glDoomed' = glDoomed \union {n} /\ glShaders' = glShaders
        \/ ~Attached(glPrograms, n) /\ glDoomed' = glDoomed /\ glShaders' = glShaders \ {n}
    BY <2>1 DEF glDeleteShader
  <2>5. /\ shader'[s] = NoShader
        /\ \A r \in Shaders : r # s => shader'[r] = shader[r]
        /\ shader' \in [Shaders -> ShaderDesc]
    BY <2>1, ShaderConstants DEF IInv, TypeOK, ShaderDesc, NoShader
  <2>6. NoShader.name = None
    BY DEF NoShader
  <2> HIDE DEF n
  <2>7. TypeOK'
    <3>1. \A p \in DOMAIN glPrograms : glPrograms[p] \subseteq glShaders'
      BY <2>4 DEF IInv, TypeOK, Attached
    <3> QED
      BY <2>1, <2>2, <2>3, <2>4, <2>5, <3>1 DEF IInv, TypeOK, ShaderDesc
  <2>8. Descriptors'
    BY <2>1, <2>5, <2>6 DEF IInv, Descriptors
  <2>9. Recorded' /\ RightTypes'
    BY <2>1, <2>3, <2>5, <2>6 DEF IInv, Recorded, RecordOf, RightTypes
  <2>10. Owned'
    <3>1. \A r \in Shaders : r # s => shader[r].name # n
      BY <1>1 DEF IInv, Owned, n
    <3>2. glShaders' \ glDoomed' = (glShaders \ glDoomed) \ {n}
      BY <2>4
    <3>3. DOMAIN glPrograms \ glDoomed' = DOMAIN glPrograms \ glDoomed
      BY <2>2, <2>4
    <3>4. \A r \in Shaders : shader'[r].name # None => shader'[r].name \in glShaders' \ glDoomed'
      BY <2>5, <2>6, <3>1, <3>2 DEF IInv, Owned
    <3>5. \A m \in glShaders' \ glDoomed' : \E r \in Shaders : shader'[r].name = m
      BY <2>5, <3>2 DEF IInv, Owned, n
    <3>6. \A r, q \in Shaders : shader'[r].name = shader'[q].name /\ r # q => shader'[r].name = None
      BY <2>5, <2>6 DEF IInv, Owned
    <3>7. /\ \A p \in Programs : program[p].name # None => program[p].name \in DOMAIN glPrograms \ glDoomed'
          /\ \A m \in DOMAIN glPrograms \ glDoomed' : \E p \in Programs : program[p].name = m
      BY <3>3 DEF IInv, Owned
    <3>8. \A p, q \in Programs : program[p].name = program[q].name /\ p # q => program[p].name = None
      BY DEF IInv, Owned
    <3> QED
      BY <2>1, <2>3, <3>4, <3>5, <3>6, <3>7, <3>8 DEF Owned
  <2>11. Waiting' /\ UseIsLinked'
    BY <2>2, <2>3, <2>4 DEF IInv, Waiting, UseIsLinked, Attached
  <2> QED
    BY <2>7, <2>8, <2>9, <2>10, <2>11 DEF IInv
<1> QED
  BY <1>2, <1>3

\* Handles of live objects are names, and a program's own.
LEMMA NamesExist ==
  ASSUME IInv
  PROVE  /\ \A n \in glShaders \union DOMAIN glPrograms : n # None
         /\ glShaders \intersect DOMAIN glPrograms = {}
         /\ \A p \in Programs : program[p].name # None =>
              /\ program[p].name \in DOMAIN glPrograms
              /\ program[p].name \notin glDoomed
              /\ \A q \in Programs : q # p => program[q].name # program[p].name
<1>1. \A n \in glShaders \union DOMAIN glPrograms : n # None
  BY ShaderConstants DEF IInv, TypeOK
<1>2. glShaders \intersect DOMAIN glPrograms = {}
  BY DEF IInv, TypeOK
<1> QED
  BY <1>1, <1>2 DEF IInv, Owned

\* a3shaderProgramCreate starts a record with nothing attached.
LEMMA ProgramCreateInv ==
  ASSUME IInv, NEW p \in Programs, NEW n \in Unused, ProgramCreate(p, n)
  PROVE  IInv'
<1> USE DEF ProgramCreate
<1>1. /\ n \in GLNames /\ n # None /\ n \notin glShaders /\ n \notin DOMAIN glPrograms
      /\ n \notin glDoomed
  BY ShaderConstants DEF IInv, TypeOK, Unused
<1>2. /\ program'[p].name = n /\ program'[p].count = 1 /\ program'[p].attached = NoneAttached
      /\ \A q \in Programs : q # p => program'[q] = program[q]
      /\ program' \in [Programs -> ProgramDesc]
  <2> DEFINE new == [name |-> n, count |-> 1, linked |-> FALSE, validated |-> FALSE,
                     attached |-> NoneAttached]
  <2>1. new \in ProgramDesc /\ new.name = n /\ new.count = 1 /\ new.attached = NoneAttached
    <3>1. NoneAttached \in [Types -> GLNames \union {None}] /\ 1 \in 0 .. MaxRefs
      BY ShaderConstants DEF NoneAttached
    <3> QED
      BY <1>1, <3>1 DEF ProgramDesc
  <2>2. program \in [Programs -> ProgramDesc]
    BY DEF IInv, TypeOK, ProgramDesc
  <2>3. program' = [program EXCEPT ![p] = new]
    OBVIOUS
  <2> HIDE DEF new
  <2> QED
    BY <2>1, <2>2, <2>3
<1>3. /\ DOMAIN glPrograms' = DOMAIN glPrograms \union {n}
      /\ glPrograms'[n] = {}
      /\ \A m \in DOMAIN glPrograms : glPrograms'[m] = glPrograms[m]
  BY <1>1
<1>4. TypeOK'
  <2>1. \A m \in DOMAIN glPrograms' : glPrograms'[m] \subseteq glShaders'
    BY <1>3 DEF IInv, TypeOK
  <2> QED
    BY <1>1, <1>2, <1>3, <2>1 DEF IInv, TypeOK, ProgramDesc
<1>5. Descriptors'
  BY <1>1, <1>2 DEF IInv, Descriptors
<1>6. Recorded'
  <2> SUFFICES ASSUME NEW q \in Programs PROVE RecordOf(q)'
    BY DEF Recorded
  <2>1. RecordOf(p)'
    <3>1. {program'[p].attached[t] : t \in Types} \ {None} = {}
      BY <1>2 DEF NoneAttached
    <3> QED
      BY <1>2, <1>3, <3>1 DEF RecordOf, NoneAttached
  <2>2. CASE q # p
    <3>1. program[q].name # None => program[q].name \in DOMAIN glPrograms
      BY NamesExist
    <3> QED
      BY <1>2, <1>3, <2>2, <3>1 DEF IInv, Recorded, RecordOf
  <2> QED
    BY <2>1, <2>2
<1>7. RightTypes'
  BY <1>2 DEF IInv, RightTypes, NoneAttached
<1>8. Owned'
  <2>1. \A q \in Programs : program[q].name # n
    BY <1>1, NamesExist
  <2>2. \A m \in DOMAIN glPrograms' \ glDoomed : \E q \in Programs : program'[q].name = m
    BY <1>1, <1>2, <1>3, NamesExist DEF IInv, Owned
  <2>3. \A q \in Programs : program'[q].name # None => program'[q].name \in DOMAIN glPrograms' \ glDoomed
    BY <1>1, <1>2, <1>3 DEF IInv, Owned
  <2>4. \A q, r \in Programs : program'[q].name = program'[r].name /\ q # r => program'[q].name = None
    BY <1>2, <2>1 DEF IInv, Owned
  <2> QED
    BY <2>2, <2>3, <2>4 DEF IInv, Owned
<1>9. Waiting' /\ UseIsLinked'
  BY <1>1, <1>3 DEF IInv, Waiting, UseIsLinked, Attached
<1> QED
  BY <1>4, <1>5, <1>6, <1>7, <1>8, <1>9 DEF IInv

\* a3shaderProgramAttachShader writes the record and the driver alike.
LEMMA AttachInv ==
  ASSUME IInv, NEW p \in Programs, NEW s \in Shaders, AttachShader(p, s)
  PROVE  IInv'
<1> DEFINE u == shader[s].type
           n == shader[s].name
           g == program[p].name
<1>1. /\ n # None /\ g # None /\ u \in Types
      /\ program[p].attached[u] = None
      /\ IF u = "compute" THEN program[p].attached = NoneAttached
                          ELSE program[p].attached["compute"] = None
      /\ program' = [program EXCEPT ![p].attached[u] = n]
      /\ glPrograms' = [glPrograms EXCEPT ![g] = @ \union {n}]
      /\ UNCHANGED <<shader, glShaders, glDoomed, glLinked, inUse>>
  BY DEF AttachShader, BothExist, MayAttach, IInv, TypeOK
<1>2. n \in glShaders /\ n \notin glDoomed /\ n \in GLNames /\ g \in DOMAIN glPrograms
  BY <1>1 DEF IInv, Owned, TypeOK
<1>3. /\ program' \in [Programs -> ProgramDesc]
      /\ \A q \in Programs : q # p => program'[q] = program[q]
      /\ program'[p].name = g /\ program'[p].count = program[p].count
      /\ program'[p].attached = [program[p].attached EXCEPT ![u] = n]
  BY <1>1, <1>2 DEF IInv, TypeOK, ProgramDesc
<1>4. /\ DOMAIN glPrograms' = DOMAIN glPrograms
      /\ glPrograms'[g] = glPrograms[g] \union {n}
      /\ \A m \in DOMAIN glPrograms : m # g => glPrograms'[m] = glPrograms[m]
  BY <1>1, <1>2
<1>5. /\ program[p].attached \in [Types -> GLNames \union {None}]
      /\ program'[p].attached[u] = n
      /\ \A t \in Types : t # u => program'[p].attached[t] = program[p].attached[t]
  BY <1>1, <1>3 DEF IInv, TypeOK
<1>6. \A q \in Programs : program'[q].name = program[q].name
  BY <1>3
<1> HIDE DEF u, n, g
<1>7. TypeOK'
  <2>1. \A m \in DOMAIN glPrograms' : glPrograms'[m] \subseteq glShaders'
    BY <1>1, <1>2, <1>4 DEF IInv, TypeOK
  <2> QED
    BY <1>1, <1>3, <1>4, <2>1 DEF IInv, TypeOK, ProgramDesc
<1>8. Descriptors'
  BY <1>1, <1>3 DEF IInv, Descriptors, g
<1>9. \A t \in Types : t # u => program[p].attached[t] # n
  BY <1>1 DEF IInv, RightTypes, u, n, g
<1>10. Recorded'
  <2> SUFFICES ASSUME NEW q \in Programs PROVE RecordOf(q)'
    BY DEF Recorded
  <2>1. CASE q = p
    <3>1. {program'[p].attached[t] : t \in Types} \ {None}
            = ({program[p].attached[t] : t \in Types} \ {None}) \union {n}
      BY <1>1, <1>5
    <3>2. RecordOf(p)
      BY DEF IInv, Recorded
    <3>3. glPrograms'[g] = {program'[p].attached[t] : t \in Types} \ {None}
      BY <1>1, <1>4, <3>1, <3>2 DEF RecordOf, g
    <3>4. \A t, v \in Types : program'[p].attached[t] = program'[p].attached[v] /\ t # v
                                => program'[p].attached[t] = None
      BY <1>1, <1>5, <1>9, <3>2 DEF RecordOf, g
    <3>5. program'[p].attached["compute"] # None =>
            \A t \in Types \ {"compute"} : program'[p].attached[t] = None
      BY <1>1, <1>5, <3>2, ShaderConstants DEF RecordOf, g, NoneAttached
    <3>6. RecordOf(p)'
      BY <1>3, <3>3, <3>4, <3>5 DEF RecordOf
    <3> QED
      BY <2>1, <3>6
  <2>2. CASE q # p
    <3>1. program[q].name # None => program[q].name \in DOMAIN glPrograms /\ program[q].name # g
      BY <1>1, <2>2, NamesExist DEF g
    <3> QED
      BY <1>3, <1>4, <2>2, <3>1 DEF IInv, Recorded, RecordOf
  <2> QED
    BY <2>1, <2>2
<1>11. RightTypes'
  <2> SUFFICES ASSUME NEW q \in Programs, NEW r \in Shaders, NEW t \in Types,
                      program'[q].name # None, shader'[r].name # None,
                      program'[q].attached[t] = shader'[r].name
               PROVE  shader'[r].type = t
    BY DEF RightTypes
  <2>1. CASE q = p /\ t = u
    <3>1. r = s
      BY <1>1, <1>5, <2>1 DEF IInv, Owned, n
    <3> QED
      BY <1>1, <2>1, <3>1 DEF u
  <2>2. CASE ~(q = p /\ t = u)
    BY <1>1, <1>3, <1>5, <1>6, <2>2 DEF IInv, RightTypes
  <2> QED
    BY <2>1, <2>2
<1>12. Owned'
  BY <1>1, <1>4, <1>6 DEF IInv, Owned
<1>13. Waiting' /\ UseIsLinked'
  <2>1. \A m \in glDoomed : Attached(glPrograms, m) => Attached(glPrograms', m)
    BY <1>2, <1>4 DEF Attached
  <2> QED
    BY <1>1, <1>4, <2>1 DEF IInv, Waiting, UseIsLinked
<1> QED
  BY <1>7, <1>8, <1>10, <1>11, <1>12, <1>13 DEF IInv

\* a3shaderProgramDetachShaderType clears both, and may free a flagged shader.
LEMMA DetachInv ==
  ASSUME IInv, NEW p \in Programs, NEW u \in Types, DetachShaderType(p, u)
  PROVE  IInv'
<1> DEFINE n == program[p].attached[u]
           g == program[p].name
           left == [glPrograms EXCEPT ![g] = @ \ {n}]
<1>1. /\ g # None /\ n # None
      /\ program' = [program EXCEPT ![p].attached[u] = None]
      /\ glPrograms' = left
      /\ UNCHANGED <<shader, glLinked, inUse>>
      /\ \/ n \in glDoomed /\ ~Attached(left, n) /\ glShaders' = glShaders \ {n} /\ glDoomed' = glDoomed \ {n}
         \/ (n \notin glDoomed \/ Attached(left, n)) /\ glShaders' = glShaders /\ glDoomed' = glDoomed
  BY DEF DetachShaderType
<1>2. g \in DOMAIN glPrograms
  BY <1>1, NamesExist
<1>3. program[p].attached \in [Types -> GLNames \union {None}]
  BY DEF IInv, TypeOK
<1>4. /\ program' \in [Programs -> ProgramDesc]
      /\ \A q \in Programs : q # p => program'[q] = program[q]
      /\ program'[p].name = g /\ program'[p].count = program[p].count
      /\ program'[p].attached = [program[p].attached EXCEPT ![u] = None]
  BY <1>1 DEF IInv, TypeOK, ProgramDesc
<1>5. /\ program'[p].attached[u] = None
      /\ \A t \in Types : t # u => program'[p].attached[t] = program[p].attached[t]
  BY <1>3, <1>4
<1>6. /\ DOMAIN glPrograms' = DOMAIN glPrograms
      /\ glPrograms'[g] = glPrograms[g] \ {n}
      /\ \A m \in DOMAIN glPrograms : m # g => glPrograms'[m] = glPrograms[m]
  BY <1>1, <1>2
<1>7. \A q \in Programs : program'[q].name = program[q].name
  BY <1>4
<1>8. RecordOf(p)
  BY DEF IInv, Recorded
<1>9. n \in glPrograms[g] /\ n \in glShaders
  BY <1>1, <1>2, <1>8 DEF RecordOf, IInv, TypeOK
<1>10. n \notin DOMAIN glPrograms
  BY <1>9 DEF IInv, TypeOK
<1>11. Attached(glPrograms', n) <=> Attached(left, n)
  BY <1>1
<1> HIDE DEF n, g, left
<1>12. TypeOK'
  <2>1. \A m \in DOMAIN glPrograms' : glPrograms'[m] \subseteq glShaders'
    BY <1>1, <1>2, <1>6, <1>11 DEF IInv, TypeOK, Attached
  <2> QED
    BY <1>1, <1>4, <1>6, <1>10, <2>1 DEF IInv, TypeOK, ProgramDesc
<1>13. Descriptors'
  BY <1>1, <1>4 DEF IInv, Descriptors, g
<1>14. Recorded'
  <2> SUFFICES ASSUME NEW q \in Programs PROVE RecordOf(q)'
    BY DEF Recorded
  <2>1. RecordOf(p)'
    <3>1. \A t \in Types : t # u => program[p].attached[t] # n
      BY <1>1, <1>8 DEF RecordOf, n, g
    <3>2. {program'[p].attached[t] : t \in Types} \ {None}
            = ({program[p].attached[t] : t \in Types} \ {None}) \ {n}
      <4>1. \A t \in Types : program'[p].attached[t] = IF t = u THEN None ELSE program[p].attached[t]
        BY <1>5
      <4>2. program[p].attached[u] = n
        BY DEF n
      <4> QED
        BY <3>1, <4>1, <4>2
    <3>3. glPrograms'[g] = {program'[p].attached[t] : t \in Types} \ {None}
      BY <1>1, <1>6, <1>8, <3>2 DEF RecordOf, g
    <3>4. \A t, v \in Types : program'[p].attached[t] = program'[p].attached[v] /\ t # v
                                => program'[p].attached[t] = None
      BY <1>1, <1>5, <1>8 DEF RecordOf, g
    <3>5. program'[p].attached["compute"] # None =>
            \A t \in Types \ {"compute"} : program'[p].attached[t] = None
      BY <1>1, <1>5, <1>8, ShaderConstants DEF RecordOf, g
    <3> QED
      BY <1>4, <3>3, <3>4, <3>5 DEF RecordOf
  <2>2. CASE q # p
    <3>1. program[q].name # None => program[q].name \in DOMAIN glPrograms /\ program[q].name # g
      BY <1>1, <2>2, NamesExist DEF g
    <3> QED
      BY <1>4, <1>6, <2>2, <3>1 DEF IInv, Recorded, RecordOf
  <2> QED
    BY <2>1, <2>2
<1>15. RightTypes'
  <2>1. \A q \in Programs, t \in Types : program'[q].attached[t] \in {program[q].attached[t], None}
    BY <1>4, <1>5
  <2> QED
    BY <1>1, <1>7, <2>1 DEF IInv, RightTypes
<1>16. Owned'
  <2>1. glShaders' \ glDoomed' = glShaders \ glDoomed
    BY <1>1
  <2>2. DOMAIN glPrograms' \ glDoomed' = DOMAIN glPrograms \ glDoomed
    BY <1>1, <1>6, <1>10
  <2> QED
    BY <1>1, <1>7, <2>1, <2>2 DEF IInv, Owned
<1>17. Waiting' /\ UseIsLinked'
  <2>1. ASSUME NEW m \in glDoomed' \intersect glShaders' PROVE Attached(glPrograms', m)
    <3>1. CASE m = n
      BY <1>1, <1>11, <2>1, <3>1
    <3>2. CASE m # n
      <4>1. PICK x \in DOMAIN glPrograms : m \in glPrograms[x]
        BY <1>1, <2>1 DEF IInv, Waiting, Attached
      <4> QED
        BY <1>6, <3>2, <4>1 DEF Attached
    <3> QED
      BY <3>1, <3>2
  <2> QED
    BY <1>1, <1>6, <2>1 DEF IInv, Waiting, UseIsLinked
<1> QED
  BY <1>12, <1>13, <1>14, <1>15, <1>16, <1>17 DEF IInv

\* A program leaves the driver, with the shaders that only waited for it, and its
\* descriptor, if there still is one, is clear.
LEMMA ProgramGoneInv ==
  ASSUME IInv, NEW n \in DOMAIN glPrograms, ProgramGone(n), UNCHANGED shader,
         program' \in [Programs -> ProgramDesc],
         \A q \in Programs : program'[q] = IF program[q].name = n THEN NoProgram ELSE program[q],
         inUse' \in {None} \union (glLinked \ {n}),
         (glDoomed \intersect DOMAIN glPrograms) \ {n} \subseteq {inUse'}
  PROVE  IInv'
<1> DEFINE left == [m \in DOMAIN glPrograms \ {n} |-> glPrograms[m]]
           gone == {s \in glDoomed \intersect glShaders : ~Attached(left, s)}
<1>1. /\ glPrograms' = left
      /\ glShaders' = glShaders \ gone
      /\ glDoomed' = glDoomed \ (gone \union {n})
      /\ glLinked' = glLinked \ {n}
  BY DEF ProgramGone
<1>2. /\ DOMAIN glPrograms' = DOMAIN glPrograms \ {n}
      /\ \A m \in DOMAIN glPrograms : m # n => glPrograms'[m] = glPrograms[m]
  BY <1>1
<1>3. gone \subseteq glDoomed \intersect glShaders
  OBVIOUS
<1>4. \A s \in glDoomed \intersect glShaders : s \notin gone => Attached(glPrograms', s)
  BY <1>1
<1>5. \A s \in gone : ~Attached(glPrograms', s)
  BY <1>1
<1> HIDE DEF left, gone
<1>6. n \notin glShaders /\ n # None
  BY NamesExist
<1>7. NoProgram.name = None
  BY DEF NoProgram
<1>8. TypeOK'
  <2>1. \A m \in DOMAIN glPrograms' : glPrograms'[m] \subseteq glShaders'
    BY <1>1, <1>2, <1>5 DEF IInv, TypeOK, Attached
  <2>2. /\ DOMAIN glPrograms' \subseteq GLNames \ glShaders'
        /\ glShaders' \subseteq GLNames /\ glLinked' \subseteq DOMAIN glPrograms'
        /\ inUse' \in DOMAIN glPrograms' \union {None}
    BY <1>1, <1>2 DEF IInv, TypeOK
  <2>3. glDoomed' \subseteq glShaders' \union DOMAIN glPrograms'
    BY <1>1, <1>2 DEF IInv, TypeOK
  <2> QED
    BY <2>1, <2>2, <2>3 DEF IInv, TypeOK, ProgramDesc
<1>9. Descriptors'
  BY <1>7 DEF IInv, Descriptors
<1>10. Recorded'
  <2> SUFFICES ASSUME NEW q \in Programs, program'[q].name # None PROVE RecordOf(q)'
    BY DEF Recorded, RecordOf
  <2>1. program'[q] = program[q] /\ program[q].name # n
    BY <1>7
  <2>2. program[q].name \in DOMAIN glPrograms
    BY <2>1, NamesExist
  <2> QED
    BY <1>2, <2>1, <2>2 DEF IInv, Recorded, RecordOf
<1>11. RightTypes'
  <2>1. \A q \in Programs : program'[q].name # None => program'[q] = program[q]
    BY <1>7
  <2> QED
    BY <2>1 DEF IInv, RightTypes
<1>12. Owned'
  <2>1. glShaders' \ glDoomed' = glShaders \ glDoomed
    BY <1>1, <1>3, <1>6
  <2>2. DOMAIN glPrograms' \ glDoomed' = (DOMAIN glPrograms \ glDoomed) \ {n}
    BY <1>1, <1>2, <1>3, NamesExist
  <2>3. \A q \in Programs : program'[q].name = IF program[q].name = n THEN None ELSE program[q].name
    BY <1>7
  <2>4. \A q \in Programs : program'[q].name # None => program'[q].name \in DOMAIN glPrograms' \ glDoomed'
    BY <2>2, <2>3 DEF IInv, Owned
  <2>5. \A m \in DOMAIN glPrograms' \ glDoomed' : \E q \in Programs : program'[q].name = m
    BY <2>2, <2>3 DEF IInv, Owned
  <2>6. \A q, r \in Programs : program'[q].name = program'[r].name /\ q # r => program'[q].name = None
    BY <2>3 DEF IInv, Owned
  <2>7. /\ \A s \in Shaders : shader[s].name # None => shader[s].name \in glShaders' \ glDoomed'
        /\ \A m \in glShaders' \ glDoomed' : \E s \in Shaders : shader[s].name = m
        /\ \A s, r \in Shaders : shader[s].name = shader[r].name /\ s # r => shader[s].name = None
    BY <2>1 DEF IInv, Owned
  <2> QED
    BY <2>4, <2>5, <2>6, <2>7 DEF Owned
<1>13. Waiting' /\ UseIsLinked'
  <2>1. \A s \in glDoomed' \intersect glShaders' : Attached(glPrograms', s)
    BY <1>1, <1>4
  <2>2. glDoomed' \intersect DOMAIN glPrograms' \subseteq {inUse'}
    BY <1>1, <1>2
  <2>3. inUse' # None => inUse' \in glLinked'
    BY <1>1
  <2> QED
    BY <2>1, <2>2, <2>3 DEF Waiting, UseIsLinked
<1> QED
  BY <1>8, <1>9, <1>10, <1>11, <1>12, <1>13 DEF IInv

\* a3shaderProgramRelease counts down, deletes, or flags a program in use.
LEMMA ProgramReleaseInv ==
  ASSUME IInv, NEW p \in Programs, ProgramRelease(p)
  PROVE  IInv'
<1> DEFINE n == program[p].name
<1>1. n # None /\ program[p].count \in 1 .. MaxRefs
  BY DEF IInv, TypeOK, Descriptors, NoProgram, ProgramRelease
<1>2. program \in [Programs -> ProgramDesc]
  BY DEF IInv, TypeOK, ProgramDesc
<1>3. CASE program[p].count # 1
  <2>1. /\ program' = [program EXCEPT ![p].count = program[p].count - 1]
        /\ UNCHANGED <<shader, driver>>
        /\ program[p].count - 1 \in 1 .. MaxRefs
    BY <1>1, <1>3, ShaderConstants DEF ProgramRelease
  <2>2. /\ program' \in [Programs -> ProgramDesc]
        /\ \A q \in Programs : q # p => program'[q] = program[q]
        /\ program'[p].name = program[p].name /\ program'[p].attached = program[p].attached
        /\ program'[p].count > 0
    BY <1>2, <2>1 DEF ProgramDesc
  <2> QED
    BY <1>1, <2>1, <2>2, ProgramDetailInv DEF driver, IInv, TypeOK
<1>4. CASE program[p].count = 1
  <2>1. /\ glDeleteProgram(n) /\ program' = [program EXCEPT ![p] = NoProgram]
        /\ UNCHANGED <<shader, inUse>>
    BY <1>4 DEF ProgramRelease, glDeleteProgram
  <2>2. /\ n \in DOMAIN glPrograms /\ n \notin glDoomed /\ n \notin glShaders
        /\ \A q \in Programs : q # p => program[q].name # n
    BY <1>1, NamesExist
  <2>3. NoProgram \in ProgramDesc /\ NoProgram.name = None
    <3>1. NoneAttached \in [Types -> GLNames \union {None}]
      BY DEF NoneAttached
    <3> QED
      BY <3>1, ShaderConstants DEF NoProgram, ProgramDesc
  <2>4. /\ program' \in [Programs -> ProgramDesc]
        /\ program'[p] = NoProgram
        /\ \A q \in Programs : q # p => program'[q] = program[q]
        /\ \A q \in Programs : program'[q] = IF program[q].name = n THEN NoProgram ELSE program[q]
    BY <1>2, <2>1, <2>2, <2>3
  <2> HIDE DEF n
  <2>5. CASE inUse # n
    <3>1. ProgramGone(n)
      BY <2>1, <2>5 DEF glDeleteProgram
    <3>2. inUse' \in {None} \union (glLinked \ {n})
      BY <2>1, <2>5 DEF IInv, UseIsLinked
    <3>3. (glDoomed \intersect DOMAIN glPrograms) \ {n} \subseteq {inUse'}
      BY <2>1 DEF IInv, Waiting
    <3> QED
      BY <2>1, <2>2, <2>4, <3>1, <3>2, <3>3, ProgramGoneInv
  <2>6. CASE inUse = n
    <3>1. glDoomed' = glDoomed \union {n} /\ UNCHANGED <<glShaders, glPrograms, glLinked>>
      BY <2>1, <2>6 DEF glDeleteProgram
    <3>2. TypeOK'
      BY <2>1, <2>2, <2>4, <3>1 DEF IInv, TypeOK, ProgramDesc
    <3>3. Descriptors'
      BY <2>1, <2>3, <2>4 DEF IInv, Descriptors
    <3>4. Recorded' /\ RightTypes'
      <4>1. \A q \in Programs : program'[q].name # None => program'[q] = program[q]
        BY <2>3, <2>4
      <4>2. ASSUME NEW q \in Programs, program'[q].name # None PROVE RecordOf(q)'
        <5>1. program'[q] = program[q]
          BY <4>1, <4>2
        <5> QED
          BY <3>1, <4>2, <5>1 DEF IInv, Recorded, RecordOf
      <4>3. \A q \in Programs : RecordOf(q)'
        BY <4>2 DEF RecordOf
      <4> QED
        BY <2>1, <4>1, <4>3 DEF IInv, Recorded, RightTypes
    <3>5. Owned'
      <4>1. glShaders' \ glDoomed' = glShaders \ glDoomed
        BY <2>2, <3>1
      <4>2. DOMAIN glPrograms' \ glDoomed' = (DOMAIN glPrograms \ glDoomed) \ {n}
        BY <3>1
      <4>3. \A q \in Programs : program'[q].name = IF program[q].name = n THEN None ELSE program[q].name
        BY <2>3, <2>4
      <4>4. \A q \in Programs : program'[q].name # None => program'[q].name \in DOMAIN glPrograms' \ glDoomed'
        BY <4>2, <4>3 DEF IInv, Owned
      <4>5. \A m \in DOMAIN glPrograms' \ glDoomed' : \E q \in Programs : program'[q].name = m
        BY <4>2, <4>3 DEF IInv, Owned
      <4>6. \A q, r \in Programs : program'[q].name = program'[r].name /\ q # r => program'[q].name = None
        BY <4>3 DEF IInv, Owned
      <4>7. /\ \A s \in Shaders : shader[s].name # None => shader[s].name \in glShaders' \ glDoomed'
            /\ \A m \in glShaders' \ glDoomed' : \E s \in Shaders : shader[s].name = m
            /\ \A s, r \in Shaders : shader[s].name = shader[r].name /\ s # r => shader[s].name = None
        BY <4>1 DEF IInv, Owned
      <4> QED
        BY <2>1, <4>4, <4>5, <4>6, <4>7 DEF Owned
    <3>6. Waiting' /\ UseIsLinked'
      BY <2>1, <2>2, <2>6, <3>1 DEF IInv, Waiting, UseIsLinked, Attached
    <3> QED
      BY <3>2, <3>3, <3>4, <3>5, <3>6 DEF IInv
  <2> QED
    BY <2>5, <2>6
<1> QED
  BY <1>3, <1>4

\* Activating another program may free the one that was in use.
LEMMA UseInv ==
  ASSUME IInv, NEW n \in GLNames \union {None}, n \notin glDoomed,
         glUseProgram(n), UNCHANGED <<shader, program>>
  PROVE  IInv'
<1>1. CASE UNCHANGED driver
  BY <1>1 DEF driver, IInv, TypeOK, Descriptors, Recorded, RecordOf, RightTypes, Owned,
              Waiting, UseIsLinked, Attached
<1>2. CASE ~ UNCHANGED driver
  <2>1. /\ n # None => n \in glLinked
        /\ inUse' = n
        /\ IF inUse \in glDoomed /\ inUse # n
           THEN ProgramGone(inUse)
           ELSE UNCHANGED <<glShaders, glDoomed, glPrograms, glLinked>>
    BY <1>2 DEF glUseProgram
  <2>2. CASE inUse \in glDoomed /\ inUse # n
    <3>1. inUse \in DOMAIN glPrograms
      BY <2>2, ShaderConstants DEF IInv, TypeOK
    <3>2. \A q \in Programs : program'[q] = IF program[q].name = inUse THEN NoProgram ELSE program[q]
      BY <2>2, <3>1, NamesExist
    <3>3. program' \in [Programs -> ProgramDesc]
      BY DEF IInv, TypeOK, ProgramDesc
    <3>4. inUse' \in {None} \union (glLinked \ {inUse})
      BY <2>1, <2>2
    <3>5. (glDoomed \intersect DOMAIN glPrograms) \ {inUse} \subseteq {inUse'}
      BY DEF IInv, Waiting
    <3> QED
      BY <2>1, <2>2, <3>1, <3>2, <3>3, <3>4, <3>5, ProgramGoneInv
  <2>3. CASE ~(inUse \in glDoomed /\ inUse # n)
    <3>1. UNCHANGED <<glShaders, glDoomed, glPrograms, glLinked>>
      BY <2>1, <2>3
    <3>2. glDoomed \intersect DOMAIN glPrograms \subseteq {inUse'}
      BY <2>1, <2>3 DEF IInv, Waiting
    <3>3. TypeOK'
      BY <2>1, <3>1 DEF IInv, TypeOK
    <3>4. Descriptors' /\ Recorded' /\ RightTypes' /\ Owned'
      BY <3>1 DEF IInv, Descriptors, Recorded, RecordOf, RightTypes, Owned
    <3>5. Waiting' /\ UseIsLinked'
      BY <2>1, <3>1, <3>2 DEF IInv, Waiting, UseIsLinked, Attached
    <3> QED
      BY <3>3, <3>4, <3>5 DEF IInv
  <2> QED
    BY <2>2, <2>3
<1> QED
  BY <1>1, <1>2

\* a3shaderProgramCreateSelfContained, whatever fails on its way.
LEMMA CreateSelfContainedInv ==
  ASSUME IInv, NEW p \in Programs, NEW n \in Unused,
         NEW given \in SUBSET (Types \intersect {"vertex", "geometry", "fragment"}),
         NEW compiled \in [given -> Unused], NEW linked \in BOOLEAN, NEW validated \in BOOLEAN,
         CreateSelfContained(p, n, compiled, linked, validated)
  PROVE  IInv'
<1> DEFINE types == IF "vertex" \in DOMAIN compiled THEN DOMAIN compiled ELSE {}
           names == {compiled[t] : t \in types}
           att   == [t \in Types |-> IF t \in types THEN compiled[t] ELSE None]
           new   == [name |-> n, count |-> 1, linked |-> linked, validated |-> validated, attached |-> att]
<1>1. /\ program[p].name = None
      /\ n \in Unused /\ names \subseteq Unused /\ n \notin names
      /\ \A t, u \in types : compiled[t] = compiled[u] => t = u
      /\ program' = [program EXCEPT ![p] = new]
      /\ glPrograms' = [m \in DOMAIN glPrograms \union {n} |-> IF m = n THEN names ELSE glPrograms[m]]
      /\ glShaders' = glShaders \union names
      /\ glDoomed' = glDoomed \union names
      /\ glLinked \subseteq glLinked' /\ glLinked' \subseteq glLinked \union {n}
      /\ UNCHANGED <<shader, inUse>>
  BY DEF CreateSelfContained, ReleasedAtOnce
<1>2. /\ n \in GLNames /\ n # None /\ n \notin glShaders /\ n \notin DOMAIN glPrograms
      /\ n \notin glDoomed
      /\ names \subseteq GLNames /\ None \notin names
      /\ names \intersect (glShaders \union DOMAIN glPrograms \union glDoomed) = {}
  BY <1>1, ShaderConstants DEF IInv, TypeOK, Unused
<1>3. /\ types \subseteq Types /\ "compute" \notin types
      /\ \A t \in types : compiled[t] \in names
      /\ \A m \in names : \E t \in types : m = compiled[t]
  OBVIOUS
<1>4. /\ att \in [Types -> GLNames \union {None}]
      /\ \A t \in Types : att[t] = IF t \in types THEN compiled[t] ELSE None
  BY <1>2, <1>3
<1> HIDE DEF types, names, att
<1>5. /\ program' \in [Programs -> ProgramDesc]
      /\ program'[p] = new
      /\ new.name = n /\ new.count = 1 /\ new.attached = att
      /\ \A q \in Programs : q # p => program'[q] = program[q]
  <2>1. new \in ProgramDesc
    BY <1>2, <1>4, ShaderConstants DEF ProgramDesc
  <2>2. program \in [Programs -> ProgramDesc]
    BY DEF IInv, TypeOK, ProgramDesc
  <2> QED
    BY <1>1, <2>1, <2>2
<1>6. /\ DOMAIN glPrograms' = DOMAIN glPrograms \union {n}
      /\ glPrograms'[n] = names
      /\ \A m \in DOMAIN glPrograms : glPrograms'[m] = glPrograms[m]
  BY <1>1, <1>2
<1> HIDE DEF new
<1>7. TypeOK'
  <2>1. \A m \in DOMAIN glPrograms' : glPrograms'[m] \subseteq glShaders'
    BY <1>1, <1>6 DEF IInv, TypeOK
  <2>2. /\ glShaders' \subseteq GLNames
        /\ DOMAIN glPrograms' \subseteq GLNames \ glShaders'
        /\ glDoomed' \subseteq glShaders' \union DOMAIN glPrograms'
        /\ glLinked' \subseteq DOMAIN glPrograms'
        /\ inUse' \in DOMAIN glPrograms' \union {None}
    BY <1>1, <1>2, <1>6 DEF IInv, TypeOK
  <2> QED
    BY <1>1, <1>5, <2>1, <2>2 DEF IInv, TypeOK, ProgramDesc
<1>8. Descriptors'
  BY <1>1, <1>2, <1>5 DEF IInv, Descriptors
<1>9. Recorded'
  <2> SUFFICES ASSUME NEW q \in Programs PROVE RecordOf(q)'
    BY DEF Recorded
  <2>1. RecordOf(p)'
    <3>1. {att[t] : t \in Types} \ {None} = names
      <4>1. ASSUME NEW m \in {att[t] : t \in Types} \ {None} PROVE m \in names
        BY <1>3, <1>4
      <4>2. ASSUME NEW m \in names PROVE m \in {att[t] : t \in Types} \ {None}
        BY <1>2, <1>3, <1>4
      <4> QED
        BY <4>1, <4>2
    <3>2. \A t, u \in Types : att[t] = att[u] /\ t # u => att[t] = None
      BY <1>1, <1>2, <1>3, <1>4
    <3>3. att["compute"] = None
      BY <1>3, <1>4, ShaderConstants
    <3> QED
      BY <1>5, <1>6, <3>1, <3>2, <3>3 DEF RecordOf
  <2>2. CASE q # p
    <3>1. program[q].name # None => program[q].name \in DOMAIN glPrograms
      BY NamesExist
    <3> QED
      BY <1>5, <1>6, <2>2, <3>1 DEF IInv, Recorded, RecordOf
  <2> QED
    BY <2>1, <2>2
<1>10. RightTypes'
  <2>1. \A s \in Shaders : shader[s].name \notin names
    BY <1>2 DEF IInv, Owned
  <2>2. \A t \in Types : att[t] \in names \union {None}
    BY <1>3, <1>4
  <2> QED
    BY <1>1, <1>5, <2>1, <2>2 DEF IInv, RightTypes
<1>11. Owned'
  <2>1. glShaders' \ glDoomed' = glShaders \ glDoomed
    BY <1>1, <1>2
  <2>2. DOMAIN glPrograms' \ glDoomed' = (DOMAIN glPrograms \ glDoomed) \union {n}
    BY <1>1, <1>2, <1>6
  <2>3. \A q \in Programs : program[q].name # n
    BY <1>2, NamesExist
  <2>4. \A m \in DOMAIN glPrograms' \ glDoomed' : \E q \in Programs : program'[q].name = m
    BY <1>1, <1>5, <2>2, NamesExist DEF IInv, Owned
  <2>5. \A q \in Programs : program'[q].name # None => program'[q].name \in DOMAIN glPrograms' \ glDoomed'
    BY <1>5, <2>2 DEF IInv, Owned
  <2>6. \A q, r \in Programs : program'[q].name = program'[r].name /\ q # r => program'[q].name = None
    BY <1>5, <2>3 DEF IInv, Owned
  <2>7. /\ \A s \in Shaders : shader[s].name # None => shader[s].name \in glShaders' \ glDoomed'
        /\ \A m \in glShaders' \ glDoomed' : \E s \in Shaders : shader[s].name = m
        /\ \A s, r \in Shaders : shader[s].name = shader[r].name /\ s # r => shader[s].name = None
    BY <2>1 DEF IInv, Owned
  <2> QED
    BY <1>1, <2>4, <2>5, <2>6, <2>7 DEF Owned
<1>12. Waiting' /\ UseIsLinked'
  <2>1. ASSUME NEW m \in glDoomed' \intersect glShaders' PROVE Attached(glPrograms', m)
    <3>1. CASE m \in names
      BY <1>6, <3>1 DEF Attached
    <3>2. CASE m \notin names
      <4>1. PICK x \in DOMAIN glPrograms : m \in glPrograms[x]
        BY <1>1, <2>1, <3>2 DEF IInv, Waiting, Attached
      <4> QED
        BY <1>6, <4>1 DEF Attached
    <3> QED
      BY <3>1, <3>2
  <2>2. glDoomed' \intersect DOMAIN glPrograms' \subseteq {inUse'}
    BY <1>1, <1>2, <1>6 DEF IInv, Waiting
  <2> QED
    BY <1>1, <2>1, <2>2 DEF IInv, Waiting, UseIsLinked
<1> QED
  BY <1>7, <1>8, <1>9, <1>10, <1>11, <1>12 DEF IInv

\* Every operation keeps the invariant.
LEMMA NextInv == IInv /\ [Next]_vars => IInv'
<1> SUFFICES ASSUME IInv, [Next]_vars PROVE IInv'
  OBVIOUS
<1>0. program \in [Programs -> ProgramDesc]
  BY DEF IInv, TypeOK, ProgramDesc
<1>1. CASE UNCHANGED vars
  BY <1>1 DEF vars, driver, IInv, TypeOK, Descriptors, Recorded, RecordOf, RightTypes, Owned,
              Waiting, UseIsLinked, Attached
<1>2. CASE \E s \in Shaders : \E t \in Types, n \in Unused : ShaderCreate(s, t, n)
  BY <1>2, ShaderCreateInv
<1>3. ASSUME NEW s \in Shaders, ShaderReference(s) PROVE IInv'
  <2>1. shader[s].name # None
    BY <1>3 DEF ShaderReference, IInv, Descriptors, NoShader
  <2>2. shader[s].count + 1 \in 1 .. MaxRefs
    BY <1>3, ShaderConstants DEF ShaderReference
  <2>3. shader' = [shader EXCEPT ![s].count = shader[s].count + 1] /\ UNCHANGED <<program, driver>>
    BY <1>3 DEF ShaderReference
  <2> QED
    BY <2>1, <2>2, <2>3, ShaderCountInv
<1>4. CASE \E s \in Shaders : ShaderRelease(s)
  BY <1>4, ShaderReleaseInv
<1>5. CASE \E p \in Programs : \E n \in Unused : ProgramCreate(p, n)
  BY <1>5, ProgramCreateInv
<1>6. CASE \E p \in Programs : \E s \in Shaders : AttachShader(p, s)
  BY <1>6, AttachInv
<1>7. CASE \E p \in Programs : \E t \in Types : DetachShaderType(p, t)
  BY <1>7, DetachInv
<1>8. ASSUME NEW p \in Programs, Link(p) \/ LoadBinary(p) PROVE IInv'
  <2>1. /\ program[p].name # None
        /\ program' = [program EXCEPT ![p].linked = TRUE]
        /\ glLinked' = glLinked \union {program[p].name}
        /\ UNCHANGED <<shader, glShaders, glDoomed, glPrograms, inUse>>
    BY <1>8 DEF Link, LoadBinary
  <2>2. /\ program' \in [Programs -> ProgramDesc]
        /\ \A q \in Programs : q # p => program'[q] = program[q]
        /\ program'[p].name = program[p].name /\ program'[p].attached = program[p].attached
        /\ program'[p].count = program[p].count
    BY <1>0, <2>1 DEF ProgramDesc
  <2>3. program[p].count > 0
    BY <2>1 DEF IInv, Descriptors
  <2>4. glLinked' \subseteq DOMAIN glPrograms
    BY <2>1, NamesExist DEF IInv, TypeOK
  <2> QED
    BY <2>1, <2>2, <2>3, <2>4, ProgramDetailInv
<1>9. ASSUME NEW p \in Programs, Validate(p) PROVE IInv'
  <2>1. /\ program[p].name # None
        /\ program' = [program EXCEPT ![p].validated = TRUE]
        /\ UNCHANGED <<shader, driver>>
    BY <1>9, NamesExist DEF Validate, IInv, TypeOK
  <2>2. /\ program' \in [Programs -> ProgramDesc]
        /\ \A q \in Programs : q # p => program'[q] = program[q]
        /\ program'[p].name = program[p].name /\ program'[p].attached = program[p].attached
        /\ program'[p].count = program[p].count
    BY <1>0, <2>1 DEF ProgramDesc
  <2>3. program[p].count > 0
    BY <2>1 DEF IInv, Descriptors
  <2> QED
    BY <2>1, <2>2, <2>3, ProgramDetailInv DEF driver, IInv, TypeOK
<1>10. ASSUME NEW p \in Programs, ProgramReference(p) PROVE IInv'
  <2>1. /\ program' = [program EXCEPT ![p].count = program[p].count + 1]
        /\ UNCHANGED <<shader, driver>>
        /\ program[p].count + 1 \in 1 .. MaxRefs
    BY <1>10, ShaderConstants DEF ProgramReference
  <2>2. program[p].name # None
    BY <1>10 DEF ProgramReference, IInv, Descriptors, NoProgram
  <2>3. /\ program' \in [Programs -> ProgramDesc]
        /\ \A q \in Programs : q # p => program'[q] = program[q]
        /\ program'[p].name = program[p].name /\ program'[p].attached = program[p].attached
        /\ program'[p].count > 0
    BY <1>0, <2>1 DEF ProgramDesc
  <2> QED
    BY <2>1, <2>2, <2>3, ProgramDetailInv DEF driver, IInv, TypeOK
<1>11. CASE \E p \in Programs : ProgramRelease(p)
  BY <1>11, ProgramReleaseInv
<1>12. None \notin glDoomed
  BY ShaderConstants DEF IInv, TypeOK
<1>13. ASSUME NEW p \in Programs, Activate(p) PROVE IInv'
  <2>1. program[p].name \in GLNames \union {None}
    BY <1>0 DEF ProgramDesc
  <2>2. program[p].name \notin glDoomed
    BY <1>12, NamesExist
  <2> QED
    BY <1>13, <2>1, <2>2, UseInv DEF Activate
<1>14. CASE Deactivate
  BY <1>12, <1>14, UseInv DEF Deactivate
<1>15. CASE \E p \in Programs : \E n \in Unused,
              given \in SUBSET (Types \intersect {"vertex", "geometry", "fragment"}) :
              \E compiled \in [given -> Unused], linked, validated \in BOOLEAN :
                CreateSelfContained(p, n, compiled, linked, validated)
  BY <1>15, CreateSelfContainedInv
<1> QED
  BY <1>1, <1>2, <1>3, <1>4, <1>5, <1>6, <1>7, <1>8, <1>9, <1>10, <1>11, <1>13, <1>14, <1>15 DEF Next

\* The inductive invariant.
THEOREM Invariance == Spec => []IInv
BY Init_IInv, NextInv, PTL DEF Spec

\* Descriptors and the driver's tables keep their types.
THEOREM TypeCorrect == Spec => []TypeOK
<1>1. IInv => TypeOK
  BY DEF IInv
<1> QED
  BY <1>1, Invariance, PTL

\* What a program has on record as attached is what the driver has attached to it,
\* under the right types, and a compute shader shares its program with no other.
THEOREM RecordsAgree == Spec => []ProgramsKnowTheirShaders
<1>1. IInv => ProgramsKnowTheirShaders
  <2> SUFFICES ASSUME IInv, NEW p \in Programs, program[p].name # None
               PROVE  /\ glPrograms[program[p].name] = {program[p].attached[t] : t \in Types} \ {None}
                      /\ \A s \in Shaders, t \in Types :
                           shader[s].name # None /\ program[p].attached[t] = shader[s].name => shader[s].type = t
                      /\ program[p].attached["compute"] # None =>
                           Cardinality(glPrograms[program[p].name]) = 1
    BY DEF ProgramsKnowTheirShaders
  <2>1. RecordOf(p)
    BY DEF IInv, Recorded
  <2>2. ASSUME program[p].attached["compute"] # None
        PROVE  Cardinality(glPrograms[program[p].name]) = 1
    <3>1. {program[p].attached[t] : t \in Types} \ {None} = {program[p].attached["compute"]}
      BY <2>1, <2>2, ShaderConstants DEF RecordOf
    <3>2. glPrograms[program[p].name] = {program[p].attached["compute"]}
      BY <2>1, <3>1 DEF RecordOf
    <3> QED
      BY <3>2, FS_Singleton
  <2>3. \A s \in Shaders, t \in Types :
          shader[s].name # None /\ program[p].attached[t] = shader[s].name => shader[s].type = t
    BY DEF IInv, RightTypes
  <2> QED
    BY <2>1, <2>2, <2>3 DEF RecordOf
<1> QED
  BY <1>1, Invariance, PTL

\* Every object of the driver is held by one handle, or is deleted and waits for
\* its last use.
THEOREM NothingLost == Spec => []NothingIsOrphaned
<1>1. IInv => NothingIsOrphaned
  <2> SUFFICES ASSUME IInv PROVE NothingIsOrphaned
    OBVIOUS
  <2> DEFINE handles == {shader[s].name : s \in Shaders} \union {program[p].name : p \in Programs}
  <2>1. ASSUME NEW n \in handles \ {None}
        PROVE  n \in (glShaders \union DOMAIN glPrograms) \ glDoomed
    BY <2>1 DEF IInv, Owned
  <2>2. ASSUME NEW n \in (glShaders \union DOMAIN glPrograms) \ glDoomed
        PROVE  n \in handles \ {None}
    BY <2>2, NamesExist DEF IInv, Owned
  <2>3. handles \ {None} = (glShaders \union DOMAIN glPrograms) \ glDoomed
    BY <2>1, <2>2
  <2> QED
    BY <2>3 DEF IInv, Owned, Waiting, NothingIsOrphaned
<1> QED
  BY <1>1, Invariance, PTL

\* A linked program keeps its shaders and stays linked until its last release, and
\* what is in use is linked.
THEOREM LinkedIsFinal == Spec => LinkedStays
<1> DEFINE Stays(p) == program[p].linked /\ program'[p].name # None =>
                         /\ program'[p].name = program[p].name
                         /\ program'[p].linked
                         /\ program'[p].attached = program[p].attached
           A == /\ \A p \in Programs : Stays(p)
                /\ inUse # None => inUse \in glLinked
<1>1. IInv /\ [Next]_vars => [A]_vars
  <2> SUFFICES ASSUME IInv, Next, NEW p \in Programs,
                      program[p].linked, program'[p].name # None
               PROVE  /\ program'[p].name = program[p].name
                      /\ program'[p].linked
                      /\ program'[p].attached = program[p].attached
    BY DEF IInv, UseIsLinked
  <2>1. program \in [Programs -> ProgramDesc]
    BY DEF IInv, TypeOK, ProgramDesc
  <2>2. program[p].name # None
    BY DEF IInv, Descriptors, NoProgram
  <2>3. CASE UNCHANGED program
    BY <2>3
  <2>4. ASSUME NEW q \in Programs, NEW k, program' = [program EXCEPT ![q].count = k]
        PROVE  /\ program'[p].name = program[p].name
               /\ program'[p].linked
               /\ program'[p].attached = program[p].attached
    BY <2>1, <2>4 DEF ProgramDesc
  <2>5. CASE \E s \in Shaders : \/ \E t \in Types, n \in Unused : ShaderCreate(s, t, n)
                               \/ ShaderReference(s)
                               \/ ShaderRelease(s)
    BY <2>3, <2>5 DEF ShaderCreate, ShaderReference, ShaderRelease
  <2>6. ASSUME NEW q \in Programs, NEW n \in Unused, ProgramCreate(q, n)
        PROVE  program'[p] = program[p]
    BY <2>1, <2>2, <2>6 DEF ProgramCreate
  <2>7. ASSUME NEW q \in Programs, \/ \E s \in Shaders : AttachShader(q, s)
                                  \/ \E t \in Types : DetachShaderType(q, t)
        PROVE  program'[p] = program[p]
    BY <2>1, <2>7 DEF AttachShader, DetachShaderType
  <2>8. ASSUME NEW q \in Programs, Link(q) \/ LoadBinary(q)
        PROVE  program'[p] = program[p]
    BY <2>1, <2>8 DEF Link, LoadBinary
  <2>9. ASSUME NEW q \in Programs, Validate(q)
        PROVE  /\ program'[p].name = program[p].name
               /\ program'[p].linked
               /\ program'[p].attached = program[p].attached
    BY <2>1, <2>9 DEF Validate, ProgramDesc
  <2>10. CASE \E q \in Programs : ProgramReference(q)
    BY <2>4, <2>10 DEF ProgramReference
  <2>11. ASSUME NEW q \in Programs, ProgramRelease(q)
         PROVE  /\ program'[p].name = program[p].name
                /\ program'[p].linked
                /\ program'[p].attached = program[p].attached
    <3>1. CASE program[q].count # 1
      BY <2>4, <2>11, <3>1 DEF ProgramRelease
    <3>2. CASE program[q].count = 1
      <4>1. program' = [program EXCEPT ![q] = NoProgram]
        BY <2>11, <3>2 DEF ProgramRelease
      <4>2. p # q
        BY <2>1, <4>1 DEF NoProgram
      <4> QED
        BY <2>1, <4>1, <4>2
    <3> QED
      BY <3>1, <3>2
  <2>12. CASE (\E q \in Programs : Activate(q)) \/ Deactivate
    BY <2>3, <2>12 DEF Activate, Deactivate
  <2>13. ASSUME NEW q \in Programs, NEW n \in Unused,
                NEW given \in SUBSET (Types \intersect {"vertex", "geometry", "fragment"}),
                NEW compiled \in [given -> Unused], NEW linked \in BOOLEAN, NEW validated \in BOOLEAN,
                CreateSelfContained(q, n, compiled, linked, validated)
         PROVE  program'[p] = program[p]
    BY <2>1, <2>2, <2>13 DEF CreateSelfContained
  <2> QED
    BY <2>5, <2>6, <2>7, <2>8, <2>9, <2>10, <2>11, <2>12, <2>13 DEF Next
<1> QED
  BY <1>1, Invariance, PTL DEF Spec, LinkedStays
==============================================================================
