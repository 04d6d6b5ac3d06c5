---------------------------- MODULE ShaderPrograms ----------------------------
(***************************************************************************)
(* Shaders, programs and the driver that both live in.  A shader may be    *)
(* released while it is attached and a program while it is in use: the     *)
(* driver keeps such an object until its last use is gone, and the code,   *)
(* which compiles shaders, attaches them to any number of programs, links  *)
(* and releases them, counts on that.                                      *)
(***************************************************************************)
EXTENDS Integers, FiniteSets

CONSTANTS
  Shaders,      \* storage for a3_Shader
  Programs,     \* storage for a3_ShaderProgram
  Types,        \* a3_ShaderType, with compute
  GLNames,      \* names the driver gives to shaders and programs; all below 2^16,
                \* as shadersAttached keeps a name in 16 bits
  None,         \* the name 0
  MaxRefs       \* bound on the references of one handle

ASSUME ShaderConstants ==
  /\ {"vertex", "compute"} \subseteq Types
  /\ None \notin GLNames /\ MaxRefs \in Nat \ {0}

VARIABLES
  shader,       \* name (None if it has no handle), count, type
  program,      \* name, count, linked, validated, shadersAttached
  glShaders,    \* shaders that exist in the driver
  glDoomed,     \* those of them, and programs, that are deleted but still in use
  glPrograms,   \* programs that exist in the driver, and the shaders attached to each
  glLinked,     \* programs whose last linking went well
  inUse         \* the program in use, None if there is none

driver == <<glShaders, glDoomed, glPrograms, glLinked, inUse>>
vars   == <<shader, program, driver>>

NoShader     == [name |-> None, count |-> 0, type |-> "vertex"]
NoneAttached == [t \in Types |-> None]
NoProgram    == [name |-> None, count |-> 0, linked |-> FALSE, validated |-> FALSE,
                 attached |-> NoneAttached]

TypeOK ==
  /\ shader \in [Shaders -> [name : GLNames \union {None}, count : 0 .. MaxRefs, type : Types]]
  /\ program \in [Programs -> [name : GLNames \union {None}, count : 0 .. MaxRefs,
                               linked : BOOLEAN, validated : BOOLEAN,
                               attached : [Types -> GLNames \union {None}]]]
  /\ glShaders \subseteq GLNames
  /\ DOMAIN glPrograms \subseteq GLNames \ glShaders
  /\ \A p \in DOMAIN glPrograms : glPrograms[p] \subseteq glShaders
  /\ glDoomed \subseteq glShaders \union DOMAIN glPrograms
  /\ glLinked \subseteq DOMAIN glPrograms
  /\ inUse \in DOMAIN glPrograms \union {None}

Init ==
  /\ shader = [s \in Shaders |-> NoShader]
  /\ program = [p \in Programs |-> NoProgram]
  /\ glShaders = {} /\ glDoomed = {} /\ glLinked = {}
  /\ glPrograms = [n \in {} |-> {}]
  /\ inUse = None

------------------------------------------------------------------------------
(* The driver.                                                              *)

Unused   == GLNames \ (glShaders \union DOMAIN glPrograms)
Attached(programs, s) == \E p \in DOMAIN programs : s \in programs[p]

\* Without program n: it goes now, or when it is no longer in use, and takes the
\* shaders with it that were only waiting for it.
ProgramGone(n) ==
  LET left == [p \in DOMAIN glPrograms \ {n} |-> glPrograms[p]]
      gone == {s \in glDoomed \intersect glShaders : ~Attached(left, s)}
  IN /\ glPrograms' = left
     /\ glShaders' = glShaders \ gone
     /\ glDoomed' = glDoomed \ (gone \union {n})
     /\ glLinked' = glLinked \ {n}

glDeleteShader(n) ==
  /\ IF Attached(glPrograms, n)
     THEN glDoomed' = glDoomed \union {n} /\ UNCHANGED glShaders
     ELSE glShaders' = glShaders \ {n} /\ UNCHANGED glDoomed
  /\ UNCHANGED <<glPrograms, glLinked, inUse>>

glDeleteProgram(n) ==
  /\ IF inUse = n
     THEN glDoomed' = glDoomed \union {n} /\ UNCHANGED <<glShaders, glPrograms, glLinked>>
     ELSE ProgramGone(n)
  /\ UNCHANGED inUse

\* A program that is not linked is refused, and the one in use stays.
glUseProgram(n) ==
  IF n # None /\ n \notin glLinked THEN UNCHANGED driver
  ELSE /\ inUse' = n
       /\ IF inUse \in glDoomed /\ inUse # n
          THEN ProgramGone(inUse)
          ELSE UNCHANGED <<glShaders, glDoomed, glPrograms, glLinked>>

------------------------------------------------------------------------------
(* Shaders.                                                                 *)

\* a3shaderCreateFromSourceList: a shader that does not compile is deleted again,
\* which leaves everything as it was.
ShaderCreate(s, t, n) ==
  /\ shader[s].name = None /\ n \in Unused
  /\ shader' = [shader EXCEPT ![s] = [name |-> n, count |-> 1, type |-> t]]
  /\ glShaders' = glShaders \union {n}
  /\ UNCHANGED <<program, glDoomed, glPrograms, glLinked, inUse>>

ShaderReference(s) ==
  /\ shader[s].count \in 1 .. (MaxRefs - 1)
  /\ shader' = [shader EXCEPT ![s].count = @ + 1]
  /\ UNCHANGED <<program, driver>>

ShaderRelease(s) ==
  /\ shader[s].count > 0
  /\ IF shader[s].count = 1
     THEN /\ glDeleteShader(shader[s].name)
          /\ shader' = [shader EXCEPT ![s] = NoShader]
     ELSE /\ shader' = [shader EXCEPT ![s].count = @ - 1]
          /\ UNCHANGED driver
  /\ UNCHANGED program

------------------------------------------------------------------------------
(* Programs.                                                                *)

ProgramCreate(p, n) ==
  /\ program[p].name = None /\ n \in Unused
  /\ program' = [program EXCEPT ![p] =
       [name |-> n, count |-> 1, linked |-> FALSE, validated |-> FALSE, attached |-> NoneAttached]]
  /\ glPrograms' = [m \in DOMAIN glPrograms \union {n} |->
                      IF m = n THEN {} ELSE glPrograms[m]]
  /\ UNCHANGED <<shader, glShaders, glDoomed, glLinked, inUse>>

\* Slip: the test that a compute program stays alone is made in one direction only.
MayAttachOneWay(p, t) ==
  /\ program[p].attached[t] = None
  /\ t # "compute" => program[p].attached["compute"] = None

\* One shader of each type, and a compute shader has a program to itself.
MayAttach(p, t) ==
  /\ program[p].attached[t] = None
  /\ IF t = "compute" THEN program[p].attached = NoneAttached
                      ELSE program[p].attached["compute"] = None

\* Slip: only the program is tested for a handle.
ProgramExists(p, s) == program[p].name # None

BothExist(p, s) == program[p].name # None /\ shader[s].name # None

AttachShader(p, s) ==
  LET t == shader[s].type
  IN /\ BothExist(p, s)
     /\ ~program[p].linked
     /\ MayAttach(p, t)
     /\ program' = [program EXCEPT ![p].attached[t] = shader[s].name]
     /\ glPrograms' = [glPrograms EXCEPT ![program[p].name] = @ \union {shader[s].name}]
     /\ UNCHANGED <<shader, glShaders, glDoomed, glLinked, inUse>>

\* Slip: a linked program may lose its shaders too.
DetachLinked(p, t) ==
  LET n == program[p].attached[t]
      left == [glPrograms EXCEPT ![program[p].name] = @ \ {n}]
  IN /\ program[p].name # None /\ n # None
     /\ program' = [program EXCEPT ![p].attached[t] = None]
     /\ glPrograms' = left
     /\ IF n \in glDoomed /\ ~Attached(left, n)
        THEN glShaders' = glShaders \ {n} /\ glDoomed' = glDoomed \ {n}
        ELSE UNCHANGED <<glShaders, glDoomed>>
     /\ UNCHANGED <<shader, glLinked, inUse>>

DetachShaderType(p, t) ==
  LET n == program[p].attached[t]
      left == [glPrograms EXCEPT ![program[p].name] = @ \ {n}]
  IN /\ program[p].name # None /\ ~program[p].linked /\ n # None
     /\ program' = [program EXCEPT ![p].attached[t] = None]
     /\ glPrograms' = left
     /\ IF n \in glDoomed /\ ~Attached(left, n)
        THEN glShaders' = glShaders \ {n} /\ glDoomed' = glDoomed \ {n}
        ELSE UNCHANGED <<glShaders, glDoomed>>
     /\ UNCHANGED <<shader, glLinked, inUse>>

\* a3shaderProgramLink: a program that has something attached may link or not.
Link(p) ==
  /\ program[p].name # None /\ ~program[p].linked
  /\ glPrograms[program[p].name] # {}
  /\ program' = [program EXCEPT ![p].linked = TRUE]
  /\ glLinked' = glLinked \union {program[p].name}
  /\ UNCHANGED <<shader, glShaders, glDoomed, glPrograms, inUse>>

\* a3shaderProgramLoadBinary: linked from a file, whatever is attached.
LoadBinary(p) ==
  /\ program[p].name # None /\ ~program[p].linked
  /\ program' = [program EXCEPT ![p].linked = TRUE]
  /\ glLinked' = glLinked \union {program[p].name}
  /\ UNCHANGED <<shader, glShaders, glDoomed, glPrograms, inUse>>

\* a3shaderProgramValidate: the driver validates linked programs only.
Validate(p) ==
  /\ program[p].name \in glLinked /\ ~program[p].validated
  /\ program' = [program EXCEPT ![p].validated = TRUE]
  /\ UNCHANGED <<shader, driver>>

ProgramReference(p) ==
  /\ program[p].count \in 1 .. (MaxRefs - 1)
  /\ program' = [program EXCEPT ![p].count = @ + 1]
  /\ UNCHANGED <<shader, driver>>

\* The last release clears the flags.  (The record of the attachments is not
\* cleared, and nobody reads it: creation overwrites the whole descriptor.)
ProgramRelease(p) ==
  /\ program[p].count > 0
  /\ IF program[p].count = 1
     THEN /\ glDeleteProgram(program[p].name)
          /\ program' = [program EXCEPT ![p] = NoProgram]
     ELSE /\ program' = [program EXCEPT ![p].count = @ - 1]
          /\ UNCHANGED driver
  /\ UNCHANGED shader

\* A program without a handle deactivates.
Activate(p) ==
  /\ glUseProgram(program[p].name)
  /\ UNCHANGED <<shader, program>>

Deactivate ==
  /\ glUseProgram(None)
  /\ UNCHANGED <<shader, program>>

\* Slip: the shaders of a self-contained program are not released.
KeptByNobody(names) == glDoomed

\* Released while they are attached.
ReleasedAtOnce(names) == glDoomed \union names

\* a3shaderProgramCreateSelfContained: program n, and one shader for each type in
\* compiled, are made; the shaders are attached and released at once.  Without
\* the vertex shader the call fails, and leaves the program as it was created.
CreateSelfContained(p, n, compiled, linked, validated) ==
  LET types == IF "vertex" \in DOMAIN compiled THEN DOMAIN compiled ELSE {}
      names == {compiled[t] : t \in types}
  IN /\ program[p].name = None
     /\ {n} \union names \subseteq Unused /\ n \notin names
     /\ \A t, u \in types : compiled[t] = compiled[u] => t = u
     /\ linked => types # {}
     /\ validated => linked
     /\ program' = [program EXCEPT ![p] =
          [name |-> n, count |-> 1, linked |-> linked, validated |-> validated,
           attached |-> [t \in Types |-> IF t \in types THEN compiled[t] ELSE None]]]
     /\ glPrograms' = [m \in DOMAIN glPrograms \union {n} |->
                         IF m = n THEN names ELSE glPrograms[m]]
     /\ glShaders' = glShaders \union names
     /\ glDoomed' = ReleasedAtOnce(names)
     /\ glLinked' = glLinked \union (IF linked THEN {n} ELSE {})
     /\ UNCHANGED <<shader, inUse>>

Next ==
  \/ \E s \in Shaders :
       \/ \E t \in Types, n \in Unused : ShaderCreate(s, t, n)
       \/ ShaderReference(s)
       \/ ShaderRelease(s)
  \/ \E p \in Programs :
       \/ \E n \in Unused : ProgramCreate(p, n)
       \/ \E s \in Shaders : AttachShader(p, s)
       \/ \E t \in Types : DetachShaderType(p, t)
       \/ Link(p)
       \/ LoadBinary(p)
       \/ Validate(p)
       \/ ProgramReference(p)
       \/ ProgramRelease(p)
       \/ Activate(p)
       \/ \E n \in Unused, given \in SUBSET (Types \intersect {"vertex", "geometry", "fragment"}) :
            \E compiled \in [given -> Unused], linked, validated \in BOOLEAN :
              CreateSelfContained(p, n, compiled, linked, validated)
  \/ Deactivate

Spec == Init /\ [][Next]_vars

------------------------------------------------------------------------------
(* Properties.                                                              *)

\* What a program has on record as attached is what the driver has attached to
\* it, under the right type, however its shaders are released, re-created under
\* names used before, and attached to other programs as well; and a compute
\* shader shares its program with no other.
ProgramsKnowTheirShaders ==
  \A p \in Programs : program[p].name # None =>
    /\ glPrograms[program[p].name] = {program[p].attached[t] : t \in Types} \ {None}
    /\ \A s \in Shaders, t \in Types :
         shader[s].name # None /\ program[p].attached[t] = shader[s].name => shader[s].type = t
    /\ program[p].attached["compute"] # None =>
         Cardinality(glPrograms[program[p].name]) = 1

\* Every object in the driver is held by one handle, or is deleted and waits for
\* its last use (a shader for a program, a program to be out of use): nothing is
\* lost track of, and every handle has an object of its own that is not deleted.
NothingIsOrphaned ==
  LET handles == {shader[s].name : s \in Shaders} \union {program[p].name : p \in Programs}
  IN /\ (handles \ {None}) = (glShaders \union DOMAIN glPrograms) \ glDoomed
     /\ \A n \in glDoomed \intersect glShaders : Attached(glPrograms, n)
     /\ glDoomed \intersect DOMAIN glPrograms \subseteq {inUse}
     /\ \A s, r \in Shaders : shader[s].name = shader[r].name /\ s # r => shader[s].name = None
     /\ \A p, q \in Programs : program[p].name = program[q].name /\ p # q => program[p].name = None

\* "1 if success; program object cannot be changed": once linked, a program keeps
\* its shaders and stays linked until its last release, and what is in use is linked.
LinkedStays ==
  [][/\ \A p \in Programs : program[p].linked /\ program'[p].name # None =>
          /\ program'[p].name = program[p].name
          /\ program'[p].linked
          /\ program'[p].attached = program[p].attached
     /\ inUse # None => inUse \in glLinked]_vars

==============================================================================
