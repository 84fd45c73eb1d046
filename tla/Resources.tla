------------------------------ MODULE Resources ------------------------------
(***************************************************************************)
(* The native ResourceManager of a game: its constructor reads a package   *)
(* and gives every model and texture of the indices an object of OpenGL,   *)
(* its destructor deletes them.  A game makes one on the rendering thread; *)
(* refreshResource makes another one on the user interface thread, where   *)
(* no OpenGL context is current: the calls have no effect there and a      *)
(* handler is what happened to be in memory.                               *)
(***************************************************************************)
EXTENDS Naturals, FiniteSets, FiniteSetsExt

CONSTANTS ModelNames, TextureNames,
          Sizes,         \* numbers of vertices of model files
          MaxBuffers, MaxTextures  \* bounds on the objects a behaviour generates

ASSUME ResourcesAssumption ==
    /\ Sizes \subseteq Nat \ {0} /\ MaxBuffers \in Nat /\ MaxTextures \in Nat

VARIABLES
    loading,          \* the index that is being read; "none", "ready" otherwise
    thread,           \* the thread that has made the resource manager
    modelHandlers,    \* maps of the resource manager: a name that is absent
    modelSizes,       \*   is not in the domain
    textureHandlers,
    buffers,          \* OpenGL: vertices in every buffer, 0 for an empty one
    textures,         \* OpenGL: the textures that are not deleted
    generated,        \* names of buffers and textures handed out so far
    orphans,          \* objects whose last handler has been overwritten
    rewritten         \* models that were read again with a broken file

mapVars == <<modelHandlers, modelSizes, textureHandlers>>
glVars == <<buffers, textures, generated, orphans>>
resVars == <<loading, thread, mapVars, glVars, rewritten>>

Empty == [n \in {} |-> 0]

Buffer(i) == <<"buffer", i>>
Texture(i) == <<"texture", i>>

\* The handler of objects that were generated without a context.
Garbage == 0

\* A map with key n set to v.
With(f, n, v) == [k \in DOMAIN f \cup {n} |-> IF k = n THEN v ELSE f[k]]

\* getModelSize and glBufferData: 0 for what is absent
ValueOf(f, n) == IF n \in DOMAIN f THEN f[n] ELSE 0

Without(f, S) == [k \in DOMAIN f \ S |-> f[k]]

HeldBuffers == {modelHandlers[n] : n \in DOMAIN modelHandlers} \ {Garbage}
HeldTextures == {textureHandlers[n] : n \in DOMAIN textureHandlers} \ {Garbage}

Held == {Buffer(i) : i \in HeldBuffers} \cup {Texture(i) : i \in HeldTextures}

ResInit ==
    /\ loading = "none" /\ thread = "GL"
    /\ modelHandlers = Empty /\ modelSizes = Empty /\ textureHandlers = Empty
    /\ buffers = Empty /\ textures = {}
    /\ generated = [buffers |-> 0, textures |-> 0]
    /\ orphans = {} /\ rewritten = {}

-----------------------------------------------------------------------------
(* The constructor, file by file.                                          *)

\* A new object with empty maps, made on thread t; the package is open.
Construct(t) ==
    /\ loading' = "modelIndex" /\ thread' = t
    /\ modelHandlers' = Empty /\ modelSizes' = Empty /\ textureHandlers' = Empty
    /\ rewritten' = {}

initialise ==
    /\ loading = "none"
    /\ Construct("GL")
    /\ UNCHANGED glVars

\* The manager before is neither closed nor deleted.
refreshResource ==
    /\ loading = "ready"
    /\ Construct("UI")
    /\ orphans' = orphans \cup Held
    /\ UNCHANGED <<buffers, textures, generated>>

\* Mutant of SizeRead: the size is that of the file even if parsing fails.
MutantSizeRead(n, vertices) == IF vertices = 0 THEN Max(Sizes) ELSE vertices

\* What readOBJ leaves in the size of a model: it is assigned after parsing.
SizeRead(n, vertices) == IF vertices = 0 THEN ValueOf(modelSizes, n) ELSE vertices

\* A line of modelIndex whose file is there; vertices = 0 if readOBJ fails.
\* Without a context glGenBuffers and glBufferData do nothing.
ReadModel(n, vertices) ==
    /\ loading = "modelIndex"
    /\ modelSizes' = With(modelSizes, n, SizeRead(n, vertices))
    /\ IF thread = "GL"
         THEN /\ generated.buffers < MaxBuffers
              /\ generated' = [generated EXCEPT !.buffers = @ + 1]
              /\ modelHandlers' = With(modelHandlers, n, generated'.buffers)
              /\ buffers' = With(buffers, generated'.buffers, vertices)
         ELSE /\ modelHandlers' = With(modelHandlers, n, Garbage)
              /\ UNCHANGED <<generated, buffers>>
    /\ orphans' = orphans \cup
         {Buffer(modelHandlers[k]) : k \in {k \in DOMAIN modelHandlers \cap {n} :
                                               modelHandlers[k] # Garbage}}
    /\ rewritten' = IF n \in DOMAIN modelHandlers /\ vertices = 0
                      THEN rewritten \cup {n} ELSE rewritten \ {n}
    /\ UNCHANGED <<loading, thread, textureHandlers, textures>>

\* A line of textureIndex whose file is there; readPNG fills the texture or not.
ReadTexture(n) ==
    /\ loading = "textureIndex"
    /\ IF thread = "GL"
         THEN /\ generated.textures < MaxTextures
              /\ generated' = [generated EXCEPT !.textures = @ + 1]
              /\ textureHandlers' = With(textureHandlers, n, generated'.textures)
              /\ textures' = textures \cup {generated'.textures}
         ELSE /\ textureHandlers' = With(textureHandlers, n, Garbage)
              /\ UNCHANGED <<generated, textures>>
    /\ orphans' = orphans \cup
         {Texture(textureHandlers[k]) : k \in {k \in DOMAIN textureHandlers \cap {n} :
                                                   textureHandlers[k] # Garbage}}
    /\ UNCHANGED <<loading, thread, modelHandlers, modelSizes, buffers, rewritten>>

\* The end of an index, or no index at all.
NextIndex ==
    /\ loading \in {"modelIndex", "textureIndex"}
    /\ loading' = IF loading = "modelIndex" THEN "textureIndex" ELSE "ready"
    /\ UNCHANGED <<thread, mapVars, glVars, rewritten>>

-----------------------------------------------------------------------------
(* The destructor.                                                         *)

\* Mutant of DeletedBuffers: the buffers of the models are kept.
MutantDeletedBuffers == {}

\* What ~ResourceManager passes to glDeleteBuffers and glDeleteTextures.
DeletedBuffers == HeldBuffers
DeletedTextures == HeldTextures

\* close on the rendering thread.  Handlers made without a context may be the
\* names of any objects.
closeOnGL ==
    /\ loading = "ready" /\ loading' = "none"
    /\ IF thread = "GL"
         THEN /\ buffers' = Without(buffers, DeletedBuffers)
              /\ textures' = textures \ DeletedTextures
         ELSE \E B \in SUBSET DOMAIN buffers, T \in SUBSET textures :
                 /\ Cardinality(B) <= Cardinality(DOMAIN modelHandlers)
                 /\ Cardinality(T) <= Cardinality(DOMAIN textureHandlers)
                 /\ buffers' = Without(buffers, B)
                 /\ textures' = textures \ T
    /\ UNCHANGED <<thread, mapVars, generated, orphans, rewritten>>

\* close on the user interface thread: nothing is deleted.
closeOnUI ==
    /\ loading = "ready" /\ loading' = "none"
    /\ orphans' = orphans \cup Held
    /\ UNCHANGED <<thread, mapVars, buffers, textures, generated, rewritten>>

ResNext ==
    \/ initialise \/ refreshResource \/ NextIndex \/ closeOnGL \/ closeOnUI
    \/ \E n \in ModelNames, vertices \in Sizes \cup {0} : ReadModel(n, vertices)
    \/ \E n \in TextureNames : ReadTexture(n)

ResSpec == ResInit /\ [][ResNext]_resVars

-----------------------------------------------------------------------------
ResTypeOK ==
    /\ loading \in {"none", "modelIndex", "textureIndex", "ready"}
    /\ thread \in {"GL", "UI"}
    /\ DOMAIN modelHandlers \subseteq ModelNames
    /\ DOMAIN modelSizes = DOMAIN modelHandlers
    /\ DOMAIN textureHandlers \subseteq TextureNames
    /\ DOMAIN buffers \subseteq 1..generated.buffers
    /\ textures \subseteq 1..generated.textures
    /\ HeldBuffers \subseteq 1..generated.buffers
    /\ HeldTextures \subseteq 1..generated.textures
    /\ rewritten \subseteq ModelNames

\* A draw call passes getModelSize vertices of the buffer getModelHandler: the
\* buffer has that many, unless the index names the model twice and the second
\* file is broken, so that the size is left from the first.
DrawsWithinBuffer ==
    loading # "none" /\ thread = "GL" =>
        \A n \in DOMAIN modelHandlers \ rewritten :
            modelSizes[n] <= ValueOf(buffers, modelHandlers[n])

\* Every object of OpenGL is held by the resource manager that will delete it,
\* or it is one whose name was given twice or whose manager was replaced or
\* closed without a context: ~ResourceManager leaves nothing else behind.
NothingElseLeaks ==
    {Buffer(i) : i \in DOMAIN buffers} \cup {Texture(i) : i \in textures}
        \subseteq orphans \cup (IF loading = "none" THEN {} ELSE Held)
=============================================================================
