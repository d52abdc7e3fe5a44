---------------------------- MODULE StackerBuild ----------------------------
(***************************************************************************)
(* The build loop (pkg/stacker/build.go), the build cache (cache.go), the  *)
(* preparation of root filesystems (base.go) and the overlay storage       *)
(* backend (pkg/overlay) as one system: what a sequence of "stacker build" *)
(* invocations, between which the user edits the stackerfile and the       *)
(* imported files, leaves in the roots dir, the cache and the OCI output.  *)
(*                                                                         *)
(* File contents are abstracted to tokens.  What a layer's "run" section   *)
(* leaves in its overlay directory is one token that records everything    *)
(* the section could depend on: the layer's definition, its imports and    *)
(* the sequence of tokens visible in its root filesystem.  An OCI image is *)
(* the sequence of the tokens of its layers, lowest first.  Staleness      *)
(* anywhere in the chain of bases therefore shows in the token.  Equal     *)
(* tokens have equal digests: SOURCE_DATE_EPOCH is set, the documented way *)
(* of building reproducibly.                                               *)
(***************************************************************************)
EXTENDS Naturals, Sequences, FiniteSets, SequencesExt

CONSTANTS
  Layers,      \* names of the layers of the stackerfile
  Order,       \* DependencyOrder: a sequence of all layers, bases first
  From,        \* From[n]: the layer n is built from, or None for scratch
  BuildOnly,   \* the layers with build_only: true
  Binds,       \* the layers with bind mounts
  ImportKind,  \* what n takes from the host: "none", a "plain" import, an
               \* import with a "dest", or an "overlay" (overlay_dirs)
  Image,       \* Image[n][v]: the image or tarball version v of n's definition
               \* starts from, None for scratch or a built layer
  Tars,        \* those of the images that are tarballs
  Pushed,      \* those that somebody replaces now and then
  TagOf,       \* ParseTag: the name an image has in <stacker dir>/layer-bases
  BaseType,    \* the layer type of the images in registries
  Types,       \* layer types, e.g. "tar" and "squashfs"
  TypeChoices, \* the values of --layer-type, as sequences over Types
  Versions,    \* versions of a definition, and of an imported file
  Idle,        \* the definitions whose run section changes nothing
  Faults,      \* subset of {"run", "kill", "edit"}: a failing run section, a
               \* killed process, a host file edited while stacker runs
  MaxRuns,     \* bound on the invocations
  None, Empty, \* no file; an empty directory
  Bogus        \* the empty descriptor cached for a build-only layer

ASSUME BuildAssumption ==
  /\ Layers # {} /\ None \notin Layers
  /\ Order \in Seq(Layers)
  /\ \A n \in Layers : \E i \in 1..Len(Order) : Order[i] = n
  /\ \A i, j \in 1..Len(Order) : i # j => Order[i] # Order[j]
  /\ From \in [Layers -> Layers \union {None}]
  /\ \A i \in 1..Len(Order) : From[Order[i]] # None =>
       \E j \in 1..(i - 1) : Order[j] = From[Order[i]]
  /\ Image \in [Layers -> [Versions -> DOMAIN TagOf \union {None}]]
  /\ \A n \in Layers, v \in Versions : From[n] # None => Image[n][v] = None
  /\ Tars \union Pushed \subseteq DOMAIN TagOf /\ None \notin DOMAIN TagOf
  /\ BaseType \in Types
  /\ BuildOnly \subseteq Layers /\ Binds \subseteq Layers
  /\ ImportKind \in [Layers -> {"none", "plain", "dest", "overlay"}]
  /\ TypeChoices \subseteq Seq(Types) /\ <<>> \notin TypeChoices
  /\ Idle \subseteq Versions
  /\ Faults \subseteq {"run", "kill", "edit"}
  /\ MaxRuns \in Nat

VARIABLES
  def,       \* def[n]: version of n's definition in the stackerfile
  imp,       \* imp[n]: version of the host file or directory n imports
  upstream,  \* upstream[i]: version of image i where it comes from
  bases,     \* bases[tag]: what layer-bases holds under tag, or None
  impDir,    \* impDir[n]: its copy in <stacker dir>/imports{,-copy}/n
  cache,     \* cache[n]: n's entry in build.cache, or None
  roots,     \* roots[n]: <roots dir>/n, or None
  hashDirs,  \* the layer blobs <<type, token>> with a directory in roots
  links,     \* the overlay_dir blobs with a link, dangling or not, in roots
  torn,      \* the images of which a directory holds only a part
  refs,      \* refs[n][t]: the image tagged n (for type t) in the OCI dir
  blobs,     \* the images whose blobs are in the OCI dir
  pc, idx,   \* the builder's next step, and its position in Order
  types,     \* this invocation's --layer-type
  cold,      \* this invocation was given --no-cache
  mut,       \* mut[t]: layers of the image that repack is putting together
  k,         \* repack's position in BuiltLayers
  mutated,   \* repack has added a layer
  outcome,   \* how the last invocation ended
  runs       \* invocations so far

userVars == <<def, imp, upstream>>
copyVars == <<impDir, bases>>
ociVars == <<refs, blobs>>
mutVars == <<mut, k, mutated>>
dirVars == <<hashDirs, links, torn>>
runVars == <<idx, types, cold, outcome, runs>>
vars == <<userVars, copyVars, cache, roots, dirVars, ociVars, pc, mutVars,
          runVars>>

-----------------------------------------------------------------------------
(* Data *)

cur == Order[idx]

Images == DOMAIN TagOf
Tags == {TagOf[i] : i \in Images}

\* The image n starts from now; the token for what an image contains.
Source(n) == Image[n][def[n]]
Content(i, version) == [image |-> i, version |-> version]
Cached(n) == bases[TagOf[Source(n)]]

\* types.LayerType values of this invocation.
TypeSet == {types[i] : i \in 1..Len(types)}

\* newOverlayMetadata
NewOverlayMetadata == [manifests |-> [t \in Types |-> None], built |-> <<>>,
                       hasOut |-> FALSE, ods |-> [t \in Types |-> None]]

Manifest(layers) == IF layers = None THEN <<>> ELSE layers

\* The token for what n's run section writes when it sees view.
Diff(n, view, whole) ==
  [layer |-> n, def |-> def[n], view |-> view, whole |-> whole,
   imp |-> IF ImportKind[n] = "plain" THEN impDir[n] ELSE None]

\* The token for the overlay_dir layer made from an import with a dest.
OverlayDir(n, version) == [dest |-> n, imp |-> version]

\* An image without layers: umoci.NewImage.
NewImage == [layers |-> <<>>, def |-> None]

\* FindFirstBaseInOutput: the nearest base that is not build-only.
FirstBaseInOutput[n \in Layers] ==
  IF From[n] = None THEN None
  ELSE IF From[n] \notin BuildOnly THEN From[n] ELSE FirstBaseInOutput[From[n]]

\* The layer at the bottom of n's chain of bases.
Root[n \in Layers] == IF From[n] = None THEN n ELSE Root[From[n]]

\* BuildCache.Lookup: a hit gives the entry, a miss None.  getBaseHash of a
\* base that misses is an error; hashes are the hashed entries themselves.
LookupError == [error |-> TRUE]

\* Plain imports are compared by their copies, overlay_dirs by their sources,
\* and imports with a dest not at all.
ImportsChanged(n, e) ==
  \/ ImportKind[n] = "plain" /\ impDir[n] # e.imp
  \/ ImportKind[n] = "overlay" /\ (roots[n] = None \/ ~roots[n].odDir)
  \/ ImportKind[n] = "overlay" /\ imp[n] # e.imp

\* getBaseHash of a layer that is not built on another: the digest of what
\* layer-bases holds under the image's name.
OwnBase(n) == IF Source(n) = None THEN None ELSE Cached(n)

BaseMissing(n, baseHash) ==
  (From[n] # None \/ Source(n) # None) /\ baseHash \in {None, LookupError}

Lookup[n \in Layers] ==
  LET e == cache[n]
      baseHash == IF From[n] # None THEN Lookup[From[n]] ELSE OwnBase(n) IN
  CASE e = None -> None
    [] e # None /\ e.def # def[n] -> None
    [] OTHER ->
         IF BaseMissing(n, baseHash) THEN LookupError
         ELSE IF baseHash # e.base THEN None
         ELSE IF ImportsChanged(n, e) THEN None
         ELSE e

-----------------------------------------------------------------------------
Init ==
  /\ def \in [Layers -> Versions]
  /\ imp = [n \in Layers |-> CHOOSE v \in Versions : TRUE]
  /\ upstream = [i \in Images |-> CHOOSE v \in Versions : TRUE]
  /\ bases = [tag \in Tags |-> None]
  /\ impDir = [n \in Layers |-> None]
  /\ cache = [n \in Layers |-> None]
  /\ roots = [n \in Layers |-> None]
  /\ hashDirs = {} /\ links = {} /\ torn = {}
  /\ refs = [n \in Layers |-> [t \in Types |-> None]]
  /\ blobs = {}
  /\ pc = "idle" /\ idx = 1
  /\ types \in TypeChoices /\ cold = FALSE
  /\ mut = [t \in Types |-> <<>>] /\ k = 1 /\ mutated = FALSE
  /\ outcome = "none"
  /\ runs = 0

-----------------------------------------------------------------------------
(* The user *)

EditDefinition(n) ==
  /\ pc = "idle"
  /\ runs < MaxRuns
  /\ \E v \in Versions \ {def[n]} : def' = [def EXCEPT ![n] = v]
  /\ outcome' = "none"
  /\ UNCHANGED <<imp, upstream, copyVars, cache, roots, dirVars, ociVars, pc, mutVars,
                 idx, types, cold, runs>>

EditImport(n) ==
  /\ pc = "idle" \/ "edit" \in Faults
  /\ runs < MaxRuns
  /\ ImportKind[n] # "none"
  /\ \E v \in Versions \ {imp[n]} : imp' = [imp EXCEPT ![n] = v]
  /\ outcome' = IF pc = "idle" THEN "none" ELSE outcome
  /\ UNCHANGED <<def, upstream, copyVars, cache, roots, dirVars, ociVars, pc, mutVars,
                 idx, types, cold, runs>>

\* Somebody pushes a new image under the same name.
PushImage(i) ==
  /\ pc = "idle" \/ "edit" \in Faults
  /\ runs < MaxRuns
  /\ \E v \in Versions \ {upstream[i]} : upstream' = [upstream EXCEPT ![i] = v]
  /\ outcome' = IF pc = "idle" THEN "none" ELSE outcome
  /\ UNCHANGED <<def, imp, copyVars, cache, roots, dirVars, ociVars, pc, mutVars,
                 idx, types, cold, runs>>

-----------------------------------------------------------------------------
(* One invocation *)

\* OpenCache prunes entries whose build is gone.
Pruned ==
  [n \in Layers |->
     IF cache[n] = None THEN None
     ELSE IF n \in BuildOnly
     THEN IF roots[n] = None THEN None ELSE cache[n]
     ELSE IF \A t \in Types : cache[n].manifests[t] = None
                              \/ cache[n].manifests[t] \in blobs
          THEN cache[n] ELSE None]

\* Mutant of Start: --no-cache leaves build.cache where it is.
StartKeepsCache(noCache) ==
  /\ pc = "idle"
  /\ runs < MaxRuns
  /\ runs' = runs + 1
  /\ cold' = noCache
  /\ types' \in TypeChoices
  /\ cache' = Pruned
  /\ impDir' = IF noCache THEN [n \in Layers |-> None] ELSE impDir
  /\ bases' = IF noCache THEN [tag \in Tags |-> None] ELSE bases
  /\ idx' = 1
  /\ pc' = "import"
  /\ outcome' = "running"
  /\ UNCHANGED <<userVars, roots, dirVars, ociVars, mutVars>>

\* build() up to the loop; --no-cache removes the stacker dir, not the roots.
Start(noCache) ==
  /\ pc = "idle"
  /\ runs < MaxRuns
  /\ runs' = runs + 1
  /\ cold' = noCache
  /\ types' \in TypeChoices
  /\ cache' = IF noCache THEN [n \in Layers |-> None] ELSE Pruned
  /\ impDir' = IF noCache THEN [n \in Layers |-> None] ELSE impDir
  /\ bases' = IF noCache THEN [tag \in Tags |-> None] ELSE bases
  /\ idx' = 1
  /\ pc' = "import"
  /\ outcome' = "running"
  /\ UNCHANGED <<userVars, roots, dirVars, ociVars, mutVars>>

Goto(label) == pc' = label

Fail == pc' = "idle" /\ outcome' = "failed" /\ UNCHANGED <<idx, types, cold, runs>>

\* "continue": the next layer of the loop.
NextLayer ==
  /\ pc' = IF idx = Len(Order) THEN "gc" ELSE "import"
  /\ idx' = IF idx = Len(Order) THEN idx ELSE idx + 1
  /\ UNCHANGED <<types, cold, outcome, runs>>

\* CleanImportsDir and Import: the copies mirror the source afterwards.
Import ==
  /\ pc = "import"
  /\ impDir' = IF ImportKind[cur] \in {"plain", "dest"}
               THEN [impDir EXCEPT ![cur] = imp[cur]] ELSE impDir
  /\ Goto("getBase")
  /\ UNCHANGED <<userVars, bases, cache, roots, dirVars, ociVars, mutVars, runVars>>

\* GetBase: a tarball or an image is fetched each time, over what layer-bases
\* holds under its name.
GetBase ==
  /\ pc = "getBase"
  /\ bases' = IF Source(cur) = None THEN bases
              ELSE [bases EXCEPT ![TagOf[Source(cur)]] =
                      Content(Source(cur), upstream[Source(cur)])]
  /\ Goto("lookup")
  /\ UNCHANGED <<userVars, impDir, cache, roots, dirVars, ociVars, mutVars, runVars>>

\* The cache decides; a hit for every requested type re-tags the image.
CacheLookup ==
  LET e == Lookup[cur]
      hit == e # None /\ e # LookupError /\ cur \notin Binds
      found == {t \in TypeSet : e.manifests[t] # None} IN
  /\ pc = "lookup"
  /\ \/ /\ e = LookupError
        /\ Fail /\ UNCHANGED refs
     \/ /\ hit /\ cur \in BuildOnly
        /\ NextLayer /\ UNCHANGED refs
     \/ /\ hit /\ cur \notin BuildOnly
        /\ refs' = [refs EXCEPT ![cur] = [t \in Types |->
                      IF t \in found THEN e.manifests[t] ELSE @[t]]]
        /\ IF found = TypeSet THEN NextLayer
           ELSE Goto("delete") /\ UNCHANGED runVars
     \/ /\ e # LookupError /\ ~hit
        /\ Goto("delete") /\ UNCHANGED <<refs, runVars>>
  /\ UNCHANGED <<userVars, copyVars, cache, roots, dirVars, blobs, mutVars>>

-----------------------------------------------------------------------------
(* SetupRootfs: Delete, Create, then the metadata *)

\* The overlay_dir layers n ever makes.
OverlayDirs(n) == {OverlayDir(n, v) : v \in Versions}

\* The links from overlay_dir blobs into <roots dir>/n dangle from here on.
Delete ==
  /\ pc = "delete"
  /\ roots' = [roots EXCEPT ![cur] = None]
  /\ hashDirs' = {h \in hashDirs : h[2] \notin OverlayDirs(cur)}
  /\ Goto("create")
  /\ UNCHANGED <<userVars, copyVars, cache, links, torn, ociVars, mutVars, runVars>>

\* Create: MkdirAll keeps what is there.
Create ==
  /\ pc = "create"
  /\ roots' = [roots EXCEPT ![cur] =
       IF @ = None THEN [upper |-> Empty, meta |-> None, odDir |-> FALSE] ELSE @]
  /\ Goto("metadata")
  /\ UNCHANGED <<userVars, copyVars, cache, dirVars, ociVars, mutVars, runVars>>

\* A tarball is extracted into the directory that the container writes to.
TarRootfs(n) == Cached(n)

\* Mutant of SetupEmptyRootfs: the metadata is not written.
SetupEmptyRootfsUnwritten ==
  /\ pc = "metadata" /\ From[cur] = None /\ Source(cur) \in Tars \union {None}
  /\ Goto("overlayDirs")
  /\ UNCHANGED <<userVars, copyVars, cache, roots, dirVars, ociVars, mutVars, runVars>>

\* SetupEmptyRootfs, then the tarball if there is one.
SetupEmptyRootfs ==
  /\ pc = "metadata" /\ From[cur] = None /\ Source(cur) \in Tars \union {None}
  /\ roots' = [roots EXCEPT ![cur].meta = NewOverlayMetadata,
                            ![cur].upper = IF Source(cur) = None THEN @
                                           ELSE TarRootfs(cur)]
  /\ Goto("overlayDirs")
  /\ UNCHANGED <<userVars, copyVars, cache, dirVars, ociVars, mutVars, runVars>>

\* Unpack: the layers of the image get directories (OverlayUnpack has the
\* details), the metadata its manifest.  A directory with something in it is
\* taken for the layer as it is.
Unpack ==
  /\ pc = "metadata" /\ Source(cur) \in Images \ Tars
  /\ hashDirs' = hashDirs \union {<<BaseType, Cached(cur)>>}
  /\ roots' = [roots EXCEPT ![cur].meta =
       [NewOverlayMetadata EXCEPT !.manifests[BaseType] = <<Cached(cur)>>]]
  /\ Goto("overlayDirs")
  /\ UNCHANGED <<userVars, copyVars, cache, links, torn, ociVars, mutVars, runVars>>

\* The layer types a map iteration over the manifests may stop at.
SomeManifest(meta) ==
  LET have == {t \in Types : meta.manifests[t] # None} IN
  IF have = {} THEN {<<>>}
  ELSE {[i \in 1..Len(meta.manifests[t]) |-> <<t, meta.manifests[t][i]>>] :
          t \in have}

\* readOverlayMetadata finds the file.
HasMetadata(n) == IF roots[n] = None THEN FALSE ELSE roots[n].meta # None

\* Restore: the base's metadata, plus the base as a built layer.  A manifest
\* layer without a directory would have to be in layer-bases, and is not: the
\* layers of images keep their directories.
Restore ==
  LET tag == From[cur] IN
  /\ pc = "metadata" /\ tag # None
  /\ \/ /\ HasMetadata(tag)
        /\ \E m \in SomeManifest(roots[tag].meta) :
             IF \A i \in 1..Len(m) : m[i] \in hashDirs
             THEN /\ roots' = [roots EXCEPT ![cur].meta =
                       [roots[tag].meta EXCEPT !.built = Append(@, tag)]]
                  /\ Goto("overlayDirs")
                  /\ UNCHANGED runVars
             ELSE Fail /\ UNCHANGED roots
     \/ /\ ~HasMetadata(tag)
        /\ Fail /\ UNCHANGED roots
  /\ UNCHANGED <<userVars, copyVars, cache, dirVars, ociVars, mutVars>>

\* SetOverlayDirs: copies each overlay_dir, makes a layer of it and links the
\* layer's directory to the copy.  Import turned an import with a dest into an
\* overlay_dir with a new name, so the link a previous build made for the same
\* digest still leads to the old name, and is left as it is.
SetOverlayDirs ==
  /\ pc = "overlayDirs"
  /\ IF ImportKind[cur] \notin {"dest", "overlay"}
     THEN UNCHANGED <<roots, dirVars>>
     ELSE LET od == OverlayDir(cur, IF ImportKind[cur] = "dest" THEN impDir[cur]
                                    ELSE imp[cur])
              new == {<<t, od>> : t \in TypeSet} IN
          /\ roots' = [roots EXCEPT ![cur].odDir = TRUE, ![cur].meta.ods =
                         [t \in Types |-> IF t \in TypeSet THEN <<od>> ELSE None]]
          /\ links' = links \union new
          /\ hashDirs' = hashDirs \union
                           IF ImportKind[cur] = "dest" THEN new \ links ELSE new
          /\ UNCHANGED torn
  /\ Goto("run")
  /\ UNCHANGED <<userVars, copyVars, cache, ociVars, mutVars, runVars>>

-----------------------------------------------------------------------------
(* The container *)

Tokens(seq) == [i \in 1..Len(seq) |-> seq[i][2]]

\* What is in a layer's directory.
Contents(token) == IF token \in torn THEN [partOf |-> token] ELSE token

\* The layers of a manifest that have a directory.
Existing(manifest) ==
  FlattenSeq([i \in 1..Len(manifest) |->
                IF manifest[i] \in hashDirs THEN <<Contents(manifest[i][2])>>
                ELSE <<>>])

\* What is in an overlay directory.
Held(upper) == IF upper = Empty THEN <<>> ELSE <<upper>>

\* What the built layers' overlay directories contribute to the mount.
Uppers(built) == FlattenSeq([i \in 1..Len(built) |-> Held(roots[built[i]].upper)])

\* The overlay_dir layers some map iteration may stop at.
SomeOverlayDirs(meta) ==
  LET have == {t \in Types : meta.ods[t] # None} IN
  IF have = {} THEN {<<>>}
  ELSE {[i \in 1..Len(meta.ods[t]) |-> <<t, meta.ods[t][i]>>] : t \in have}

\* lxcRootfsString: manifest layers (those without a directory are skipped),
\* then the built layers, the overlay_dirs, and an extracted tarball.
RootfsView(meta, manifest, ods) ==
  Existing(manifest) \o Uppers(meta.built) \o Tokens(ods) \o Held(roots[cur].upper)

\* A missing directory of a built layer or of an overlay_dir is an error.
Mountable(meta, ods) ==
  /\ \A i \in 1..Len(meta.built) : roots[meta.built[i]] # None
  /\ \A i \in 1..Len(ods) : ods[i] \in hashDirs

\* A build-only layer is not packed.
AfterRun ==
  /\ Goto(IF cur \in BuildOnly THEN "put" ELSE "initBases")
  /\ UNCHANGED runVars

\* Mutant of AfterFailedRun: the exit status of the container is ignored.
AfterFailedRunIgnored == AfterRun

\* build() returns "run commands failed".
AfterFailedRun == Fail

\* The container runs the run section; a failing command leaves what it has
\* written so far.
RunContainer ==
  /\ pc = "run"
  /\ LET meta == roots[cur].meta IN
     \E m \in SomeManifest(meta), ods \in SomeOverlayDirs(meta) :
       \/ /\ ~Mountable(meta, ods)
          /\ Fail /\ UNCHANGED roots
       \/ /\ Mountable(meta, ods)
          /\ roots' = IF def[cur] \in Idle THEN roots
                      ELSE [roots EXCEPT ![cur].upper =
                              Diff(cur, RootfsView(meta, m, ods), TRUE)]
          /\ AfterRun
       \/ /\ "run" \in Faults
          /\ Mountable(meta, ods)
          /\ roots' = [roots EXCEPT ![cur].upper =
                         Diff(cur, RootfsView(meta, m, ods), FALSE)]
          /\ AfterFailedRun
  /\ UNCHANGED <<userVars, copyVars, cache, dirVars, ociVars, mutVars>>

-----------------------------------------------------------------------------
(* Repack *)

\* ConvertAndOutput packs the directory of the unpacked layer as type t.
Convertible(layer, t) == t = BaseType \/ <<BaseType, layer>> \in hashDirs
Converted(layer, t) == IF t = BaseType THEN layer ELSE Contents(layer)

\* initializeBasesInOutput, then the mutators and the overlay_dirs.
InitializeBasesInOutput ==
  LET b == FirstBaseInOutput[cur]
      foreign == b = None /\ Source(Root[cur]) \in Images \ Tars
      image == Cached(Root[cur])
      start == [t \in TypeSet |->
                  IF b # None THEN refs[b][t]
                  ELSE IF ~foreign THEN NewImage
                  ELSE IF image = None \/ ~Convertible(image, t) THEN None
                  ELSE [layers |-> <<Converted(image, t)>>, def |-> None]] IN
  /\ pc = "initBases"
  /\ \/ /\ \E t \in TypeSet : start[t] = None
        /\ Fail /\ UNCHANGED <<ociVars, mutVars, hashDirs>>
     \/ /\ \A t \in TypeSet : start[t] # None
        /\ refs' = [refs EXCEPT ![cur] = [t \in Types |->
                      IF t \in TypeSet THEN start[t] ELSE @[t]]]
        /\ blobs' = blobs \union {start[t] : t \in TypeSet}
        /\ hashDirs' = IF foreign
                       THEN hashDirs \union {<<t, Converted(image, t)>> : t \in TypeSet}
                       ELSE hashDirs
        /\ mut' = [t \in Types |->
                     IF t \in TypeSet
                     THEN start[t].layers \o Manifest(roots[cur].meta.ods[t])
                     ELSE <<>>]
        /\ k' = 1
        /\ mutated' = FALSE
        /\ Goto("built")
        /\ UNCHANGED runVars
  /\ UNCHANGED <<userVars, copyVars, cache, roots, links, torn>>

\* Mutant of GenerateNew: the content is dropped instead of renamed.
GenerateNewUnnamed(b) ==
  /\ roots[b].upper # Empty
  /\ mut' = [t \in Types |-> IF t \in TypeSet THEN Append(mut[t], roots[b].upper)
                             ELSE mut[t]]
  /\ roots' = [roots EXCEPT ![b].upper = Empty]
  /\ UNCHANGED dirVars

\* generateLayer for b when its overlay directory has content: the directory
\* becomes that of the new blob.
GenerateNew(b) ==
  /\ roots[b].upper # Empty
  /\ mut' = [t \in Types |-> IF t \in TypeSet THEN Append(mut[t], roots[b].upper)
                             ELSE mut[t]]
  /\ hashDirs' = hashDirs \union {<<t, roots[b].upper>> : t \in TypeSet}
  /\ roots' = [roots EXCEPT ![b].upper = Empty]
  /\ UNCHANGED <<links, torn>>

\* generateLayer for b when an earlier repack took its content: the last layer
\* of each manifest there is.
AddExisting(b) ==
  /\ roots[b].upper = Empty /\ HasMetadata(b) /\ roots[b].meta.hasOut
  /\ mut' = [t \in Types |->
               LET m == Manifest(roots[b].meta.manifests[t]) IN
               IF t \in TypeSet /\ m # <<>> THEN Append(mut[t], m[Len(m)])
               ELSE mut[t]]
  /\ UNCHANGED <<dirVars, roots>>

NothingToAdd(b) ==
  roots[b].upper = Empty /\ HasMetadata(b) /\ ~roots[b].meta.hasOut

Unreadable(b) == roots[b].upper = Empty /\ ~HasMetadata(b)

\* One iteration of repackOverlay's loop over BuiltLayers, first half.
GenerateBuiltLayer ==
  LET built == roots[cur].meta.built IN
  /\ pc = "built" /\ k <= Len(built)
  /\ \/ /\ GenerateNew(built[k]) \/ AddExisting(built[k])
        /\ Goto("builtMeta")
        /\ UNCHANGED <<k, runVars>>
     \/ /\ NothingToAdd(built[k])
        /\ k' = k + 1
        /\ UNCHANGED <<pc, mut, dirVars, roots, runVars>>
     \/ /\ Unreadable(built[k])
        /\ Fail /\ UNCHANGED <<k, mut, dirVars, roots>>
  /\ UNCHANGED <<userVars, copyVars, cache, ociVars, mutated>>

\* The manifests so far become the built layer's own.
WithManifests(manifests) ==
  [t \in Types |-> IF t \in TypeSet THEN mut[t] ELSE manifests[t]]

\* Mutant of WriteBuiltMetadata: the built layer keeps its old metadata.
WriteBuiltMetadataSkipped ==
  /\ pc = "builtMeta"
  /\ mutated' = TRUE
  /\ k' = k + 1
  /\ Goto("built")
  /\ UNCHANGED <<userVars, copyVars, cache, roots, dirVars, ociVars, mut, runVars>>

WriteBuiltMetadata ==
  LET b == roots[cur].meta.built[k] IN
  /\ pc = "builtMeta"
  /\ roots' = [roots EXCEPT ![b].meta.manifests = WithManifests(@),
                            ![b].meta.hasOut = TRUE]
  /\ mutated' = TRUE
  /\ k' = k + 1
  /\ Goto("built")
  /\ UNCHANGED <<userVars, copyVars, cache, dirVars, ociVars, mut, runVars>>

\* generateLayer for the layer itself.
GenerateOwnLayer ==
  /\ pc = "built" /\ k > Len(roots[cur].meta.built)
  /\ \/ /\ GenerateNew(cur) \/ AddExisting(cur)
        /\ Goto("commit")
     \/ /\ NothingToAdd(cur)
        /\ Goto(IF mutated \/ \E t \in Types : roots[cur].meta.ods[t] # None
                THEN "commit" ELSE "config")
        /\ UNCHANGED <<mut, dirVars, roots>>
  /\ UNCHANGED <<userVars, copyVars, cache, ociVars, k, mutated, runVars>>

\* mutator.Commit and UpdateReference for each type.
Commit ==
  /\ pc = "commit"
  /\ refs' = [refs EXCEPT ![cur] = [t \in Types |->
                IF t \in TypeSet THEN [@[t] EXCEPT !.layers = mut[t]] ELSE @[t]]]
  /\ blobs' = blobs \union {refs'[cur][t] : t \in TypeSet}
  /\ Goto("ownMeta")
  /\ UNCHANGED <<userVars, copyVars, cache, roots, dirVars, mutVars, runVars>>

\* The metadata starts afresh from the manifests just written.
WriteOwnMetadata ==
  /\ pc = "ownMeta"
  /\ roots' = [roots EXCEPT ![cur].meta =
       [NewOverlayMetadata EXCEPT !.manifests =
          [t \in Types |-> IF t \in TypeSet THEN mut[t] ELSE None]]]
  /\ Goto("config")
  /\ UNCHANGED <<userVars, copyVars, cache, dirVars, ociVars, mutVars, runVars>>

\* updateOCIConfigForOutput for each type.
UpdateOCIConfig ==
  /\ pc = "config"
  /\ refs' = [refs EXCEPT ![cur] = [t \in Types |->
                IF t \in TypeSet THEN [@[t] EXCEPT !.def = def[cur]] ELSE @[t]]]
  /\ blobs' = blobs \union {refs'[cur][t] : t \in TypeSet}
  /\ Goto("put")
  /\ UNCHANGED <<userVars, copyVars, cache, roots, dirVars, mutVars, runVars>>

-----------------------------------------------------------------------------
\* Mutant of Put: build-only layers get no cache entry.
PutOutputOnly ==
  LET baseHash == IF From[cur] # None THEN Lookup[From[cur]] ELSE OwnBase(cur) IN
  /\ pc = "put"
  /\ IF BaseMissing(cur, baseHash)
     THEN Fail /\ UNCHANGED cache
     ELSE /\ cache' = IF cur \in BuildOnly THEN cache ELSE [cache EXCEPT ![cur] =
               [manifests |-> [t \in Types |->
                  IF cur \in BuildOnly
                  THEN IF t = types[1] THEN Bogus ELSE None
                  ELSE IF t \in TypeSet THEN refs[cur][t] ELSE None],
                def |-> def[cur],
                imp |-> CASE ImportKind[cur] = "plain" -> impDir[cur]
                          [] ImportKind[cur] = "overlay" -> imp[cur]
                          [] OTHER -> None,
                base |-> baseHash]]
          /\ NextLayer
  /\ UNCHANGED <<userVars, copyVars, roots, dirVars, ociVars, mutVars>>

\* BuildCache.Put and persist.
Put ==
  LET baseHash == IF From[cur] # None THEN Lookup[From[cur]] ELSE OwnBase(cur) IN
  /\ pc = "put"
  /\ IF BaseMissing(cur, baseHash)
     THEN Fail /\ UNCHANGED cache
     ELSE /\ cache' = [cache EXCEPT ![cur] =
               [manifests |-> [t \in Types |->
                  IF cur \in BuildOnly
                  THEN IF t = types[1] THEN Bogus ELSE None
                  ELSE IF t \in TypeSet THEN refs[cur][t] ELSE None],
                def |-> def[cur],
                imp |-> CASE ImportKind[cur] = "plain" -> impDir[cur]
                          [] ImportKind[cur] = "overlay" -> imp[cur]
                          [] OTHER -> None,
                base |-> baseHash]]
          /\ NextLayer
  /\ UNCHANGED <<userVars, copyVars, roots, dirVars, ociVars, mutVars>>

\* oci.GC at the end of a successful build.
GC ==
  /\ pc = "gc"
  /\ blobs' = {refs[n][t] : n \in Layers, t \in Types} \ {None}
  /\ pc' = "idle"
  /\ outcome' = "ok"
  /\ UNCHANGED <<userVars, copyVars, cache, roots, dirVars, refs, mutVars, idx,
                 types, cold, runs>>

\* The process dies, or a step returns an error: nothing is rolled back.
Kill ==
  /\ "kill" \in Faults
  /\ pc # "idle"
  /\ Fail
  /\ UNCHANGED <<userVars, copyVars, cache, roots, dirVars, ociVars, mutVars>>

\* The process dies while Unpack extracts the image, or the extraction fails and
\* what it has written cannot be removed.
KillUnpack ==
  LET image == Cached(cur) IN
  /\ "kill" \in Faults
  /\ pc = "metadata" /\ Source(cur) \in Images \ Tars
  /\ <<BaseType, image>> \notin hashDirs
  /\ hashDirs' = hashDirs \union {<<BaseType, image>>}
  /\ torn' = torn \union {image}
  /\ Fail
  /\ UNCHANGED <<userVars, copyVars, cache, roots, links, ociVars, mutVars>>

-----------------------------------------------------------------------------
SetupRootfs == Delete \/ Create \/ SetupEmptyRootfs \/ Unpack \/ Restore

Repack == InitializeBasesInOutput \/ GenerateBuiltLayer \/ WriteBuiltMetadata
          \/ GenerateOwnLayer \/ Commit \/ WriteOwnMetadata

Build == Import \/ GetBase \/ CacheLookup \/ SetupRootfs \/ SetOverlayDirs \/ RunContainer
         \/ Repack \/ UpdateOCIConfig \/ Put \/ GC

Next ==
  \/ \E n \in Layers : EditDefinition(n) \/ EditImport(n)
  \/ \E i \in Pushed : PushImage(i)
  \/ \E noCache \in BOOLEAN : Start(noCache)
  \/ Build
  \/ Kill \/ KillUnpack

Spec == Init /\ [][Next]_vars

-----------------------------------------------------------------------------
(* What a build from nothing would produce *)

\* The root filesystem of n, lowest token first, if everything up to n were
\* built now.
Fresh[n \in Layers] ==
  LET image == IF Source(n) = None THEN <<>>
               ELSE <<Content(Source(n), upstream[Source(n)])>>
      tarball == IF Source(n) \in Tars THEN image ELSE <<>>
      below == IF From[n] # None THEN Fresh[From[n]]
               ELSE IF Source(n) \in Tars THEN <<>> ELSE image
      seen == below \o (IF ImportKind[n] \in {"dest", "overlay"}
                        THEN <<OverlayDir(n, imp[n])>> ELSE <<>>) IN
  IF def[n] \in Idle THEN seen \o tarball
  ELSE Append(seen, [layer |-> n, def |-> def[n], view |-> seen \o tarball,
                     whole |-> TRUE,
                     imp |-> IF ImportKind[n] = "plain" THEN imp[n] ELSE None])

\* A layer that occurs again higher up is hidden where it occurs first.
Visible(layers) ==
  LET last == {i \in 1..Len(layers) :
                 \A j \in (i + 1)..Len(layers) : layers[j] # layers[i]}
      Nth(i) == CHOOSE p \in last : Cardinality({q \in last : q <= p}) = i IN
  [i \in 1..Cardinality(last) |-> layers[Nth(i)]]

-----------------------------------------------------------------------------
(* Properties *)

Each(seq, Elem(_)) == \A i \in 1..Len(seq) : Elem(seq[i])

Steps == {"idle", "import", "getBase", "lookup", "delete", "create", "metadata",
          "overlayDirs", "run", "initBases", "built", "builtMeta", "commit",
          "ownMeta", "config", "put", "gc"}

\* Every variable has the shape the code's data types give it; in particular
\* a layer being packed has its metadata, and repack's index stays in range.
TypeOK ==
  /\ def \in [Layers -> Versions] /\ imp \in [Layers -> Versions]
  /\ impDir \in [Layers -> Versions \union {None}]
  /\ upstream \in [Images -> Versions] /\ DOMAIN bases = Tags
  /\ \A i \in Images : bases[TagOf[i]] # None =>
       TagOf[bases[TagOf[i]].image] = TagOf[i]
  /\ \A n \in Layers : cache[n] # None =>
       /\ DOMAIN cache[n] = {"manifests", "def", "imp", "base"}
       /\ cache[n].def \in Versions
  /\ \A n \in Layers : roots[n] # None /\ roots[n].meta # None =>
       /\ DOMAIN roots[n].meta = DOMAIN NewOverlayMetadata
       /\ roots[n].meta.built \in Seq(Layers)
  /\ \A n \in Layers, t \in Types : refs[n][t] # None =>
       DOMAIN refs[n][t] = {"layers", "def"}
  /\ \A h \in hashDirs \union links : h[1] \in Types
  /\ pc \in Steps /\ idx \in 1..Len(Order) /\ types \in TypeChoices
  /\ pc \in {"overlayDirs", "run", "initBases", "built", "builtMeta", "commit",
             "ownMeta", "config"} => roots[cur] # None /\ roots[cur].meta # None
  /\ pc = "builtMeta" => k \in 1..Len(roots[cur].meta.built)
  /\ cold \in BOOLEAN /\ mutated \in BOOLEAN
  /\ outcome \in {"none", "running", "ok", "failed"}
  /\ runs \in 0..MaxRuns

\* doc/tutorial.md: stacker "will cache all of the inputs to stacker files,
\* and only rebuild when one of them changes": after a successful build every
\* requested output image has the content a build from nothing would give it.
ImagesFresh ==
  outcome = "ok" =>
    \A n \in Layers \ BuildOnly, t \in TypeSet :
      refs[n][t] # None /\ Visible(refs[n][t].layers) = Fresh[n]

\* The images the layers start from have no directory with only a part of them.
Intact ==
  \A n \in Layers :
    Source(n) # None => Content(Source(n), upstream[Source(n)]) \notin torn

\* Whatever failed or was killed before, a build with --no-cache that succeeds
\* gives every requested image the content of a build from nothing, although
\* the roots dir still holds what earlier invocations left there, unless that
\* is a part of an image whose extraction was interrupted: unpackOne takes a
\* directory that is not empty for the layer, and --no-cache keeps it.
ColdBuildIsFresh == cold /\ Intact => ImagesFresh

\* Nothing stops a build but a failing run section or a kill: no base is
\* missing from the cache when it is hashed, no rootfs is without metadata, no
\* layer directory is missing from a mount, no base image from the output.
NoSpuriousFailure == outcome # "failed"

\* A cached output image is what its entry says it is: the layers that stem
\* from the image's own definition and imports were made by the version of them
\* the entry records, by a run section that ran to its end.
CacheDescribesImage ==
  \A n \in Layers \ BuildOnly, t \in Types :
    cache[n] # None /\ cache[n].manifests[t] # None =>
      Each(cache[n].manifests[t].layers, LAMBDA token :
        /\ "layer" \in DOMAIN token /\ token.layer = n =>
             token.def = cache[n].def /\ token.imp \in {None, cache[n].imp}
             /\ token.whole
        /\ token \in OverlayDirs(n) /\ ImportKind[n] = "overlay" =>
             token.imp = cache[n].imp)

\* Every layer that a rootfs's metadata mounts has its directory, also when
\* repack is interrupted; overlay_dir layers, whose directory is inside another
\* rootfs, are the exception.
ManifestsUnpacked ==
  \A n \in Layers, t \in Types :
    roots[n] # None /\ roots[n].meta # None =>
      Each(Manifest(roots[n].meta.manifests[t]), LAMBDA token :
        "dest" \notin DOMAIN token => <<t, token>> \in hashDirs)
=============================================================================
