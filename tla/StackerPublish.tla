--------------------------- MODULE StackerPublish ---------------------------
(***************************************************************************)
(* "stacker publish" (pkg/stacker/publisher.go) beside "stacker build".    *)
(* The two processes share the OCI layout and build.cache; the builder     *)
(* holds the locks of lock.go, the publisher takes none.  The builder is   *)
(* reduced to what it does to the shared files, in the order in which      *)
(* build.go, base.go and pack.go do it (StackerBuild has the details); the *)
(* publisher has all its steps.  os.WriteFile first truncates build.cache  *)
(* and then writes it, so the file can be caught, or left, unreadable.     *)
(*                                                                         *)
(* A build of several stackerfiles opens the cache again, from the file,   *)
(* for each of them; which layers share a stackerfile is left open.        *)
(* PublishMultiple calls Publish file by file, and a publish here is one   *)
(* such call.  --no-cache, which removes the directory of build.cache, is  *)
(* in StackerBuild and BuildOrder and not here.                            *)
(*                                                                         *)
(* A root filesystem, and the image made of it, is the sequence of the     *)
(* versions of the definitions it was made from, lowest first.             *)
(***************************************************************************)
EXTENDS Naturals, Sequences

CONSTANTS
  Layers,      \* names of the layers of the stackerfiles
  Order,       \* the order in which they are built, bases first
  From,        \* From[n]: the layer n is built from, or None for scratch
  BuildOnly,   \* the layers with build_only: true
  Versions,    \* versions of a definition
  Types,       \* layer types
  TypeChoices, \* the sets of types --layer-type may name
  Wants,       \* the sets of names --image may give; {} is no --image
  Modes,       \* how publish is called, see ModeNames
  Faults,      \* subset of {"build", "publish", "copy"}: a killed build, a
               \* killed publish, a copy that fails
  MaxBuilds, MaxPublishes,  \* bounds on the invocations
  None,        \* no file, no entry, no tag
  Cut, Garbled \* an empty build.cache; one with the end of another one

\* --force, --show-only, no --tag at all, a --url of no known type.
ModeNames == {"plain", "force", "show", "untagged", "badUrl"}

ASSUME PublishAssumption ==
  /\ Layers # {} /\ Versions # {}
  /\ None \notin Layers /\ None \notin Versions /\ None \notin Seq(Versions)
  /\ Order \in Seq(Layers)
  /\ \A n \in Layers : \E i \in 1..Len(Order) : Order[i] = n
  /\ \A i, j \in 1..Len(Order) : i # j => Order[i] # Order[j]
  /\ From \in [Layers -> Layers \union {None}]
  /\ \A i \in 1..Len(Order) : From[Order[i]] # None =>
       \E j \in 1..(i - 1) : Order[j] = From[Order[i]]
  /\ BuildOnly \subseteq Layers
  /\ TypeChoices \subseteq SUBSET Types /\ {} \notin TypeChoices
  /\ Wants \subseteq SUBSET Layers
  /\ Modes \subseteq ModeNames
  /\ Faults \subseteq {"build", "publish", "copy"}
  /\ MaxBuilds \in Nat /\ MaxPublishes \in Nat
  /\ None \notin {Cut, Garbled} /\ Cut # Garbled

VARIABLES
  def,      \* def[n]: version of n's definition in the stackerfile
  file,     \* build.cache: None, Cut, Garbled or a function from layers
  roots,    \* roots[n]: the rootfs of n, or None
  tags,     \* tags[n][t]: the image tagged n (for type t) in the OCI layout
  blobs,    \* the images <<type, content>> whose blobs are in the OCI layout
  bpc, bidx, btypes, bmem,  \* the builder: step, layer, --layer-type, cache
  bout,     \* how the last build ended
  bcalm,    \* nothing had gone wrong when it last opened the cache
  builds,
  ppc, pidx, ptypes, pmode, pwant, pmem,  \* the publisher
  psf,      \* the definitions it has read
  ptodo,    \* cache entries it has not checked yet; types it has not copied
  ppruned,  \* it has pruned its cache
  psrc,     \* the image it is copying
  pok,      \* the last publish succeeded
  publishes,
  dest,     \* dest[n][t]: what the registry has under n's name
  mishaps   \* what has gone wrong so far

buildVars == <<bidx, btypes, bout, bcalm, builds>>
pubArgs == <<ptypes, pmode, pwant, psf>>
pubVars == <<ppc, pidx, pubArgs, pmem, ptodo, ppruned, psrc, pok, publishes>>
vars == <<def, file, roots, tags, blobs, bpc, bmem, buildVars, pubVars, dest,
          mishaps>>

-----------------------------------------------------------------------------
EmptyCache == [n \in Layers |-> None]

Unreadable == {Cut, Garbled}

\* FindFirstBaseInOutput: the nearest base that is not build-only.
FirstBaseInOutput[n \in Layers] ==
  IF From[n] = None THEN None
  ELSE IF From[n] \notin BuildOnly THEN From[n] ELSE FirstBaseInOutput[From[n]]

\* BuildCache.Lookup in cache c for definitions d.  A base that misses is an
\* error; hashes are the hashed entries themselves.
LookupError == [error |-> TRUE]

Lookup(c, d) ==
  LET L[n \in Layers] ==
        LET baseHash == IF From[n] = None THEN None ELSE L[From[n]] IN
        IF c[n] = None THEN None
        ELSE IF c[n].def # d[n] THEN None
        ELSE IF From[n] # None /\ baseHash \in {None, LookupError} THEN LookupError
        ELSE IF baseHash # c[n].base THEN None
        ELSE c[n]
  IN L

\* What OpenCache checks of an entry: the rootfs of a build-only layer, the
\* manifests of the others.
StillThere(n, e) ==
  IF n \in BuildOnly THEN roots[n] # None
  ELSE \A t \in Types : e.manifests[t] = None \/ <<t, e.manifests[t]>> \in blobs

\* A write to the file whose truncation is over: if somebody else wrote in
\* between, the end of a longer text may stay behind the new one.
WriteFile(content) ==
  \/ file' = content
  \/ file \notin {None, Cut, content} /\ file' = Garbled

Busy == bpc # "idle"
Publishing == ppc # "idle"

-----------------------------------------------------------------------------
Init ==
  /\ def = [n \in Layers |-> CHOOSE v \in Versions : TRUE]
  /\ file = None
  /\ roots = [n \in Layers |-> None]
  /\ tags = [n \in Layers |-> [t \in Types |-> None]]
  /\ blobs = {}
  /\ bpc = "idle" /\ bidx = 1 /\ btypes = {} /\ bmem = EmptyCache
  /\ bout = "none" /\ bcalm = TRUE /\ builds = 0
  /\ ppc = "idle" /\ pidx = 1 /\ ptypes = {} /\ pmode = "plain" /\ pwant = {}
  /\ pmem = EmptyCache /\ psf = def /\ ptodo = {} /\ ppruned = FALSE
  /\ psrc = None /\ pok = FALSE /\ publishes = 0
  /\ dest = [n \in Layers |-> [t \in Types |-> None]]
  /\ mishaps = {}

\* The user edits between invocations: both processes read the file when they
\* start.
EditDefinition(n) ==
  /\ ~Busy /\ ~Publishing
  /\ builds < MaxBuilds \/ publishes < MaxPublishes
  /\ \E v \in Versions \ {def[n]} : def' = [def EXCEPT ![n] = v]
  /\ bout' = "none"
  /\ UNCHANGED <<file, roots, tags, blobs, bpc, bidx, btypes, bmem, bcalm,
                 builds, pubVars, dest, mishaps>>

-----------------------------------------------------------------------------
(* The builder *)

cur == Order[bidx]

BGoto(label) == bpc' = label /\ UNCHANGED <<bmem, buildVars>>

\* The process ends; its memory is gone.
BExit(how) ==
  /\ bpc' = "idle" /\ bidx' = 1 /\ bmem' = EmptyCache /\ bout' = how
  /\ UNCHANGED <<btypes, bcalm, builds>>

BFail == BExit("failed")

\* On to the next layer of the stackerfile, or to the end of build().
BNext ==
  /\ \/ bidx < Len(Order) /\ bpc' = "lookup" /\ bidx' = bidx + 1
     \/ bpc' = "gc" /\ bidx' = bidx
  /\ UNCHANGED <<bmem, btypes, bout, bcalm, builds>>

\* OpenCache before the k-th layer: an unreadable cache file is an error.  The
\* prune is persisted only if there was something to prune.
BOpenCache(k) ==
  LET read == IF file = None THEN EmptyCache ELSE file
      kept == [n \in Layers |-> IF read[n] = None THEN None
                                ELSE IF StillThere(n, read[n]) THEN read[n]
                                ELSE None] IN
  /\ bcalm' = (mishaps' = {})
  /\ IF file \in Unreadable
     THEN bpc' = "idle" /\ bidx' = 1 /\ bmem' = EmptyCache /\ bout' = "failed"
     ELSE /\ bidx' = k /\ bmem' = kept /\ bout' = "none"
          /\ bpc' = IF kept = read THEN "lookup" ELSE "pruned"
  /\ UNCHANGED <<def, file, roots, tags, blobs, pubVars, dest>>

\* BuildMultiple, and build() of the first stackerfile up to OpenCache.
BStart ==
  /\ ~Busy /\ builds < MaxBuilds
  /\ builds' = builds + 1
  /\ btypes' \in TypeChoices
  /\ mishaps' = mishaps \union IF Publishing THEN {"overlap"} ELSE {}
  /\ BOpenCache(1)

\* build() of the next stackerfile: what the file holds now counts, not what
\* this process wrote.
BReopen ==
  /\ bpc = "reopen"
  /\ UNCHANGED <<btypes, builds, mishaps>>
  /\ BOpenCache(bidx + 1)

\* Mutant of BLookup: the cache file is read again for every layer of a
\* stackerfile.
BLookupReads ==
  LET c == IF file \in Unreadable \union {None} THEN bmem ELSE file
      e == Lookup(c, def)[cur]
      found == {t \in btypes : e.manifests[t] # None} IN
  /\ bpc = "lookup"
  /\ \/ e = LookupError /\ BFail /\ UNCHANGED tags
     \/ /\ e \notin {None, LookupError} /\ cur \in BuildOnly
        /\ BNext /\ UNCHANGED tags
     \/ /\ e \notin {None, LookupError} /\ cur \notin BuildOnly
        /\ tags' = [tags EXCEPT ![cur] = [t \in Types |->
                      IF t \in found THEN e.manifests[t] ELSE @[t]]]
        /\ IF found = btypes THEN BNext ELSE BGoto("delete")
     \/ e = None /\ BGoto("delete") /\ UNCHANGED tags
  /\ UNCHANGED <<def, file, roots, blobs, pubVars, dest, mishaps>>

\* A hit tags the cached images again; types without one are built.
BLookup ==
  LET e == Lookup(bmem, def)[cur]
      found == {t \in btypes : e.manifests[t] # None} IN
  /\ bpc = "lookup"
  /\ \/ e = LookupError /\ BFail /\ UNCHANGED tags
     \/ /\ e \notin {None, LookupError} /\ cur \in BuildOnly
        /\ BNext /\ UNCHANGED tags
     \/ /\ e \notin {None, LookupError} /\ cur \notin BuildOnly
        /\ tags' = [tags EXCEPT ![cur] = [t \in Types |->
                      IF t \in found THEN e.manifests[t] ELSE @[t]]]
        /\ IF found = btypes THEN BNext ELSE BGoto("delete")
     \/ e = None /\ BGoto("delete") /\ UNCHANGED tags
  /\ UNCHANGED <<def, file, roots, blobs, pubVars, dest, mishaps>>

\* SetupRootfs starts with the removal of the old one.
BDelete ==
  /\ bpc = "delete"
  /\ roots' = [roots EXCEPT ![cur] = None]
  /\ BGoto("rootfs")
  /\ UNCHANGED <<def, file, tags, blobs, pubVars, dest, mishaps>>

\* Create, Restore and the run section.
BRootfs ==
  LET below == IF From[cur] = None THEN <<>> ELSE roots[From[cur]] IN
  /\ bpc = "rootfs"
  /\ IF below = None THEN BFail /\ UNCHANGED roots
     ELSE /\ roots' = [roots EXCEPT ![cur] = Append(below, def[cur])]
          /\ BGoto(IF cur \in BuildOnly THEN "put" ELSE "bases")
  /\ UNCHANGED <<def, file, tags, blobs, pubVars, dest, mishaps>>

Tagged(images) ==
  /\ tags' = [tags EXCEPT ![cur] = [t \in Types |->
                IF t \in btypes THEN images[t] ELSE @[t]]]
  /\ blobs' = blobs \union {<<t, images[t]>> : t \in btypes}

\* initializeBasesInOutput: the base's image under the layer's own tag.
BInitializeBases ==
  LET b == FirstBaseInOutput[cur]
      start == [t \in Types |-> IF b = None THEN <<>> ELSE tags[b][t]] IN
  /\ bpc = "bases"
  /\ IF \E t \in btypes : start[t] = None
     THEN BFail /\ UNCHANGED <<tags, blobs>>
     ELSE Tagged(start) /\ BGoto("commit")
  /\ UNCHANGED <<def, file, roots, pubVars, dest, mishaps>>

\* Repack and updateOCIConfigForOutput.
BCommit ==
  /\ bpc = "commit"
  /\ Tagged([t \in Types |-> roots[cur]])
  /\ BGoto("put")
  /\ UNCHANGED <<def, file, roots, pubVars, dest, mishaps>>

\* BuildCache.Put up to persist.
BPut ==
  LET baseHash == IF From[cur] = None THEN None
                  ELSE Lookup(bmem, def)[From[cur]] IN
  /\ bpc = "put"
  /\ IF From[cur] # None /\ baseHash \in {None, LookupError}
     THEN BFail
     ELSE /\ bmem' = [bmem EXCEPT ![cur] =
               [def |-> def[cur], base |-> baseHash, manifests |->
                  [t \in Types |-> IF cur \notin BuildOnly /\ t \in btypes
                                   THEN tags[cur][t] ELSE None]]]
          /\ bpc' = "persist" /\ UNCHANGED buildVars
  /\ UNCHANGED <<def, file, roots, tags, blobs, pubVars, dest, mishaps>>

\* persist: the file is truncated ...
BTruncate ==
  /\ bpc \in {"pruned", "persist"}
  /\ file' = Cut
  /\ mishaps' = mishaps \union IF ppc = "write" THEN {"clash"} ELSE {}
  /\ BGoto(IF bpc = "pruned" THEN "writePruned" ELSE "write")
  /\ UNCHANGED <<def, roots, tags, blobs, pubVars, dest>>

\* ... and then written.
BWrite ==
  /\ bpc \in {"writePruned", "write"}
  /\ WriteFile(bmem)
  /\ IF bpc = "writePruned" THEN BGoto("lookup") ELSE BNext
  /\ UNCHANGED <<def, roots, tags, blobs, pubVars, dest, mishaps>>

\* oci.GC at the end of a stackerfile; then the next one, if there is one.
BGC ==
  /\ bpc = "gc"
  /\ blobs' = {<<t, tags[n][t]>> : n \in Layers, t \in Types}
              \ {<<t, None>> : t \in Types}
  /\ IF bidx = Len(Order) THEN BExit("ok") ELSE BGoto("reopen")
  /\ UNCHANGED <<def, file, roots, tags, pubVars, dest, mishaps>>

BKill ==
  /\ "build" \in Faults
  /\ Busy
  /\ BExit("killed")
  /\ mishaps' = mishaps \union {"killed"} \union
       IF bpc \in {"writePruned", "write"} THEN {"writeKilled"} ELSE {}
  /\ UNCHANGED <<def, file, roots, tags, blobs, pubVars, dest>>

Build == BStart \/ BReopen \/ BLookup \/ BDelete \/ BRootfs \/ BInitializeBases
         \/ BCommit \/ BPut \/ BTruncate \/ BWrite \/ BGC

-----------------------------------------------------------------------------
(* The publisher *)

builderVars == <<def, roots, tags, blobs, bpc, bmem, buildVars>>

PGoto(label) == ppc' = label /\ UNCHANGED <<pidx, pubArgs, pmem, pok, publishes>>

\* The process ends; of its memory only what a success was about is kept.
PFail ==
  /\ ppc' = "idle" /\ pidx' = 1 /\ pmem' = EmptyCache /\ pok' = FALSE
  /\ ptodo' = {} /\ ppruned' = FALSE /\ psrc' = None
  /\ ptypes' = {} /\ pmode' = "plain" /\ pwant' = {} /\ psf' = def
  /\ UNCHANGED publishes

\* PublishMultiple reads the stackerfile, Publish opens the cache.
PStart(types, mode, want) ==
  /\ ~Publishing /\ publishes < MaxPublishes
  /\ publishes' = publishes + 1
  /\ ptypes' = types /\ pmode' = mode /\ pwant' = want /\ psf' = def
  /\ pidx' = 1 /\ ppruned' = FALSE /\ psrc' = None /\ pok' = FALSE
  /\ mishaps' = mishaps \union IF Busy THEN {"overlap"} ELSE {}
  /\ ppc' = IF file \in Unreadable THEN "idle" ELSE "check"
  /\ pmem' = IF file \in Unreadable \union {None} THEN EmptyCache ELSE file
  /\ ptodo' = {n \in Layers : pmem'[n] # None}
  /\ UNCHANGED <<builderVars, file, dest>>

\* OpenCache's loop over a map, in any order; the layout may change meanwhile.
PCheck(n) ==
  /\ ppc = "check" /\ n \in ptodo
  /\ ptodo' = ptodo \ {n}
  /\ pmem' = IF StillThere(n, pmem[n]) THEN pmem ELSE [pmem EXCEPT ![n] = None]
  /\ ppruned' = (ppruned \/ ~StillThere(n, pmem[n]))
  /\ UNCHANGED <<builderVars, file, ppc, pidx, pubArgs, psrc, pok, publishes,
                 dest, mishaps>>

\* A pruned cache is written back: the file is truncated ...
PTruncate ==
  /\ ppc = "check" /\ ptodo = {} /\ ppruned
  /\ file' = Cut
  /\ mishaps' = mishaps \union
       IF bpc \in {"writePruned", "write"} THEN {"clash"} ELSE {}
  /\ PGoto("write")
  /\ UNCHANGED <<builderVars, ptodo, ppruned, psrc, dest>>

\* Mutant of PWrite: an empty cache is not worth a write.
PWriteSkipsEmpty ==
  /\ ppc = "write"
  /\ IF pmem = EmptyCache THEN UNCHANGED file ELSE WriteFile(pmem)
  /\ PGoto("args")
  /\ UNCHANGED <<builderVars, ptodo, ppruned, psrc, dest, mishaps>>

\* ... and written.
PWrite ==
  /\ ppc = "write"
  /\ WriteFile(pmem)
  /\ PGoto("args")
  /\ UNCHANGED <<builderVars, ptodo, ppruned, psrc, dest, mishaps>>

\* The list of tags must not be empty.
PArgs ==
  /\ \/ ppc = "args"
     \/ ppc = "check" /\ ptodo = {} /\ ~ppruned
  /\ IF pmode = "untagged" THEN PFail
     ELSE PGoto("layer") /\ UNCHANGED <<ptodo, ppruned, psrc>>
  /\ UNCHANGED <<builderVars, file, dest, mishaps>>

Requested(n) == n \notin BuildOnly /\ (pwant = {} \/ n \in pwant)

\* Mutant of Publishable: any entry of the cache will do.
PublishableOutdated(n) == pmem[n] # None \/ pmode = "force"

\* A layer that is not in the cache as it stands is published only by force;
\* an error of Lookup is one even then.
Publishable(n) ==
  LET e == Lookup(pmem, psf)[n] IN
  e # LookupError /\ (e # None \/ pmode = "force")

\* The loop over the layers of the file leaves out what is not requested.
PSkip ==
  /\ ppc = "layer" /\ pidx <= Len(Order) /\ ~Requested(Order[pidx])
  /\ pidx' = pidx + 1
  /\ UNCHANGED <<builderVars, file, ppc, pubArgs, pmem, ptodo, ppruned, psrc,
                 pok, publishes, dest, mishaps>>

PLookup ==
  /\ ppc = "layer" /\ pidx <= Len(Order) /\ Requested(Order[pidx])
  /\ IF Publishable(Order[pidx])
     THEN PGoto("type") /\ ptodo' = ptypes /\ UNCHANGED <<ppruned, psrc>>
     ELSE PFail
  /\ UNCHANGED <<builderVars, file, dest, mishaps>>

PDone ==
  /\ ppc = "layer" /\ pidx > Len(Order)
  /\ ppc' = "idle" /\ pidx' = 1 /\ pok' = TRUE
  /\ UNCHANGED <<builderVars, file, pubArgs, pmem, ptodo, ppruned, psrc,
                 publishes, dest, mishaps>>

\* Mutant of PResolve: the tag is not known to be there.
PResolveUnchecked(t) ==
  LET image == tags[Order[pidx]][t] IN
  /\ ppc = "type" /\ t \in ptodo
  /\ IF pmode = "badUrl"
     THEN PFail
     ELSE /\ ptodo' = ptodo \ {t}
          /\ psrc' = IF pmode = "show" THEN None ELSE <<t, image>>
          /\ PGoto(IF pmode = "show" THEN "type" ELSE "copy")
          /\ UNCHANGED ppruned
  /\ UNCHANGED <<builderVars, file, dest, mishaps>>

\* The loop over the types.  --show-only prints and goes on; else ImageCopy
\* finds the image by its tag, not by the manifest of the cache entry.
PResolve(t) ==
  LET image == tags[Order[pidx]][t] IN
  /\ ppc = "type" /\ t \in ptodo
  /\ IF pmode = "badUrl" \/ (pmode # "show" /\ image = None)
     THEN PFail
     ELSE /\ ptodo' = ptodo \ {t}
          /\ psrc' = IF pmode = "show" THEN None ELSE <<t, image>>
          /\ PGoto(IF pmode = "show" THEN "type" ELSE "copy")
          /\ UNCHANGED ppruned
  /\ UNCHANGED <<builderVars, file, dest, mishaps>>

\* The blobs are copied, then the manifest, unless the registry fails or the
\* builder's GC has removed some of them meanwhile.
PCopy ==
  /\ ppc = "copy"
  /\ \/ /\ psrc \in blobs
        /\ dest' = [dest EXCEPT ![Order[pidx]][psrc[1]] = psrc[2]]
        /\ PGoto("type") /\ psrc' = None /\ UNCHANGED <<ptodo, ppruned>>
     \/ /\ psrc \notin blobs \/ "copy" \in Faults
        /\ PFail /\ UNCHANGED dest
  /\ UNCHANGED <<builderVars, file, mishaps>>

PNextLayer ==
  /\ ppc = "type" /\ ptodo = {}
  /\ ppc' = "layer" /\ pidx' = pidx + 1
  /\ UNCHANGED <<builderVars, file, pubArgs, pmem, ptodo, ppruned, psrc, pok,
                 publishes, dest, mishaps>>

PKill ==
  /\ "publish" \in Faults
  /\ Publishing
  /\ PFail
  /\ mishaps' = mishaps \union IF ppc = "write" THEN {"writeKilled"} ELSE {}
  /\ UNCHANGED <<builderVars, file, dest>>

PStep == \/ \E n \in Layers : PCheck(n)
         \/ PTruncate \/ PWrite \/ PArgs \/ PSkip \/ PLookup \/ PDone
         \/ \E t \in Types : PResolve(t)
         \/ PCopy \/ PNextLayer

-----------------------------------------------------------------------------
Next ==
  \/ \E n \in Layers : EditDefinition(n)
  \/ Build \/ BKill
  \/ \E types \in TypeChoices, mode \in Modes, want \in Wants :
       PStart(types, mode, want)
  \/ PStep \/ PKill

Spec == Init /\ [][Next]_vars

-----------------------------------------------------------------------------
(* Properties *)

Contents == Seq(Versions)

IsCache(c) ==
  /\ DOMAIN c = Layers
  /\ \A n \in Layers : c[n] # None =>
       /\ DOMAIN c[n] = {"def", "base", "manifests"}
       /\ c[n].def \in Versions
       /\ c[n].manifests \in [Types -> Contents \union {None}]

\* Every variable has the shape its declaration gives it; the cache file is
\* absent, unreadable or a cache.
TypeOK ==
  /\ def \in [Layers -> Versions] /\ psf \in [Layers -> Versions]
  /\ file \in {None} \union Unreadable \/ IsCache(file)
  /\ IsCache(bmem) /\ IsCache(pmem)
  /\ roots \in [Layers -> Contents \union {None}]
  /\ tags \in [Layers -> [Types -> Contents \union {None}]]
  /\ blobs \subseteq Types \X Contents
  /\ dest \in [Layers -> [Types -> Contents \union {None}]]
  /\ bpc \in {"idle", "pruned", "writePruned", "lookup", "delete", "rootfs",
              "bases", "commit", "put", "persist", "write", "gc", "reopen"}
  /\ ppc \in {"idle", "check", "write", "args", "layer", "type", "copy"}
  /\ bout \in {"none", "ok", "failed", "killed"}
  /\ bidx \in 1..Len(Order) /\ pidx \in 1..(Len(Order) + 1)
  /\ btypes \subseteq Types /\ ptypes \subseteq Types
  /\ ptodo \subseteq Layers \/ ptodo \subseteq Types
  /\ ppc = "copy" => psrc \in Types \X Contents
  /\ builds \in 0..MaxBuilds /\ publishes \in 0..MaxPublishes

\* What a build from nothing would put into n.
Fresh(d) ==
  LET F[n \in Layers] ==
        Append(IF From[n] = None THEN <<>> ELSE F[From[n]], d[n])
  IN F

\* cmd/stacker/publish.go: without --force, images that "should be rebuilt" are
\* not published.  As long as no build was killed and no publish has run beside
\* a build, a publish that succeeds has put the image that belongs to the
\* stackerfile it read under each requested name and type, for the types that
\* the cached build was made for.
PublishedIsFresh ==
  ~Publishing /\ pok /\ pmode = "plain" /\ mishaps \subseteq {"writeKilled"} =>
    \A n \in Layers, t \in ptypes :
      Requested(n) /\ pmem[n].manifests[t] # None => dest[n][t] = Fresh(psf)[n]

\* A publish that starts after a running build has opened the cache for its last
\* stackerfile, prunes its own copy and is killed anywhere does no harm to that
\* build: it does not fail, and it still gives every image the content a build
\* from nothing has.  (One that writes the file before a later stackerfile is
\* opened can make the build fail: build() reads the file again.)
RunningBuildUnharmed ==
  bcalm =>
    /\ bout # "failed"
    /\ bout = "ok" => \A n \in Layers \ BuildOnly, t \in btypes :
                        tags[n][t] = Fresh(def)[n]

\* build.cache is readable except while somebody rewrites it, after a kill just
\* then, or after two processes rewrote it at once: nothing else makes later
\* invocations fail to open it.
UnreadableIsExplained ==
  file \in Unreadable =>
    \/ bpc \in {"writePruned", "write"} \/ ppc = "write"
    \/ mishaps \intersect {"writeKilled", "clash"} # {}
=============================================================================
