--------------------------- MODULE PrecompileCache ---------------------------
(***************************************************************************)
(* load_modules of sandbox/containerd/client.rs, as the create handlers of *)
(* several shims run it at once against one containerd: the modules of an  *)
(* image are read from the content store, compiled ones are read in place  *)
(* of the originals, and what is missing is compiled and saved.            *)
(*                                                                         *)
(* A step of a load is one request to containerd and what the load then    *)
(* does until its next request.  What containerd does is external: content *)
(* and labels, leases, and a collector that keeps what an image or a lease *)
(* reaches through gc.ref labels.                                          *)
(***************************************************************************)
EXTENDS Integers, Sequences

CONSTANTS Loads,       \* the threads that call load_modules
          Engines,     \* the precompile ids: an engine in one version
          EngineOf,    \* EngineOf[s]: the engine of the shim that s belongs to
          Precompilers, \* the engines whose can_precompile is Some
          Images, Layers,
          LayersOf,    \* LayersOf[i]: the layers of i that is_wasm_layer keeps
          WasmImages,  \* the images whose architecture is wasm
          Compilable,  \* the layers for which precompile gives Some
          Faults,      \* what may go wrong in this instance
          NoDigest, Flag, NoLoad, Orphan, NoImage

Positions == UNION {DOMAIN LayersOf[i] : i \in Images}

ASSUME CacheAssumption ==
  /\ EngineOf \in [Loads -> Engines]
  /\ Precompilers \subseteq Engines
  /\ LayersOf \in [Images -> Seq(Layers)]
  /\ WasmImages \subseteq Images
  /\ Compilable \subseteq Layers
  /\ Faults \subseteq {"rpc", "crash", "engine", "remove", "late"}
  /\ NoLoad \notin Loads /\ Orphan \notin Loads /\ NoLoad # Orphan
  /\ NoImage \notin Images

\* The digest of a compiled layer: what is compiled, and by whom.
Compiled == [engine : Engines, layer : Layers]

ASSUME DigestAssumption ==
  /\ {NoDigest, Flag} \cap (Images \cup Layers \cup Compiled) = {}
  /\ NoDigest # Flag
  /\ Images \cap Layers = {} /\ Compiled \cap (Images \cup Layers) = {}

VARIABLES content,  \* the digests in the content store
          labels,   \* the labels of each manifest and original layer
          tagged,   \* the images containerd has a record of
          lease,    \* lease[e]: who created the lease precompile-e, if it exists
          leased,   \* leased[e]: the content that lease protects
          pending,  \* the loads whose dropped LeaseGuard is still to be released
          pc, img,  \* where each load is, and with which image
          pos,      \* the layer it is at
          needs,    \* needs_precompile
          dig,      \* digest_to_load
          mods,     \* the modules it has read, or returned
          info      \* the labels it got with its last get_info

store == <<content, labels, tagged>>
guards == <<lease, leased, pending>>
locals == <<img, pos, needs, dig, mods, info>>
vars == <<store, guards, pc, locals>>

\* The labels that matter: the engines' keys, and gc.ref labels by position.
Labels == [key : [Engines -> Compiled \cup {Flag, NoDigest}],
           ref : [Positions -> Compiled \cup {NoDigest}]]

NoLabels == [key |-> [e \in Engines |-> NoDigest],
             ref |-> [k \in Positions |-> NoDigest]]

Returned == {"idle", "ok", "err"}
Saving == {"write", "layerGet", "layerPut", "imageGet", "imagePut", "release"}
Requests == {"image", "info", "read", "fallback", "lease"} \cup Saving

\* The images have been pulled, nothing has been compiled.
Init ==
  /\ content = Images \cup UNION {{LayersOf[i][k] : k \in DOMAIN LayersOf[i]} : i \in Images}
  /\ labels = [d \in Images \cup Layers |-> NoLabels]
  /\ tagged = Images
  /\ lease = [e \in Engines |-> NoLoad]
  /\ leased = [e \in Engines |-> {}]
  /\ pending = {}
  /\ pc = [s \in Loads |-> "idle"]
  /\ img = [s \in Loads |-> NoImage]
  /\ pos = [s \in Loads |-> 0]
  /\ needs = [s \in Loads |-> FALSE]
  /\ dig = [s \in Loads |-> NoDigest]
  /\ mods = [s \in Loads |-> <<>>]
  /\ info = [s \in Loads |-> NoLabels]

Goto(s, l) == pc' = [pc EXCEPT ![s] = l]

\* load_modules is left, with the modules m; its locals are gone.
Leave(s, l, m) ==
  /\ Goto(s, l)
  /\ mods' = [mods EXCEPT ![s] = m]
  /\ pos' = [pos EXCEPT ![s] = 0]
  /\ needs' = [needs EXCEPT ![s] = FALSE]
  /\ dig' = [dig EXCEPT ![s] = NoDigest]
  /\ info' = [info EXCEPT ![s] = NoLabels]
  /\ UNCHANGED img

MyLayers(s) == LayersOf[img[s]]
Layer(s) == MyLayers(s)[pos[s]]
CanPrecompile(s) == EngineOf[s] \in Precompilers

\* What compiling the layer that s is at gives.
Product(s) == [engine |-> EngineOf[s], layer |-> Layer(s)]

\* A label that names the engine and not its version, as if there were one.
PrecompileLabel_shared(e) == CHOOSE f \in Engines : TRUE

\* The label precompile_label makes: one for each engine and version.
PrecompileLabel(e) == e

-----------------------------------------------------------------------------
(***************************************************************************)
(* Leases.  A guard that is dropped, because an error left load_modules,   *)
(* only spawns its release, on the runtime of this thread: that runs when  *)
(* the thread is in block_on again, if ever.                               *)
(***************************************************************************)
DeleteLease(e) ==
  /\ lease' = [lease EXCEPT ![e] = NoLoad]
  /\ leased' = [leased EXCEPT ![e] = {}]

\* `?` in load_modules or save_content, and the drop of the guard if there is one.
Error(s) ==
  /\ Leave(s, "err", <<>>)
  /\ pending' = IF pc[s] \in Saving THEN pending \cup {s} ELSE pending
  /\ UNCHANGED <<store, lease, leased>>

\* The spawned release of a dropped guard runs.
DropRelease(s) ==
  /\ s \in pending /\ pc[s] \notin Returned
  /\ pending' = pending \ {s}
  /\ \/ DeleteLease(EngineOf[s])
     \/ /\ "rpc" \in Faults
        /\ lease' = [lease EXCEPT ![EngineOf[s]] = Orphan]
        /\ UNCHANGED leased
  /\ UNCHANGED <<store, pc, locals>>

\* A request fails although containerd has what it asks for.  A failed read of
\* compiled content (ReadContent) and a failed release (Release) are no errors.
RequestFails(s) ==
  /\ "rpc" \in Faults
  /\ pc[s] \in Requests \ {"release"}
  /\ pc[s] = "read" => dig[s] = Layer(s)
  /\ Error(s)

\* The shim dies, with its pending releases.
Crash(s) ==
  /\ "crash" \in Faults
  /\ pc[s] # "idle"
  /\ Leave(s, "idle", <<>>)
  /\ pending' = pending \ {s}
  /\ lease' = IF lease[EngineOf[s]] = s
              THEN [lease EXCEPT ![EngineOf[s]] = Orphan] ELSE lease
  /\ UNCHANGED <<store, leased>>

-----------------------------------------------------------------------------
(***************************************************************************)
(* Reading the image and its layers.                                       *)
(***************************************************************************)
\* get_container, get_image_manifest_and_digest and the platform of the config.
Begin(s, i) ==
  /\ pc[s] \in Returned
  /\ img' = [img EXCEPT ![s] = i]
  /\ Goto(s, IF i \notin tagged THEN "err"
             ELSE IF i \notin WasmImages THEN "ok" ELSE "image")
  /\ mods' = [mods EXCEPT ![s] = <<>>]
  /\ UNCHANGED <<store, guards, pos, needs, dig, info>>

\* read_wasm_layer is called for layer k.
ToLayer(s, k) ==
  /\ Goto(s, IF CanPrecompile(s) THEN "info" ELSE "read")
  /\ pos' = [pos EXCEPT ![s] = k]
  /\ dig' = [dig EXCEPT ![s] = MyLayers(s)[k]]

\* get_info of the image: is there anything to precompile?
ImageInfo(s) ==
  /\ pc[s] = "image"
  /\ \/ /\ img[s] \notin content
        /\ Error(s)
     \/ /\ img[s] \in content
        /\ needs' = [needs EXCEPT ![s] =
             /\ CanPrecompile(s) /\ MyLayers(s) # <<>>
             /\ labels[img[s]].key[PrecompileLabel(EngineOf[s])] = NoDigest]
        /\ IF MyLayers(s) = <<>> THEN Goto(s, "ok") /\ UNCHANGED <<pos, dig>>
                                 ELSE ToLayer(s, 1)
        /\ UNCHANGED <<store, guards, img, mods, info>>

\* read_wasm_layer: the label that says where the layer's compiled form is.
LayerInfo(s) ==
  /\ pc[s] = "info"
  /\ \/ /\ Layer(s) \notin content
        /\ Error(s)
     \/ /\ Layer(s) \in content
        /\ LET l == labels[Layer(s)].key[PrecompileLabel(EngineOf[s])]
           IN dig' = [dig EXCEPT ![s] = IF l # NoDigest THEN l ELSE Layer(s)]
        /\ Goto(s, "read")
        /\ UNCHANGED <<store, guards, img, pos, needs, mods, info>>

\* layers.push, and on to the next layer, to precompile, or out.
Push(s, d) ==
  /\ IF pos[s] < Len(MyLayers(s))
     THEN /\ mods' = [mods EXCEPT ![s] = Append(@, d)]
          /\ ToLayer(s, pos[s] + 1)
          /\ UNCHANGED <<img, needs, info>>
     ELSE IF needs[s]
     THEN /\ mods' = [mods EXCEPT ![s] = Append(@, d)]
          /\ Goto(s, "precompile")
          /\ dig' = [dig EXCEPT ![s] = NoDigest]
          /\ UNCHANGED <<img, pos, needs, info>>
     ELSE Leave(s, "ok", Append(mods[s], d))
  /\ UNCHANGED <<store, guards>>

\* A compiled layer that cannot be read is an error, as an original one is.
ReadContent_no_fallback(s) ==
  /\ pc[s] = "read"
  /\ \/ /\ dig[s] \in content
        /\ Push(s, dig[s])
     \/ /\ dig[s] \notin content
        /\ Error(s)

\* read_content of digest_to_load.
ReadContent(s) ==
  /\ pc[s] = "read"
  /\ \/ /\ dig[s] \in content
        /\ Push(s, dig[s])
     \/ /\ dig[s] \notin content /\ dig[s] = Layer(s)
        /\ Error(s)
     \/ /\ dig[s] # Layer(s)
        /\ dig[s] \notin content \/ "rpc" \in Faults
        /\ needs' = [needs EXCEPT ![s] = CanPrecompile(s)]
        /\ Goto(s, "fallback")
        /\ UNCHANGED <<store, guards, img, pos, dig, mods, info>>

\* "falling back to original layer and marking for recompile".
ReadOriginal(s) ==
  /\ pc[s] = "fallback"
  /\ IF Layer(s) \in content THEN Push(s, Layer(s)) ELSE Error(s)

-----------------------------------------------------------------------------
(***************************************************************************)
(* Precompiling.  For each layer the engine compiled: save_content under a *)
(* lease, a label on the layer, a label on the image, release the lease.   *)
(***************************************************************************)
\* A layer that was read in its compiled form is not compiled again.
ToCompile(s, k) ==
  {j \in DOMAIN mods[s] : /\ j > k
                          /\ mods[s][j] = MyLayers(s)[j]
                          /\ MyLayers(s)[j] \in Compilable}

\* The next layer that the engine compiled, or the end of load_modules.
NextLayer(s, k) ==
  \/ /\ ToCompile(s, k) = {}
     /\ Leave(s, "ok", mods[s])
  \/ \E j \in ToCompile(s, k) :
       /\ \A m \in ToCompile(s, k) : j <= m
       /\ Goto(s, "lease")
       /\ pos' = [pos EXCEPT ![s] = j]
       /\ info' = [info EXCEPT ![s] = NoLabels]
       /\ UNCHANGED <<img, needs, dig, mods>>

\* engine.precompile: the compiled layers; or an error, with which the layers
\* as read are returned; or the wrong number of layers.
Precompile(s) ==
  /\ pc[s] = "precompile"
  /\ \/ NextLayer(s, 0)
     \/ /\ "engine" \in Faults
        /\ Leave(s, "ok", mods[s]) \/ Leave(s, "err", <<>>)
  /\ UNCHANGED <<store, guards>>

\* A lease that several loads may have at once.
CreateLease_shared(s) ==
  /\ pc[s] = "lease"
  /\ lease' = [lease EXCEPT ![EngineOf[s]] = s]
  /\ Goto(s, "write")
  /\ UNCHANGED <<store, leased, pending, locals>>

\* lease(): fails if there is a lease of that id, whoever created it.
CreateLease(s) ==
  /\ pc[s] = "lease"
  /\ \/ /\ lease[EngineOf[s]] # NoLoad
        /\ Error(s)
     \/ /\ lease[EngineOf[s]] = NoLoad
        /\ lease' = [lease EXCEPT ![EngineOf[s]] = s]
        /\ Goto(s, "write")
        /\ UNCHANGED <<store, leased, pending, locals>>

\* The write of save_content, seen as one step (SaveContent has its parts).
\* Content that already exists is only added to the lease.
WriteContent(s) ==
  /\ pc[s] = "write"
  /\ content' = content \cup {Product(s)}
  /\ leased' = [leased EXCEPT ![EngineOf[s]] = @ \cup {Product(s)}]
  /\ Goto(s, "layerGet")
  /\ UNCHANGED <<labels, tagged, lease, pending, locals>>

GetInfo(s, d, next) ==
  \/ /\ d \notin content
     /\ Error(s)
  \/ /\ d \in content
     /\ info' = [info EXCEPT ![s] = labels[d]]
     /\ Goto(s, next)
     /\ UNCHANGED <<store, guards, img, pos, needs, dig, mods>>

LayerGet(s) == pc[s] = "layerGet" /\ GetInfo(s, Layer(s), "layerPut")
ImageGet(s) == pc[s] = "imageGet" /\ GetInfo(s, img[s], "imagePut")

\* The labels s got, with its key set to v and a gc.ref to what it compiled.
NewLabels(s, v) ==
  [key |-> [info[s].key EXCEPT ![PrecompileLabel(EngineOf[s])] = v],
   ref |-> [info[s].ref EXCEPT ![pos[s]] = Product(s)]]

\* update_info of the original layer without the gc.ref label.
LayerPut_no_ref(s) ==
  /\ pc[s] = "layerPut"
  /\ \/ /\ Layer(s) \notin content
        /\ Error(s)
     \/ /\ Layer(s) \in content
        /\ labels' = [labels EXCEPT ![Layer(s)] =
             [info[s] EXCEPT !.key[PrecompileLabel(EngineOf[s])] = Product(s)]]
        /\ Goto(s, "imageGet")
        /\ UNCHANGED <<content, tagged, guards, locals>>

\* update_info of the original layer: replaces all its labels.
LayerPut(s) ==
  /\ pc[s] = "layerPut"
  /\ \/ /\ Layer(s) \notin content
        /\ Error(s)
     \/ /\ Layer(s) \in content
        /\ labels' = [labels EXCEPT ![Layer(s)] = NewLabels(s, Product(s))]
        /\ Goto(s, "imageGet")
        /\ UNCHANGED <<content, tagged, guards, locals>>

\* update_info of the image, and the push of the compiled layer.
ImagePut(s) ==
  /\ pc[s] = "imagePut"
  /\ \/ /\ img[s] \notin content
        /\ Error(s)
     \/ /\ img[s] \in content
        /\ labels' = [labels EXCEPT ![img[s]] = NewLabels(s, Flag)]
        /\ mods' = [mods EXCEPT ![s][pos[s]] = Product(s)]
        /\ Goto(s, "release")
        /\ UNCHANGED <<content, tagged, guards, img, pos, needs, dig, info>>

\* The lease is left to expire.
Release_never(s) ==
  /\ pc[s] = "release"
  /\ NextLayer(s, pos[s])
  /\ UNCHANGED <<store, guards>>

\* lease.release(), whose result is ignored.
Release(s) ==
  /\ pc[s] = "release"
  /\ NextLayer(s, pos[s])
  /\ \/ DeleteLease(EngineOf[s])
     \/ /\ "rpc" \in Faults
        /\ lease' = [lease EXCEPT ![EngineOf[s]] = Orphan]
        /\ UNCHANGED leased
  /\ UNCHANGED <<store, pending>>

-----------------------------------------------------------------------------
(***************************************************************************)
(* containerd.                                                             *)
(***************************************************************************)
\* A lease reaches its gc.expire, 24 hours after it was created; a load is taken
\* to be faster than that.  A release that was spawned and has not run by then
\* never runs, or it runs later still and deletes, by its id, whatever lease the
\* engine then has.
Expire(e) ==
  /\ lease[e] # NoLoad
  /\ lease[e] \in Loads => pc[lease[e]] \notin Saving
  /\ DeleteLease(e)
  /\ \/ pending' = pending \ {lease[e]}
     \/ "late" \in Faults /\ UNCHANGED pending
  /\ UNCHANGED <<store, pc, locals>>

Refs(d) ==
  ({labels[d].ref[k] : k \in Positions} \ {NoDigest})
    \cup (IF d \in Images THEN {LayersOf[d][k] : k \in DOMAIN LayersOf[d]} ELSE {})

Children(D) == UNION {Refs(d) : d \in D \cap (Images \cup Layers)}

\* What an image or a lease reaches: manifests refer to layers, and both may
\* refer to compiled layers.
Live ==
  LET roots == tagged \cup UNION {leased[e] : e \in Engines}
      first == Children(roots)
  IN roots \cup first \cup Children(first)

GC ==
  /\ content' = content \cap Live
  /\ labels' = [d \in Images \cup Layers |->
                  IF d \in content' THEN labels[d] ELSE NoLabels]
  /\ UNCHANGED <<tagged, guards, pc, locals>>

RemoveImage(i) ==
  /\ "remove" \in Faults
  /\ i \in tagged
  /\ tagged' = tagged \ {i}
  /\ UNCHANGED <<content, labels, guards, pc, locals>>

Pull(i) ==
  /\ i \notin tagged
  /\ tagged' = tagged \cup {i}
  /\ content' = content \cup {i} \cup {LayersOf[i][k] : k \in DOMAIN LayersOf[i]}
  /\ UNCHANGED <<labels, guards, pc, locals>>

-----------------------------------------------------------------------------
Step(s) ==
  \/ ImageInfo(s) \/ LayerInfo(s) \/ ReadContent(s) \/ ReadOriginal(s)
  \/ Precompile(s) \/ CreateLease(s) \/ WriteContent(s)
  \/ LayerGet(s) \/ LayerPut(s) \/ ImageGet(s) \/ ImagePut(s) \/ Release(s)

Next ==
  \/ \E s \in Loads : \/ \E i \in Images : Begin(s, i)
                      \/ Step(s) \/ RequestFails(s) \/ DropRelease(s) \/ Crash(s)
  \/ \E e \in Engines : Expire(e)
  \/ \E i \in Images : RemoveImage(i) \/ Pull(i)
  \/ GC

SafeSpec == Init /\ [][Next]_vars

\* A load that has begun goes on.  No load has to begin, no spawned release has to
\* run, no lease has to expire, and nothing has to be collected.
Spec == SafeSpec /\ \A s \in Loads : WF_vars(Step(s))

-----------------------------------------------------------------------------
TypeOK ==
  /\ content \subseteq Images \cup Layers \cup Compiled
  /\ labels \in [Images \cup Layers -> Labels]
  /\ tagged \subseteq Images
  /\ lease \in [Engines -> Loads \cup {NoLoad, Orphan}]
  /\ leased \in [Engines -> SUBSET Compiled]
  /\ pending \subseteq Loads
  /\ pc \in [Loads -> Returned \cup Requests \cup {"precompile"}]
  /\ img \in [Loads -> Images \cup {NoImage}]
  /\ pos \in [Loads -> Positions \cup {0}]
  /\ needs \in [Loads -> BOOLEAN]
  /\ dig \in [Loads -> Layers \cup Compiled \cup {NoDigest, Flag}]
  /\ mods \in [Loads -> Seq(Layers \cup Compiled)]
  /\ info \in [Loads -> Labels]

\* client.rs:401: "a precompiled component/module will not work across different
\* runtimes or versions".  Each module that a load has read or returns is, at
\* its place, the image's own layer or what this load's engine made of it,
\* however other engines label, compile and collect meanwhile.
RightModule ==
  \A s \in Loads : \A k \in DOMAIN mods[s] :
    mods[s][k] \in {MyLayers(s)[k],
                    [engine |-> EngineOf[s], layer |-> MyLayers(s)[k]]}

\* lease.rs, client.rs:149 and 489: from the write to the release of the lease
\* the compiled content is in the store, so that the labels the load sets
\* refer to something, whenever the collector runs and whoever else saves,
\* fails or dies; provided that no release runs after its lease has expired.
SavedStays ==
  \A s \in Loads :
    pc[s] \in Saving \ {"write"} => Product(s) \in content

\* docs/oci-decision-flow.md:33: "Once a wasm module or component is pre-compiled
\* it will remain in the containerd content store until the original image is
\* removed".  A layer of an image that containerd has is never labelled with
\* compiled content that is gone.
KeptWithImage ==
  \A i \in tagged : \A k \in DOMAIN LayersOf[i] : \A e \in Engines :
    LET d == labels[LayersOf[i][k]].key[e]
    IN d # NoDigest => d \in content

\* client.rs:551-561: as long as requests succeed, a load fails only if its image
\* is gone, or if it has something to save and finds the lease of its engine
\* taken: compiled content that another engine's labels made collectable is
\* replaced by the original, also when it goes between the label and the read.
LoadSucceeds ==
  [][\A s \in Loads : pc'[s] = "err" /\ pc[s] # "err" =>
       \/ img'[s] \notin tagged
       \/ pc[s] = "lease" /\ lease[EngineOf[s]] # NoLoad]_vars

\* The lease of an engine, which keeps all other loads of that engine from saving,
\* does not stay with its load: whichever request fails, wherever the shim dies, the
\* load deletes it, orphans it by dying or by a release that fails, or leaves it to
\* the release that its dropped guard has spawned (lease.rs:73-84).
LeaseFreed ==
  \A s \in Loads :
    lease[EngineOf[s]] = s ~> lease[EngineOf[s]] # s \/ s \in pending

=============================================================================
