------------------------ MODULE PrecompileCache_proofs ------------------------
(***************************************************************************)
(* Proofs about PrecompileCache, for any number of loads, engines, images  *)
(* and layers: what was saved stays while it is needed, and what a load    *)
(* hands on is the right code.                                             *)
(***************************************************************************)
EXTENDS PrecompileCache, TLAPS

USE Zenon

Reading == {"info", "read", "fallback"}
Filled == {"precompile", "lease"} \cup Saving

\* How far a load is with its layers: it reads them in order, and saves once it
\* has read them all.
Progress(s) ==
  /\ pc[s] \in {"image"} \cup Reading \cup Filled => img[s] \in Images
  /\ pc[s] = "image" => mods[s] = <<>>
  /\ pc[s] \in Reading => pos[s] \in DOMAIN MyLayers(s) /\ Len(mods[s]) = pos[s] - 1
  /\ pc[s] \in Filled => Len(mods[s]) = Len(MyLayers(s))
  /\ pc[s] \in Filled \ {"precompile"} => pos[s] \in DOMAIN MyLayers(s)

Shape == TypeOK /\ \A s \in Loads : Progress(s)

\* A layer that a load is at is a layer, and its product compiled content.
LEMMA AtLayer ==
  ASSUME NEW s \in Loads, img[s] \in Images, NEW k \in DOMAIN MyLayers(s)
  PROVE  /\ MyLayers(s) \in Seq(Layers)
         /\ k \in 1..Len(MyLayers(s)) /\ k \in Nat /\ Len(MyLayers(s)) \in Nat
         /\ k \in Positions
         /\ MyLayers(s)[k] \in Layers
         /\ [engine |-> EngineOf[s], layer |-> MyLayers(s)[k]] \in Compiled
  BY CacheAssumption, SMT DEF MyLayers, Positions, Compiled

LEMMA EmptyLabels == NoLabels \in Labels
  BY DEF NoLabels, Labels

LEMMA LabelsNew ==
  ASSUME NEW s \in Loads, info \in [Loads -> Labels], img[s] \in Images,
         pos[s] \in DOMAIN MyLayers(s), NEW v \in Compiled \cup {Flag, NoDigest}
  PROVE  /\ NewLabels(s, v) \in Labels
         /\ NewLabels(s, v).key = [info[s].key EXCEPT ![EngineOf[s]] = v]
<1>1. pos[s] \in Positions /\ Product(s) \in Compiled /\ EngineOf[s] \in Engines
  BY AtLayer, CacheAssumption DEF Product, Layer
<1> QED
  BY <1>1 DEF NewLabels, Labels, PrecompileLabel

\* Replacing an element keeps a sequence, its length and its other elements.
LEMMA ExceptSeq ==
  ASSUME NEW D, NEW q \in Seq(D), NEW k \in 1..Len(q), NEW d \in D
  PROVE  /\ [q EXCEPT ![k] = d] \in Seq(D)
         /\ Len([q EXCEPT ![k] = d]) = Len(q)
         /\ \A j \in 1..Len(q) : [q EXCEPT ![k] = d][j] = IF j = k THEN d ELSE q[j]
  BY SMT

-----------------------------------------------------------------------------
\* Leaving load_modules, for whatever reason, keeps the types.
LEMMA LeaveShape ==
  ASSUME Shape, NEW s \in Loads, NEW l \in Returned, NEW m \in Seq(Layers \cup Compiled),
         Leave(s, l, m)
  PROVE  /\ pc' \in [Loads -> Returned \cup Requests \cup {"precompile"}]
         /\ img' \in [Loads -> Images \cup {NoImage}]
         /\ pos' \in [Loads -> Positions \cup {0}]
         /\ needs' \in [Loads -> BOOLEAN]
         /\ dig' \in [Loads -> Layers \cup Compiled \cup {NoDigest, Flag}]
         /\ mods' \in [Loads -> Seq(Layers \cup Compiled)]
         /\ info' \in [Loads -> Labels]
         /\ \A u \in Loads : Progress(u)'
<1> USE EmptyLabels DEF Leave, Goto
<1>1. \A u \in Loads : u # s => Progress(u)'
  BY DEF Shape, TypeOK, Progress, MyLayers
<1>2. Progress(s)'
  BY DEF Shape, TypeOK, Progress, Returned, Reading, Filled, Saving
<1>3. pc' \in [Loads -> Returned \cup Requests \cup {"precompile"}]
  BY DEF Shape, TypeOK
<1> QED
  BY <1>1, <1>2, <1>3 DEF Shape, TypeOK

LEMMA ErrorShape ==
  ASSUME Shape, NEW s \in Loads, Error(s)
  PROVE  Shape'
<1>1. Leave(s, "err", <<>>) /\ "err" \in Returned /\ <<>> \in Seq(Layers \cup Compiled)
  BY SMT DEF Error, Returned
<1>2. /\ UNCHANGED <<content, labels, tagged, lease, leased>>
      /\ pending' \in SUBSET Loads
  BY DEF Error, Shape, TypeOK, store
<1> QED
  BY <1>1, <1>2, LeaveShape DEF Shape, TypeOK

\* The part of Shape that concerns the loads.
LocalShape ==
  /\ pc \in [Loads -> Returned \cup Requests \cup {"precompile"}]
  /\ img \in [Loads -> Images \cup {NoImage}]
  /\ pos \in [Loads -> Positions \cup {0}]
  /\ needs \in [Loads -> BOOLEAN]
  /\ dig \in [Loads -> Layers \cup Compiled \cup {NoDigest, Flag}]
  /\ mods \in [Loads -> Seq(Layers \cup Compiled)]
  /\ info \in [Loads -> Labels]
  /\ \A u \in Loads : Progress(u)

LEMMA ToLayerShape ==
  ASSUME Shape, NEW s \in Loads, img[s] \in Images, img' = img,
         NEW k \in DOMAIN MyLayers(s), ToLayer(s, k),
         NEW m \in Seq(Layers \cup Compiled), Len(m) = k - 1,
         mods' = [mods EXCEPT ![s] = m]
  PROVE  /\ pc' \in [Loads -> Returned \cup Requests \cup {"precompile"}]
         /\ pos' \in [Loads -> Positions \cup {0}]
         /\ dig' \in [Loads -> Layers \cup Compiled \cup {NoDigest, Flag}]
         /\ mods' \in [Loads -> Seq(Layers \cup Compiled)]
         /\ \A u \in Loads : Progress(u)'
<1> USE DEF ToLayer, Goto
<1>0. k \in Positions /\ MyLayers(s)[k] \in Layers
  BY AtLayer
<1>1. \A u \in Loads : u # s => Progress(u)'
  BY DEF Shape, TypeOK, Progress, MyLayers
<1>2. pc' \in [Loads -> Returned \cup Requests \cup {"precompile"}] /\ pc'[s] \in {"info", "read"}
  BY DEF Shape, TypeOK, Requests
<1>3. MyLayers(s)' = MyLayers(s)
  BY DEF MyLayers
<1>4. Progress(s)'
  BY <1>0, <1>2, <1>3 DEF Shape, TypeOK, Progress, Reading, Filled, Saving
<1> QED
  BY <1>0, <1>1, <1>2, <1>4 DEF Shape, TypeOK

LEMMA PushShape ==
  ASSUME Shape, NEW s \in Loads, pc[s] \in {"read", "fallback"},
         NEW d \in Layers \cup Compiled, Push(s, d)
  PROVE  Shape'
<1> DEFINE m == Append(mods[s], d)
<1>0. /\ img[s] \in Images /\ pos[s] \in DOMAIN MyLayers(s) /\ Len(mods[s]) = pos[s] - 1
      /\ mods[s] \in Seq(Layers \cup Compiled)
  BY DEF Shape, TypeOK, Progress, Reading
<1>1. m \in Seq(Layers \cup Compiled) /\ Len(m) = pos[s]
  <2>1. pos[s] \in 1..Len(MyLayers(s)) /\ Len(MyLayers(s)) \in Nat
    BY <1>0, AtLayer
  <2> DEFINE D == Layers \cup Compiled
  <2>2. mods[s] \in Seq(D) /\ d \in D
    BY <1>0
  <2> HIDE DEF D
  <2>3. Append(mods[s], d) \in Seq(D) /\ Len(Append(mods[s], d)) = Len(mods[s]) + 1
    BY <2>2, SMT
  <2> QED
    BY <1>0, <2>1, <2>3, SMT DEF D
<1>2. UNCHANGED <<content, labels, tagged, lease, leased, pending>>
  BY DEF Push, store, guards
<1>3. CASE pos[s] < Len(MyLayers(s))
  <2>1. pos[s] + 1 \in DOMAIN MyLayers(s)
    BY <1>0, <1>3, AtLayer, SMT
  <2>2. /\ ToLayer(s, pos[s] + 1) /\ mods' = [mods EXCEPT ![s] = m]
        /\ UNCHANGED <<img, needs, info>>
    BY <1>3 DEF Push
  <2>3. Len(m) = (pos[s] + 1) - 1
    BY <1>0, <1>1, AtLayer, SMT
  <2>4. LocalShape'
    BY <1>0, <1>1, <2>1, <2>2, <2>3, ToLayerShape DEF LocalShape, Shape, TypeOK
  <2> QED
    BY <1>2, <2>4 DEF LocalShape, Shape, TypeOK
<1>4. CASE ~(pos[s] < Len(MyLayers(s))) /\ needs[s]
  <2>1. /\ mods' = [mods EXCEPT ![s] = m] /\ Goto(s, "precompile")
        /\ dig' = [dig EXCEPT ![s] = NoDigest]
        /\ UNCHANGED <<img, pos, needs, info>>
    BY <1>4 DEF Push
  <2>2. Len(m) = Len(MyLayers(s))
    BY <1>0, <1>1, <1>4, AtLayer, SMT
  <2>3. \A u \in Loads : u # s => Progress(u)'
    BY <2>1 DEF Shape, TypeOK, Progress, MyLayers, Goto
  <2>4. Progress(s)'
    BY <1>0, <2>1, <2>2, <1>1 DEF Shape, TypeOK, Progress, MyLayers, Goto, Reading, Filled, Saving
  <2> QED
    BY <1>1, <1>2, <2>1, <2>3, <2>4 DEF Shape, TypeOK, Goto
<1>5. CASE ~(pos[s] < Len(MyLayers(s))) /\ ~needs[s]
  <2>1. Leave(s, "ok", m) /\ "ok" \in Returned
    BY <1>5 DEF Push, Returned
  <2> QED
    BY <1>1, <1>2, <2>1, LeaveShape DEF Shape, TypeOK
<1> QED
  BY <1>3, <1>4, <1>5

LEMMA NextLayerShape ==
  ASSUME Shape, NEW s \in Loads, pc[s] \in {"precompile", "release"},
         NEW k \in Nat, NextLayer(s, k)
  PROVE  LocalShape'
<1>0. /\ img[s] \in Images /\ Len(mods[s]) = Len(MyLayers(s))
      /\ mods[s] \in Seq(Layers \cup Compiled)
  BY DEF Shape, TypeOK, Progress, Filled, Saving
<1>1. CASE ToCompile(s, k) = {}
  <2>1. Leave(s, "ok", mods[s]) /\ "ok" \in Returned
    BY <1>1 DEF NextLayer, Returned
  <2> QED
    BY <1>0, <2>1, LeaveShape DEF LocalShape
<1>2. ASSUME NEW j \in ToCompile(s, k),
             Goto(s, "lease"), pos' = [pos EXCEPT ![s] = j],
             info' = [info EXCEPT ![s] = NoLabels], UNCHANGED <<img, needs, dig, mods>>
      PROVE  LocalShape'
  <2>3. j \in DOMAIN MyLayers(s)
    <3>1. DOMAIN mods[s] = 1..Len(mods[s])
      BY <1>0, SMT
    <3>2. DOMAIN MyLayers(s) = 1..Len(MyLayers(s))
      BY <1>0, CacheAssumption, SMT DEF MyLayers
    <3> QED
      BY <1>0, <3>1, <3>2 DEF ToCompile
  <2>5. \A u \in Loads : u # s => Progress(u)'
    BY <1>2 DEF Shape, TypeOK, Progress, MyLayers, Goto
  <2>6. Progress(s)'
    BY <1>0, <2>3, <1>2 DEF Shape, TypeOK, Progress, MyLayers, Goto, Reading, Filled, Saving
  <2>7. j \in Positions
    BY <1>0, <2>3, AtLayer
  <2> QED
    BY <1>2, <2>5, <2>6, <2>7, EmptyLabels DEF Shape, TypeOK, LocalShape, Goto, Requests
<1> QED
  BY <1>1, <1>2 DEF NextLayer

-----------------------------------------------------------------------------
LEMMA StepShape ==
  ASSUME Shape, NEW s \in Loads, Step(s)
  PROVE  Shape'
<1> USE DEF store, guards
<1>1. ASSUME Error(s) PROVE Shape'
  BY <1>1, ErrorShape
<1>2. CASE ImageInfo(s)
  <2> SUFFICES ASSUME ~Error(s) PROVE Shape'
    BY <1>1
  <2>1. img[s] \in Images /\ mods[s] = <<>> /\ mods[s] \in Seq(Layers \cup Compiled)
    BY <1>2 DEF ImageInfo, Shape, Progress, TypeOK
  <2>2. /\ UNCHANGED <<content, labels, tagged, lease, leased, pending, img, mods, info>>
        /\ needs' \in [Loads -> BOOLEAN]
    BY <1>2 DEF ImageInfo, Shape, TypeOK
  <2>3. CASE MyLayers(s) = <<>>
    <3>1. Goto(s, "ok") /\ UNCHANGED <<pos, dig>>
      BY <1>2, <2>3 DEF ImageInfo
    <3>2. \A u \in Loads : u # s => Progress(u)'
      BY <2>2, <3>1 DEF Shape, TypeOK, Progress, MyLayers, Goto
    <3>3. Progress(s)'
      BY <2>2, <3>1 DEF Shape, TypeOK, Progress, Goto, Reading, Filled, Saving
    <3> QED
      BY <2>2, <3>1, <3>2, <3>3 DEF Shape, TypeOK, Goto, Returned
  <2>4. CASE MyLayers(s) # <<>>
    <3>1. ToLayer(s, 1)
      BY <1>2, <2>4 DEF ImageInfo
    <3>2. 1 \in DOMAIN MyLayers(s)
      <4>1. MyLayers(s) \in Seq(Layers)
        BY <2>1, CacheAssumption DEF MyLayers
      <4> QED
        BY <2>4, <4>1, SMT
    <3>3. Len(mods[s]) = 1 - 1 /\ mods' = [mods EXCEPT ![s] = mods[s]]
      BY <2>1, <2>2, SMT DEF Shape, TypeOK
    <3>4. LocalShape'
      BY <2>1, <2>2, <3>1, <3>2, <3>3, ToLayerShape DEF LocalShape, Shape, TypeOK
    <3> QED
      BY <2>2, <3>4 DEF LocalShape, Shape, TypeOK
  <2> QED
    BY <2>3, <2>4
<1>3. CASE LayerInfo(s)
  <2> SUFFICES ASSUME ~Error(s) PROVE Shape'
    BY <1>1
  <2>1. img[s] \in Images /\ Layer(s) \in Layers
    BY <1>3, AtLayer DEF LayerInfo, Shape, Progress, Reading, Layer
  <2>2. labels[Layer(s)].key[PrecompileLabel(EngineOf[s])] \in Compiled \cup {Flag, NoDigest}
    BY <2>1, CacheAssumption, SMT DEF Shape, TypeOK, Labels, PrecompileLabel
  <2> DEFINE l == labels[Layer(s)].key[PrecompileLabel(EngineOf[s])]
             d == IF l # NoDigest THEN l ELSE Layer(s)
  <2>a. d \in Layers \cup Compiled \cup {NoDigest, Flag}
    BY <2>1, <2>2
  <2>b. /\ UNCHANGED <<content, labels, tagged, lease, leased, pending>>
        /\ UNCHANGED <<img, pos, needs, mods, info>> /\ Goto(s, "read")
        /\ dig' = [dig EXCEPT ![s] = d]
    BY <1>3 DEF LayerInfo
  <2> HIDE DEF d, l
  <2>3. /\ UNCHANGED <<content, labels, tagged, lease, leased, pending>>
        /\ UNCHANGED <<img, pos, needs, mods, info>> /\ Goto(s, "read")
        /\ dig' \in [Loads -> Layers \cup Compiled \cup {NoDigest, Flag}]
    BY <2>a, <2>b DEF Shape, TypeOK
  <2>4. \A u \in Loads : Progress(u)'
    BY <1>3, <2>3 DEF LayerInfo, Shape, TypeOK, Progress, MyLayers, Goto, Reading, Filled, Saving
  <2> QED
    BY <2>3, <2>4 DEF Shape, TypeOK, Goto, Requests
<1>4. CASE ReadContent(s)
  <2> SUFFICES ASSUME ~Error(s) PROVE Shape'
    BY <1>1
  <2>1. CASE dig[s] \in content /\ Push(s, dig[s])
    <3>1. dig[s] \in Layers \cup Compiled
      BY <2>1, DigestAssumption DEF Shape, TypeOK
    <3> QED
      BY <1>4, <2>1, <3>1, PushShape DEF ReadContent
  <2>2. CASE /\ needs' = [needs EXCEPT ![s] = CanPrecompile(s)] /\ Goto(s, "fallback")
             /\ UNCHANGED <<store, guards, img, pos, dig, mods, info>>
    <3>1. \A u \in Loads : Progress(u)'
      BY <1>4, <2>2 DEF ReadContent, Shape, TypeOK, Progress, MyLayers, Goto, Reading, Filled, Saving
    <3>2. CanPrecompile(s) \in BOOLEAN
      BY SMT DEF CanPrecompile
    <3> QED
      BY <2>2, <3>1, <3>2 DEF Shape, TypeOK, Goto, Requests
  <2> QED
    BY <1>4, <2>1, <2>2 DEF ReadContent
<1>5. CASE ReadOriginal(s)
  <2>1. Layer(s) \in Layers
    BY <1>5, AtLayer DEF ReadOriginal, Shape, Progress, Reading, Layer
  <2> QED
    BY <1>1, <1>5, <2>1, PushShape DEF ReadOriginal
<1>6. CASE Precompile(s)
  <2>1. UNCHANGED <<content, labels, tagged, lease, leased, pending>>
    BY <1>6 DEF Precompile
  <2>2. CASE NextLayer(s, 0)
    BY <1>6, <2>1, <2>2, NextLayerShape DEF Precompile, LocalShape, Shape, TypeOK
  <2>3. CASE Leave(s, "ok", mods[s]) \/ Leave(s, "err", <<>>)
    <3>1. mods[s] \in Seq(Layers \cup Compiled) /\ <<>> \in Seq(Layers \cup Compiled)
      BY SMT DEF Shape, TypeOK
    <3> QED
      BY <2>1, <2>3, <3>1, LeaveShape DEF Returned, Shape, TypeOK
  <2> QED
    BY <1>6, <2>2, <2>3 DEF Precompile
<1>7. CASE CreateLease(s)
  <2> SUFFICES ASSUME ~Error(s) PROVE Shape'
    BY <1>1
  <2>0. /\ UNCHANGED <<content, labels, tagged, leased, pending, img, pos, needs, dig, mods, info>>
        /\ Goto(s, "write") /\ lease' = [lease EXCEPT ![EngineOf[s]] = s]
    BY <1>7 DEF CreateLease, locals
  <2>1. /\ UNCHANGED <<content, labels, tagged, leased, pending, img, pos, needs, dig, mods, info>>
        /\ Goto(s, "write") /\ lease' \in [Engines -> Loads \cup {NoLoad, Orphan}]
    BY <2>0 DEF Shape, TypeOK
  <2>2. \A u \in Loads : Progress(u)'
    BY <1>7, <2>1 DEF CreateLease, Shape, TypeOK, Progress, MyLayers, Goto, Reading, Filled, Saving
  <2> QED
    BY <2>1, <2>2 DEF Shape, TypeOK, Goto, Requests, Saving
<1>8. CASE WriteContent(s)
  <2>1. Product(s) \in Compiled
    BY <1>8, AtLayer DEF WriteContent, Shape, Progress, Filled, Saving, Product, Layer
  <2>2. /\ UNCHANGED <<labels, tagged, lease, pending, img, pos, needs, dig, mods, info>>
        /\ Goto(s, "layerGet") /\ leased' \in [Engines -> SUBSET Compiled]
        /\ content' \subseteq Images \cup Layers \cup Compiled
    BY <1>8, <2>1 DEF WriteContent, Shape, TypeOK, locals
  <2>3. \A u \in Loads : Progress(u)'
    BY <1>8, <2>2 DEF WriteContent, Shape, TypeOK, Progress, MyLayers, Goto, Reading, Filled, Saving
  <2> QED
    BY <2>2, <2>3 DEF Shape, TypeOK, Goto, Requests, Saving
<1>9. ASSUME NEW d \in Images \cup Layers, NEW l \in {"layerPut", "imagePut"}, GetInfo(s, d, l),
             pc[s] \in Saving
      PROVE  Shape'
  <2> SUFFICES ASSUME ~Error(s) PROVE Shape'
    BY <1>1
  <2>1. /\ UNCHANGED <<content, labels, tagged, lease, leased, pending, img, pos, needs, dig, mods>>
        /\ Goto(s, l) /\ info' \in [Loads -> Labels]
    BY <1>9 DEF GetInfo, Shape, TypeOK
  <2>2. \A u \in Loads : Progress(u)'
    BY <1>9, <2>1 DEF Shape, TypeOK, Progress, MyLayers, Goto, Reading, Filled, Saving
  <2> QED
    BY <2>1, <2>2 DEF Shape, TypeOK, Goto, Requests, Saving
<1>10. CASE LayerGet(s)
  <2>1. Layer(s) \in Layers /\ pc[s] \in Saving
    BY <1>10, AtLayer DEF LayerGet, Shape, Progress, Filled, Saving, Layer
  <2> QED
    BY <1>9, <1>10, <2>1 DEF LayerGet
<1>11. CASE ImageGet(s)
  <2>1. img[s] \in Images /\ pc[s] \in Saving
    BY <1>11 DEF ImageGet, Shape, Progress, Filled, Saving
  <2> QED
    BY <1>9, <1>11, <2>1 DEF ImageGet
<1>12. ASSUME pc[s] \in {"layerPut", "imagePut"}
       PROVE  /\ img[s] \in Images /\ pos[s] \in DOMAIN MyLayers(s) /\ Layer(s) \in Layers
              /\ Product(s) \in Compiled /\ pos[s] \in 1..Len(mods[s])
              /\ NewLabels(s, Flag) \in Labels /\ NewLabels(s, Product(s)) \in Labels
  <2>1. /\ img[s] \in Images /\ pos[s] \in DOMAIN MyLayers(s) /\ Len(mods[s]) = Len(MyLayers(s))
        /\ info \in [Loads -> Labels]
    BY <1>12 DEF Shape, TypeOK, Progress, Filled, Saving
  <2>2. Layer(s) \in Layers /\ Product(s) \in Compiled /\ pos[s] \in 1..Len(mods[s])
    BY <2>1, AtLayer DEF Layer, Product
  <2> QED
    BY <2>1, <2>2, LabelsNew
<1>13. CASE LayerPut(s)
  <2> SUFFICES ASSUME ~Error(s) PROVE Shape'
    BY <1>1
  <2>1. /\ UNCHANGED <<content, tagged, lease, leased, pending, img, pos, needs, dig, mods, info>>
        /\ Goto(s, "imageGet") /\ labels' = [labels EXCEPT ![Layer(s)] = NewLabels(s, Product(s))]
    BY <1>13 DEF LayerPut, locals
  <2>2. labels' \in [Images \cup Layers -> Labels]
    BY <1>12, <1>13, <2>1 DEF LayerPut, Shape, TypeOK
  <2>3. \A u \in Loads : Progress(u)'
    BY <1>13, <2>1 DEF LayerPut, Shape, TypeOK, Progress, MyLayers, Goto, Reading, Filled, Saving
  <2> QED
    BY <2>1, <2>2, <2>3 DEF Shape, TypeOK, Goto, Requests, Saving
<1>14. CASE ImagePut(s)
  <2> SUFFICES ASSUME ~Error(s) PROVE Shape'
    BY <1>1
  <2>1. /\ UNCHANGED <<content, tagged, lease, leased, pending, img, pos, needs, dig, info>>
        /\ Goto(s, "release") /\ labels' = [labels EXCEPT ![img[s]] = NewLabels(s, Flag)]
        /\ mods' = [mods EXCEPT ![s] = [mods[s] EXCEPT ![pos[s]] = Product(s)]]
    BY <1>14 DEF ImagePut
  <2>2. labels' \in [Images \cup Layers -> Labels]
    BY <1>12, <1>14, <2>1 DEF ImagePut, Shape, TypeOK
  <2>3. /\ [mods[s] EXCEPT ![pos[s]] = Product(s)] \in Seq(Layers \cup Compiled)
        /\ Len([mods[s] EXCEPT ![pos[s]] = Product(s)]) = Len(mods[s])
    <3> DEFINE D == Layers \cup Compiled
    <3>1. mods[s] \in Seq(D) /\ Product(s) \in D /\ pos[s] \in 1..Len(mods[s])
      BY <1>12, <1>14 DEF ImagePut, Shape, TypeOK
    <3> HIDE DEF D
    <3>2. /\ [mods[s] EXCEPT ![pos[s]] = Product(s)] \in Seq(D)
          /\ Len([mods[s] EXCEPT ![pos[s]] = Product(s)]) = Len(mods[s])
      BY <3>1, ExceptSeq, SMT
    <3> QED
      BY <3>2 DEF D
  <2>4. mods' \in [Loads -> Seq(Layers \cup Compiled)]
    BY <2>1, <2>3 DEF Shape, TypeOK
  <2>5. \A u \in Loads : u # s => Progress(u)'
    BY <1>14, <2>1 DEF ImagePut, Shape, TypeOK, Progress, MyLayers, Goto
  <2>6. Progress(s)'
    BY <1>14, <2>1, <2>3 DEF ImagePut, Shape, TypeOK, Progress, MyLayers, Goto, Reading, Filled, Saving
  <2> QED
    BY <2>1, <2>2, <2>4, <2>5, <2>6 DEF Shape, TypeOK, Goto, Requests, Saving
<1>15. CASE Release(s)
  <2>1. /\ UNCHANGED <<content, labels, tagged, pending>>
        /\ lease' \in [Engines -> Loads \cup {NoLoad, Orphan}] /\ leased' \in [Engines -> SUBSET Compiled]
    BY <1>15 DEF Release, DeleteLease, Shape, TypeOK
  <2>2. pos[s] \in Nat
    BY <1>15, AtLayer DEF Release, Shape, Progress, Filled, Saving
  <2>3. LocalShape'
    BY <1>15, <2>2, NextLayerShape DEF Release
  <2> QED
    BY <2>1, <2>3 DEF LocalShape, Shape, TypeOK
<1> QED
  BY <1>2, <1>3, <1>4, <1>5, <1>6, <1>7, <1>8, <1>10, <1>11, <1>13, <1>14, <1>15 DEF Step

LEMMA NextShape == Shape /\ [Next]_vars => Shape'
<1> USE DEF store, guards, locals
<1> SUFFICES ASSUME Shape, [Next]_vars PROVE Shape'
  OBVIOUS
<1>1. ASSUME NEW s \in Loads, NEW i \in Images, Begin(s, i) PROVE Shape'
  <2>1. /\ UNCHANGED <<content, labels, tagged, lease, leased, pending, pos, needs, dig, info>>
        /\ img' = [img EXCEPT ![s] = i] /\ mods' = [mods EXCEPT ![s] = <<>>]
    BY <1>1 DEF Begin, Shape, TypeOK
  <2>2. PICK l \in {"err", "ok", "image"} : pc' = [pc EXCEPT ![s] = l]
    BY <1>1 DEF Begin, Goto
  <2>3. \A u \in Loads : u # s => Progress(u)'
    BY <2>1, <2>2 DEF Shape, TypeOK, Progress, MyLayers
  <2>4. Progress(s)'
    BY <2>1, <2>2 DEF Shape, TypeOK, Progress, Reading, Filled, Saving
  <2>5. mods' \in [Loads -> Seq(Layers \cup Compiled)]
    BY <2>1, SMT DEF Shape, TypeOK
  <2>6. pc' \in [Loads -> Returned \cup Requests \cup {"precompile"}]
    BY <2>2 DEF Shape, TypeOK, Returned, Requests
  <2> QED
    BY <2>1, <2>3, <2>4, <2>5, <2>6 DEF Shape, TypeOK
<1>2. ASSUME NEW s \in Loads, RequestFails(s) PROVE Shape'
  BY <1>2, ErrorShape DEF RequestFails
<1>3. ASSUME NEW s \in Loads, DropRelease(s) PROVE Shape'
  <2>1. /\ UNCHANGED <<content, labels, tagged, pc, img, pos, needs, dig, mods, info>>
        /\ lease' \in [Engines -> Loads \cup {NoLoad, Orphan}]
        /\ leased' \in [Engines -> SUBSET Compiled] /\ pending' \subseteq Loads
    BY <1>3 DEF DropRelease, DeleteLease, Shape, TypeOK
  <2> QED
    BY <2>1 DEF Shape, TypeOK, Progress, MyLayers
<1>4. ASSUME NEW s \in Loads, Crash(s) PROVE Shape'
  <2>1. Leave(s, "idle", <<>>) /\ "idle" \in Returned /\ <<>> \in Seq(Layers \cup Compiled)
    BY <1>4, SMT DEF Crash, Returned
  <2>2. /\ UNCHANGED <<content, labels, tagged, leased>>
        /\ lease' \in [Engines -> Loads \cup {NoLoad, Orphan}] /\ pending' \subseteq Loads
    BY <1>4 DEF Crash, Shape, TypeOK
  <2> QED
    BY <2>1, <2>2, LeaveShape DEF Shape, TypeOK
<1>5. ASSUME NEW e \in Engines, Expire(e) PROVE Shape'
  <2>1. /\ UNCHANGED <<content, labels, tagged, pc, img, pos, needs, dig, mods, info>>
        /\ lease' \in [Engines -> Loads \cup {NoLoad, Orphan}]
        /\ leased' \in [Engines -> SUBSET Compiled] /\ pending' \subseteq Loads
    BY <1>5 DEF Expire, DeleteLease, Shape, TypeOK
  <2> QED
    BY <2>1 DEF Shape, TypeOK, Progress, MyLayers
<1>6. ASSUME NEW i \in Images, RemoveImage(i) \/ Pull(i) PROVE Shape'
  <2>1. \A k \in DOMAIN LayersOf[i] : LayersOf[i][k] \in Layers
    BY CacheAssumption, SMT
  <2>2. /\ UNCHANGED <<labels, lease, leased, pending, pc, img, pos, needs, dig, mods, info>>
        /\ tagged' \subseteq Images /\ content' \subseteq Images \cup Layers \cup Compiled
    <3>1. tagged \subseteq Images /\ content \subseteq Images \cup Layers \cup Compiled
      BY DEF Shape, TypeOK
    <3>2. CASE RemoveImage(i)
      BY <3>1, <3>2 DEF RemoveImage
    <3>3. CASE Pull(i)
      BY <2>1, <3>1, <3>3 DEF Pull
    <3> QED
      BY <1>6, <3>2, <3>3
  <2> QED
    BY <2>2 DEF Shape, TypeOK, Progress, MyLayers
<1>7. CASE GC
  <2>1. /\ UNCHANGED <<tagged, lease, leased, pending, pc, img, pos, needs, dig, mods, info>>
        /\ content' \subseteq content /\ labels' \in [Images \cup Layers -> Labels]
    BY <1>7, EmptyLabels DEF GC, Shape, TypeOK
  <2> QED
    BY <2>1 DEF Shape, TypeOK, Progress, MyLayers
<1>8. CASE UNCHANGED vars
  BY <1>8 DEF vars, Shape, TypeOK, Progress, MyLayers
<1> QED
  BY <1>1, <1>2, <1>3, <1>4, <1>5, <1>6, <1>7, <1>8, StepShape DEF Next

LEMMA InitShape == Init => Shape
<1> SUFFICES ASSUME Init PROVE Shape
  OBVIOUS
<1>1. \A i \in Images : \A k \in DOMAIN LayersOf[i] : LayersOf[i][k] \in Layers
  BY CacheAssumption, SMT
<1>2. content \subseteq Images \cup Layers
  BY <1>1, SMT DEF Init
<1>3. \A s \in Loads : Progress(s)
  BY DEF Init, Progress, Reading, Filled, Saving
<1>4. /\ content \subseteq Images \cup Layers \cup Compiled /\ tagged \subseteq Images
      /\ labels \in [Images \cup Layers -> Labels]
      /\ lease \in [Engines -> Loads \cup {NoLoad, Orphan}]
      /\ leased \in [Engines -> SUBSET Compiled] /\ pending \subseteq Loads
  BY <1>2, EmptyLabels DEF Init
<1>5. /\ pc \in [Loads -> Returned \cup Requests \cup {"precompile"}]
      /\ img \in [Loads -> Images \cup {NoImage}]
      /\ pos \in [Loads -> Positions \cup {0}] /\ needs \in [Loads -> BOOLEAN]
  BY DEF Init, Returned
<1>6. /\ dig \in [Loads -> Layers \cup Compiled \cup {NoDigest, Flag}]
      /\ mods \in [Loads -> Seq(Layers \cup Compiled)] /\ info \in [Loads -> Labels]
  <2>1. <<>> \in Seq(Layers \cup Compiled)
    BY SMT
  <2> QED
    BY <2>1, EmptyLabels DEF Init
<1> QED
  BY <1>3, <1>4, <1>5, <1>6 DEF Shape, TypeOK

\* The loads and the store keep their types, for all engines, images and faults.
THEOREM TypeCorrect == SafeSpec => []TypeOK
<1>1. SafeSpec => []Shape
  BY InitShape, NextShape, PTL DEF SafeSpec
<1> QED
  BY <1>1, PTL DEF Shape

-----------------------------------------------------------------------------
\* What is left of the types when only the updates matter.
AreFunctions ==
  /\ pc = [u \in Loads |-> pc[u]] /\ img = [u \in Loads |-> img[u]]
  /\ pos = [u \in Loads |-> pos[u]] /\ dig = [u \in Loads |-> dig[u]]
  /\ mods = [u \in Loads |-> mods[u]] /\ info = [u \in Loads |-> info[u]]
  /\ lease = [e \in Engines |-> lease[e]] /\ leased = [e \in Engines |-> leased[e]]
  /\ labels = [d \in Images \cup Layers |-> labels[d]]

LEMMA ShapeFunctions == Shape => AreFunctions
  BY DEF Shape, TypeOK, AreFunctions

\* The others' locals, in a step of s.
Others(s) ==
  \A u \in Loads \ {s} :
    /\ pc'[u] = pc[u] /\ img'[u] = img[u] /\ pos'[u] = pos[u]
    /\ dig'[u] = dig[u] /\ mods'[u] = mods[u] /\ info'[u] = info[u]

LEMMA LeaveOthers ==
  ASSUME AreFunctions, NEW s \in Loads, NEW l, NEW m, Leave(s, l, m)
  PROVE  /\ Others(s) /\ pc'[s] = l /\ mods'[s] = m /\ img' = img
         /\ MyLayers(s)' = MyLayers(s)
  BY DEF AreFunctions, Leave, Goto, Others, MyLayers

LEMMA ToLayerOthers ==
  ASSUME AreFunctions, NEW s \in Loads, NEW k, ToLayer(s, k), UNCHANGED <<img, info>>,
         NEW m, mods' = [mods EXCEPT ![s] = m]
  PROVE  /\ Others(s) /\ pc'[s] \in {"info", "read"} /\ mods'[s] = m
         /\ MyLayers(s)' = MyLayers(s) /\ pos'[s] = k /\ dig'[s] = MyLayers(s)[k]
  BY DEF AreFunctions, ToLayer, Goto, Others, MyLayers

LEMMA GotoOthers ==
  ASSUME AreFunctions, NEW s \in Loads, NEW l, Goto(s, l)
  PROVE  pc'[s] = l /\ \A u \in Loads \ {s} : pc'[u] = pc[u]
  BY DEF AreFunctions, Goto

LEMMA PushOthers ==
  ASSUME AreFunctions, NEW s \in Loads, NEW d, Push(s, d)
  PROVE  /\ Others(s) /\ pc'[s] \in {"info", "read", "precompile", "ok"}
         /\ mods'[s] = Append(mods[s], d) /\ MyLayers(s)' = MyLayers(s)
         /\ pc'[s] = "read" => dig'[s] = MyLayers(s)'[pos'[s]]
<1> DEFINE m == Append(mods[s], d)
           Goal == /\ Others(s) /\ pc'[s] \in {"info", "read", "precompile", "ok"}
                   /\ mods'[s] = m /\ MyLayers(s)' = MyLayers(s)
                   /\ pc'[s] = "read" => dig'[s] = MyLayers(s)'[pos'[s]]
<1>1. ASSUME pos[s] < Len(MyLayers(s)) PROVE Goal
  <2>1. /\ ToLayer(s, pos[s] + 1) /\ mods' = [mods EXCEPT ![s] = m]
        /\ UNCHANGED <<img, info>>
    BY <1>1 DEF Push
  <2> HIDE DEF m
  <2>2. /\ Others(s) /\ pc'[s] \in {"info", "read"} /\ mods'[s] = m
        /\ MyLayers(s)' = MyLayers(s)
        /\ pos'[s] = pos[s] + 1 /\ dig'[s] = MyLayers(s)[pos[s] + 1]
    BY <2>1, ToLayerOthers
  <2> QED
    BY <2>2
<1>2. CASE ~(pos[s] < Len(MyLayers(s))) /\ needs[s]
  <2>1. /\ mods' = [mods EXCEPT ![s] = m] /\ Goto(s, "precompile")
        /\ dig' = [dig EXCEPT ![s] = NoDigest]
        /\ UNCHANGED <<img, pos, info>>
    BY <1>2 DEF Push
  <2> HIDE DEF m
  <2>2. Others(s) /\ pc'[s] = "precompile" /\ mods'[s] = m /\ MyLayers(s)' = MyLayers(s)
    BY <2>1 DEF AreFunctions, Goto, Others, MyLayers
  <2> QED
    BY <2>2 DEF m
<1>3. CASE ~(pos[s] < Len(MyLayers(s))) /\ ~needs[s]
  <2>1. Leave(s, "ok", m)
    BY <1>3 DEF Push
  <2> HIDE DEF m
  <2>2. /\ Others(s) /\ pc'[s] = "ok" /\ mods'[s] = m /\ MyLayers(s)' = MyLayers(s)
    BY <2>1, LeaveOthers
  <2> QED
    BY <2>2 DEF m
<1> QED
  BY <1>1, <1>2, <1>3

LEMMA NextLayerOthers ==
  ASSUME AreFunctions, NEW s \in Loads, NEW k, NextLayer(s, k)
  PROVE  /\ Others(s) /\ pc'[s] \in {"ok", "lease"} /\ mods'[s] = mods[s]
         /\ MyLayers(s)' = MyLayers(s)
<1>1. CASE Leave(s, "ok", mods[s])
  BY <1>1, LeaveOthers
<1>2. ASSUME NEW j, Goto(s, "lease"), pos' = [pos EXCEPT ![s] = j],
             info' = [info EXCEPT ![s] = NoLabels], UNCHANGED <<img, needs, dig, mods>>
      PROVE  /\ Others(s) /\ pc'[s] = "lease" /\ mods'[s] = mods[s]
             /\ MyLayers(s)' = MyLayers(s)
  BY <1>2 DEF AreFunctions, Goto, Others, MyLayers
<1> QED
  BY <1>1, <1>2 DEF NextLayer

-----------------------------------------------------------------------------
(***************************************************************************)
(* Leases.  Whoever saves, or has a release still to run, is the creator   *)
(* of its engine's lease, unless the release is one that runs after the    *)
(* lease expired; so nobody deletes another's lease, and what a lease      *)
(* protects stays in the store.                                            *)
(***************************************************************************)
Holds(s) ==
  /\ pc[s] \in Saving => lease[EngineOf[s]] = s
  /\ s \in pending => lease[EngineOf[s]] = s /\ pc[s] \notin Saving
  /\ pc[s] \in Saving \ {"write"} => Product(s) \in leased[EngineOf[s]]

LeaseInv ==
  /\ \A s \in Loads : Holds(s)
  /\ \A e \in Engines : leased[e] \subseteq content

\* A load that stands still, and whose lease, if it has one, is left alone.
LEMMA HoldsFrame ==
  ASSUME NEW u \in Loads, Holds(u),
         pc'[u] = pc[u], img'[u] = img[u], pos'[u] = pos[u],
         u \in pending' => u \in pending,
         \/ /\ lease'[EngineOf[u]] = lease[EngineOf[u]]
            /\ leased[EngineOf[u]] \subseteq leased'[EngineOf[u]]
         \/ lease[EngineOf[u]] # u
  PROVE  Holds(u)'
<1>1. Product(u)' = Product(u)
  BY DEF Product, Layer, MyLayers
<1> QED
  BY <1>1 DEF Holds, Saving

LEMMA ErrorLease ==
  ASSUME Shape, LeaseInv, NEW s \in Loads, Error(s)
  PROVE  LeaseInv'
<1>1. /\ UNCHANGED <<content, labels, tagged, lease, leased>>
      /\ pc' = [pc EXCEPT ![s] = "err"] /\ img' = img
      /\ pos' = [pos EXCEPT ![s] = 0]
      /\ pending' = IF pc[s] \in Saving THEN pending \cup {s} ELSE pending
  BY DEF Error, Leave, Goto, store
<1>2. ASSUME NEW u \in Loads, u # s PROVE Holds(u)'
  BY <1>1, <1>2, HoldsFrame DEF Shape, TypeOK, LeaseInv
<1>3. Holds(s)'
  BY <1>1 DEF Shape, TypeOK, LeaseInv, Holds, Saving
<1> QED
  BY <1>1, <1>2, <1>3 DEF LeaseInv

\* A step of s outside of Saving, and one within it that keeps the lease.
LEMMA QuietLease ==
  ASSUME Shape, LeaseInv, NEW s \in Loads,
         \A u \in Loads \ {s} : pc'[u] = pc[u] /\ img'[u] = img[u] /\ pos'[u] = pos[u],
         UNCHANGED <<lease, leased, pending, content>>,
         \/ pc'[s] \notin Saving /\ s \notin pending
         \/ /\ pc[s] \in Saving \ {"write"} /\ pc'[s] \in Saving
            /\ img'[s] = img[s] /\ pos'[s] = pos[s]
         \/ pc[s] \notin Saving /\ pc'[s] \notin Saving
  PROVE  LeaseInv'
<1>1. ASSUME NEW u \in Loads, u # s PROVE Holds(u)'
  BY <1>1, HoldsFrame DEF LeaseInv
<1>2. Holds(s)'
  <2>1. CASE pc'[s] \notin Saving
    BY <2>1 DEF LeaseInv, Holds
  <2>2. CASE pc[s] \in Saving \ {"write"} /\ pc'[s] \in Saving /\ img'[s] = img[s] /\ pos'[s] = pos[s]
    <3>1. Product(s)' = Product(s)
      BY <2>2 DEF Product, Layer, MyLayers
    <3> QED
      BY <2>2, <3>1 DEF LeaseInv, Holds
  <2> QED
    BY <2>1, <2>2
<1> QED
  BY <1>1, <1>2 DEF LeaseInv

LEMMA StepLease ==
  ASSUME Shape, LeaseInv, NEW s \in Loads, Step(s)
  PROVE  LeaseInv'
<1> USE DEF store, guards, locals, Saving
<1>0. ASSUME Error(s) PROVE LeaseInv'
  BY <1>0, ErrorLease
<1>f. AreFunctions
  BY ShapeFunctions
<1>1. CASE ImageInfo(s) \/ LayerInfo(s) \/ Precompile(s) \/ ReadContent(s) \/ ReadOriginal(s)
  <2> SUFFICES ASSUME ~Error(s) PROVE LeaseInv'
    BY <1>0
  <2> SUFFICES /\ Others(s) /\ UNCHANGED <<lease, leased, pending, content>>
               /\ pc[s] \notin Saving /\ pc'[s] \notin Saving
    BY QuietLease DEF Others
  <2>1. CASE ImageInfo(s)
    <3>1. CASE MyLayers(s) = <<>>
      BY <1>f, <2>1, <3>1, GotoOthers, SMT DEF ImageInfo, Others, AreFunctions
    <3>2. CASE MyLayers(s) # <<>>
      <4>1. /\ pc[s] = "image" /\ ToLayer(s, 1) /\ UNCHANGED <<img, info, mods>>
            /\ UNCHANGED <<lease, leased, pending, content>>
        BY <2>1, <3>2 DEF ImageInfo
      <4>2. mods' = [mods EXCEPT ![s] = mods[s]]
        BY <1>f, <4>1 DEF AreFunctions
      <4>3. Others(s) /\ pc'[s] \in {"info", "read"}
        BY <1>f, <4>1, <4>2, ToLayerOthers
      <4> QED
        BY <4>1, <4>3
    <3> QED
      BY <3>1, <3>2
  <2>2. CASE LayerInfo(s)
    BY <1>f, <2>2, GotoOthers, SMT DEF LayerInfo, Others, AreFunctions
  <2>3. CASE Precompile(s)
    <3>1. pc[s] = "precompile" /\ UNCHANGED <<lease, leased, pending, content>>
      BY <2>3 DEF Precompile
    <3>2. Others(s) /\ pc'[s] \in {"ok", "lease", "err"}
      BY <1>f, <2>3, NextLayerOthers, LeaveOthers DEF Precompile
    <3> QED
      BY <3>1, <3>2
  <2>4. CASE ReadContent(s)
    <3>1. CASE Push(s, dig[s])
      <4>1. pc[s] = "read" /\ UNCHANGED <<lease, leased, pending, content>>
        BY <2>4, <3>1 DEF ReadContent, Push
      <4> QED
        BY <1>f, <3>1, <4>1, PushOthers
    <3>2. CASE ~Push(s, dig[s])
      <4>1. /\ pc[s] = "read" /\ Goto(s, "fallback") /\ UNCHANGED <<img, pos, dig, mods, info>>
            /\ UNCHANGED <<lease, leased, pending, content>>
        BY <2>4, <3>2 DEF ReadContent
      <4>2. pc'[s] = "fallback" /\ \A u \in Loads \ {s} : pc'[u] = pc[u]
        BY <1>f, <4>1, GotoOthers
      <4>3. Others(s)
        BY <4>1, <4>2 DEF Others
      <4> QED
        BY <4>1, <4>2, <4>3
    <3> QED
      BY <3>1, <3>2
  <2>5. CASE ReadOriginal(s)
    <3>1. Push(s, Layer(s)) /\ pc[s] = "fallback"
      BY <2>5 DEF ReadOriginal
    <3>2. UNCHANGED <<lease, leased, pending, content>>
      BY <3>1 DEF Push
    <3> QED
      BY <1>f, <3>1, <3>2, PushOthers
  <2> QED
    BY <1>1, <2>1, <2>2, <2>3, <2>4, <2>5
<1>2. CASE LayerGet(s) \/ ImageGet(s) \/ LayerPut(s) \/ ImagePut(s)
  <2> SUFFICES ASSUME ~Error(s) PROVE LeaseInv'
    BY <1>0
  <2>1. /\ \A u \in Loads \ {s} : pc'[u] = pc[u] /\ img'[u] = img[u] /\ pos'[u] = pos[u]
        /\ UNCHANGED <<lease, leased, pending, content>>
        /\ pc[s] \in Saving \ {"write"} /\ pc'[s] \in Saving /\ img'[s] = img[s] /\ pos'[s] = pos[s]
    BY <1>2 DEF LayerGet, ImageGet, LayerPut, ImagePut, GetInfo, Goto, Shape, TypeOK
  <2> QED
    BY <2>1, QuietLease
<1>3. CASE CreateLease(s)
  <2> SUFFICES ASSUME ~Error(s) PROVE LeaseInv'
    BY <1>0
  <2>1. /\ UNCHANGED <<content, leased, pending, img, pos>> /\ pc[s] = "lease"
        /\ lease[EngineOf[s]] = NoLoad /\ lease' = [lease EXCEPT ![EngineOf[s]] = s]
        /\ pc' = [pc EXCEPT ![s] = "write"]
    BY <1>3 DEF CreateLease, Goto
  <2>2. ASSUME NEW u \in Loads, u # s PROVE Holds(u)'
    <3>1. lease'[EngineOf[u]] = lease[EngineOf[u]] \/ lease[EngineOf[u]] # u
      BY <2>1, CacheAssumption DEF Shape, TypeOK
    <3> QED
      BY <2>1, <2>2, <3>1, HoldsFrame DEF LeaseInv, Shape, TypeOK
  <2>3. s \notin pending
    BY <2>1, CacheAssumption DEF LeaseInv, Holds
  <2>4. Holds(s)'
    BY <2>1, <2>3, CacheAssumption DEF Holds, Shape, TypeOK
  <2> QED
    BY <2>1, <2>2, <2>4 DEF LeaseInv
<1>4. CASE WriteContent(s)
  <2>1. /\ UNCHANGED <<lease, pending, img, pos>> /\ pc[s] = "write"
        /\ content' = content \cup {Product(s)}
        /\ leased' = [leased EXCEPT ![EngineOf[s]] = @ \cup {Product(s)}]
        /\ pc' = [pc EXCEPT ![s] = "layerGet"]
    BY <1>4 DEF WriteContent, Goto
  <2>2. EngineOf[s] \in Engines /\ leased'[EngineOf[s]] = leased[EngineOf[s]] \cup {Product(s)}
    BY <2>1, CacheAssumption DEF Shape, TypeOK
  <2>3. \A e \in Engines : leased[e] \subseteq leased'[e] /\ leased'[e] \subseteq content'
    BY <2>1, <2>2 DEF LeaseInv, Shape, TypeOK
  <2>4. ASSUME NEW u \in Loads, u # s PROVE Holds(u)'
    BY <2>1, <2>3, <2>4, HoldsFrame, CacheAssumption DEF LeaseInv, Shape, TypeOK
  <2>5. Holds(s)'
    <3>1. Product(s)' = Product(s)
      BY <2>1 DEF Product, Layer, MyLayers
    <3> QED
      BY <2>1, <2>2, <3>1 DEF LeaseInv, Holds, Shape, TypeOK
  <2> QED
    BY <2>3, <2>4, <2>5 DEF LeaseInv
<1>5. CASE Release(s)
  <2>1. /\ UNCHANGED <<content, pending>> /\ pc[s] = "release" /\ lease[EngineOf[s]] = s
        /\ \A u \in Loads \ {s} : pc'[u] = pc[u] /\ img'[u] = img[u] /\ pos'[u] = pos[u]
        /\ pc'[s] \in {"ok", "lease"}
    <3>1. UNCHANGED <<content, pending>> /\ pc[s] = "release" /\ NextLayer(s, pos[s])
      BY <1>5 DEF Release
    <3>2. lease[EngineOf[s]] = s
      BY <3>1 DEF LeaseInv, Holds
    <3>3. Others(s) /\ pc'[s] \in {"ok", "lease"}
      BY <1>f, <3>1, NextLayerOthers
    <3> QED
      BY <3>1, <3>2, <3>3 DEF Others
  <2>2. \A e \in Engines : /\ leased'[e] \subseteq leased[e]
                           /\ e # EngineOf[s] => lease'[e] = lease[e] /\ leased'[e] = leased[e]
    BY <1>5 DEF Release, DeleteLease, Shape, TypeOK
  <2>3. ASSUME NEW u \in Loads, u # s PROVE Holds(u)'
    <3>1. EngineOf[u] # EngineOf[s] \/ lease[EngineOf[u]] # u
      BY <2>1, <2>3
    <3> QED
      BY <2>1, <2>2, <2>3, <3>1, HoldsFrame, CacheAssumption DEF LeaseInv
  <2>4. Holds(s)'
    BY <2>1 DEF LeaseInv, Holds
  <2> QED
    BY <2>1, <2>2, <2>3, <2>4 DEF LeaseInv
<1> QED
  BY <1>1, <1>2, <1>3, <1>4, <1>5 DEF Step

\* s, or the expiry of its lease, gives up the lease that only s can hold.
LEMMA GiveUpLease ==
  ASSUME Shape, LeaseInv, NEW e \in Engines, NEW s \in Loads \cup {Orphan}, lease[e] = s,
         \A u \in Loads \ {s} : pc'[u] = pc[u] /\ img'[u] = img[u] /\ pos'[u] = pos[u],
         s \in Loads => pc'[s] \notin Saving /\ EngineOf[s] = e,
         content' = content, pending' = pending \ {s},
         \A f \in Engines : /\ leased'[f] \subseteq leased[f]
                            /\ f # e => lease'[f] = lease[f] /\ leased'[f] = leased[f]
  PROVE  LeaseInv'
<1>1. ASSUME NEW u \in Loads, u # s PROVE Holds(u)'
  <2>1. EngineOf[u] # e \/ lease[EngineOf[u]] # u
    BY <1>1
  <2> QED
    BY <1>1, <2>1, HoldsFrame, CacheAssumption DEF LeaseInv
<1>2. ASSUME s \in Loads PROVE Holds(s)'
  BY <1>2 DEF Holds
<1> QED
  BY <1>1, <1>2 DEF LeaseInv

LEMMA NextLease ==
  ASSUME "late" \notin Faults
  PROVE  Shape /\ LeaseInv /\ [Next]_vars => LeaseInv'
<1> USE DEF store, guards, locals
<1> SUFFICES ASSUME Shape, LeaseInv, [Next]_vars PROVE LeaseInv'
  OBVIOUS
<1>0. \A s \in Loads : EngineOf[s] \in Engines
  BY CacheAssumption
<1>1. ASSUME NEW s \in Loads, NEW i \in Images, Begin(s, i) PROVE LeaseInv'
  <2>1. /\ \A u \in Loads \ {s} : pc'[u] = pc[u] /\ img'[u] = img[u] /\ pos'[u] = pos[u]
        /\ UNCHANGED <<lease, leased, pending, content>>
        /\ pc[s] \notin Saving /\ pc'[s] \notin Saving
    BY <1>1 DEF Begin, Goto, Shape, TypeOK, Saving, Returned
  <2> QED
    BY <2>1, QuietLease
<1>2. ASSUME NEW s \in Loads, RequestFails(s) PROVE LeaseInv'
  BY <1>2, ErrorLease DEF RequestFails
<1>3. ASSUME NEW s \in Loads, DropRelease(s) PROVE LeaseInv'
  <2>1. lease[EngineOf[s]] = s /\ pc[s] \notin Saving
    BY <1>3 DEF DropRelease, LeaseInv, Holds
  <2>2. /\ UNCHANGED <<content, pc, img, pos>> /\ pending' = pending \ {s}
        /\ \A f \in Engines :
             /\ leased'[f] \subseteq leased[f]
             /\ f # EngineOf[s] => lease'[f] = lease[f] /\ leased'[f] = leased[f]
    BY <1>3 DEF DropRelease, DeleteLease, Shape, TypeOK
  <2> QED
    BY <1>0, <2>1, <2>2, GiveUpLease
<1>4. ASSUME NEW s \in Loads, Crash(s) PROVE LeaseInv'
  <2>1. /\ UNCHANGED <<content, leased, img>> /\ pending' = pending \ {s}
        /\ pc' = [pc EXCEPT ![s] = "idle"] /\ pos' = [pos EXCEPT ![s] = 0]
        /\ lease' = IF lease[EngineOf[s]] = s
                    THEN [lease EXCEPT ![EngineOf[s]] = Orphan] ELSE lease
    BY <1>4 DEF Crash, Leave, Goto
  <2>2. CASE lease[EngineOf[s]] = s
    BY <1>0, <2>1, <2>2, GiveUpLease DEF Shape, TypeOK, Saving
  <2>3. CASE lease[EngineOf[s]] # s
    <3>1. s \notin pending /\ pending' = pending
      BY <2>1, <2>3 DEF LeaseInv, Holds
    <3> QED
      BY <2>1, <2>3, <3>1, QuietLease DEF Shape, TypeOK, Saving
  <2> QED
    BY <2>2, <2>3
<1>5. ASSUME NEW e \in Engines, Expire(e) PROVE LeaseInv'
  <2>1. /\ UNCHANGED <<content, pc, img, pos>> /\ pending' = pending \ {lease[e]}
        /\ lease[e] # NoLoad /\ (lease[e] \in Loads => pc[lease[e]] \notin Saving)
        /\ \A f \in Engines :
             /\ leased'[f] \subseteq leased[f]
             /\ f # e => lease'[f] = lease[f] /\ leased'[f] = leased[f]
    BY <1>5 DEF Expire, DeleteLease, Shape, TypeOK
  <2>2. lease[e] \in Loads \cup {Orphan}
    BY <2>1 DEF Shape, TypeOK
  <2>3. CASE lease[e] = Orphan
    BY <2>1, <2>3, CacheAssumption, GiveUpLease
  <2>4. CASE lease[e] \in Loads
    <3>1. ASSUME NEW u \in Loads PROVE Holds(u)'
      <4>1. CASE u = lease[e]
        <5>1. pc[u] \notin Saving /\ u \notin pending'
          BY <2>1, <2>4, <4>1
        <5> QED
          BY <2>1, <5>1 DEF Holds
      <4>2. CASE u # lease[e]
        <5>1. \/ /\ lease'[EngineOf[u]] = lease[EngineOf[u]]
                 /\ leased[EngineOf[u]] \subseteq leased'[EngineOf[u]]
              \/ lease[EngineOf[u]] # u
          BY <1>0, <2>1, <4>2
        <5> QED
          BY <2>1, <5>1, HoldsFrame DEF LeaseInv
      <4> QED
        BY <4>1, <4>2
    <3> QED
      BY <2>1, <3>1 DEF LeaseInv
  <2> QED
    BY <2>2, <2>3, <2>4
<1>6. ASSUME content \subseteq content', UNCHANGED <<lease, leased, pending, pc, img, pos>>
      PROVE  LeaseInv'
  <2>1. \A u \in Loads : Holds(u)'
    BY <1>6, HoldsFrame DEF LeaseInv
  <2> QED
    BY <1>6, <2>1 DEF LeaseInv
<1>7. ASSUME NEW i \in Images, RemoveImage(i) \/ Pull(i) PROVE LeaseInv'
  BY <1>6, <1>7 DEF RemoveImage, Pull
<1>8. CASE GC
  <2>1. UNCHANGED <<lease, leased, pending, pc, img, pos>> /\ content' = content \cap Live
    BY <1>8 DEF GC
  <2>2. \A e \in Engines : leased[e] \subseteq Live
    BY DEF Live
  <2>3. \A u \in Loads : Holds(u)'
    BY <2>1, HoldsFrame DEF LeaseInv
  <2> QED
    BY <2>1, <2>2, <2>3 DEF LeaseInv
<1>9. CASE UNCHANGED vars
  BY <1>6, <1>9 DEF vars
<1> QED
  BY <1>1, <1>2, <1>3, <1>4, <1>5, <1>7, <1>8, <1>9, StepLease DEF Next

LEMMA InitLease == Init => LeaseInv
  BY CacheAssumption DEF Init, LeaseInv, Holds, Saving

\* Content that is being saved stays in the store until its lease is released,
\* with any number of loads, engines and images, and with every fault but a release
\* that runs after its lease has expired.
THEOREM SavedContentStays ==
  ASSUME "late" \notin Faults
  PROVE  SafeSpec => []SavedStays
<1>0. Shape /\ LeaseInv /\ [Next]_vars => LeaseInv'
  BY NextLease
<1>1. SafeSpec => []Shape
  BY InitShape, NextShape, PTL DEF SafeSpec
<1>2. SafeSpec => [](Shape /\ LeaseInv)
  BY <1>0, <1>1, InitLease, PTL DEF SafeSpec
<1>3. Shape /\ LeaseInv => SavedStays
  <2> SUFFICES ASSUME LeaseInv, NEW s \in Loads, pc[s] \in Saving \ {"write"}
               PROVE  Product(s) \in content
    BY DEF SavedStays
  <2>1. EngineOf[s] \in Engines
    BY CacheAssumption
  <2> QED
    BY <2>1 DEF LeaseInv, Holds
<1> QED
  BY <1>2, <1>3, PTL


-----------------------------------------------------------------------------
(***************************************************************************)
(* With one engine, whatever a layer is labelled with stays: the update    *)
(* that sets the key also sets a reference to it, and only an update of    *)
(* the same engine could overwrite that.                                   *)
(***************************************************************************)
Referenced ==
  \A l \in Layers : \A e \in Engines :
    labels[l].key[e] # NoDigest =>
      /\ labels[l].key[e] \in content
      /\ \E k \in Positions : labels[l].ref[k] = labels[l].key[e]

\* A layer that the collector keeps is kept by an image, so what it refers to
\* is kept as well.
LEMMA LayerKeepsRefs ==
  ASSUME Shape, NEW l \in Layers, l \in Live, NEW k \in Positions, labels[l].ref[k] # NoDigest
  PROVE  labels[l].ref[k] \in Live
<1> DEFINE roots == tagged \cup UNION {leased[e] : e \in Engines}
           first == Children(roots)
<1>1. l \notin roots
  BY DigestAssumption, SMT DEF Shape, TypeOK
<1>2. ASSUME NEW d \in Images \cup Layers, NEW x \in Refs(d)
      PROVE  x \in Layers \cup Compiled /\ (d \in Layers => x \in Compiled)
  <2>1. \A j \in Positions : labels[d].ref[j] \in Compiled \cup {NoDigest}
    BY SMT DEF Shape, TypeOK, Labels
  <2>2. \A i \in Images : \A j \in DOMAIN LayersOf[i] : LayersOf[i][j] \in Layers
    BY CacheAssumption, SMT
  <2> QED
    <3>1. CASE d \in Images
      BY <1>2, <2>1, <2>2, <3>1, DigestAssumption, SMT DEF Refs
    <3>2. CASE d \in Layers
      <4>1. d \notin Images
        BY <3>2, DigestAssumption
      <4>2. x \in {labels[d].ref[j] : j \in Positions} \ {NoDigest}
        BY <1>2, <4>1 DEF Refs
      <4> QED
        BY <2>1, <4>2
    <3> QED
      BY <3>1, <3>2
<1>3. first \subseteq Layers \cup Compiled
  BY <1>2 DEF Children
<1>4. l \notin Children(first)
  <2> SUFFICES ASSUME NEW d \in first, d \in Images \cup Layers, l \in Refs(d) PROVE FALSE
    BY DEF Children
  <2>1. d \in Layers
    BY <1>3, DigestAssumption
  <2> QED
    BY <1>2, <2>1, DigestAssumption
<1>5. l \in first
  BY <1>1, <1>4 DEF Live
<1>6. labels[l].ref[k] \in Refs(l)
  BY DEF Refs
<1>7. labels[l].ref[k] \in Children(first)
  BY <1>5, <1>6 DEF Children
<1> QED
  BY <1>7 DEF Live

LEMMA ReferencedStep ==
  ASSUME \A e, f \in Engines : e = f,
         Shape, LeaseInv, Referenced, [Next]_vars
  PROVE  Referenced'
<1> USE DEF store, guards, locals
<1>1. ASSUME content \subseteq content', labels' = labels PROVE Referenced'
  BY <1>1 DEF Referenced
<1>2. ASSUME NEW s \in Loads, Error(s) PROVE Referenced'
  BY <1>1, <1>2 DEF Error
<1>3. ASSUME NEW s \in Loads, LayerPut(s) PROVE Referenced'
  <2> SUFFICES ASSUME ~Error(s) PROVE Referenced'
    BY <1>2
  <2> DEFINE L == Layer(s)
             d == Product(s)
             new == NewLabels(s, d)
  <2>1. content' = content /\ labels' = [labels EXCEPT ![L] = new] /\ pc[s] = "layerPut"
    BY <1>3 DEF LayerPut
  <2>2. img[s] \in Images /\ pos[s] \in DOMAIN MyLayers(s) /\ info[s] \in Labels
    BY <2>1 DEF Shape, TypeOK, Progress, Filled, Saving
  <2>3. L \in Layers /\ d \in Compiled /\ pos[s] \in Positions /\ EngineOf[s] \in Engines
    BY <2>2, AtLayer, CacheAssumption DEF Layer, Product
  <2>4. d \in content
    BY <2>1, <2>3 DEF LeaseInv, Holds, Saving
  <2>5. new.key[EngineOf[s]] = d /\ new.ref[pos[s]] = d
    BY <2>2, <2>3 DEF NewLabels, PrecompileLabel, Labels
  <2> HIDE DEF L, d, new
  <2>6. labels'[L] = new /\ \A l \in Layers : l # L => labels'[l] = labels[l]
    BY <2>1, <2>3 DEF Shape, TypeOK
  <2> SUFFICES ASSUME NEW l \in Layers, NEW e \in Engines, labels'[l].key[e] # NoDigest
               PROVE  /\ labels'[l].key[e] \in content'
                      /\ \E k \in Positions : labels'[l].ref[k] = labels'[l].key[e]
    BY DEF Referenced
  <2>7. CASE l = L
    <3>1. e = EngineOf[s]
      BY <2>3
    <3> QED
      BY <2>1, <2>3, <2>4, <2>5, <2>6, <2>7, <3>1, SMT
  <2>8. CASE l # L
    BY <2>1, <2>6, <2>8, SMT DEF Referenced
  <2> QED
    BY <2>7, <2>8
<1>4. ASSUME NEW s \in Loads, ImagePut(s) PROVE Referenced'
  <2> SUFFICES ASSUME ~Error(s) PROVE Referenced'
    BY <1>2
  <2>1. content' = content /\ labels' = [labels EXCEPT ![img[s]] = NewLabels(s, Flag)]
    BY <1>4 DEF ImagePut
  <2>2. img[s] \in Images
    BY <1>4 DEF ImagePut, Shape, Progress, Filled, Saving
  <2>3. \A l \in Layers : labels'[l] = labels[l]
    BY <2>1, <2>2, DigestAssumption DEF Shape, TypeOK
  <2> QED
    BY <2>1, <2>3, SMT DEF Referenced
<1>5. CASE GC
  <2>1. content' = content \cap Live
    BY <1>5 DEF GC
  <2> SUFFICES ASSUME NEW l \in Layers, NEW e \in Engines, labels'[l].key[e] # NoDigest
               PROVE  /\ labels'[l].key[e] \in content'
                      /\ \E k \in Positions : labels'[l].ref[k] = labels'[l].key[e]
    BY DEF Referenced
  <2>2. l \in content' /\ labels'[l] = labels[l]
    <3>1. labels'[l] = IF l \in content' THEN labels[l] ELSE NoLabels
      BY <1>5 DEF GC
    <3>2. NoLabels.key[e] = NoDigest
      BY DEF NoLabels
    <3> QED
      BY <3>1, <3>2
  <2>3. PICK k \in Positions : labels[l].ref[k] = labels[l].key[e]
    BY <2>2 DEF Referenced
  <2>4. labels[l].ref[k] \in Live
    BY <2>1, <2>2, <2>3, LayerKeepsRefs
  <2> QED
    BY <2>1, <2>2, <2>3, <2>4 DEF Referenced
<1>6. ASSUME NEW s \in Loads, Step(s), ~Error(s), ~LayerPut(s), ~ImagePut(s) PROVE Referenced'
  <2>1. content \subseteq content' /\ labels' = labels
    BY <1>6 DEF Step, ImageInfo, LayerInfo, ReadContent, ReadOriginal, Push, Precompile, CreateLease,
                WriteContent, LayerGet, ImageGet, GetInfo, Release
  <2> QED
    BY <1>1, <2>1
<1>7. ASSUME NEW s \in Loads, DropRelease(s) \/ Crash(s) \/ RequestFails(s) PROVE Referenced'
  BY <1>1, <1>2, <1>7 DEF DropRelease, Crash, RequestFails
<1>8. ASSUME NEW s \in Loads, NEW i \in Images, Begin(s, i) PROVE Referenced'
  BY <1>1, <1>8 DEF Begin
<1>9. ASSUME NEW e \in Engines, Expire(e) PROVE Referenced'
  BY <1>1, <1>9 DEF Expire
<1>10. ASSUME NEW i \in Images, RemoveImage(i) \/ Pull(i) PROVE Referenced'
  BY <1>1, <1>10 DEF RemoveImage, Pull
<1>11. CASE UNCHANGED vars
  BY <1>1, <1>11 DEF vars
<1>12. ASSUME NEW s \in Loads, Step(s) PROVE Referenced'
  BY <1>2, <1>3, <1>4, <1>6, <1>12
<1> QED
  BY <1>5, <1>7, <1>8, <1>9, <1>10, <1>11, <1>12 DEF Next

\* If there is one engine, in one version, compiled content stays as long as its
\* image does, with any number of loads and images, and with every fault but a
\* release that runs after its lease has expired.
THEOREM OneEngineKeeps ==
  ASSUME \A e, f \in Engines : e = f, "late" \notin Faults
  PROVE  SafeSpec => []KeptWithImage
<1>0. Shape /\ LeaseInv /\ [Next]_vars => LeaseInv'
  BY NextLease
<1>1. SafeSpec => []Shape
  BY InitShape, NextShape, PTL DEF SafeSpec
<1>2. SafeSpec => [](Shape /\ LeaseInv)
  BY <1>0, <1>1, InitLease, PTL DEF SafeSpec
<1>3. Init => Referenced
  <2> SUFFICES ASSUME labels = [d \in Images \cup Layers |-> NoLabels] PROVE Referenced
    BY DEF Init
  <2>1. \A e \in Engines : NoLabels.key[e] = NoDigest
    BY DEF NoLabels
  <2>2. \A l \in Layers : labels[l] = NoLabels
    OBVIOUS
  <2> QED
    BY <2>1, <2>2 DEF Referenced
<1>4. Shape /\ LeaseInv /\ Referenced /\ [Next]_vars => Referenced'
  BY ReferencedStep
<1>5. Referenced => KeptWithImage \/ ~Shape
  <2> SUFFICES ASSUME Referenced, Shape,
                      NEW i \in tagged, NEW k \in DOMAIN LayersOf[i], NEW e \in Engines,
                      labels[LayersOf[i][k]].key[e] # NoDigest
               PROVE  labels[LayersOf[i][k]].key[e] \in content
    BY DEF KeptWithImage
  <2>1. LayersOf[i][k] \in Layers
    <3>1. i \in Images
      BY DEF Shape, TypeOK
    <3> QED
      BY <3>1, CacheAssumption, SMT
  <2> QED
    BY <2>1 DEF Referenced
<1> QED
  BY <1>2, <1>3, <1>4, <1>5, PTL DEF SafeSpec

-----------------------------------------------------------------------------
(***************************************************************************)
(* Which module a load gets.  A layer's label for an engine can only name  *)
(* what that engine made of that layer, also in the copies of the labels   *)
(* that loads are about to write back.                                     *)
(***************************************************************************)
KeysRight(lb, l) ==
  \A e \in Engines : lb.key[e] \in {NoDigest, [engine |-> e, layer |-> l]}

ModsRight(s) ==
  \A k \in DOMAIN mods[s] :
    mods[s][k] \in {MyLayers(s)[k], [engine |-> EngineOf[s], layer |-> MyLayers(s)[k]]}

Right(s) ==
  /\ pc[s] = "layerPut" => KeysRight(info[s], Layer(s))
  /\ pc[s] = "read" => dig[s] \in {Layer(s), Product(s)}
  /\ ModsRight(s)

RightInv ==
  /\ \A l \in Layers : KeysRight(labels[l], l)
  /\ \A s \in Loads : Right(s)

\* A load whose locals do not change.
LEMMA RightFrame ==
  ASSUME NEW u \in Loads, Right(u), pc'[u] = pc[u], img'[u] = img[u], pos'[u] = pos[u],
         dig'[u] = dig[u], mods'[u] = mods[u], info'[u] = info[u]
  PROVE  Right(u)'
<1>1. Layer(u)' = Layer(u) /\ Product(u)' = Product(u) /\ MyLayers(u)' = MyLayers(u)
  BY DEF Product, Layer, MyLayers
<1>2. KeysRight(info[u], Layer(u))' = KeysRight(info[u], Layer(u))
  BY <1>1 DEF KeysRight
<1> QED
  BY <1>1, <1>2 DEF Right, ModsRight

LEMMA RightStep ==
  ASSUME RightInv, NEW s \in Loads, Others(s), Right(s)',
         \A l \in Layers : KeysRight(labels'[l], l)
  PROVE  RightInv'
<1>1. \A u \in Loads : Right(u)'
  BY RightFrame DEF RightInv, Others
<1>2. \A l \in Layers : KeysRight(labels[l], l)'
  BY DEF KeysRight
<1> QED
  BY <1>1, <1>2 DEF RightInv

\* Leaving load_modules with modules that are right for the image.
LEMMA LeaveRight ==
  ASSUME Shape, RightInv, NEW s \in Loads, NEW l \in Returned, NEW m, Leave(s, l, m),
         UNCHANGED labels,
         \A k \in DOMAIN m :
           m[k] \in {MyLayers(s)[k], [engine |-> EngineOf[s], layer |-> MyLayers(s)[k]]}
  PROVE  RightInv'
<1>1. Others(s)
  BY ShapeFunctions, LeaveOthers
<1>2. pc'[s] = l /\ mods'[s] = m /\ MyLayers(s)' = MyLayers(s)
  BY ShapeFunctions, LeaveOthers
<1>3. Right(s)'
  BY <1>2 DEF Right, ModsRight, Returned
<1> QED
  BY <1>1, <1>3, RightStep DEF RightInv

LEMMA LeaveNothingRight ==
  ASSUME Shape, RightInv, NEW s \in Loads, NEW l \in Returned, Leave(s, l, <<>>),
         UNCHANGED labels
  PROVE  RightInv'
<1>1. \A k \in DOMAIN <<>> : FALSE
  BY SMT
<1> QED
  BY <1>1, LeaveRight

LEMMA ErrorRight ==
  ASSUME Shape, RightInv, NEW s \in Loads, Error(s)
  PROVE  RightInv'
<1>1. Leave(s, "err", <<>>) /\ "err" \in Returned /\ labels' = labels
  BY DEF Error, Returned, store
<1> QED
  BY <1>1, LeaveNothingRight

LEMMA PushRight ==
  ASSUME Shape, RightInv, NEW s \in Loads, pc[s] \in {"read", "fallback"},
         NEW d \in {Layer(s), Product(s)}, Push(s, d)
  PROVE  RightInv'
<1> DEFINE m == Append(mods[s], d)
<1>0. /\ img[s] \in Images /\ pos[s] \in DOMAIN MyLayers(s) /\ Len(mods[s]) = pos[s] - 1
      /\ mods[s] \in Seq(Layers \cup Compiled)
  BY DEF Shape, TypeOK, Progress, Reading
<1>1. /\ MyLayers(s)[pos[s]] \in Layers /\ pos[s] \in Nat
      /\ [engine |-> EngineOf[s], layer |-> MyLayers(s)[pos[s]]] \in Compiled
  BY <1>0, AtLayer
<1>2. d \in {MyLayers(s)[pos[s]], [engine |-> EngineOf[s], layer |-> MyLayers(s)[pos[s]]]}
  BY DEF Layer, Product
<1>3. /\ DOMAIN m = 1..pos[s] /\ m[pos[s]] = d
      /\ \A k \in 1..(pos[s] - 1) : k \in DOMAIN mods[s] /\ m[k] = mods[s][k]
  <2>1. PICK q : q = mods[s]
    OBVIOUS
  <2>2. PICK n \in Nat : n = pos[s]
    BY <1>1
  <2>3. PICK D : D = Layers \cup Compiled
    OBVIOUS
  <2>4. q \in Seq(D) /\ d \in D /\ Len(q) = n - 1
    BY <1>0, <1>1, <1>2, <2>1, <2>2, <2>3
  <2>5. /\ DOMAIN Append(q, d) = 1..n /\ Append(q, d)[n] = d
        /\ \A k \in 1..(n - 1) : k \in DOMAIN q /\ Append(q, d)[k] = q[k]
    BY <2>4, SMT
  <2> QED
    BY <2>1, <2>2, <2>5
<1> HIDE DEF m
<1>4. ModsRight(s)
  BY DEF RightInv, Right
<1>5. \A k \in DOMAIN m :
        m[k] \in {MyLayers(s)[k], [engine |-> EngineOf[s], layer |-> MyLayers(s)[k]]}
  <2> SUFFICES ASSUME NEW k \in 1..pos[s]
               PROVE  m[k] \in {MyLayers(s)[k], [engine |-> EngineOf[s], layer |-> MyLayers(s)[k]]}
    BY <1>3
  <2>1. CASE k = pos[s]
    BY <1>2, <1>3, <2>1
  <2>2. CASE k # pos[s]
    <3>0. k \in 1..(pos[s] - 1)
      BY <1>1, <2>2, SMT
    <3>1. k \in DOMAIN mods[s] /\ m[k] = mods[s][k]
      BY <1>3, <3>0
    <3> QED
      BY <1>4, <3>1 DEF ModsRight
  <2> QED
    BY <2>1, <2>2
<1>6. labels' = labels
  BY DEF Push, store
<1>7. /\ Others(s) /\ pc'[s] # "layerPut" /\ mods'[s] = m /\ MyLayers(s)' = MyLayers(s)
      /\ pc'[s] = "read" => dig'[s] = MyLayers(s)'[pos'[s]]
  BY ShapeFunctions, PushOthers DEF m
<1>8. Right(s)'
  BY <1>5, <1>7 DEF Right, ModsRight, Layer
<1> QED
  BY <1>6, <1>7, <1>8, RightStep DEF RightInv

LEMMA NextLayerRight ==
  ASSUME Shape, RightInv, NEW s \in Loads, NEW k \in Nat, NextLayer(s, k), UNCHANGED labels
  PROVE  RightInv'
<1>1. /\ Others(s) /\ pc'[s] \in {"ok", "lease"} /\ mods'[s] = mods[s]
      /\ MyLayers(s)' = MyLayers(s)
  BY ShapeFunctions, NextLayerOthers
<1>2. Right(s)'
  BY <1>1 DEF RightInv, Right, ModsRight
<1> QED
  BY <1>1, <1>2, RightStep DEF RightInv

\* A label that s adds to its own layer is right for its engine.
LEMMA LabelsRight ==
  ASSUME Shape, RightInv, NEW s \in Loads, pc[s] = "layerPut"
  PROVE  KeysRight(NewLabels(s, Product(s)), Layer(s))
<1>1. KeysRight(info[s], Layer(s)) /\ info[s].key \in [Engines -> Compiled \cup {Flag, NoDigest}]
  BY DEF RightInv, Right, Shape, TypeOK, Labels
<1>2. Product(s) = [engine |-> EngineOf[s], layer |-> Layer(s)]
  BY DEF Product
<1>3. NewLabels(s, Product(s)).key = [info[s].key EXCEPT ![EngineOf[s]] = Product(s)]
  BY DEF NewLabels, PrecompileLabel
<1> QED
  BY <1>1, <1>2, <1>3 DEF KeysRight

LEMMA StepRight ==
  ASSUME Shape, RightInv, NEW s \in Loads, Step(s)
  PROVE  RightInv'
<1> USE DEF store, guards, locals
<1>0. ASSUME Error(s) PROVE RightInv'
  BY <1>0, ErrorRight
<1> SUFFICES ASSUME ~Error(s) PROVE RightInv'
  BY <1>0
<1>1. CASE ImageInfo(s)
  <2>1. CASE MyLayers(s) = <<>>
    <3>1. Others(s) /\ pc'[s] = "ok" /\ UNCHANGED <<labels, img, mods>>
      BY <1>1, <2>1 DEF ImageInfo, Goto, Others, Shape, TypeOK
    <3>2. Right(s)'
      BY <3>1 DEF RightInv, Right, ModsRight, MyLayers
    <3> QED
      BY <3>1, <3>2, RightStep DEF RightInv
  <2>2. CASE MyLayers(s) # <<>>
    <3>1. ToLayer(s, 1) /\ UNCHANGED <<labels, img, mods, info>>
      BY <1>1, <2>2 DEF ImageInfo
    <3>2. Others(s) /\ pc'[s] \in {"info", "read"} /\ dig'[s] = Layer(s)'
      BY <3>1 DEF ToLayer, Goto, Others, Layer, MyLayers, Shape, TypeOK
    <3>3. Right(s)'
      BY <3>1, <3>2 DEF RightInv, Right, ModsRight, MyLayers
    <3> QED
      BY <3>1, <3>2, <3>3, RightStep DEF RightInv
  <2> QED
    BY <2>1, <2>2
<1>2. CASE LayerInfo(s)
  <2>0. Layer(s) \in Layers /\ EngineOf[s] \in Engines
    BY <1>2, AtLayer, CacheAssumption DEF LayerInfo, Layer, Shape, TypeOK, Progress, Reading
  <2>1. /\ Others(s) /\ pc'[s] = "read" /\ UNCHANGED <<labels, img, pos, mods>>
        /\ dig'[s] \in {Layer(s), labels[Layer(s)].key[EngineOf[s]]}
        /\ dig'[s] # NoDigest
    <3>f. AreFunctions
      BY ShapeFunctions
    <3> DEFINE l == labels[Layer(s)].key[EngineOf[s]]
    <3>1. /\ Goto(s, "read") /\ UNCHANGED <<labels, img, pos, mods, info>>
          /\ dig' = [dig EXCEPT ![s] = IF l # NoDigest THEN l ELSE Layer(s)]
      BY <1>2 DEF LayerInfo, PrecompileLabel
    <3>2. Layer(s) # NoDigest
      BY <2>0, DigestAssumption
    <3> HIDE DEF l
    <3>3. Others(s) /\ pc'[s] = "read" /\ dig'[s] = IF l # NoDigest THEN l ELSE Layer(s)
      BY <3>f, <3>1 DEF AreFunctions, Goto, Others
    <3> QED
      BY <3>1, <3>2, <3>3 DEF l
  <2>2. labels[Layer(s)].key[EngineOf[s]] \in {NoDigest, Product(s)}
    BY <2>0 DEF RightInv, KeysRight, Product
  <2>3. Layer(s)' = Layer(s) /\ Product(s)' = Product(s) /\ MyLayers(s)' = MyLayers(s)
    BY <2>1 DEF Product, Layer, MyLayers
  <2>4. Right(s)'
    BY <2>1, <2>2, <2>3 DEF RightInv, Right, ModsRight
  <2> QED
    BY <2>1, <2>4, RightStep DEF RightInv
<1>3. CASE ReadContent(s)
  <2>1. CASE Push(s, dig[s])
    BY <1>3, <2>1, PushRight DEF ReadContent, RightInv, Right
  <2>2. CASE ~Push(s, dig[s])
    <3>1. Others(s) /\ pc'[s] = "fallback" /\ UNCHANGED <<labels, img, mods>>
      BY <1>3, <2>2 DEF ReadContent, Goto, Others, Shape, TypeOK
    <3>2. Right(s)'
      BY <3>1 DEF RightInv, Right, ModsRight, MyLayers
    <3> QED
      BY <3>1, <3>2, RightStep DEF RightInv
  <2> QED
    BY <2>1, <2>2
<1>4. CASE ReadOriginal(s)
  BY <1>4, PushRight DEF ReadOriginal
<1>5. CASE Precompile(s)
  <2>1. CASE NextLayer(s, 0)
    BY <1>5, <2>1, NextLayerRight DEF Precompile
  <2>2. CASE Leave(s, "ok", mods[s])
    <3>1. ModsRight(s) /\ "ok" \in Returned /\ labels' = labels
      BY <1>5 DEF Precompile, Returned, RightInv, Right
    <3>2. \A k \in DOMAIN mods[s] :
            mods[s][k] \in {MyLayers(s)[k], [engine |-> EngineOf[s], layer |-> MyLayers(s)[k]]}
      BY <3>1 DEF ModsRight
    <3> QED
      BY <2>2, <3>1, <3>2, LeaveRight
  <2>3. CASE Leave(s, "err", <<>>)
    <3>1. labels' = labels /\ "err" \in Returned
      BY <1>5 DEF Precompile, Returned
    <3> QED
      BY <2>3, <3>1, LeaveNothingRight
  <2> QED
    BY <1>5, <2>1, <2>2, <2>3 DEF Precompile
<1>6. CASE CreateLease(s) \/ WriteContent(s)
  <2>1. Others(s) /\ pc'[s] \in {"write", "layerGet"} /\ UNCHANGED <<labels, img, mods>>
    BY <1>6 DEF CreateLease, WriteContent, Goto, Others, Shape, TypeOK
  <2>2. Right(s)'
    BY <2>1 DEF RightInv, Right, ModsRight, MyLayers
  <2> QED
    BY <2>1, <2>2, RightStep DEF RightInv
<1>7. CASE LayerGet(s)
  <2>0. Layer(s) \in Layers
    BY <1>7, AtLayer DEF LayerGet, Layer, Shape, TypeOK, Progress, Filled, Saving
  <2>1. /\ Others(s) /\ pc'[s] = "layerPut" /\ UNCHANGED <<labels, img, pos, mods>>
        /\ info'[s] = labels[Layer(s)]
    BY <1>7 DEF LayerGet, GetInfo, Goto, Others, Shape, TypeOK
  <2>2. Layer(s)' = Layer(s) /\ MyLayers(s)' = MyLayers(s)
    BY <2>1 DEF Layer, MyLayers
  <2>3. KeysRight(info[s], Layer(s))'
    BY <2>0, <2>1, <2>2 DEF RightInv, KeysRight
  <2>4. Right(s)'
    BY <2>1, <2>2, <2>3 DEF RightInv, Right, ModsRight
  <2> QED
    BY <2>1, <2>4, RightStep DEF RightInv
<1>8. CASE LayerPut(s)
  <2>0. pc[s] = "layerPut" /\ labels' = [labels EXCEPT ![Layer(s)] = NewLabels(s, Product(s))]
    BY <1>8 DEF LayerPut
  <2>1. Others(s) /\ pc'[s] = "imageGet" /\ UNCHANGED <<img, mods>>
    BY <1>8 DEF LayerPut, Goto, Others, Shape, TypeOK
  <2>2. Right(s)'
    BY <2>1 DEF RightInv, Right, ModsRight, MyLayers
  <2>3. \A l \in Layers : labels'[l] = labels[l] \/ (l = Layer(s) /\ labels'[l] = NewLabels(s, Product(s)))
    BY <2>0 DEF Shape, TypeOK
  <2>4. \A l \in Layers : KeysRight(labels'[l], l)
    BY <2>0, <2>3, LabelsRight DEF RightInv
  <2> QED
    BY <2>1, <2>2, <2>4, RightStep
<1>9. CASE ImageGet(s)
  <2>1. Others(s) /\ pc'[s] = "imagePut" /\ UNCHANGED <<labels, img, mods>>
    BY <1>9 DEF ImageGet, GetInfo, Goto, Others, Shape, TypeOK
  <2>2. Right(s)'
    BY <2>1 DEF RightInv, Right, ModsRight, MyLayers
  <2> QED
    BY <2>1, <2>2, RightStep DEF RightInv
<1>10. CASE ImagePut(s)
  <2>0. img[s] \in Images
    BY <1>10 DEF ImagePut, Shape, TypeOK, Progress, Filled, Saving
  <2>1. /\ Others(s) /\ pc'[s] = "release" /\ UNCHANGED <<img, pos>>
        /\ mods'[s] = [mods[s] EXCEPT ![pos[s]] = Product(s)]
        /\ labels' = [labels EXCEPT ![img[s]] = NewLabels(s, Flag)]
    BY <1>10 DEF ImagePut, Goto, Others, Shape, TypeOK
  <2>2. \A l \in Layers : labels'[l] = labels[l]
    BY <2>0, <2>1, DigestAssumption DEF Shape, TypeOK
  <2>3. \A k \in DOMAIN mods'[s] : /\ k \in DOMAIN mods[s]
                                   /\ mods'[s][k] = IF k = pos[s] THEN Product(s) ELSE mods[s][k]
    BY <2>1
  <2>4. MyLayers(s)' = MyLayers(s) /\ Product(s) = [engine |-> EngineOf[s], layer |-> MyLayers(s)[pos[s]]]
    BY <2>1 DEF Product, Layer, MyLayers
  <2>5. ModsRight(s)'
    BY <2>3, <2>4 DEF RightInv, Right, ModsRight
  <2>6. Right(s)'
    BY <2>1, <2>5 DEF Right
  <2> QED
    BY <2>1, <2>2, <2>6, RightStep DEF RightInv
<1>11. CASE Release(s)
  <2>1. pos[s] \in Nat
    BY <1>11, AtLayer DEF Release, Shape, TypeOK, Progress, Filled, Saving
  <2> QED
    BY <1>11, <2>1, NextLayerRight DEF Release
<1> QED
  BY <1>1, <1>2, <1>3, <1>4, <1>5, <1>6, <1>7, <1>8, <1>9, <1>10, <1>11 DEF Step

LEMMA NextRight == Shape /\ RightInv /\ [Next]_vars => RightInv'
<1> USE DEF store, guards, locals
<1> SUFFICES ASSUME Shape, RightInv, [Next]_vars PROVE RightInv'
  OBVIOUS
<1>0. ASSUME UNCHANGED <<pc, locals>>, \A l \in Layers : KeysRight(labels'[l], l)
      PROVE  RightInv'
  <2>1. \A u \in Loads : Right(u)'
    BY <1>0, RightFrame DEF RightInv
  <2>2. \A l \in Layers : KeysRight(labels[l], l)'
    BY <1>0 DEF KeysRight
  <2> QED
    BY <2>1, <2>2 DEF RightInv
<1>1. ASSUME NEW s \in Loads, NEW i \in Images, Begin(s, i) PROVE RightInv'
  <2>1. Others(s) /\ pc'[s] \in {"err", "ok", "image"} /\ mods'[s] = <<>> /\ labels' = labels
    <3>1. AreFunctions
      BY ShapeFunctions
    <3>2. PICK l \in {"err", "ok", "image"} : Goto(s, l)
      BY <1>1 DEF Begin
    <3> QED
      BY <1>1, <3>1, <3>2 DEF Begin, Goto, Others, AreFunctions
  <2>2. \A k \in DOMAIN mods'[s] : FALSE
    BY <2>1, SMT
  <2>3. Right(s)'
    BY <2>1, <2>2 DEF Right, ModsRight
  <2> QED
    BY <2>1, <2>3, RightStep DEF RightInv
<1>2. ASSUME NEW s \in Loads, RequestFails(s) PROVE RightInv'
  BY <1>2, ErrorRight DEF RequestFails
<1>3. ASSUME NEW s \in Loads, Crash(s) PROVE RightInv'
  <2>1. Leave(s, "idle", <<>>) /\ labels' = labels /\ "idle" \in Returned
    BY <1>3 DEF Crash, Returned
  <2> QED
    BY <2>1, LeaveNothingRight
<1>4. CASE GC
  <2>1. \A l \in Layers : labels'[l] = labels[l] \/ labels'[l] = NoLabels
    BY <1>4 DEF GC
  <2>2. \A l \in Layers : KeysRight(NoLabels, l)
    BY DEF KeysRight, NoLabels
  <2> QED
    BY <1>0, <1>4, <2>1, <2>2 DEF GC, RightInv
<1>5. CASE \/ \E s \in Loads : DropRelease(s)
           \/ \E e \in Engines : Expire(e)
           \/ \E i \in Images : RemoveImage(i) \/ Pull(i)
           \/ UNCHANGED vars
  <2>1. UNCHANGED <<labels, pc, locals>>
    BY <1>5 DEF DropRelease, Expire, RemoveImage, Pull, vars
  <2> QED
    BY <1>0, <2>1 DEF RightInv
<1> QED
  BY <1>1, <1>2, <1>3, <1>4, <1>5, StepRight DEF Next

LEMMA InitRight == Init => RightInv
<1> SUFFICES ASSUME Init PROVE RightInv
  OBVIOUS
<1>1. \A l \in Layers : KeysRight(labels[l], l)
  <2>1. \A e \in Engines : NoLabels.key[e] = NoDigest
    BY DEF NoLabels
  <2>2. \A l \in Layers : labels[l] = NoLabels
    BY DEF Init
  <2> QED
    BY <2>1, <2>2 DEF KeysRight
<1>2. \A s \in Loads : pc[s] = "idle" /\ mods[s] = <<>>
  BY DEF Init
<1>3. \A k \in DOMAIN <<>> : FALSE
  BY SMT
<1>4. \A s \in Loads : Right(s)
  BY <1>2, <1>3 DEF Right, ModsRight
<1> QED
  BY <1>1, <1>4 DEF RightInv

\* A load only ever gets an image's own layers, or what its own engine made of
\* them, each at its place: with any number of engines that label the same
\* layers, and with every fault.
THEOREM RightModules == SafeSpec => []RightModule
<1>1. SafeSpec => []Shape
  BY InitShape, NextShape, PTL DEF SafeSpec
<1>2. SafeSpec => [](Shape /\ RightInv)
  BY <1>1, InitRight, NextRight, PTL DEF SafeSpec
<1>3. RightInv => RightModule
  BY DEF RightInv, Right, ModsRight, RightModule
<1> QED
  BY <1>2, <1>3, PTL

-----------------------------------------------------------------------------
(***************************************************************************)
(* When a load fails.  containerd has all of an image that it has, so what *)
(* a load misses is of an image that is gone.                              *)
(***************************************************************************)
Whole ==
  \A i \in tagged : /\ i \in content
                    /\ \A k \in DOMAIN LayersOf[i] : LayersOf[i][k] \in content

LEMMA TaggedIsLive ==
  ASSUME Shape, NEW i \in tagged
  PROVE  i \in Live /\ \A k \in DOMAIN LayersOf[i] : LayersOf[i][k] \in Live
<1> DEFINE roots == tagged \cup UNION {leased[e] : e \in Engines}
<1>1. i \in roots /\ i \in Images
  BY DEF Shape, TypeOK
<1>2. \A k \in DOMAIN LayersOf[i] : LayersOf[i][k] \in Refs(i)
  BY <1>1 DEF Refs
<1>3. \A k \in DOMAIN LayersOf[i] : LayersOf[i][k] \in Children(roots)
  BY <1>1, <1>2 DEF Children
<1> QED
  BY <1>1, <1>3 DEF Live

LEMMA NextWhole == Shape /\ Whole /\ [Next]_vars => Whole'
<1> SUFFICES ASSUME Shape, Whole, [Next]_vars PROVE Whole'
  OBVIOUS
<1> USE DEF store, guards, locals
<1>1. ASSUME content \subseteq content', tagged' \subseteq tagged PROVE Whole'
  BY <1>1 DEF Whole
<1>2. ASSUME NEW s \in Loads, Error(s) PROVE Whole'
  BY <1>1, <1>2 DEF Error
<1>3. CASE GC
  <2>1. content' = content \cap Live /\ tagged' = tagged
    BY <1>3 DEF GC
  <2> QED
    BY <2>1, TaggedIsLive DEF Whole
<1>4. ASSUME NEW i \in Images, Pull(i) PROVE Whole'
  <2>1. /\ tagged' = tagged \cup {i} /\ content \subseteq content' /\ i \in content'
        /\ \A k \in DOMAIN LayersOf[i] : LayersOf[i][k] \in content'
    BY <1>4 DEF Pull
  <2> QED
    BY <2>1 DEF Whole
<1>5. ASSUME NEW i \in Images, RemoveImage(i) PROVE Whole'
  BY <1>1, <1>5 DEF RemoveImage
<1>6. ASSUME NEW s \in Loads, Step(s), ~Error(s) PROVE Whole'
  <2>1. content \subseteq content' /\ tagged' = tagged
    BY <1>6 DEF Step, ImageInfo, LayerInfo, ReadContent, ReadOriginal, Push, Precompile, CreateLease,
                WriteContent, LayerGet, LayerPut, ImageGet, ImagePut, GetInfo, Release
  <2> QED
    BY <1>1, <2>1
<1>7. ASSUME NEW s \in Loads, DropRelease(s) \/ Crash(s) \/ RequestFails(s) PROVE Whole'
  BY <1>1, <1>2, <1>7 DEF DropRelease, Crash, RequestFails
<1>8. ASSUME NEW s \in Loads, NEW i \in Images, Begin(s, i) PROVE Whole'
  BY <1>1, <1>8 DEF Begin
<1>9. ASSUME NEW e \in Engines, Expire(e) PROVE Whole'
  BY <1>1, <1>9 DEF Expire
<1>10. CASE UNCHANGED vars
  BY <1>1, <1>10 DEF vars
<1> QED
  BY <1>2, <1>3, <1>4, <1>5, <1>6, <1>7, <1>8, <1>9, <1>10 DEF Next

LEMMA InitWhole == Init => Whole
<1> SUFFICES ASSUME Init, NEW i \in tagged
             PROVE  i \in content /\ \A k \in DOMAIN LayersOf[i] : LayersOf[i][k] \in content
  BY DEF Whole
<1>1. /\ i \in Images
      /\ content = Images \cup UNION {{LayersOf[j][k] : k \in DOMAIN LayersOf[j]} : j \in Images}
  BY DEF Init
<1> DEFINE Own(j) == {LayersOf[j][k] : k \in DOMAIN LayersOf[j]}
<1>2. \A k \in DOMAIN LayersOf[i] : LayersOf[i][k] \in Own(i)
  OBVIOUS
<1>3. content = Images \cup UNION {Own(j) : j \in Images}
  BY <1>1
<1> HIDE DEF Own
<1> QED
  BY <1>1, <1>2, <1>3

\* The two ways in which a load may fail.
Excused(s) ==
  \/ img'[s] \notin tagged
  \/ pc[s] = "lease" /\ lease[EngineOf[s]] # NoLoad

\* A load that misses its manifest or its layer has an image that is gone.
LEMMA MissingExcused ==
  ASSUME Shape, Whole, NEW s \in Loads, Error(s),
         \/ img[s] \notin content
         \/ pc[s] \in Reading \cup Saving /\ Layer(s) \notin content
  PROVE  Excused(s)
<1>1. img' = img
  BY DEF Error, Leave
<1>2. pc[s] \in Reading \cup Saving => pos[s] \in DOMAIN LayersOf[img[s]]
  BY DEF Shape, Progress, Filled, Saving, MyLayers
<1>3. img[s] \notin tagged
  BY <1>2 DEF Whole, Layer, MyLayers
<1> QED
  BY <1>1, <1>3 DEF Excused

LEMMA StepExcused ==
  ASSUME "engine" \notin Faults, Shape, Whole,
         NEW s \in Loads, Step(s), pc'[s] = "err"
  PROVE  Excused(s)
<1>0. AreFunctions
  BY ShapeFunctions
<1>1. \A l : Goto(s, l) => l = "err"
  BY <1>0, GotoOthers
<1>2. \A d : ~Push(s, d)
  BY <1>0, PushOthers
<1>3. \A k : ~NextLayer(s, k)
  BY <1>0, NextLayerOthers
<1>4. \A k : ~ToLayer(s, k)
  BY <1>1 DEF ToLayer
<1>5. CASE ImageInfo(s)
  BY <1>1, <1>4, <1>5, MissingExcused DEF ImageInfo
<1>6. CASE LayerInfo(s)
  BY <1>1, <1>6, MissingExcused DEF LayerInfo, Reading
<1>7. CASE ReadContent(s)
  BY <1>1, <1>2, <1>7, MissingExcused DEF ReadContent, Reading
<1>8. CASE ReadOriginal(s)
  BY <1>2, <1>8, MissingExcused DEF ReadOriginal, Reading
<1>9. CASE Precompile(s) \/ Release(s)
  BY <1>3, <1>9 DEF Precompile, Release
<1>10. CASE CreateLease(s)
  BY <1>1, <1>10 DEF CreateLease, Excused
<1>11. CASE WriteContent(s)
  BY <1>1, <1>11 DEF WriteContent
<1>12. CASE LayerGet(s)
  BY <1>1, <1>12, MissingExcused DEF LayerGet, GetInfo, Saving
<1>13. CASE LayerPut(s)
  BY <1>1, <1>13, MissingExcused DEF LayerPut, Saving
<1>14. CASE ImageGet(s)
  BY <1>1, <1>14, MissingExcused DEF ImageGet, GetInfo
<1>15. CASE ImagePut(s)
  BY <1>1, <1>15, MissingExcused DEF ImagePut
<1> QED
  BY <1>5, <1>6, <1>7, <1>8, <1>9, <1>10, <1>11, <1>12, <1>13, <1>14, <1>15 DEF Step

\* In a step of s, the other loads stay where they are.
LEMMA StepLeavesOthers ==
  ASSUME Shape, NEW s \in Loads, NEW u \in Loads \ {s},
         \/ Step(s) \/ RequestFails(s) \/ Crash(s)
         \/ \E i \in Images : Begin(s, i)
  PROVE  pc'[u] = pc[u]
<1>0. AreFunctions
  BY ShapeFunctions
<1> DEFINE Stays == pc'[u] = pc[u]
<1>1. \A l : Goto(s, l) => Stays
  BY <1>0, GotoOthers
<1>2. \A d : Push(s, d) => Stays
  BY <1>0, PushOthers DEF Others
<1>3. \A k : NextLayer(s, k) => Stays
  BY <1>0, NextLayerOthers DEF Others
<1>4. Error(s) \/ Leave(s, "ok", mods[s]) \/ Leave(s, "err", <<>>) => Stays
  BY <1>1 DEF Error, Leave
<1> HIDE DEF Stays
<1>5. Step(s) => Stays
  BY <1>1, <1>2, <1>3, <1>4
     DEF Step, ImageInfo, LayerInfo, ReadContent, ReadOriginal, Precompile, CreateLease, ToLayer,
         WriteContent, LayerGet, LayerPut, ImageGet, ImagePut, GetInfo, Release
<1>6. RequestFails(s) \/ Crash(s) => Stays
  BY <1>1, <1>4 DEF RequestFails, Crash, Leave
<1>7. \A i \in Images : Begin(s, i) => Stays
  BY <1>1 DEF Begin
<1> QED
  BY <1>5, <1>6, <1>7 DEF Stays

LEMMA NextExcused ==
  ASSUME "rpc" \notin Faults, "engine" \notin Faults, Shape, Whole, Next,
         NEW s \in Loads, pc'[s] = "err", pc[s] # "err"
  PROVE  Excused(s)
<1>0. AreFunctions
  BY ShapeFunctions
<1>1. CASE UNCHANGED pc
  BY <1>1
<1>2. CASE Step(s)
  BY <1>2, StepExcused
<1>3. ASSUME NEW i \in Images, Begin(s, i) PROVE Excused(s)
  <2>1. i \notin tagged
    BY <1>0, <1>3, GotoOthers DEF Begin
  <2>2. img'[s] = i
    BY <1>3 DEF Begin, Shape, TypeOK
  <2> QED
    BY <2>1, <2>2 DEF Excused
<1>4. CASE Crash(s)
  BY <1>0, <1>4, LeaveOthers, SMT DEF Crash
<1>5. ~RequestFails(s)
  BY DEF RequestFails
<1>6. ASSUME NEW u \in Loads, u # s,
             Step(u) \/ RequestFails(u) \/ Crash(u) \/ \E i \in Images : Begin(u, i)
      PROVE  FALSE
  BY <1>6, StepLeavesOthers
<1>7. (\E u \in Loads : DropRelease(u)) \/ (\E e \in Engines : Expire(e))
        \/ (\E i \in Images : RemoveImage(i) \/ Pull(i)) \/ GC => UNCHANGED pc
  BY DEF DropRelease, Expire, RemoveImage, Pull, GC
<1> QED
  BY <1>1, <1>2, <1>3, <1>4, <1>5, <1>6, <1>7 DEF Next

\* If requests and compilation succeed, a load fails only if its image is gone,
\* or if it finds the lease of its engine taken: with any number of engines,
\* loads and images, while shims die, images are removed and pulled again, and
\* the collector runs at any time.
THEOREM LoadsSucceed ==
  ASSUME "rpc" \notin Faults, "engine" \notin Faults
  PROVE  SafeSpec => LoadSucceeds
<1>1. SafeSpec => []Shape
  BY InitShape, NextShape, PTL DEF SafeSpec
<1>2. SafeSpec => [](Shape /\ Whole)
  BY <1>1, InitWhole, NextWhole, PTL DEF SafeSpec
<1>3. Shape /\ Whole /\ [Next]_vars =>
        [\A s \in Loads : pc'[s] = "err" /\ pc[s] # "err" =>
           \/ img'[s] \notin tagged
           \/ pc[s] = "lease" /\ lease[EngineOf[s]] # NoLoad]_vars
  BY NextExcused DEF Excused
<1> QED
  BY <1>2, <1>3, PTL DEF SafeSpec, LoadSucceeds

=============================================================================
