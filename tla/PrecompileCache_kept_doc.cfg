SPECIFICATION SafeSpec
CONSTANTS
  s1 = s1 s2 = s2 e1 = e1 e2 = e2 app = app l1 = l1 l2 = l2
  Loads = {s1, s2}
  Engines = {e1, e2}
  EngineOf <- TwoEngines
  Precompilers = {e1, e2}
  Images = {app}
  Layers = {l1, l2}
  LayersOf <- OneLayer
  WasmImages = {app}
  Compilable = {l1, l2}
  Faults = {}
  NoDigest = NoDigest Flag = Flag NoLoad = NoLoad Orphan = Orphan NoImage = NoImage
INVARIANTS
  KeptWithImage
