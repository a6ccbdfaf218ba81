--------------------------- MODULE Executor_proofs ---------------------------
(***************************************************************************)
(* Proofs about Executor, for any PATH, any files and layers, any binary   *)
(* and any codes that a guest may exit with.                               *)
(***************************************************************************)
EXTENDS Executor, WellFoundedInduction, TLAPS

USE ExecutorAssumption, Zenon

-----------------------------------------------------------------------------
(* What the end of a process tells, for each engine.                         *)

LEMMA Codes ==
  /\ 137 % 256 = 137 /\ (128 + 15) % 256 = 143 /\ 15 % 256 = 15 /\ 2 % 256 = 2
  /\ 101 % 256 = 101 /\ 6 % 256 = 6 /\ 0 % 256 = 0
BY SMT

\* CodeIsTrue, of one end of the process.
Truthful(o) ==
  /\ o.code = 0 => o.ran.end \in {"returned", "exited", "served"}
  /\ o.ran.end \in {"nothing", "trapped", "failed"} => o.code = 137
  /\ o.ran.end = "exited" /\ engine # "wamr" => o.code = o.ran.code % 256

LEMMA RanEnd ==
  ASSUME NEW e
  PROVE  Ran(e).end = e /\ Ran(e).code = 0
BY SMT DEF Ran

\* A call of the guest returns, traps or exits.
LEMMA CallEnds ==
  ASSUME NEW g \in Calls
  PROVE  \/ g.end = "returned" /\ g.code = 0
         \/ g.end = "trapped"
         \/ g.end = "exited"
<1>1. CASE g = Ran("returned") \/ g = Ran("trapped")
  BY <1>1, RanEnd
<1>2. CASE g \in [end : {"exited"}, code : GuestCodes]
  BY <1>2
<1> QED
  BY <1>1, <1>2 DEF Calls

LEMMA CalledTruthful ==
  ASSUME NEW g, \/ g.end = "returned" /\ g.code = 0
                \/ g.end \in {"trapped", "failed"}
                \/ g.end = "exited"
  PROVE  Called(g).loaded = TRUE /\ Truthful(Called(g))
<1>1. /\ Called(g).loaded = TRUE /\ Called(g).ran = g
      /\ Called(g).code = IntoErrorCode(g) % 256
  BY DEF End, Called
<1>2. CASE g.end \in {"returned", "exited"}
  BY <1>1, <1>2 DEF IntoErrorCode, Truthful
<1>3. CASE g.end \in {"trapped", "failed"}
  <2>1. Called(g).code = 137
    BY <1>1, <1>3, Codes, SMT DEF IntoErrorCode
  <2>2. 137 # 0
    BY SMT
  <2> QED
    BY <1>1, <1>3, <2>1, <2>2 DEF Truthful
<1> QED
  BY <1>2, <1>3

LEMMA NotCalledTruthful == NotCalled.loaded = TRUE /\ Truthful(NotCalled)
<1>1. NotCalled.loaded = TRUE /\ NotCalled.ran.end = "nothing" /\ NotCalled.code = 137
  <2>1. /\ NotCalled.loaded = TRUE /\ NotCalled.ran = Ran("nothing")
        /\ NotCalled.code = 137 % 256
    BY DEF NotCalled, End
  <2>2. NotCalled.code = 137
    BY <2>1, Codes, SMT
  <2> QED
    BY <2>1, <2>2, RanEnd, SMT
<1>2. 137 # 0
  BY SMT
<1> QED
  BY <1>1, <1>2 DEF Truthful

LEMMA ModuleTruthful ==
  ASSUME NEW b, NEW g \in Calls, NEW o \in ExecuteModule(b, g)
  PROVE  o.loaded = TRUE /\ Truthful(o)
<1>1. o = Called(g) \/ o = NotCalled
  BY DEF ExecuteModule
<1> QED
  BY <1>1, CallEnds, CalledTruthful, NotCalledTruthful

LEMMA ComponentTruthful ==
  ASSUME NEW b, NEW g \in Calls, NEW o \in ExecuteComponent(b, g)
  PROVE  o.loaded = TRUE /\ Truthful(o)
<1>1. CASE \E c \in {128 + 15, 15, 2} : o = End(TRUE, Ran("signalled"), c)
  <2> PICK c \in {128 + 15, 15, 2} : o = End(TRUE, Ran("signalled"), c)
    BY <1>1
  <2>1. o.loaded = TRUE /\ o.ran.end = "signalled" /\ o.code = c % 256
    BY RanEnd DEF End
  <2>2. c % 256 # 0
    BY SMT
  <2> QED
    BY <2>1, <2>2 DEF Truthful
<1>2. CASE o = End(TRUE, Ran("served"), 0)
  <2>1. o.loaded = TRUE /\ o.ran.end = "served"
    BY <1>2, RanEnd DEF End
  <2> QED
    BY <2>1 DEF Truthful
<1>3. CASE o = NotCalled \/ o = Called(g) \/ o = Called(Ran("failed"))
  BY <1>3, CallEnds, RanEnd, CalledTruthful, NotCalledTruthful
<1>4. CASE o \in ExecuteModule(b, g)
  BY <1>4, ModuleTruthful
<1> QED
  BY <1>1, <1>2, <1>3, <1>4 DEF ExecuteComponent

LEMMA PanickedTruthful ==
  ASSUME NEW o \in Panicked
  PROVE  o.loaded = TRUE /\ Truthful(o)
<1> PICK c \in {101, 6} : o = End(TRUE, Ran("panicked"), c)
  BY DEF Panicked
<1>1. o.loaded = TRUE /\ o.ran.end = "panicked" /\ o.code = c % 256
  BY RanEnd DEF End
<1>2. c % 256 # 0
  BY SMT
<1> QED
  BY <1>1, <1>2 DEF Truthful

LEMMA WasmerTruthful ==
  ASSUME NEW b, NEW g \in Calls, NEW o \in Wasmer(b, g)
  PROVE  o.loaded = TRUE /\ Truthful(o)
BY ModuleTruthful, NotCalledTruthful, PanickedTruthful DEF Wasmer

LEMMA WamrTruthful ==
  ASSUME NEW b, NEW g \in Calls, NEW o \in Wamr(b, g), engine = "wamr"
  PROVE  o.loaded = TRUE /\ Truthful(o)
<1>1. CASE o = NotCalled
  BY <1>1, NotCalledTruthful
<1>2. ASSUME NEW c, o = End(TRUE, g, c),
             \/ g.end = "returned"
             \/ g.end = "trapped" /\ c = 137
             \/ g.end = "exited"
      PROVE  o.loaded = TRUE /\ Truthful(o)
  <2>1. o.loaded = TRUE /\ o.ran = g /\ o.code = c % 256
    BY <1>2 DEF End
  <2>2. 137 # 0
    BY SMT
  <2> QED
    <3>1. CASE g.end = "trapped"
      <4>1. o.code = 137
        <5>1. c = 137
          BY <1>2, <3>1
        <5> QED
          BY <2>1, <5>1, Codes, SMT
      <4> QED
        BY <2>1, <2>2, <3>1, <4>1 DEF Truthful
    <3>2. CASE g.end \in {"returned", "exited"}
      BY <2>1, <3>2 DEF Truthful
    <3> QED
      BY <1>2, <3>1, <3>2
<1>3. CASE o # NotCalled
  <2> DEFINE told == CASE g.end = "returned" -> {0}
                       [] g.end = "trapped" -> {137}
                       [] OTHER -> {0, 137}
  <2>1. o \in {End(TRUE, g, c) : c \in told}
    BY <1>3 DEF Wamr
  <2>2. PICK c \in told : o = End(TRUE, g, c)
    BY <2>1
  <2>3. g.end = "trapped" => c = 137
    BY <2>2
  <2> QED
    BY <1>2, <2>2, <2>3, CallEnds
<1> QED
  BY <1>1, <1>3

LEMMA RunTruthful ==
  ASSUME engine \in Engines, NEW o \in RunWasi
  PROVE  (AsBytes \in Accepted => o.loaded = TRUE) /\ Truthful(o)
<1>1. CASE AsBytes \notin Accepted
  <2>1. o = NotRun
    BY <1>1, SMT DEF RunWasi
  <2>2. o.ran.end = "nothing" /\ o.code = 137
    <3>1. o.ran = Ran("nothing") /\ o.code = 137 % 256
      BY <2>1 DEF NotRun, End
    <3> QED
      BY <3>1, RanEnd, Codes, SMT
  <2>3. 137 # 0
    BY SMT
  <2> QED
    BY <1>1, <2>2, <2>3 DEF Truthful
<1>2. CASE AsBytes \in Accepted
  <2>1. PICK b \in Binaries, g \in Calls : o \in RunBinary(b, g)
    BY <1>2, SMT DEF RunWasi
  <2>2. CASE engine = "wasmtime"
    BY <1>2, <2>1, <2>2, ModuleTruthful, ComponentTruthful DEF RunBinary, Execute
  <2>3. CASE engine = "wasmedge"
    BY <1>2, <2>1, <2>3, ModuleTruthful, PanickedTruthful DEF RunBinary, WasmEdge
  <2>4. CASE engine = "wasmer"
    BY <1>2, <2>1, <2>4, WasmerTruthful DEF RunBinary
  <2>5. CASE engine = "wamr"
    BY <1>2, <2>1, <2>5, WamrTruthful DEF RunBinary
  <2> QED
    BY <2>2, <2>3, <2>4, <2>5 DEF Engines
<1> QED
  BY <1>1, <1>2

-----------------------------------------------------------------------------
(* The inductive invariant.                                                  *)

\* The decision is the one that would be taken again while no file has changed, and
\* what came of the container follows from it.
Inv ==
  /\ engine \in Engines
  /\ result \in {"none", "created", "refused", "linux", "exited"}
  /\ inner \in {NoInner, "Linux", "Wasm", "CantHandle"}
  /\ inner = NoInner <=> result = "none"
  /\ result = "created" => inner # "CantHandle"
  /\ result = "linux" => inner = "Linux"
  /\ result = "exited" => inner = "Wasm"
  /\ inner # NoInner /\ ~changed => inner = Verdict
  /\ result = "exited" => (AsBytes \in Accepted => outcome.loaded = TRUE) /\ Truthful(outcome)

LEMMA VerdictKinds == Verdict \in {"Linux", "Wasm", "CantHandle"} /\ Verdict # NoInner
BY DEF Verdict

\* Nothing that a decision or a binary is read from changes.
LEMMA SameReads ==
  ASSUME UNCHANGED <<engine, entry, layers, disk>>
  PROVE  /\ Verdict' = Verdict /\ AsBytes' = AsBytes /\ Accepted' = Accepted
         /\ \A o : Truthful(o)' <=> Truthful(o)
<1>1. /\ First(InPathOrCwd("path", entry.path))' = First(InPathOrCwd("path", entry.path))
      /\ Executable' = Executable
  BY SMT DEF Executable, First, InPath, InPathOrCwd, Candidates
<1>2. Verdict' = Verdict
  BY <1>1 DEF Verdict, IsLinux, CanHandle, Opened
<1>3. AsBytes' = AsBytes /\ Accepted' = Accepted
  BY <1>1 DEF AsBytes, Accepted
<1> QED
  BY <1>2, <1>3 DEF Truthful

LEMMA Invariance == Spec => []Inv
<1>1. Init => Inv
  BY DEF Init, Inv
<1>2. Inv /\ [Next]_vars => Inv'
  <2> SUFFICES ASSUME Inv, [Next]_vars PROVE Inv'
    OBVIOUS
  <2>1. CASE Validate
    <3>1. inner' = Verdict /\ result' = IF inner' = "CantHandle" THEN "refused" ELSE "created"
      BY <2>1 DEF Validate, Inner
    <3>2. /\ UNCHANGED <<engine, entry, layers, disk, changed, outcome>>
          /\ Verdict' = Verdict
      BY <2>1, SameReads DEF Validate
    <3> QED
      BY <3>1, <3>2, VerdictKinds DEF Inv
  <2>2. CASE FileChanges
    <3>1. /\ result = "created" /\ changed' = TRUE
          /\ UNCHANGED <<engine, entry, layers, inner, result, outcome>>
      BY <2>2 DEF FileChanges
    <3> QED
      BY <3>1 DEF Inv
  <2>3. CASE Exec
    <3>1. /\ result = "created" /\ inner' = inner /\ inner \in {"Linux", "Wasm"}
          /\ UNCHANGED <<engine, entry, layers, disk, changed>>
      BY <2>3 DEF Exec, Inner, Inv
    <3>2. /\ Verdict' = Verdict /\ AsBytes' = AsBytes /\ Accepted' = Accepted
          /\ \A o : Truthful(o)' <=> Truthful(o)
      BY <3>1, SameReads
    <3>3. CASE inner = "Linux"
      <4>1. result' = "linux"
        BY <2>3, <3>1, <3>3 DEF Exec
      <4> QED
        BY <3>1, <3>2, <3>3, <4>1 DEF Inv
    <3>4. CASE inner = "Wasm"
      <4>1. result' = "exited" /\ outcome' \in RunWasi
        BY <2>3, <3>1, <3>4 DEF Exec
      <4>2. (AsBytes \in Accepted => outcome'.loaded = TRUE) /\ Truthful(outcome')
        BY <4>1, RunTruthful DEF Inv
      <4>3. Truthful(outcome)'
        BY <3>1, <4>2 DEF Truthful
      <4> QED
        BY <3>1, <3>2, <3>4, <4>1, <4>2, <4>3 DEF Inv
    <3> QED
      BY <3>1, <3>3, <3>4
  <2>4. CASE UNCHANGED vars
    <3>1. UNCHANGED <<engine, entry, layers, disk, changed, inner, result, outcome>>
      BY <2>4 DEF vars
    <3>2. /\ Verdict' = Verdict /\ AsBytes' = AsBytes /\ Accepted' = Accepted
          /\ Truthful(outcome)' <=> Truthful(outcome)
      BY <3>1, SameReads DEF Truthful
    <3> QED
      BY <3>1, <3>2 DEF Inv
  <2> QED
    BY <2>1, <2>2, <2>3, <2>4 DEF Next
<1> QED
  BY <1>1, <1>2, PTL DEF Spec

\* executor.rs:105: exec does what validate decided, whatever has become of the files
\* in between.
THEOREM DecidedOnce == Spec => VerdictKept
<1>1. Inv /\ [Next]_vars
        => [result = "created" => inner' = inner /\ result' # "refused"]_vars
  <2> SUFFICES ASSUME Inv, [Next]_vars, result = "created"
               PROVE  (inner' = inner /\ result' # "refused") \/ UNCHANGED vars
    OBVIOUS
  <2>1. CASE Exec
    <3>1. inner' = inner /\ inner \in {"Linux", "Wasm"}
      BY <2>1 DEF Exec, Inner, Inv
    <3> QED
      BY <2>1, <3>1 DEF Exec
  <2> QED
    BY <2>1 DEF Next, Validate, FileChanges
<1> QED
  BY <1>1, Invariance, PTL DEF Spec, VerdictKept

\* A set of natural numbers that is not empty has a least element.
LEMMA LeastOf ==
  ASSUME NEW S, S \subseteq Nat, S # {}
  PROVE  \E i \in S : \A j \in S : i <= j
<1> DEFINE R == {p \in Nat \X Nat : p[1] < p[2]}
<1>1. IsWellFoundedOn(R, Nat)
  BY NatLessThanWellFounded DEF OpToRel
<1> HIDE DEF R
<1>2. PICK i \in S : \A j \in S : ~(<<j, i>> \in R)
  BY <1>1, WFMin
<1>3. ASSUME NEW j \in S PROVE i <= j
  <2>1. i \in Nat /\ j \in Nat /\ ~(j < i) => i <= j
    BY SMT
  <2>2. i \in Nat /\ j \in Nat /\ ~(j < i)
    BY <1>2 DEF R
  <2> QED
    BY <2>1, <2>2
<1> QED
  BY <1>3

\* context.rs:59-72: what is found for a name that only the working directory can
\* have is the file there.
LEMMA FoundInCwd ==
  ASSUME OnlyInCwd, First(InPathOrCwd("path", entry.path)) # NoFile
  PROVE  First(InPathOrCwd("path", entry.path)) = disk["path"][Cwd]
<1> DEFINE found == InPathOrCwd("path", entry.path)
           where == CASE entry.path = "long" -> <<Cwd>>
                      [] entry.path = "bare" -> Path \o <<Cwd>>
                      [] OTHER -> <<>>
           S == {k \in DOMAIN where : disk["path"][where[k]] # NoFile}
<1>1. found = [i \in S |-> disk["path"][where[i]]]
  BY DEF InPathOrCwd, Candidates
<1>2. DOMAIN found = S /\ \A i \in S : found[i] = disk["path"][where[i]]
  BY <1>1
<1>3. S # {}
  BY <1>2 DEF First
<1>4. S \subseteq Nat /\ \A i \in S : where[i] = Cwd
  <2>1. CASE entry.path = "long"
    <3>1. where = <<Cwd>>
      BY <2>1
    <3> HIDE DEF where
    <3> QED
      BY <3>1, SMT
  <2>2. CASE entry.path = "bare"
    <3>1. where = Path \o <<Cwd>>
      BY <2>2
    <3>2. \A i \in DOMAIN Path : Path[i] = Cwd \/ disk["path"][Path[i]] = NoFile
      BY <2>2 DEF OnlyInCwd
    <3> HIDE DEF where
    <3>3. DOMAIN where = 1..(Len(Path) + 1) /\ DOMAIN Path = 1..Len(Path) /\ Len(Path) \in Nat
      BY <3>1, SMT
    <3>4. ASSUME NEW i \in S PROVE i \in Nat /\ where[i] = Cwd
      <4>1. CASE i \in DOMAIN Path
        BY <3>1, <3>2, <3>3, <3>4, <4>1, SMT
      <4>2. CASE i \notin DOMAIN Path
        BY <3>1, <3>3, <3>4, <4>2, SMT
      <4> QED
        BY <4>1, <4>2
    <3> QED
      BY <3>4
  <2>3. CASE entry.path \notin {"long", "bare"}
    <3>1. where = <<>>
      BY <2>3
    <3> HIDE DEF where
    <3> QED
      BY <3>1, SMT
  <2> QED
    BY <2>1, <2>2, <2>3
<1> HIDE DEF S, found
<1>5. (CHOOSE i \in S : \A j \in S : i <= j) \in S
  BY <1>3, <1>4, LeastOf
<1> QED
  BY <1>2, <1>3, <1>4, <1>5 DEF First, found

\* engine.rs:34-44 and context.rs:59-64: for an entrypoint of several components, or a
\* bare name that no other directory of PATH has, the wasm file that can_handle has
\* looked at is the one that is loaded, unless it is changed.
THEOREM CheckedIsRun == Spec => []CheckedFileRuns
<1>1. Inv => CheckedFileRuns
  <2> SUFFICES ASSUME Inv, OnlyInCwd, layers = <<>>, ~changed, result = "exited",
                      Opened # NoFile, Opened.kind # "wat"
               PROVE  outcome.loaded
    BY DEF CheckedFileRuns
  <2>1. Verdict = "Wasm"
    BY DEF Inv
  <2>2. CanHandle
    BY <2>1 DEF Verdict
  <2>3. /\ First(InPathOrCwd("path", entry.path)) # NoFile
        /\ Opened.kind = "wasm" /\ Opened = disk["path"][Cwd]
    BY <2>2 DEF CanHandle, Opened
  <2>4. First(InPathOrCwd("path", entry.path)) = Opened
    BY <2>3, FoundInCwd
  <2>5. AsBytes = "wasm"
    BY <2>3, <2>4 DEF AsBytes
  <2>6. "wasm" \in Accepted
    BY DEF Accepted
  <2> QED
    BY <2>5, <2>6 DEF Inv
<1> QED
  BY <1>1, Invariance, PTL

\* executor.rs:57-61: 0 is told of nothing that has failed, a failure is 137, and the code of
\* a guest is told to 8 bits by every engine but wamr.
THEOREM CodesAreTrue == Spec => []CodeIsTrue
<1>1. Inv => CodeIsTrue
  BY DEF Inv, CodeIsTrue, Truthful
<1> QED
  BY <1>1, Invariance, PTL

=============================================================================
