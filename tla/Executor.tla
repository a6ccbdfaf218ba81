------------------------------- MODULE Executor -------------------------------
(***************************************************************************)
(* What a container's process runs: Executor of                            *)
(* sys/unix/container/executor.rs, which youki asks to validate and then   *)
(* to exec, with the entrypoint (container/context.rs), the search for its *)
(* file (container/path.rs), can_handle (container/engine.rs) and the      *)
(* running of the module by one of the four engines.                       *)
(*                                                                         *)
(* A file is what the code tells apart: what its first bytes are, and its  *)
(* executable bit.  Only two file names matter: arg0 as it is, and the     *)
(* path in it, which ends before a '#'.  Of a wasm binary and of what its  *)
(* guest does, only what decides the exit code is kept.                    *)
(***************************************************************************)
EXTENDS Integers, Sequences

CONSTANTS Path,   \* the directories of PATH, in order
          Cwd,    \* the working directory
          Files,  \* the files that can be at a place: [kind, exec]
          NoFile,
          MaxLayers,  \* the number of layers in an image of this instance
          MaxExports, \* and the number of exports of a component
          GuestCodes, \* the codes with which a guest may exit
          NoInner

Places == {Path[i] : i \in DOMAIN Path} \cup {Cwd}

FileKinds == {"native", "wasm", "wat", "other"}
LayerKinds == {"wasm", "compiled", "other"}

ASSUME ExecutorAssumption ==
  /\ Path \in Seq(Places) /\ MaxLayers \in Nat /\ MaxExports \in Nat
  /\ GuestCodes \subseteq Nat
  /\ Files \subseteq [kind : FileKinds, exec : BOOLEAN]
  /\ NoFile \notin Files /\ NoInner \notin {"Linux", "Wasm", "CantHandle"}

VARIABLES engine,   \* the engine of this shim
          entry,    \* the first argument of the spec's process
          layers,   \* the wasm_layers that load_modules returned
          disk,     \* disk[n][d]: the file named n in directory d
          changed,  \* a file has changed since validate
          inner,    \* the OnceCell
          result,   \* what came of the container
          outcome   \* how its wasm process has ended

vars == <<engine, entry, layers, disk, changed, inner, result, outcome>>

Engines == {"wasmtime", "wasmedge", "wasmer", "wamr"}

\* The binary was accepted, what its guest has done, and the code that is passed to
\* process::exit, of which the parent sees 8 bits.
End(l, r, c) == [loaded |-> l, ran |-> r, code |-> c % 256]
NotEnded == [loaded |-> FALSE, ran |-> [end |-> "nothing", code |-> 0], code |-> -1]

(***************************************************************************)
(* The shape of arg0, and of the path in it: empty, one component, or      *)
(* several.  Without a '#', arg0 is the path.                              *)
(***************************************************************************)
Entries ==
  {e \in [arg0 : {"none", "empty", "bare", "long"}, path : {"empty", "bare", "long"},
          func : BOOLEAN] :
     /\ e.func => e.arg0 \in {"bare", "long"}
     /\ e.path = "long" => e.arg0 = "long"
     /\ ~e.func => e.arg0 = e.path \/ (e.arg0 = "none" /\ e.path = "empty")}

Init ==
  /\ engine \in Engines
  /\ entry \in Entries
  /\ \E n \in 0..MaxLayers : layers \in [1..n -> LayerKinds]
  /\ disk \in [{"arg0", "path"} -> [Places -> Files \cup {NoFile}]]
  /\ ~entry.func => disk["arg0"] = disk["path"]
  /\ changed = FALSE
  /\ inner = NoInner
  /\ result = "none" /\ outcome = NotEnded

-----------------------------------------------------------------------------
\* resolve_in_dirs: the files that exist, by the position of their directory.  A name
\* of several components is resolved in the working directory, others are not; an
\* empty one is none.
Candidates(name, shape, dirs) ==
  LET where == CASE shape = "long" -> <<Cwd>>
                 [] shape = "bare" -> dirs
                 [] OTHER -> <<>>
  IN  [i \in {k \in DOMAIN where : disk[name][where[k]] # NoFile} |-> disk[name][where[i]]]

\* next(): the first of the candidates, or nothing.
First(found) ==
  IF DOMAIN found = {} THEN NoFile
  ELSE found[CHOOSE i \in DOMAIN found : \A j \in DOMAIN found : i <= j]

\* resolve_in_path and resolve_in_path_or_cwd.
InPath(name, shape) == Candidates(name, shape, Path)
InPathOrCwd(name, shape) == Candidates(name, shape, Path \o <<Cwd>>)

\* The first file that arg0, with its '#', names and that can be executed.
Executable ==
  LET found == InPath("arg0", entry.arg0)
  IN  First([i \in {k \in DOMAIN found : found[k].exec} |-> found[i]])

\* is_linux_container: there are no layers, and arg0 names a script or an ELF file.
IsLinux == layers = <<>> /\ Executable # NoFile /\ Executable.kind = "native"

\* File::open(&path): relative to the working directory, whatever was resolved.
Opened == IF entry.path = "empty" THEN NoFile ELSE disk["path"][Cwd]

\* Engine::can_handle without the look at the file's header.
CanHandle_unread ==
  \/ layers # <<>>
  \/ /\ First(InPathOrCwd("path", entry.path)) # NoFile
     /\ Opened # NoFile

\* Engine::can_handle.
CanHandle ==
  \/ layers # <<>>
  \/ /\ First(InPathOrCwd("path", entry.path)) # NoFile
     /\ Opened # NoFile /\ Opened.kind \in {"wasm", "wat"}

Verdict ==
  IF IsLinux THEN "Linux" ELSE IF CanHandle THEN "Wasm" ELSE "CantHandle"

\* A decision that is taken anew each time.
Inner_anew == Verdict

\* inner: decided once.
Inner == IF inner = NoInner THEN Verdict ELSE inner

-----------------------------------------------------------------------------
\* Executor::validate, which youki calls when it creates the container.
Validate ==
  /\ result = "none" /\ inner = NoInner
  /\ inner' = Inner
  /\ result' = IF inner' = "CantHandle" THEN "refused" ELSE "created"
  /\ UNCHANGED <<engine, entry, layers, disk, changed, outcome>>

\* Someone changes the container's files before it is started.
FileChanges ==
  /\ result = "created" /\ ~changed
  /\ changed' = TRUE
  /\ \E n \in {"arg0", "path"}, d \in Places, f \in Files \cup {NoFile} :
       disk' = IF entry.func THEN [disk EXCEPT ![n][d] = f]
               ELSE [m \in DOMAIN disk |-> [disk[n] EXCEPT ![d] = f]]
  /\ UNCHANGED <<engine, entry, layers, inner, result, outcome>>

\* Source::as_bytes: the kind of the bytes, or an error.
AsBytes ==
  LET file == First(InPathOrCwd("path", entry.path))
  IN  IF layers # <<>> THEN IF Len(layers) = 1 THEN layers[1] ELSE "error"
      ELSE IF file # NoFile THEN file.kind ELSE "error"

-----------------------------------------------------------------------------
(***************************************************************************)
(* The binary is run.  A call of the guest's function returns, traps,      *)
(* exits with a code, or, in a command, returns an error.                  *)
(***************************************************************************)
Binaries ==
  [component : BOOLEAN, links : BOOLEAN, func : BOOLEAN,
   exports : UNION {[1..n -> {"handler", "run", "other"}] : n \in 0..MaxExports}]
Ran(e) == [end |-> e, code |-> 0]
Calls == {Ran("returned"), Ran("trapped")} \cup [end : {"exited"}, code : GuestCodes]

\* ComponentTarget::new: the first export that is known decides.
Target(b) ==
  LET known == SelectSeq(b.exports, LAMBDA e : e # "other")
  IN  IF known = <<>> THEN "Core"
      ELSE IF Head(known) = "handler" THEN "HttpProxy" ELSE "Command"

\* Any error is a code of the guest.
IntoErrorCode_any(g) == g.code

\* into_error_code, and the 137 of Executor::exec for what is still an error.
IntoErrorCode(g) == IF g.end \in {"returned", "exited"} THEN g.code ELSE 137

Called(g) == End(TRUE, g, IntoErrorCode(g))
NotCalled == End(TRUE, Ran("nothing"), 137)

\* execute_module.
ExecuteModule(b, g) == IF b.links /\ b.func THEN {Called(g)} ELSE {NotCalled}

\* execute_component: what the target comes to, or a signal that is not the first
\* SIGINT.  Module HttpProxy has the server.
ExecuteComponent(b, g) ==
  {End(TRUE, Ran("signalled"), c) : c \in {128 + 15, 15, 2}}
    \cup (IF ~b.links THEN {NotCalled}
          ELSE CASE Target(b) = "HttpProxy" -> {End(TRUE, Ran("served"), 0), NotCalled}
                 [] Target(b) = "Command" -> {Called(g), Called(Ran("failed"))}
                 [] OTHER -> ExecuteModule(b, g))

\* WasmtimeEngineImpl::execute, of a binary and a guest.
Execute(b, g) ==
  IF b.component THEN ExecuteComponent(b, g) ELSE ExecuteModule(b, g)

\* A panic ends the process with 101 where it unwinds.  Where it aborts, as in the
\* release profile, the process is killed by SIGABRT, and its status is that signal.
Panicked == {End(TRUE, Ran("panicked"), c) : c \in {101, 6}}

\* wasmedge's run_wasi: a call that does not trap leaves its code in the WasiModule.
\* If there can be no Store for the loaded module, unwrap panics.
WasmEdge(b, g) == ExecuteModule(b, g) \cup Panicked

\* wasmer's run_wasi.  If there are no arguments at all, &args[1..] panics once the
\* module is loaded.
Wasmer(b, g) ==
  IF entry.arg0 # "none" THEN ExecuteModule(b, g) ELSE {NotCalled} \cup Panicked

\* wamr's run_wasi does not ask for the guest's code: a call of a guest that exits has
\* returned, or it has failed.
Wamr(b, g) ==
  IF ~(b.links /\ b.func) THEN {NotCalled}
  ELSE {End(TRUE, g, c) : c \in CASE g.end = "returned" -> {0}
                                  [] g.end = "trapped" -> {137}
                                  [] OTHER -> {0, 137}}

\* The bytes that an engine accepts.
Accepted == IF engine = "wasmtime" THEN {"wasm", "compiled"} ELSE {"wasm"}

\* An error before there is anything to run: the process exits with 137.
NotRun == End(FALSE, Ran("nothing"), 137)

\* run_wasi of each engine, once it has the bytes.
RunBinary(b, g) ==
  CASE engine = "wasmtime" -> Execute(b, g)
    [] engine = "wasmedge" -> WasmEdge(b, g)
    [] engine = "wasmer" -> Wasmer(b, g)
    [] OTHER -> Wamr(b, g)

\* run_wasi, of each binary and guest: how the process may end.
RunWasi ==
  IF AsBytes \notin Accepted THEN {NotRun}
  ELSE UNION {RunBinary(b, g) : b \in Binaries, g \in Calls}

\* Executor::exec.
Exec ==
  /\ result = "created"
  /\ inner' = Inner
  /\ result' = CASE inner' = "Linux" -> "linux"
                 [] inner' = "Wasm" -> "exited"
                 [] OTHER -> "refused"
  /\ outcome' \in IF inner' = "Wasm" THEN RunWasi ELSE {outcome}
  /\ UNCHANGED <<engine, entry, layers, disk, changed>>

Next == Validate \/ FileChanges \/ Exec

Spec == Init /\ [][Next]_vars

-----------------------------------------------------------------------------
\* executor.rs:105, get_or_init: what validate decided is what exec does, also if
\* files have changed; in particular a container that was created is not refused.
VerdictKept ==
  [][result = "created" => inner' = inner /\ result' # "refused"]_vars

\* The name in the entrypoint can only be a file of the working directory.
OnlyInCwd ==
  \/ entry.path = "long"
  \/ \A i \in DOMAIN Path : Path[i] = Cwd \/ disk["path"][Path[i]] = NoFile

\* engine.rs:34-44 and context.rs:59-64: the file that can_handle opens is the one
\* that as_bytes reads, so that one with a wasm header is loaded unless it is
\* changed.  This is so for an entrypoint of several components, and for a bare name
\* that no other directory of PATH has: the code opens the name as it is written, and
\* reads the first file that the search finds.
CheckedFileRuns ==
  OnlyInCwd /\ layers = <<>> /\ ~changed /\ result = "exited"
    /\ Opened # NoFile /\ Opened.kind # "wat"
    => outcome.loaded

\* executor.rs:57-61 and the run_wasi of the engines: the exit code that a task's wait
\* tells is not made up.  0 means that the guest's function has returned, that the
\* guest has exited, or that the HTTP server has stopped; an error or a trap, wherever
\* it is met between as_bytes and the call, is 137; and a guest's own code is told,
\* to 8 bits, by every engine but wamr.
CodeIsTrue ==
  result = "exited" => LET ran == outcome.ran IN
    /\ outcome.code = 0 => ran.end \in {"returned", "exited", "served"}
    /\ ran.end \in {"nothing", "trapped", "failed"} => outcome.code = 137
    /\ ran.end = "exited" /\ engine # "wamr" => outcome.code = ran.code % 256

=============================================================================
