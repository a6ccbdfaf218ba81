----------------------------- MODULE SaveContent -----------------------------
(***************************************************************************)
(* The write of save_content in sandbox/containerd/client.rs, which        *)
(* PrecompileCache takes as one step: Stat, chunks from where the store    *)
(* says it is, Commit, validation.  The lease keeps other loads of the     *)
(* engine out, so that one writer at a time uses the reference             *)
(* precompile-<id>; but a writer that died leaves its partial upload under *)
(* that reference, and the next one continues it, whatever it was of.      *)
(***************************************************************************)
EXTENDS Integers, FiniteSets

CONSTANTS Data,      \* the compiled layers that are saved
          Size,      \* Size[d]: data.len()
          ChunkSize, \* MAX_WRITE_CHUNK_SIZE_BYTES
          Faults     \* what may go wrong: "rpc", "crash", "store"

ASSUME SaveAssumption ==
  /\ Size \in [Data -> Nat]
  /\ ChunkSize \in Nat \ {0}
  /\ Faults \subseteq {"rpc", "crash", "store"}

VARIABLES blobs,   \* the data that the store has, complete
          parts,   \* the upload under this reference: whose bytes it consists of
          size,    \* and how many
          pc,      \* where save_content is
          data,    \* what it saves
          offset   \* its variable of that name

vars == <<blobs, parts, size, pc, data, offset>>

Returned == {"idle", "ok", "err"}

Init ==
  /\ blobs = {} /\ parts = {} /\ size = 0
  /\ pc = "idle" /\ data \in Data /\ offset = 0

Smaller(m, n) == IF m <= n THEN m ELSE n

Begin(d) ==
  /\ pc \in Returned
  /\ pc' = "stat" /\ data' = d /\ offset' = 0
  /\ UNCHANGED <<blobs, parts, size>>

\* The Stat request: AlreadyExists, or how much of an upload there is.
Stat ==
  /\ pc = "stat"
  /\ \/ /\ data \in blobs
        /\ pc' = "ok" /\ UNCHANGED offset
     \/ /\ data \notin blobs
        /\ pc' = "chunks" /\ offset' = size
  /\ UNCHANGED <<blobs, parts, size, data>>

\* A loop that leaves out what does not fill a chunk.
Chunk_whole ==
  /\ pc = "chunks" /\ offset + ChunkSize <= Size[data]
  /\ offset' = offset + ChunkSize
  /\ parts' = parts \cup {data} /\ size' = size + (offset' - offset)
  /\ UNCHANGED <<blobs, pc, data>>

\* A last chunk that is as long as the others.
Chunk_past_end ==
  /\ pc = "chunks" /\ offset < Size[data]
  /\ offset' = offset + ChunkSize
  /\ parts' = parts \cup {data} /\ size' = size + (offset' - offset)
  /\ UNCHANGED <<blobs, pc, data>>

\* A Write request with data[offset..end], which the store appends.
Chunk ==
  /\ pc = "chunks" /\ offset < Size[data]
  /\ offset' = Smaller(offset + ChunkSize, Size[data])
  /\ parts' = parts \cup {data} /\ size' = size + (offset' - offset)
  /\ UNCHANGED <<blobs, pc, data>>

\* The uploaded bytes are those of d.
Complete(d) == parts \subseteq {d} /\ size = Size[d]

\* A client that does not compare the digest of the response.
Commit_unchecked ==
  /\ pc = "chunks" /\ offset >= Size[data]
  /\ \/ /\ blobs' = blobs \cup {d \in Data : Complete(d)}
        /\ parts' = {} /\ size' = 0
        /\ pc' = IF size = Size[data] THEN "ok" ELSE "err"
     \/ /\ ~Complete(data)
        /\ pc' = "err" /\ UNCHANGED <<blobs, parts, size>>
  /\ UNCHANGED <<data, offset>>

\* The Commit request.  The store commits what it has and answers with its size
\* and digest, which are compared with those of data; or it refuses, as it may
\* if the content is not what is expected.
Commit ==
  /\ pc = "chunks" /\ offset >= Size[data]
  /\ \/ /\ blobs' = blobs \cup {d \in Data : Complete(d)}
        /\ parts' = {} /\ size' = 0
        /\ pc' = IF size = Size[data] /\ Complete(data) THEN "ok" ELSE "err"
     \/ /\ ~Complete(data)
        /\ pc' = "err" /\ UNCHANGED <<blobs, parts, size>>
  /\ UNCHANGED <<data, offset>>

\* The store has taken none, some or all of the chunk that was on its way.
Interrupted ==
  /\ pc \in {"stat", "chunks"}
  /\ \E n \in 0..ChunkSize :
       /\ size' = size + n
       /\ parts' = IF n = 0 THEN parts ELSE parts \cup {data}
       /\ n > 0 => pc = "chunks" /\ offset + n <= Size[data]
  /\ UNCHANGED <<blobs, data, offset>>

\* A request fails, or its answer does not arrive.
RequestFails == "rpc" \in Faults /\ Interrupted /\ pc' = "err"

\* The shim dies.
Crash == "crash" \in Faults /\ Interrupted /\ pc' = "idle"

\* Between two saves containerd drops an upload, or collects content.
StoreDrops ==
  /\ "store" \in Faults
  /\ pc \in Returned
  /\ parts' = {} /\ size' = 0
  /\ \E B \in SUBSET blobs : blobs' = B
  /\ pc' = "idle"
  /\ UNCHANGED <<data, offset>>

Step == Stat \/ Chunk \/ Commit

Next == (\E d \in Data : Begin(d)) \/ Step \/ RequestFails \/ Crash \/ StoreDrops

SafeSpec == Init /\ [][Next]_vars

\* A save that has begun goes on.
Spec == SafeSpec /\ WF_vars(Step)

-----------------------------------------------------------------------------
TypeOK ==
  /\ blobs \subseteq Data
  /\ parts \subseteq Data
  /\ size \in Nat
  /\ pc \in Returned \cup {"stat", "chunks"}
  /\ data \in Data
  /\ offset \in Nat

\* client.rs:243, "Client should validate that all bytes were written and that the
\* digest matches": a digest that save_content returns names content that the
\* store has, byte for byte, also when it continued an upload of something else.
SavedIsData == pc = "ok" => data \in blobs

\* client.rs:201-222: each chunk starts exactly where the store is, so no byte of
\* an upload is sent twice or left out, across any number of interruptions.
NoGap == pc = "chunks" => offset = size

\* client.rs:201 and 243-256: an upload that was cut off, within a chunk too, can
\* be completed by a later save: as long as it consists of bytes of the same data,
\* the commit succeeds, and size and digest are the expected ones.
OwnUploadCommits == [][Commit /\ parts \subseteq {data} => pc' = "ok"]_vars

\* The loop of chunks ends, from every offset that the store may answer.
SaveReturns == pc = "stat" ~> pc \in Returned

=============================================================================
