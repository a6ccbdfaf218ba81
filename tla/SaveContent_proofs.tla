-------------------------- MODULE SaveContent_proofs --------------------------
(***************************************************************************)
(* Proofs about SaveContent, for every set of contents, every size of each *)
(* of them and every chunk size.                                           *)
(***************************************************************************)
EXTENDS SaveContent, TLAPS

\* Each of the three is preserved by itself, given the types.
Inv == TypeOK /\ NoGap /\ SavedIsData

LEMMA InvStep == Inv /\ [Next]_vars => Inv'
<1> USE SaveAssumption DEF Inv, TypeOK, NoGap, SavedIsData, Returned
<1> SUFFICES ASSUME Inv, [Next]_vars PROVE Inv'
  OBVIOUS
<1>1. ASSUME NEW d \in Data, Begin(d) PROVE Inv'
  BY <1>1 DEF Begin
<1>2. CASE Stat
  BY <1>2 DEF Stat
<1>3. CASE Chunk
  <2>1. Size[data] \in Nat
    OBVIOUS
  <2>2. offset' \in Nat /\ offset' >= offset
    BY <1>3, <2>1 DEF Chunk, Smaller
  <2> QED
    BY <1>3, <2>1, <2>2 DEF Chunk
<1>4. CASE Commit
  BY <1>4 DEF Commit, Complete
<1>5. CASE Interrupted /\ pc' \in {"err", "idle"}
  BY <1>5 DEF Interrupted
<1>6. CASE StoreDrops
  BY <1>6 DEF StoreDrops
<1>7. CASE UNCHANGED vars
  BY <1>7 DEF vars
<1> QED
  BY <1>1, <1>2, <1>3, <1>4, <1>5, <1>6, <1>7 DEF Next, Step, RequestFails, Crash

LEMMA Invariance == SafeSpec => []Inv
<1>1. Init => Inv
  BY SaveAssumption DEF Init, Inv, TypeOK, NoGap, SavedIsData, Returned
<1> QED
  BY <1>1, InvStep, PTL DEF SafeSpec

\* The variables of save_content and of the store keep their types.
THEOREM TypeCorrect == SafeSpec => []TypeOK
  BY Invariance, PTL DEF Inv

\* Whatever upload save_content continues, and whatever the chunk size: a digest
\* that it returns is that of content the store has.
THEOREM Saved == SafeSpec => []SavedIsData
  BY Invariance, PTL DEF Inv

\* Every chunk starts where the store is, for every size and chunk size.
THEOREM ChunksMeet == SafeSpec => []NoGap
  BY Invariance, PTL DEF Inv

-----------------------------------------------------------------------------
\* An upload with nobody else's bytes has not too many.
Resumable == \A d \in Data : parts \subseteq {d} => size <= Size[d]

LEMMA ResumableStep == Inv /\ Resumable /\ [Next]_vars => Resumable'
<1> USE SaveAssumption DEF Inv, TypeOK, NoGap
<1> SUFFICES ASSUME Inv, Resumable, [Next]_vars, NEW d \in Data, parts' \subseteq {d}
             PROVE  size' <= Size[d]
  BY DEF Resumable
<1>0. Size[data] \in Nat /\ Size[d] \in Nat /\ size \in Nat /\ offset \in Nat
  OBVIOUS
<1>1. CASE UNCHANGED <<parts, size>>
  BY <1>1 DEF Resumable
<1>2. CASE Chunk
  <2>1. d = data /\ offset' <= Size[data] /\ offset' \in Nat
    BY <1>0, <1>2 DEF Chunk, Smaller
  <2> QED
    BY <1>0, <1>2, <2>1 DEF Chunk
<1>3. CASE size' = 0
  BY <1>0, <1>3
<1>4. CASE Interrupted
  <2>1. PICK n \in 0..ChunkSize :
          /\ size' = size + n
          /\ parts' = IF n = 0 THEN parts ELSE parts \cup {data}
          /\ n > 0 => pc = "chunks" /\ offset + n <= Size[data]
    BY <1>4 DEF Interrupted
  <2>2. CASE n = 0
    BY <1>0, <2>1, <2>2 DEF Resumable
  <2>3. CASE n # 0
    <3>1. d = data /\ n > 0
      BY <2>1, <2>3
    <3> QED
      BY <1>0, <2>1, <3>1
  <2> QED
    BY <2>2, <2>3
<1>5. CASE Commit
  BY <1>1, <1>3, <1>5 DEF Commit
<1> QED
  BY <1>1, <1>2, <1>3, <1>4, <1>5
     DEF Next, Step, Begin, Stat, RequestFails, Crash, StoreDrops, vars

\* Whatever else was saved under the reference and wherever saves were cut off: an
\* upload that consists of the bytes of one content is committed.
THEOREM RetriesSucceed == SafeSpec => OwnUploadCommits
<1>1. Init => Resumable
  BY SaveAssumption DEF Init, Resumable
<1>2. Inv /\ Resumable /\ [Next]_vars => [Commit /\ parts \subseteq {data} => pc' = "ok"]_vars
  <2> SUFFICES ASSUME Inv, Resumable, Commit, parts \subseteq {data} PROVE pc' = "ok"
    OBVIOUS
  <2>1. size <= Size[data] /\ offset = size /\ offset >= Size[data]
    BY DEF Commit, Resumable, Inv, TypeOK, NoGap
  <2>2. size = Size[data]
    BY <2>1, SaveAssumption DEF Inv, TypeOK
  <2> QED
    BY <2>2 DEF Commit, Complete
<1> QED
  BY <1>1, <1>2, ResumableStep, Invariance, PTL DEF SafeSpec, OwnUploadCommits

=============================================================================
