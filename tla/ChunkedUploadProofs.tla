------------------------- MODULE ChunkedUploadProofs -------------------------
(* Proofs about ChunkedUpload for every number of requests, chunks, contents *)
(* and faults.                                                               *)
EXTENDS ChunkedUpload, TLAPS

Appending == {"create", "record", "put", "commit"}
Holding == {"complete", "release", "store", "unlink"}

(* What a handler loaded is a prefix of the row's parts: a proper one while  *)
(* it appends, all of them while it finishes.                                *)
SnapshotsOK ==
    \A h \in Handlers :
        /\ Len(snap[h]) <= Len(parts)
        /\ \A i \in 1..Len(snap[h]) : snap[h][i] = parts[i]
        /\ pc[h] \in Appending => Len(snap[h]) < Chunks /\ chunk[h] \in Contents
        /\ pc[h] \in Appending \cup {"undo"} => h \in Requests
        /\ pc[h] \in Holding \cup {"claim"} => Len(snap[h]) = Chunks

(* The claim on finishing is exclusive, and kept for good once there is a    *)
(* DriveFile.                                                                *)
ClaimOK ==
    /\ \A h \in Handlers : pc[h] \in Holding => finishing /\ files = <<>>
    /\ \A g, h \in Handlers : pc[g] \in Holding /\ pc[h] \in Holding => g = h
    /\ files # <<>> => finishing

(* Whatever was assembled, and whatever became a file, is the whole of the   *)
(* acknowledged parts.                                                       *)
ObjectOK ==
    /\ object # <<>> => object = parts /\ Len(parts) = Chunks
    /\ files # <<>> => object # <<>> /\ files = <<parts>>

Inv == TypeOK /\ SnapshotsOK /\ ClaimOK /\ ObjectOK

-----------------------------------------------------------------------------
LEMMA ReturnType ==
    ASSUME TypeOK, NEW h \in Handlers, Return(h)
    PROVE  /\ pc' \in [Handlers -> Steps]
           /\ snap' \in [Handlers -> Seq(Contents)]
           /\ chunk' \in [Handlers -> Content]
BY DEF TypeOK, Return, Goto, Steps, Content

LEMMA GotoType ==
    ASSUME TypeOK, NEW h \in Handlers, NEW step \in Steps, Goto(h, step)
    PROVE  pc' \in [Handlers -> Steps]
BY DEF TypeOK, Goto

LEMMA FaultType ==
    ASSUME TypeOK, NEW kind, Fault(kind)
    PROVE  faults' \in 0..MaxFaults
BY UploadAssumption DEF TypeOK, Fault

LEMMA InitInv == Init => Inv
<1> SUFFICES ASSUME Init PROVE Inv
  OBVIOUS
<1> USE UploadAssumption DEF Init
<1>1. TypeOK
  <2>1. 0 \in 0..MaxFaults
    OBVIOUS
  <2>2. stored \in [1..Chunks -> Content]
    BY DEF Content
  <2>3. pc \in [Handlers -> Steps] /\ snap \in [Handlers -> Seq(Contents)]
    BY DEF Steps
  <2>4. chunk \in [Handlers -> Content]
    BY DEF Content
  <2>5. <<>> \in Seq(Contents) /\ <<>> \in Seq(Seq(Contents)) /\ Len(<<>>) = 0
    OBVIOUS
  <2>6. /\ row \in BOOLEAN /\ idSet \in BOOLEAN /\ finishing \in BOOLEAN
        /\ expired \in BOOLEAN /\ grace \in BOOLEAN
        /\ upload = "none" <=> ~ idSet
    BY Zenon
  <2>7. /\ parts \in Seq(Contents) /\ Len(parts) <= Chunks
        /\ object \in Seq(Contents) /\ files \in Seq(Seq(Contents))
    BY <2>5
  <2>8. upload \in {"none", "open", "assembled", "aborted"} /\ extra \subseteq Requests
    OBVIOUS
  <2> QED BY <2>1, <2>2, <2>3, <2>4, <2>6, <2>7, <2>8 DEF TypeOK
<1>2. SnapshotsOK
  BY DEF SnapshotsOK, Appending, Holding
<1>3. ClaimOK
  BY DEF ClaimOK, Holding
<1>4. ObjectOK
  BY DEF ObjectOK
<1> QED BY <1>1, <1>2, <1>3, <1>4 DEF Inv

-----------------------------------------------------------------------------
(* Every step keeps the type invariant. *)

LEMMA TypeStep == Inv /\ [Next]_vars => TypeOK'
<1> SUFFICES ASSUME Inv, [Next]_vars PROVE TypeOK'
  OBVIOUS
<1> USE UploadAssumption DEF Inv
<1>1. ASSUME NEW r \in Requests, NEW c \in Contents, Append_(r, c) PROVE TypeOK'
  BY <1>1, GotoType DEF Append_, TypeOK, Handlers, Content, Steps, rowVars, storageVars, Goto
<1>2. ASSUME NEW r \in Handlers, Create(r) PROVE TypeOK'
  BY <1>2, GotoType, ReturnType, FaultType
     DEF Create, TypeOK, SnapshotsOK, Appending, Steps, rowVars, localVars
<1>3. ASSUME NEW r \in Handlers, Record(r) PROVE TypeOK'
  <2>1. pc' \in [Handlers -> Steps]
    BY <1>3, GotoType DEF Record, Steps
  <2>2. /\ idSet' \in BOOLEAN
        /\ upload' \in {"none", "open", "assembled", "aborted"}
        /\ upload' = "none" <=> ~ idSet'
    <3>1. CASE idSet' = TRUE /\ upload' = "open"
      BY <3>1
    <3>2. CASE UNCHANGED <<idSet, upload>>
      BY <3>2 DEF TypeOK
    <3> QED BY <1>3, <3>1, <3>2 DEF Record
  <2>3. extra' \subseteq Requests /\ faults' \in 0..MaxFaults
    BY <1>3, FaultType DEF Record, TypeOK
  <2> QED BY <1>3, <2>1, <2>2, <2>3 DEF Record, TypeOK, localVars
<1>4. ASSUME NEW r \in Handlers, Undo(r) PROVE TypeOK'
  BY <1>4, ReturnType, FaultType DEF Undo, TypeOK, rowVars
<1>5. ASSUME NEW r \in Handlers, Put(r) PROVE TypeOK'
  BY <1>5, GotoType, ReturnType, FaultType
     DEF Put, Part, TypeOK, SnapshotsOK, Appending, Content, Steps, rowVars, localVars
<1>6. ASSUME NEW r \in Handlers, Commit(r) PROVE TypeOK'
  <2>1. parts' \in Seq(Contents) /\ Len(parts') <= Chunks
    <3>1. CASE parts' = Append(snap[r], chunk[r])
      BY <1>6, <3>1 DEF Commit, TypeOK, SnapshotsOK, Appending
    <3>2. CASE UNCHANGED parts
      BY <3>2 DEF TypeOK
    <3> QED BY <1>6, <3>1, <3>2 DEF Commit
  <2>2. faults' \in 0..MaxFaults
    BY <1>6, FaultType DEF Commit, TypeOK
  <2> QED BY <1>6, <2>1, <2>2, ReturnType DEF Commit, TypeOK, storageVars
<1>7. ASSUME NEW r \in Requests, Finish(r) PROVE TypeOK'
  BY <1>7, GotoType DEF Finish, TypeOK, Handlers, Steps, rowVars, storageVars
<1>8. ASSUME NEW r \in Handlers, Claim(r) PROVE TypeOK'
  BY <1>8, GotoType, ReturnType, FaultType DEF Claim, TypeOK, Steps, storageVars, localVars
<1>9. ASSUME NEW r \in Handlers, Complete(r) PROVE TypeOK'
  <2>1. pc' \in [Handlers -> Steps] /\ faults' \in 0..MaxFaults
    BY <1>9, GotoType, FaultType DEF Complete, Steps, TypeOK
  <2>2. /\ upload' \in {"none", "open", "assembled", "aborted"}
        /\ upload' = "none" <=> ~ idSet
        /\ object' \in Seq(Contents)
    <3>1. CASE Assemble(r)
      <4>1. stored = snap[r]
        BY <1>9, <3>1 DEF Complete, Assemble, Matches, TypeOK, SnapshotsOK, Holding
      <4> QED BY <3>1, <4>1 DEF Assemble, TypeOK
    <3>2. CASE UNCHANGED <<upload, object>>
      BY <3>2 DEF TypeOK
    <3> QED BY <1>9, <3>1, <3>2 DEF Complete
  <2> QED BY <1>9, <2>1, <2>2 DEF Complete, TypeOK, rowVars, localVars
<1>10. ASSUME NEW r \in Handlers, Release(r) PROVE TypeOK'
  BY <1>10, ReturnType, FaultType DEF Release, TypeOK, storageVars
<1>11. ASSUME NEW r \in Handlers, Store(r) PROVE TypeOK'
  <2>1. pc' \in [Handlers -> Steps]
    BY <1>11, GotoType DEF Store, Steps
  <2>2. files' \in Seq(Seq(Contents))
    <3>1. CASE files' = Append(files, object)
      <4>1. files \in Seq(Seq(Contents)) /\ object \in Seq(Contents)
        BY DEF TypeOK
      <4> QED BY <3>1, <4>1
    <3>2. CASE files' = files
      BY <3>2 DEF TypeOK
    <3> QED BY <1>11, <3>1, <3>2 DEF Store
  <2> QED BY <1>11, <2>1, <2>2 DEF Store, TypeOK, rowVars, storageVars, localVars
<1>12. ASSUME NEW r \in Handlers, Unlink(r) PROVE TypeOK'
  <2>1. pc' \in [Handlers -> Steps] /\ faults' \in 0..MaxFaults
    BY <1>12, GotoType, FaultType DEF Unlink, Steps, TypeOK
  <2>2. object' \in Seq(Contents)
    <3>1. CASE object' = <<>>
      BY <3>1
    <3>2. CASE UNCHANGED object
      BY <3>2 DEF TypeOK
    <3> QED BY <1>12, <3>1, <3>2 DEF Unlink
  <2> QED BY <1>12, <2>1, <2>2 DEF Unlink, TypeOK, rowVars, localVars
<1>13. ASSUME NEW h \in Handlers, Discard(h) PROVE TypeOK'
  BY <1>13, GotoType DEF Discard, TypeOK, Steps, rowVars, storageVars, localVars
<1>14. ASSUME NEW h \in Handlers, AbortUpload(h) PROVE TypeOK'
  BY <1>14, GotoType, ReturnType, FaultType DEF AbortUpload, TypeOK, Steps, rowVars, localVars
<1>15. ASSUME NEW h \in Handlers, Drop(h) PROVE TypeOK'
  BY <1>15, ReturnType, FaultType DEF Drop, TypeOK, storageVars
<1>16. ASSUME Expire \/ GracePasses PROVE TypeOK'
  <2>1. expired' \in BOOLEAN /\ grace' \in BOOLEAN
    BY <1>16, Zenon DEF Expire, GracePasses, TypeOK, rowVars
  <2> QED BY <1>16, <2>1 DEF Expire, GracePasses, TypeOK, rowVars, storageVars, localVars
<1>17. ASSUME NEW h \in Handlers, Crash(h) PROVE TypeOK'
  BY <1>17, GotoType, FaultType DEF Crash, TypeOK, Steps, Content, rowVars, storageVars
<1>18. ASSUME UNCHANGED vars PROVE TypeOK'
  BY <1>18 DEF vars, TypeOK
<1> QED
  BY <1>1, <1>2, <1>3, <1>4, <1>5, <1>6, <1>7, <1>8, <1>9, <1>10, <1>11, <1>12, <1>13,
     <1>14, <1>15, <1>16, <1>17, <1>18
     DEF Next, Step, AbortSession, Collect, Handlers

-----------------------------------------------------------------------------
(* Every step keeps what the handlers have loaded in agreement with the row. *)

LEMMA ReturnSnapshots ==
    ASSUME TypeOK, SnapshotsOK, NEW h \in Handlers, Return(h), UNCHANGED parts
    PROVE  SnapshotsOK'
BY DEF TypeOK, SnapshotsOK, Return, Goto, Appending, Holding

LEMMA GotoSnapshots ==
    ASSUME TypeOK, SnapshotsOK, NEW h \in Handlers, NEW step, Goto(h, step),
           UNCHANGED <<parts, snap, chunk>>,
           step \in Appending \cup {"undo"} => pc[h] \in Appending,
           step \in Holding \cup {"claim"} => pc[h] \in Holding \cup {"claim"}
    PROVE  SnapshotsOK'
BY DEF TypeOK, SnapshotsOK, Goto, Appending, Holding

LEMMA SnapshotsStep == Inv /\ [Next]_vars => SnapshotsOK'
<1> SUFFICES ASSUME Inv, [Next]_vars PROVE SnapshotsOK'
  OBVIOUS
<1> USE UploadAssumption DEF Inv
<1>1. ASSUME NEW r \in Requests, NEW c \in Contents, Append_(r, c) PROVE SnapshotsOK'
  BY <1>1 DEF Append_, Goto, TypeOK, SnapshotsOK, Handlers, Appending, Holding, rowVars
<1>2. ASSUME NEW r \in Handlers, Create(r) PROVE SnapshotsOK'
  BY <1>2, ReturnSnapshots, GotoSnapshots DEF Create, Appending, Holding, rowVars, localVars
<1>3. ASSUME NEW r \in Handlers, Record(r) PROVE SnapshotsOK'
  BY <1>3, GotoSnapshots DEF Record, Appending, Holding, localVars
<1>4. ASSUME NEW r \in Handlers, Undo(r) PROVE SnapshotsOK'
  BY <1>4, ReturnSnapshots DEF Undo, rowVars
<1>5. ASSUME NEW r \in Handlers, Put(r) PROVE SnapshotsOK'
  BY <1>5, ReturnSnapshots, GotoSnapshots DEF Put, Appending, Holding, rowVars, localVars
<1>6. ASSUME NEW r \in Handlers, Commit(r) PROVE SnapshotsOK'
  <2>1. CASE UNCHANGED parts
    BY <1>6, <2>1, ReturnSnapshots DEF Commit
  <2>2. CASE parts' = Append(snap[r], chunk[r]) /\ Len(parts) = Len(snap[r])
    <3>1. chunk[r] \in Contents /\ snap[r] \in Seq(Contents)
      BY <1>6 DEF Commit, TypeOK, SnapshotsOK, Appending
    <3>2. Len(parts') = Len(parts) + 1 /\ \A i \in 1..Len(parts) : parts'[i] = parts[i]
      BY <2>2, <3>1 DEF TypeOK, SnapshotsOK
    <3> QED
      BY <1>6, <3>2 DEF Commit, Return, Goto, TypeOK, SnapshotsOK, Appending, Holding
  <2> QED BY <1>6, <2>1, <2>2 DEF Commit
<1>7. ASSUME NEW r \in Requests, Finish(r) PROVE SnapshotsOK'
  BY <1>7 DEF Finish, Goto, TypeOK, SnapshotsOK, Handlers, Appending, Holding, rowVars
<1>8. ASSUME NEW r \in Handlers, Claim(r) PROVE SnapshotsOK'
  BY <1>8, ReturnSnapshots, GotoSnapshots DEF Claim, Appending, Holding, localVars
<1>9. ASSUME NEW r \in Handlers, Complete(r) PROVE SnapshotsOK'
  BY <1>9, GotoSnapshots DEF Complete, Appending, Holding, rowVars, localVars
<1>10. ASSUME NEW r \in Handlers, Release(r) PROVE SnapshotsOK'
  BY <1>10, ReturnSnapshots DEF Release
<1>11. ASSUME NEW r \in Handlers, Store(r) PROVE SnapshotsOK'
  BY <1>11, GotoSnapshots DEF Store, Appending, Holding, rowVars, localVars
<1>12. ASSUME NEW r \in Handlers, Unlink(r) PROVE SnapshotsOK'
  BY <1>12, GotoSnapshots DEF Unlink, Appending, Holding, rowVars, localVars
<1>13. ASSUME NEW h \in Handlers, Discard(h) PROVE SnapshotsOK'
  BY <1>13, GotoSnapshots DEF Discard, Appending, Holding, rowVars, localVars
<1>14. ASSUME NEW h \in Handlers, AbortUpload(h) PROVE SnapshotsOK'
  BY <1>14, ReturnSnapshots, GotoSnapshots
     DEF AbortUpload, Appending, Holding, rowVars, localVars
<1>15. ASSUME NEW h \in Handlers, Drop(h) PROVE SnapshotsOK'
  BY <1>15, ReturnSnapshots DEF Drop
<1>16. ASSUME Expire \/ GracePasses PROVE SnapshotsOK'
  BY <1>16 DEF Expire, GracePasses, SnapshotsOK, rowVars, localVars
<1>17. ASSUME NEW h \in Handlers, Crash(h) PROVE SnapshotsOK'
  BY <1>17 DEF Crash, Goto, TypeOK, SnapshotsOK, Appending, Holding, rowVars
<1>18. ASSUME UNCHANGED vars PROVE SnapshotsOK'
  BY <1>18 DEF vars, SnapshotsOK
<1> QED
  BY <1>1, <1>2, <1>3, <1>4, <1>5, <1>6, <1>7, <1>8, <1>9, <1>10, <1>11, <1>12, <1>13,
     <1>14, <1>15, <1>16, <1>17, <1>18
     DEF Next, Step, AbortSession, Collect, Handlers

-----------------------------------------------------------------------------
(* Every step keeps the claim exclusive. *)

LEMMA GotoClaim ==
    ASSUME TypeOK, ClaimOK, NEW h \in Handlers, NEW step, Goto(h, step),
           UNCHANGED <<finishing, files>>,
           step \in Holding => pc[h] \in Holding
    PROVE  ClaimOK'
BY DEF TypeOK, ClaimOK, Goto

LEMMA ReturnClaim ==
    ASSUME TypeOK, ClaimOK, NEW h \in Handlers, Return(h), UNCHANGED <<finishing, files>>
    PROVE  ClaimOK'
BY GotoClaim DEF Return, Holding

LEMMA ClaimStep == Inv /\ [Next]_vars => ClaimOK'
<1> SUFFICES ASSUME Inv, [Next]_vars PROVE ClaimOK'
  OBVIOUS
<1> USE DEF Inv
<1>1. ASSUME NEW r \in Requests, NEW c \in Contents, Append_(r, c) PROVE ClaimOK'
  BY <1>1, GotoClaim DEF Append_, Handlers, Holding, rowVars
<1>2. ASSUME NEW r \in Handlers, Create(r) PROVE ClaimOK'
  BY <1>2, ReturnClaim, GotoClaim DEF Create, Holding, rowVars
<1>3. ASSUME NEW r \in Handlers, Record(r) PROVE ClaimOK'
  BY <1>3, GotoClaim DEF Record, Holding
<1>4. ASSUME NEW r \in Handlers, Undo(r) PROVE ClaimOK'
  BY <1>4, ReturnClaim DEF Undo, rowVars
<1>5. ASSUME NEW r \in Handlers, Put(r) PROVE ClaimOK'
  BY <1>5, ReturnClaim, GotoClaim DEF Put, Holding, rowVars
<1>6. ASSUME NEW r \in Handlers, Commit(r) PROVE ClaimOK'
  BY <1>6, ReturnClaim DEF Commit
<1>7. ASSUME NEW r \in Requests, Finish(r) PROVE ClaimOK'
  BY <1>7, GotoClaim DEF Finish, Handlers, Holding, rowVars
<1>8. ASSUME NEW r \in Handlers, Claim(r) PROVE ClaimOK'
  <2>1. CASE UNCHANGED finishing /\ Return(r)
    BY <1>8, <2>1, ReturnClaim DEF Claim
  <2>2. CASE ~ finishing /\ finishing' = TRUE /\ Goto(r, "complete")
    BY <1>8, <2>2 DEF Claim, Goto, TypeOK, ClaimOK, Holding
  <2> QED BY <1>8, <2>1, <2>2 DEF Claim
<1>9. ASSUME NEW r \in Handlers, Complete(r) PROVE ClaimOK'
  BY <1>9, GotoClaim DEF Complete, Holding, rowVars
<1>10. ASSUME NEW r \in Handlers, Release(r) PROVE ClaimOK'
  BY <1>10 DEF Release, Return, Goto, TypeOK, ClaimOK, Holding
<1>11. ASSUME NEW r \in Handlers, Store(r) PROVE ClaimOK'
  BY <1>11 DEF Store, Goto, TypeOK, ClaimOK, Holding, rowVars
<1>12. ASSUME NEW r \in Handlers, Unlink(r) PROVE ClaimOK'
  BY <1>12, GotoClaim DEF Unlink, Holding, rowVars
<1>13. ASSUME NEW h \in Handlers, Discard(h) PROVE ClaimOK'
  BY <1>13, GotoClaim DEF Discard, Holding, rowVars
<1>14. ASSUME NEW h \in Handlers, AbortUpload(h) PROVE ClaimOK'
  BY <1>14, ReturnClaim, GotoClaim DEF AbortUpload, Holding, rowVars
<1>15. ASSUME NEW h \in Handlers, Drop(h) PROVE ClaimOK'
  BY <1>15, ReturnClaim DEF Drop
<1>16. ASSUME Expire \/ GracePasses PROVE ClaimOK'
  BY <1>16 DEF Expire, GracePasses, ClaimOK, rowVars
<1>17. ASSUME NEW h \in Handlers, Crash(h) PROVE ClaimOK'
  BY <1>17, GotoClaim DEF Crash, Holding, rowVars
<1>18. ASSUME UNCHANGED vars PROVE ClaimOK'
  BY <1>18 DEF vars, ClaimOK
<1> QED
  BY <1>1, <1>2, <1>3, <1>4, <1>5, <1>6, <1>7, <1>8, <1>9, <1>10, <1>11, <1>12, <1>13,
     <1>14, <1>15, <1>16, <1>17, <1>18
     DEF Next, Step, AbortSession, Collect, Handlers

-----------------------------------------------------------------------------
(* Every step keeps the object and the file equal to the parts.  Only four   *)
(* actions touch them.                                                       *)

LEMMA ObjectStep == Inv /\ [Next]_vars => ObjectOK'
<1> SUFFICES ASSUME Inv, [Next]_vars PROVE ObjectOK'
  OBVIOUS
<1> USE UploadAssumption DEF Inv
<1>1. ASSUME UNCHANGED <<object, files, parts>> PROVE ObjectOK'
  BY <1>1 DEF ObjectOK
<1>2. ASSUME NEW r \in Handlers, Commit(r) PROVE ObjectOK'
  <2>1. CASE UNCHANGED parts
    BY <1>1, <1>2, <2>1 DEF Commit, storageVars
  <2>2. CASE Len(parts) = Len(snap[r])
    <3>1. Len(parts) < Chunks
      BY <1>2, <2>2 DEF Commit, SnapshotsOK, Appending
    <3>2. object = <<>> /\ files = <<>>
      BY <3>1 DEF ObjectOK
    <3> QED BY <1>2, <3>2 DEF Commit, ObjectOK, storageVars
  <2> QED BY <1>2, <2>1, <2>2 DEF Commit
<1>3. ASSUME NEW r \in Handlers, Complete(r) PROVE ObjectOK'
  <2>1. CASE UNCHANGED object
    BY <1>1, <1>3, <2>1 DEF Complete, rowVars
  <2>2. CASE Assemble(r)
    <3> pc[r] \in Holding /\ files = <<>>
      BY <1>3 DEF Complete, ClaimOK, Holding
    <3>1. snap[r] \in Seq(Contents) /\ parts \in Seq(Contents) /\ Len(parts) <= Chunks
      BY DEF TypeOK
    <3>2. /\ Len(snap[r]) = Chunks /\ Len(snap[r]) <= Len(parts)
          /\ \A i \in 1..Len(snap[r]) : snap[r][i] = parts[i]
      BY DEF SnapshotsOK
    <3>3. Len(parts) = Chunks /\ \A i \in 1..Chunks : snap[r][i] = parts[i]
      BY <3>1, <3>2
    <3>4. stored = parts
      BY <2>2, <3>1, <3>3 DEF Assemble, Matches, TypeOK
    <3> QED BY <1>3, <2>2, <3>3, <3>4 DEF Complete, Assemble, ObjectOK, rowVars
  <2> QED BY <1>3, <2>1, <2>2 DEF Complete
<1>4. ASSUME NEW r \in Handlers, Store(r) PROVE ObjectOK'
  <2>1. CASE files' = files
    BY <1>1, <1>4, <2>1 DEF Store, rowVars, storageVars
  <2>2. CASE object # <<>> /\ files' = Append(files, object)
    <3>1. files = <<>> /\ object = parts
      BY <1>4, <2>2 DEF Store, ClaimOK, ObjectOK, Holding
    <3>2. files' = <<parts>>
      BY <2>2, <3>1 DEF TypeOK
    <3> QED BY <1>4, <2>2, <3>1, <3>2 DEF Store, ObjectOK, rowVars, storageVars
  <2> QED BY <1>4, <2>1, <2>2 DEF Store
<1>5. ASSUME NEW r \in Handlers, Unlink(r) PROVE ObjectOK'
  BY <1>5 DEF Unlink, ClaimOK, ObjectOK, Holding, rowVars
<1> QED
  BY <1>1, <1>2, <1>3, <1>4, <1>5
     DEF Next, Step, Append_, Create, Record, Undo, Put, Finish, Claim, Release, Discard,
         AbortSession, Collect, AbortUpload, Drop, Expire, GracePasses, Crash, rowVars,
         storageVars, vars

-----------------------------------------------------------------------------
LEMMA Invariance == Spec => []Inv
<1>1. Inv /\ [Next]_vars => Inv'
  BY TypeStep, SnapshotsStep, ClaimStep, ObjectStep DEF Inv
<1> QED BY <1>1, InitInv, PTL DEF Spec

(* The row, the storage and what the handlers hold keep their types; in      *)
(* particular no append gets past the declared number of chunks, and S3 is   *)
(* never asked to assemble anything but a whole set of parts (AppendChunk,   *)
(* CommitPart, CompleteMultipartUpload).                                     *)
THEOREM TypeCorrect == Spec => []TypeOK
<1>1. Inv => TypeOK
  BY DEF Inv
<1> QED BY <1>1, Invariance, PTL

(* Any number of concurrent, repeated and dying finishes, collectors and     *)
(* aborts make at most one DriveFile of a session, and its object stays      *)
(* (ClaimFinish, ReleaseFinish, discardChunkedObject).                       *)
THEOREM SingleFile == Spec => []OneBackedFile
<1>1. Inv => OneBackedFile
  <2> SUFFICES ASSUME Inv PROVE OneBackedFile
    OBVIOUS
  <2>1. CASE files = <<>>
    BY <2>1 DEF OneBackedFile
  <2>2. CASE files # <<>>
    <3>1. files = <<parts>> /\ object # <<>>
      BY <2>2 DEF Inv, ObjectOK
    <3>2. Len(files) = 1
      BY <3>1
    <3> QED BY <3>1, <3>2 DEF OneBackedFile
  <2> QED BY <2>1, <2>2
<1> QED BY <1>1, Invariance, PTL

(* The file holds the acknowledged chunks in order, whatever other appends   *)
(* stored in between (CommitPart and the ETags given to                      *)
(* CompleteMultipartUpload).                                                 *)
THEOREM Intact == Spec => []FileIntact
<1>1. Inv => FileIntact
  BY DEF Inv, ObjectOK, FileIntact
<1> QED BY <1>1, Invariance, PTL

(* No step takes back or exchanges an acknowledged chunk (CommitPart's WHERE *)
(* clause).                                                                  *)
THEOREM Acknowledged == Spec => AcknowledgedKept
<1> DEFINE Kept == Len(parts') >= Len(parts)
                   /\ \A i \in 1..Len(parts) : parts'[i] = parts[i]
<1>1. Inv /\ [Next]_vars => [Kept]_vars
  <2> SUFFICES ASSUME Inv, Next PROVE Kept
    OBVIOUS
  <2>1. CASE UNCHANGED parts
    BY <2>1 DEF Inv, TypeOK
  <2>2. ASSUME NEW r \in Handlers, Commit(r), ~ UNCHANGED parts PROVE Kept
    <3>1. /\ chunk[r] \in Contents /\ snap[r] \in Seq(Contents) /\ parts \in Seq(Contents)
          /\ \A i \in 1..Len(snap[r]) : snap[r][i] = parts[i]
      BY <2>2 DEF Commit, Inv, TypeOK, SnapshotsOK, Appending
    <3>2. parts' = Append(snap[r], chunk[r]) /\ Len(parts) = Len(snap[r])
      BY <2>2 DEF Commit
    <3> QED BY <3>1, <3>2
  <2> QED
    BY <2>1, <2>2
       DEF Next, Step, Append_, Create, Record, Undo, Put, Finish, Claim, Complete, Release,
           Store, Unlink, Discard, AbortSession, Collect, AbortUpload, Drop, Expire,
           GracePasses, Crash, rowVars
<1> QED BY <1>1, Invariance, PTL DEF Spec, AcknowledgedKept
=============================================================================
