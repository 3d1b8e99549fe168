---------------------------- MODULE ChunkedUpload ----------------------------
(***************************************************************************)
(* One chunked upload session: the row of chunked_upload_session, the S3   *)
(* multipart upload it names and the requests that work on them            *)
(* (internal/core/drive/chunked_upload.go, s3_multipart.go and             *)
(* internal/repository/chunked_upload_session.go).                         *)
(*                                                                         *)
(* Every request loads the row once and then talks to storage and database *)
(* in steps; any other request, the collector of expired sessions and time *)
(* may act between two of them.  Nothing but the WHERE clauses of the      *)
(* updates and the ETags given to S3 keeps them apart.                     *)
(*                                                                         *)
(* Abstractions.  The session starts with its row (StartChunkedUpload); a  *)
(* chunk is its content, which also stands for its SHA-256 and its ETag.   *)
(* Requests that are answered from the row alone (a resent chunk, a wrong  *)
(* index or size, a refused type) change nothing and are left out, and so  *)
(* are thumbnails.  Reading the object back and Upload are one step.  The  *)
(* storage supports multipart uploads all along, an error of the database  *)
(* means that the statement had no effect, and a request whose own upload  *)
(* was left open is not used for another call.                             *)
(***************************************************************************)
EXTENDS Integers, Sequences

CONSTANTS
    Requests,     \* client requests being handled
    GC,           \* the collector's job
    Contents,     \* what a chunk may hold
    Chunks,       \* chunks of the declared size
    Faults,       \* subset of {"crash", "storage", "lost", "database"}
    MaxFaults,    \* bound
    None          \* no content

FaultKinds == {"crash", "storage", "lost", "database"}

ASSUME UploadAssumption ==
    /\ GC \notin Requests
    /\ Chunks \in Nat \ {0}
    /\ Faults \subseteq FaultKinds
    /\ MaxFaults \in Nat
    /\ None \notin Contents

Handlers == Requests \cup {GC}

VARIABLES
    row,        \* the session's row exists
    idSet,      \* its uploadId is not NULL
    parts,      \* parts; its length is receivedChunks
    finishing,
    expired,    \* expiresAt has passed
    grace,      \* finishing was set within finishGracePeriod
    upload,     \* external: the multipart upload uploadId names:
                \* "none", "open", "assembled" or "aborted"
    stored,     \* external: the content of its parts
    extra,      \* external: requests whose own new upload is open and not
                \* recorded in the row
    object,     \* external: the assembled object, or <<>>
    files,      \* contents of the DriveFiles made from it, oldest first
    pc,         \* what each handler does next
    snap,       \* the parts it loaded
    chunk,      \* the chunk it appends
    faults

rowVars == <<row, idSet, parts, finishing, grace>>
storageVars == <<upload, stored, extra, object>>
localVars == <<snap, chunk>>
vars == <<row, idSet, parts, finishing, grace, expired, upload, stored, extra, object,
          files, pc, snap, chunk, faults>>

Steps == {"idle", "create", "record", "undo", "put", "commit",
          "claim", "complete", "release", "store", "unlink",
          "abort", "drop", "dead"}

Content == Contents \cup {None}

TypeOK ==
    /\ row \in BOOLEAN /\ idSet \in BOOLEAN /\ finishing \in BOOLEAN
    /\ expired \in BOOLEAN /\ grace \in BOOLEAN
    /\ parts \in Seq(Contents) /\ Len(parts) <= Chunks
    /\ upload \in {"none", "open", "assembled", "aborted"}
    /\ upload = "none" <=> ~ idSet
    /\ stored \in [1..Chunks -> Content]
    /\ extra \subseteq Requests
    /\ object \in Seq(Contents) /\ files \in Seq(Seq(Contents))
    /\ pc \in [Handlers -> Steps]
    /\ snap \in [Handlers -> Seq(Contents)]
    /\ chunk \in [Handlers -> Content]
    /\ faults \in 0..MaxFaults

Init ==
    /\ row = TRUE /\ idSet = FALSE /\ parts = <<>> /\ finishing = FALSE
    /\ expired = FALSE /\ grace = FALSE
    /\ upload = "none" /\ stored = [i \in 1..Chunks |-> None]
    /\ extra = {} /\ object = <<>> /\ files = <<>>
    /\ pc = [h \in Handlers |-> "idle"]
    /\ snap = [h \in Handlers |-> <<>>]
    /\ chunk = [h \in Handlers |-> None]
    /\ faults = 0

Fault(kind) == kind \in Faults /\ faults < MaxFaults /\ faults' = faults + 1

Goto(h, step) == pc' = [pc EXCEPT ![h] = step]

(* The handler returns; its locals are gone. *)
Return(h) ==
    /\ Goto(h, "idle")
    /\ snap' = [snap EXCEPT ![h] = <<>>]
    /\ chunk' = [chunk EXCEPT ![h] = None]

-----------------------------------------------------------------------------
(* AppendChunk *)

(* loadOwnedSession, and the checks on the loaded row. *)
Append_(r, c) ==
    /\ pc[r] = "idle" /\ r \notin extra
    /\ row /\ ~ expired /\ Len(parts) < Chunks
    /\ snap' = [snap EXCEPT ![r] = parts]
    /\ chunk' = [chunk EXCEPT ![r] = c]
    /\ Goto(r, IF idSet THEN "put" ELSE "create")
    /\ UNCHANGED <<rowVars, expired, storageVars, files, faults>>

(* ensureMultipartUpload: CreateMultipartUpload. *)
Create(r) ==
    /\ pc[r] = "create"
    /\ \/ extra' = extra \cup {r} /\ Goto(r, "record") /\ UNCHANGED <<localVars, faults>>
       \/ extra' = extra \cup {r} /\ Return(r) /\ Fault("lost")
       \/ extra' = extra /\ Return(r) /\ Fault("storage")
    /\ UNCHANGED <<rowVars, expired, upload, stored, object, files>>

(* SetUploadID *)
Record(r) ==
    /\ pc[r] = "record"
    /\ \/ /\ row /\ ~ idSet
          /\ idSet' = TRUE /\ upload' = "open" /\ extra' = extra \ {r}
          /\ Goto(r, "put") /\ UNCHANGED faults
       \/ /\ ~ row \/ idSet
          /\ Goto(r, "undo") /\ UNCHANGED <<idSet, upload, extra, faults>>
       \/ /\ Fault("database")
          /\ Goto(r, "undo") /\ UNCHANGED <<idSet, upload, extra>>
    /\ UNCHANGED <<row, parts, finishing, grace, expired, stored, object, files, localVars>>

(* The upload that lost the race is aborted, as best as can be. *)
Undo(r) ==
    /\ pc[r] = "undo"
    /\ \/ extra' = extra \ {r} /\ UNCHANGED faults
       \/ extra' = extra /\ Fault("storage")
    /\ Return(r)
    /\ UNCHANGED <<rowVars, expired, upload, stored, object, files>>

Part(r) == Len(snap[r]) + 1

(* UploadPart: S3 keeps the last content of a part. *)
Put(r) ==
    /\ pc[r] = "put"
    /\ \/ /\ upload = "open"
          /\ stored' = [stored EXCEPT ![Part(r)] = chunk[r]]
          /\ \/ Goto(r, "commit") /\ UNCHANGED <<localVars, faults>>
             \/ Return(r) /\ Fault("lost")
       \/ upload # "open" /\ Return(r) /\ UNCHANGED <<stored, faults>>
       \/ Fault("storage") /\ Return(r) /\ UNCHANGED stored
    /\ UNCHANGED <<rowVars, expired, upload, extra, object, files>>

\* Mutant: without receivedChunks in the WHERE clause.
CommitAnyway(r) ==
    /\ pc[r] = "commit"
    /\ parts' = IF row /\ ~ finishing THEN Append(snap[r], chunk[r]) ELSE parts
    /\ Return(r)
    /\ UNCHANGED <<row, idSet, finishing, grace, expired, storageVars, files, faults>>

(* CommitPart *)
Commit(r) ==
    /\ pc[r] = "commit"
    /\ \/ /\ row /\ Len(parts) = Len(snap[r]) /\ ~ finishing
          /\ parts' = Append(snap[r], chunk[r]) /\ UNCHANGED faults
       \/ /\ ~ row \/ Len(parts) # Len(snap[r]) \/ finishing
          /\ UNCHANGED <<parts, faults>>
       \/ Fault("database") /\ UNCHANGED parts
    /\ Return(r)
    /\ UNCHANGED <<row, idSet, finishing, grace, expired, storageVars, files>>

-----------------------------------------------------------------------------
(* FinishChunkedUpload *)

Finish(r) ==
    /\ pc[r] = "idle" /\ r \notin extra
    /\ row /\ ~ expired /\ idSet /\ Len(parts) = Chunks
    /\ snap' = [snap EXCEPT ![r] = parts]
    /\ Goto(r, "claim")
    /\ UNCHANGED <<rowVars, expired, storageVars, files, chunk, faults>>

\* Mutant: without finishing in the WHERE clause.
ClaimAnyway(r) ==
    /\ pc[r] = "claim" /\ row
    /\ finishing' = TRUE /\ grace' = TRUE
    /\ Goto(r, "complete")
    /\ UNCHANGED <<row, idSet, parts, expired, storageVars, files, localVars, faults>>

(* ClaimFinish *)
Claim(r) ==
    /\ pc[r] = "claim"
    /\ \/ /\ row /\ ~ finishing
          /\ finishing' = TRUE /\ grace' = TRUE
          /\ Goto(r, "complete") /\ UNCHANGED <<localVars, faults>>
       \/ /\ ~ row \/ finishing
          /\ Return(r) /\ UNCHANGED <<finishing, grace, faults>>
       \/ Fault("database") /\ Return(r) /\ UNCHANGED <<finishing, grace>>
    /\ UNCHANGED <<row, idSet, parts, expired, storageVars, files>>

\* Mutant: the ETags are not those recorded by the appends.
MatchesAnyway(r) == \A i \in 1..Chunks : stored[i] # None

(* S3 assembles the parts only if their ETags are the ones given. *)
Matches(r) == \A i \in 1..Chunks : stored[i] = snap[r][i]

Assemble(r) ==
    /\ upload = "open" /\ Matches(r)
    /\ upload' = "assembled" /\ object' = stored

(* CompleteMultipartUpload.  S3 may or may not accept it again for an upload *)
(* it has already assembled.                                                 *)
Complete(r) ==
    /\ pc[r] = "complete"
    /\ \/ /\ Assemble(r)
          /\ \/ Goto(r, "store") /\ UNCHANGED faults
             \/ Goto(r, "release") /\ Fault("lost")
       \/ /\ upload = "assembled"
          /\ Goto(r, "store") /\ UNCHANGED <<upload, object, faults>>
       \/ /\ upload # "open" \/ ~ Matches(r)
          /\ Goto(r, "release") /\ UNCHANGED <<upload, object, faults>>
       \/ Fault("storage") /\ Goto(r, "release") /\ UNCHANGED <<upload, object>>
    /\ UNCHANGED <<rowVars, expired, stored, extra, files, localVars>>

\* Mutant: the claim of a failed finish is kept.
ReleaseNothing(r) ==
    /\ pc[r] = "release"
    /\ Return(r)
    /\ UNCHANGED <<rowVars, expired, storageVars, files, faults>>

(* ReleaseFinish *)
Release(r) ==
    /\ pc[r] = "release"
    /\ \/ finishing' = (finishing /\ ~ row) /\ UNCHANGED faults
       \/ Fault("database") /\ UNCHANGED finishing
    /\ Return(r)
    /\ UNCHANGED <<row, idSet, parts, grace, expired, storageVars, files>>

(* readBackChunkedObject and Upload: a new DriveFile, a duplicate of another *)
(* file of the user, or a refusal.                                           *)
Store(r) ==
    /\ pc[r] = "store"
    /\ \/ /\ object # <<>>
          /\ files' = Append(files, object) /\ Goto(r, "drop")
       \/ files' = files /\ Goto(r, "unlink")
    /\ UNCHANGED <<rowVars, expired, storageVars, localVars, faults>>

(* The object is not needed: discardChunkedObject, or a duplicate. *)
Unlink(r) ==
    /\ pc[r] = "unlink"
    /\ \/ object' = <<>> /\ UNCHANGED faults
       \/ Fault("storage") /\ UNCHANGED object
    /\ Goto(r, "drop")
    /\ UNCHANGED <<rowVars, expired, upload, stored, extra, files, localVars>>

-----------------------------------------------------------------------------
(* AbortChunkedUpload and GCChunkedUploads *)

(* Which way to go is decided by the loaded row. *)
Discard(h) ==
    /\ Goto(h, IF idSet THEN "abort" ELSE "drop")
    /\ UNCHANGED <<rowVars, expired, storageVars, files, localVars, faults>>

AbortSession(r) ==
    /\ pc[r] = "idle" /\ r \notin extra
    /\ row
    /\ Discard(r)

\* Mutant: a claimed session is left alone for ever.
CollectUnclaimed ==
    /\ pc[GC] = "idle"
    /\ row /\ expired /\ ~ finishing
    /\ Discard(GC)

(* ListExpired; a finish that was claimed lately is left alone. *)
Collect ==
    /\ pc[GC] = "idle"
    /\ row /\ expired /\ ~ (finishing /\ grace)
    /\ Discard(GC)

(* AbortMultipartUpload: S3 answers NoSuchUpload unless the upload is open,  *)
(* other stores accept it; after an error the row stays.                     *)
AbortUpload(h) ==
    /\ pc[h] = "abort"
    /\ \/ /\ upload = "open" /\ upload' = "aborted"
          /\ \/ Goto(h, "drop") /\ UNCHANGED <<localVars, faults>>
             \/ Return(h) /\ Fault("lost")
       \/ upload # "open" /\ Return(h) /\ UNCHANGED <<upload, faults>>
       \/ upload # "open" /\ Goto(h, "drop") /\ UNCHANGED <<upload, localVars, faults>>
       \/ Fault("storage") /\ Return(h) /\ UNCHANGED upload
    /\ UNCHANGED <<rowVars, expired, stored, extra, object, files>>

(* Delete *)
Drop(h) ==
    /\ pc[h] = "drop"
    /\ \/ row' = FALSE /\ UNCHANGED faults
       \/ Fault("database") /\ UNCHANGED row
    /\ Return(h)
    /\ UNCHANGED <<idSet, parts, finishing, grace, expired, storageVars, files>>

-----------------------------------------------------------------------------
(* Time and crashes. *)

Expire ==
    /\ ~ expired /\ expired' = TRUE
    /\ UNCHANGED <<rowVars, storageVars, files, pc, localVars, faults>>

GracePasses ==
    /\ grace /\ grace' = FALSE
    /\ UNCHANGED <<row, idSet, parts, finishing, expired, storageVars, files, pc, localVars,
                   faults>>

(* The process of a handler dies; the collector's job is run again. *)
Crash(h) ==
    /\ Fault("crash")
    /\ pc[h] \notin {"idle", "dead"}
    /\ Goto(h, IF h = GC THEN "idle" ELSE "dead")
    /\ snap' = [snap EXCEPT ![h] = <<>>]
    /\ chunk' = [chunk EXCEPT ![h] = None]
    /\ UNCHANGED <<rowVars, expired, storageVars, files>>

-----------------------------------------------------------------------------
Step(h) ==
    \/ Create(h) \/ Record(h) \/ Undo(h) \/ Put(h) \/ Commit(h)
    \/ Claim(h) \/ Complete(h) \/ Release(h) \/ Store(h) \/ Unlink(h)
    \/ AbortUpload(h) \/ Drop(h)

Next ==
    \/ \E r \in Requests :
          \/ \E c \in Contents : Append_(r, c)
          \/ Finish(r) \/ AbortSession(r)
    \/ Collect
    \/ \E h \in Handlers : Step(h) \/ Crash(h)
    \/ Expire \/ GracePasses

Spec == Init /\ [][Next]_vars

(* A handler that has not died goes on, the collector's job is run again and *)
(* again, and a client whose chunks have all arrived keeps asking to finish  *)
(* when no other request is under way.  Nobody has to append or abort.       *)
Fairness ==
    /\ \A h \in Handlers : WF_vars(Step(h))
    /\ WF_vars(Collect) /\ WF_vars(GracePasses)
    /\ \A r \in Requests : WF_vars(Finish(r))

FairSpec == Spec /\ Fairness

-----------------------------------------------------------------------------
(* Properties. *)

(* However often finish is sent, repeated or cut off, the session becomes at *)
(* most one DriveFile, and no later failure deletes that file's object.      *)
OneBackedFile ==
    /\ Len(files) <= 1
    /\ files # <<>> => object # <<>>

(* The file holds exactly the chunks that were acknowledged, although        *)
(* another append may have overwritten a part in storage after that.         *)
FileIntact == \A i \in 1..Len(files) : files[i] = parts

(* A chunk that was acknowledged is never taken back or exchanged. *)
AcknowledgedKept ==
    [][Len(parts') >= Len(parts) /\ \A i \in 1..Len(parts) : parts'[i] = parts[i]]_vars

(* The collector ends every multipart upload an expired session still names, *)
(* whatever died or failed before it.                                        *)
ExpiredFreed == expired /\ row /\ upload = "open" ~> upload # "open" \/ ~ row

(* A finish that failed can be repeated: as long as the client tries and no  *)
(* handler dies, a session does not stay unfinished whose acknowledged       *)
(* chunks are the parts in storage and whose multipart upload is open.       *)
(* Two states are left open, in which a session that has all its chunks may  *)
(* never finish.  An append that lost the commit can have overwritten the    *)
(* acknowledged part with other content; the ETags then differ for good, for *)
(* a resend is answered from the row (chunked_upload.go:422) and stores      *)
(* nothing, although the comment at :491 leaves that to the client's resync. *)
(* And an upload that was assembled, the answer lost, need not be assembled  *)
(* a second time (:613).                                                     *)
FinishRetried ==
    ~ <>[](/\ row /\ ~ expired /\ Len(parts) = Chunks /\ stored = parts
           /\ upload = "open" /\ \A h \in Handlers : pc[h] # "dead")

(* An open multipart upload can be found through the row. *)
UploadTracked == upload = "open" => row
=============================================================================
