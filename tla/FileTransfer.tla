---------------------------- MODULE FileTransfer ----------------------------
(***************************************************************************)
(* The transfer of one file over SFTP: FsRemote and SftpAioTransfer on the *)
(* worker thread, the jobs of TransferJobStore, and the file explorer that *)
(* asks for, cancels, resumes and discards transfers.                      *)
(*                                                                         *)
(* A file's contents is a sequence of blocks, the hash of a file is its    *)
(* contents, and a tick of the transfer copies one block.  The step that   *)
(* completes a transfer is cut where the process may die or the source may *)
(* be written by another program.  The other files a session transfers are *)
(* those that OpenFileTracker synchronises; their contents are left out.   *)
(***************************************************************************)
EXTENDS Naturals, Sequences, FiniteSets

CONSTANTS Blocks,      \* what a block of a file may hold
          Size,        \* bound: blocks of a file
          MaxEdits,    \* bound: changes of the source in a behaviour
          MaxQueue,    \* bound: operations waiting in m_pendingFsOps
          Directions,  \* directions checked: "upload", "download"
          Editable,    \* <<fileDirection, stage>> at which the source may change
          AutoResume,  \* AppSettings::autoResumeTransferAfterReconnect
          Missing,     \* no such file
          NoJob,       \* no such job
          Old          \* the block of the file that is replaced

ASSUME SizeAssumption == Size \in Nat \ {0}
ASSUME BoundAssumption == MaxEdits \in Nat /\ MaxQueue \in Nat
ASSUME AutoResumeAssumption == AutoResume \in BOOLEAN

VARIABLES
  fileDirection,  \* of the transfers of the file
  (* files, and what is on disk for them *)
  source,     \* contents of the file copied from
  final,      \* contents under the final name, or Missing
  part,       \* contents of the .filepart, or Missing
  job,        \* the job in TransferJobStore, or NoJob
  versions,   \* history: the contents the source has had
  edits,      \* history: how often the source was changed
  (* the worker *)
  online,     \* the session is connected and the remote file system open
  activeOp,   \* the operation m_fsBusy stands for, or "none"
  queue,      \* m_pendingFsOps
  stage,      \* how far the active operation is
  total,      \* m_totalSize
  done,       \* m_bytesDone
  streamed,   \* what m_running has hashed
  cancelFile, \* m_transferCancel
  reason,     \* m_lastEndReason
  lastJob,    \* m_lastInterruptedJob
  (* the explorer *)
  busy,       \* m_opInFlight
  resumable,  \* Session::m_hasResumableTransfer
  outcome     \* the last report of an operation

diskVars == <<source, final, part, job>>
editVars == <<fileDirection, versions, edits>>
opVars == <<activeOp, queue, stage>>
copyVars == <<total, done, streamed>>
endVars == <<cancelFile, reason, lastJob>>
guiVars == <<busy, resumable, outcome>>
fileVars == <<diskVars, editVars, online, opVars, copyVars, endVars, guiVars>>

Contents == UNION {[1..n -> Blocks] : n \in 0..Size}
First(n, file) == SubSeq(file, 1, n)

(* "fresh" and "resume" are asked for in the explorer, "auto" is a resume  *)
(* the session asks for after it has reconnected, "sync" another file.     *)
Ops == {"fresh", "resume", "auto", "sync"}
Resumes == {"resume", "auto"}
Stages == {"idle", "start", "begun", "verified", "copying", "removing",
           "renaming", "done"}
InTick == {"verified", "removing", "renaming"}
Reasons == {"Completed", "Canceled", "Interrupted", "HashMismatch", "Failed",
            "StallTimeout"}
Outcomes == {"none", "finished", "canceled", "interrupted", "error", "lost", "crashed"}
Jobs == [done : 1..Size, prefix : Contents]

FileInit ==
    /\ fileDirection \in Directions
    /\ source \in [1..Size -> Blocks] \cup {<<>>}
    /\ final = <<Old>> /\ part = Missing /\ job = NoJob
    /\ versions = {source} /\ edits = 0
    /\ online = TRUE
    /\ activeOp = "none" /\ queue = <<>> /\ stage = "idle"
    /\ total = 0 /\ done = 0 /\ streamed = <<>>
    /\ cancelFile = FALSE /\ reason = "Completed" /\ lastJob = NoJob
    /\ busy = FALSE /\ resumable = FALSE /\ outcome = "none"
-----------------------------------------------------------------------------
(* The explorer and the session, on the GUI thread *)

(* enqueueFsOp *)
Enqueue(op) ==
    IF activeOp = "none"
      THEN activeOp' = op /\ stage' = "start" /\ UNCHANGED queue
      ELSE /\ Len(queue) < MaxQueue
           /\ queue' = Append(queue, op)
           /\ UNCHANGED <<activeOp, stage>>

(* An upload or a download that starts with an empty .filepart.            *)
AskFresh ==
    /\ online /\ ~busy
    /\ Enqueue("fresh")
    /\ busy' = TRUE
    /\ UNCHANGED <<diskVars, editVars, online, copyVars, endVars, resumable, outcome>>

AskResume ==
    /\ online /\ ~busy /\ resumable
    /\ Enqueue("resume")
    /\ busy' = TRUE
    /\ UNCHANGED <<diskVars, editVars, online, copyVars, endVars, resumable, outcome>>

(* OpenFileTracker::flushPendingUploads: another file has been saved. *)
AskSync ==
    /\ online
    /\ Enqueue("sync")
    /\ UNCHANGED <<diskVars, editVars, online, copyVars, endVars, guiVars>>

(* The flag is set from the GUI thread, whatever the worker is doing. *)
CancelTransfer ==
    /\ online /\ busy /\ ~cancelFile
    /\ cancelFile' = TRUE
    /\ UNCHANGED <<diskVars, editVars, online, opVars, copyVars, reason, lastJob,
                   guiVars>>

(* FsRemote::discardInterruptedTransfer.  Its slot is not queued behind    *)
(* the operation that is running.                                          *)
DropJob ==
    /\ IF job = NoJob
         THEN UNCHANGED <<part, job, lastJob>>
         ELSE part' = Missing /\ job' = NoJob /\ lastJob' = NoJob
    /\ resumable' = FALSE
    /\ outcome' = "finished"

Discard ==
    /\ online /\ ~busy /\ resumable
    /\ stage \notin InTick
    /\ DropJob
    /\ UNCHANGED <<source, final, editVars, online, opVars, copyVars, cancelFile,
                   reason, busy>>

(* "Restart": the report of the discard is taken for one of the upload.    *)
AskRestart ==
    /\ online /\ ~busy /\ resumable
    /\ stage \notin InTick
    /\ DropJob
    /\ Enqueue("fresh")
    /\ UNCHANGED <<source, final, editVars, online, copyVars, cancelFile, reason, busy>>
-----------------------------------------------------------------------------
(* How an operation of the worker ends *)

(* onFsHandlerFinished: the transfer is deleted, and the next operation of *)
(* the queue is started.                                                   *)
NextOp ==
    /\ total' = 0 /\ done' = 0 /\ streamed' = <<>>
    /\ IF queue = <<>>
         THEN activeOp' = "none" /\ stage' = "idle" /\ UNCHANGED queue
         ELSE activeOp' = Head(queue) /\ stage' = "start" /\ queue' = Tail(queue)

(* Any report is taken by the explorer for one of its own operation.       *)
Report(what, again) ==
    /\ outcome' = what
    /\ resumable' = again
    /\ busy' = FALSE
    /\ NextOp

(* emitTransferFailure, for the reason and the job of that moment. *)
EmitFailure(why, left) ==
    LET again == left # NoJob IN
      CASE why = "Canceled" -> Report("canceled", again)
        [] why \in {"Interrupted", "StallTimeout"} /\ again -> Report("interrupted", TRUE)
        [] why \in {"Interrupted", "StallTimeout"} /\ ~again -> Report("error", resumable)
        [] OTHER -> Report("error", again)

(* The operation fails, and leaves no job. *)
Fails(why) ==
    /\ reason' = why
    /\ EmitFailure(why, lastJob)
    /\ UNCHANGED <<job, lastJob>>

(* The part file of a download may lose what has not been flushed.         *)
Unflushed ==
    IF fileDirection = "download" /\ part # Missing
      THEN {First(n, part) : n \in 0..Len(part)}
      ELSE {part}

(* A write that fails has perhaps written its block all the same.          *)
Written ==
    IF part # Missing /\ done < total /\ done < Len(source)
      THEN Unflushed \cup {Append(part, source[done + 1])}
      ELSE Unflushed

(* persistPartialHints: the bytes so far and the hash of as much of the    *)
(* file that is read (upload) or of the part as it is left (download).     *)
Copied(left) == IF fileDirection = "upload" THEN source ELSE left
Partial(left) ==
    IF done > 0 /\ Copied(left) # Missing /\ done <= Len(Copied(left))
      THEN [done |-> done, prefix |-> First(done, Copied(left))]
      ELSE NoJob

(* finishAsyncFileFailure: a cancel is the reason whatever went wrong.     *)
(* There is no job when its hash cannot be read; that it could not be      *)
(* saved is ignored.                                                       *)
FileFails(left, kept, failed) ==
    /\ part' = left
    /\ \/ Fails(IF cancelFile THEN "Canceled" ELSE failed)
       \/ LET why == IF cancelFile THEN "Canceled" ELSE kept IN
            /\ Partial(left) # NoJob
            /\ reason' = why
            /\ job' \in {job, Partial(left)}
            /\ lastJob' = Partial(left)
            /\ EmitFailure(why, Partial(left))
-----------------------------------------------------------------------------
(* The worker: SftpTransferIoHandler::onIdle, one tick at a time *)

At(s) == online /\ stage = s

(* startAsyncCommon and beginTransfer. *)
Reset ==
    /\ cancelFile' = FALSE
    /\ reason' = "Completed"
    /\ lastJob' = NoJob

(* Nothing was reset: the failure is reported for the reason of an earlier *)
(* transfer.  There is no job to resume, or the saved file is gone.        *)
BeginFails ==
    /\ At("start")
    /\ activeOp = "sync" \/ (activeOp \in Resumes /\ job = NoJob)
    /\ Fails(reason)
    /\ UNCHANGED <<source, final, part, editVars, online, cancelFile>>

(* The local file or directory, or a remote entry, could not be used. *)
BeginFreshFails ==
    /\ At("start") /\ activeOp = "fresh"
    /\ cancelFile' = FALSE
    /\ reason' = "Failed"
    /\ lastJob' = NoJob
    /\ Report("error", FALSE)
    /\ UNCHANGED <<diskVars, editVars, online>>

Begin ==
    /\ At("start")
    /\ activeOp \in Resumes => job # NoJob
    /\ Reset
    /\ stage' = "begun"
    /\ outcome' = "none"
    /\ UNCHANGED <<diskVars, editVars, online, activeOp, queue, copyVars, busy,
                   resumable>>

(* transferShouldStop, before the file is opened: no job is saved. *)
StopBeforeOpen ==
    /\ At("begun")
    /\ Fails(IF cancelFile THEN "Canceled" ELSE "StallTimeout")
    /\ UNCHANGED <<source, final, part, editVars, online, cancelFile>>

(* A file that could not be opened, of which nobody hears.                 *)
OpenFailsQuietly ==
    /\ At("begun") /\ activeOp # "sync"
    /\ NextOp
    /\ UNCHANGED <<diskVars, editVars, online, endVars, guiVars>>

OpenFails ==
    /\ At("begun") /\ activeOp # "sync"
    /\ Fails("Failed")
    /\ UNCHANGED <<source, final, part, editVars, online, cancelFile>>

OpenFresh ==
    /\ At("begun") /\ activeOp = "fresh" /\ ~cancelFile
    /\ part' = <<>>
    /\ total' = Len(source) /\ done' = 0 /\ streamed' = <<>>
    /\ stage' = "copying"
    /\ UNCHANGED <<source, final, job, editVars, online, activeOp, queue,
                   endVars, guiVars>>

(* What a resume checks before it goes on with the part file; an upload    *)
(* also hashes as much of the local file.                                  *)
Resumable ==
    /\ job # NoJob
    /\ job.done <= Len(source)
    /\ part # Missing /\ part = job.prefix
    /\ fileDirection = "upload" => First(job.done, source) = job.prefix

Verify ==
    /\ At("begun") /\ activeOp \in Resumes /\ ~cancelFile
    /\ Resumable
    /\ total' = Len(source) /\ done' = job.done
    /\ stage' = "verified"
    /\ UNCHANGED <<diskVars, editVars, online, activeOp, queue, streamed,
                   endVars, guiVars>>

(* feedHashFromLocal: the prefix is read again to continue its hash. *)
Feed ==
    /\ At("verified")
    /\ done <= Len(Copied(part))
    /\ streamed' = First(done, Copied(part))
    /\ stage' = "copying"
    /\ UNCHANGED <<diskVars, editVars, online, activeOp, queue, total, done,
                   endVars, guiVars>>

FeedFails ==
    /\ At("verified")
    /\ Fails("Failed")
    /\ UNCHANGED <<source, final, part, editVars, online, cancelFile>>

(* tickUploadChunk, tickDownloadChunk.  A part file removed meanwhile is   *)
(* written to all the same, under no name.                                 *)
Copy ==
    /\ At("copying") /\ activeOp # "sync" /\ ~cancelFile
    /\ done < total /\ done < Len(source)
    /\ streamed' = Append(streamed, source[done + 1])
    /\ part' = IF part = Missing THEN Missing ELSE Append(part, source[done + 1])
    /\ done' = done + 1
    /\ UNCHANGED <<source, final, job, editVars, online, opVars, total, endVars,
                   guiVars>>

(* The cancel flag or the stall timeout, looked at before every chunk. *)
Stop ==
    /\ At("copying") /\ activeOp # "sync"
    /\ \E left \in Unflushed : FileFails(left, "StallTimeout", "StallTimeout")
    /\ UNCHANGED <<source, final, editVars, online, cancelFile>>

(* A read or a write fails, locally or on the server. *)
CopyFails ==
    /\ At("copying") /\ activeOp # "sync"
    /\ \E left \in Written : FileFails(left, "Interrupted", "Failed")
    /\ UNCHANGED <<source, final, editVars, online, cancelFile>>

AllRead == done >= total \/ done >= Len(source)

(* A part that is taken for complete whatever its hash.                    *)
VerifiedBySize == done = total

(* The part is complete: the hash of what was copied is that of the whole  *)
(* local file (upload), or of the part as it can be read back (download).  *)
Verified ==
    /\ done = total
    /\ IF fileDirection = "upload" THEN streamed = source ELSE part = streamed

Finish ==
    /\ At("copying") /\ activeOp # "sync" /\ ~cancelFile
    /\ AllRead /\ Verified
    /\ stage' = "removing"
    /\ UNCHANGED <<diskVars, editVars, online, activeOp, queue, copyVars,
                   endVars, guiVars>>

(* finishUpload finds another file than the one it has copied. *)
FinishMismatch ==
    /\ At("copying") /\ activeOp # "sync" /\ ~cancelFile
    /\ AllRead /\ done = total
    /\ fileDirection = "upload" /\ streamed # source
    /\ Fails("HashMismatch")
    /\ UNCHANGED <<source, final, part, editVars, online, cancelFile>>

(* The wrong size, or a part that cannot be read back. *)
FinishFails ==
    /\ At("copying") /\ activeOp # "sync" /\ ~cancelFile
    /\ AllRead
    /\ \E left \in Unflushed :
         /\ done # total \/ (fileDirection = "download" /\ left # streamed)
         /\ FileFails(left, "Interrupted", "Failed")
    /\ UNCHANGED <<source, final, editVars, online, cancelFile>>

(* The file with the final name is removed; an upload ignores a failure.   *)
RemoveOld ==
    /\ At("removing")
    /\ \/ final' = Missing
       \/ fileDirection = "upload" /\ UNCHANGED final
    /\ stage' = "renaming"
    /\ UNCHANGED <<source, part, job, editVars, online, activeOp, queue,
                   copyVars, endVars, guiVars>>

RemoveFails ==
    /\ At("removing") /\ fileDirection = "download"
    /\ FileFails(part, "Interrupted", "Failed")
    /\ UNCHANGED <<source, final, editVars, online, cancelFile>>

Rename ==
    /\ At("renaming")
    /\ part # Missing /\ final = Missing
    /\ final' = part
    /\ part' = Missing
    /\ job' = NoJob
    /\ stage' = "done"
    /\ UNCHANGED <<source, editVars, online, activeOp, queue, copyVars, endVars,
                   guiVars>>

(* A rename whose failure is taken for a success.                          *)
RenameFailsQuietly ==
    /\ At("renaming")
    /\ job' = NoJob
    /\ stage' = "done"
    /\ UNCHANGED <<source, final, part, editVars, online, activeOp, queue,
                   copyVars, endVars, guiVars>>

RenameFails ==
    /\ At("renaming")
    /\ FileFails(part, "Interrupted", "Failed")
    /\ UNCHANGED <<source, final, editVars, online, cancelFile>>

(* The work queue of the operation is empty. *)
Done ==
    /\ At("done")
    /\ reason' = "Completed"
    /\ Report("finished", FALSE)
    /\ UNCHANGED <<diskVars, editVars, online, cancelFile, lastJob>>

(* Another file, written in place: it leaves no job. *)
SyncOpens ==
    /\ At("begun") /\ activeOp = "sync" /\ ~cancelFile
    /\ stage' = "copying"
    /\ UNCHANGED <<diskVars, editVars, online, activeOp, queue, copyVars,
                   endVars, guiVars>>

SyncEnds ==
    /\ At("copying") /\ activeOp = "sync"
    /\ \/ stage' = "done" /\ UNCHANGED <<activeOp, queue, job, copyVars, endVars, guiVars>>
       \/ \E why \in {"StallTimeout", "Failed", "HashMismatch"} :
            Fails(IF cancelFile THEN "Canceled" ELSE why) /\ UNCHANGED cancelFile
    /\ UNCHANGED <<source, final, part, editVars, online>>
-----------------------------------------------------------------------------
(* What the worker does not decide *)

(* FsRemote::close and abortAsyncTransfer: the operations end without a    *)
(* report, and the explorer is unbound from the session.                   *)
Abandon(how) ==
    /\ online' = FALSE
    /\ activeOp' = "none" /\ queue' = <<>> /\ stage' = "idle"
    /\ total' = 0 /\ done' = 0 /\ streamed' = <<>>
    /\ Reset
    /\ busy' = FALSE
    /\ outcome' = how

(* The connection is closed, or found to be lost by the I/O loop. *)
Disconnect ==
    /\ online
    /\ stage \notin InTick
    /\ Abandon("lost")
    /\ UNCHANGED <<diskVars, editVars, resumable>>

(* The process dies; what a download has not flushed dies with it. *)
Crash ==
    /\ online
    /\ Abandon("crashed")
    /\ resumable' = FALSE
    /\ IF stage = "copying" THEN part' \in Unflushed ELSE UNCHANGED part
    /\ UNCHANGED <<source, final, job, editVars>>

(* connectToHost, remoteFsOpened and tryAutoResumeTransfer. *)
Connect ==
    /\ ~online
    /\ online' = TRUE
    /\ resumable' = (job # NoJob)
    /\ IF AutoResume /\ job # NoJob
         THEN activeOp' = "auto" /\ stage' = "start"
         ELSE UNCHANGED <<activeOp, stage>>
    /\ UNCHANGED <<diskVars, editVars, queue, copyVars, endVars, busy, outcome>>

(* Another program writes the source. *)
EditSource ==
    /\ edits < MaxEdits
    /\ <<fileDirection, stage>> \in Editable
    /\ edits' = edits + 1
    /\ source' \in Contents
    /\ versions' = versions \cup {source'}
    /\ UNCHANGED <<fileDirection, final, part, job, online, opVars, copyVars,
                   endVars, guiVars>>
-----------------------------------------------------------------------------
Gui == AskFresh \/ AskResume \/ AskSync \/ AskRestart \/ CancelTransfer \/ Discard

TickFile ==
    \/ BeginFails \/ BeginFreshFails \/ Begin
    \/ StopBeforeOpen \/ OpenFails \/ OpenFresh \/ Verify \/ Feed \/ FeedFails
    \/ Copy \/ Stop \/ CopyFails
    \/ Finish \/ FinishMismatch \/ FinishFails
    \/ RemoveOld \/ RemoveFails \/ Rename \/ RenameFails \/ Done
    \/ SyncOpens \/ SyncEnds

FileNext == Gui \/ TickFile \/ Disconnect \/ Crash \/ Connect \/ EditSource

FileSpec == FileInit /\ [][FileNext]_fileVars

(* The I/O loop polls the operation, and the server answers or fails. *)
FairSpec == FileSpec /\ WF_fileVars(TickFile)
-----------------------------------------------------------------------------
(* Every variable has its type, and no transfer copies more than the size  *)
(* its source had when it was opened.                                      *)
FileTypeOK ==
    /\ fileDirection \in Directions
    /\ source \in Contents
    /\ final \in Contents \cup {Missing, <<Old>>}
    /\ part \in Contents \cup {Missing}
    /\ job \in Jobs \cup {NoJob} /\ lastJob \in Jobs \cup {NoJob}
    /\ versions \subseteq Contents /\ edits \in 0..MaxEdits
    /\ online \in BOOLEAN /\ cancelFile \in BOOLEAN
    /\ activeOp \in Ops \cup {"none"} /\ stage \in Stages
    /\ queue \in Seq(Ops) /\ Len(queue) <= MaxQueue
    /\ activeOp = "none" <=> stage = "idle"
    /\ total \in 0..Size /\ done \in 0..Size
    /\ streamed \in Contents
    /\ reason \in Reasons
    /\ busy \in BOOLEAN /\ resumable \in BOOLEAN
    /\ outcome \in Outcomes

(* What is found under the final name is a whole version of the source or  *)
(* the file that was there before: never a mixture, never a part.          *)
FinalIsAVersion == final \in versions \cup {<<Old>>, Missing}

(* A transfer of the file is reported as finished only when a version of   *)
(* the source is there under the final name.                               *)
FinishedIsThere ==
    [][stage = "done" /\ activeOp # "sync" /\ outcome' = "finished"
        => final' \in versions]_fileVars

(* A job describes the part file it belongs to. *)
Fits(j, file) == j # NoJob /\ file # Missing /\ Len(file) = j.done

(* When a transfer is reported as cancelled or interrupted with a job, the *)
(* job counts exactly what the part held before the write that failed, if  *)
(* one did, and the part still holds that, if it was not discarded.        *)
InterruptedFits ==
    [][stage = "copying" /\ activeOp # "sync" /\ outcome' \in {"canceled", "interrupted"}
        /\ lastJob' # NoJob
        => part' = Missing \/ (Fits(lastJob', part) /\ First(Len(part), part') = part)]_fileVars

(* What the explorer is told of the end of a transfer is so.               *)
ReportsAreTrue == FinishedIsThere /\ InterruptedFits

(* The explorer does not stay busy.                                        *)
BusyEnds == busy ~> ~busy

(* The next three are in no run, for they do not hold.                     *)

(* What is reported as cancelled or interrupted with a job can be resumed: *)
(* the saved job is as long as the part file.  Not when a failed write has *)
(* made the part longer, or the job could not be saved.                    *)
InterruptedIsResumable ==
    [][stage = "copying" /\ activeOp # "sync" /\ outcome' \in {"canceled", "interrupted"}
        /\ lastJob' # NoJob => part' = Missing \/ Fits(job', part')]_fileVars

(* A transfer lost with the connection can be resumed from where it was.   *)
LostIsResumable ==
    [][stage = "copying" /\ activeOp # "sync" /\ done > 0 /\ outcome' = "lost"
        => part = Missing \/ Fits(job', part')]_fileVars

(* The final name loses its file only to make room for a complete part.    *)
RemovedForComplete ==
    [][final # Missing /\ final' = Missing => part = streamed]_fileVars
=============================================================================
