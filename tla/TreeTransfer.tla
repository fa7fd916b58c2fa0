---------------------------- MODULE TreeTransfer ----------------------------
(***************************************************************************)
(* FsRemote's asynchronous transfer of files and folders: the I/O loop     *)
(* ticks it, a tick takes one item off a work queue or a few chunks of the *)
(* file in flight (FileTransfer and ScpChunkTransfer have these), and the  *)
(* GUI thread sets the cancel and interrupt flags between any two.         *)
(***************************************************************************)
EXTENDS Naturals, Sequences, FiniteSets, SequencesExt

CONSTANTS Nodes, Children, Kind,
          NoNode,
          Selections,  \* the entries the user selects, in order
          MaxJobs      \* interrupted files kept at once, the bound of the model

\* The entries a walk from n may come to.
Closed(S) == \A n \in S : ToSet(Children[n]) \subseteq S
Reach(n) == {m \in Nodes : \A S \in SUBSET Nodes : n \in S /\ Closed(S) => m \in S}
Apart(s) == \A i, j \in DOMAIN s : i # j => Reach(s[i]) \intersect Reach(s[j]) = {}

\* A folder is not below itself and no entry is in two folders; what is selected
\* in one listing is not below anything else that is selected.
ASSUME TreeAssumption ==
  /\ Children \in [Nodes -> Seq(Nodes)]
  /\ Kind \in [Nodes -> {"dir", "file", "link", "dirLink", "part"}]
  /\ \A n \in Nodes : Apart(Children[n]) /\ \A i \in DOMAIN Children[n] : n \notin Reach(Children[n][i])
ASSUME SelectionAssumption ==
  /\ Selections \subseteq Seq(Nodes)
  /\ \A roots \in Selections : Apart(roots)
ASSUME NoNodeAssumption == NoNode \notin Nodes
ASSUME JobsAssumption == MaxJobs \in Nat \ {0}

VARIABLES
  backend,    \* m_backend; "None" when FsRemote is closed
  direction,
  follow,     \* followSymlinks
  mode,       \* m_asyncFileMode
  work,       \* m_asyncWork
  file,       \* the file whose SftpAioTransfer or ScpChunkTransfer is active
  cancel,     \* m_transferCancel
  interrupt,  \* m_transferInterrupt
  jobs,       \* TransferJobStore: the interrupted files of this connection, the
              \* one updated last at the end
  plan, made, ended,
  late        \* entries made since the transfer has been asked to stop

flags == <<cancel, interrupt>>
vars == <<backend, direction, follow, mode, work, file, flags, jobs, plan, made, ended, late>>

W == INSTANCE TreeWalk

active == ended = "no"
Item(type, n) == [type |-> type, node |-> n]
FileTypes == {"UploadFile", "DownloadFile"}
LinkTypes == {"RemoteSymlink", "LocalSymlink"}
Types == FileTypes \union LinkTypes \union {"UploadDir", "DownloadDir", "RemoteMkdir"}

TypeOK ==
  /\ backend \in {"Sftp", "Scp", "None"} /\ direction \in W!Directions
  /\ {follow, cancel, interrupt} \subseteq BOOLEAN
  /\ mode \in {"fresh", "resume", "overwrite"}
  /\ work \in Seq([type : Types, node : Nodes])
  /\ file \in Nodes \union {NoNode}
  /\ jobs \in Seq([way : W!Directions, node : Nodes]) /\ Len(jobs) <= MaxJobs
  /\ plan \in Seq(Nodes) /\ made \in Seq(Nodes)
  /\ ended \in W!Reasons \union {"no"}
  /\ late \in 0 .. Cardinality(Nodes)

Init ==
  /\ backend = "None" /\ direction = "upload" /\ follow = FALSE
  /\ mode = "fresh" /\ work = <<>> /\ file = NoNode
  /\ cancel = FALSE /\ interrupt = FALSE
  /\ jobs = <<>> /\ late = 0
  /\ W!Init

-----------------------------------------------------------------------------
(* TransferJobStore.  The key of a job is its direction and its two paths.  *)

Removed(job) == W!Pick(jobs, {i \in DOMAIN jobs : jobs[i] # job})
Saved(job) == Append(Removed(job), job)
LoadLatest == Last(jobs)
LoadForPaths(way, n) == Contains(jobs, [way |-> way, node |-> n])

-----------------------------------------------------------------------------
(* The connection.                                                         *)

Abandoned == work' = <<>> /\ file' = NoNode

\* SFTP, or SCP where that does not open and the settings allow it.
Open ==
  /\ backend = "None" /\ backend' \in {"Sftp", "Scp"}
  /\ UNCHANGED <<direction, follow, mode, work, file, flags, jobs, plan, made, ended, late>>

\* A transfer that runs is given up, and no job is kept of it.
Close ==
  /\ backend # "None" /\ backend' = "None"
  /\ Abandoned /\ ended' = IF active THEN "Closed" ELSE ended
  /\ UNCHANGED <<direction, follow, mode, flags, jobs, plan, made, late>>

-----------------------------------------------------------------------------
(* Starting a transfer.                                                    *)

\* startAsyncCommon and beginTransfer: what was asked before is forgotten.
StartAsyncCommon(way, m, walk) ==
  /\ backend # "None" /\ ~active /\ direction' = way /\ mode' = m
  /\ cancel' = FALSE /\ interrupt' = FALSE /\ late' = 0
  /\ file' = NoNode /\ made' = <<>> /\ plan' = walk

\* enqueueUploadPath, enqueueDownloadEntry and the children of a folder.
UploadItem(n) ==
  Item(CASE Kind[n] \in {"link", "dirLink"} -> "RemoteSymlink"
         [] Kind[n] = "dir" -> "UploadDir"
         [] OTHER -> "UploadFile", n)
DownloadItem(n, f) ==
  Item(CASE Kind[n] \in {"link", "dirLink"} -> IF f THEN "DownloadFile" ELSE "LocalSymlink"
         [] Kind[n] = "dir" -> "DownloadDir"
         [] OTHER -> "DownloadFile", n)

\* Enqueued, or refused because an entry is missing or cannot be examined.
Enqueued(items) == \/ work' = items /\ ended' = "no"
                   \/ work' = <<>> /\ ended' = "Failed"

BeginAsyncUploadFiles(roots) ==
  /\ StartAsyncCommon("upload", "fresh", W!Plan("upload", roots))
  /\ Enqueued([i \in DOMAIN roots |-> UploadItem(roots[i])])
  /\ follow' = FALSE /\ UNCHANGED <<backend, jobs>>

BeginAsyncUploadFileTo(n) ==
  /\ Kind[n] = "file"
  /\ StartAsyncCommon("upload", "overwrite", <<n>>)
  /\ work' = <<Item("UploadFile", n)>> /\ ended' = "no"
  /\ follow' = FALSE /\ UNCHANGED <<backend, jobs>>

BeginAsyncDownloadPaths(roots, f) ==
  /\ StartAsyncCommon("download", "fresh", W!Plan("download", roots))
  /\ Enqueued([i \in DOMAIN roots |-> DownloadItem(roots[i], f)])
  /\ follow' = f /\ UNCHANGED <<backend, jobs>>

\* Only the file that was interrupted last is left of the transfer it belonged to.
BeginAsyncResumeInterrupted ==
  /\ backend = "Sftp" /\ jobs # <<>>
  /\ StartAsyncCommon(LoadLatest.way, "resume", <<LoadLatest.node>>)
  /\ work' = <<Item(IF LoadLatest.way = "upload" THEN "UploadFile" ELSE "DownloadFile",
                    LoadLatest.node)>>
  /\ ended' = "no"
  /\ follow' = FALSE /\ UNCHANGED <<backend, jobs>>

-----------------------------------------------------------------------------
(* The other thread.                                                       *)

RequestCancel ==
  active /\ cancel' = TRUE
  /\ UNCHANGED <<backend, direction, follow, mode, work, file, interrupt, jobs,
                 plan, made, ended, late>>

RequestInterrupt ==
  active /\ interrupt' = TRUE
  /\ UNCHANGED <<backend, direction, follow, mode, work, file, cancel, jobs,
                 plan, made, ended, late>>

\* discardInterruptedTransfer waits for no transfer: the job may be the one that a
\* resume is about to load, or is being written from.
DiscardInterruptedTransfer ==
  /\ jobs # <<>> /\ jobs' = Front(jobs)
  /\ UNCHANGED <<backend, direction, follow, mode, work, file, flags, plan, made, ended, late>>

-----------------------------------------------------------------------------
(* Ticks.                                                                  *)

Asked == cancel \/ interrupt
StopReason == IF cancel THEN "Canceled" ELSE IF interrupt THEN "Interrupted" ELSE "StallTimeout"

\* abortAsyncTransfer and endTransfer.
Abort(reason) == Abandoned /\ ended' = reason

\* An entry has come to be at the destination.
Make(n) ==
  /\ made' = Append(made, n)
  /\ late' = IF Asked THEN late + 1 ELSE late
MakeNothing == UNCHANGED <<made, late>>

Tick == active /\ UNCHANGED <<backend, direction, follow, mode, flags, plan>>
\* Mutant: the queue goes on when the transfer has been asked to stop.
TurnAnyway(type) == Tick /\ file = NoNode /\ work # <<>> /\ Head(work).type = type
Turn(type) == Tick /\ file = NoNode /\ work # <<>> /\ ~Asked /\ Head(work).type = type
Node == Head(work).node
Continue(items) == work' = items /\ UNCHANGED <<file, ended>>

TickDone ==
  /\ Tick /\ file = NoNode /\ work = <<>>
  /\ ended' = "Completed"
  /\ MakeNothing /\ UNCHANGED <<work, file, jobs>>

\* transferShouldStop, also when nothing has moved for the stall timeout.
TickStop ==
  /\ Tick /\ file = NoNode /\ work # <<>>
  /\ Abort(StopReason)
  /\ MakeNothing /\ UNCHANGED jobs

RemoteMkdir ==
  /\ Turn("RemoteMkdir") /\ UNCHANGED jobs
  /\ \/ Make(Node) /\ Continue(Tail(work))
     \/ MakeNothing /\ Abort("Failed")

\* A link that is there already cannot be made on the server: that transfer fails.
MakeLink ==
  /\ \E type \in LinkTypes : Turn(type)
  /\ UNCHANGED jobs
  /\ \/ Make(Node) /\ Continue(Tail(work))
     \/ MakeNothing /\ Abort("Failed")

\* Mutant: the children are inserted in front of the folder's mkdir.
UploadDirLast ==
  /\ Turn("UploadDir") /\ MakeNothing /\ UNCHANGED jobs
  /\ Continue([i \in DOMAIN Children[Node] |-> UploadItem(Children[Node][i])]
                \o <<Item("RemoteMkdir", Node)>> \o Tail(work))

\* The folder is replaced by its mkdir and what it holds.
UploadDir ==
  /\ Turn("UploadDir") /\ MakeNothing /\ UNCHANGED jobs
  /\ Continue(<<Item("RemoteMkdir", Node)>>
                \o [i \in DOMAIN Children[Node] |-> UploadItem(Children[Node][i])] \o Tail(work))

\* The local folder is made at once; the listing may fail after that.
DownloadDir ==
  /\ Turn("DownloadDir") /\ UNCHANGED jobs
  /\ LET held == W!Taken("download", Node)
     IN  \/ Make(Node) /\ Continue([i \in DOMAIN held |-> DownloadItem(held[i], follow)] \o Tail(work))
         \/ Make(Node) /\ Abort("Failed")
         \/ MakeNothing /\ Abort("Failed")

\* optionsForMode: what is not SFTP writes the final file.
WriteMode == IF backend = "Sftp" THEN mode ELSE "overwrite"

\* Over SCP a partial file is not gone on with, and the server sends no folder.
ScpStartUpload == WriteMode # "resume"
ScpStartDownload == WriteMode # "resume" /\ Kind[Node] # "dirLink"

\* A resume needs the job that was the latest when it was asked for.
JobIsThere == mode = "resume" => LoadForPaths(direction, Node)
Prepared(scpStarts) ==
  \/ /\ JobIsThere /\ (backend = "Scp" => scpStarts)
     /\ file' = Node /\ work' = Tail(work) /\ UNCHANGED ended
  \/ Abort("Failed")

PrepareAsyncUploadJob == Turn("UploadFile") /\ Prepared(ScpStartUpload) /\ MakeNothing /\ UNCHANGED jobs

\* A followed link to a folder is refused.
PrepareAsyncDownloadJob ==
  /\ Turn("DownloadFile") /\ MakeNothing /\ UNCHANGED jobs
  /\ IF follow /\ Kind[Node] = "dirLink" THEN Abort("Failed") ELSE Prepared(ScpStartDownload)

FileTick == Tick /\ file # NoNode
Interrupted == [way |-> direction, node |-> file]

\* finishAsyncFileFailure without a partial file to keep.
FileLost == UNCHANGED jobs /\ (Abort(StopReason) \/ (~Asked /\ Abort("Failed")))

\* The partial file is kept for resuming, unless it is the final one that is
\* overwritten or nothing has been transferred; that the job could not be saved is
\* ignored.
SftpFileFails ==
  /\ FileTick /\ backend = "Sftp" /\ MakeNothing
  /\ \/ /\ mode # "overwrite" /\ jobs' \in {jobs, Saved(Interrupted)} /\ Len(jobs') <= MaxJobs
        /\ Abort(StopReason) \/ (~Asked /\ Abort("Interrupted"))
     \/ FileLost
     \/ UNCHANGED jobs /\ Abort("HashMismatch")

\* Over SCP the final file is written, and left as it is.
ScpFileFails == FileTick /\ backend = "Scp" /\ MakeNothing /\ FileLost

\* Mutant: the job of a completed file is kept.
FileDoneKeepsJob ==
  FileTick /\ Make(file) /\ file' = NoNode /\ UNCHANGED <<work, ended, jobs>>

\* The file is complete; its chunks poll the flags, its last steps do not.
FileDone ==
  /\ FileTick /\ Make(file)
  /\ file' = NoNode /\ UNCHANGED <<work, ended>>
  /\ jobs' = Removed(Interrupted)

-----------------------------------------------------------------------------
Start == \/ \E roots \in Selections : \/ BeginAsyncUploadFiles(roots)
                                      \/ \E f \in BOOLEAN : BeginAsyncDownloadPaths(roots, f)
         \/ \E n \in Nodes : BeginAsyncUploadFileTo(n)
         \/ BeginAsyncResumeInterrupted
Requests == RequestCancel \/ RequestInterrupt \/ DiscardInterruptedTransfer

TickAsyncWorkItem == TickDone \/ TickStop \/ RemoteMkdir \/ MakeLink
                     \/ UploadDir \/ DownloadDir \/ PrepareAsyncUploadJob \/ PrepareAsyncDownloadJob
TickAsyncAio == SftpFileFails \/ ScpFileFails \/ FileDone

Next == Open \/ Close \/ Start \/ Requests \/ TickAsyncWorkItem \/ TickAsyncAio

\* The I/O loop goes on ticking the handler of a transfer that runs.
Spec == Init /\ [][Next]_vars /\ WF_vars(TickAsyncWorkItem \/ TickAsyncAio)

-----------------------------------------------------------------------------
(* Properties.                                                             *)

\* The queue carries out the recursive walk: each entry once, depth first, a
\* folder before what is in it; a transfer is completed when every entry is
\* made and only then, and it ends.
WalkSpec == W!Spec

\* Once the transfer has been asked to stop, at most the file whose last chunk
\* is through is still made, whatever is queued.
StopsShort == late <= 1

\* A transfer that has ended leaves nothing behind for the next one: no queue,
\* no open file, and no job to resume of a file whose bytes it has completed.
LeavesNothing ==
  ~active => /\ work = <<>> /\ file = NoNode
             /\ \A job \in ToSet(jobs) : /\ job.way = direction
                                         /\ Kind[job.node] # "link" \/ follow
                                         => ~Contains(made, job.node)
=============================================================================
