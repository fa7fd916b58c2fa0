---------------------------- MODULE FileExplorer ----------------------------
(***************************************************************************)
(* The file explorer of the main window as a client of one session's file  *)
(* operations (FsService): it browses directories, changes, uploads,       *)
(* downloads and opens files, and syncs the opened ones when they are      *)
(* saved.  It follows the active tab, the connection comes and goes, and   *)
(* modal dialogs run event loops of their own in the middle of a handler.  *)
(* An answer does not say which call it belongs to: flags decide.          *)
(***************************************************************************)
EXTENDS Integers, Sequences, FiniteSets, SequencesExt

CONSTANTS Dirs,       \* directories
          Links,      \* those that are also entered as a symbolic link
          None,
          MaxCalls,   \* calls and answers under way before the user acts
          MaxItems    \* items deleted or opened at once

ASSUME SentinelAssumption == None \notin Dirs /\ Links \subseteq Dirs
ASSUME BoundAssumption == MaxCalls \in Nat \ {0} /\ MaxItems \in Nat \ {0}

VARIABLES
  bound,      \* m_session is the session modelled here; else another's or none
  deferred,   \* the zero timer of bindSession
  ex,         \* the explorer's members and its model's
  dialogs,    \* the modal dialogs open, the last one on top
  file,       \* the file opened with a local application
  crashed,    \* a null session has been used
  calls, answers, open   \* the file operations of the session

explorer == <<bound, deferred, ex, dialogs, file, crashed>>
service == <<calls, answers, open>>
vars == <<explorer, service>>

List(d) == <<"list", d>>
Resolve(d) == <<"resolve", d>>
Op(name) == <<name, None>>
Transfers == {"upload", "download", "resume", "open", "sync"}
KindOf == [o \in ({"list"} \X Dirs) \union ({"resolve"} \X Links) \union
                 {Op(n) : n \in {"canonical", "change", "delete", "discard"} \union Transfers} |->
             CASE o[1] \in Transfers -> "transfer"
               [] o[1] = "delete" -> "change"
               [] OTHER -> o[1]]
Ops == DOMAIN KindOf

Svc == INSTANCE FsService

\* busy is m_opInFlight, awaiting m_awaitingSftpResult, checking the directory
\* of m_awaitingUploadListing, nav and prev the pending and the previous path;
\* unlisted says that the root's node is neither fetched nor being fetched.
Fresh ==
  [busy |-> FALSE, awaiting |-> FALSE, rootAsked |-> FALSE, root |-> None,
   nav |-> None, prev |-> None, resolving |-> None,
   deletes |-> 0, opens |-> 0, openActive |-> FALSE, refresh |-> None,
   checking |-> None, unlisted |-> FALSE]
NoFile == [opened |-> FALSE, tracked |-> FALSE, scheduled |-> FALSE]

Path == Dirs \union {None}
Prompts == {"change", "delete", "download", "confirm"}

TypeOK ==
  /\ {bound, deferred, crashed, open} \subseteq BOOLEAN
  /\ ex \in [busy : BOOLEAN, awaiting : BOOLEAN, rootAsked : BOOLEAN, root : Path,
             nav : Path, prev : Path, resolving : Path, deletes : 0 .. MaxItems, opens : 0 .. MaxItems,
             openActive : BOOLEAN, refresh : Path, checking : Path, unlisted : BOOLEAN]
  /\ dialogs \in Seq(Prompts \X Dirs)
  /\ file \in [DOMAIN NoFile -> BOOLEAN]
  /\ calls \in Seq(Ops) /\ answers \in Seq(Ops \X STRING)

Init ==
  /\ bound = FALSE /\ deferred = FALSE /\ crashed = FALSE
  /\ ex = Fresh /\ dialogs = <<>> /\ file = NoFile
  /\ Svc!Init

-----------------------------------------------------------------------------
(* What handlers do to the members and to the queue of calls.              *)

Call(os) == calls' = calls \o os

\* The bound on what is under way when the user acts.
Quiet == Len(calls) + Len(answers) < MaxCalls

\* RemoteFileModel asks for the listing of its root or of one of its directories.
RequestList(d) == <<List(d)>>

\* RemoteFileModel::setRootPath: a new node, which is asked for.
SetRootPath(e, d) == [e EXCEPT !.root = d, !.unlisted = FALSE]

\* navigateTo: the explorer is not busy any more, whatever was.
NavigateTo(e, d) ==
  [SetRootPath(e, d) EXCEPT !.busy = FALSE,
                            !.nav = IF d = e.root THEN @ ELSE d,
                            !.prev = IF d = e.root THEN @ ELSE e.root]

\* RemoteFileModel::listFailed: its view may ask for the rows again.
ListFailed(e) == [e EXCEPT !.unlisted = TRUE]

\* An operation of the user's whose answer is awaited.
Begin(e, dir) == [e EXCEPT !.busy = TRUE, !.awaiting = TRUE, !.refresh = dir]
BeginUpload(e, dir) == [Begin(e, dir) EXCEPT !.checking = None]

\* The failure, cancellation or interruption of an awaited operation.
Stopped(e) == [e EXCEPT !.deletes = 0, !.refresh = None, !.opens = 0,
                        !.openActive = FALSE, !.awaiting = FALSE, !.busy = FALSE]

-----------------------------------------------------------------------------
(* Tabs and the connection.                                                *)

\* bindSession; busy is left as the tab before had it.
Bind ==
  /\ open /\ ~bound /\ ~deferred /\ dialogs = <<>>
  /\ Quiet
  /\ bound' = TRUE /\ deferred' = TRUE
  /\ \E b \in BOOLEAN : ex' = [Fresh EXCEPT !.busy = b]
  /\ UNCHANGED <<dialogs, file, crashed, service>>

\* The zero timer: the start directory is resolved.
LoadRoot ==
  /\ deferred /\ deferred' = FALSE
  /\ IF bound THEN /\ ex' = [ex EXCEPT !.rootAsked = TRUE, !.awaiting = TRUE, !.busy = TRUE]
                   /\ Call(<<Op("canonical")>>)
              ELSE UNCHANGED <<ex, calls>>
  /\ UNCHANGED <<bound, dialogs, file, crashed, answers, open>>

\* OpenFileTracker::untrackSession.
Untracked == [file EXCEPT !.tracked = FALSE, !.scheduled = FALSE]

\* unbindSession, or bindSession to another tab.
Leave == bound' = FALSE /\ ex' = Fresh /\ file' = Untracked

SwitchTab ==
  /\ bound /\ dialogs = <<>>
  /\ Leave
  /\ UNCHANGED <<deferred, dialogs, crashed, service>>

\* The session is no longer Connected: its worker and signals are let go of, and
\* syncSidePanelsToActiveSession unbinds the explorer, under any dialog.
Disconnect ==
  /\ open /\ open' = FALSE /\ calls' = <<>> /\ answers' = <<>>
  /\ IF bound THEN Leave ELSE UNCHANGED <<bound, ex, file>>
  /\ UNCHANGED <<deferred, dialogs, crashed>>

\* A new worker; an interrupted transfer is resumed by itself.
Reconnect ==
  /\ ~open /\ ~crashed /\ open' = TRUE
  /\ \E resume \in BOOLEAN : calls' = IF resume THEN <<Op("resume")>> ELSE <<>>
  /\ UNCHANGED <<bound, deferred, ex, dialogs, file, crashed, answers>>

-----------------------------------------------------------------------------
(* The user.                                                               *)

Browsing == bound /\ dialogs = <<>> /\ ex.root # None /\ Quiet
Idle == Browsing /\ ~ex.busy
User(e) == ex' = e /\ UNCHANGED <<bound, deferred, file, crashed, answers, open>>

\* onItemActivated for a directory or "..": whatever is in flight.
ActivateDirectory(d) ==
  Browsing /\ User(NavigateTo(ex, d)) /\ Call(RequestList(d)) /\ UNCHANGED dialogs

ActivateLink(d) ==
  /\ Idle
  /\ User([ex EXCEPT !.resolving = d, !.busy = TRUE])
  /\ Call(<<Resolve(d)>>) /\ UNCHANGED dialogs

\* RemoteFileModel::refresh forgets the rows, and what it waits for.
Refreshed(e) == [e EXCEPT !.unlisted = FALSE]

RefreshCurrent ==
  /\ Browsing /\ User(Refreshed(ex))
  /\ Call(RequestList(ex.root)) /\ UNCHANGED dialogs

\* The view asks for the rows of a directory that could not be listed.
FetchMore ==
  /\ Browsing /\ ex.unlisted /\ User(Refreshed(ex))
  /\ Call(RequestList(ex.root)) /\ UNCHANGED dialogs

\* createFolder, createSymlink, renameSelected, deleteSelected and download ask
\* first; the explorer is not busy meanwhile.
Prompt(p) ==
  /\ Idle /\ dialogs' = Append(dialogs, <<p, ex.root>>)
  /\ User(ex) /\ UNCHANGED calls

\* startUpload into a directory of the current one: its listing is asked for.
CheckDirectory(d) ==
  /\ d # ex.root
  /\ User([ex EXCEPT !.checking = d, !.busy = TRUE])
  /\ Call(<<List(d)>>) /\ UNCHANGED dialogs

\* Into the current one: the rows it has, and an interrupted transfer, tell whether to ask.
ConfirmUpload(d) ==
  /\ d = ex.root
  /\ dialogs' = Append(dialogs, <<"confirm", d>>)
  /\ User(ex) /\ UNCHANGED calls
UploadAtOnce(d) ==
  /\ d = ex.root
  /\ User(BeginUpload(ex, d)) /\ Call(<<Op("upload")>>) /\ UNCHANGED dialogs

StartUpload(d) == Idle /\ (CheckDirectory(d) \/ ConfirmUpload(d) \/ UploadAtOnce(d))

OpenWith(e, n) == [e EXCEPT !.opens = n, !.openActive = TRUE, !.awaiting = TRUE,
                            !.busy = TRUE, !.refresh = None]
Open(n) ==
  Idle /\ User(OpenWith(ex, n)) /\ Call(<<Op("open")>>) /\ UNCHANGED dialogs

\* The buttons of the transfer strip.
ResumeInterrupted ==
  /\ Idle /\ User([ex EXCEPT !.busy = TRUE, !.awaiting = TRUE])
  /\ Call(<<Op("resume")>>) /\ UNCHANGED dialogs
DiscardInterrupted ==
  Idle /\ User(ex) /\ Call(<<Op("discard")>>) /\ UNCHANGED dialogs

\* A dialog is dismissed.
CancelDialog ==
  /\ dialogs # <<>> /\ dialogs' = Front(dialogs)
  /\ User(IF Last(dialogs)[1] = "confirm"
          THEN [ex EXCEPT !.checking = None, !.busy = FALSE] ELSE ex)
  /\ UNCHANGED calls

\* The calls an accepted dialog makes: an incomplete transfer is resumed, or
\* discarded before the new one.
Restart(op) == \E first \in {<<>>, <<Op("discard")>>} : Call(first \o <<op>>)
Resume(dir) == User(BeginUpload(ex, dir)) /\ Call(<<Op("resume")>>)

\* download, once the local directory is chosen.
Download ==
  \/ User(Begin(ex, None)) /\ Restart(Op("download"))
  \/ User([Begin(ex, None) EXCEPT !.refresh = ex.refresh]) /\ Call(<<Op("resume")>>)

\* A dialog is accepted while a session is bound: delete's items go one by one.
AcceptDialog(n) ==
  /\ dialogs # <<>> /\ bound /\ dialogs' = Front(dialogs)
  /\ LET p == Last(dialogs)[1]
         dir == Last(dialogs)[2]
     IN  \/ p = "change" /\ User(Begin(ex, dir)) /\ Call(<<Op("change")>>)
         \/ /\ p = "delete"
            /\ User([Begin(ex, dir) EXCEPT !.deletes = n]) /\ Call(<<Op("delete")>>)
         \/ p = "download" /\ Download
         \/ p = "confirm" /\ User(BeginUpload(ex, dir)) /\ Restart(Op("upload"))
         \/ p = "confirm" /\ Resume(dir)

\* Without one, its null pointer is used: the program is gone.
AcceptUnbound ==
  /\ dialogs # <<>> /\ ~bound
  /\ crashed' = TRUE /\ open' = FALSE
  /\ calls' = <<>> /\ answers' = <<>> /\ dialogs' = <<>>
  /\ deferred' = FALSE /\ file' = NoFile
  /\ UNCHANGED <<bound, ex>>

\* The opened file is saved; the tracker uploads it when the saves settle.
Save ==
  /\ open /\ file.opened /\ Quiet /\ dialogs = <<>>
  /\ file' = [file EXCEPT !.scheduled = file.tracked]
  /\ UNCHANGED <<bound, deferred, ex, dialogs, crashed, service>>

FlushPendingUploads ==
  /\ file.scheduled /\ file' = [file EXCEPT !.scheduled = FALSE]
  /\ Call(<<Op("sync")>>)
  /\ UNCHANGED <<bound, deferred, ex, dialogs, crashed, answers, open>>

-----------------------------------------------------------------------------
(* The signals of the session.  Each handler gives the next members and the *)
(* calls it makes.                                                          *)

Take(o, a) == answers # <<>> /\ Head(answers) = <<o, a>> /\ answers' = Tail(answers)
Becomes(e, os) == ex' = e /\ Call(os)

OnPathCanonicalized ==
  IF ~ex.rootAsked THEN Becomes(ex, <<>>)
  ELSE \E d \in Dirs :
         Becomes(NavigateTo([ex EXCEPT !.rootAsked = FALSE, !.awaiting = FALSE], d), RequestList(d))

\* RemoteFileModel takes the listing of its root, whoever asked for it.
ApplyListing(e, d) == IF d = e.root THEN [e EXCEPT !.unlisted = FALSE] ELSE e

\* The model hears of a listing before onDirectoryListed does.
OnDirectoryListed(d) ==
  LET a == ApplyListing(ex, d)
      e == IF d = ex.nav THEN [a EXCEPT !.nav = None, !.prev = None] ELSE a
  IN  \/ d # ex.checking /\ Becomes(e, <<>>) /\ UNCHANGED dialogs
      \/ /\ d = ex.checking /\ Becomes(BeginUpload(e, d), <<Op("upload")>>)
         /\ UNCHANGED dialogs
      \/ /\ d = ex.checking /\ Becomes([e EXCEPT !.checking = None], <<>>)
         /\ dialogs' = Append(dialogs, <<"confirm", d>>)

\* A link to a file is opened if it is still selected.
OnEntryResolved(d, a) ==
  LET e == [ex EXCEPT !.resolving = None, !.busy = FALSE]
  IN  \/ a # "error" /\ d # ex.resolving /\ Becomes(ex, <<>>)
      \/ a = "unresolved" /\ d = ex.resolving /\ Becomes(e, <<>>)
      \/ a = "resolvedDir" /\ d = ex.resolving /\ Becomes(NavigateTo(e, d), RequestList(d))
      \/ /\ a = "resolvedFile" /\ d = ex.resolving
         /\ Becomes(OpenWith(e, 1), <<Op("open")>>) \/ Becomes(e, <<>>)

\* completeOpenWithItem: the file is there if this was its download, or from
\* an earlier one.
CompleteOpenWithItem(o) ==
  /\ \E exists \in IF o = Op("open") THEN {TRUE} ELSE {FALSE, file.opened} :
       file' = IF exists THEN [file EXCEPT !.opened = TRUE, !.tracked = TRUE] ELSE file
  /\ IF ex.opens > 1
     THEN Becomes([ex EXCEPT !.opens = @ - 1, !.refresh = None], <<Op("open")>>)
     ELSE Becomes([ex EXCEPT !.opens = 0, !.openActive = FALSE, !.awaiting = FALSE,
                             !.busy = FALSE], <<>>)

\* RemoteFileModel::refreshPath, when it knows the path: its root and directories in it.
RefreshPath(e, d) == IF d = e.root THEN Refreshed(e) ELSE e

\* The operation is over: the directory it changed is listed again.
Over(e) ==
  LET done == [e EXCEPT !.deletes = 0, !.awaiting = FALSE, !.busy = FALSE, !.refresh = None]
  IN  IF e.refresh = None \/ e.root = None THEN Becomes(done, <<>>)
      ELSE \/ Becomes(RefreshPath(done, e.refresh), RequestList(e.refresh))
           \/ e.refresh # e.root /\ Becomes(done, <<>>)

\* deleteNextPending.
DeleteNextPending(e) == Becomes([e EXCEPT !.deletes = @ - 1], <<Op("delete")>>)

\* Mutant: the last deletion is awaited again.
OnSftpFinishedNotLast(o) ==
  IF ex.openActive THEN CompleteOpenWithItem(o)
  ELSE /\ IF ~ex.awaiting THEN Becomes(ex, <<>>)
          ELSE IF ex.deletes > 0 THEN Becomes([ex EXCEPT !.deletes = @ - 1], <<>>)
          ELSE Over(ex)
       /\ UNCHANGED file

OnSftpFinished(o) ==
  IF ex.openActive THEN CompleteOpenWithItem(o)
  ELSE /\ IF ~ex.awaiting THEN Becomes(ex, <<>>)
          ELSE IF ex.deletes > 1 THEN DeleteNextPending(ex)
          ELSE Over(ex)
       /\ UNCHANGED file

\* Mutant: the failed listing before an upload keeps the explorer busy.
OnSftpErrorKeepsBusy ==
  IF ex.checking # None THEN Becomes([ex EXCEPT !.checking = None], <<>>)
  ELSE IF ex.awaiting \/ ex.openActive THEN Becomes(Stopped(ex), <<>>)
  ELSE Becomes(ex, <<>>)

\* onSftpError: the listing before an upload, a pending navigation, a sync, or
\* the awaited operation failed, in this order of belief.
OnSftpError ==
  IF ex.checking # None THEN Becomes([ex EXCEPT !.checking = None, !.busy = FALSE], <<>>)
  ELSE IF ex.nav # None
  THEN LET e == ListFailed([ex EXCEPT !.nav = None, !.prev = None, !.resolving = None,
                                      !.busy = FALSE])
       IN  IF ex.prev \notin {None, ex.nav}
           THEN Becomes(SetRootPath(e, ex.prev), RequestList(ex.prev))
           ELSE Becomes(e, <<>>)
  ELSE IF ex.awaiting \/ ex.openActive THEN Becomes(Stopped(ex), <<>>)
  ELSE Becomes(ex, <<>>)

\* onSftpCanceled and onSftpInterrupted; the latter keeps the refresh.
OnSftpStopped(a) ==
  Becomes([Stopped(ex) EXCEPT !.refresh = IF a = "canceled" THEN None ELSE ex.refresh], <<>>)

Handled(o, a) ==
  \/ a = "canonicalized" /\ OnPathCanonicalized /\ UNCHANGED <<dialogs, file>>
  \/ a = "listed" /\ OnDirectoryListed(o[2]) /\ UNCHANGED file
  \/ o[1] = "resolve" /\ OnEntryResolved(o[2], a) /\ UNCHANGED <<dialogs, file>>
  \/ a = "finished" /\ OnSftpFinished(o) /\ UNCHANGED dialogs
  \/ a = "error" /\ OnSftpError /\ UNCHANGED <<dialogs, file>>
  \/ a \in {"canceled", "interrupted"} /\ OnSftpStopped(a) /\ UNCHANGED <<dialogs, file>>

\* A signal finds the explorer connected, or nobody.
Deliver ==
  /\ answers # <<>> /\ answers' = Tail(answers)
  /\ IF bound THEN Handled(Head(answers)[1], Head(answers)[2])
              ELSE UNCHANGED <<ex, calls, dialogs, file>>
  /\ UNCHANGED <<bound, deferred, crashed, open>>

\* The session's side, one answer at a time.
Serve == answers = <<>> /\ Svc!Serve /\ UNCHANGED explorer

-----------------------------------------------------------------------------
UserActs ==
  \/ \E d \in Dirs : ActivateDirectory(d) \/ StartUpload(d)
  \/ \E d \in Links : ActivateLink(d)
  \/ \E n \in 1 .. MaxItems : Open(n) \/ AcceptDialog(n)
  \/ \E p \in Prompts \ {"confirm"} : Prompt(p)
  \/ RefreshCurrent \/ FetchMore \/ ResumeInterrupted \/ DiscardInterrupted
  \/ CancelDialog \/ AcceptUnbound \/ Save

Next == \/ UserActs
        \/ Bind \/ SwitchTab \/ Disconnect \/ Reconnect
        \/ Serve \/ Deliver \/ LoadRoot \/ FlushPendingUploads

\* The worker serves its calls, and the GUI thread its events and timers.
Fairness == /\ WF_vars(Serve) /\ WF_vars(Deliver)
            /\ WF_vars(LoadRoot) /\ WF_vars(FlushPendingUploads)
Spec == Init /\ [][Next]_vars /\ Fairness

-----------------------------------------------------------------------------
(* Properties.                                                             *)

Owed(o) == Contains(calls, o) \/ \E i \in DOMAIN answers : answers[i][1] = o
UserOps == {o \in Ops : o[1] \notin {"list", "sync", "discard"}}

\* Over SCP a link is also answered with an error that does not name it: the
\* explorer then waits for an answer that has been.
StuckResolve == ex.resolving # None /\ ~Owed(Resolve(ex.resolving))

\* While the explorer blocks the user or waits for the listing before an upload,
\* an answer that is going to end this is owed to it, whatever answers it has
\* taken for others and whatever tabs and connections came and went.
OwedAnAnswer ==
  bound =>
    /\ ex.busy => \/ deferred \/ dialogs # <<>> \/ StuckResolve \/ ex.checking # None
                  \/ \E o \in UserOps : Owed(o)
    /\ ex.checking # None => Owed(List(ex.checking))

\* The explorer does not stay busy, but for a dialog the user leaves open.
BusyIsReleased ==
  bound /\ ex.busy ~> ~ex.busy \/ ~bound \/ dialogs # <<>> \/ StuckResolve

=============================================================================
