---------------------------- MODULE FsOperations ----------------------------
(***************************************************************************)
(* Remote file operations in the SSH worker: the slots that accept them,   *)
(* the queue that lets one run at a time, and the handlers that carry them *)
(* out tick by tick on the I/O loop: over SFTP in blocking calls, a        *)
(* listing in batches; over SCP as shell commands, each on a channel of    *)
(* its own.  A transfer is one handler; FileTransfer and TreeTransfer have *)
(* its inside.                                                             *)
(***************************************************************************)
EXTENDS RemoteFiles

CONSTANTS Ops, RequestOf,   \* operations, and what each asks for: [op, path, to]
          NoOp,
          Calls,            \* sets of operations that the interface calls in one go
          Files             \* the server's files at first

ASSUME NamesAssumption == NoOp \notin Ops /\ "completed" \notin Ops

VARIABLES
  asked,      \* the operations the interface has called
  events,     \* the worker's event queue: slots and completions
  fsBusy,     \* m_fsBusy
  pending,    \* m_pendingFsOps
  handler,    \* the handler on the I/O loop
  probed,     \* fullTimeProbed of the SCP engine
  backend,    \* "Sftp", "Scp" or "None"
  open,       \* m_fs.isOpen()
  answers,    \* signals on their way to the session
  fs,         \* the server's files
  late        \* operations given up while their command was running

queue == <<events, fsBusy, pending>>
server == <<fs, late>>
vars == <<asked, queue, handler, probed, backend, open, answers, server>>

KindOf == [o \in Ops |->
  LET op == RequestOf[o].op
  IN IF op \in {"mkdir", "symlink", "rename", "remove"} THEN "change" ELSE op]

\* Where a handler stands.  "Plan" to "listing" are SFTP's and the transfer's;
\* the others the command that runs, with its channel's state in exec.
Commands == {"ShortOk", "CanonicalPrimary", "CanonicalFallback", "ListProbeFullTime",
             "ListMain", "AnnotateSymlink", "ResolveTestDir", "ResolveListFile"}
Steps == {"Plan", "listing", "begun", "done"} \union Commands

\* The names of a listing that are still to be read, or links to be looked at,
\* are in todo; sure is FALSE once the end of a command was lost or a command
\* given up earlier has run meanwhile.
NoHandler == [op |-> NoOp, at |-> "done", exec |-> "Idle", reply |-> "none",
              resolving |-> FALSE, todo |-> {}, entries |-> <<>>, sure |-> TRUE]

TypeOK ==
  /\ asked \subseteq Ops
  /\ events \in Seq(Ops \union {"completed"}) /\ pending \in Seq(Ops)
  /\ {fsBusy, probed, open} \subseteq BOOLEAN /\ backend \in {"Sftp", "Scp", "None"}
  /\ handler.op \in Ops \union {NoOp} /\ handler.at \in Steps
  /\ DOMAIN fs = Paths /\ late \subseteq Ops
  /\ answers \in Seq(Ops \X STRING)

\* FsRemote::open: SCP where there is no SFTP, if the user allows it.
Opened(sftpOpens, allowScpFallback, scpOpens) ==
  IF sftpOpens THEN "Sftp" ELSE IF allowScpFallback /\ scpOpens THEN "Scp" ELSE "None"

Init ==
  /\ asked = {} /\ events = <<>> /\ pending = <<>> /\ answers = <<>>
  /\ fsBusy = FALSE /\ probed = FALSE
  /\ handler = NoHandler
  /\ \E sftp, allow, scp \in BOOLEAN : backend = Opened(sftp, allow, scp)
  /\ open = (backend # "None")
  /\ fs \in Files /\ late = {}

HandlerKind == KindOf[handler.op]
Request == RequestOf[handler.op]
Answer(o, a) == answers' = Append(answers, <<o, a>>)

\* The command of a change that is given up may run all the same, then or later.
GivenUp == late' = IF handler.at = "ShortOk" /\ handler.exec \in {"Executing", "Reading"}
                      /\ handler.reply = "none"
                   THEN late \union {handler.op} ELSE late

-----------------------------------------------------------------------------
(* Slots and the queue.                                                    *)

\* The interface calls; Session posts the call to the worker.
Call(o) ==
  /\ o \notin asked /\ \E c \in Calls : asked \union {o} \subseteq c
  /\ asked' = asked \union {o}
  /\ events' = Append(events, o)
  /\ UNCHANGED <<fsBusy, pending, handler, probed, backend, open, answers, server>>

\* The interface takes a signal.
Deliver ==
  /\ answers # <<>> /\ answers' = Tail(answers)
  /\ UNCHANGED <<asked, queue, handler, probed, backend, open, server>>

\* startMetaHandler and startTransferHandler: addHandler starts the handler,
\* which refuses when the file system is closed.  The next queued operation is
\* not started then.
StartHandler(o) ==
  IF open
  THEN /\ handler' = [NoHandler EXCEPT !.op = o, !.at = "Plan"]
       /\ fsBusy' = TRUE /\ UNCHANGED answers
  ELSE /\ fsBusy' = FALSE /\ Answer(o, "error") /\ handler' = NoHandler

\* Mutant: a second operation does not wait.
EnqueueAtOnce(o) == StartHandler(o) /\ UNCHANGED pending

EnqueueFsOp(o) ==
  IF fsBusy
  THEN pending' = Append(pending, o) /\ UNCHANGED <<fsBusy, handler, answers>>
  ELSE StartHandler(o) /\ UNCHANGED pending

Slot(kinds) ==
  /\ events # <<>> /\ Head(events) \in Ops /\ KindOf[Head(events)] \in kinds
  /\ events' = Tail(events)
  /\ UNCHANGED <<asked, probed, backend, open, server>>

RequestOr(refusal) ==
  IF open THEN EnqueueFsOp(Head(events))
  ELSE Answer(Head(events), refusal) /\ UNCHANGED <<fsBusy, pending, handler>>

RequestMeta == Slot({"list", "change", "canonical"}) /\ RequestOr("error")
RequestEntry == Slot({"resolve"}) /\ RequestOr("unresolved")
RequestTransfer == Slot({"transfer"}) /\ RequestOr("error")

\* discardInterruptedTransfer does not go through the queue.
Discard ==
  /\ Slot({"discard"})
  /\ \E a \in {"finished", "error"} : Answer(Head(events), a)
  /\ UNCHANGED <<fsBusy, pending, handler>>

\* Mutant: the last operation that was queued comes next.
CompletedFromBack ==
  /\ events # <<>> /\ Head(events) = "completed"
  /\ events' = Tail(events)
  /\ IF pending = <<>>
     THEN fsBusy' = FALSE /\ handler' = NoHandler /\ UNCHANGED <<pending, answers>>
     ELSE pending' = Front(pending) /\ StartHandler(Last(pending))
  /\ UNCHANGED <<asked, probed, backend, open, server>>

\* The event that onFsHandlerFinished has posted.
Completed ==
  /\ events # <<>> /\ Head(events) = "completed"
  /\ events' = Tail(events)
  /\ IF pending = <<>>
     THEN fsBusy' = FALSE /\ handler' = NoHandler /\ UNCHANGED <<pending, answers>>
     ELSE pending' = Tail(pending) /\ StartHandler(Head(pending))
  /\ UNCHANGED <<asked, probed, backend, open, server>>

\* cleanup: the file system is closed and the handler, cancelled, says that it
\* has completed; neither the queue nor m_fsBusy is reset.
Cleanup ==
  /\ open /\ open' = FALSE
  /\ events' = IF handler.at = "done" THEN events ELSE Append(events, "completed")
  /\ handler' = NoHandler /\ GivenUp
  /\ UNCHANGED <<asked, fsBusy, pending, probed, backend, answers, fs>>

-----------------------------------------------------------------------------
(* Handlers: what they share.                                              *)

At(step) == handler.at = step
Goes(h) == handler' = h /\ UNCHANGED <<events, answers>>

\* finishOk and finishFail: the answer, then the completion is posted.
FinishWith(a, entries) ==
  /\ Answer(handler.op, a)
  /\ handler' = [handler EXCEPT !.at = "done", !.exec = "Idle", !.reply = "none",
                                !.entries = entries, !.todo = {}]
  /\ events' = Append(events, "completed")
Finish(a) == FinishWith(a, handler.entries)

Calm == UNCHANGED <<asked, fsBusy, pending, backend, open>>
Tick == Calm /\ UNCHANGED server

\* What a listing says in the end: its own answer, or that of the symbolic link
\* whose target it lists.
Listed == IF handler.resolving THEN "resolvedDir" ELSE "listed"
ListFailed == Finish(IF handler.resolving THEN "unresolved" ELSE "error")

-----------------------------------------------------------------------------
(* SftpMetaIoHandler and SftpTransferIoHandler.                            *)

\* What a change comes to over SFTP.
Changed(r) ==
  CASE r.op = "mkdir"   -> CreateDirectory(fs, r.path)
    [] r.op = "symlink" -> CreateSymlink(fs, r.to, r.path)
    [] r.op = "rename"  -> RenamePath(fs, r.path, r.to)
    [] OTHER            -> RemovePath(fs, r.path)

RunShortOp ==
  /\ backend = "Sftp" /\ At("Plan")
  /\ \/ /\ HandlerKind = "change"
        /\ \E o \in Changed(Request) :
             fs' = o.fs /\ Finish(IF o.ok THEN "finished" ELSE "error")
     \/ HandlerKind = "canonical" /\ Finish("canonicalized") /\ UNCHANGED fs
     \/ HandlerKind = "resolve" /\ Finish("unresolved") /\ UNCHANGED fs
     \/ /\ HandlerKind = "resolve" /\ StatEntry(fs, Request.path, TRUE) \in {"file", "link"}
        /\ Finish("resolvedFile") /\ UNCHANGED fs
  /\ UNCHANGED <<probed, late>> /\ Calm

\* The first tick opens the directory of a listing; a link that is resolved to a
\* directory goes on like one.
OpenList ==
  /\ backend = "Sftp" /\ At("Plan")
  /\ \/ HandlerKind = "list"
     \/ HandlerKind = "resolve" /\ StatEntry(fs, Request.path, TRUE) = "dir"
  /\ LET h == [handler EXCEPT !.resolving = (HandlerKind = "resolve"), !.at = "listing"]
     IN \/ /\ CanOpenDirectory(fs, Request.path)
           /\ Goes([h EXCEPT !.todo = Names(fs, Target(fs, Request.path))])
        \/ Finish(IF HandlerKind = "resolve" THEN "unresolved" ELSE "error")
  /\ UNCHANGED probed /\ Tick

\* A batch of entries, or the end of the directory.
TickList ==
  /\ backend = "Sftp" /\ At("listing")
  /\ \/ /\ handler.todo # {}
        /\ LET name == CHOOSE n \in handler.todo : TRUE
           IN Goes([handler EXCEPT !.todo = @ \ {name},
                      !.entries = @ @@ (name :> EntryAt(fs, Request.path, name))])
     \/ handler.todo = {} /\ Finish(Listed)
     \/ ListFailed
  /\ UNCHANGED probed /\ Tick

TransferOnIdle ==
  /\ \/ /\ At("Plan") /\ HandlerKind = "transfer"
        /\ (Goes([handler EXCEPT !.at = "begun"]) \/ Finish("error"))
     \/ At("begun") /\ \E a \in {"finished", "canceled", "interrupted", "error"} : Finish(a)
  /\ UNCHANGED probed /\ Tick

-----------------------------------------------------------------------------
(* ScpMetaIoHandler.                                                       *)

\* startNextCmd: a channel for the command, if there is one to be had.
StartNextCmd(h) ==
  \/ Goes([h EXCEPT !.exec = "Opening", !.reply = "none"])
  \/ Finish("error")

ListCommand == IF probed THEN "ListMain" ELSE "ListProbeFullTime"

PlanSteps ==
  /\ backend = "Scp" /\ At("Plan") /\ HandlerKind # "transfer"
  /\ StartNextCmd([handler EXCEPT !.at =
       CASE HandlerKind = "change"    -> "ShortOk"
         [] HandlerKind = "canonical" -> "CanonicalPrimary"
         [] HandlerKind = "resolve"   -> "ResolveTestDir"
         [] OTHER                     -> ListCommand])
  /\ UNCHANGED probed /\ Tick

Fails == Finish("error") /\ GivenUp /\ UNCHANGED fs

AdvanceOpening ==
  /\ handler.exec = "Opening"
  /\ Goes([handler EXCEPT !.exec = "Executing"]) \/ Finish("error")
  /\ UNCHANGED probed /\ Tick

AdvanceExecuting ==
  /\ handler.exec = "Executing"
  /\ \/ Goes([handler EXCEPT !.exec = "Reading"]) /\ UNCHANGED server
     \/ Fails
  /\ UNCHANGED probed /\ Calm

\* The link a listing looks at.
Annotated == CHOOSE n \in handler.todo : TRUE

\* What a command comes to on the server; the tests tell the truth.
ShellChange(r) ==
  CASE r.op = "mkdir"   -> FormatMkdir(fs, r.path)
    [] r.op = "symlink" -> FormatSymlink(fs, r.to, r.path)
    [] r.op = "rename"  -> FormatRename(fs, r.path, r.to)
    [] OTHER            -> FormatRemove(fs, r.path)
Says(b) == {[ok |-> b, fs |-> fs]}
CommandRun ==
  CASE At("ShortOk")           -> ShellChange(Request)
    [] At("CanonicalPrimary")  -> Try(fs, FormatRealpath(fs, Request.path), fs)
    [] At("CanonicalFallback") -> Try(fs, FormatTestDirectory(fs, Request.path), fs)
    [] At("ResolveTestDir")    -> Says(FormatTestDirectory(fs, Request.path))
    [] At("AnnotateSymlink")   -> Says(FormatTestDirectory(fs, Append(Request.path, Annotated)))
    [] At("ResolveListFile")   -> Try(fs, FormatListFile(fs, Request.path), fs)
    [] OTHER                   -> Try(fs, FormatListDirectory(fs, Request.path), fs)

\* onData, onExitStatus, onEof and onClose: the command has ended.  The channel
\* may close without an exit status, which is a failure.
Replied ==
  /\ handler.exec = "Reading" /\ handler.reply = "none"
  /\ \E o \in CommandRun : \E lost \in BOOLEAN :
       /\ fs' = o.fs
       /\ Goes([handler EXCEPT !.reply = IF o.ok /\ ~lost THEN "ok" ELSE "fail",
                               !.sure = @ /\ ~lost])
  /\ UNCHANGED <<probed, late>> /\ Calm

\* A command may also never end; the answer may come too late.
TimedOut == handler.exec # "Idle" /\ Fails /\ UNCHANGED probed /\ Calm

\* A command that was given up runs.
LateRun(o) ==
  /\ o \in late /\ late' = late \ {o}
  /\ \E r \in ShellChange(RequestOf[o]) : fs' = r.fs
  /\ handler' = [handler EXCEPT !.sure = handler = NoHandler]
  /\ UNCHANGED <<asked, queue, probed, backend, open, answers>>

\* tryFinishCmd has seen the end of the command: onCmdFinished, by command.
Ended(commands) == handler.exec = "Reading" /\ handler.reply # "none" /\ handler.at \in commands
Ok == handler.reply = "ok"
Run(command) == StartNextCmd([handler EXCEPT !.at = command])

ShortFinished ==
  /\ Ended({"ShortOk"})
  /\ Finish(IF Ok THEN "finished" ELSE "error")
  /\ UNCHANGED probed /\ Tick

CanonicalFinished ==
  /\ Ended({"CanonicalPrimary", "CanonicalFallback"})
  /\ \/ Ok /\ Finish("canonicalized")
     \/ At("CanonicalPrimary") /\ Run("CanonicalFallback")
     \/ At("CanonicalFallback") /\ ~Ok /\ Finish("error")
  /\ UNCHANGED probed /\ Tick

\* The entries of a listing: its symbolic links are looked at one by one.
Entries ==
  LET dir == Request.path
      entries == [n \in Names(fs, Target(fs, dir)) |-> ParseLsLine(fs, dir, n)]
      links == {n \in DOMAIN entries : entries[n].symlink}
  IN IF links = {} THEN FinishWith(Listed, entries)
     ELSE StartNextCmd([handler EXCEPT !.at = "AnnotateSymlink", !.todo = links,
                                       !.entries = entries])

ListFinished ==
  /\ Ended({"ListProbeFullTime", "ListMain"})
  /\ probed' = TRUE
  /\ \/ Ok /\ Entries
     \/ At("ListProbeFullTime") /\ ~Ok /\ Run("ListMain")
     \/ At("ListMain") /\ ~Ok /\ ListFailed
  /\ Tick

AnnotateFinished ==
  /\ Ended({"AnnotateSymlink"})
  /\ LET entries == [handler.entries EXCEPT ![Annotated].linkIsDir = Ok]
         left == handler.todo \ {Annotated}
     IN IF left = {} THEN FinishWith(Listed, entries)
        ELSE StartNextCmd([handler EXCEPT !.todo = left, !.entries = entries])
  /\ UNCHANGED probed /\ Tick

ResolveFinished ==
  /\ Ended({"ResolveTestDir", "ResolveListFile"})
  /\ \/ /\ At("ResolveTestDir") /\ Ok
        /\ StartNextCmd([handler EXCEPT !.resolving = TRUE, !.at = ListCommand])
     \/ At("ResolveTestDir") /\ ~Ok /\ Run("ResolveListFile")
     \/ At("ResolveListFile") /\ Finish(IF Ok THEN "resolvedFile" ELSE "unresolved")
  /\ UNCHANGED probed /\ Tick

-----------------------------------------------------------------------------
Events == RequestMeta \/ RequestEntry \/ RequestTransfer \/ Discard \/ Completed
OnIdle == \/ TimedOut \/ PlanSteps \/ AdvanceOpening \/ AdvanceExecuting
          \/ TransferOnIdle \/ OpenList \/ TickList \/ RunShortOp
          \/ ShortFinished \/ CanonicalFinished \/ ListFinished
          \/ AnnotateFinished \/ ResolveFinished

Next == (\E o \in Ops : Call(o)) \/ Deliver \/ Events \/ OnIdle \/ Replied \/ Cleanup
        \/ (\E o \in late : LateRun(o))

\* The worker's thread serves its events and ticks its handlers in turn, and
\* the interface its signals.
Spec == /\ Init /\ [][Next]_vars
        /\ WF_vars(Events) /\ WF_vars(OnIdle) /\ WF_vars(Deliver)

-----------------------------------------------------------------------------
(* Properties.                                                             *)

\* An operation that waits is never forgotten: m_fsBusy is set exactly while a
\* handler is on the loop or its completion is under way, once; so as long as
\* the connection is open somebody will start what is queued.
Completions == {i \in DOMAIN events : events[i] = "completed"}
SomebodyStartsTheNext ==
  /\ \A i, j \in Completions : i = j
  /\ fsBusy <=> handler # NoHandler \/ Completions # {}
  /\ open /\ pending # <<>> => fsBusy

\* What an answer says is so on the server: a listing names what the directory
\* holds and tells directories, links to them included, from the rest; a link
\* said to lead to a directory does; a change said to be made is made, except
\* that mv and ln put things into a directory that has the new name.
Holds(r) ==
  CASE r.op = "mkdir"  -> Kind(fs', r.path) = "dir"
    [] r.op = "remove" -> Kind(fs', r.path) = "none"
    [] r.op = "rename" -> Kind(fs', r.path) = "none" /\ Kind(fs', r.to) # "none"
    [] OTHER -> \E w \in {Where(fs', r.path), Append(Target(fs', r.path), Last(r.to))} :
                  Node(fs', w) = Link(r.to)

TrueAnswer(a, r, entries) ==
  CASE a = "listed" ->
         /\ DOMAIN entries = Names(fs', Target(fs', r.path))
         /\ \A n \in DOMAIN entries :
              IsDirectoryLike(entries[n]) <=> IsDir(fs', Append(r.path, n))
    [] a = "resolvedDir"  -> IsDir(fs', r.path)
    [] a = "resolvedFile" -> ~IsDir(fs', r.path)
    [] a = "finished"     -> Holds(r)
    [] OTHER              -> TRUE

\* A change touches nothing but the paths it is about: a link is removed or
\* replaced itself, never what it leads to.
Concerns(r) ==
  Below(Where(fs, r.path)) \union
  CASE r.op = "rename"  -> Below(Where(fs, r.to)) \union Below(Target(fs, r.to))
    [] r.op = "symlink" -> {Append(Target(fs, r.path), Last(r.to))}
    [] OTHER            -> {}
AtWork == (IF handler.at = "done" THEN {} ELSE {handler.op}) \union late

DoesWhatItSays ==
  [][/\ LET o == handler.op
        IN /\ o # NoOp /\ KindOf[o] \notin {"transfer", "discard"}
           /\ handler'.sure /\ handler.at # "done" /\ handler'.at = "done" /\ open'
           => TrueAnswer(Last(answers')[2], RequestOf[o], handler'.entries)
     /\ \A q \in {p \in Paths : fs' # fs /\ fs'[p] # fs[p]} :
          \E o \in AtWork : KindOf[o] = "change" /\ q \in Concerns(RequestOf[o])]_vars

\* The worker is the service the interface counts on.
Unanswered == IF handler.at = "done" THEN <<>> ELSE <<handler.op>>
Posted == RemoveFirst(events, "completed")   \* the slots that are still to run
Service == INSTANCE FsService WITH calls <- Unanswered \o pending \o Posted
ServiceSpec == Service!Spec
=============================================================================
