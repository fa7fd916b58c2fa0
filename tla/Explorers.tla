----------------------------- MODULE Explorers ------------------------------
(***************************************************************************)
(* An explorer page of a session (processes, services, containers or       *)
(* system information): its source asks the host again and again while the *)
(* page is shown, and a table or a set of figures follows the answers; a   *)
(* detail dialog asks one question of its own.  The four sources run the   *)
(* same machine.  What Session::execCommand does with a question is        *)
(* ExecService: each is answered at most once, in any order, and those not *)
(* answered when the session lets go of its worker never are.              *)
(***************************************************************************)
EXTENDS Details, Integers, Sequences, FiniteSets, SequencesExt, Lists

CONSTANTS
  Kinds,       \* the explorers that may be opened
  Calls,       \* request ids; one is used again once nobody waits for it
  Names,       \* the ids of the rows the host may list
  MaxLines,    \* lines of a list, the bound of the model
  MaxCount,    \* a counter of the host and the traffic since a sample, likewise
  MaxTime      \* the time since a sample, likewise

ASSUME KindsAssumption == Kinds \subseteq {"process", "service", "container", "systeminfo"}
ASSUME BoundsAssumption == MaxLines \in Nat /\ MaxCount \in Nat /\ MaxTime \in Nat

None == "none"
NoName == "no name"     \* a row whose id is empty
Gone == -1              \* the interface is not there
Unknown == -1           \* a rate that cannot be told
NoSample == -2          \* m_prev has no value

ASSUME NamesAssumption == NoName \notin Names /\ Calls \intersect {None, "row", "details"} = {}

VARIABLES
  kind,      \* which of the explorers the page is
  session,   \* "up"; "ending": not connected, worker not released; "down"
  page,      \* the page: "closed", "hidden" or "shown"
  src,       \* its source
  rows,      \* the rows of its table model
  view,      \* what ExplorerListWidget shows
  prev,      \* SystemInfoSource::m_prev, the counter of the last sample
  dialog,    \* the question of a detail dialog, or what it shows when it has none
  calls,     \* the questions the session has: sent, or read for by the host
  counter,   \* the host's counter of the interface
  moved,     \* what the interface moved since the host read m_prev, or it was reset
  span,      \* the time since then
  reading,   \* what the host has read for the question the page waits for, and when
  elapsed,   \* SystemInfoSource::m_sampleTimer, the time since m_prev was shown
  order,     \* pairs of the questions the host has read for, the earlier one first
  older,     \* the questions it has read for before a sample the page has shown
  listing,   \* the rows of the last list the page was given
  honest,    \* no rate was shown that exceeds what the interface had carried in the time
  newest     \* no sample was shown after one that was read later

pageVars == <<page, src, rows, view, prev, listing>>
sampleVars == <<prev, moved, span, elapsed, reading>>
history == <<honest, newest>>
hostVars == <<counter, moved, span, elapsed, reading>>
vars == <<kind, session, pageVars, dialog, calls, hostVars, order, older, history>>

Cleared == [running |-> FALSE, active |-> None, after |-> FALSE, capability |-> "Checking"]
NoReading == [counter |-> 0, moved |-> 0, at |-> 0]

\* The ids that mean nothing to anybody, once `left' is what is outstanding.
Free(left) == {c \in Calls : left[c] = "none" /\ dialog # c}
InFlight == src.active # None
ReadFor == {c \in Calls : calls[c] = "read"}

TypeOK ==
  /\ kind \in Kinds /\ session \in {"up", "ending", "down"}
  /\ page \in {"closed", "hidden", "shown"}
  /\ src \in [running : BOOLEAN, active : Calls \union {None}, after : BOOLEAN,
              capability : {"Checking", "Available", "Unavailable", "PermissionDenied",
                            "Error"}]
  /\ view \in {"loading", "list", "empty", "failed"}
  /\ rows \in Seq([id : Names, data : 0 .. 1])
  /\ calls \in [Calls -> {"none", "sent", "read"}]
  /\ reading \in [counter : Gone .. MaxCount, moved : 0 .. MaxCount, at : 0 .. MaxTime]
  /\ dialog \in Calls \union {None, "row", "details"}
  /\ prev \in NoSample .. MaxCount
  /\ counter \in Gone .. MaxCount /\ moved \in 0 .. MaxCount
  /\ span \in 0 .. MaxTime /\ elapsed \in 0 .. span
  /\ order \subseteq ReadFor \X ReadFor /\ older \subseteq ReadFor

Init ==
  /\ kind \in Kinds /\ session = "up" /\ page = "closed"
  /\ src = Cleared /\ rows = <<>> /\ view = "loading"
  /\ prev = NoSample /\ dialog = None
  /\ calls = [c \in Calls |-> "none"] /\ counter = 0 /\ moved = 0
  /\ span = 0 /\ elapsed = 0 /\ reading = NoReading
  /\ order = {} /\ older = {} /\ listing = {}
  /\ honest = TRUE /\ newest = TRUE

-----------------------------------------------------------------------------
(* Answers, and what the parsers make of them.                             *)

Failures == [exit : {-1, 1, 126, 127}, said : {"missing", "denied", "other"}]

Lines == [type : {"row"}, id : Names \union {NoName}, data : 0 .. 1]
           \union [type : {"stats"}, id : Names, data : {1}]
           \union {[type |-> "malformed", id |-> NoName, data |-> 0]}

Outputs == [array : BOOLEAN, whole : BOOLEAN, lines : SeqOf(Lines, MaxLines)]

\* classifyFailure of each parser; ps is the one that is not told by the exit code.
ClassifyFailure(k, f) ==
  IF f.said = "missing" \/ (f.exit = 127 /\ k # "process") THEN "Unavailable"
  ELSE IF f.said = "denied" \/ f.exit = 126 THEN "PermissionDenied"
  ELSE "Error"

\* Lines that are no row are dropped; `docker stats' lines patch the container they name.
ParseList(k, lines) ==
  LET good == Pick(lines, {i \in DOMAIN lines : k # "systeminfo" /\ lines[i].type = "row"})
      HasStats(id) == \E i \in DOMAIN lines : lines[i].type = "stats" /\ lines[i].id = id
  IN  [i \in DOMAIN good |->
         [id |-> good[i].id,
          data |-> IF k = "container" THEN IF HasStats(good[i].id) THEN 1 ELSE 0
                   ELSE good[i].data]]

\* A JSON array or object that is cut short is an error, a line that is cut short is not.
Parses(k, o) == CASE k = "service" -> o.array => o.whole
                  [] k = "systeminfo" -> o.whole
                  [] OTHER -> TRUE

Capabilities == [k \in Kinds |-> {ClassifyFailure(k, f) : f \in Failures}]
Snapshots == [k \in Kinds |-> {ParseList(k, o.lines) : o \in {x \in Outputs : Parses(k, x)}}]
Broken == [k \in Kinds |-> \E o \in Outputs : ~Parses(k, o)]

-----------------------------------------------------------------------------
(* The table model and the list widget.                                    *)

IdsOf(s) == {s[i].id : i \in DOMAIN s}

\* The snapshot without the rows that have no id or come a second time.
Distinct(s) ==
  Pick(s, {i \in DOMAIN s : s[i].id # NoName /\ \A j \in 1 .. i - 1 : s[j].id # s[i].id})

\* Rows that are gone leave, the others are updated where they are, new ones follow.
ApplySnapshot(old, snapshot) ==
  LET incoming == Distinct(snapshot)
      Incoming(id) == incoming[CHOOSE i \in DOMAIN incoming : incoming[i].id = id]
      kept == Pick(old, {i \in DOMAIN old : old[i].id \in IdsOf(incoming)})
  IN  [i \in DOMAIN kept |-> Incoming(kept[i].id)]
        \o Pick(incoming, {i \in DOMAIN incoming : incoming[i].id \notin IdsOf(old)})

\* applyCapabilityUi.
ViewOf(capability, table) ==
  CASE capability = "Checking"  -> IF table # <<>> THEN "list" ELSE "loading"
    [] capability = "Available" -> IF table # <<>> THEN "list" ELSE "empty"
    [] OTHER -> "failed"

\* Mutant: rowsInserted and rowsRemoved are not connected.
RefreshedByCapability(capability, table) ==
  IF capability # src.capability \/ capability = "Error" THEN ViewOf(capability, rows) ELSE view

\* The widget is told of another capability, of a failure, and of rows that come or go.
Refreshed(capability, table) ==
  IF IdsOf(table) # IdsOf(rows) THEN ViewOf(capability, table)
  ELSE IF capability # src.capability \/ capability = "Error" THEN ViewOf(capability, rows)
  ELSE view

ShowCapability(capability) ==
  /\ view' = IF kind = "systeminfo" THEN view ELSE Refreshed(capability, rows)
  /\ UNCHANGED <<rows, listing>>

ShowList(snapshot) ==
  LET table == ApplySnapshot(rows, snapshot)
  IN  /\ rows' = table
      /\ view' = Refreshed("Available", table)
      /\ listing' = {snapshot[i] : i \in {j \in DOMAIN snapshot : /\ snapshot[j].id # NoName
                                             /\ \A k \in 1 .. j - 1 :
                                                  snapshot[k].id # snapshot[j].id}}

-----------------------------------------------------------------------------
(* The source.                                                             *)

\* requestList, requestFetch: the question goes to the session under an id of its own.
\* `base' is the source, `left' what is outstanding before it asks.
Ask(base, left) ==
  /\ session = "up"
  /\ \E c \in Free(left) : /\ src' = [base EXCEPT !.active = c]
                            /\ calls' = [left EXCEPT ![c] = "sent"]

\* m_prev.reset: nothing is kept, or known, of a sample.
NoSampleKept ==
  /\ prev' = NoSample /\ moved' = 0 /\ span' = 0 /\ elapsed' = 0 /\ reading' = NoReading

\* start: a source that runs already is left alone.
Start ==
  IF src.running THEN UNCHANGED <<src, calls, view, rows, listing, sampleVars>>
  ELSE LET capability == IF src.capability = "Available" THEN "Available" ELSE "Checking"
       IN  /\ Ask([src EXCEPT !.running = TRUE, !.capability = capability], calls)
           /\ ShowCapability(capability)
           /\ NoSampleKept

\* stop: the answer to a question that is on its way is not waited for any more.
Stopped(s) == [s EXCEPT !.running = FALSE, !.active = None, !.after = FALSE]

\* Mutant: the request id is not looked at.
AcceptsAny(c) == src.running /\ InFlight /\ dialog # c

\* onCommandFinished listens to the question it asked last, while it runs.
Accepts(c) == c = src.active /\ src.running

\* applyClientDeltas: a figure needs the device in both samples, and a counter that grew.
Delta(before, now) ==
  IF before \in {NoSample, Gone} \/ now = Gone \/ now < before THEN Unknown ELSE now - before

\* It is divided by m_sampleTimer, the time since the sample before was shown.
HasRate == prev # NoSample /\ elapsed > 0

\* The rate Delta / time is at most what was carried between the readings, per time.
RateFits(time) == Delta(prev, reading.counter) * reading.at <= reading.moved * time

\* This answer took less time than the one before, span - reading.at < span - elapsed.
Faster == elapsed < reading.at

RateAgrees ==
  /\ Delta(prev, reading.counter) <= reading.moved
  /\ RateFits(elapsed) \/ Faster
  /\ RateFits(span)

\* Mutant: the clock starts again, but a sample that is there is kept.
ShowFiguresOfOld ==
  /\ honest' = (honest /\ (HasRate => RateAgrees))
  /\ prev' = (IF prev = NoSample THEN reading.counter ELSE prev) /\ elapsed' = 0
  /\ moved' = moved - reading.moved /\ span' = span - reading.at
  /\ reading' = NoReading

\* m_prev takes the sample that was read, and the clock starts again.
ShowFigures ==
  /\ honest' = (honest /\ (HasRate => RateAgrees))
  /\ prev' = reading.counter /\ elapsed' = 0
  /\ moved' = moved - reading.moved /\ span' = span - reading.at
  /\ reading' = NoReading

\* A question asked while another was on its way is asked when that one is answered.
ThenAskAgain(base, left) ==
  IF src.after THEN Ask([base EXCEPT !.after = FALSE], left) ELSE src' = base /\ calls' = left

Answered(c) == [calls EXCEPT ![c] = "none"]
Silent == [src EXCEPT !.active = None]

Forget(c) ==
  /\ order' = {p \in order : c \notin {p[1], p[2]}}
  /\ older' = older \ {c}

OnFailure(c, capability) ==
  /\ ThenAskAgain([Silent EXCEPT !.capability = capability], Answered(c))
  /\ ShowCapability(capability)
  /\ Forget(c)
  /\ UNCHANGED <<sampleVars, history>>

\* Output that cannot be parsed does not ask again, whatever was wanted meanwhile.
OnUnparsable(c) ==
  /\ src' = [Silent EXCEPT !.capability = "Error"] /\ calls' = Answered(c)
  /\ ShowCapability("Error")
  /\ Forget(c)
  /\ UNCHANGED <<sampleVars, history>>

OnSnapshot(c, snapshot) ==
  /\ ThenAskAgain([Silent EXCEPT !.capability = "Available"], Answered(c))
  /\ IF kind = "systeminfo"
       THEN ShowFigures /\ UNCHANGED <<rows, view, listing>>
       ELSE ShowList(snapshot) /\ UNCHANGED <<sampleVars, honest>>
  /\ newest' = (newest /\ c \notin older)
  /\ order' = {p \in order : c \notin {p[1], p[2]}}
  /\ older' = (older \union {d \in Calls : <<d, c>> \in order}) \ {c}

-----------------------------------------------------------------------------
(* The user and the page.                                                  *)

\* The page is made and bound, and docked; showEvent is a step of its own.
OpenPage(k) ==
  /\ kind = k /\ session = "up" /\ page = "closed"
  /\ page' = "hidden" /\ src' = Cleared /\ view' = "loading"
  /\ UNCHANGED <<kind, session, rows, prev, dialog, calls, hostVars, order, older,
                 listing, history>>

OpenProcessExplorer == OpenPage("process")
OpenServiceExplorer == OpenPage("service")
OpenContainerExplorer == OpenPage("container")
OpenSystemInfo == OpenPage("systeminfo")

ShowPage ==
  /\ page = "hidden" /\ page' = "shown"
  /\ Start
  /\ UNCHANGED <<kind, session, dialog, counter, order, older, history>>

HidePage ==
  /\ page = "shown" /\ page' = "hidden"
  /\ src' = Stopped(src) /\ NoSampleKept
  /\ UNCHANGED <<kind, session, rows, view, dialog, calls, counter, order, older,
                 listing, history>>

\* unbind: source and model are deleted.
Unbound ==
  /\ page' = "closed" /\ src' = Cleared /\ rows' = <<>> /\ view' = "loading"
  /\ listing' = {} /\ NoSampleKept

ClosePage ==
  /\ page # "closed" /\ Unbound
  /\ UNCHANGED <<kind, session, dialog, calls, counter, order, older, history>>

\* refresh, which the macOS interface offers on every explorer.
Refresh ==
  /\ page = "shown"
  /\ IF src.running /\ InFlight
       THEN /\ src' = [src EXCEPT !.after = TRUE]
            /\ UNCHANGED <<calls, view, rows, listing, sampleVars>>
       ELSE IF src.running
         THEN Ask(src, calls) /\ UNCHANGED <<view, rows, listing, sampleVars>>
         ELSE Start
  /\ UNCHANGED <<kind, session, page, dialog, counter, order, older, history>>

\* The details of a row: the dialog belongs to the window and outlives the page.
\* It shows the row at first, and asks about a service or a container.
OpenDetails(k) ==
  /\ kind = k /\ page = "shown" /\ rows # <<>> /\ dialog = None
  /\ UNCHANGED <<kind, session, pageVars, hostVars, order, older, history>>

OpenProcessDetails == OpenDetails("process") /\ dialog' = "row" /\ UNCHANGED calls
AskDetails == \E c \in Free(calls) : dialog' = c /\ calls' = [calls EXCEPT ![c] = "sent"]
OpenServiceDetails == OpenDetails("service") /\ AskDetails
OpenContainerDetails == OpenDetails("container") /\ AskDetails

CloseDetails ==
  /\ dialog # None /\ dialog' = None
  /\ UNCHANGED <<kind, session, pageVars, calls, hostVars, order, older, history>>

-----------------------------------------------------------------------------
(* The timer, the answers and the session.                                 *)

\* Mutant: every tick asks, also while an answer is on its way.
PollAlways ==
  /\ src.running
  /\ Ask(src, calls)
  /\ UNCHANGED <<kind, session, page, rows, view, prev, dialog, hostVars, order, older,
                 listing, history>>

OnPollTick ==
  /\ src.running /\ ~InFlight
  /\ Ask(src, calls)
  /\ UNCHANGED <<kind, session, page, rows, view, prev, dialog, hostVars, order, older,
                 listing, history>>

\* The dialog's own question is answered: it goes on showing the row, with the
\* reason, unless it can read the answer.
DialogShows(c, content) == dialog' = IF dialog = c THEN content ELSE dialog

\* The page has stopped or asked again since: only a dialog may have waited for it.
NotForThePage(c, contents) ==
  /\ calls' = Answered(c) /\ Forget(c)
  /\ \E content \in contents : DialogShows(c, content)
  /\ UNCHANGED <<src, view, rows, listing, sampleVars, history>>

\* The session reports a failure of its own, or of the command.
AnswerFailure(c) ==
  /\ session # "down" /\ calls[c] # "none"
  /\ \/ /\ Accepts(c) /\ UNCHANGED dialog
        /\ \E capability \in Capabilities[kind] : OnFailure(c, capability)
     \/ ~Accepts(c) /\ NotForThePage(c, {"row"})
  /\ UNCHANGED <<kind, session, page, counter>>

\* Output of the command.
AnswerOutput(c) ==
  /\ session # "down" /\ calls[c] = "read"
  /\ \/ /\ Accepts(c) /\ UNCHANGED dialog
        /\ \/ \E snapshot \in Snapshots[kind] : OnSnapshot(c, snapshot)
           \/ Broken[kind] /\ OnUnparsable(c)
     \/ ~Accepts(c) /\ NotForThePage(c, {"row", "details"})
  /\ UNCHANGED <<kind, session, page, counter>>

\* The session leaves Connected: SessionPage clears its layout, which closes the page.
SessionEnds ==
  /\ session = "up" /\ session' = "ending" /\ Unbound
  /\ UNCHANGED <<kind, dialog, calls, counter, order, older, history>>

\* releaseWorkerAsync: what was not answered is not answered any more.
ReleaseWorker ==
  /\ session = "ending" /\ session' = "down"
  /\ calls' = [c \in Calls |-> "none"] /\ order' = {} /\ older' = {}
  /\ UNCHANGED <<kind, pageVars, dialog, hostVars, history>>

Reconnect ==
  /\ session = "down" /\ session' = "up"
  /\ UNCHANGED <<kind, pageVars, dialog, calls, hostVars, order, older, history>>

-----------------------------------------------------------------------------
(* The host.                                                               *)

\* A command reads the state of the host at one moment.
HostReads(c) ==
  /\ calls[c] = "sent"
  /\ calls' = [calls EXCEPT ![c] = "read"]
  /\ reading' = IF c = src.active THEN [counter |-> counter, moved |-> moved, at |-> span]
                ELSE reading
  /\ order' = order \union {<<d, c>> : d \in ReadFor}
  /\ UNCHANGED <<kind, session, pageVars, dialog, counter, moved, span, elapsed, older, history>>

\* The interface carries one unit.
Traffic ==
  /\ kind = "systeminfo" /\ counter \in 0 .. MaxCount - 1 /\ moved < MaxCount
  /\ counter' = counter + 1 /\ moved' = moved + 1
  /\ UNCHANGED <<kind, session, pageVars, dialog, calls, span, elapsed, reading, order,
                 older, history>>

\* Time passes while the source runs.
TimePasses ==
  /\ kind = "systeminfo" /\ src.running /\ span < MaxTime
  /\ span' = span + 1
  /\ elapsed' = IF prev = NoSample THEN elapsed ELSE elapsed + 1
  /\ UNCHANGED <<kind, session, pageVars, dialog, calls, counter, moved, reading, order,
                 older, history>>

\* The interface goes, or comes back and counts from zero.
Replaced ==
  /\ kind = "systeminfo" /\ counter' = IF counter = Gone THEN 0 ELSE Gone
  /\ UNCHANGED <<kind, session, pageVars, dialog, calls, moved, span, elapsed, reading, order, older,
                 history>>

-----------------------------------------------------------------------------
Next ==
  \/ OpenProcessExplorer \/ OpenServiceExplorer \/ OpenContainerExplorer \/ OpenSystemInfo
  \/ ShowPage \/ HidePage \/ ClosePage \/ Refresh
  \/ OpenProcessDetails \/ OpenServiceDetails \/ OpenContainerDetails \/ CloseDetails
  \/ OnPollTick
  \/ \E c \in Calls : AnswerFailure(c) \/ AnswerOutput(c) \/ HostReads(c)
  \/ SessionEnds \/ ReleaseWorker \/ Reconnect
  \/ Traffic \/ Replaced \/ TimePasses

Fairness ==
  /\ SF_vars(OnPollTick)
  /\ WF_vars(ReleaseWorker)
  /\ \A c \in Calls : WF_vars(HostReads(c)) /\ WF_vars(AnswerOutput(c) \/ AnswerFailure(c))

Spec == Init /\ [][Next]_vars
FairSpec == Spec /\ Fairness

-----------------------------------------------------------------------------
(* Properties.                                                             *)

\* Stopping, hiding and asking again leave questions behind, which the host may answer
\* in any order: a page never goes back to a state of the host older than one it has
\* shown (the request-id filter of onCommandFinished).
NeverOlder == newest

\* The table holds the rows of the last list and nothing else, each once, although it
\* is patched row by row.
RowsAreTheListing == /\ {rows[i] : i \in DOMAIN rows} = listing
                     /\ Len(rows) = Cardinality(listing)

\* The list widget, told of changes by signals, shows what capability and rows ask for.
ViewIsCurrent == page # "closed" /\ kind # "systeminfo" => view = ViewOf(src.capability, rows)

\* A rate never comes from more than the interface has carried since the sample before,
\* and is never higher than what it carried per unit of time between the two readings,
\* although applyClientDeltas divides by the time between the answers, counters restart
\* and the page is hidden and shown meanwhile; unless this answer took less time than the
\* one before: applyClientDeltas does show too high a rate then.
RateIsNotExaggerated == honest

\* In no run: without the exception it does not hold.
RateIsTrue ==
  kind = "systeminfo" /\ HasRate /\ src.active \in ReadFor => RateFits(elapsed)

\* What is shown is what the host said: applySnapshot, applyCapabilityUi and
\* applyClientDeltas of the page, and parseInspect of its dialogs together.
ShownIsTrue == RowsAreTheListing /\ ViewIsCurrent /\ RateIsNotExaggerated /\ DetailsAgree

\* The answer to the page's question arrives.
Accepted == \E c \in Calls : c = src.active /\ (calls'[c] = "none" \/ (src.after /\ ~src'.after))

\* A page that stays open keeps being answered: polling, refreshing and slow answers do
\* not starve it (onPollTick waits for the question on its way); and a detail dialog
\* waits for ever only when the session has let go of its worker.
KeepsBeingAnswered ==
  /\ <>[](page = "shown") => []<><<Accepted>>_vars
  /\ \A c \in Calls : (dialog = c) ~> (dialog # c \/ calls[c] = "none")
=============================================================================
