------------------------------- MODULE Details -------------------------------
(***************************************************************************)
(* What a list makes of a service or a container of the host, and what its *)
(* detail dialog makes of that row and of the answer to its own question.  *)
(* A row has a state, and a process when one is known: 0 is none.  A field *)
(* that the answer does not have is taken from the row.                    *)
(***************************************************************************)
EXTENDS Naturals

Containers == {"docker", "podman", "containerd"}
Managers == Containers \union {"systemd"}
NoState == [status |-> "", pid |-> 0]

\* Services and containers as they are: one that has stopped has no process, but
\* ctr goes on naming the process of a task that has.
Services == {[status |-> "active", pid |-> 1], [status |-> "inactive", pid |-> 0],
             [status |-> "failed", pid |-> 0], [status |-> "reloading", pid |-> 1]}
DockerContainers ==
  {[status |-> "running", pid |-> 1], [status |-> "restarting", pid |-> 0],
   [status |-> "exited", pid |-> 0], [status |-> "created", pid |-> 0],
   [status |-> "paused", pid |-> 1], [status |-> "dead", pid |-> 0]}
Tasks == {[status |-> "running", pid |-> 1], [status |-> "stopped", pid |-> 1],
          [status |-> "created", pid |-> 0], [status |-> "pausing", pid |-> 1]}

HostOf(manager) == CASE manager = "systemd" -> Services
                     [] manager = "containerd" -> Tasks
                     [] OTHER -> DockerContainers

-----------------------------------------------------------------------------
(* The list.                                                               *)

NormalizeState(raw) ==
  CASE raw \in {"running", "up", "restarting"}               -> "running"
    [] raw \in {"exited", "stopped", "deleted", "dead"}      -> "exited"
    [] raw \in {"paused", "pausing"}                         -> "paused"
    [] raw = "created"                                       -> "created"
    [] OTHER                                                 -> "unknown"

NormalizeActiveState(raw) ==
  IF raw \in {"active", "inactive", "failed", "activating", "deactivating", "reloading",
              "maintenance"} THEN raw ELSE "unknown"

\* docker ps does not tell the process, and systemctl's list neither.
DockerRow(c) == [manager |-> "docker", state |-> NormalizeState(c.status), pid |-> 0]
PodmanRow(c) == [manager |-> "podman", state |-> NormalizeState(c.status), pid |-> 0]
ContainerdRow(t) == [manager |-> "containerd", state |-> NormalizeState(t.status), pid |-> t.pid]
SystemdRow(s) == [manager |-> "systemd", state |-> NormalizeActiveState(s.status), pid |-> 0]

RowsOf(manager) ==
  CASE manager = "docker"     -> {DockerRow(c) : c \in DockerContainers}
    [] manager = "podman"     -> {PodmanRow(c) : c \in DockerContainers}
    [] manager = "containerd" -> {ContainerdRow(t) : t \in Tasks}
    [] OTHER                  -> {SystemdRow(s) : s \in Services}

-----------------------------------------------------------------------------
(* The answer.                                                             *)

\* There is a command only for what the list can show.
InspectContainer(row) == row.manager \in Containers
InspectService(row) == row.manager = "systemd"

\* Of an answer: whether it is JSON, and what; whether it is an object as ctr
\* describes a container, or one that names its unit; what it says of the state.
Forms(manager) == CASE manager = "systemd"    -> {"broken", "object", "lines"}
                    [] manager = "containerd" -> {"broken", "object"}
                    [] OTHER                  -> {"broken", "emptyArray", "array", "object"}
Answers(manager) ==
  [form : Forms(manager), own : BOOLEAN, says : HostOf(manager) \union {NoState}]

FillFromDockerCompatible(row, a) ==
  IF a.says = NoState THEN row
  ELSE [row EXCEPT !.state = NormalizeState(a.says.status), !.pid = a.says.pid]

\* The description of a container says nothing of its task.
FillFromContainerd(row, a) == row

\* What lacks a process has the row's.
WithProcess(out, row) == [out EXCEPT !.pid = IF out.pid = 0 THEN row.pid ELSE out.pid]

ParsesContainer(a) == a.form \in {"array", "object"}
ParseContainer(row, a) ==
  WithProcess(IF a.form = "object" /\ (row.manager = "containerd" \/ a.own)
                THEN FillFromContainerd(row, a) ELSE FillFromDockerCompatible(row, a), row)

\* systemctl show's lines; JSON is understood as well, if it names the unit.
ParsesService(a) == a.form \in {"object", "lines"}
ShowProperties(row, a) ==
  [row EXCEPT !.state = NormalizeActiveState(IF a.says = NoState THEN row.state ELSE a.says.status),
              !.pid = IF a.says = NoState THEN row.pid ELSE a.says.pid]
ParseService(row, a) ==
  IF a.form = "lines" THEN ShowProperties(row, a)
  ELSE IF ~a.own THEN row
  ELSE [row EXCEPT !.state = NormalizeActiveState(a.says.status), !.pid = a.says.pid]

Inspected(row, a) ==
  IF row.manager = "systemd"
    THEN IF ParsesService(a) THEN ParseService(row, a) ELSE row
    ELSE IF ParsesContainer(a) THEN ParseContainer(row, a) ELSE row

-----------------------------------------------------------------------------
\* A dialog that mixes what the row and the answer say never shows the process of
\* something it shows as stopped, unless the row itself did (ctr's stopped tasks);
\* and every row that can be listed can be asked about.
ShownAsEnded(r) == r.state \in {"exited", "created", "inactive", "failed"} /\ r.pid > 0
DetailsAgree ==
  \A manager \in Managers : \A row \in RowsOf(manager) :
    /\ InspectContainer(row) \/ InspectService(row)
    /\ \A a \in Answers(manager) : ShownAsEnded(Inspected(row, a)) => ShownAsEnded(row)
=============================================================================
