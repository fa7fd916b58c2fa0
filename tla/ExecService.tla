----------------------------- MODULE ExecService -----------------------------
(***************************************************************************)
(* What Session::execCommand promises to the explorers, without the queue, *)
(* the handlers or the threads: a request is submitted once, at most       *)
(* MaxConcurrent of them run at a time, and each is answered at most once. *)
(* When the session lets go of its worker, the requests it has not         *)
(* answered are abandoned.                                                 *)
(*                                                                         *)
(* ExecPool is shown to implement this specification.                      *)
(***************************************************************************)
EXTENDS Naturals, FiniteSets

CONSTANTS Requests,       \* the requests callers may submit
          MaxConcurrent   \* SshWorker::kMaxConcurrentExec

VARIABLE status           \* what the caller can tell about each request

Status == {"new", "waiting", "active", "answered", "abandoned"}

Running == {r \in Requests : status[r] = "active"}

TypeOK == status \in [Requests -> Status]

Init == status = [r \in Requests |-> "new"]

Move(r, from, to) ==
    /\ status[r] \in from
    /\ status' = [status EXCEPT ![r] = to]

Submit(r) == Move(r, {"new"}, "waiting")

(* A request starts to run only while fewer than MaxConcurrent do. *)
Begin(r) ==
    /\ Cardinality(Running) < MaxConcurrent
    /\ Move(r, {"waiting"}, "active")

(* A request answered without running was refused, or failed to start. *)
Answer(r) == Move(r, {"new", "waiting", "active"}, "answered")

(* Several open requests fail together when the transport goes away. *)
FailSome ==
    \E S \in SUBSET {r \in Requests : status[r] \in {"waiting", "active"}} :
        status' = [r \in Requests |-> IF r \in S THEN "answered" ELSE status[r]]

Abandon ==
    status' = [r \in Requests |-> IF status[r] \in {"waiting", "active"}
                                    THEN "abandoned" ELSE status[r]]

Next == \/ \E r \in Requests : Submit(r) \/ Begin(r) \/ Answer(r)
        \/ FailSome
        \/ Abandon

Spec == Init /\ [][Next]_status
=============================================================================
