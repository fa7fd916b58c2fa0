------------------------------ MODULE FsService ------------------------------
(***************************************************************************)
(* What the remote file system of a session promises to the session's      *)
(* user interface: operations are answered one by one in the order they    *)
(* were asked for, each once and with an answer of its kind, as long as    *)
(* the connection stays open.  Nothing in an answer says which call it     *)
(* belongs to.  Discarding the interrupted transfer does not wait for its  *)
(* turn, or for the connection.  Once that is closed, an operation is      *)
(* refused or never answered.                                              *)
(***************************************************************************)
EXTENDS Sequences, SequencesExt

CONSTANTS Ops,      \* operations
          KindOf    \* the kind of each

VARIABLES calls,    \* operations not answered yet, in the order of the calls
          answers,  \* signals on their way to the interface
          open      \* the connection is up

svars == <<calls, answers, open>>

Kinds == {"list", "resolve", "canonical", "change", "transfer", "discard"}

\* The signals that answer an operation.
AnswersTo(kind) ==
  CASE kind = "list"      -> {"listed", "error"}
    [] kind = "resolve"   -> {"resolvedDir", "resolvedFile", "unresolved", "error"}
    [] kind = "canonical" -> {"canonicalized", "error"}
    [] kind = "transfer"  -> {"finished", "canceled", "interrupted", "error"}
    [] OTHER              -> {"finished", "error"}

Answer(o, a) == answers' = Append(answers, <<o, a>>)

Init == calls = <<>> /\ answers = <<>> /\ open \in BOOLEAN

Submit(o) == calls' = Append(calls, o) /\ UNCHANGED <<answers, open>>

\* The first operation that is not a discard is answered, or any discard.
Turn(i) == \/ KindOf[calls[i]] = "discard"
           \/ \A j \in 1 .. i - 1 : KindOf[calls[j]] = "discard"

Reply(i) ==
  /\ Turn(i) /\ (open \/ KindOf[calls[i]] = "discard")
  /\ \E a \in AnswersTo(KindOf[calls[i]]) : Answer(calls[i], a)
  /\ calls' = RemoveAt(calls, i)
  /\ UNCHANGED open

Refuse(i) ==
  /\ ~open
  /\ \E a \in {"error", "unresolved"} \intersect AnswersTo(KindOf[calls[i]]) :
       Answer(calls[i], a)
  /\ calls' = RemoveAt(calls, i)
  /\ UNCHANGED open

\* The connection ends; a call that was being carried out is given up.
Close ==
  /\ open /\ open' = FALSE
  /\ calls' \in {calls} \union {RemoveAt(calls, i) : i \in DOMAIN calls}
  /\ UNCHANGED answers

\* The interface takes the next signal.
Deliver == answers # <<>> /\ answers' = Tail(answers) /\ UNCHANGED <<calls, open>>

Serve == \E i \in DOMAIN calls : Reply(i) \/ Refuse(i)
Next == (\E o \in Ops : Submit(o)) \/ Serve \/ Close \/ Deliver

SafeSpec == Init /\ [][Next]_svars
Spec == SafeSpec /\ WF_svars(open /\ Serve) /\ WF_svars(Deliver)
=============================================================================
