------------------------------ MODULE TreeWalk ------------------------------
(***************************************************************************)
(* The transfer of files and folders as the recursive, blocking functions  *)
(* carry it out: depth first, a folder before what is in it, every entry   *)
(* once, until all is made or the transfer stops short.                    *)
(***************************************************************************)
EXTENDS Naturals, Sequences, FiniteSets, SequencesExt, Lists

CONSTANTS Nodes,      \* the entries of the source
          Children,   \* what a folder holds, in the order of its listing
          Kind,       \* "dir", "file", "link", "dirLink" or "part", a .filepart
          Selections  \* the lists of entries that may be asked for

VARIABLES plan,       \* the entries the transfer makes
          made,       \* those it has made, in order
          ended       \* "no", or the reason it ended for

wvars == <<plan, made, ended>>

Directions == {"upload", "download"}
Reasons == {"Completed", "Canceled", "Interrupted", "StallTimeout", "HashMismatch", "Failed",
            "Closed"}

\* The children that are followed: a download leaves partial files alone.
Taken(direction, n) ==
  IF direction = "upload" THEN Children[n]
  ELSE Pick(Children[n], {i \in DOMAIN Children[n] : Kind[Children[n][i]] # "part"})

Preorder(direction) ==
  LET from[n \in Nodes] ==
        IF Kind[n] # "dir" THEN <<n>>
        ELSE LET held == Taken(direction, n)
             IN  <<n>> \o FlattenSeq([i \in DOMAIN held |-> from[held[i]]])
  IN  from

Plan(direction, roots) ==
  FlattenSeq([i \in DOMAIN roots |-> Preorder(direction)[roots[i]]])

Init == plan = <<>> /\ made = <<>> /\ ended = "Completed"

\* Only the file that was interrupted.
ResumePlans == {<<n>> : n \in {m \in Nodes : Kind[m] # "dir"}}

\* A transfer of roots, or of the one file that was interrupted; it may be
\* refused at once.
Begin ==
  /\ ended # "no" /\ ended' \in {"no", "Failed"} /\ made' = <<>>
  /\ plan' \in ResumePlans \union
               {Plan(d, r) : d \in Directions, r \in Selections}

OneMore == Len(made) < Len(plan) /\ made' = Append(made, plan[Len(made) + 1])

MakeNext == ended = "no" /\ OneMore /\ UNCHANGED <<plan, ended>>

Complete == ended = "no" /\ made = plan /\ ended' = "Completed" /\ UNCHANGED <<plan, made>>

\* Also after a folder is made, when its listing fails.
StopShort ==
  /\ ended = "no" /\ ended' \in Reasons \ {"Completed"} /\ UNCHANGED plan
  /\ OneMore \/ UNCHANGED made

Walk == MakeNext \/ Complete \/ StopShort
Next == Begin \/ Walk

Spec == Init /\ [][Next]_wvars /\ WF_wvars(Walk)
=============================================================================
