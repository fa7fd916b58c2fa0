--------------------------- MODULE TransferProofs ----------------------------
(***************************************************************************)
(* Proofs about the transfers: FileTransfer, one file, for any size, any   *)
(* set of blocks and any of its bounds, then TreeTransfer, whole trees of  *)
(* any shape.                                                              *)
(***************************************************************************)
EXTENDS FileTransfer, TreeTransfer, FiniteSetTheorems, SequenceTheorems, TLAPS

-----------------------------------------------------------------------------
(***************************************************************************)
(* FileTransfer.                                                           *)
(***************************************************************************)

(* A local source may change at any time, but not between the two readings *)
(* of its prefix at the start of a resume; a remote source stays as it is. *)
Undisturbed == Editable \subseteq {"upload"} \X (Stages \ {"verified"})

(* The file is open, and the part is being written or is complete.         *)
Copies == stage \in {"copying", "removing", "renaming"} /\ activeOp # "sync"

(* The hash of a job is that of as many blocks as it says.                 *)
Hashed == job # NoJob => Len(job.prefix) = job.done

(* A resume goes on from the prefix of the source that the part holds.     *)
Continues ==
    stage = "verified" =>
        /\ activeOp \in Resumes /\ part # Missing
        /\ Len(part) = done /\ part = First(done, source)

(* The part, unless it has been discarded, holds what has been hashed.     *)
Follows == Copies => part \in {Missing, streamed} /\ Len(streamed) = done

(* A source that does not change is copied from its beginning.             *)
Steady ==
    fileDirection # "upload" =>
        /\ versions = {source}
        /\ job # NoJob => job.prefix = First(job.done, source)
        /\ stage = "verified" \/ Copies => total = Len(source)
        /\ Copies => streamed = First(done, source)

(* What is about to get the final name, and what has got it, is a version. *)
Whole ==
    stage \in {"removing", "renaming"} => activeOp # "sync" /\ part \in versions \cup {Missing}
Arrived == stage = "done" /\ activeOp # "sync" => final \in versions

(* An operation that runs has left no job yet and reported no failure.     *)
Unheard == stage \notin {"idle", "start"} => lastJob = NoJob /\ outcome \in {"none", "finished"}

FileIInv ==
    /\ FileTypeOK /\ source \in versions
    /\ Hashed /\ Continues /\ Follows /\ Steady /\ Whole /\ Arrived /\ Unheard
    /\ FinalIsAVersion
-----------------------------------------------------------------------------
(* The contents of a file is a sequence of at most Size blocks.            *)
LEMMA ContentsAreBlocks ==
  ASSUME NEW text
  PROVE  text \in Contents <=> text \in Seq(Blocks) /\ Len(text) <= Size
<1>1. ASSUME text \in Contents
      PROVE  text \in Seq(Blocks) /\ Len(text) <= Size
  <2>1. PICK n \in 0..Size : text \in [1..n -> Blocks]
    BY <1>1 DEF Contents
  <2>2. n \in Nat
    BY <2>1, SizeAssumption
  <2>3. text \in Seq(Blocks) /\ Len(text) = n
    BY <2>1, <2>2, SeqDef
  <2> QED
    BY <2>1, <2>2, <2>3, SizeAssumption
<1>2. ASSUME text \in Seq(Blocks), Len(text) <= Size
      PROVE  text \in Contents
  <2>1. Len(text) \in 0..Size /\ text \in [1..Len(text) -> Blocks]
    BY <1>2, SizeAssumption, LenProperties
  <2> QED
    BY <2>1 DEF Contents
<1> QED
  BY <1>1, <1>2

(* A prefix of a file is the contents of a file, of the length asked for.  *)
LEMMA FirstBlocks ==
  ASSUME NEW text \in Contents, NEW n \in 0..Len(text)
  PROVE  /\ First(n, text) \in Contents /\ Len(First(n, text)) = n
         /\ \A i \in 1..n : First(n, text)[i] = text[i]
<1>1. text \in Seq(Blocks) /\ Len(text) \in 0..Size /\ n \in 0..Size
  BY ContentsAreBlocks, LenProperties, SizeAssumption
<1>2. \A i \in 1..n : text[i] \in Blocks
  BY <1>1, ElementOfSeq
<1>3. /\ SubSeq(text, 1, n) \in Seq(Blocks)
      /\ Len(SubSeq(text, 1, n)) = n
      /\ \A i \in 1..n : SubSeq(text, 1, n)[i] = text[i]
  BY <1>1, <1>2, SubSeqProperties
<1>4. SubSeq(text, 1, n) \in Contents
  <2>1. Len(SubSeq(text, 1, n)) <= Size
    BY <1>1, <1>3, SizeAssumption
  <2> QED
    BY <1>3, <2>1, ContentsAreBlocks
<1> QED
  BY <1>3, <1>4 DEF First

(* The prefix as long as the file is the file.                             *)
LEMMA AllBlocks ==
  ASSUME NEW text \in Contents
  PROVE  First(Len(text), text) = text
BY ContentsAreBlocks, SubSeqFull DEF First

(* The next block of the file makes the prefix longer by one.              *)
LEMMA NextBlock ==
  ASSUME NEW text \in Contents, NEW n \in Nat, n < Len(text)
  PROVE  Append(First(n, text), text[n + 1]) = First(n + 1, text) /\ text[n + 1] \in Blocks
<1>1. text \in Seq(Blocks) /\ Len(text) \in Nat
  BY ContentsAreBlocks
<1>2. n \in 0..Len(text) /\ n + 1 \in 0..Len(text) /\ n + 1 \in 1..Len(text)
  BY <1>1
<1>3. text[n + 1] \in Blocks
  BY <1>1, <1>2, ElementOfSeq
<1>4. /\ First(n, text) \in Seq(Blocks) /\ Len(First(n, text)) = n
      /\ \A i \in 1..n : First(n, text)[i] = text[i]
  BY <1>2, FirstBlocks, ContentsAreBlocks
<1>5. /\ First(n + 1, text) \in Seq(Blocks) /\ Len(First(n + 1, text)) = n + 1
      /\ \A i \in 1..n + 1 : First(n + 1, text)[i] = text[i]
  BY <1>2, FirstBlocks, ContentsAreBlocks
<1>6. /\ Append(First(n, text), text[n + 1]) \in Seq(Blocks)
      /\ Len(Append(First(n, text), text[n + 1])) = n + 1
      /\ \A i \in 1..n + 1 : Append(First(n, text), text[n + 1])[i] = text[i]
  BY <1>3, <1>4
<1> QED
  BY <1>3, <1>5, <1>6, SeqEqual

(* A block appended to a file that is not full makes a longer file.        *)
LEMMA OneBlockMore ==
  ASSUME NEW text \in Contents, NEW block \in Blocks, Len(text) < Size
  PROVE  Append(text, block) \in Contents /\ Len(Append(text, block)) = Len(text) + 1
<1>1. text \in Seq(Blocks) /\ Len(text) \in Nat
  BY ContentsAreBlocks
<1>2. Append(text, block) \in Seq(Blocks) /\ Len(Append(text, block)) = Len(text) + 1
  BY <1>1
<1>3. Len(Append(text, block)) <= Size
  BY <1>1, <1>2, SizeAssumption
<1> QED
  BY <1>2, <1>3, ContentsAreBlocks

(* A file to which a block was appended still begins with what it held.    *)
LEMMA BeginningKept ==
  ASSUME NEW text \in Contents, NEW block \in Blocks, Len(text) < Size
  PROVE  First(Len(text), Append(text, block)) = text
<1>1. text \in Seq(Blocks) /\ Len(text) \in Nat
  BY ContentsAreBlocks
<1>2. Append(text, block) \in Contents /\ Len(text) \in 0..Len(Append(text, block))
  BY <1>1, OneBlockMore
<1>3. /\ First(Len(text), Append(text, block)) \in Seq(Blocks)
      /\ Len(First(Len(text), Append(text, block))) = Len(text)
      /\ \A i \in 1..Len(text) : First(Len(text), Append(text, block))[i] = Append(text, block)[i]
  BY <1>2, FirstBlocks, ContentsAreBlocks
<1>4. \A i \in 1..Len(text) : Append(text, block)[i] = text[i]
  BY <1>1
<1> QED
  BY <1>1, <1>3, <1>4, SeqEqual

(* The empty file.                                                         *)
LEMMA NoBlocks == <<>> \in Contents /\ Len(<<>>) = 0
<1>1. <<>> \in Seq(Blocks) /\ Len(<<>>) = 0
  BY EmptySeq
<1>2. Len(<<>>) <= Size
  BY <1>1, SizeAssumption
<1> QED
  BY <1>1, <1>2, ContentsAreBlocks
-----------------------------------------------------------------------------
(* The next operation of the queue is started, or there is none.           *)
LEMMA NextIsStarted ==
  ASSUME FileTypeOK, NextOp
  PROVE  /\ total' = 0 /\ done' = 0 /\ streamed' = <<>>
         /\ activeOp' \in Ops \cup {"none"} /\ stage' \in {"idle", "start"}
         /\ (activeOp' = "none") <=> (stage' = "idle")
         /\ queue' \in Seq(Ops) /\ Len(queue') <= MaxQueue
<1>1. queue \in Seq(Ops) /\ Len(queue) <= MaxQueue /\ MaxQueue \in Nat
  BY BoundAssumption DEF FileTypeOK
<1>2. CASE queue = <<>>
  BY <1>1, <1>2 DEF NextOp
<1>3. CASE queue # <<>>
  <2>1. Head(queue) \in Ops /\ Tail(queue) \in Seq(Ops) /\ Len(Tail(queue)) = Len(queue) - 1
    BY <1>1, <1>3, HeadTailProperties
  <2>2. Len(Tail(queue)) <= MaxQueue /\ Head(queue) # "none"
    BY <1>1, <2>1 DEF Ops
  <2> QED
    BY <1>3, <2>1, <2>2 DEF NextOp
<1> QED
  BY <1>2, <1>3

(* A failure is reported to the explorer, and the operation is over.       *)
LEMMA FailureIsTold ==
  ASSUME FileTypeOK, NEW why, NEW left, EmitFailure(why, left)
  PROVE  /\ NextOp
         /\ busy' = FALSE /\ resumable' \in BOOLEAN
         /\ outcome' \in {"canceled", "interrupted", "error"}
BY DEF EmitFailure, Report, FileTypeOK

(* The part that a failure leaves begins with what it held, or has lost    *)
(* some of it.                                                             *)
LEMMA WhatIsLeft ==
  ASSUME FileIInv, Copies, NEW left \in Written
  PROVE  /\ left \in Contents \cup {Missing}
         /\ part = Missing => left = Missing
         /\ part # Missing /\ done <= Len(left) => First(done, left) = part
         /\ fileDirection = "upload" /\ part # Missing => done <= Len(left)
<1>1. /\ source \in Contents /\ part \in Contents \cup {Missing}
      /\ done \in 0..Size /\ (part # Missing => Len(part) = done)
  BY DEF FileIInv, FileTypeOK, Follows
<1>3. CASE part = Missing
  <2>1. left = Missing
    BY <1>3 DEF Written, Unflushed
  <2> QED
    BY <1>3, <2>1
<1>4. CASE part # Missing /\ left = part
  <2>1. First(done, part) = part
    BY <1>1, <1>4, AllBlocks
  <2> QED
    BY <1>1, <1>4, <2>1
<1>5. ASSUME fileDirection = "download", part # Missing, NEW n \in 0..Len(part),
             left = First(n, part)
      PROVE  /\ left \in Contents
             /\ done <= Len(left) => First(done, left) = part
  <2>1. left \in Contents /\ Len(left) = n /\ Len(part) = done
    BY <1>1, <1>5, FirstBlocks
  <2>2. ASSUME done <= Len(left)
        PROVE  First(done, left) = part
    <3>1. n = done /\ First(done, part) = part
      BY <1>1, <1>5, <2>1, <2>2, AllBlocks
    <3>2. left = part
      BY <1>5, <3>1
    <3> QED
      BY <3>1, <3>2
  <2> QED
    BY <2>1, <2>2
<1>6. ASSUME part # Missing, done < Len(source), left = Append(part, source[done + 1])
      PROVE  left \in Contents /\ Len(left) = done + 1 /\ First(done, left) = part
  <2>1. source[done + 1] \in Blocks /\ Len(source) <= Size /\ Len(source) \in Nat
    BY <1>1, <1>6, NextBlock, ContentsAreBlocks
  <2>2. part \in Contents /\ Len(part) = done /\ done < Size
    BY <1>1, <1>6, <2>1, SizeAssumption
  <2> QED
    BY <1>6, <2>1, <2>2, OneBlockMore, BeginningKept
<1>7. CASE part # Missing
  <2>1. \/ left = part
        \/ fileDirection = "download" /\ \E n \in 0..Len(part) : left = First(n, part)
        \/ done < Len(source) /\ left = Append(part, source[done + 1])
    BY <1>7 DEF Written, Unflushed
  <2>2. left \in Contents
    BY <1>1, <1>4, <1>5, <1>6, <1>7, <2>1
  <2> QED
    BY <1>1, <1>4, <1>5, <1>6, <1>7, <2>1, <2>2
<1> QED
  BY <1>3, <1>7

(* A job that is left describes what the part held, and of a source that   *)
(* does not change it has the hash of the prefix.                          *)
LEMMA PartialFits ==
  ASSUME FileIInv, Copies, NEW left \in Written, Partial(left) # NoJob
  PROVE  /\ Partial(left) \in Jobs /\ Len(Partial(left).prefix) = Partial(left).done
         /\ fileDirection # "upload" => Partial(left).prefix = First(Partial(left).done, source)
         /\ left = Missing \/ (Fits(Partial(left), part) /\ First(Len(part), left) = part)
<1> DEFINE it == Copied(left)
<1>1. Partial(left) = [done |-> done, prefix |-> First(done, it)]
  BY DEF Partial
<1>2. done > 0 /\ it # Missing /\ done <= Len(it)
  BY DEF Partial
<1>3. /\ source \in Contents /\ part \in Contents \cup {Missing}
      /\ streamed \in Contents /\ done \in 0..Size
      /\ left \in Contents \cup {Missing}
  BY WhatIsLeft DEF FileIInv, FileTypeOK
<1>4. it \in Contents
  BY <1>2, <1>3 DEF Copied
<1>5. done \in 1..Size /\ done \in 0..Len(it)
  BY <1>2, <1>3, <1>4, ContentsAreBlocks, SizeAssumption
<1>6. First(done, it) \in Contents /\ Len(First(done, it)) = done
  BY <1>4, <1>5, FirstBlocks
<1>7. ASSUME left # Missing
      PROVE  part # Missing /\ Len(part) = done /\ First(done, left) = part
  <2>1. part # Missing
    BY <1>7, WhatIsLeft
  <2>2. done <= Len(left)
    BY <1>2, <2>1, WhatIsLeft DEF Copied
  <2>3. Len(part) = done
    BY <2>1 DEF FileIInv, Follows
  <2> QED
    BY <2>1, <2>2, <2>3, WhatIsLeft
<1>8. ASSUME fileDirection # "upload"
      PROVE  First(done, it) = First(done, source)
  <2>1. left # Missing /\ it = left
    BY <1>2, <1>8 DEF Copied
  <2>2. First(done, it) = part
    BY <1>7, <2>1
  <2>3. part = First(done, source)
    BY <1>7, <1>8, <2>1 DEF FileIInv, Follows, Steady
  <2> QED
    BY <2>2, <2>3
<1>9. left = Missing \/ (Fits(Partial(left), part) /\ First(Len(part), left) = part)
  BY <1>1, <1>7 DEF Fits
<1> QED
  BY <1>1, <1>5, <1>6, <1>8, <1>9 DEF Jobs

(* Whatever ends an operation leaves the source and the named file as they *)
(* are, with the job that there was or the one of the part that is left.   *)
LEMMA OperationEnds ==
  ASSUME FileIInv, NextOp,
         UNCHANGED <<source, final, editVars, online>>,
         part' # part => part' \in Contents \cup {Missing},
         job' # job => /\ job' \in Jobs /\ Len(job'.prefix) = job'.done
                       /\ fileDirection # "upload" => job'.prefix = First(job'.done, source),
         lastJob' \in Jobs \cup {NoJob}, cancelFile' \in BOOLEAN, reason' \in Reasons,
         busy' \in BOOLEAN, resumable' \in BOOLEAN, outcome' \in Outcomes
  PROVE  FileIInv'
<1>1. /\ total' = 0 /\ done' = 0 /\ streamed' = <<>>
      /\ activeOp' \in Ops \cup {"none"} /\ stage' \in {"idle", "start"}
      /\ (activeOp' = "none") <=> (stage' = "idle")
      /\ queue' \in Seq(Ops) /\ Len(queue') <= MaxQueue
  BY NextIsStarted DEF FileIInv
<1>3. job' \in Jobs \cup {NoJob}
  BY DEF FileIInv, FileTypeOK
<1>4. FileTypeOK'
  BY <1>1, <1>3, NoBlocks, SizeAssumption DEF FileIInv, FileTypeOK, editVars, Stages
<1>5. Hashed'
  BY DEF FileIInv, Hashed
<1>6. Continues' /\ Follows' /\ Whole' /\ Arrived' /\ Unheard'
  BY <1>1 DEF Continues, Follows, Copies, Whole, Arrived, Unheard
<1>7. Steady'
  <2>1. fileDirection' = fileDirection /\ versions' = versions /\ source' = source
    BY DEF editVars
  <2>2. fileDirection # "upload" /\ job' # NoJob => job'.prefix = First(job'.done, source)
    BY DEF FileIInv, Steady
  <2> QED
    BY <1>1, <2>1, <2>2 DEF FileIInv, Steady, Copies
<1>8. FinalIsAVersion' /\ source' \in versions'
  BY DEF FileIInv, FinalIsAVersion, editVars
<1> QED
  BY <1>4, <1>5, <1>6, <1>7, <1>8 DEF FileIInv

LEMMA FailsWithoutJob ==
  ASSUME FileIInv, NEW why \in Reasons, Fails(why), part' # part => part' \in Contents \cup {Missing},
         UNCHANGED <<source, final, editVars, online, cancelFile>>
  PROVE  FileIInv'
<1>1. reason' = why /\ EmitFailure(why, lastJob) /\ job' = job /\ lastJob' = lastJob
  BY DEF Fails
<1>2. /\ NextOp /\ busy' \in BOOLEAN /\ resumable' \in BOOLEAN /\ outcome' \in Outcomes
  BY <1>1, FailureIsTold DEF FileIInv, Outcomes
<1>3. lastJob' \in Jobs \cup {NoJob} /\ cancelFile' \in BOOLEAN
  BY <1>1 DEF FileIInv, FileTypeOK
<1> QED
  BY <1>1, <1>2, <1>3, OperationEnds

LEMMA FailsWithJob ==
  ASSUME FileIInv, Copies, NEW kept \in Reasons, NEW failed \in Reasons,
         NEW left \in Written, FileFails(left, kept, failed),
         UNCHANGED <<source, final, editVars, online, cancelFile>>
  PROVE  FileIInv'
<1>0. part' \in Contents \cup {Missing}
  BY WhatIsLeft DEF FileFails
<1>1. CASE Fails(IF cancelFile THEN "Canceled" ELSE failed)
  <2>1. (IF cancelFile THEN "Canceled" ELSE failed) \in Reasons
    BY DEF Reasons
  <2> QED
    BY <1>0, <1>1, <2>1, FailsWithoutJob
<1>2. CASE ~Fails(IF cancelFile THEN "Canceled" ELSE failed)
  <2> DEFINE why == IF cancelFile THEN "Canceled" ELSE kept
  <2>1. /\ Partial(left) # NoJob
        /\ reason' = why /\ job' \in {job, Partial(left)} /\ lastJob' = Partial(left)
        /\ EmitFailure(why, Partial(left))
    BY <1>2 DEF FileFails
  <2>2. why \in Reasons
    BY DEF Reasons
  <2>3. NextOp /\ busy' \in BOOLEAN /\ resumable' \in BOOLEAN /\ outcome' \in Outcomes
    BY <2>1, FailureIsTold DEF FileIInv, Outcomes
  <2>4. /\ Partial(left) \in Jobs /\ Len(Partial(left).prefix) = Partial(left).done
        /\ fileDirection # "upload" => Partial(left).prefix = First(Partial(left).done, source)
    BY <2>1, PartialFits
  <2>5. lastJob' \in Jobs \cup {NoJob} /\ cancelFile' \in BOOLEAN
    BY <2>1, <2>4 DEF FileIInv, FileTypeOK
  <2> QED
    BY <1>0, <2>1, <2>2, <2>3, <2>4, <2>5, OperationEnds
<1> QED
  BY <1>1, <1>2

(* What is left when nothing was being written.                            *)
LEMMA LeftAsItIs == Unflushed \subseteq Written /\ (FileIInv => part \in Unflushed)
<1>1. Unflushed \subseteq Written
  BY DEF Written
<1>2. ASSUME FileIInv, part # Missing, fileDirection = "download"
      PROVE  part \in Unflushed
  <2>1. part \in Contents
    BY <1>2 DEF FileIInv, FileTypeOK
  <2>2. Len(part) \in 0..Len(part) /\ First(Len(part), part) = part
    BY <2>1, AllBlocks, ContentsAreBlocks
  <2> QED
    BY <1>2, <2>2 DEF Unflushed
<1> QED
  BY <1>1, <1>2 DEF Unflushed
-----------------------------------------------------------------------------
(* An operation that is asked for is started, or waits for another.        *)
LEMMA AskedFor ==
  ASSUME FileTypeOK, NEW op \in Ops, Enqueue(op)
  PROVE  /\ queue' \in Seq(Ops) /\ Len(queue') <= MaxQueue
         /\ \/ UNCHANGED <<activeOp, stage>>
            \/ stage = "idle" /\ stage' = "start" /\ activeOp' = op
<1>1. queue \in Seq(Ops) /\ Len(queue) <= MaxQueue /\ Len(queue) \in Nat /\ MaxQueue \in Nat
  BY BoundAssumption DEF FileTypeOK
<1>2. CASE activeOp = "none"
  BY <1>1, <1>2 DEF Enqueue, FileTypeOK
<1>3. CASE activeOp # "none"
  <2>1. /\ Len(queue) < MaxQueue /\ queue' = Append(queue, op)
        /\ UNCHANGED <<activeOp, stage>>
    BY <1>3 DEF Enqueue
  <2>2. Append(queue, op) \in Seq(Ops) /\ Len(Append(queue, op)) = Len(queue) + 1
    BY <1>1
  <2> QED
    BY <1>1, <2>1, <2>2
<1> QED
  BY <1>2, <1>3

(* The explorer asks for operations, sets the flag, or discards the job    *)
(* with its part; it touches nothing else.                                 *)
LEMMA ExplorerAsks ==
  ASSUME FileIInv,
         UNCHANGED <<source, final, editVars, online, copyVars>>,
         UNCHANGED <<activeOp, stage>>
           \/ (stage = "idle" /\ stage' = "start" /\ activeOp' \in Ops),
         queue' \in Seq(Ops), Len(queue') <= MaxQueue,
         UNCHANGED <<part, job, lastJob>>
           \/ (stage \notin InTick /\ part' = Missing /\ job' = NoJob /\ lastJob' = NoJob),
         cancelFile' \in BOOLEAN, reason' = reason,
         busy' \in BOOLEAN, resumable' \in BOOLEAN, outcome' \in {outcome, "finished"}
  PROVE  FileIInv'
<1>1. FileTypeOK'
  <2>1. /\ activeOp' \in Ops \cup {"none"} /\ stage' \in Stages
        /\ (activeOp' = "none") <=> (stage' = "idle")
    BY DEF FileIInv, FileTypeOK, Ops, Stages
  <2>2. part' \in Contents \cup {Missing} /\ job' \in Jobs \cup {NoJob}
        /\ lastJob' \in Jobs \cup {NoJob}
    BY DEF FileIInv, FileTypeOK
  <2>3. outcome' \in Outcomes
    BY DEF FileIInv, FileTypeOK, Outcomes
  <2> QED
    BY <2>1, <2>2, <2>3 DEF FileIInv, FileTypeOK, editVars, copyVars
<1>2. Hashed'
  BY DEF FileIInv, Hashed
<1>3. Continues'
  BY DEF FileIInv, Continues, copyVars, InTick
<1>4. Follows'
  BY DEF FileIInv, Follows, Copies, copyVars
<1>5. Steady'
  BY DEF FileIInv, Steady, Copies, copyVars, editVars
<1>6. Whole' /\ Arrived' /\ Unheard'
  BY DEF FileIInv, Whole, Arrived, Unheard, editVars, InTick
<1>7. FinalIsAVersion' /\ source' \in versions'
  BY DEF FileIInv, FinalIsAVersion, editVars
<1> QED
  BY <1>1, <1>2, <1>3, <1>4, <1>5, <1>6, <1>7 DEF FileIInv

LEMMA GuiStep == FileIInv /\ Gui => FileIInv'
<1> SUFFICES ASSUME FileIInv, Gui PROVE FileIInv'
  OBVIOUS
<1> USE DEF diskVars, endVars, guiVars, opVars
<1>0. /\ FileTypeOK /\ queue \in Seq(Ops) /\ Len(queue) <= MaxQueue /\ cancelFile \in BOOLEAN
      /\ resumable \in BOOLEAN /\ busy \in BOOLEAN
      /\ {"fresh", "resume", "sync"} \subseteq Ops
  BY DEF FileIInv, FileTypeOK, Ops
<1>1. CASE AskFresh
  <2>1. Enqueue("fresh") /\ busy' = TRUE
    BY <1>1 DEF AskFresh
  <2> QED
    BY <1>0, <1>1, <2>1, AskedFor, ExplorerAsks DEF AskFresh
<1>2. CASE AskResume
  <2>1. Enqueue("resume") /\ busy' = TRUE
    BY <1>2 DEF AskResume
  <2> QED
    BY <1>0, <1>2, <2>1, AskedFor, ExplorerAsks DEF AskResume
<1>3. CASE AskSync
  <2>1. Enqueue("sync")
    BY <1>3 DEF AskSync
  <2> QED
    BY <1>0, <1>3, <2>1, AskedFor, ExplorerAsks DEF AskSync
<1>4. CASE AskRestart
  <2>1. Enqueue("fresh") /\ stage \notin InTick /\ DropJob
    BY <1>4 DEF AskRestart
  <2> QED
    BY <1>0, <1>4, <2>1, AskedFor, ExplorerAsks DEF AskRestart, DropJob
<1>5. CASE CancelTransfer
  BY <1>0, <1>5, ExplorerAsks DEF CancelTransfer
<1>6. CASE Discard
  BY <1>0, <1>6, ExplorerAsks DEF Discard, DropJob
<1> QED
  BY <1>1, <1>2, <1>3, <1>4, <1>5, <1>6 DEF Gui
-----------------------------------------------------------------------------
(* An operation begins, and forgets what became of the one before.         *)
LEMMA BeginStep == FileIInv /\ (BeginFails \/ BeginFreshFails \/ Begin) => FileIInv'
<1> SUFFICES ASSUME FileIInv, BeginFails \/ BeginFreshFails \/ Begin PROVE FileIInv'
  OBVIOUS
<1> USE DEF diskVars, endVars, guiVars, opVars
<1>1. CASE BeginFails
  <2>1. reason \in Reasons /\ Fails(reason)
    BY <1>1 DEF BeginFails, FileIInv, FileTypeOK
  <2> QED
    BY <1>1, <2>1, FailsWithoutJob DEF BeginFails
<1>2. CASE BeginFreshFails
  <2>1. Report("error", FALSE) /\ reason' = "Failed" /\ lastJob' = NoJob /\ cancelFile' = FALSE
    BY <1>2 DEF BeginFreshFails
  <2>2. NextOp /\ outcome' = "error" /\ resumable' = FALSE /\ busy' = FALSE
    BY <2>1 DEF Report
  <2> QED
    BY <1>2, <2>1, <2>2, OperationEnds DEF BeginFreshFails, Reasons, Outcomes
<1>3. CASE Begin
  <2>1. /\ stage = "start" /\ stage' = "begun" /\ lastJob' = NoJob /\ outcome' = "none"
        /\ cancelFile' = FALSE /\ reason' = "Completed"
        /\ UNCHANGED <<source, final, part, job, editVars, online, activeOp, queue, copyVars,
                       busy, resumable>>
    BY <1>3 DEF Begin, At, Reset
  <2>2. FileTypeOK'
    BY <2>1 DEF FileIInv, FileTypeOK, editVars, copyVars, Stages, Reasons, Outcomes
  <2>3. Hashed' /\ Continues' /\ Follows' /\ Whole' /\ Arrived' /\ Unheard' /\ FinalIsAVersion'
    BY <2>1 DEF FileIInv, Hashed, Continues, Follows, Copies, Whole, Arrived, Unheard,
                FinalIsAVersion, editVars
  <2>4. Steady' /\ source' \in versions'
    BY <2>1 DEF FileIInv, Steady, Copies, editVars
  <2> QED
    BY <2>2, <2>3, <2>4 DEF FileIInv
<1> QED
  BY <1>1, <1>2, <1>3

(* The file is opened, for a fresh copy or to go on with the part.         *)
LEMMA OpenStep ==
  FileIInv /\ (StopBeforeOpen \/ OpenFails \/ OpenFresh \/ Verify \/ SyncOpens) => FileIInv'
<1> SUFFICES ASSUME FileIInv, StopBeforeOpen \/ OpenFails \/ OpenFresh \/ Verify \/ SyncOpens
             PROVE  FileIInv'
  OBVIOUS
<1> USE DEF diskVars, endVars, guiVars, opVars
<1>1. CASE StopBeforeOpen
  <2>1. Fails(IF cancelFile THEN "Canceled" ELSE "StallTimeout")
    BY <1>1 DEF StopBeforeOpen
  <2> QED
    BY <1>1, <2>1, FailsWithoutJob DEF StopBeforeOpen, Reasons
<1>2. CASE OpenFails
  <2>1. Fails("Failed")
    BY <1>2 DEF OpenFails
  <2> QED
    BY <1>2, <2>1, FailsWithoutJob DEF OpenFails, Reasons
<1>3. CASE OpenFresh
  <2>1. /\ stage = "begun" /\ activeOp = "fresh" /\ stage' = "copying"
        /\ part' = <<>> /\ total' = Len(source) /\ done' = 0 /\ streamed' = <<>>
        /\ UNCHANGED <<source, final, job, editVars, online, activeOp, queue, cancelFile, reason,
                       lastJob, busy, resumable, outcome>>
    BY <1>3 DEF OpenFresh, At
  <2>2. source \in Contents /\ Len(source) \in 0..Size /\ 0 \in 0..Len(source)
    BY ContentsAreBlocks, SizeAssumption DEF FileIInv, FileTypeOK
  <2>3. First(0, source) = <<>>
    <3>1. First(0, source) \in Seq(Blocks) /\ Len(First(0, source)) = 0
      BY <2>2, FirstBlocks, ContentsAreBlocks
    <3> QED
      BY <3>1, EmptySeq
  <2>4. FileTypeOK'
    BY <2>1, <2>2, NoBlocks, SizeAssumption DEF FileIInv, FileTypeOK, editVars, Stages
  <2>5. Hashed' /\ Continues' /\ Follows' /\ Whole' /\ Arrived' /\ Unheard' /\ FinalIsAVersion'
    BY <2>1, NoBlocks DEF FileIInv, Hashed, Continues, Follows, Copies, Whole, Arrived, Unheard,
                FinalIsAVersion, editVars
  <2>6. Steady' /\ source' \in versions'
    BY <2>1, <2>3 DEF FileIInv, Steady, Copies, editVars
  <2> QED
    BY <2>4, <2>5, <2>6 DEF FileIInv
<1>4. CASE Verify
  <2>1. /\ stage = "begun" /\ activeOp \in Resumes /\ stage' = "verified"
        /\ total' = Len(source) /\ done' = job.done
        /\ UNCHANGED <<source, final, part, job, editVars, online, activeOp, queue, streamed,
                       cancelFile, reason, lastJob, busy, resumable, outcome>>
        /\ Resumable
    BY <1>4 DEF Verify, At
  <2>2. /\ job \in Jobs /\ job.done \in 1..Size /\ part # Missing /\ part = job.prefix
        /\ Len(part) = job.done
    BY <2>1 DEF Resumable, FileIInv, FileTypeOK, Hashed, Jobs
  <2>3. part = First(job.done, source)
    BY <2>1, <2>2 DEF Resumable, FileIInv, Steady
  <2>4. Len(source) \in 0..Size /\ job.done \in 0..Size
    BY <2>2, ContentsAreBlocks, SizeAssumption DEF FileIInv, FileTypeOK
  <2>5. FileTypeOK'
    BY <2>1, <2>4 DEF FileIInv, FileTypeOK, editVars, Stages
  <2>6. Hashed' /\ Continues' /\ Follows' /\ Whole' /\ Arrived' /\ Unheard' /\ FinalIsAVersion'
    BY <2>1, <2>2, <2>3 DEF FileIInv, Hashed, Continues, Follows, Copies, Whole, Arrived, Unheard,
                FinalIsAVersion, editVars
  <2>7. Steady' /\ source' \in versions'
    BY <2>1 DEF FileIInv, Steady, Copies, editVars
  <2> QED
    BY <2>5, <2>6, <2>7 DEF FileIInv
<1>5. CASE SyncOpens
  <2>1. /\ stage = "begun" /\ activeOp = "sync" /\ stage' = "copying"
        /\ UNCHANGED <<source, final, part, job, editVars, online, activeOp, queue, copyVars,
                       cancelFile, reason, lastJob, busy, resumable, outcome>>
    BY <1>5 DEF SyncOpens, At
  <2>2. FileTypeOK'
    BY <2>1 DEF FileIInv, FileTypeOK, editVars, copyVars, Stages
  <2>3. Hashed' /\ Continues' /\ Follows' /\ Whole' /\ Arrived' /\ Unheard' /\ FinalIsAVersion'
    BY <2>1 DEF FileIInv, Hashed, Continues, Follows, Copies, Whole, Arrived, Unheard,
                FinalIsAVersion, editVars
  <2>4. Steady' /\ source' \in versions'
    BY <2>1 DEF FileIInv, Steady, Copies, editVars
  <2> QED
    BY <2>2, <2>3, <2>4 DEF FileIInv
<1> QED
  BY <1>1, <1>2, <1>3, <1>4, <1>5

(* The prefix is read again, and the next block copied.                    *)
LEMMA CopyStep ==
  FileIInv /\ (Feed \/ FeedFails \/ Copy \/ Stop \/ CopyFails) => FileIInv'
<1> SUFFICES ASSUME FileIInv, Feed \/ FeedFails \/ Copy \/ Stop \/ CopyFails PROVE FileIInv'
  OBVIOUS
<1> USE DEF diskVars, endVars, guiVars, opVars
<1>0. /\ source \in Contents /\ part \in Contents \cup {Missing} /\ streamed \in Contents
      /\ done \in 0..Size /\ total \in 0..Size
  BY DEF FileIInv, FileTypeOK
<1>1. CASE Feed
  <2>1. /\ stage = "verified" /\ stage' = "copying" /\ streamed' = First(done, Copied(part))
        /\ done <= Len(Copied(part))
        /\ UNCHANGED <<source, final, part, job, editVars, online, activeOp, queue, total, done,
                       cancelFile, reason, lastJob, busy, resumable, outcome>>
    BY <1>1 DEF Feed, At
  <2>2. /\ activeOp \in Resumes /\ part # Missing /\ Len(part) = done
        /\ part = First(done, source)
    BY <2>1 DEF FileIInv, Continues
  <2>3. First(done, Copied(part)) = part
    <3>1. CASE fileDirection = "upload"
      BY <2>2, <3>1 DEF Copied
    <3>2. CASE fileDirection # "upload"
      BY <1>0, <2>2, <3>2, AllBlocks DEF Copied
    <3> QED
      BY <3>1, <3>2
  <2>4. FileTypeOK'
    BY <1>0, <2>1, <2>2, <2>3 DEF FileIInv, FileTypeOK, editVars, Stages
  <2>5. Hashed' /\ Continues' /\ Follows' /\ Whole' /\ Arrived' /\ Unheard' /\ FinalIsAVersion'
    BY <2>1, <2>2, <2>3 DEF FileIInv, Hashed, Continues, Follows, Copies, Whole, Arrived, Unheard,
                FinalIsAVersion, editVars
  <2>6. Steady' /\ source' \in versions'
    BY <2>1, <2>2, <2>3 DEF FileIInv, Steady, Copies, editVars
  <2> QED
    BY <2>4, <2>5, <2>6 DEF FileIInv
<1>2. CASE FeedFails
  <2>1. Fails("Failed")
    BY <1>2 DEF FeedFails
  <2> QED
    BY <1>2, <2>1, FailsWithoutJob DEF FeedFails, Reasons
<1>3. CASE Copy
  <2> DEFINE block == source[done + 1]
  <2>1. /\ stage = "copying" /\ activeOp # "sync" /\ done < total /\ done < Len(source)
        /\ streamed' = Append(streamed, block) /\ done' = done + 1
        /\ part' = IF part = Missing THEN Missing ELSE Append(part, block)
        /\ UNCHANGED <<source, final, job, editVars, online, activeOp, queue, stage, total,
                       cancelFile, reason, lastJob, busy, resumable, outcome>>
    BY <1>3 DEF Copy, At
  <2>2. part \in {Missing, streamed} /\ Len(streamed) = done
    BY <2>1 DEF FileIInv, Follows, Copies
  <2>3. done \in Nat /\ done < Size /\ done + 1 \in 0..Size
    BY <1>0, <2>1, SizeAssumption
  <2>4. block \in Blocks /\ Append(First(done, source), block) = First(done + 1, source)
    BY <1>0, <2>1, <2>3, NextBlock
  <2>5. streamed' \in Contents /\ Len(streamed') = done'
    BY <1>0, <2>1, <2>2, <2>3, <2>4, OneBlockMore
  <2>6. part' \in {Missing, streamed'}
    BY <2>1, <2>2
  <2> HIDE DEF block
  <2>7. FileTypeOK'
    BY <1>0, <2>1, <2>3, <2>5, <2>6 DEF FileIInv, FileTypeOK, editVars
  <2>8. Hashed' /\ Continues' /\ Follows' /\ Whole' /\ Arrived' /\ Unheard' /\ FinalIsAVersion'
    BY <2>1, <2>5, <2>6 DEF FileIInv, Hashed, Continues, Follows, Copies, Whole, Arrived, Unheard,
                FinalIsAVersion, editVars
  <2>9. Steady' /\ source' \in versions'
    BY <2>1, <2>4 DEF FileIInv, Steady, Copies, editVars
  <2> QED
    BY <2>7, <2>8, <2>9 DEF FileIInv
<1>4. CASE Stop
  <2>1. PICK left \in Unflushed : FileFails(left, "StallTimeout", "StallTimeout")
    BY <1>4 DEF Stop
  <2>2. Copies /\ left \in Written
    BY <1>4, LeftAsItIs DEF Stop, At, Copies
  <2> QED
    BY <1>4, <2>1, <2>2, FailsWithJob DEF Stop, Reasons
<1>5. CASE CopyFails
  <2>1. PICK left \in Written : FileFails(left, "Interrupted", "Failed")
    BY <1>5 DEF CopyFails
  <2>2. Copies /\ left \in Written
    BY <1>5, LeftAsItIs DEF CopyFails, At, Copies
  <2> QED
    BY <1>5, <2>1, <2>2, FailsWithJob DEF CopyFails, Reasons
<1> QED
  BY <1>1, <1>2, <1>3, <1>4, <1>5

(* The part is complete, and gets the final name.                          *)
LEMMA FinishStep ==
  FileIInv /\ (Finish \/ FinishMismatch \/ FinishFails \/ RemoveOld \/ RemoveFails) => FileIInv'
<1> SUFFICES ASSUME FileIInv, Finish \/ FinishMismatch \/ FinishFails \/ RemoveOld \/ RemoveFails
             PROVE  FileIInv'
  OBVIOUS
<1> USE DEF diskVars, endVars, guiVars, opVars
<1>1. CASE Finish
  <2>1. /\ stage = "copying" /\ activeOp # "sync" /\ Verified /\ stage' = "removing"
        /\ UNCHANGED <<source, final, part, job, editVars, online, activeOp, queue, copyVars,
                       cancelFile, reason, lastJob, busy, resumable, outcome>>
    BY <1>1 DEF Finish, At
  <2>2. part \in {Missing, streamed} /\ Len(streamed) = done /\ done = total
    BY <2>1 DEF FileIInv, Follows, Copies, Verified
  <2>3. part \in versions \cup {Missing}
    <3>1. CASE fileDirection = "upload"
      BY <2>1, <2>2, <3>1 DEF Verified, FileIInv
    <3>2. CASE fileDirection # "upload"
      <4>1. part = First(Len(source), source) /\ source \in Contents
        BY <2>1, <2>2, <3>2 DEF Verified, FileIInv, Steady, Copies, FileTypeOK
      <4> QED
        BY <4>1, AllBlocks DEF FileIInv
    <3> QED
      BY <3>1, <3>2
  <2>4. FileTypeOK'
    BY <2>1 DEF FileIInv, FileTypeOK, editVars, copyVars, Stages
  <2>5. Hashed' /\ Continues' /\ Follows' /\ Whole' /\ Arrived' /\ Unheard' /\ FinalIsAVersion'
    BY <2>1, <2>2, <2>3 DEF FileIInv, Hashed, Continues, Follows, Copies, Whole, Arrived, Unheard,
                FinalIsAVersion, editVars, copyVars
  <2>6. Steady' /\ source' \in versions'
    BY <2>1 DEF FileIInv, Steady, Copies, editVars, copyVars
  <2> QED
    BY <2>4, <2>5, <2>6 DEF FileIInv
<1>2. CASE FinishMismatch
  <2>1. Fails("HashMismatch")
    BY <1>2 DEF FinishMismatch
  <2> QED
    BY <1>2, <2>1, FailsWithoutJob DEF FinishMismatch, Reasons
<1>3. CASE FinishFails
  <2>1. PICK left \in Unflushed : FileFails(left, "Interrupted", "Failed")
    BY <1>3 DEF FinishFails
  <2>2. Copies /\ left \in Written
    BY <1>3, LeftAsItIs DEF FinishFails, At, Copies
  <2> QED
    BY <1>3, <2>1, <2>2, FailsWithJob DEF FinishFails, Reasons
<1>4. CASE RemoveOld
  <2>1. /\ stage = "removing" /\ final' \in {Missing, final} /\ stage' = "renaming"
        /\ UNCHANGED <<source, part, job, editVars, online, activeOp, queue, copyVars,
                       cancelFile, reason, lastJob, busy, resumable, outcome>>
    BY <1>4 DEF RemoveOld, At
  <2>2. FileTypeOK'
    BY <2>1 DEF FileIInv, FileTypeOK, editVars, copyVars, Stages
  <2>3. Hashed' /\ Continues' /\ Follows' /\ Whole' /\ Arrived' /\ Unheard' /\ FinalIsAVersion'
    BY <2>1 DEF FileIInv, Hashed, Continues, Follows, Copies, Whole, Arrived, Unheard,
                FinalIsAVersion, editVars, copyVars
  <2>4. Steady' /\ source' \in versions'
    BY <2>1 DEF FileIInv, Steady, Copies, editVars, copyVars
  <2> QED
    BY <2>2, <2>3, <2>4 DEF FileIInv
<1>5. CASE RemoveFails
  <2>1. Copies /\ FileFails(part, "Interrupted", "Failed")
    BY <1>5 DEF RemoveFails, At, Copies, FileIInv, Whole
  <2>2. part \in Written
    BY LeftAsItIs
  <2> QED
    BY <1>5, <2>1, <2>2, FailsWithJob DEF RemoveFails, Reasons
<1> QED
  BY <1>1, <1>2, <1>3, <1>4, <1>5

LEMMA RenameStep ==
  FileIInv /\ (Rename \/ RenameFails \/ Done \/ SyncEnds) => FileIInv'
<1> SUFFICES ASSUME FileIInv, Rename \/ RenameFails \/ Done \/ SyncEnds PROVE FileIInv'
  OBVIOUS
<1> USE DEF diskVars, endVars, guiVars, opVars
<1>1. CASE Rename
  <2>1. /\ stage = "renaming" /\ part # Missing /\ final' = part /\ part' = Missing
        /\ job' = NoJob /\ stage' = "done"
        /\ UNCHANGED <<source, editVars, online, activeOp, queue, copyVars,
                       cancelFile, reason, lastJob, busy, resumable, outcome>>
    BY <1>1 DEF Rename, At
  <2>2. activeOp # "sync" /\ final' \in versions
    BY <2>1 DEF FileIInv, Whole
  <2>3. FileTypeOK'
    BY <2>1 DEF FileIInv, FileTypeOK, editVars, copyVars, Stages
  <2>4. Hashed' /\ Continues' /\ Follows' /\ Whole' /\ Arrived' /\ Unheard' /\ FinalIsAVersion'
    BY <2>1, <2>2 DEF FileIInv, Hashed, Continues, Follows, Copies, Whole, Arrived, Unheard,
                FinalIsAVersion, editVars, copyVars
  <2>5. Steady' /\ source' \in versions'
    BY <2>1 DEF FileIInv, Steady, Copies, editVars, copyVars
  <2> QED
    BY <2>3, <2>4, <2>5 DEF FileIInv
<1>2. CASE RenameFails
  <2>1. Copies /\ FileFails(part, "Interrupted", "Failed")
    BY <1>2 DEF RenameFails, At, Copies, FileIInv, Whole
  <2>2. part \in Written
    BY LeftAsItIs
  <2> QED
    BY <1>2, <2>1, <2>2, FailsWithJob DEF RenameFails, Reasons
<1>3. CASE Done
  <2>1. Report("finished", FALSE) /\ reason' = "Completed"
        /\ UNCHANGED <<source, final, part, job, editVars, online, cancelFile, lastJob>>
    BY <1>3 DEF Done
  <2>2. NextOp /\ outcome' = "finished" /\ resumable' = FALSE /\ busy' = FALSE
    BY <2>1 DEF Report
  <2>3. cancelFile' \in BOOLEAN /\ lastJob' \in Jobs \cup {NoJob}
    BY <2>1 DEF FileIInv, FileTypeOK
  <2> QED
    BY <2>1, <2>2, <2>3, OperationEnds DEF Reasons, Outcomes
<1>4. CASE SyncEnds
  <2>1. stage = "copying" /\ activeOp = "sync" /\ UNCHANGED <<source, final, part, editVars, online>>
    BY <1>4 DEF SyncEnds, At
  <2>2. CASE stage' = "done" /\ UNCHANGED <<activeOp, queue, job, copyVars, endVars, guiVars>>
    <3>1. FileTypeOK'
      BY <2>1, <2>2 DEF FileIInv, FileTypeOK, editVars, copyVars, Stages
    <3>2. Hashed' /\ Continues' /\ Follows' /\ Whole' /\ Arrived' /\ Unheard' /\ FinalIsAVersion'
      BY <2>1, <2>2 DEF FileIInv, Hashed, Continues, Follows, Copies, Whole, Arrived, Unheard,
                  FinalIsAVersion, editVars
    <3>3. Steady' /\ source' \in versions'
      BY <2>1, <2>2 DEF FileIInv, Steady, Copies, editVars
    <3> QED
      BY <3>1, <3>2, <3>3 DEF FileIInv
  <2>3. ASSUME NEW why \in {"StallTimeout", "Failed", "HashMismatch"},
               Fails(IF cancelFile THEN "Canceled" ELSE why), UNCHANGED cancelFile
        PROVE  FileIInv'
    <3>1. (IF cancelFile THEN "Canceled" ELSE why) \in Reasons
      BY DEF Reasons
    <3> QED
      BY <2>1, <2>3, <3>1, FailsWithoutJob
  <2> QED
    BY <1>4, <2>2, <2>3 DEF SyncEnds
<1> QED
  BY <1>1, <1>2, <1>3, <1>4
-----------------------------------------------------------------------------
(* The connection goes or the process dies: a part may lose its end, a job *)
(* is not written.                                                         *)
LEMMA JobAbandoned ==
  ASSUME FileIInv, NEW how \in {"lost", "crashed"}, Abandon(how),
         UNCHANGED <<source, final, job, editVars>>,
         part' \in Contents \cup {Missing}, resumable' \in BOOLEAN
  PROVE  FileIInv'
<1>1. /\ online' = FALSE /\ activeOp' = "none" /\ queue' = <<>> /\ stage' = "idle"
      /\ total' = 0 /\ done' = 0 /\ streamed' = <<>> /\ cancelFile' = FALSE
      /\ reason' = "Completed" /\ lastJob' = NoJob /\ busy' = FALSE /\ outcome' = how
  BY DEF Abandon, Reset
<1>2. <<>> \in Seq(Ops) /\ Len(<<>>) <= MaxQueue
  BY BoundAssumption, EmptySeq
<1>3. FileTypeOK'
  <2>1. queue' \in Seq(Ops) /\ Len(queue') <= MaxQueue
    BY <1>1, <1>2
  <2>2. streamed' \in Contents /\ total' \in 0..Size /\ done' \in 0..Size
    BY <1>1, NoBlocks, SizeAssumption
  <2>3. /\ job' \in Jobs \cup {NoJob} /\ lastJob' \in Jobs \cup {NoJob}
        /\ final' \in Contents \cup {Missing, <<Old>>} /\ source' \in Contents
        /\ fileDirection' \in Directions /\ versions' \subseteq Contents /\ edits' \in 0..MaxEdits
    BY <1>1 DEF FileIInv, FileTypeOK, editVars
  <2>4. /\ online' \in BOOLEAN /\ cancelFile' \in BOOLEAN /\ busy' \in BOOLEAN
        /\ activeOp' \in Ops \cup {"none"} /\ stage' \in Stages
        /\ (activeOp' = "none") <=> (stage' = "idle")
        /\ reason' \in Reasons /\ outcome' \in Outcomes
    BY <1>1 DEF Stages, Reasons, Outcomes
  <2> QED
    BY <2>1, <2>2, <2>3, <2>4 DEF FileTypeOK
<1>4. Hashed' /\ Continues' /\ Follows' /\ Whole' /\ Arrived' /\ Unheard' /\ FinalIsAVersion'
  BY <1>1 DEF FileIInv, Hashed, Continues, Follows, Copies, Whole, Arrived, Unheard,
              FinalIsAVersion, editVars
<1>5. Steady' /\ source' \in versions'
  BY <1>1 DEF FileIInv, Steady, Copies, editVars
<1> QED
  BY <1>3, <1>4, <1>5 DEF FileIInv

LEMMA SurroundingsStep ==
  ASSUME Undisturbed
  PROVE  FileIInv /\ (Disconnect \/ Crash \/ Connect \/ EditSource) => FileIInv'
<1> SUFFICES ASSUME FileIInv, Disconnect \/ Crash \/ Connect \/ EditSource PROVE FileIInv'
  OBVIOUS
<1> USE DEF diskVars, endVars, guiVars, opVars
<1>1. CASE Disconnect
  <2>1. part' \in Contents \cup {Missing} /\ resumable' \in BOOLEAN
    BY <1>1 DEF Disconnect, FileIInv, FileTypeOK
  <2> QED
    BY <1>1, <2>1, JobAbandoned DEF Disconnect
<1>2. CASE Crash
  <2>1. part' \in Contents \cup {Missing}
    <3>1. CASE fileDirection = "download" /\ stage = "copying" /\ part # Missing
      <4>1. PICK n \in 0..Len(part) : part' = First(n, part)
        BY <1>2, <3>1 DEF Crash, Unflushed
      <4>2. part \in Contents
        BY <3>1 DEF FileIInv, FileTypeOK
      <4> QED
        BY <4>1, <4>2, FirstBlocks
    <3>2. CASE ~(fileDirection = "download" /\ stage = "copying" /\ part # Missing)
      BY <1>2, <3>2 DEF Crash, Unflushed, FileIInv, FileTypeOK
    <3> QED
      BY <3>1, <3>2
  <2> QED
    BY <1>2, <2>1, JobAbandoned DEF Crash
<1>3. CASE Connect
  <2>1. /\ online' = TRUE /\ resumable' = (job # NoJob)
        /\ \/ activeOp' = "auto" /\ stage' = "start"
           \/ UNCHANGED <<activeOp, stage>>
        /\ UNCHANGED <<source, final, part, job, editVars, queue, copyVars, cancelFile, reason,
                       lastJob, busy, outcome>>
    BY <1>3 DEF Connect
  <2>2. FileTypeOK'
    BY <2>1 DEF FileIInv, FileTypeOK, editVars, copyVars, Stages, Ops
  <2>3. Hashed' /\ Continues' /\ Follows' /\ Whole' /\ Arrived' /\ Unheard' /\ FinalIsAVersion'
    BY <2>1 DEF FileIInv, Hashed, Continues, Follows, Copies, Whole, Arrived, Unheard,
                FinalIsAVersion, editVars, copyVars
  <2>4. Steady' /\ source' \in versions'
    BY <2>1 DEF FileIInv, Steady, Copies, editVars, copyVars
  <2> QED
    BY <2>2, <2>3, <2>4 DEF FileIInv
<1>4. CASE EditSource
  <2>1. fileDirection = "upload" /\ stage # "verified"
    BY <1>4 DEF EditSource, Undisturbed
  <2>2. /\ edits < MaxEdits /\ edits' = edits + 1 /\ source' \in Contents
        /\ versions' = versions \cup {source'}
        /\ UNCHANGED <<fileDirection, final, part, job, online, activeOp, queue, stage, copyVars,
                       cancelFile, reason, lastJob, busy, resumable, outcome>>
    BY <1>4 DEF EditSource
  <2>3. edits' \in 0..MaxEdits
    BY <2>2, BoundAssumption DEF FileIInv, FileTypeOK
  <2>4. FileTypeOK'
    BY <2>2, <2>3 DEF FileIInv, FileTypeOK, copyVars
  <2>5. Hashed' /\ Continues' /\ Follows' /\ Whole' /\ Arrived' /\ Unheard' /\ FinalIsAVersion'
    BY <2>1, <2>2 DEF FileIInv, Hashed, Continues, Follows, Copies, Whole, Arrived, Unheard,
                FinalIsAVersion, copyVars
  <2>6. Steady' /\ source' \in versions'
    BY <2>1, <2>2 DEF Steady
  <2> QED
    BY <2>4, <2>5, <2>6 DEF FileIInv
<1> QED
  BY <1>1, <1>2, <1>3, <1>4

(* At the start nothing is copied, and there is no job.                    *)
LEMMA FileStart == FileInit => FileIInv
<1> SUFFICES ASSUME FileInit PROVE FileIInv
  OBVIOUS
<1>1. source \in Contents
  <2>1. CASE source \in [1..Size -> Blocks]
    BY <2>1, SizeAssumption DEF Contents
  <2>2. CASE source = <<>>
    BY <2>2, NoBlocks
  <2> QED
    BY <2>1, <2>2 DEF FileInit
<1>2. <<>> \in Seq(Ops) /\ Len(<<>>) <= MaxQueue /\ edits \in 0..MaxEdits
  BY BoundAssumption, EmptySeq DEF FileInit
<1>3. FileTypeOK
  <2>1. queue \in Seq(Ops) /\ Len(queue) <= MaxQueue
    BY <1>2 DEF FileInit
  <2>2. streamed \in Contents /\ total \in 0..Size /\ done \in 0..Size
    BY NoBlocks, SizeAssumption DEF FileInit
  <2> QED
    BY <1>1, <1>2, <2>1, <2>2 DEF FileInit, FileTypeOK, Stages, Reasons, Outcomes
<1>4. Hashed /\ Continues /\ Follows /\ Whole /\ Arrived /\ Unheard /\ FinalIsAVersion
  BY DEF FileInit, Hashed, Continues, Follows, Copies, Whole, Arrived, Unheard, FinalIsAVersion
<1>5. Steady /\ source \in versions
  BY DEF FileInit, Steady, Copies
<1> QED
  BY <1>3, <1>4, <1>5 DEF FileIInv

LEMMA Stutter == FileIInv /\ UNCHANGED fileVars => FileIInv'
<1> SUFFICES ASSUME FileIInv, UNCHANGED fileVars PROVE FileIInv'
  OBVIOUS
<1> USE DEF fileVars, diskVars, editVars, opVars, copyVars, endVars, guiVars
<1>1. FileTypeOK' /\ Hashed' /\ Continues'
  BY DEF FileIInv, FileTypeOK, Hashed, Continues
<1>2. Follows' /\ Steady' /\ Whole' /\ Arrived' /\ Unheard' /\ FinalIsAVersion'
  BY DEF FileIInv, Follows, Steady, Copies, Whole, Arrived, Unheard, FinalIsAVersion
<1> QED
  BY <1>1, <1>2 DEF FileIInv

LEMMA EveryFileStep ==
  ASSUME Undisturbed
  PROVE  FileIInv /\ [FileNext]_fileVars => FileIInv'
BY GuiStep, BeginStep, OpenStep, CopyStep, FinishStep, RenameStep, SurroundingsStep, Stutter
   DEF FileNext, TickFile

(* The inductive invariant of FileTransfer: what the part, the job and the *)
(* running hash have to do with each other and with the source.            *)
THEOREM Invariance ==
  ASSUME Undisturbed
  PROVE  FileSpec => []FileIInv
BY FileStart, EveryFileStep, PTL DEF FileSpec

(* Whatever fails, is cancelled, discarded, resumed or dies half-way, the  *)
(* final name has a version of the source, the file that was there before, *)
(* or nothing (SftpAioTransfer::finishUpload and finishDownload).          *)
THEOREM OnlyVersionsAreNamed ==
  ASSUME Undisturbed
  PROVE  FileSpec => []FinalIsAVersion
<1>1. FileIInv => FinalIsAVersion
  BY DEF FileIInv
<1> QED
  BY <1>1, Invariance, PTL

-----------------------------------------------------------------------------
(* Success is reported after the last step of a transfer, when the file    *)
(* has its final name.                                                     *)
LEMMA SuccessIsTrue ==
  FileIInv /\ [FileNext]_fileVars
    => [stage = "done" /\ activeOp # "sync" /\ outcome' = "finished" => final' \in versions]_fileVars
<1> SUFFICES ASSUME FileIInv, FileNext, stage = "done", activeOp # "sync"
             PROVE  final' \in versions
  OBVIOUS
<1> USE DEF diskVars
<1>1. final \in versions
  BY DEF FileIInv, Arrived
<1>2. final' = final
  <2>1. CASE Gui
    BY <2>1 DEF Gui, AskFresh, AskResume, AskSync, AskRestart, CancelTransfer, Discard
  <2>2. CASE TickFile
    BY <2>2 DEF TickFile, At, BeginFails, BeginFreshFails, Begin, StopBeforeOpen, OpenFails,
                OpenFresh, Verify, Feed, FeedFails, Copy, Stop, CopyFails, Finish,
                FinishMismatch, FinishFails, RemoveOld, RemoveFails, Rename, RenameFails, Done,
                SyncOpens, SyncEnds
  <2>3. CASE Disconnect \/ Crash \/ Connect \/ EditSource
    BY <2>3 DEF Disconnect, Crash, Connect, EditSource
  <2> QED
    BY <2>1, <2>2, <2>3 DEF FileNext
<1> QED
  BY <1>1, <1>2

(* A cancelled or interrupted transfer leaves the job of what its part     *)
(* held.                                                                   *)
LEMMA FailureFits ==
  ASSUME FileIInv, Copies, NEW kept, NEW failed, NEW left \in Written,
         FileFails(left, kept, failed), lastJob' # NoJob
  PROVE  part' = Missing \/ (Fits(lastJob', part) /\ First(Len(part), part') = part)
<1>1. lastJob = NoJob
  BY DEF FileIInv, Unheard, Copies
<1>2. part' = left /\ Partial(left) # NoJob /\ lastJob' = Partial(left)
  BY <1>1 DEF FileFails, Fails
<1> QED
  BY <1>2, PartialFits

LEMMA InterruptionIsTrue ==
  FileIInv /\ [FileNext]_fileVars
    => [stage = "copying" /\ activeOp # "sync" /\ outcome' \in {"canceled", "interrupted"}
          /\ lastJob' # NoJob
        => part' = Missing \/ (Fits(lastJob', part) /\ First(Len(part), part') = part)]_fileVars
<1> SUFFICES ASSUME FileIInv, FileNext, stage = "copying", activeOp # "sync",
                    outcome' \in {"canceled", "interrupted"}, lastJob' # NoJob
             PROVE  part' = Missing \/ (Fits(lastJob', part) /\ First(Len(part), part') = part)
  OBVIOUS
<1> USE DEF diskVars, endVars, guiVars
<1>1. Copies /\ lastJob = NoJob /\ outcome \in {"none", "finished"}
  BY DEF FileIInv, Copies, Unheard
<1>2. CASE Gui
  BY <1>1, <1>2 DEF Gui, AskFresh, AskResume, AskSync, AskRestart, CancelTransfer, Discard, DropJob
<1>3. CASE Stop \/ CopyFails \/ FinishFails
  <2>1. PICK left \in Written, kept \in Reasons, failed \in Reasons : FileFails(left, kept, failed)
    BY <1>3, LeftAsItIs DEF Stop, CopyFails, FinishFails, Reasons
  <2> QED
    BY <1>1, <2>1, FailureFits
<1>4. CASE FinishMismatch
  BY <1>1, <1>4 DEF FinishMismatch, Fails
<1>5. CASE TickFile /\ ~(Stop \/ CopyFails \/ FinishFails \/ FinishMismatch)
  <2>1. Copy \/ Finish
    BY <1>5 DEF TickFile, At, BeginFails, BeginFreshFails, Begin, StopBeforeOpen, OpenFails,
                OpenFresh, Verify, Feed, FeedFails, RemoveOld, RemoveFails, Rename, RenameFails,
                Done, SyncOpens, SyncEnds
  <2> QED
    BY <1>1, <2>1 DEF Copy, Finish
<1>6. CASE Disconnect \/ Crash \/ Connect \/ EditSource
  BY <1>1, <1>6 DEF Disconnect, Crash, Connect, EditSource, Abandon, Reset
<1> QED
  BY <1>2, <1>3, <1>4, <1>5, <1>6 DEF FileNext

(* What the explorer is told of the end of a transfer is so: a transfer    *)
(* that is reported as finished has put a version of the source under the  *)
(* final name, and one that is reported as cancelled or interrupted with a *)
(* job has left one that counts what the part held before the write that   *)
(* failed, if one did (FsRemote::emitTransferFailure).                     *)
THEOREM ToldTheTruth ==
  ASSUME Undisturbed
  PROVE  FileSpec => ReportsAreTrue
<1>1. FileIInv /\ [FileNext]_fileVars
        => [stage = "done" /\ activeOp # "sync" /\ outcome' = "finished" => final' \in versions]_fileVars
  BY SuccessIsTrue
<1>2. FileIInv /\ [FileNext]_fileVars
        => [stage = "copying" /\ activeOp # "sync" /\ outcome' \in {"canceled", "interrupted"}
              /\ lastJob' # NoJob
            => part' = Missing \/ (Fits(lastJob', part) /\ First(Len(part), part') = part)]_fileVars
  BY InterruptionIsTrue
<1> QED
  BY <1>1, <1>2, Invariance, PTL DEF FileSpec, ReportsAreTrue, FinishedIsThere, InterruptedFits

-----------------------------------------------------------------------------
(***************************************************************************)
(* TreeTransfer.                                                           *)
(***************************************************************************)

(* An entry is made after the transfer was asked to stop only as the file  *)
(* that was in flight: from then on no entry is begun.                     *)
LastOne ==
  /\ late \in {0, 1}
  /\ late = 1 /\ active => Asked /\ file = NoNode

(* What has ended has given up its queue and its file.                     *)
NothingLeft == ~active => work = <<>> /\ file = NoNode

IInv == LastOne /\ NothingLeft
-----------------------------------------------------------------------------
(* A transfer starts with nothing asked of it.                             *)
LEMMA StartStep == IInv /\ Start => IInv'
<1> SUFFICES ASSUME IInv, Start PROVE IInv'
  OBVIOUS
<1>1. late' = 0 /\ file' = NoNode /\ (ended' = "no" \/ work' = <<>>)
  BY DEF Start, BeginAsyncUploadFiles, BeginAsyncUploadFileTo, BeginAsyncDownloadPaths,
         BeginAsyncResumeInterrupted, StartAsyncCommon, Enqueued
<1> QED
  BY <1>1 DEF IInv, LastOne, NothingLeft, active

(* The flags are raised only, and only while a transfer runs.              *)
LEMMA RequestStep == IInv /\ (Requests \/ Open \/ Close) => IInv'
<1> SUFFICES ASSUME IInv, Requests \/ Open \/ Close PROVE IInv'
  OBVIOUS
<1>1. CASE Requests
  BY <1>1 DEF Requests, RequestCancel, RequestInterrupt, DiscardInterruptedTransfer, IInv,
              LastOne, NothingLeft, active, Asked, flags
<1>2. CASE Open
  BY <1>2 DEF Open, IInv, LastOne, NothingLeft, active, Asked, flags
<1>3. CASE Close
  <2>1. work' = <<>> /\ file' = NoNode /\ ended' # "no" /\ late' = late
    BY <1>3 DEF Close, Abandoned, active
  <2> QED
    BY <2>1 DEF IInv, LastOne, NothingLeft, active
<1> QED
  BY <1>1, <1>2, <1>3

(* A step of the queue is taken when nothing was asked, or gives up.       *)
LEMMA WorkStep == IInv /\ TickAsyncWorkItem => IInv'
<1> SUFFICES ASSUME IInv, TickAsyncWorkItem PROVE IInv'
  OBVIOUS
<1>1. active /\ cancel' = cancel /\ interrupt' = interrupt /\ file = NoNode
  BY DEF TickAsyncWorkItem, TickDone, TickStop, RemoteMkdir, MakeLink, UploadDir, DownloadDir,
         PrepareAsyncUploadJob, PrepareAsyncDownloadJob, Turn, Tick, flags
<1>2. CASE TickDone \/ TickStop
  <2>1. late' = late /\ ended' # "no" /\ work' = <<>> /\ file' = NoNode
    BY <1>1, <1>2 DEF TickDone, TickStop, Abort, Abandoned, MakeNothing, StopReason
  <2> QED
    BY <2>1 DEF IInv, LastOne, NothingLeft, active
<1>3. CASE RemoteMkdir \/ MakeLink \/ UploadDir \/ DownloadDir
           \/ PrepareAsyncUploadJob \/ PrepareAsyncDownloadJob
  <2>1. ~Asked
    BY <1>3 DEF RemoteMkdir, MakeLink, UploadDir, DownloadDir, PrepareAsyncUploadJob,
                PrepareAsyncDownloadJob, Turn
  <2>2. late = 0
    BY <1>1, <2>1 DEF IInv, LastOne
  <2>3. late' = late
    BY <1>3, <2>1 DEF RemoteMkdir, MakeLink, UploadDir, DownloadDir, PrepareAsyncUploadJob,
                      PrepareAsyncDownloadJob, Make, MakeNothing
  <2>4. ended' = ended \/ (work' = <<>> /\ file' = NoNode)
    BY <1>3 DEF RemoteMkdir, MakeLink, UploadDir, DownloadDir, PrepareAsyncUploadJob,
                PrepareAsyncDownloadJob, Prepared, Continue, Abort, Abandoned
  <2> QED
    BY <1>1, <2>2, <2>3, <2>4 DEF IInv, LastOne, NothingLeft, active
<1> QED
  BY <1>2, <1>3 DEF TickAsyncWorkItem

(* The file in flight is completed or fails.                               *)
LEMMA FileStep == IInv /\ TickAsyncAio => IInv'
<1> SUFFICES ASSUME IInv, TickAsyncAio PROVE IInv'
  OBVIOUS
<1>1. /\ active /\ cancel' = cancel /\ interrupt' = interrupt /\ file # NoNode
      /\ late = 0
  BY DEF TickAsyncAio, SftpFileFails, ScpFileFails, FileDone, FileTick, Tick, flags,
         IInv, LastOne
<1>2. CASE SftpFileFails \/ ScpFileFails
  <2>1. late' = late /\ work' = <<>> /\ file' = NoNode /\ ended' # "no"
    BY <1>2 DEF SftpFileFails, ScpFileFails, FileLost, Abort, Abandoned, MakeNothing, StopReason
  <2> QED
    BY <2>1 DEF IInv, LastOne, NothingLeft, active
<1>3. CASE FileDone
  <2>1. file' = NoNode /\ ended' = ended /\ late' = IF Asked THEN late + 1 ELSE late
    BY <1>3 DEF FileDone, Make
  <2>2. Asked' = Asked
    BY <1>1 DEF Asked
  <2>3. late' \in {0, 1} /\ (late' = 1 => Asked)
    BY <1>1, <2>1
  <2> QED
    BY <1>1, <2>1, <2>2, <2>3 DEF IInv, LastOne, NothingLeft, active
<1> QED
  BY <1>2, <1>3 DEF TickAsyncAio

LEMMA EveryStep == IInv /\ [Next]_vars => IInv'
<1>1. IInv /\ UNCHANGED vars => IInv'
  BY DEF vars, flags, IInv, LastOne, NothingLeft, active, Asked
<1> QED
  BY <1>1, StartStep, RequestStep, WorkStep, FileStep DEF Next

LEMMA Starts == Init => IInv
BY DEF Init, W!Init, IInv, LastOne, NothingLeft, active

(* A transfer that has ended, for whatever reason, has nothing queued and  *)
(* no file open (FsRemote::endTransfer, abortAsyncTransfer).               *)
THEOREM EndsClean == Spec => []NothingLeft
<1>1. IInv => NothingLeft
  BY DEF IInv
<1> QED
  BY <1>1, Starts, EveryStep, PTL DEF Spec

(* However many entries wait, once the transfer has been asked to stop at  *)
(* most one more is made: the file in flight (FsRemote::tickAsyncWorkItem).*)
THEOREM StopsAtOnce == Spec => []StopsShort
<1>1. IInv => StopsShort
  BY DEF IInv, LastOne, StopsShort
<1> QED
  BY <1>1, Starts, EveryStep, PTL DEF Spec

-----------------------------------------------------------------------------
(* The entries at some positions, in their order, are as many as these:    *)
(* the positions below each one number them.                               *)

LEMMA Ranks ==
  ASSUME NEW at, IsFiniteSet(at), at \subseteq Nat,
         NEW n \in 1 .. Cardinality(at)
  PROVE  \E i \in at : Cardinality({j \in at : j <= i}) = n
<1> DEFINE R(i) == {j \in at : j <= i}
           N == Cardinality(at)
           f == [i \in at |-> Cardinality(R(i))]
<1>1. N \in Nat
  BY FS_CardinalityType
<1>2. ASSUME NEW i \in at
      PROVE  IsFiniteSet(R(i)) /\ Cardinality(R(i)) \in 1 .. N
  <2>1. R(i) \in SUBSET at
    OBVIOUS
  <2>2. IsFiniteSet(R(i)) /\ Cardinality(R(i)) <= N
    BY <2>1, FS_Subset
  <2>3. i \in R(i)
    OBVIOUS
  <2>4. Cardinality(R(i)) \in Nat /\ Cardinality(R(i)) # 0
    BY <2>2, <2>3, FS_CardinalityType, FS_EmptySet
  <2> HIDE DEF R, N
  <2> QED
    BY <1>1, <2>2, <2>4
<1>3. ASSUME NEW i \in at, NEW k \in at, f[i] = f[k], i <= k
      PROVE  i = k
  <2>0. i \in Nat /\ k \in Nat /\ i <= k
    BY <1>3
  <2>1. R(i) \in SUBSET R(k) /\ IsFiniteSet(R(k)) /\ k \in R(k)
    <3>1. \A j \in at : j <= i => j <= k
      BY <2>0
    <3> HIDE DEF f
    <3> QED
      <4>1. R(i) \in SUBSET R(k)
        BY <3>1
      <4>2. k \in R(k)
        BY <2>0
      <4> QED
        BY <1>2, <4>1, <4>2, Zenon
  <2>2. R(k) = R(i)
    BY <1>3, <2>1, FS_Subset
  <2>3. k <= i
    BY <2>1, <2>2
  <2> QED
    BY <1>3, <2>3
<1>4. f \in [at -> 1 .. N]
  BY <1>2
<1>5. \A i, k \in at : f[i] = f[k] => i = k
  <2> HIDE DEF f
  <2> SUFFICES ASSUME NEW i \in at, NEW k \in at, f[i] = f[k] PROVE i = k
    OBVIOUS
  <2>1. i <= k \/ k <= i
    OBVIOUS
  <2> QED
    BY <1>3, <2>1
<1> HIDE DEF f
<1>6. f \in Injection(at, 1 .. N)
  <2> DEFINE T == 1 .. N
  <2>1. f \in [at -> T] /\ \A i, k \in at : f[i] = f[k] => i = k
    BY <1>4, <1>5
  <2> HIDE DEF T
  <2>2. f \in Injection(at, T)
    BY <2>1 DEF Injection, IsInjective
  <2> QED
    BY <2>2 DEF T
<1>7. IsFiniteSet(1 .. N) /\ Cardinality(1 .. N) = N
  BY <1>1, FS_Interval
<1>8. f \in Surjection(at, 1 .. N)
  BY <1>6, <1>7, FS_Injection
<1>9. PICK i \in at : f[i] = n
  BY <1>8 DEF Surjection
<1> QED
  BY <1>9 DEF f

LEMMA SameCount == \A S : W!Cardinality(S) = Cardinality(S)
BY DEF W!Cardinality, Cardinality

LEMMA PickFacts ==
  ASSUME NEW S, NEW s \in Seq(S), NEW at, at \subseteq DOMAIN s
  PROVE  /\ W!Pick(s, at) \in Seq(S)
         /\ DOMAIN W!Pick(s, at) = 1 .. Len(W!Pick(s, at))
         /\ Len(W!Pick(s, at)) \in Nat
         /\ \A n \in DOMAIN W!Pick(s, at) : \E i \in at : W!Pick(s, at)[n] = s[i]
         /\ \A i \in at : \E n \in DOMAIN W!Pick(s, at) : W!Pick(s, at)[n] = s[i]
         /\ \A n, m \in DOMAIN W!Pick(s, at) :
              n # m => \E i, k \in at : i # k /\ W!Pick(s, at)[n] = s[i] /\ W!Pick(s, at)[m] = s[k]
<1> DEFINE R(i) == {j \in at : j <= i}
           N == Cardinality(at)
           C(n) == CHOOSE i \in at : W!Cardinality(R(i)) = n
           p == [n \in 1 .. W!Cardinality(at) |-> s[C(n)]]
<1>1. Len(s) \in Nat /\ DOMAIN s = 1 .. Len(s)
  OBVIOUS
<1>2. IsFiniteSet(at) /\ at \subseteq Nat
  <2>1. IsFiniteSet(1 .. Len(s))
    BY <1>1, FS_Interval
  <2>2. at \in SUBSET (1 .. Len(s))
    BY <1>1
  <2> QED
    BY <1>1, <2>1, <2>2, FS_Subset
<1>3. N \in Nat
  BY <1>2, FS_CardinalityType
<1>4. ASSUME NEW n \in 1 .. N
      PROVE  C(n) \in at /\ Cardinality(R(C(n))) = n
  <2>1. PICK i \in at : Cardinality(R(i)) = n
    BY <1>2, Ranks
  <2> HIDE DEF R
  <2>2. W!Cardinality(R(i)) = n
    BY <2>1, SameCount
  <2>3. C(n) \in at /\ W!Cardinality(R(C(n))) = n
    BY <2>2
  <2> HIDE DEF C
  <2> QED
    BY <2>3, SameCount
<1>5. ASSUME NEW i \in at
      PROVE  Cardinality(R(i)) \in 1 .. N
  <2>1. R(i) \in SUBSET at
    OBVIOUS
  <2>2. IsFiniteSet(R(i)) /\ Cardinality(R(i)) <= N
    BY <1>2, <2>1, FS_Subset
  <2>3. i \in R(i)
    BY <1>2
  <2>4. Cardinality(R(i)) \in Nat /\ Cardinality(R(i)) # 0
    BY <2>2, <2>3, FS_CardinalityType, FS_EmptySet
  <2> HIDE DEF R, N
  <2> QED
    BY <1>3, <2>2, <2>4
<1>6. ASSUME NEW i \in at
      PROVE  C(Cardinality(R(i))) = i
  <2> DEFINE k == C(Cardinality(R(i)))
  <2>1. k \in at /\ Cardinality(R(k)) = Cardinality(R(i))
    BY <1>4, <1>5
  <2> HIDE DEF k
  <2>2. ASSUME NEW a \in at, NEW b \in at, a <= b, Cardinality(R(a)) = Cardinality(R(b))
        PROVE  a = b
    <3>1. R(a) \in SUBSET R(b) /\ R(b) \in SUBSET at /\ b \in R(b)
      BY <1>2, <2>2
    <3>2. IsFiniteSet(R(b))
      BY <1>2, <3>1, FS_Subset
    <3>3. R(b) = R(a)
      BY <2>2, <3>1, <3>2, FS_Subset
    <3>4. b <= a
      BY <3>1, <3>3
    <3> QED
      BY <1>2, <2>2, <3>4
  <2>3. k <= i \/ i <= k
    BY <1>2, <2>1
  <2>4. k = i
    BY <2>1, <2>2, <2>3
  <2> QED
    BY <2>4 DEF k
<1>7. p = W!Pick(s, at)
  BY DEF W!Pick
<1> HIDE DEF C, R, N
<1>8. p \in Seq(S) /\ Len(p) = N /\ DOMAIN p = 1 .. N /\ \A n \in 1 .. N : p[n] = s[C(n)]
  <2>0. W!Cardinality(at) = N
    BY SameCount DEF N
  <2>1. p \in [1 .. N -> S]
    BY <1>1, <1>4, <2>0
  <2> QED
    BY <1>3, <2>0, <2>1
<1> HIDE DEF p
<1>9. \A n \in DOMAIN p : \E i \in at : p[n] = s[i]
  BY <1>4, <1>8
<1>10. \A i \in at : \E n \in DOMAIN p : p[n] = s[i]
  <2> SUFFICES ASSUME NEW i \in at PROVE \E n \in DOMAIN p : p[n] = s[i]
    OBVIOUS
  <2>1. Cardinality(R(i)) \in DOMAIN p /\ p[Cardinality(R(i))] = s[i]
    BY <1>5, <1>6, <1>8
  <2> QED
    BY <2>1
<1>11. \A n, m \in DOMAIN p :
         n # m => \E i, k \in at : i # k /\ p[n] = s[i] /\ p[m] = s[k]
  <2> SUFFICES ASSUME NEW n \in 1 .. N, NEW m \in 1 .. N, n # m
               PROVE  \E i, k \in at : i # k /\ p[n] = s[i] /\ p[m] = s[k]
    BY <1>8
  <2>1. C(n) \in at /\ C(m) \in at /\ C(n) # C(m)
    BY <1>4
  <2> QED
    BY <1>8, <2>1
<1> QED
  BY <1>3, <1>7, <1>8, <1>9, <1>10, <1>11
(***************************************************************************)
(* No job is kept of what has been transferred.  Every entry of the tree   *)
(* is in the reach of at most one item of the queue, and what is made or   *)
(* in flight is in the reach of none: no entry is transferred twice.       *)
(***************************************************************************)
WorkItem == [type : Types, node : Nodes]
Job == [way : W!Directions, node : Nodes]

\* What is transferred for an item of the queue.
Span(item) == IF item.type = "RemoteMkdir" THEN {item.node} ELSE Reach(item.node)
Covered(s, m) == \E i \in DOMAIN s : m \in Span(s[i])
Disjoint(s) ==
  \A i, j \in DOMAIN s : i # j => \A m \in Nodes : ~(m \in Span(s[i]) /\ m \in Span(s[j]))

Typed ==
  /\ direction \in W!Directions /\ follow \in BOOLEAN
  /\ work \in Seq(WorkItem) /\ file \in Nodes \union {NoNode}
  /\ made \in Seq(Nodes) /\ jobs \in Seq(Job)

\* What an item of a type may be of.
ItemFits(item, way, f) ==
  CASE item.type \in {"UploadDir", "RemoteMkdir"} -> way = "upload" /\ Kind[item.node] = "dir"
    [] item.type = "DownloadDir" -> way = "download" /\ Kind[item.node] = "dir"
    [] item.type = "RemoteSymlink" -> way = "upload" /\ Kind[item.node] \in {"link", "dirLink"}
    [] item.type = "LocalSymlink" ->
         way = "download" /\ ~f /\ Kind[item.node] \in {"link", "dirLink"}
    [] item.type = "UploadFile" -> way = "upload" /\ Kind[item.node] \in {"file", "part"}
    [] item.type = "DownloadFile" ->
         /\ way = "download" /\ Kind[item.node] # "dir"
         /\ Kind[item.node] = "dirLink" => f
\* What is sent as a file of bytes.
FileFits(n, way) ==
  Kind[n] \notin {"dir", "dirLink"} /\ (way = "upload" => Kind[n] # "link")

AllFit ==
  /\ \A i \in DOMAIN work : ItemFits(work[i], direction, follow)
  /\ file # NoNode => FileFits(file, direction)
  /\ \A i \in DOMAIN jobs : FileFits(jobs[i].node, jobs[i].way)

\* No entry is transferred twice.
OnceEach ==
  /\ Disjoint(work)
  /\ \A m \in Nodes : Covered(work, m) => m # file /\ ~Contains(made, m)
  /\ ~Contains(made, file)

NoJobOfMade ==
  \A i \in DOMAIN jobs :
    jobs[i].way = direction /\ (Kind[jobs[i].node] # "link" \/ follow)
      => ~Contains(made, jobs[i].node)

KInv == Typed /\ AllFit /\ OnceEach /\ NoJobOfMade
-----------------------------------------------------------------------------
(* The tree: an entry reaches itself and what its children reach.          *)

LEMMA ReachesItself ==
  ASSUME NEW n \in Nodes
  PROVE  n \in Reach(n) /\ Reach(n) \subseteq Nodes
BY DEF Reach

LEMMA ReachesBelow ==
  ASSUME NEW n \in Nodes, NEW i \in DOMAIN Children[n], NEW m \in Reach(Children[n][i])
  PROVE  m \in Reach(n) /\ m # n
<1>1. Children[n] \in Seq(Nodes) /\ Children[n][i] \in Nodes
  BY TreeAssumption
<1>2. m \in Nodes /\ m # n
  BY TreeAssumption DEF Reach
<1>3. ASSUME NEW S \in SUBSET Nodes, n \in S, Closed(S)
      PROVE  m \in S
  <2>1. Children[n][i] \in ToSet(Children[n])
    BY DEF ToSet
  <2>2. Children[n][i] \in S
    BY <1>3, <2>1 DEF Closed
  <2> QED
    BY <1>3, <2>2 DEF Reach
<1> QED
  BY <1>2, <1>3 DEF Reach

(* A list of entries that are apart, made into items.                      *)
LEMMA ItemsApart ==
  ASSUME NEW r \in Seq(Nodes), NEW s \in Seq(WorkItem), Len(s) = Len(r),
         \A i \in 1 .. Len(r) : s[i].node = r[i] /\ s[i].type # "RemoteMkdir",
         \A i, j \in 1 .. Len(r) :
           i # j => \A m \in Nodes : ~(m \in Reach(r[i]) /\ m \in Reach(r[j]))
  PROVE  /\ Disjoint(s)
         /\ \A m \in Nodes : Covered(s, m) => \E i \in 1 .. Len(r) : m \in Reach(r[i])
<1>1. DOMAIN s = 1 .. Len(r)
  OBVIOUS
<1>2. \A i \in 1 .. Len(r) : Span(s[i]) = Reach(r[i])
  BY DEF Span
<1> QED
  BY <1>1, <1>2 DEF Disjoint, Covered

(* The queue.                                                              *)
LEMMA Joined ==
  ASSUME NEW s \in Seq(WorkItem), NEW t \in Seq(WorkItem), Disjoint(s), Disjoint(t),
         \A m \in Nodes : ~(Covered(s, m) /\ Covered(t, m))
  PROVE  /\ s \o t \in Seq(WorkItem) /\ Disjoint(s \o t)
         /\ \A m \in Nodes : Covered(s \o t, m) => Covered(s, m) \/ Covered(t, m)
<1> DEFINE u == s \o t
<1>1. /\ u \in Seq(WorkItem) /\ Len(u) = Len(s) + Len(t)
      /\ \A i \in 1 .. Len(s) + Len(t) : u[i] = IF i <= Len(s) THEN s[i] ELSE t[i - Len(s)]
  BY ConcatProperties
<1>2. Len(s) \in Nat /\ Len(t) \in Nat /\ DOMAIN s = 1 .. Len(s) /\ DOMAIN t = 1 .. Len(t)
  OBVIOUS
<1> HIDE DEF u
<1>3. DOMAIN u = 1 .. Len(s) + Len(t)
  BY <1>1
<1>4. ASSUME NEW i \in DOMAIN u
      PROVE  \/ i \in DOMAIN s /\ u[i] = s[i]
             \/ ~(i \in DOMAIN s) /\ i - Len(s) \in DOMAIN t /\ u[i] = t[i - Len(s)]
  BY <1>1, <1>2, <1>3
<1>5. ASSUME NEW m \in Nodes, Covered(u, m)
      PROVE  Covered(s, m) \/ Covered(t, m)
  <2>1. PICK i \in DOMAIN u : m \in Span(u[i])
    BY <1>5 DEF Covered
  <2> QED
    BY <1>4, <2>1 DEF Covered
<1>6. ASSUME NEW i \in DOMAIN u, NEW j \in DOMAIN u, i # j, NEW m \in Nodes,
             m \in Span(u[i]), m \in Span(u[j])
      PROVE  FALSE
  <2>1. CASE i \in DOMAIN s /\ u[i] = s[i]
    <3>1. Covered(s, m)
      BY <1>6, <2>1 DEF Covered
    <3>2. j \in DOMAIN s /\ u[j] = s[j]
      BY <1>4, <1>6, <3>1 DEF Covered
    <3> QED
      BY <1>6, <2>1, <3>2 DEF Disjoint
  <2>2. CASE i - Len(s) \in DOMAIN t /\ u[i] = t[i - Len(s)]
    <3>1. Covered(t, m)
      BY <1>6, <2>2 DEF Covered
    <3>2. j - Len(s) \in DOMAIN t /\ u[j] = t[j - Len(s)]
      BY <1>4, <1>6, <3>1 DEF Covered
    <3>3. i - Len(s) # j - Len(s)
      BY <1>2, <1>3, <1>6
    <3> QED
      BY <1>6, <2>2, <3>2, <3>3 DEF Disjoint
  <2> QED
    BY <1>4, <2>1, <2>2
<1>7. Disjoint(u)
  BY <1>6 DEF Disjoint
<1> QED
  BY <1>1, <1>5, <1>7 DEF u

LEMMA Rest ==
  ASSUME NEW s \in Seq(WorkItem), s # <<>>, Disjoint(s)
  PROVE  /\ Head(s) \in WorkItem /\ Tail(s) \in Seq(WorkItem) /\ Disjoint(Tail(s))
         /\ \A i \in DOMAIN Tail(s) : \E j \in DOMAIN s : Tail(s)[i] = s[j]
         /\ 1 \in DOMAIN s /\ Head(s) = s[1]
         /\ \A m \in Nodes : Covered(Tail(s), m) => Covered(s, m) /\ m \notin Span(Head(s))
         /\ \A m \in Nodes : m \in Span(Head(s)) => Covered(s, m)
<1> DEFINE t == Tail(s)
<1>1. t \in Seq(WorkItem) /\ Len(t) = Len(s) - 1 /\ \A i \in 1 .. Len(t) : t[i] = s[i + 1]
  BY HeadTailProperties
<1>2. Len(s) \in Nat /\ Len(s) > 0 /\ DOMAIN s = 1 .. Len(s) /\ Head(s) = s[1]
  OBVIOUS
<1> HIDE DEF t
<1>3. DOMAIN t = 1 .. Len(s) - 1
  BY <1>1
<1>4. \A i \in DOMAIN t : i + 1 \in DOMAIN s /\ i + 1 # 1 /\ t[i] = s[i + 1]
  BY <1>1, <1>2, <1>3
<1>5. 1 \in DOMAIN s /\ s[1] \in WorkItem
  BY <1>2
<1>6. Disjoint(t)
  <2> SUFFICES ASSUME NEW i \in DOMAIN t, NEW j \in DOMAIN t, i # j, NEW m \in Nodes,
                      m \in Span(t[i]), m \in Span(t[j])
               PROVE  FALSE
    BY DEF Disjoint
  <2>1. i + 1 # j + 1
    BY <1>2, <1>3
  <2> QED
    BY <1>4, <2>1 DEF Disjoint
<1>7. ASSUME NEW m \in Nodes, Covered(t, m)
      PROVE  Covered(s, m) /\ m \notin Span(s[1])
  <2>1. PICK i \in DOMAIN t : m \in Span(t[i])
    BY <1>7 DEF Covered
  <2> QED
    BY <1>4, <1>5, <2>1 DEF Covered, Disjoint
<1> QED
  BY <1>1, <1>2, <1>4, <1>5, <1>6, <1>7 DEF Covered, t

(***************************************************************************)
(* The items that are made of entries.                                     *)
(***************************************************************************)
LEMMA UploadItemFits ==
  ASSUME NEW n \in Nodes, NEW f \in BOOLEAN
  PROVE  /\ UploadItem(n) \in WorkItem /\ UploadItem(n).node = n
         /\ UploadItem(n).type # "RemoteMkdir" /\ ItemFits(UploadItem(n), "upload", f)
<1>1. Kind[n] \in {"dir", "file", "link", "dirLink", "part"}
  BY TreeAssumption
<1>2. CASE Kind[n] \in {"link", "dirLink"}
  BY <1>2 DEF UploadItem, Item, WorkItem, Types, LinkTypes, FileTypes, ItemFits
<1>3. CASE Kind[n] = "dir"
  BY <1>3 DEF UploadItem, Item, WorkItem, Types, LinkTypes, FileTypes, ItemFits
<1>4. CASE Kind[n] \in {"file", "part"}
  BY <1>4 DEF UploadItem, Item, WorkItem, Types, LinkTypes, FileTypes, ItemFits
<1> QED
  BY <1>1, <1>2, <1>3, <1>4

LEMMA DownloadItemFits ==
  ASSUME NEW n \in Nodes, NEW f \in BOOLEAN
  PROVE  /\ DownloadItem(n, f) \in WorkItem /\ DownloadItem(n, f).node = n
         /\ DownloadItem(n, f).type # "RemoteMkdir" /\ ItemFits(DownloadItem(n, f), "download", f)
<1>1. Kind[n] \in {"dir", "file", "link", "dirLink", "part"}
  BY TreeAssumption
<1>2. CASE Kind[n] \in {"link", "dirLink"} /\ f
  BY <1>2 DEF DownloadItem, Item, WorkItem, Types, LinkTypes, FileTypes, ItemFits
<1>3. CASE Kind[n] \in {"link", "dirLink"} /\ ~f
  BY <1>3 DEF DownloadItem, Item, WorkItem, Types, LinkTypes, FileTypes, ItemFits
<1>4. CASE Kind[n] = "dir"
  BY <1>4 DEF DownloadItem, Item, WorkItem, Types, LinkTypes, FileTypes, ItemFits
<1>5. CASE Kind[n] \in {"file", "part"}
  BY <1>5 DEF DownloadItem, Item, WorkItem, Types, LinkTypes, FileTypes, ItemFits
<1> QED
  BY <1>1, <1>2, <1>3, <1>4, <1>5

LEMMA Uploads ==
  ASSUME NEW r \in Seq(Nodes), NEW f \in BOOLEAN,
         \A i, j \in 1 .. Len(r) :
           i # j => \A m \in Nodes : ~(m \in Reach(r[i]) /\ m \in Reach(r[j]))
  PROVE  LET s == [i \in DOMAIN r |-> UploadItem(r[i])]
         IN  /\ s \in Seq(WorkItem) /\ Disjoint(s)
             /\ \A m \in Nodes : Covered(s, m) => \E i \in 1 .. Len(r) : m \in Reach(r[i])
             /\ \A i \in DOMAIN s : ItemFits(s[i], "upload", f)
<1> DEFINE s == [i \in DOMAIN r |-> UploadItem(r[i])]
<1>1. DOMAIN r = 1 .. Len(r) /\ Len(r) \in Nat /\ \A i \in 1 .. Len(r) : r[i] \in Nodes
  OBVIOUS
<1>2. \A i \in 1 .. Len(r) :
        /\ s[i] \in WorkItem /\ s[i].node = r[i] /\ s[i].type # "RemoteMkdir"
        /\ ItemFits(s[i], "upload", f)
  BY <1>1, UploadItemFits
<1>3. s \in Seq(WorkItem) /\ Len(s) = Len(r) /\ DOMAIN s = 1 .. Len(r)
  <2>1. s \in [1 .. Len(r) -> WorkItem]
    BY <1>1, <1>2
  <2> QED
    BY <1>1, <2>1
<1> HIDE DEF s
<1>4. /\ Disjoint(s)
      /\ \A m \in Nodes : Covered(s, m) => \E i \in 1 .. Len(r) : m \in Reach(r[i])
  BY <1>2, <1>3, ItemsApart
<1>5. /\ s \in Seq(WorkItem) /\ Disjoint(s)
      /\ \A m \in Nodes : Covered(s, m) => \E i \in 1 .. Len(r) : m \in Reach(r[i])
      /\ \A i \in DOMAIN s : ItemFits(s[i], "upload", f)
  BY <1>2, <1>3, <1>4
<1> QED
  BY <1>5 DEF s

LEMMA Downloads ==
  ASSUME NEW r \in Seq(Nodes), NEW f \in BOOLEAN,
         \A i, j \in 1 .. Len(r) :
           i # j => \A m \in Nodes : ~(m \in Reach(r[i]) /\ m \in Reach(r[j]))
  PROVE  LET s == [i \in DOMAIN r |-> DownloadItem(r[i], f)]
         IN  /\ s \in Seq(WorkItem) /\ Disjoint(s)
             /\ \A m \in Nodes : Covered(s, m) => \E i \in 1 .. Len(r) : m \in Reach(r[i])
             /\ \A i \in DOMAIN s : ItemFits(s[i], "download", f)
<1> DEFINE s == [i \in DOMAIN r |-> DownloadItem(r[i], f)]
<1>1. DOMAIN r = 1 .. Len(r) /\ Len(r) \in Nat /\ \A i \in 1 .. Len(r) : r[i] \in Nodes
  OBVIOUS
<1>2. \A i \in 1 .. Len(r) :
        /\ s[i] \in WorkItem /\ s[i].node = r[i] /\ s[i].type # "RemoteMkdir"
        /\ ItemFits(s[i], "download", f)
  BY <1>1, DownloadItemFits
<1>3. s \in Seq(WorkItem) /\ Len(s) = Len(r) /\ DOMAIN s = 1 .. Len(r)
  <2>1. s \in [1 .. Len(r) -> WorkItem]
    BY <1>1, <1>2
  <2> QED
    BY <1>1, <2>1
<1> HIDE DEF s
<1>4. /\ Disjoint(s)
      /\ \A m \in Nodes : Covered(s, m) => \E i \in 1 .. Len(r) : m \in Reach(r[i])
  BY <1>2, <1>3, ItemsApart
<1>5. /\ s \in Seq(WorkItem) /\ Disjoint(s)
      /\ \A m \in Nodes : Covered(s, m) => \E i \in 1 .. Len(r) : m \in Reach(r[i])
      /\ \A i \in DOMAIN s : ItemFits(s[i], "download", f)
  BY <1>2, <1>3, <1>4
<1> QED
  BY <1>5 DEF s

(* What the user selects, and what a folder holds.                         *)
LEMMA SelectionApart ==
  ASSUME NEW r \in Selections
  PROVE  /\ r \in Seq(Nodes)
         /\ \A i, j \in 1 .. Len(r) :
              i # j => \A m \in Nodes : ~(m \in Reach(r[i]) /\ m \in Reach(r[j]))
<1>1. r \in Seq(Nodes) /\ Apart(r)
  BY SelectionAssumption
<1>2. DOMAIN r = 1 .. Len(r) /\ \A i \in 1 .. Len(r) : r[i] \in Nodes
  BY <1>1
<1>3. \A i, j \in 1 .. Len(r) :
        i # j => \A m \in Nodes : ~(m \in Reach(r[i]) /\ m \in Reach(r[j]))
  BY <1>1, <1>2 DEF Apart
<1> QED
  BY <1>1, <1>3

LEMMA ChildrenApart ==
  ASSUME NEW n \in Nodes
  PROVE  /\ Children[n] \in Seq(Nodes)
         /\ \A i, j \in 1 .. Len(Children[n]) :
              i # j => \A m \in Nodes : ~(m \in Reach(Children[n][i]) /\ m \in Reach(Children[n][j]))
<1> DEFINE c == Children[n]
<1>1. c \in Seq(Nodes) /\ Apart(c)
  BY TreeAssumption
<1> HIDE DEF c
<1>2. DOMAIN c = 1 .. Len(c) /\ \A i \in 1 .. Len(c) : c[i] \in Nodes
  BY <1>1
<1>3. \A i, j \in 1 .. Len(c) :
        i # j => \A m \in Nodes : ~(m \in Reach(c[i]) /\ m \in Reach(c[j]))
  BY <1>1, <1>2 DEF Apart
<1> QED
  BY <1>1, <1>3 DEF c

LEMMA TakenApart ==
  ASSUME NEW n \in Nodes
  PROVE  LET r == W!Taken("download", n)
         IN  /\ r \in Seq(Nodes)
             /\ \A i, j \in 1 .. Len(r) :
                  i # j => \A m \in Nodes : ~(m \in Reach(r[i]) /\ m \in Reach(r[j]))
             /\ \A i \in 1 .. Len(r) : \E k \in DOMAIN Children[n] : r[i] = Children[n][k]
<1> DEFINE c == Children[n]
           at == {i \in DOMAIN c : Kind[c[i]] # "part"}
           r == W!Pick(c, at)
<1>1. W!Taken("download", n) = r
  BY DEF W!Taken
<1>2. c \in Seq(Nodes) /\ at \subseteq DOMAIN c
  BY ChildrenApart
<1>3. \A i, j \in DOMAIN c :
        i # j => \A m \in Nodes : ~(m \in Reach(c[i]) /\ m \in Reach(c[j]))
  BY ChildrenApart
<1> HIDE DEF c, at
<1>4. /\ r \in Seq(Nodes) /\ DOMAIN r = 1 .. Len(r)
      /\ \A i \in DOMAIN r : \E k \in at : r[i] = c[k]
      /\ \A i, j \in DOMAIN r : i # j => \E k, l \in at : k # l /\ r[i] = c[k] /\ r[j] = c[l]
  BY <1>2, PickFacts
<1> HIDE DEF r
<1>5. \A i, j \in 1 .. Len(r) :
        i # j => \A m \in Nodes : ~(m \in Reach(r[i]) /\ m \in Reach(r[j]))
  <2> SUFFICES ASSUME NEW i \in DOMAIN r, NEW j \in DOMAIN r, i # j
               PROVE  \A m \in Nodes : ~(m \in Reach(r[i]) /\ m \in Reach(r[j]))
    BY <1>4
  <2>1. PICK k \in at, l \in at : k # l /\ r[i] = c[k] /\ r[j] = c[l]
    BY <1>4
  <2> QED
    BY <1>2, <1>3, <2>1
<1>6. \A i \in 1 .. Len(r) : \E k \in DOMAIN c : r[i] = c[k]
  BY <1>2, <1>4
<1> QED
  BY <1>1, <1>4, <1>5, <1>6 DEF c
-----------------------------------------------------------------------------
(* A new queue.                                                            *)
LEMMA NewWork ==
  ASSUME KInv, file' = NoNode, made' = <<>>, jobs' = jobs,
         direction' \in W!Directions, follow' \in BOOLEAN,
         work' \in Seq(WorkItem), Disjoint(work'),
         \A i \in DOMAIN work' : ItemFits(work'[i], direction', follow')
  PROVE  KInv'
<1>1. \A x : ~Contains(<<>>, x)
  BY DEF Contains
<1>2. Typed' /\ AllFit'
  BY DEF KInv, Typed, AllFit
<1>3. OnceEach'
  BY <1>1, NoNodeAssumption DEF OnceEach
<1>4. NoJobOfMade'
  BY <1>1 DEF NoJobOfMade
<1> QED
  BY <1>2, <1>3, <1>4 DEF KInv

LEMMA EmptyWork == <<>> \in Seq(WorkItem) /\ Disjoint(<<>>) /\ DOMAIN <<>> = {}
BY DEF Disjoint

LEMMA OneItem ==
  ASSUME NEW x \in WorkItem
  PROVE  /\ <<x>> \in Seq(WorkItem) /\ Disjoint(<<x>>) /\ DOMAIN <<x>> = {1} /\ <<x>>[1] = x
         /\ \A m \in Nodes : Covered(<<x>>, m) => m \in Span(x)
<1>1. <<x>> \in Seq(WorkItem) /\ DOMAIN <<x>> = {1} /\ <<x>>[1] = x
  OBVIOUS
<1> DEFINE s == <<x>>
<1> HIDE DEF s
<1>2. s \in Seq(WorkItem) /\ DOMAIN s = {1} /\ s[1] = x
  BY <1>1 DEF s
<1>3. Disjoint(s) /\ \A m \in Nodes : Covered(s, m) => m \in Span(x)
  BY <1>2 DEF Disjoint, Covered
<1> QED
  BY <1>2, <1>3 DEF s

LEMMA StartKeeps == KInv /\ Start => KInv'
<1> SUFFICES ASSUME KInv, Start PROVE KInv'
  OBVIOUS
<1>0. UNCHANGED jobs /\ file' = NoNode /\ made' = <<>>
  BY DEF Start, BeginAsyncUploadFiles, BeginAsyncUploadFileTo, BeginAsyncDownloadPaths,
         BeginAsyncResumeInterrupted, StartAsyncCommon
<1>1. ASSUME NEW roots \in Selections, BeginAsyncUploadFiles(roots)
      PROVE  KInv'
  <2> DEFINE s == [i \in DOMAIN roots |-> UploadItem(roots[i])]
  <2>1. direction' = "upload" /\ follow' = FALSE /\ (work' = s \/ work' = <<>>)
    BY <1>1 DEF BeginAsyncUploadFiles, StartAsyncCommon, Enqueued
  <2>2. s \in Seq(WorkItem) /\ Disjoint(s) /\ \A i \in DOMAIN s : ItemFits(s[i], "upload", FALSE)
    BY SelectionApart, Uploads
  <2> HIDE DEF s
  <2> QED
    BY <1>0, <2>1, <2>2, EmptyWork, NewWork DEF W!Directions
<1>2. ASSUME NEW roots \in Selections, NEW f \in BOOLEAN, BeginAsyncDownloadPaths(roots, f)
      PROVE  KInv'
  <2> DEFINE s == [i \in DOMAIN roots |-> DownloadItem(roots[i], f)]
  <2>1. direction' = "download" /\ follow' = f /\ (work' = s \/ work' = <<>>)
    BY <1>2 DEF BeginAsyncDownloadPaths, StartAsyncCommon, Enqueued
  <2>2. s \in Seq(WorkItem) /\ Disjoint(s) /\ \A i \in DOMAIN s : ItemFits(s[i], "download", f)
    BY SelectionApart, Downloads
  <2> HIDE DEF s
  <2> QED
    BY <1>0, <2>1, <2>2, EmptyWork, NewWork DEF W!Directions
<1>3. ASSUME NEW n \in Nodes, BeginAsyncUploadFileTo(n)
      PROVE  KInv'
  <2> DEFINE x == Item("UploadFile", n)
  <2>1. direction' = "upload" /\ follow' = FALSE /\ work' = <<x>> /\ Kind[n] = "file"
    BY <1>3 DEF BeginAsyncUploadFileTo, StartAsyncCommon
  <2>2. x \in WorkItem /\ ItemFits(x, "upload", FALSE)
    BY <2>1 DEF Item, WorkItem, Types, FileTypes, ItemFits
  <2> HIDE DEF x
  <2> QED
    BY <1>0, <2>1, <2>2, OneItem, NewWork DEF W!Directions
<1>4. CASE BeginAsyncResumeInterrupted
  <2> DEFINE way == LoadLatest.way
             n == LoadLatest.node
             x == Item(IF way = "upload" THEN "UploadFile" ELSE "DownloadFile", n)
  <2>1. jobs # <<>> /\ direction' = way /\ follow' = FALSE /\ work' = <<x>>
    BY <1>4 DEF BeginAsyncResumeInterrupted, StartAsyncCommon
  <2>2. way \in W!Directions /\ n \in Nodes /\ FileFits(n, way)
    <3>1. jobs \in Seq(Job)
      BY DEF KInv, Typed
    <3>2. Len(jobs) \in DOMAIN jobs /\ jobs[Len(jobs)] \in Job /\ LoadLatest = jobs[Len(jobs)]
      BY <2>1, <3>1 DEF LoadLatest, Last
    <3> QED
      BY <3>2 DEF KInv, AllFit, Job
  <2>3. x \in WorkItem /\ ItemFits(x, way, FALSE)
    <3>1. Kind[n] \in {"file", "link", "part"}
      BY <2>2, TreeAssumption DEF FileFits
    <3> QED
      BY <2>2, <3>1 DEF Item, WorkItem, Types, FileTypes, ItemFits, FileFits, W!Directions
  <2> HIDE DEF x, way, n
  <2> QED
    BY <1>0, <2>1, <2>2, <2>3, OneItem, NewWork
<1> QED
  BY <1>1, <1>2, <1>3, <1>4 DEF Start

(***************************************************************************)
(* The ticks.                                                              *)
(***************************************************************************)
LEMMA Appended ==
  ASSUME NEW n \in Nodes, made \in Seq(Nodes), made' = Append(made, n)
  PROVE  made' \in Seq(Nodes) /\ \A x : Contains(made', x) <=> Contains(made, x) \/ x = n
<1>1. /\ made' \in Seq(Nodes) /\ Len(made') = Len(made) + 1 /\ made'[Len(made) + 1] = n
      /\ \A i \in 1 .. Len(made) : made'[i] = made[i]
  BY AppendProperties
<1>2. Len(made) \in Nat
  OBVIOUS
<1>3. ASSUME NEW x, Contains(made', x)
      PROVE  Contains(made, x) \/ x = n
  <2>1. PICK i \in 1 .. Len(made) + 1 : made'[i] = x
    BY <1>1, <1>3 DEF Contains
  <2>2. i = Len(made) + 1 \/ i \in 1 .. Len(made)
    BY <1>2
  <2> QED
    BY <1>1, <2>1, <2>2 DEF Contains
<1>4. ASSUME NEW x, Contains(made, x) \/ x = n
      PROVE  Contains(made', x)
  <2>1. CASE x = n
    <3>1. Len(made) + 1 \in 1 .. Len(made')
      BY <1>1, <1>2
    <3> QED
      BY <1>1, <2>1, <3>1 DEF Contains
  <2>2. CASE Contains(made, x)
    <3>1. PICK i \in 1 .. Len(made) : made[i] = x
      BY <2>2 DEF Contains
    <3>2. i \in 1 .. Len(made')
      BY <1>1, <1>2
    <3> QED
      BY <1>1, <3>1, <3>2 DEF Contains
  <2> QED
    BY <1>4, <2>1, <2>2
<1> QED
  BY <1>1, <1>3, <1>4

(* A transfer that is given up.                                            *)
LEMMA GivenUp ==
  ASSUME KInv, Abandoned, UNCHANGED <<direction, follow, made>>,
         jobs' \in Seq(Job),
         \A i \in DOMAIN jobs' :
           \/ \E k \in DOMAIN jobs : jobs'[i] = jobs[k]
           \/ file # NoNode /\ jobs'[i] = [way |-> direction, node |-> file]
  PROVE  KInv'
<1>1. work' = <<>> /\ file' = NoNode
  BY DEF Abandoned
<1>2. Typed'
  BY <1>1, EmptyWork DEF KInv, Typed
<1>3. \A i \in DOMAIN jobs' : FileFits(jobs'[i].node, jobs'[i].way)
  BY DEF KInv, AllFit
<1>4. AllFit'
  BY <1>1, <1>3 DEF KInv, AllFit
<1>5. ~Contains(made, NoNode)
  BY NoNodeAssumption DEF KInv, Typed, Contains
<1>6. OnceEach'
  BY <1>1, <1>5, EmptyWork DEF KInv, OnceEach, Covered
<1>7. NoJobOfMade'
  <2> SUFFICES ASSUME NEW i \in DOMAIN jobs', jobs'[i].way = direction,
                      Kind[jobs'[i].node] # "link" \/ follow
               PROVE  ~Contains(made, jobs'[i].node)
    BY DEF NoJobOfMade
  <2>1. CASE \E k \in DOMAIN jobs : jobs'[i] = jobs[k]
    BY <2>1 DEF KInv, NoJobOfMade
  <2>2. CASE file # NoNode /\ jobs'[i] = [way |-> direction, node |-> file]
    BY <2>2 DEF KInv, OnceEach
  <2> QED
    BY <2>1, <2>2
<1> QED
  BY <1>2, <1>4, <1>6, <1>7 DEF KInv

LEMMA GivenUpAsItIs ==
  ASSUME KInv, Abandoned, UNCHANGED <<direction, follow, made, jobs>>
  PROVE  KInv'
<1>1. jobs' = jobs /\ jobs \in Seq(Job)
  BY DEF KInv, Typed
<1> QED
  BY <1>1, GivenUp

(* The queue goes on: its first item is replaced by items of what it spans,*)
(* and an entry is made, or taken as the file in flight.                   *)
LEMMA GoesOn ==
  ASSUME KInv, file = NoNode, work # <<>>, UNCHANGED <<direction, follow, jobs>>,
         NEW c \in Seq(WorkItem), Disjoint(c),
         \A m \in Nodes : Covered(c, m) => m \in Span(Head(work)),
         \A i \in DOMAIN c : ItemFits(c[i], direction, follow),
         work' = c \o Tail(work)
  PROVE  /\ work' \in Seq(WorkItem) /\ Disjoint(work')
         /\ \A m \in Nodes : Covered(work', m) => m \in Nodes /\ ~Contains(made, m)
         /\ \A m \in Nodes : m \in Span(Head(work)) /\ ~Covered(c, m) => ~Covered(work', m)
         /\ \A m \in Nodes : m \in Span(Head(work)) => ~Contains(made, m)
         /\ \A i \in DOMAIN work' : ItemFits(work'[i], direction', follow')
<1> DEFINE t == Tail(work)
<1>1. work \in Seq(WorkItem) /\ Disjoint(work)
  BY DEF KInv, Typed, OnceEach
<1>2. /\ t \in Seq(WorkItem) /\ Disjoint(t)
      /\ \A i \in DOMAIN t : \E j \in DOMAIN work : t[i] = work[j]
      /\ \A m \in Nodes : Covered(t, m) => Covered(work, m) /\ m \notin Span(Head(work))
      /\ \A m \in Nodes : m \in Span(Head(work)) => Covered(work, m)
  BY <1>1, Rest
<1>3. \A m \in Nodes : ~(Covered(c, m) /\ Covered(t, m))
  BY <1>2
<1> HIDE DEF t
<1>4. work' = c \o t
  BY DEF t
<1>5. /\ work' \in Seq(WorkItem) /\ Disjoint(work')
      /\ \A m \in Nodes : Covered(work', m) => Covered(c, m) \/ Covered(t, m)
  BY <1>2, <1>3, <1>4, Joined
<1>6. ASSUME NEW i \in DOMAIN work'
      PROVE  ItemFits(work'[i], direction, follow)
  <2>1. /\ Len(work') = Len(c) + Len(t)
        /\ \A j \in 1 .. Len(c) + Len(t) : work'[j] = IF j <= Len(c) THEN c[j] ELSE t[j - Len(c)]
    BY <1>2, <1>4, ConcatProperties
  <2>2. Len(c) \in Nat /\ Len(t) \in Nat /\ DOMAIN c = 1 .. Len(c) /\ DOMAIN t = 1 .. Len(t)
    BY <1>2
  <2>3. i \in 1 .. Len(c) + Len(t)
    BY <1>5, <2>1
  <2>4. CASE i <= Len(c)
    BY <2>1, <2>2, <2>3, <2>4
  <2>5. CASE ~(i <= Len(c))
    <3>1. i - Len(c) \in DOMAIN t /\ work'[i] = t[i - Len(c)]
      <4>1. i - Len(c) \in DOMAIN t
        BY <2>2, <2>3, <2>5
      <4>2. work'[i] = IF i <= Len(c) THEN c[i] ELSE t[i - Len(c)]
        BY <2>1, <2>3
      <4> QED
        BY <2>5, <4>1, <4>2
    <3>2. PICK j \in DOMAIN work : work'[i] = work[j]
      BY <1>2, <3>1
    <3> QED
      BY <3>2 DEF KInv, AllFit
  <2> QED
    BY <2>4, <2>5
<1>7. \A m \in Nodes : Covered(work, m) => ~Contains(made, m)
  BY DEF KInv, OnceEach
<1> QED
  BY <1>2, <1>5, <1>6, <1>7

(* An entry is made that is not a file of bytes.                           *)
LEMMA MadeEntry ==
  ASSUME KInv, file = NoNode, work # <<>>, UNCHANGED <<direction, follow, jobs, file>>,
         NEW c \in Seq(WorkItem), Disjoint(c),
         \A m \in Nodes : Covered(c, m) => m \in Span(Head(work)) /\ m # Head(work).node,
         \A i \in DOMAIN c : ItemFits(c[i], direction, follow),
         work' = c \o Tail(work), Make(Head(work).node),
         Head(work).type \notin FileTypes
  PROVE  KInv'
<1> DEFINE n == Head(work).node
<1>0. work \in Seq(WorkItem) /\ made \in Seq(Nodes)
  BY DEF KInv, Typed
<1>1. Head(work) \in WorkItem /\ 1 \in DOMAIN work /\ Head(work) = work[1]
  BY <1>0
<1>2. n \in Nodes /\ n \in Span(Head(work)) /\ ItemFits(Head(work), direction, follow)
  <2>1. n \in Nodes
    BY <1>1 DEF WorkItem
  <2> QED
    BY <1>1, <2>1, ReachesItself DEF Span, KInv, AllFit
<1>3. /\ work' \in Seq(WorkItem) /\ Disjoint(work')
      /\ \A m \in Nodes : Covered(work', m) => m \in Nodes /\ ~Contains(made, m)
      /\ \A m \in Nodes : m \in Span(Head(work)) /\ ~Covered(c, m) => ~Covered(work', m)
      /\ \A i \in DOMAIN work' : ItemFits(work'[i], direction', follow')
  BY GoesOn
<1>4. made' \in Seq(Nodes) /\ \A x : Contains(made', x) <=> Contains(made, x) \/ x = n
  BY <1>0, <1>2, Appended DEF Make
<1>5. ~Covered(work', n)
  BY <1>2, <1>3
<1>6. Typed'
  BY <1>3, <1>4 DEF KInv, Typed
<1>7. AllFit'
  BY <1>3 DEF KInv, AllFit
<1>8. OnceEach'
  <2>1. ~Contains(made', NoNode)
    BY <1>2, <1>4, NoNodeAssumption DEF KInv, OnceEach
  <2> HIDE DEF n
  <2> QED
    BY <1>2, <1>3, <1>4, <1>5, <2>1, NoNodeAssumption DEF OnceEach
<1>9. NoJobOfMade'
  <2> SUFFICES ASSUME NEW i \in DOMAIN jobs, jobs[i].way = direction,
                      Kind[jobs[i].node] # "link" \/ follow
               PROVE  ~Contains(made', jobs[i].node)
    BY DEF NoJobOfMade
  <2>1. ~Contains(made, jobs[i].node) /\ FileFits(jobs[i].node, direction)
    BY DEF KInv, NoJobOfMade, AllFit
  <2>2. \/ Kind[n] \in {"dir", "dirLink"}
        \/ Kind[n] = "link" /\ (direction = "upload" \/ ~follow)
    <3>1. Head(work).type \in {"UploadDir", "RemoteMkdir", "DownloadDir", "RemoteSymlink", "LocalSymlink"}
      BY <1>1 DEF WorkItem, Types, LinkTypes, FileTypes
    <3> QED
      BY <1>2, <3>1 DEF ItemFits
  <2>3. jobs[i].node # n
    BY <2>1, <2>2 DEF FileFits
  <2> QED
    BY <1>4, <2>1, <2>3
<1> QED
  BY <1>6, <1>7, <1>8, <1>9 DEF KInv

(* The folder is replaced, and nothing is made.                            *)
LEMMA FolderQueued ==
  ASSUME KInv, file = NoNode, work # <<>>, UNCHANGED <<direction, follow, jobs, file, made>>,
         NEW c \in Seq(WorkItem), Disjoint(c),
         \A m \in Nodes : Covered(c, m) => m \in Span(Head(work)),
         \A i \in DOMAIN c : ItemFits(c[i], direction, follow),
         work' = c \o Tail(work)
  PROVE  KInv'
<1>1. /\ work' \in Seq(WorkItem) /\ Disjoint(work')
      /\ \A m \in Nodes : Covered(work', m) => m \in Nodes /\ ~Contains(made, m)
      /\ \A i \in DOMAIN work' : ItemFits(work'[i], direction', follow')
  BY GoesOn
<1>2. Typed' /\ AllFit'
  BY <1>1 DEF KInv, Typed, AllFit
<1>3. OnceEach'
  BY <1>1, NoNodeAssumption DEF KInv, OnceEach
<1>4. NoJobOfMade'
  BY DEF KInv, NoJobOfMade
<1> QED
  BY <1>2, <1>3, <1>4 DEF KInv

(* The file at the head of the queue is opened.                            *)
LEMMA FileOpens ==
  ASSUME KInv, file = NoNode, work # <<>>, UNCHANGED <<direction, follow, jobs, made>>,
         Head(work).type \in FileTypes, Head(work).type = "DownloadFile" => Kind[Head(work).node] # "dirLink",
         file' = Head(work).node, work' = Tail(work)
  PROVE  KInv'
<1> DEFINE n == Head(work).node
<1>0. work \in Seq(WorkItem) /\ Disjoint(work)
  BY DEF KInv, Typed, OnceEach
<1>1. Head(work) \in WorkItem /\ 1 \in DOMAIN work /\ Head(work) = work[1]
  BY <1>0
<1>2. n \in Nodes /\ n \in Span(Head(work)) /\ ItemFits(Head(work), direction, follow)
  <2>1. n \in Nodes
    BY <1>1 DEF WorkItem
  <2> QED
    BY <1>1, <2>1, ReachesItself DEF Span, KInv, AllFit
<1>3. /\ work' \in Seq(WorkItem) /\ Disjoint(work')
      /\ \A i \in DOMAIN work' : \E j \in DOMAIN work : work'[i] = work[j]
      /\ \A m \in Nodes : Covered(work', m) => Covered(work, m) /\ m \notin Span(Head(work))
      /\ \A m \in Nodes : m \in Span(Head(work)) => Covered(work, m)
  BY <1>0, Rest
<1>4. FileFits(n, direction)
  BY <1>2 DEF FileFits, ItemFits, FileTypes
<1>5. Typed'
  BY <1>2, <1>3 DEF KInv, Typed
<1>6. AllFit'
  <2> HIDE DEF n
  <2>1. file' = n
    BY DEF n
  <2> QED
    BY <1>3, <1>4, <2>1 DEF KInv, AllFit
<1>7. OnceEach'
  <2> HIDE DEF n
  <2>1. file' = n /\ \A m \in Nodes : Covered(work, m) => ~Contains(made, m)
    BY DEF n, KInv, OnceEach
  <2> QED
    BY <1>2, <1>3, <2>1 DEF OnceEach
<1>8. NoJobOfMade'
  BY DEF KInv, NoJobOfMade
<1> QED
  BY <1>5, <1>6, <1>7, <1>8 DEF KInv

-----------------------------------------------------------------------------
LEMMA TickFrame ==
  ASSUME KInv, Tick, file = NoNode, work # <<>>
  PROVE  /\ UNCHANGED <<direction, follow>>
         /\ work \in Seq(WorkItem) /\ Head(work) \in WorkItem
         /\ Node = Head(work).node /\ Node \in Nodes
         /\ ItemFits(Head(work), direction, follow)
<1>1. work \in Seq(WorkItem)
  BY DEF KInv, Typed
<1>2. Head(work) \in WorkItem /\ 1 \in DOMAIN work /\ Head(work) = work[1]
  BY <1>1
<1> QED
  BY <1>1, <1>2 DEF Tick, Node, WorkItem, KInv, AllFit

LEMMA NothingFirst ==
  ASSUME NEW s \in Seq(WorkItem)
  PROVE  <<>> \o s = s /\ ~(\E m : Covered(<<>>, m))
BY DEF Covered

LEMMA EntryMade ==
  ASSUME KInv, Tick, file = NoNode, work # <<>>, UNCHANGED jobs,
         Head(work).type \notin FileTypes, Make(Node), Continue(Tail(work))
  PROVE  KInv'
<1>1. Tail(work) \in Seq(WorkItem) /\ work' = <<>> \o Tail(work) /\ file' = file
  <2>1. Tail(work) \in Seq(WorkItem)
    BY TickFrame
  <2> QED
    BY <2>1, NothingFirst DEF Continue
<1>2. /\ UNCHANGED <<direction, follow, jobs, file>> /\ Make(Head(work).node)
      /\ <<>> \in Seq(WorkItem) /\ Disjoint(<<>>) /\ DOMAIN <<>> = {}
      /\ \A m \in Nodes : ~Covered(<<>>, m)
  BY <1>1, TickFrame, EmptyWork, NothingFirst
<1> DEFINE c == <<>>
<1>3. /\ c \in Seq(WorkItem) /\ Disjoint(c)
      /\ \A m \in Nodes : Covered(c, m) => m \in Span(Head(work)) /\ m # Head(work).node
      /\ \A i \in DOMAIN c : ItemFits(c[i], direction, follow)
      /\ work' = c \o Tail(work)
  BY <1>1, <1>2
<1> HIDE DEF c
<1> QED
  BY <1>2, <1>3, MadeEntry

LEMMA UploadDirKeeps == KInv /\ UploadDir => KInv'
<1> SUFFICES ASSUME KInv, UploadDir PROVE KInv'
  OBVIOUS
<1> DEFINE n == Node
           x == Item("RemoteMkdir", n)
           r == Children[n]
           s == [i \in DOMAIN r |-> UploadItem(r[i])]
<1>1. /\ Tick /\ file = NoNode /\ work # <<>> /\ Head(work).type = "UploadDir"
      /\ UNCHANGED <<jobs, file, made>>
      /\ work' = <<x>> \o s \o Tail(work)
  BY DEF UploadDir, Turn, MakeNothing, Continue
<1>2. /\ UNCHANGED <<direction, follow>> /\ Head(work).node = n /\ n \in Nodes
      /\ ItemFits(Head(work), direction, follow) /\ work \in Seq(WorkItem)
      /\ follow \in BOOLEAN
  BY <1>1, TickFrame DEF KInv, Typed
<1>3. direction = "upload" /\ Kind[n] = "dir" /\ Span(Head(work)) = Reach(n)
  BY <1>1, <1>2 DEF ItemFits, Span
<1>4. x \in WorkItem /\ ItemFits(x, "upload", follow) /\ Span(x) = {n}
  BY <1>2, <1>3 DEF Item, WorkItem, Types, ItemFits, Span
<1>5. /\ s \in Seq(WorkItem) /\ Disjoint(s)
      /\ \A m \in Nodes : Covered(s, m) => \E i \in 1 .. Len(r) : m \in Reach(r[i])
      /\ \A i \in DOMAIN s : ItemFits(s[i], "upload", follow)
  BY <1>2, ChildrenApart, Uploads
<1>6. DOMAIN r = 1 .. Len(r)
  BY <1>2, ChildrenApart
<1>7. \A m \in Nodes : Covered(s, m) => m \in Reach(n) /\ m # n
  <2> HIDE DEF s, n
  <2> SUFFICES ASSUME NEW m \in Nodes, Covered(s, m) PROVE m \in Reach(n) /\ m # n
    OBVIOUS
  <2>1. PICK i \in DOMAIN r : m \in Reach(r[i])
    BY <1>5, <1>6
  <2> QED
    BY <1>2, <2>1, ReachesBelow
<1> DEFINE h == <<x>>
           c == h \o s
<1>8. /\ h \in Seq(WorkItem) /\ Disjoint(h) /\ DOMAIN h = {1} /\ h[1] = x /\ Len(h) = 1
      /\ \A m \in Nodes : Covered(h, m) => m = n
  <2> HIDE DEF x, n
  <2> QED
    BY <1>4, OneItem
<1> HIDE DEF s, x, h
<1>9. /\ c \in Seq(WorkItem) /\ Disjoint(c)
      /\ \A m \in Nodes : Covered(c, m) => Covered(h, m) \/ Covered(s, m)
  BY <1>5, <1>7, <1>8, Joined
<1>10. \A m \in Nodes : Covered(c, m) => m \in Span(Head(work))
  BY <1>2, <1>3, <1>7, <1>8, <1>9, ReachesItself
<1>11. ASSUME NEW i \in DOMAIN c
       PROVE  ItemFits(c[i], direction, follow)
  <2>1. /\ Len(c) = Len(h) + Len(s)
        /\ \A j \in 1 .. Len(h) + Len(s) : c[j] = IF j <= Len(h) THEN h[j] ELSE s[j - Len(h)]
    BY <1>5, <1>8, ConcatProperties
  <2> HIDE DEF c
  <2>2. i \in 1 .. 1 + Len(s) /\ Len(s) \in Nat /\ DOMAIN s = 1 .. Len(s)
    BY <1>5, <1>8, <1>9, <2>1
  <2>3. c[i] = IF i <= 1 THEN h[i] ELSE s[i - 1]
    BY <1>8, <2>1, <2>2
  <2>4. CASE i = 1
    BY <1>3, <1>4, <1>8, <2>3, <2>4
  <2>5. CASE i # 1
    <3>1. i - 1 \in DOMAIN s
      BY <2>2, <2>5
    <3>2. c[i] = s[i - 1]
      BY <2>2, <2>3, <2>5
    <3> QED
      BY <1>3, <1>5, <3>1, <3>2
  <2> QED
    BY <2>4, <2>5
<1>12. work' = c \o Tail(work)
  BY <1>1 DEF h, x, s
<1> HIDE DEF c
<1> QED
  BY <1>1, <1>2, <1>9, <1>10, <1>11, <1>12, FolderQueued

LEMMA DownloadDirKeeps == KInv /\ DownloadDir => KInv'
<1> SUFFICES ASSUME KInv, DownloadDir PROVE KInv'
  OBVIOUS
<1> DEFINE n == Node
           r == W!Taken("download", n)
           s == [i \in DOMAIN r |-> DownloadItem(r[i], follow)]
<1>1. /\ Tick /\ file = NoNode /\ work # <<>> /\ Head(work).type = "DownloadDir"
      /\ UNCHANGED jobs
  BY DEF DownloadDir, Turn
<1>2. \/ Make(n) /\ Continue(s \o Tail(work))
      \/ Make(n) /\ Abort("Failed")
      \/ MakeNothing /\ Abort("Failed")
  BY DEF DownloadDir
<1>3. /\ UNCHANGED <<direction, follow>> /\ Head(work).node = n /\ n \in Nodes
      /\ ItemFits(Head(work), direction, follow) /\ work \in Seq(WorkItem)
      /\ Tail(work) \in Seq(WorkItem) /\ follow \in BOOLEAN
  BY <1>1, TickFrame DEF KInv, Typed
<1>4. direction = "download" /\ Kind[n] = "dir" /\ Span(Head(work)) = Reach(n)
      /\ Head(work).type \notin FileTypes
  BY <1>1, <1>3 DEF ItemFits, Span, FileTypes
<1>5. /\ s \in Seq(WorkItem) /\ Disjoint(s)
      /\ \A m \in Nodes : Covered(s, m) => \E i \in 1 .. Len(r) : m \in Reach(r[i])
      /\ \A i \in DOMAIN s : ItemFits(s[i], "download", follow)
  <2>1. /\ r \in Seq(Nodes)
        /\ \A i, j \in 1 .. Len(r) :
             i # j => \A m \in Nodes : ~(m \in Reach(r[i]) /\ m \in Reach(r[j]))
    BY <1>3, TakenApart
  <2> HIDE DEF r
  <2> QED
    BY <1>3, <2>1, Downloads
<1>6. \A m \in Nodes : Covered(s, m) => m \in Reach(n) /\ m # n
  <2>1. \A i \in 1 .. Len(r) : \E k \in DOMAIN Children[n] : r[i] = Children[n][k]
    BY <1>3, TakenApart
  <2> HIDE DEF s, n, r
  <2> SUFFICES ASSUME NEW m \in Nodes, Covered(s, m) PROVE m \in Reach(n) /\ m # n
    OBVIOUS
  <2>2. PICK i \in 1 .. Len(r) : m \in Reach(r[i])
    BY <1>5
  <2>3. PICK k \in DOMAIN Children[n] : r[i] = Children[n][k]
    BY <2>1
  <2>4. m \in Reach(Children[n][k])
    BY <2>2, <2>3
  <2> QED
    BY <1>3, <2>4, ReachesBelow
<1> HIDE DEF s, r
<1>7. CASE Make(n) /\ Continue(s \o Tail(work))
  <2>1. work' = s \o Tail(work) /\ file' = file
    BY <1>7 DEF Continue
  <2> QED
    BY <1>1, <1>3, <1>4, <1>5, <1>6, <1>7, <2>1, MadeEntry
<1>8. CASE Make(n) /\ Abort("Failed")
  \* As if the listing had been empty, and then given up.
  <2>1. made' \in Seq(Nodes) /\ \A x : Contains(made', x) <=> Contains(made, x) \/ x = n
    <3>1. made \in Seq(Nodes)
      BY DEF KInv, Typed
    <3> QED
      BY <1>3, <1>8, <3>1, Appended DEF Make
  <2>2. work' = <<>> /\ file' = NoNode
    BY <1>8 DEF Abort, Abandoned
  <2>3. Typed' /\ AllFit'
    BY <1>1, <1>3, <2>1, <2>2, EmptyWork DEF KInv, Typed, AllFit
  <2>4. OnceEach'
    BY <1>1, <1>3, <2>1, <2>2, EmptyWork, NothingFirst, NoNodeAssumption DEF KInv, OnceEach
  <2>5. NoJobOfMade'
    <3> SUFFICES ASSUME NEW i \in DOMAIN jobs, jobs[i].way = direction,
                        Kind[jobs[i].node] # "link" \/ follow
                 PROVE  ~Contains(made', jobs[i].node)
      BY <1>1, <1>3 DEF NoJobOfMade
    <3>1. ~Contains(made, jobs[i].node) /\ FileFits(jobs[i].node, direction)
      BY DEF KInv, NoJobOfMade, AllFit
    <3>2. jobs[i].node # n
      BY <1>4, <3>1 DEF FileFits
    <3> QED
      BY <2>1, <3>1, <3>2
  <2> QED
    BY <2>3, <2>4, <2>5 DEF KInv
<1>9. CASE MakeNothing /\ Abort("Failed")
  BY <1>1, <1>3, <1>9, GivenUpAsItIs DEF MakeNothing, Abort
<1> QED
  BY <1>2, <1>7, <1>8, <1>9

LEMMA WorkKeeps == KInv /\ TickAsyncWorkItem => KInv'
<1> SUFFICES ASSUME KInv, TickAsyncWorkItem PROVE KInv'
  OBVIOUS
<1>1. CASE TickDone
  <2>1. UNCHANGED <<direction, follow, work, file, made, jobs>>
    BY <1>1 DEF TickDone, Tick, MakeNothing
  <2> QED
    BY <2>1 DEF KInv, Typed, AllFit, OnceEach, NoJobOfMade
<1>2. CASE TickStop
  BY <1>2, GivenUpAsItIs DEF TickStop, Tick, MakeNothing, Abort
<1>3. CASE RemoteMkdir \/ MakeLink
  <2>1. /\ Tick /\ file = NoNode /\ work # <<>> /\ UNCHANGED jobs
        /\ Head(work).type \notin FileTypes
    BY <1>3 DEF RemoteMkdir, MakeLink, Turn, LinkTypes, FileTypes
  <2>2. \/ Make(Node) /\ Continue(Tail(work))
        \/ MakeNothing /\ Abort("Failed")
    BY <1>3 DEF RemoteMkdir, MakeLink
  <2>3. CASE Make(Node) /\ Continue(Tail(work))
    BY <2>1, <2>3, EntryMade
  <2>4. CASE MakeNothing /\ Abort("Failed")
    BY <2>1, <2>4, GivenUpAsItIs DEF MakeNothing, Abort, Tick
  <2> QED
    BY <2>2, <2>3, <2>4
<1>4. CASE UploadDir
  BY <1>4, UploadDirKeeps
<1>5. CASE DownloadDir
  BY <1>5, DownloadDirKeeps
<1>6. CASE PrepareAsyncUploadJob \/ PrepareAsyncDownloadJob
  <2>1. /\ Tick /\ file = NoNode /\ work # <<>> /\ MakeNothing /\ UNCHANGED jobs
        /\ Head(work).type \in FileTypes
    BY <1>6 DEF PrepareAsyncUploadJob, PrepareAsyncDownloadJob, Turn, FileTypes
  <2>2. \/ file' = Node /\ work' = Tail(work)
           /\ (Head(work).type = "DownloadFile" => Kind[Node] # "dirLink" \/ ~follow)
        \/ Abort("Failed")
    <3>1. CASE PrepareAsyncUploadJob
      BY <3>1 DEF PrepareAsyncUploadJob, Prepared, Turn
    <3>2. CASE PrepareAsyncDownloadJob
      BY <3>2 DEF PrepareAsyncDownloadJob, Prepared, Turn
    <3> QED
      BY <1>6, <3>1, <3>2
  <2>3. CASE Abort("Failed")
    BY <2>1, <2>3, GivenUpAsItIs DEF MakeNothing, Abort, Tick
  <2>4. CASE /\ file' = Node /\ work' = Tail(work)
             /\ Head(work).type = "DownloadFile" => Kind[Node] # "dirLink" \/ ~follow
    <3>1. /\ UNCHANGED <<direction, follow>> /\ Node = Head(work).node
          /\ ItemFits(Head(work), direction, follow)
      BY <2>1, TickFrame
    <3>2. Head(work).type = "DownloadFile" => Kind[Head(work).node] # "dirLink"
      BY <2>4, <3>1 DEF ItemFits
    <3> QED
      BY <2>1, <2>4, <3>1, <3>2, FileOpens DEF MakeNothing
  <2> QED
    BY <2>2, <2>3, <2>4
<1> QED
  BY <1>1, <1>2, <1>3, <1>4, <1>5, <1>6 DEF TickAsyncWorkItem

-----------------------------------------------------------------------------
(* The jobs that are stored.                                               *)
LEMMA RemovedJobs ==
  ASSUME NEW kept, jobs \in Seq(Job)
  PROVE  /\ Removed(kept) \in Seq(Job)
         /\ \A i \in DOMAIN Removed(kept) :
              \E k \in DOMAIN jobs : Removed(kept)[i] = jobs[k] /\ jobs[k] # kept
<1> DEFINE at == {i \in DOMAIN jobs : jobs[i] # kept}
<1>1. at \subseteq DOMAIN jobs /\ \A k \in at : k \in DOMAIN jobs /\ jobs[k] # kept
  OBVIOUS
<1>2. Removed(kept) = W!Pick(jobs, at)
  BY DEF Removed
<1> HIDE DEF at
<1> QED
  BY <1>1, <1>2, PickFacts

LEMMA SavedJobs ==
  ASSUME NEW kept \in Job, jobs \in Seq(Job)
  PROVE  /\ Saved(kept) \in Seq(Job)
         /\ \A i \in DOMAIN Saved(kept) :
              (\E k \in DOMAIN jobs : Saved(kept)[i] = jobs[k]) \/ Saved(kept)[i] = kept
<1> DEFINE r == Removed(kept)
           s == Append(r, kept)
<1>1. r \in Seq(Job) /\ \A i \in DOMAIN r : \E k \in DOMAIN jobs : r[i] = jobs[k]
  BY RemovedJobs
<1> HIDE DEF r
<1>2. /\ s \in Seq(Job) /\ Len(s) = Len(r) + 1 /\ s[Len(r) + 1] = kept
      /\ \A i \in 1 .. Len(r) : s[i] = r[i]
  BY <1>1, AppendProperties
<1>3. Len(r) \in Nat /\ DOMAIN r = 1 .. Len(r)
  BY <1>1
<1>4. Saved(kept) = s
  BY DEF Saved, r
<1> HIDE DEF s
<1>5. ASSUME NEW i \in DOMAIN s
      PROVE  (\E k \in DOMAIN jobs : s[i] = jobs[k]) \/ s[i] = kept
  <2>1. i \in 1 .. Len(r) \/ i = Len(r) + 1
    BY <1>2, <1>3
  <2> QED
    BY <1>1, <1>2, <1>3, <2>1
<1> QED
  BY <1>2, <1>4, <1>5

LEMMA FileKeeps == KInv /\ TickAsyncAio => KInv'
<1> SUFFICES ASSUME KInv, TickAsyncAio PROVE KInv'
  OBVIOUS
<1>1. file # NoNode /\ UNCHANGED <<direction, follow>>
  BY DEF TickAsyncAio, SftpFileFails, ScpFileFails, FileDone, FileTick, Tick
<1>2. /\ file \in Nodes /\ direction \in W!Directions /\ Interrupted \in Job
      /\ jobs \in Seq(Job) /\ made \in Seq(Nodes)
  BY <1>1 DEF KInv, Typed, Interrupted, Job
<1>3. CASE SftpFileFails \/ ScpFileFails
  <2>1. UNCHANGED made /\ Abandoned
    BY <1>3 DEF SftpFileFails, ScpFileFails, FileLost, MakeNothing, Abort
  <2>2. jobs' = jobs \/ jobs' = Saved(Interrupted)
    BY <1>3 DEF SftpFileFails, ScpFileFails, FileLost
  <2>3. CASE jobs' = jobs
    BY <1>1, <2>1, <2>3, GivenUpAsItIs
  <2>4. CASE jobs' = Saved(Interrupted)
    <3>1. /\ jobs' \in Seq(Job)
          /\ \A i \in DOMAIN jobs' :
               (\E k \in DOMAIN jobs : jobs'[i] = jobs[k]) \/ jobs'[i] = Interrupted
      BY <1>2, <2>4, SavedJobs
    <3> QED
      BY <1>1, <2>1, <3>1, GivenUp DEF Interrupted
  <2> QED
    BY <2>2, <2>3, <2>4
<1>4. CASE FileDone
  <2>1. Make(file) /\ file' = NoNode /\ work' = work /\ jobs' = Removed(Interrupted)
    BY <1>4 DEF FileDone
  <2>2. made' \in Seq(Nodes) /\ \A x : Contains(made', x) <=> Contains(made, x) \/ x = file
    BY <1>2, <2>1, Appended DEF Make
  <2>3. /\ jobs' \in Seq(Job)
        /\ \A i \in DOMAIN jobs' :
             \E k \in DOMAIN jobs : jobs'[i] = jobs[k] /\ jobs[k] # Interrupted
    BY <1>2, <2>1, RemovedJobs
  <2>4. Typed'
    BY <1>1, <2>1, <2>2, <2>3 DEF KInv, Typed
  <2>5. AllFit'
    BY <1>1, <2>1, <2>3 DEF KInv, AllFit
  <2>6. OnceEach'
    <3>1. ~Contains(made', NoNode)
      <4>1. ~Contains(made, NoNode)
        BY <1>2, NoNodeAssumption DEF Contains
      <4> QED
        BY <1>1, <2>2, <4>1
    <3> QED
      BY <2>1, <2>2, <3>1, NoNodeAssumption DEF KInv, OnceEach
  <2>7. NoJobOfMade'
    <3> SUFFICES ASSUME NEW i \in DOMAIN jobs', jobs'[i].way = direction,
                        Kind[jobs'[i].node] # "link" \/ follow
                 PROVE  ~Contains(made', jobs'[i].node)
      BY <1>1 DEF NoJobOfMade
    <3>1. PICK k \in DOMAIN jobs : jobs'[i] = jobs[k] /\ jobs[k] # Interrupted
      BY <2>3
    <3>2. ~Contains(made, jobs[k].node)
      BY <3>1 DEF KInv, NoJobOfMade
    <3>3. jobs[k].node # file
      <4>1. jobs[k] \in Job
        BY <1>2
      <4> QED
        BY <3>1, <4>1 DEF Interrupted, Job
    <3> QED
      BY <2>2, <3>1, <3>2, <3>3
  <2> QED
    BY <2>4, <2>5, <2>6, <2>7 DEF KInv
<1> QED
  BY <1>3, <1>4 DEF TickAsyncAio

LEMMA RequestKeeps == KInv /\ (Requests \/ Open \/ Close) => KInv'
<1> SUFFICES ASSUME KInv, Requests \/ Open \/ Close PROVE KInv'
  OBVIOUS
<1>1. CASE RequestCancel \/ RequestInterrupt \/ Open
  <2>1. UNCHANGED <<direction, follow, work, file, made, jobs>>
    BY <1>1 DEF RequestCancel, RequestInterrupt, Open
  <2> QED
    BY <2>1 DEF KInv, Typed, AllFit, OnceEach, NoJobOfMade
<1>2. CASE DiscardInterruptedTransfer
  <2>1. /\ jobs # <<>> /\ jobs' = SubSeq(jobs, 1, Len(jobs) - 1)
        /\ UNCHANGED <<direction, follow, work, file, made>>
    BY <1>2 DEF DiscardInterruptedTransfer, Front
  <2>2. jobs \in Seq(Job)
    BY DEF KInv, Typed
  <2>3. /\ jobs' \in Seq(Job)
        /\ \A i \in DOMAIN jobs' : i \in DOMAIN jobs /\ jobs'[i] = jobs[i]
    <3>1. Len(jobs) \in Nat /\ Len(jobs) > 0 /\ DOMAIN jobs = 1 .. Len(jobs)
      BY <2>1, <2>2
    <3>2. /\ jobs' \in Seq(Job) /\ Len(jobs') = Len(jobs) - 1
          /\ \A i \in 1 .. Len(jobs) - 1 : jobs'[i] = jobs[1 + i - 1]
      BY <2>1, <2>2, <3>1, SubSeqProperties
    <3> QED
      BY <3>1, <3>2
  <2>4. Typed' /\ AllFit'
    BY <2>1, <2>3 DEF KInv, Typed, AllFit
  <2>5. OnceEach'
    BY <2>1 DEF KInv, OnceEach
  <2>6. NoJobOfMade'
    BY <2>1, <2>3 DEF KInv, NoJobOfMade
  <2> QED
    BY <2>4, <2>5, <2>6 DEF KInv
<1>3. CASE Close
  BY <1>3, GivenUpAsItIs DEF Close
<1> QED
  BY <1>1, <1>2, <1>3 DEF Requests

LEMMA StartsKept == Init => KInv
<1> SUFFICES ASSUME Init PROVE KInv
  OBVIOUS
<1>1. /\ direction = "upload" /\ follow = FALSE /\ work = <<>> /\ file = NoNode
      /\ jobs = <<>> /\ made = <<>>
  BY DEF Init, W!Init
<1>2. Typed
  <2>1. made \in Seq(Nodes) /\ jobs \in Seq(Job) /\ work \in Seq(WorkItem)
    BY <1>1, EmptyWork
  <2> QED
    BY <1>1, <2>1 DEF Typed, W!Directions
<1>3. AllFit /\ NoJobOfMade
  BY <1>1 DEF AllFit, NoJobOfMade
<1>4. OnceEach
  BY <1>1, EmptyWork DEF OnceEach, Covered, Contains
<1> QED
  BY <1>2, <1>3, <1>4 DEF KInv

LEMMA EveryStepKeeps == KInv /\ [Next]_vars => KInv'
<1>1. KInv /\ UNCHANGED vars => KInv'
  BY DEF vars, KInv, Typed, AllFit, OnceEach, NoJobOfMade
<1> QED
  BY <1>1, StartKeeps, RequestKeeps, WorkKeeps, FileKeeps DEF Next

(* Nothing is left of a transfer that has ended: no queue, no open file    *)
(* and no job to resume of a file it has completed                         *)
(* (FsRemote::endTransfer, TransferJobStore::remove).                      *)
THEOREM NothingIsLeftBehind == Spec => []LeavesNothing
<1>1. IInv /\ KInv => LeavesNothing
  <2> SUFFICES ASSUME IInv, KInv, ~active PROVE LeavesNothing
    BY DEF LeavesNothing
  <2>1. work = <<>> /\ file = NoNode
    BY DEF IInv, NothingLeft
  <2>2. ASSUME NEW kept \in ToSet(jobs), kept.way = direction, Kind[kept.node] # "link" \/ follow
        PROVE  ~Contains(made, kept.node)
    BY <2>2 DEF ToSet, KInv, NoJobOfMade
  <2> QED
    BY <2>1, <2>2 DEF LeavesNothing
<1> QED
  BY <1>1, Starts, StartsKept, EveryStep, EveryStepKeeps, PTL DEF Spec
=============================================================================
