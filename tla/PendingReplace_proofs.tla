------------------------ MODULE PendingReplace_proofs ------------------------
(***************************************************************************)
(* Proofs about PendingReplace, for all sets of old and new files and all  *)
(* namings in which the files of one version have distinct names.          *)
(*                                                                         *)
(* The inductive invariant says where files can be (FilesOK), which item   *)
(* statuses a step of the execution can meet (StepOK) and what the loops   *)
(* that undo a replacement or a restore have done so far (LoopsOK).  With   *)
(* it the two properties checked by TLC are inductive themselves.          *)
(***************************************************************************)
EXTENDS PendingReplace, TLAPS

\* A name is taken at most once in every place that files are moved to.
FilesOK ==
  /\ nameOf \in Naming
  /\ at \in [File -> Place]
  /\ \A f \in OldFile : at[f] \in {"target", "backup", "gone"}
  /\ \A f \in NewFile : at[f] \in {"pending", "source", "normalized", "target"}
  /\ \A f \in OldFile, g \in NewFile : at[f] = "target" /\ at[g] = "target" => nameOf[f] # nameOf[g]
  /\ \A f \in NewFile : at[f] \in {"pending", "source"} => at[f] \in folders

RunOK ==
  /\ run = [pc |-> run.pc, todo |-> run.todo, seen |-> run.seen, cause |-> run.cause,
            stop |-> run.stop]
  /\ run.todo \subseteq Todo(run.pc)

\* An execution has a job that is not over, and the job is one for such an item.
JobOK ==
  /\ op = [mode |-> op.mode, job |-> op.job] /\ op.mode \in Mode
  /\ run.pc # "idle" => op.job \in {"RUNNING", "PAUSING", "CANCELLING"}
  /\ op.job # "NONE" =>
       /\ op.mode = "DISCOVER" => item = "NONE"
       /\ op.mode = "RESTORE" => item \in RestoreResumable \union {"RESTORED"}
  /\ run.pc = "beginCleanup" => op.mode = "CLEANUP"

\* The item of a replacement, or of a restore, that is undone.  It is a published
\* one when the answer to the publication was lost.
Undoable == item \in ReplaceActive \/ (item = "ARCHIVING" /\ unanswered)

Withdrawable ==
  \/ item \in {"SUCCESS", "RESTORING", "RESTORE_SWAPPING"}
  \/ item = "RESTORE_COMMITTED" /\ unanswered

\* The statuses the item can have at each step.
StepOK ==
  /\ run.pc = "begin" => item \in {"READY", "FAILED", "STAGING"}
  /\ run.pc \in {"stageFolder", "stage"} => item = "STAGING"
  /\ run.pc = "backup" => item = "BACKING_UP"
  /\ run.pc = "install" => item = "SWAPPING"
  /\ run.pc = "publish" => item = "COMMITTING"
  /\ run.pc = "archive" => item = "ARCHIVING"
  /\ run.pc \in RollbackSteps \union {"failed"} => Undoable
  /\ run.pc = "beginRestore" => item \in {"SUCCESS", "RESTORING"}
  /\ run.pc \in {"openPending", "withdraw"} => item = "RESTORING"
  /\ run.pc \in {"checkBackup", "putBack"} => item = "RESTORE_SWAPPING"
  /\ run.pc = "restored" => item \in {"RESTORE_COMMITTED", "RESTORED"}
  /\ run.pc \in {"unputBack", "unwithdraw", "unrestored"} => Withdrawable
  /\ run.pc = "beginCleanup" => item \in {"SUCCESS", "CLEANING_BACKUP"}
  /\ run.pc = "unlink" => item = "CLEANING_BACKUP"

\* How far a rollback of a replacement, or of a restore, has come.
LoopsOK ==
  /\ run.pc = "undoInstall" => AllAt(NewFile \ run.todo, "normalized")
  /\ run.pc = "undoBackup" => AllAt(NewFile, "normalized") /\ AllAt(OldFile \ run.todo, "target")
  /\ run.pc = "undoNormalize" => AllAt(OldFile, "target") /\ AllAt(NewFile \ run.todo, "source")
  /\ run.pc = "undoFolder" => AllAt(OldFile, "target") /\ AllAt(NewFile, "source")
  /\ run.pc = "failed" => AllAt(OldFile, "target") /\ AllAt(NewFile, "pending")
  /\ run.pc = "unputBack" => AllAt(OldFile \ run.todo, "backup")
  /\ run.pc = "unwithdraw" => AllAt(OldFile, "backup") /\ AllAt(NewFile \ run.todo, "target")
  /\ run.pc = "unrestored" => AllAt(OldFile, "backup") /\ AllAt(NewFile, "target")

RInv ==
  /\ FilesOK /\ RunOK /\ JobOK /\ StepOK /\ LoopsOK
  /\ CheckpointsDescribeFiles /\ NoCopyIsLost


LEMMA InitRInv == ReplaceInit => RInv
  <1> SUFFICES ASSUME ReplaceInit PROVE RInv
    OBVIOUS
  <1>1. FilesOK
    BY ReplaceAssumption DEF ReplaceInit, FilesOK, File, Place
  <1>2. RunOK /\ run.pc = "idle"
    BY DEF ReplaceInit, RunOK, Idle
  <1>3. JobOK
    BY <1>2 DEF ReplaceInit, JobOK, Mode
  <1>4. AllAt(OldFile, "target") /\ AllAt(NewFile, "pending")
    BY ReplaceAssumption DEF ReplaceInit, AllAt, File
  <1>5. CheckpointsDescribeFiles /\ NoCopyIsLost
    BY <1>4, ReplaceAssumption DEF ReplaceInit, CheckpointsDescribeFiles, NoCopyIsLost, AllAt, File
  <1> QED BY <1>1, <1>2, <1>3, <1>5 DEF RInv, StepOK, LoopsOK, RollbackSteps

-----------------------------------------------------------------------------
(* Moves                                                                   *)

LEMMA Entered ==
  ASSUME RunOK, NEW pc, NEW todo \in SUBSET Todo(pc), Goto(pc, todo)
  PROVE  /\ RunOK' /\ run'.pc = pc /\ run'.todo = todo
         /\ run'.seen = run.seen /\ run'.cause = run.cause /\ run'.stop = run.stop
  BY DEF RunOK, Goto, Todo

OldPlaces == {"target", "backup"}
NewPlaces == {"pending", "source", "normalized", "target"}

\* A file that may be moved does not land on another one.
LEMMA MoveIsSafe ==
  ASSUME FilesOK, NEW f \in File, NEW from, NEW to, Movable(f, from, to),
         \/ f \in OldFile /\ from \in OldPlaces /\ to \in OldPlaces
         \/ f \in NewFile /\ from \in NewPlaces /\ to \in NewPlaces
  PROVE  Moved(f, to) = [at EXCEPT ![f] = to]
  <1>1. ASSUME NEW g \in File, at[g] = to, nameOf[g] = nameOf[f] PROVE g = f
    <2>1. CASE at[f] = from /\ ~Occupied(f, to)
      BY <1>1, <2>1 DEF Occupied
    <2>2. CASE at[f] = to
      <3>1. CASE {f, g} \subseteq OldFile \/ {f, g} \subseteq NewFile
        BY <1>1, <3>1, ReplaceAssumption DEF FilesOK
      <3>2. CASE ~({f, g} \subseteq OldFile \/ {f, g} \subseteq NewFile)
        BY <1>1, <2>2, <3>2 DEF FilesOK, File
      <3> QED BY <3>1, <3>2
    <2> QED BY <2>1, <2>2 DEF Movable
  <1> QED BY <1>1 DEF Moved, FilesOK

LEMMA MoveKeepsFiles ==
  ASSUME FilesOK, NEW f \in File, NEW from, NEW to, Movable(f, from, to),
         \/ f \in OldFile /\ from \in OldPlaces /\ to \in OldPlaces
         \/ f \in NewFile /\ from \in NewPlaces /\ to \in NewPlaces,
         at' = [at EXCEPT ![f] = to], nameOf' = nameOf,
         folders' = folders \union ({to} \intersect {"pending", "source"})
  PROVE  FilesOK'
  <1>1. at' \in [File -> Place]
    BY DEF FilesOK, OldPlaces, NewPlaces, Place
  <1>2. \A g \in File : at'[g] = IF g = f THEN to ELSE at[g]
    BY DEF FilesOK
  <1>3. OldFile \subseteq File /\ NewFile \subseteq File
    BY DEF File
  <1>4. ASSUME NEW g \in OldFile, NEW h \in NewFile, at'[g] = "target", at'[h] = "target"
        PROVE  nameOf[g] # nameOf[h]
    <2>1. g # h
      BY ReplaceAssumption
    <2>2. CASE at[f] = to
      BY <1>2, <1>3, <1>4, <2>2 DEF FilesOK
    <2>3. CASE ~Occupied(f, to)
      BY <1>2, <1>3, <1>4, <2>1, <2>3 DEF FilesOK, Occupied
    <2> QED BY <2>2, <2>3 DEF Movable
  <1>5. \A g \in OldFile : at'[g] \in {"target", "backup", "gone"}
    BY <1>2, <1>3, ReplaceAssumption DEF FilesOK, OldPlaces
  <1>6. \A g \in NewFile : at'[g] \in {"pending", "source", "normalized", "target"}
    BY <1>2, <1>3, ReplaceAssumption DEF FilesOK, NewPlaces
  <1>7. \A g \in NewFile : at'[g] \in {"pending", "source"} => at'[g] \in folders'
    BY <1>2, <1>3 DEF FilesOK
  <1> QED BY <1>1, <1>4, <1>5, <1>6, <1>7 DEF FilesOK

\* One turn of a loop moves one of the loop's files, or is an error.
LEMMA TurnMoves ==
  ASSUME RInv, NEW pc, NEW from, NEW to, Turn(pc, from, to), ~Fails,
         \/ Todo(pc) = OldFile /\ from \in OldPlaces /\ to \in OldPlaces
         \/ Todo(pc) = NewFile /\ from \in NewPlaces /\ to \in NewPlaces
  PROVE  \E f \in run.todo :
           /\ at[f] \in {from, to}
           /\ f \in Todo(pc)
           /\ at' = [at EXCEPT ![f] = to]
           /\ FilesOK' /\ RunOK'
           /\ run'.pc = pc /\ run'.todo = run.todo \ {f}
           /\ UNCHANGED <<unanswered, media, item, op>>
  <1>1. PICK f \in run.todo :
          /\ Movable(f, from, to)
          /\ at' = Moved(f, to)
          /\ folders' = folders \union ({to} \intersect {"pending", "source"})
          /\ run' = [run EXCEPT !.todo = @ \ {f}]
          /\ UNCHANGED <<nameOf, unanswered, media, item, batch, op>>
    BY DEF Turn
  <1>2. f \in Todo(pc) /\ f \in File /\ run.pc = pc
    BY DEF RInv, RunOK, Turn, File
  <1>3. at' = [at EXCEPT ![f] = to]
    BY <1>1, <1>2, MoveIsSafe DEF RInv
  <1>4. FilesOK'
    BY <1>1, <1>2, <1>3, MoveKeepsFiles DEF RInv
  <1>5. RunOK' /\ run'.pc = pc /\ run'.todo = run.todo \ {f}
    BY <1>1, <1>2 DEF RInv, RunOK, Todo
  <1> QED BY <1>1, <1>2, <1>3, <1>4, <1>5 DEF Movable

-----------------------------------------------------------------------------
(* Errors                                                                  *)

Undetermined == {"idle", "discover", "open", "loop", "finish", "close", "action"}

\* A step that touches neither the item nor its files.
LEMMA ElsewhereStep ==
  ASSUME RInv, UNCHANGED <<nameOf, unanswered, at, folders, media, item>>,
         RunOK', JobOK', run'.pc \in Undetermined
  PROVE  RInv'
  <1>1. FilesOK' /\ CheckpointsDescribeFiles' /\ NoCopyIsLost'
    BY DEF RInv, FilesOK, CheckpointsDescribeFiles, NoCopyIsLost, AllAt
  <1>2. StepOK' /\ LoopsOK'
    BY DEF Undetermined, StepOK, LoopsOK, RollbackSteps
  <1> QED BY <1>1, <1>2 DEF RInv

LEMMA FailsOutcome ==
  ASSUME RInv, Fails, run.pc \notin {"idle", "loop", "close", "action"}
  PROVE  /\ UNCHANGED <<nameOf, unanswered, at, folders, media, op>>
         /\ RunOK'
         /\ \/ /\ run'.pc = "undoInstall" /\ run'.todo = NewFile
               /\ Undoable
               /\ item' = item \/ (item \in ReplaceActive /\ item' = "ROLLING_BACK")
            \/ /\ run'.pc = "unputBack" /\ run'.todo = OldFile
               /\ Withdrawable /\ item' = item
            \/ run'.pc \in {"finish", "close", "action"} /\ item' = item
  <1>1. UNCHANGED <<nameOf, unanswered, at, folders, media, op>>
    BY DEF Fails
  <1> DEFINE Undoing == /\ run'.pc = "undoInstall" /\ run'.todo = NewFile
                        /\ item' = item \/ (item \in ReplaceActive /\ item' = "ROLLING_BACK")
                        /\ RunOK'
             Withdrawing == /\ run'.pc = "unputBack" /\ run'.todo = OldFile
                            /\ Withdrawable /\ item' = item /\ RunOK'
             Ending == run'.pc \in {"finish", "close", "action"} /\ item' = item /\ RunOK'
  <1>2. ASSUME ItemFails, Undoable PROVE Undoable /\ Undoing
    BY <1>2 DEF ItemFails, Undo, RInv, RunOK, Todo, Checkpointable
  <1>3. ASSUME item' = item, NEW pc \in {"finish", "close", "action"}, Enter(pc) PROVE Ending
    BY <1>3, Entered, Todo(pc) = {} DEF RInv, Enter, Todo
  <1>4. CASE run.pc \in ReplaceSteps
    <2>1. Undoable
      BY <1>4 DEF RInv, StepOK, ReplaceSteps, ReplaceActive, Undoable
    <2>2. ItemFails
      BY <1>4 DEF Fails, ReplaceSteps, RollbackSteps, RestoreSteps
    <2> QED BY <1>1, <1>2, <2>1, <2>2
  <1>5. CASE run.pc \in RollbackSteps \union {"failed"}
    <2>1. Undoable
      BY <1>5 DEF RInv, StepOK
    <2>2. \/ ItemFails
          \/ item' = item /\ \E pc \in {"finish", "close", "action"} : Enter(pc)
      <3>1. CASE run.pc \in RollbackSteps
        <4>1. RollbackFails
          BY <3>1 DEF Fails, ReplaceSteps, RollbackSteps, RestoreSteps
        <4>2. CASE run.cause = "resumed"
          BY <4>1, <4>2 DEF RollbackFails
        <4>3. CASE run.cause # "resumed"
          <5>1. item' = item /\ Enter("action")
            BY <4>1, <4>3 DEF RollbackFails
          <5> QED BY <5>1
        <4> QED BY <4>2, <4>3
      <3>2. CASE run.pc = "failed" /\ run.cause = "resumed"
        BY <3>2 DEF Fails, ReplaceSteps, RollbackSteps, RestoreSteps
      <3>3. CASE run.pc = "failed" /\ run.cause # "resumed"
        <4>1. item' = item /\ (Enter("finish") \/ Enter("close"))
          BY <3>3 DEF Fails, ReplaceSteps, RollbackSteps, RestoreSteps
        <4> QED BY <4>1
      <3> QED BY <1>5, <3>1, <3>2, <3>3
    <2> QED BY <1>1, <1>2, <1>3, <2>1, <2>2
  <1>6. CASE run.pc \in RestoreSteps
    <2>1. Withdrawable
      BY <1>6 DEF RInv, StepOK, RestoreSteps, Withdrawable
    <2>2. \E cause \in {"error", "action"} : RestoreFails(cause)
      BY <1>6 DEF Fails, ReplaceSteps, RollbackSteps, RestoreSteps
    <2> QED BY <1>1, <2>1, <2>2 DEF RestoreFails, Undo, RInv, RunOK, Todo
  <1>7. CASE run.pc \notin ReplaceSteps \union RollbackSteps \union {"failed"} \union RestoreSteps
    <2>1. item' = item /\ \E pc \in {"finish", "close", "action"} : Enter(pc)
      BY <1>7 DEF Fails
    <2> QED BY <1>1, <1>3, <2>1
  <1> QED BY <1>4, <1>5, <1>6, <1>7

\* An error starts the undoing, or leaves the item to a person.
LEMMA FailsStep ==
  ASSUME RInv, Fails, run.pc \notin {"idle", "loop", "close", "action"}
  PROVE  RInv'
  <1> USE FailsOutcome
  <1>1. FilesOK' /\ RunOK'
    BY DEF RInv, FilesOK
  <1>2. JobOK'
    BY DEF RInv, JobOK, ReplaceActive, RestoreResumable
  <1>3. StepOK'
    BY DEF StepOK, RollbackSteps, Undoable, Withdrawable, ReplaceActive
  <1>4. LoopsOK'
    BY DEF LoopsOK, AllAt
  <1>5. CheckpointsDescribeFiles'
    BY DEF RInv, CheckpointsDescribeFiles, ReplaceActive, AllAt
  <1>6. NoCopyIsLost'
    BY DEF RInv, NoCopyIsLost, ReplaceActive
  <1> QED BY <1>1, <1>2, <1>3, <1>4, <1>5, <1>6 DEF RInv

-----------------------------------------------------------------------------
(* The loops of renames                                                    *)

\* What a moved file leaves as it was.
LEMMA MovedFile ==
  ASSUME RInv, NEW f \in File, NEW to \in OldPlaces \union NewPlaces,
         at' = [at EXCEPT ![f] = to], FilesOK', RunOK', run'.pc = run.pc,
         run'.todo = run.todo \ {f}, UNCHANGED <<unanswered, media, item, op>>
  PROVE  /\ JobOK' /\ StepOK' /\ NoCopyIsLost'
         /\ \A g \in File : at'[g] = IF g = f THEN to ELSE at[g]
  <1>1. \A g \in File : at'[g] = IF g = f THEN to ELSE at[g]
    BY DEF RInv, FilesOK
  <1>2. JobOK' /\ StepOK'
    BY DEF RInv, JobOK, StepOK, Undoable, Withdrawable
  <1>3. NoCopyIsLost'
    BY <1>1 DEF RInv, NoCopyIsLost, FilesOK, File, OldPlaces, NewPlaces
  <1> QED BY <1>1, <1>2, <1>3

\* A loop that works forward: the item's status promises nothing of its files.
LEMMA ForwardTurn ==
  ASSUME RInv, NEW pc \in {"stage", "backup", "install", "withdraw", "putBack"}, NEW from, NEW to,
         Turn(pc, from, to),
         \/ Todo(pc) = OldFile /\ from \in OldPlaces /\ to \in OldPlaces
         \/ Todo(pc) = NewFile /\ from \in NewPlaces /\ to \in NewPlaces
  PROVE  RInv'
  <1>1. CASE Fails
    BY <1>1, FailsStep DEF Turn
  <1>2. CASE ~Fails
    <2>1. PICK f \in run.todo :
            /\ f \in Todo(pc) /\ at' = [at EXCEPT ![f] = to]
            /\ FilesOK' /\ RunOK'
            /\ run'.pc = pc /\ run'.todo = run.todo \ {f}
            /\ UNCHANGED <<unanswered, media, item, op>>
      BY <1>2, TurnMoves
    <2>2. f \in File /\ run.pc = pc /\ to \in OldPlaces \union NewPlaces
      BY <2>1 DEF File, Turn
    <2>3. JobOK' /\ StepOK' /\ NoCopyIsLost'
      BY <2>1, <2>2, MovedFile
    <2>4. LoopsOK'
      BY <2>1 DEF LoopsOK
    <2>5. item \in {"STAGING", "BACKING_UP", "SWAPPING", "RESTORING", "RESTORE_SWAPPING"}
      BY <2>2 DEF RInv, StepOK
    <2>6. CheckpointsDescribeFiles'
      BY <2>1, <2>5 DEF RInv, CheckpointsDescribeFiles
    <2> QED BY <2>1, <2>3, <2>4, <2>6 DEF RInv
  <1> QED BY <1>1, <1>2

\* The loops that undo a replacement.
LEMMA RollbackTurn ==
  ASSUME RInv, NEW pc, NEW from, NEW to, Turn(pc, from, to),
         \/ pc = "undoInstall" /\ from = "target" /\ to = "normalized"
         \/ pc = "undoBackup" /\ from = "backup" /\ to = "target"
         \/ pc = "undoNormalize" /\ from = "normalized" /\ to = "source"
  PROVE  RInv'
  <1>1. CASE Fails
    BY <1>1, FailsStep DEF Turn
  <1>2. CASE ~Fails
    <2>0. \/ pc = "undoBackup" /\ Todo(pc) = OldFile /\ from \in OldPlaces /\ to \in OldPlaces
          \/ pc # "undoBackup" /\ Todo(pc) = NewFile /\ from \in NewPlaces /\ to \in NewPlaces
      BY DEF Todo, OldPlaces, NewPlaces
    <2>1. PICK f \in run.todo :
            /\ at[f] \in {from, to}
            /\ f \in Todo(pc) /\ at' = [at EXCEPT ![f] = to]
            /\ FilesOK' /\ RunOK'
            /\ run'.pc = pc /\ run'.todo = run.todo \ {f}
            /\ UNCHANGED <<unanswered, media, item, op>>
      BY <1>2, <2>0, TurnMoves
    <2>2. f \in File /\ run.pc = pc /\ to \in OldPlaces \union NewPlaces
      BY <2>0, <2>1 DEF File, Turn
    <2>3. /\ JobOK' /\ StepOK' /\ NoCopyIsLost'
          /\ \A g \in File : at'[g] = IF g = f THEN to ELSE at[g]
      BY <2>1, <2>2, MovedFile
    <2>4. OldFile \subseteq File /\ NewFile \subseteq File /\ OldFile \intersect NewFile = {}
      BY ReplaceAssumption DEF File
    <2>5. LoopsOK'
      <3>1. CASE pc = "undoInstall"
        BY <2>0, <2>1, <2>2, <2>3, <2>4, <3>1 DEF LoopsOK, RInv, AllAt
      <3>2. CASE pc = "undoBackup"
        BY <2>0, <2>1, <2>2, <2>3, <2>4, <3>2 DEF LoopsOK, RInv, AllAt
      <3>3. CASE pc = "undoNormalize"
        BY <2>0, <2>1, <2>2, <2>3, <2>4, <3>3 DEF LoopsOK, RInv, AllAt
      <3> QED BY <3>1, <3>2, <3>3
    <2>6. Undoable
      BY <2>2 DEF RInv, StepOK, RollbackSteps
    <2>7. ASSUME item \in {"READY", "FAILED"}, NEW g \in File PROVE at'[g] = at[g]
      BY <2>0, <2>1, <2>3, <2>4, <2>7 DEF RInv, CheckpointsDescribeFiles, AllAt
    <2>8. CheckpointsDescribeFiles'
      BY <2>1, <2>4, <2>6, <2>7 DEF RInv, CheckpointsDescribeFiles, Undoable, ReplaceActive, AllAt
    <2> QED BY <2>1, <2>3, <2>5, <2>8 DEF RInv
  <1> QED BY <1>1, <1>2

\* The loops that undo a restore.
LEMMA UnrestoreTurn ==
  ASSUME RInv, NEW pc, NEW from, NEW to, Turn(pc, from, to),
         \/ pc = "unputBack" /\ from = "target" /\ to = "backup"
         \/ pc = "unwithdraw" /\ from = "pending" /\ to = "target"
  PROVE  RInv'
  <1>1. CASE Fails
    BY <1>1, FailsStep DEF Turn
  <1>2. CASE ~Fails
    <2>0. \/ pc = "unputBack" /\ Todo(pc) = OldFile /\ from \in OldPlaces /\ to \in OldPlaces
          \/ pc # "unputBack" /\ Todo(pc) = NewFile /\ from \in NewPlaces /\ to \in NewPlaces
      BY DEF Todo, OldPlaces, NewPlaces
    <2>1. PICK f \in run.todo :
            /\ at[f] \in {from, to}
            /\ f \in Todo(pc) /\ at' = [at EXCEPT ![f] = to]
            /\ FilesOK' /\ RunOK'
            /\ run'.pc = pc /\ run'.todo = run.todo \ {f}
            /\ UNCHANGED <<unanswered, media, item, op>>
      BY <1>2, <2>0, TurnMoves
    <2>2. f \in File /\ run.pc = pc /\ to \in OldPlaces \union NewPlaces
      BY <2>0, <2>1 DEF File, Turn
    <2>3. /\ JobOK' /\ StepOK' /\ NoCopyIsLost'
          /\ \A g \in File : at'[g] = IF g = f THEN to ELSE at[g]
      BY <2>1, <2>2, MovedFile
    <2>4. OldFile \subseteq File /\ NewFile \subseteq File /\ OldFile \intersect NewFile = {}
      BY ReplaceAssumption DEF File
    <2>5. LoopsOK'
      BY <2>0, <2>1, <2>2, <2>3, <2>4 DEF LoopsOK, RInv, AllAt
    <2>6. Withdrawable
      BY <2>2 DEF RInv, StepOK
    <2>7. ASSUME item = "SUCCESS", ~unanswered, NEW g \in File PROVE at'[g] = at[g]
      BY <2>0, <2>1, <2>3, <2>4, <2>7 DEF RInv, CheckpointsDescribeFiles, AllAt
    <2>8. CheckpointsDescribeFiles'
      BY <2>1, <2>4, <2>6, <2>7 DEF RInv, CheckpointsDescribeFiles, Withdrawable, AllAt
    <2> QED BY <2>1, <2>3, <2>5, <2>8 DEF RInv
  <1> QED BY <1>1, <1>2

-----------------------------------------------------------------------------
(* Checkpoints                                                             *)

\* A step that is through tells where the files of its loop are.
LEMMA ThroughStep ==
  ASSUME RInv, NEW pc, NEW next, Through(pc, next),
         \/ pc = "undoInstall" /\ next = "undoBackup"
         \/ pc = "undoBackup" /\ next = "undoNormalize"
         \/ pc = "undoNormalize" /\ next = "undoFolder"
         \/ pc = "checkBackup" /\ next = "putBack"
         \/ pc = "unputBack" /\ next = "unwithdraw"
         \/ pc = "unwithdraw" /\ next = "unrestored"
  PROVE  RInv'
  <1>1. RunOK' /\ run'.pc = next /\ run'.todo = Todo(next)
    BY Entered DEF Through, RInv, Enter
  <1>2. run.pc = pc /\ run.todo = {} /\ UNCHANGED <<nameOf, unanswered, at, folders, media, item, op>>
    BY DEF Through
  <1>3. FilesOK' /\ CheckpointsDescribeFiles' /\ NoCopyIsLost'
    BY <1>2 DEF RInv, FilesOK, CheckpointsDescribeFiles, NoCopyIsLost, AllAt
  <1>4. JobOK' /\ StepOK'
    BY <1>1, <1>2 DEF RInv, JobOK, StepOK, RollbackSteps, Undoable, Withdrawable
  <1>5. LoopsOK'
    <2>1. Todo("undoBackup") = OldFile /\ Todo("undoNormalize") = NewFile /\ Todo("unwithdraw") = NewFile
      BY DEF Todo
    <2> QED BY <1>1, <1>2, <2>1 DEF RInv, LoopsOK, AllAt
  <1> QED BY <1>1, <1>3, <1>4, <1>5 DEF RInv

\* A checkpoint that is written.
LEMMA Checkpointed ==
  ASSUME RInv, NEW pc, NEW expected, NEW status, NEW next,
         Checkpoint(pc, expected, status, next), ~Fails
  PROVE  /\ RunOK' /\ run'.pc = next /\ run'.todo = Todo(next)
         /\ run.pc = pc /\ run.todo = {} /\ item \in expected /\ item' = status
         /\ UNCHANGED <<nameOf, unanswered, at, folders, media, op>>
         /\ FilesOK'
  <1>1. RunOK' /\ run'.pc = next /\ run'.todo = Todo(next)
    BY Entered DEF Checkpoint, RInv, Enter
  <1>2. /\ run.pc = pc /\ run.todo = {} /\ item \in expected /\ item' = status
        /\ UNCHANGED <<nameOf, unanswered, at, folders, media, op>>
    BY DEF Checkpoint, Checkpointable
  <1> QED BY <1>1, <1>2 DEF RInv, FilesOK

\* The checkpoints of a replacement before its publication: a step forward.
LEMMA ForwardCheckpoint ==
  ASSUME RInv, NEW pc, NEW expected, NEW status, NEW next,
         Checkpoint(pc, expected, status, next),
         \/ /\ pc = "begin" /\ status = "STAGING" /\ next = "stageFolder"
            /\ expected = {"READY", "FAILED", "STAGING"}
         \/ /\ pc = "stage" /\ status = "BACKING_UP" /\ next = "backup"
            /\ expected = {"STAGING"}
         \/ /\ pc = "backup" /\ status = "SWAPPING" /\ next = "install"
            /\ expected = {"BACKING_UP"}
         \/ /\ pc = "install" /\ status = "COMMITTING" /\ next = "publish"
            /\ expected = {"SWAPPING"}
  PROVE  RInv'
  <1>1. CASE Fails
    BY <1>1, FailsStep DEF Checkpoint
  <1>2. CASE ~Fails
    <2>1. /\ RunOK' /\ run'.pc = next /\ run'.todo = Todo(next)
          /\ run.pc = pc /\ item \in expected /\ item' = status
          /\ UNCHANGED <<nameOf, unanswered, at, folders, media, op>> /\ FilesOK'
      BY <1>2, Checkpointed
    <2>2. JobOK' /\ StepOK' /\ LoopsOK'
      BY <2>1 DEF RInv, JobOK, RestoreResumable, StepOK, LoopsOK, RollbackSteps
    <2>3. media = "old"
      BY <2>1 DEF RInv, CheckpointsDescribeFiles
    <2>4. CheckpointsDescribeFiles' /\ NoCopyIsLost'
      BY <2>1, <2>3 DEF RInv, CheckpointsDescribeFiles, NoCopyIsLost, AllAt
    <2> QED BY <2>1, <2>2, <2>4 DEF RInv
  <1> QED BY <1>1, <1>2

\* The end of a replacement, or of its rollback.
LEMMA ReplacementEnds ==
  ASSUME RInv,
         \/ Checkpoint("archive", {"ARCHIVING", "SUCCESS"}, "SUCCESS", "finish")
         \/ Checkpoint("failed",
                       {"ROLLING_BACK", "STAGING", "BACKING_UP", "SWAPPING", "COMMITTING"},
                       "FAILED", "finish")
  PROVE  RInv'
  <1>1. CASE Fails
    BY <1>1, FailsStep DEF Checkpoint
  <1>2. CASE ~Fails
    <2>1. /\ RunOK' /\ run'.pc = "finish" /\ run.pc # "idle"
          /\ UNCHANGED <<nameOf, unanswered, at, folders, media, op>> /\ FilesOK'
          /\ \/ item = "ARCHIVING" /\ item' = "SUCCESS"
             \/ /\ run.pc = "failed" /\ item' = "FAILED"
                /\ item \in {"ROLLING_BACK", "STAGING", "BACKING_UP", "SWAPPING", "COMMITTING"}
      BY <1>2, Checkpointed DEF RInv, StepOK
    <2>2. JobOK' /\ StepOK' /\ LoopsOK'
      BY <2>1 DEF RInv, JobOK, RestoreResumable, StepOK, LoopsOK, RollbackSteps
    <2>3. CheckpointsDescribeFiles' /\ NoCopyIsLost'
      BY <2>1 DEF RInv, LoopsOK, CheckpointsDescribeFiles, NoCopyIsLost, AllAt
    <2> QED BY <2>1, <2>2, <2>3 DEF RInv
  <1> QED BY <1>1, <1>2

\* The checkpoints of a restore, of its undoing and of a cleanup.
LEMMA RestoreCheckpoint ==
  ASSUME RInv,
         \/ Checkpoint("beginRestore", {"SUCCESS", "RESTORING"}, "RESTORING", "openPending")
         \/ Checkpoint("withdraw", {"RESTORING"}, "RESTORE_SWAPPING", "checkBackup")
         \/ Checkpoint("restored", {"RESTORE_COMMITTED", "RESTORED"}, "RESTORED", "finish")
         \/ Checkpoint("unrestored", {"RESTORING", "RESTORE_SWAPPING"}, "SUCCESS",
                       IF run.cause = "action" THEN "action" ELSE "close")
  PROVE  RInv'
  <1>1. CASE Fails
    BY <1>1, FailsStep DEF Checkpoint
  <1>2. CASE ~Fails
    <2>1. /\ RunOK' /\ UNCHANGED <<nameOf, unanswered, at, folders, media, op>> /\ FilesOK' /\ run.pc # "idle"
          /\ \/ /\ item \in {"SUCCESS", "RESTORING"} /\ item' = "RESTORING"
                /\ run'.pc = "openPending"
             \/ item = "RESTORING" /\ item' = "RESTORE_SWAPPING" /\ run'.pc = "checkBackup"
             \/ /\ item \in {"RESTORE_COMMITTED", "RESTORED"} /\ item' = "RESTORED"
                /\ run'.pc = "finish"
             \/ /\ run.pc = "unrestored" /\ item \in {"RESTORING", "RESTORE_SWAPPING"}
                /\ item' = "SUCCESS" /\ run'.pc \in {"action", "close"}
      BY <1>2, Checkpointed
    <2>2. JobOK' /\ StepOK' /\ LoopsOK'
      BY <2>1 DEF RInv, JobOK, RestoreResumable, StepOK, LoopsOK, RollbackSteps
    <2>3. CheckpointsDescribeFiles' /\ NoCopyIsLost'
      BY <2>1 DEF RInv, LoopsOK, CheckpointsDescribeFiles, NoCopyIsLost, AllAt
    <2> QED BY <2>1, <2>2, <2>3 DEF RInv
  <1> QED BY <1>1, <1>2

LEMMA CleanupCheckpoint ==
  ASSUME RInv,
         \/ /\ Checkpoint("beginCleanup", {"SUCCESS", "CLEANING_BACKUP"}, "CLEANING_BACKUP", "unlink")
            /\ AllAt(NewFile, "target") /\ media = "new"
         \/ Checkpoint("unlink", {"CLEANING_BACKUP"}, "BACKUP_CLEANED", "finish")
  PROVE  RInv'
  <1>1. CASE Fails
    BY <1>1, FailsStep DEF Checkpoint
  <1>2. CASE ~Fails
    <2>1. /\ RunOK' /\ UNCHANGED <<nameOf, unanswered, at, folders, media, op>> /\ FilesOK' /\ run.pc # "idle"
          /\ \/ /\ run.pc = "beginCleanup" /\ item' = "CLEANING_BACKUP" /\ run'.pc = "unlink"
                /\ item \in {"SUCCESS", "CLEANING_BACKUP"}
                /\ AllAt(NewFile, "target") /\ media = "new"
             \/ item = "CLEANING_BACKUP" /\ item' = "BACKUP_CLEANED" /\ run'.pc = "finish"
      BY <1>2, Checkpointed
    <2>2. JobOK' /\ StepOK' /\ LoopsOK'
      BY <2>1 DEF RInv, JobOK, RestoreResumable, StepOK, LoopsOK, RollbackSteps
    <2>3. CheckpointsDescribeFiles' /\ NoCopyIsLost'
      BY <2>1 DEF RInv, CheckpointsDescribeFiles, NoCopyIsLost, AllAt
    <2> QED BY <2>1, <2>2, <2>3 DEF RInv
  <1> QED BY <1>1, <1>2

\* What the artwork's rows list changes with the status, and where the files are.
LEMMA PublicationStep ==
  ASSUME RInv, PublishReplacement
               \/ Publication("putBack", AllAt(OldFile, "target"), {"RESTORE_SWAPPING"}, "new", "old",
                              "RESTORE_COMMITTED", "restored", "unputBack")
  PROVE  RInv'
  <1>1. CASE Fails
    BY <1>1, FailsStep DEF PublishReplacement, Publication
  <1>2. CASE ~Fails
    <2>1. /\ UNCHANGED <<nameOf, at, folders, op>> /\ run.pc # "idle"
          /\ \/ /\ item = "COMMITTING" /\ item' = "ARCHIVING" /\ media' = "new"
                /\ AllAt(NewFile, "target") /\ AllAt(OldFile, "backup")
                /\ \/ Enter("archive") /\ unanswered' = unanswered
                   \/ Undo("undoInstall", "failed") /\ unanswered'
             \/ /\ item = "RESTORE_SWAPPING" /\ item' = "RESTORE_COMMITTED" /\ media' = "old"
                /\ AllAt(OldFile, "target")
                /\ \/ Enter("restored") /\ unanswered' = unanswered
                   \/ Undo("unputBack", "failed") /\ unanswered'
      BY <1>2 DEF PublishReplacement, Publication, Checkpointable
    <2>2. ASSUME NEW pc, Undo(pc, "failed") PROVE RunOK' /\ run'.pc = pc /\ run'.todo = Todo(pc)
      BY <2>2 DEF Undo, RInv, RunOK
    <2>3. /\ RunOK'
          /\ \/ item' = "ARCHIVING" /\ run'.pc = "archive"
             \/ item' = "RESTORE_COMMITTED" /\ run'.pc = "restored"
             \/ /\ item' = "ARCHIVING" /\ unanswered'
                /\ run'.pc = "undoInstall" /\ run'.todo = NewFile
             \/ /\ item' = "RESTORE_COMMITTED" /\ unanswered'
                /\ run'.pc = "unputBack" /\ run'.todo = OldFile
      <3>1. Todo("undoInstall") = NewFile /\ Todo("unputBack") = OldFile
        BY DEF Todo
      <3>2. ASSUME NEW pc, Enter(pc) PROVE RunOK' /\ run'.pc = pc
        BY <3>2, Entered DEF RInv, Enter
      <3> QED BY <2>1, <2>2, <3>1, <3>2
    <2>4. FilesOK' /\ JobOK' /\ StepOK'
      BY <2>1, <2>3 DEF RInv, FilesOK, JobOK, RestoreResumable, StepOK, RollbackSteps, Undoable,
                        Withdrawable
    <2>5. LoopsOK'
      BY <2>3 DEF LoopsOK, AllAt
    <2>6. CheckpointsDescribeFiles' /\ NoCopyIsLost'
      BY <2>1 DEF RInv, CheckpointsDescribeFiles, NoCopyIsLost, AllAt
    <2> QED BY <2>3, <2>4, <2>5, <2>6 DEF RInv
  <1> QED BY <1>1, <1>2

-----------------------------------------------------------------------------
(* The other steps on files                                                *)

\* The source directory moves as a whole.
LEMMA RenameStep ==
  ASSUME RInv,
         \/ Rename("stageFolder", "pending", "source", "stage")
         \/ Rename("undoFolder", "source", "pending", "failed")
  PROVE  RInv'
  <1>1. CASE Fails
    BY <1>1, FailsStep DEF Rename
  <1>2. PICK from \in {"pending", "source"}, to \in {"pending", "source"} :
          /\ from # to
          /\ run.pc = IF to = "source" THEN "stageFolder" ELSE "undoFolder"
          /\ Rename(run.pc, from, to, IF to = "source" THEN "stage" ELSE "failed")
    BY DEF Rename
  <1>3. CASE ~Fails
    <2> DEFINE next == IF to = "source" THEN "stage" ELSE "failed"
    <2>1. /\ DirectoryMovable(from, to)
          /\ (IF from \in folders THEN MoveDirectory(from, to) ELSE UNCHANGED <<at, folders>>)
          /\ Enter(next) /\ UNCHANGED <<nameOf, unanswered, media, item, op>>
      BY <1>2, <1>3 DEF Rename
    <2>2. RunOK' /\ run'.pc = next
      BY <2>1, Entered DEF RInv, Enter
    <2>3. OldFile \subseteq File /\ NewFile \subseteq File
      BY DEF File
    <2>4. \A f \in File : at'[f] = IF at[f] = from /\ from \in folders THEN to ELSE at[f]
      BY <2>1 DEF MoveDirectory, RInv, FilesOK
    <2>5. /\ at' \in [File -> Place]
          /\ \A f \in OldFile : at'[f] = at[f]
      BY <2>1, <2>3, <2>4 DEF MoveDirectory, RInv, FilesOK, Place
    <2>6. \A f \in NewFile : /\ at'[f] \in {"pending", "source", "normalized", "target"}
                             /\ at'[f] = "target" => at[f] = "target"
                             /\ at'[f] \in {"pending", "source"} => at'[f] = to
      BY <1>2, <2>1, <2>3, <2>4 DEF RInv, FilesOK, DirectoryMovable
    <2>7. to \in folders'
      BY <2>1 DEF DirectoryMovable, MoveDirectory
    <2>8. FilesOK'
      BY <2>1, <2>5, <2>6, <2>7 DEF RInv, FilesOK
    <2>9. JobOK' /\ StepOK'
      BY <1>2, <2>1, <2>2 DEF RInv, JobOK, StepOK, RollbackSteps, Undoable
    <2>10. NoCopyIsLost'
      BY <2>1, <2>4, <2>5, <2>6, <1>2 DEF RInv, NoCopyIsLost, FilesOK, File
    <2>11. CASE to = "source"
      <3>1. item = "STAGING" /\ run'.pc = "stage"
        BY <1>2, <2>2, <2>11 DEF RInv, StepOK
      <3> QED
        BY <2>1, <2>2, <2>8, <2>9, <2>10, <3>1 DEF RInv, CheckpointsDescribeFiles, LoopsOK
    <2>12. CASE to = "pending"
      <3>1. Undoable /\ from = "source" /\ run'.pc = "failed"
        BY <1>2, <2>2, <2>12 DEF RInv, StepOK, RollbackSteps
      <3>2. AllAt(OldFile, "target") /\ AllAt(NewFile, "source")
        BY <1>2, <2>12 DEF RInv, LoopsOK
      <3>3. AllAt(OldFile, "target")' /\ AllAt(NewFile, "pending")'
        BY <2>3, <2>4, <2>5, <2>6, <2>12, <3>2 DEF AllAt, RInv, FilesOK
      <3>4. LoopsOK' /\ CheckpointsDescribeFiles'
        BY <2>1, <3>1, <3>3 DEF LoopsOK, RInv, CheckpointsDescribeFiles, Undoable, ReplaceActive
      <3> QED BY <2>2, <2>8, <2>9, <2>10, <3>4 DEF RInv
    <2> QED BY <1>2, <2>11, <2>12
  <1> QED BY <1>1, <1>3

LEMMA OpenPendingStep ==
  ASSUME RInv, OpenPending
  PROVE  RInv'
  <1>1. CASE Fails
    BY <1>1, FailsStep DEF OpenPending
  <1>2. CASE ~Fails
    <2>1. /\ run.pc = "openPending" /\ folders' = folders \union {"pending"} /\ Enter("withdraw")
          /\ UNCHANGED <<nameOf, unanswered, at, media, item, op>>
      BY <1>2 DEF OpenPending
    <2>2. RunOK' /\ run'.pc = "withdraw"
      BY <2>1, Entered DEF RInv, Enter
    <2>3. FilesOK' /\ JobOK' /\ StepOK' /\ LoopsOK'
      BY <2>1, <2>2 DEF RInv, FilesOK, JobOK, StepOK, LoopsOK, RollbackSteps
    <2>4. CheckpointsDescribeFiles' /\ NoCopyIsLost'
      BY <2>1 DEF RInv, CheckpointsDescribeFiles, NoCopyIsLost, AllAt
    <2> QED BY <2>2, <2>3, <2>4 DEF RInv
  <1> QED BY <1>1, <1>2

\* An old file is deleted by a cleanup only.
LEMMA RemoveBackupStep ==
  ASSUME RInv, RemoveBackup
  PROVE  RInv'
  <1>1. CASE Fails
    BY <1>1, FailsStep DEF RemoveBackup
  <1>2. CASE ~Fails
    <2>1. PICK f \in run.todo :
            /\ run.pc = "unlink" /\ at' = [at EXCEPT ![f] = "gone"]
            /\ run' = [run EXCEPT !.todo = @ \ {f}]
            /\ UNCHANGED <<nameOf, unanswered, folders, media, item, op>>
      BY <1>2 DEF RemoveBackup
    <2>2. f \in OldFile /\ f \in File /\ item = "CLEANING_BACKUP"
      BY <2>1 DEF RInv, RunOK, Todo, StepOK, File
    <2>3. RunOK' /\ run'.pc = "unlink"
      BY <2>1 DEF RInv, RunOK, Todo
    <2>4. \A g \in File : at'[g] = IF g = f THEN "gone" ELSE at[g]
      BY <2>1 DEF RInv, FilesOK
    <2>5. OldFile \subseteq File /\ NewFile \subseteq File /\ f \notin NewFile
      BY <2>2, ReplaceAssumption DEF File
    <2>6. FilesOK'
      BY <2>1, <2>2, <2>4, <2>5 DEF RInv, FilesOK, Place
    <2>7. JobOK' /\ StepOK' /\ LoopsOK'
      BY <2>1, <2>3 DEF RInv, JobOK, StepOK, LoopsOK, RollbackSteps
    <2>8. CheckpointsDescribeFiles' /\ NoCopyIsLost'
      BY <2>1, <2>2, <2>4, <2>5 DEF RInv, CheckpointsDescribeFiles, NoCopyIsLost, FilesOK, AllAt
    <2> QED BY <2>3, <2>6, <2>7, <2>8 DEF RInv
  <1> QED BY <1>1, <1>2

-----------------------------------------------------------------------------
(* Jobs and executions                                                     *)

\* Commands and leases change the job only, and end it only when it is over.
LEMMA JobStep ==
  ASSUME RInv, CommandJob \/ RecoverLease \/ Crash \/ Shutdown
  PROVE  RInv'
  <1>1. CASE CommandJob \/ RecoverLease
    <2>1. PICK before \in JobState, after \in JobState :
            /\ Command(before, after)
            /\ before # "NONE"
            /\ \/ run.pc = "idle" \/ before \in {"QUEUED", "PAUSED"} \/ after \in {"PAUSING", "CANCELLING"}
      BY <1>1 DEF CommandJob, RecoverLease, JobState
    <2>2. UNCHANGED <<nameOf, unanswered, at, folders, media, item, run>>
      BY <2>1 DEF Command
    <2>3. op' = [mode |-> op.mode, job |-> after] /\ op.job = before
      BY <2>1 DEF Command, RInv, JobOK
    <2>4. JobOK'
      BY <2>1, <2>2, <2>3 DEF RInv, JobOK
    <2>5. RunOK' /\ StepOK' /\ LoopsOK' /\ FilesOK' /\ CheckpointsDescribeFiles' /\ NoCopyIsLost'
      BY <2>2 DEF RInv, RunOK, StepOK, Undoable, Withdrawable, LoopsOK, FilesOK,
                   CheckpointsDescribeFiles, NoCopyIsLost, AllAt
    <2> QED BY <2>4, <2>5 DEF RInv
  <1>2. CASE Crash
    <2>1. UNCHANGED <<nameOf, unanswered, at, folders, media, item, op>> /\ run' = Idle
      BY <1>2 DEF Crash
    <2>2. RunOK' /\ JobOK' /\ run'.pc \in Undetermined
      BY <2>1 DEF RInv, RunOK, JobOK, Idle, Todo, Undetermined
    <2> QED BY <2>1, <2>2, ElsewhereStep
  <1>3. CASE Shutdown
    <2>1. UNCHANGED <<nameOf, unanswered, at, folders, media, item, op>> /\ run' = [run EXCEPT !.stop = TRUE]
      BY <1>3 DEF Shutdown
    <2>2. RunOK' /\ run'.pc = run.pc /\ run'.todo = run.todo
      BY <2>1 DEF RInv, RunOK
    <2>3. JobOK' /\ StepOK' /\ LoopsOK' /\ FilesOK' /\ CheckpointsDescribeFiles' /\ NoCopyIsLost'
      BY <2>1, <2>2 DEF RInv, JobOK, StepOK, Undoable, Withdrawable, LoopsOK, FilesOK,
                        CheckpointsDescribeFiles, NoCopyIsLost, AllAt
    <2> QED BY <2>2, <2>3 DEF RInv
  <1> QED BY <1>1, <1>2, <1>3

\* A job is enqueued for an item that its operation can work on.
LEMMA EnqueueStep ==
  ASSUME RInv, EnqueueBatch \/ EnqueueRestore \/ EnqueueCleanup \/ RecoverOperation
  PROVE  RInv'
  <1>1. PICK mode \in {"BATCH", "RESTORE", "CLEANUP", op.mode} :
          /\ Enqueued(mode)
          /\ mode = "DISCOVER" => item = "NONE"
          /\ mode = "RESTORE" => item \in RestoreResumable
    BY DEF EnqueueBatch, EnqueueRestore, EnqueueCleanup, RecoverOperation, ReplaceResumable,
           RestoreResumable, ReplaceActive
  <1>2. UNCHANGED <<nameOf, unanswered, at, folders, media, item, run>> /\ op.job = "NONE"
    BY <1>1 DEF Enqueued
  <1>3. op' = [mode |-> mode, job |-> "QUEUED"] /\ run.pc = "idle"
    BY <1>1, <1>2 DEF Enqueued, RInv, JobOK
  <1>4. JobOK' /\ RunOK' /\ run'.pc \in Undetermined
    BY <1>1, <1>2, <1>3 DEF RInv, JobOK, RunOK, Mode, Undetermined
  <1> QED BY <1>2, <1>4, ElsewhereStep

\* An execution enters at a step that fits the status of its item.
LEMMA StartStep ==
  ASSUME RInv, Start
  PROVE  RInv'
  <1> DEFINE pc == CASE op.mode = "DISCOVER" -> "discover"
                     [] op.mode = "BATCH" -> "open"
                     [] op.mode = "RESTORE" -> RestoreEntry
                     [] op.mode = "CLEANUP" ->
                          IF item \in {"SUCCESS", "CLEANING_BACKUP"} THEN "beginCleanup" ELSE "finish"
  <1>1. /\ op.job = "QUEUED"
        /\ op' = [op EXCEPT !.job = "RUNNING"]
        /\ run' = [Idle EXCEPT !.pc = pc, !.todo = Todo(pc), !.seen = item]
        /\ UNCHANGED <<nameOf, unanswered, at, folders, media, item>>
    BY DEF Start
  <1>2. RunOK' /\ run'.pc = pc
    <2> HIDE DEF pc
    <2> QED BY <1>1 DEF RunOK, Idle
  <1>3. op' = [mode |-> op.mode, job |-> "RUNNING"] /\ op.mode \in Mode
    BY <1>1 DEF RInv, JobOK
  <1>4. /\ op.mode = "RESTORE" => item \in RestoreResumable \union {"RESTORED"}
        /\ op.mode = "DISCOVER" => item = "NONE"
    BY <1>1 DEF RInv, JobOK
  <1>5. \/ pc \in {"discover", "open", "finish"}
        \/ op.mode = "CLEANUP" /\ pc = "beginCleanup" /\ item \in {"SUCCESS", "CLEANING_BACKUP"}
        \/ pc = "beginRestore" /\ item \in {"SUCCESS", "RESTORING"}
        \/ pc = "checkBackup" /\ item = "RESTORE_SWAPPING"
        \/ pc = "restored" /\ item \in {"RESTORE_COMMITTED", "RESTORED"}
    BY <1>3, <1>4 DEF Mode, RestoreEntry, RestoreResumable
  <1> HIDE DEF pc
  <1>6. FilesOK' /\ CheckpointsDescribeFiles' /\ NoCopyIsLost'
    BY <1>1 DEF RInv, FilesOK, CheckpointsDescribeFiles, NoCopyIsLost, AllAt
  <1>7. JobOK'
    <2>1. item' = item
      BY <1>1
    <2>2. op'.mode = op.mode /\ op'.job = "RUNNING" /\ op' = [mode |-> op'.mode, job |-> op'.job]
      BY <1>3
    <2> QED BY <1>2, <1>3, <1>4, <1>5, <2>1, <2>2 DEF JobOK
  <1>8. StepOK' /\ LoopsOK'
    BY <1>1, <1>2, <1>5 DEF StepOK, LoopsOK, RollbackSteps
  <1> QED BY <1>2, <1>6, <1>7, <1>8 DEF RInv

LEMMA BatchStep ==
  ASSUME RInv, OpenBatch \/ BeginItem
  PROVE  RInv'
  <1>1. CASE OpenBatch
    <2>1. PICK pc \in {"loop", "finish", "close"} : Enter(pc)
      BY <1>1 DEF OpenBatch
    <2>2. UNCHANGED <<nameOf, unanswered, at, folders, media, item, op>> /\ run.pc # "idle"
      BY <1>1 DEF OpenBatch
    <2>3. RunOK' /\ run'.pc = pc
      BY <2>1, Entered DEF RInv, Enter
    <2>4. JobOK' /\ run'.pc \in Undetermined
      BY <2>1, <2>2, <2>3 DEF RInv, JobOK, Undetermined
    <2> QED BY <2>2, <2>3, <2>4, ElsewhereStep
  <1>2. CASE BeginItem
    <2> DEFINE pc == ReplaceEntry
    <2>1. /\ run.pc = "loop"
          /\ run' = [run EXCEPT !.pc = pc, !.todo = Todo(pc), !.cause = "resumed"]
          /\ UNCHANGED <<nameOf, unanswered, at, folders, media, item, op>>
      BY <1>2 DEF BeginItem
    <2>2. RunOK' /\ run'.pc = pc /\ run'.todo = Todo(pc)
      <3> HIDE DEF pc
      <3> QED BY <2>1 DEF RInv, RunOK
    <2>3. \/ pc = "begin" /\ item \in {"READY", "FAILED", "STAGING"}
          \/ pc = "backup" /\ item = "BACKING_UP"
          \/ pc = "install" /\ item = "SWAPPING"
          \/ pc = "publish" /\ item = "COMMITTING"
          \/ pc = "archive" /\ item = "ARCHIVING"
          \/ pc = "undoInstall" /\ item = "ROLLING_BACK"
          \/ pc = "finish"
      BY DEF ReplaceEntry
    <2> HIDE DEF pc
    <2>4. FilesOK' /\ JobOK' /\ CheckpointsDescribeFiles' /\ NoCopyIsLost'
      BY <2>1, <2>2, <2>3 DEF RInv, FilesOK, JobOK, CheckpointsDescribeFiles, NoCopyIsLost, AllAt
    <2>5. StepOK'
      BY <2>1, <2>2, <2>3 DEF StepOK, RollbackSteps, Undoable, ReplaceActive
    <2>6. LoopsOK'
      <3>1. Todo("undoInstall") = NewFile
        BY DEF Todo
      <3> QED BY <2>2, <2>3, <3>1 DEF LoopsOK, AllAt
    <2> QED BY <2>2, <2>4, <2>5, <2>6 DEF RInv
  <1> QED BY <1>1, <1>2

\* An execution ends with its job, or leaves it to be run again.
LEMMA EndStep ==
  ASSUME RInv, Finish \/ Close \/ PauseForAction
  PROVE  RInv'
  <1>1. run' = Idle /\ RunOK' /\ run'.pc = "idle"
    BY DEF Finish, Close, PauseForAction, Controlled, Ended, RunOK, Idle
  <1>2. UNCHANGED <<nameOf, unanswered, at, folders, media>>
    BY DEF Finish, Close, PauseForAction
  <1>3. CASE item' = item
    <2>1. op' = op \/ \E job \in JobState : op' = [op EXCEPT !.job = job]
      BY DEF Finish, Close, PauseForAction, Controlled, Ended, JobState
    <2>2. op' = op \/ \E job \in JobState : op' = [mode |-> op.mode, job |-> job]
      BY <2>1 DEF RInv, JobOK
    <2>3. op.job # "NONE"
      BY DEF RInv, JobOK, Finish, Close, PauseForAction
    <2>4. JobOK'
      BY <1>1, <1>3, <2>2, <2>3 DEF RInv, JobOK
    <2> QED BY <1>1, <1>2, <1>3, <2>4, ElsewhereStep DEF Undetermined
  <1>4. CASE item' # item
    <2>1. item' = "READY" /\ op.mode = "DISCOVER" /\ op.job = "RUNNING"
          /\ op' = [op EXCEPT !.job = "NONE"]
      BY <1>4 DEF Finish, Close, PauseForAction, Controlled, Ended
    <2>2. item = "NONE" /\ op' = [mode |-> op.mode, job |-> "NONE"]
      BY <2>1 DEF RInv, JobOK
    <2>3. FilesOK' /\ JobOK' /\ CheckpointsDescribeFiles' /\ NoCopyIsLost'
      BY <1>1, <1>2, <2>1, <2>2 DEF RInv, FilesOK, JobOK, CheckpointsDescribeFiles, NoCopyIsLost, AllAt
    <2>4. StepOK' /\ LoopsOK'
      BY <1>1 DEF StepOK, LoopsOK, RollbackSteps
    <2> QED BY <1>1, <2>3, <2>4 DEF RInv
  <1> QED BY <1>3, <1>4

\* An interrupted loop is undone as one that failed.
LEMMA AbortedStep ==
  ASSUME RInv, Aborted
  PROVE  RInv'
  <1>1. CASE run.pc = "loop"
    <2>1. UNCHANGED <<nameOf, unanswered, at, folders, media, item, op>> /\ Enter("close")
      BY <1>1 DEF Aborted, ReplaceSteps, RestoreSteps
    <2>2. RunOK' /\ run'.pc = "close"
      BY <2>1, Entered, Todo("close") = {} DEF RInv, Enter, Todo
    <2>3. JobOK' /\ run'.pc \in Undetermined
      BY <1>1, <2>1, <2>2 DEF RInv, JobOK, Undetermined
    <2> QED BY <2>1, <2>2, <2>3, ElsewhereStep
  <1>2. CASE run.pc # "loop"
    <2>1. run.pc \in {"stage", "backup", "install", "withdraw", "putBack"}
      BY <1>2 DEF Aborted
    <2>2. Fails
      BY <2>1 DEF Aborted, Fails, ReplaceSteps, RestoreSteps, RollbackSteps
    <2> QED BY <2>1, <2>2, FailsStep
  <1> QED BY <1>1, <1>2

-----------------------------------------------------------------------------
(* The theorems                                                            *)

LEMMA ReplacementStep ==
  ASSUME RInv,
         BeginReplacement \/ StageSource \/ BackupTarget \/ InstallReplacement
         \/ PublishReplacement \/ ArchiveSource \/ RollbackReplacement
  PROVE  RInv'
  <1>1. Todo("stage") = NewFile /\ Todo("backup") = OldFile /\ Todo("install") = NewFile
    BY DEF Todo
  <1>2. CASE BeginReplacement
    <2>1. CASE Fails
      BY <1>2, <2>1, FailsStep DEF BeginReplacement
    <2>2. CASE ~Fails
      BY <1>2, <2>2, ForwardCheckpoint DEF BeginReplacement
    <2> QED BY <2>1, <2>2
  <1>3. CASE StageSource
    BY <1>1, <1>3, RenameStep, ForwardTurn, ForwardCheckpoint DEF StageSource, NewPlaces
  <1>4. CASE BackupTarget
    BY <1>1, <1>4, ForwardTurn, ForwardCheckpoint DEF BackupTarget, OldPlaces
  <1>5. CASE InstallReplacement
    BY <1>1, <1>5, ForwardTurn, ForwardCheckpoint DEF InstallReplacement, NewPlaces
  <1>6. CASE PublishReplacement
    BY <1>6, PublicationStep
  <1>7. CASE ArchiveSource
    BY <1>7, ReplacementEnds DEF ArchiveSource
  <1>8. CASE RollbackReplacement
    BY <1>8, RollbackTurn, ThroughStep, RenameStep, ReplacementEnds DEF RollbackReplacement
  <1> QED BY <1>2, <1>3, <1>4, <1>5, <1>6, <1>7, <1>8

LEMMA RestorationStep ==
  ASSUME RInv, RestoreItem \/ UndoRestore
  PROVE  RInv'
  <1>1. Todo("withdraw") = NewFile /\ Todo("putBack") = OldFile
    BY DEF Todo
  <1>2. CASE CheckBackup
    <2>1. CASE Fails
      BY <1>2, <2>1, FailsStep DEF CheckBackup
    <2>2. CASE ~Fails
      BY <1>2, <2>2, ThroughStep DEF CheckBackup
    <2> QED BY <2>1, <2>2
  <1>3. CASE Turn("withdraw", "target", "pending") \/ Turn("putBack", "backup", "target")
    BY <1>1, <1>3, ForwardTurn DEF OldPlaces, NewPlaces
  <1>4. CASE RestoreItem
    BY <1>2, <1>3, <1>4, RestoreCheckpoint, OpenPendingStep, PublicationStep DEF RestoreItem
  <1>5. CASE UndoRestore
    BY <1>5, UnrestoreTurn, ThroughStep, RestoreCheckpoint DEF UndoRestore
  <1> QED BY <1>4, <1>5

LEMMA CleanupStep ==
  ASSUME RInv, Cleanup
  PROVE  RInv'
  <1>1. CASE BeginCleanup
    <2>1. CASE Fails
      BY <1>1, <2>1, FailsStep DEF BeginCleanup
    <2>2. CASE ~Fails
      BY <1>1, <2>2, CleanupCheckpoint DEF BeginCleanup
    <2> QED BY <2>1, <2>2
  <1> QED BY <1>1, RemoveBackupStep, CleanupCheckpoint DEF Cleanup

LEMMA NextRInv == RInv /\ [ReplaceNext]_replaceVars => RInv'
  <1> SUFFICES ASSUME RInv, [ReplaceNext]_replaceVars PROVE RInv'
    OBVIOUS
  <1>1. CASE UNCHANGED replaceVars
    BY <1>1 DEF replaceVars, RInv, FilesOK, RunOK, JobOK, StepOK, Undoable, Withdrawable, LoopsOK,
                CheckpointsDescribeFiles, NoCopyIsLost, AllAt
  <1>2. CASE EnqueueBatch \/ EnqueueRestore \/ EnqueueCleanup \/ RecoverOperation
    BY <1>2, EnqueueStep
  <1>3. CASE CommandJob \/ RecoverLease \/ Crash \/ Shutdown
    BY <1>3, JobStep
  <1>4. CASE Start
    BY <1>4, StartStep
  <1>5. CASE OpenBatch \/ BeginItem
    BY <1>5, BatchStep
  <1>6. CASE Finish \/ Close \/ PauseForAction
    BY <1>6, EndStep
  <1>7. CASE Fault
    BY <1>7, FailsStep DEF Fault
  <1>8. CASE Aborted
    BY <1>8, AbortedStep
  <1>9. CASE BeginReplacement \/ StageSource \/ BackupTarget \/ InstallReplacement
             \/ PublishReplacement \/ ArchiveSource \/ RollbackReplacement
    BY <1>9, ReplacementStep
  <1>10. CASE RestoreItem \/ UndoRestore
    BY <1>10, RestorationStep
  <1>11. CASE Cleanup
    BY <1>11, CleanupStep
  <1> QED
    BY <1>1, <1>2, <1>3, <1>4, <1>5, <1>6, <1>7, <1>8, <1>9, <1>10, <1>11 DEF ReplaceNext

\* The invariant holds whatever fails, is refused, interrupted, crashed or
\* commanded: executeBatch, executeRestore, executeCleanup and their catches.
THEOREM ReplaceInvariance == ReplaceSpec => []RInv
  BY InitRInv, NextRInv, PTL DEF ReplaceSpec

\* The status of an item tells where its files are and which of them the
\* artwork shows: every checkpointItem, publishReplacement and publishRestore.
THEOREM CheckpointsAreTrue == ReplaceSpec => []CheckpointsDescribeFiles
  <1>1. RInv => CheckpointsDescribeFiles
    BY DEF RInv
  <1> QED BY <1>1, ReplaceInvariance, PTL

\* No sequence of moveCheckpointFile and moveDirectoryIdempotent overwrites a
\* file, and only the cleanup of a published replacement deletes one.
THEOREM CopiesSurvive == ReplaceSpec => []NoCopyIsLost
  <1>1. RInv => NoCopyIsLost
    BY DEF RInv
  <1> QED BY <1>1, ReplaceInvariance, PTL
=============================================================================
