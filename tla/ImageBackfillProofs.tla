------------------------- MODULE ImageBackfillProofs -------------------------
(***************************************************************************)
(* Why no image is lost by the backfill, for every set of files, runs and  *)
(* commands and any number of deaths: whatever a command is about to do is *)
(* still justified by what it has read, because it holds the lock of the   *)
(* database and the server changes nothing its justification rests on.     *)
(***************************************************************************)
EXTENDS ImageBackfill, TLAPS

-----------------------------------------------------------------------------
(* The inductive invariant. *)

ItemRecord ==
  [status : Statuses, error : ErrorCodes, digest : {"absent", "output"}, cleanup : CleanupStatuses,
   due : BOOLEAN]

ApplySteps == {"process", "publish", "write", "stage", "commit"}

CleanupSteps == {"source", "references", "both", "target", "done"}

Job ==
  [step : {"idle", "next"} \cup ApplySteps \cup CleanupSteps,
   phase : {"", "recover", "apply", "cleanup"}, run : Runs \cup {None}, retry : BOOLEAN,
   todo : SUBSET Files, file : Files \cup {0}, fails : BOOLEAN]

Typed ==
  /\ record \in [Files -> Keys]
  /\ referenced \subseteq Files
  /\ source \in [Files -> Contents] /\ target \in [Files -> Contents]
  /\ item \in [Runs -> [Files -> ItemRecord]]
  /\ job \in [Commands -> Job]
  /\ lock \in Commands \cup {None}
  /\ request \in [attach : SUBSET Files, remove : SUBSET (Files \X Keys)]
  /\ faults \in 0..MaxFaults /\ edits \in 0..MaxEdits

\* What a command that is at work relies on. A file has an item when it is worked on. An apply
\* works on files whose rows still name the old object; a clean-up has seen the new object in
\* place, or the row gone, before it removes an old one.
AtWork(j) ==
  /\ j.run \in Runs
  /\ j.step # "next" => j.file \in Files /\ j.file \notin j.todo
  /\ j.step \in ApplySteps => item[j.run][j.file].status # "none"
  /\ \/ j.phase = "recover" /\ j.step \in {"next", "commit"}
     \/ /\ j.phase = "apply" /\ j.step \in {"next"} \cup ApplySteps
        /\ \A f \in j.todo : record[f] = "source"
        /\ j.step # "next" => record[j.file] = "source"
     \/ /\ j.phase = "cleanup" /\ j.step \in {"next"} \cup CleanupSteps
        /\ j.step = "source" =>
             record[j.file] = "deleted" \/ (record[j.file] = "target" /\ target[j.file] = "output")
        /\ j.step \in {"references", "both", "target"} => record[j.file] = "deleted"
        /\ j.step \in {"target", "done"} => source[j.file] = "absent"

\* Only the holder of the lock is at work.
OnCourse(c) == job[c] = Idle \/ (lock = c /\ AtWork(job[c]))

\* The server removes objects of files whose row is gone.
Removals == \A f \in Files, key \in Keys : <<f, key>> \in request.remove => record[f] = "deleted"

IInv ==
  /\ Typed /\ KeepsACopy /\ LedgerIsTrue /\ OneRunPerFile /\ Removals
  /\ \A c \in Commands : OnCourse(c)

-----------------------------------------------------------------------------
(* Commands and their steps. *)

\* The rest state of a command.
LEMMA IdleFacts ==
  Idle \in Job /\ Idle.step = "idle" /\ Idle.phase = "" /\ NoItem \in ItemRecord
<1>1. Idle \in Job
  BY DEF Idle, Job
<1>2. Idle.step = "idle" /\ Idle.phase = ""
  BY DEF Idle
<1>3. NoItem \in ItemRecord
  BY DEF NoItem, ItemRecord, Statuses, CleanupStatuses, ErrorCodes
<1>4. QED
  BY <1>1, <1>2, <1>3

\* A command that is somewhere holds the lock, the others rest.
LEMMA HolderWorks ==
  ASSUME IInv, NEW c \in Commands, job[c] # Idle \/ job[c].phase # "" \/ job[c].step # "idle"
  PROVE  /\ job[c] \in Job /\ lock = c /\ AtWork(job[c])
         /\ \A d \in Commands \ {c} : job[d] = Idle
<1>1. job[c] # Idle
  BY IdleFacts
<1>2. QED
  BY <1>1 DEF IInv, Typed, OnCourse

\* Without the lock nobody works.
LEMMA NobodyWorks ==
  ASSUME IInv, lock = None
  PROVE  \A c \in Commands : job[c] = Idle
BY BackfillAssumption DEF IInv, OnCourse

\* Going to another step of the same file.
LEMMA Going ==
  ASSUME Typed, NEW c \in Commands,
         NEW step \in {"next"} \cup ApplySteps \cup CleanupSteps, GoTo(c, step)
  PROVE  /\ job' \in [Commands -> Job] /\ \A d \in Commands \ {c} : job'[d] = job[d]
         /\ job'[c].step = step /\ job'[c].phase = job[c].phase /\ job'[c].run = job[c].run
         /\ job'[c].todo = job[c].todo /\ job'[c].file = job[c].file
<1> DEFINE j == [job[c] EXCEPT !.step = step]
<1>1. job' = [job EXCEPT ![c] = j] /\ job[c] \in Job
  BY DEF GoTo, Typed
<1>2. /\ j \in Job /\ j.step = step /\ j.phase = job[c].phase /\ j.run = job[c].run
      /\ j.todo = job[c].todo /\ j.file = job[c].file
  BY <1>1 DEF Job
<1> HIDE DEF j
<1>3. QED
  BY <1>1, <1>2 DEF Typed

\* Leaving a file.
LEMMA Advanced ==
  ASSUME NEW j \in Job
  PROVE  /\ Advance(j) \in Job /\ Advance(j).step = "next" /\ Advance(j).phase = j.phase
         /\ Advance(j).run = j.run /\ Advance(j).todo = j.todo
BY DEF Advance, Job

LEMMA Leaving ==
  ASSUME Typed, NEW c \in Commands, NextFile(c)
  PROVE  /\ job' \in [Commands -> Job] /\ \A d \in Commands \ {c} : job'[d] = job[d]
         /\ job'[c].step = "next" /\ job'[c].phase = job[c].phase /\ job'[c].run = job[c].run
         /\ job'[c].todo = job[c].todo
<1>1. job' = [job EXCEPT ![c] = Advance(job[c])] /\ job[c] \in Job
  BY DEF NextFile, Typed
<1>2. QED
  BY <1>1, Advanced DEF Typed

\* Between files a command only relies on the rows of the files that are left.
LEMMA NextIsOnCourse ==
  ASSUME NEW c \in Commands, lock = c, lock' = lock, AtWork(job[c]),
         job'[c].step = "next", job'[c].phase = job[c].phase, job'[c].run = job[c].run,
         job'[c].todo \subseteq job[c].todo,
         \A f \in job'[c].todo : record'[f] = record[f]
  PROVE  OnCourse(c)'
BY DEF OnCourse, AtWork, ApplySteps, CleanupSteps

\* A step of the command that holds the lock.
LEMMA CommandStep ==
  ASSUME IInv, NEW c \in Commands, lock = c, lock' = lock,
         job' \in [Commands -> Job], \A d \in Commands \ {c} : job'[d] = job[d], OnCourse(c)',
         UNCHANGED <<referenced, request, edits>>, faults' \in 0..MaxFaults,
         record' \in [Files -> Keys], source' \in [Files -> Contents], target' \in [Files -> Contents],
         \A f \in Files : record[f] = "deleted" => record'[f] = "deleted",
         item' \in [Runs -> [Files -> ItemRecord]], KeepsACopy', LedgerIsTrue', OneRunPerFile'
  PROVE  IInv'
<1>1. Typed'
  BY DEF IInv, Typed
<1>2. Removals'
  BY DEF IInv, Removals
<1>3. ASSUME NEW d \in Commands PROVE OnCourse(d)'
  <2>1. CASE d = c
    BY <2>1
  <2>2. CASE d # c
    BY <2>2 DEF IInv, OnCourse
  <2>3. QED
    BY <2>1, <2>2
<1>4. QED
  BY <1>1, <1>2, <1>3 DEF IInv

-----------------------------------------------------------------------------
(* The ledger. *)

\* What an item has to say for its row to have moved.
Moved(it) ==
  it.status \in {"COMMITTED", "FAILED"} /\ it.cleanup # "NOT_SCHEDULED" /\ it.digest = "output"

\* One item is written, and perhaps the row of its file.
LEMMA ItemWrite ==
  ASSUME IInv, NEW r \in Runs, NEW f \in Files, NEW it \in ItemRecord,
         item' = [item EXCEPT ![r][f] = it],
         record' \in [Files -> Keys], \A g \in Files \ {f} : record'[g] = record[g],
         \A g \in Files : source[g] = "absent" => source'[g] = "absent",
         record[f] # "source" => record'[f] # "source",
         it.status # "none" =>
           item[r][f].status # "none" \/ \A s \in Runs \ {r} : item[s][f].status = "none",
         it.status = "COMMITTED" => record'[f] # "source",
         it.cleanup = "DONE" => source'[f] = "absent",
         record'[f] = "target" => Moved(it) \/ (record[f] = "target" /\ ~Moved(item[r][f]))
  PROVE  item' \in [Runs -> [Files -> ItemRecord]] /\ LedgerIsTrue' /\ OneRunPerFile'
<1>1. item \in [Runs -> [Files -> ItemRecord]]
  BY DEF IInv, Typed
<1>2. /\ item' \in [Runs -> [Files -> ItemRecord]] /\ item'[r][f] = it
      /\ \A s \in Runs, g \in Files : s # r \/ g # f => item'[s][g] = item[s][g]
  BY <1>1
<1>3. OneRunPerFile'
  BY <1>2 DEF IInv, OneRunPerFile
<1>4. ASSUME NEW s \in Runs, NEW g \in Files
      PROVE  /\ item'[s][g].status = "COMMITTED" => record'[g] # "source"
             /\ item'[s][g].cleanup = "DONE" => source'[g] = "absent"
  BY <1>2 DEF IInv, LedgerIsTrue
<1>5. ASSUME NEW g \in Files, record'[g] = "target" PROVE \E s \in Runs : Moved(item'[s][g])
  <2>1. CASE g # f \/ ~Moved(it)
    <3>1. record[g] = "target"
      BY <1>5, <2>1
    <3>2. PICK s \in Runs : Moved(item[s][g])
      BY <3>1 DEF IInv, LedgerIsTrue, Moved
    <3>3. item'[s][g] = item[s][g]
      BY <1>2, <1>5, <2>1, <3>2
    <3>4. QED
      BY <3>2, <3>3
  <2>2. CASE g = f /\ Moved(it)
    BY <1>2, <2>2
  <2>3. QED
    BY <2>1, <2>2
<1>6. LedgerIsTrue'
  BY <1>4, <1>5 DEF LedgerIsTrue, Moved
<1>7. QED
  BY <1>2, <1>3, <1>6

\* Where ledger and rows stay as they are, an object that goes breaks nothing in the ledger.
LEMMA ItemsKept ==
  ASSUME IInv, UNCHANGED <<item, record>>,
         \A g \in Files : source[g] = "absent" => source'[g] = "absent"
  PROVE  item' \in [Runs -> [Files -> ItemRecord]] /\ LedgerIsTrue' /\ OneRunPerFile'
BY DEF IInv, Typed, LedgerIsTrue, OneRunPerFile

-----------------------------------------------------------------------------
(* The start and the end of a command. *)

\* Who finds the lock free takes it.
LEMMA StartInv ==
  ASSUME IInv, NEW c \in Commands, NEW phase \in {"recover", "cleanup"}, NEW run \in Runs,
         NEW retry \in BOOLEAN, NEW todo \in SUBSET Files, Start(c, phase, run, retry, todo)
  PROVE  IInv'
<1> DEFINE new == [Idle EXCEPT !.step = "next", !.phase = phase, !.run = run, !.retry = retry,
                               !.todo = todo]
<1>1. /\ new \in Job /\ new.step = "next" /\ new.phase = phase /\ new.run = run
      /\ new.todo = todo
  BY DEF Idle, Job
<1>2. /\ job' = [job EXCEPT ![c] = new] /\ lock = None /\ lock' = c
      /\ UNCHANGED <<server, disk, item, faults>>
  BY DEF Start, LockFree
<1> HIDE DEF new
<1>3. \A d \in Commands : job[d] = Idle
  BY <1>2, NobodyWorks
<1>4. Typed' /\ KeepsACopy' /\ LedgerIsTrue' /\ OneRunPerFile' /\ Removals'
  BY <1>1, <1>2
  DEF IInv, Typed, KeepsACopy, LedgerIsTrue, OneRunPerFile, Removals, server, disk
<1>5. \A d \in Commands : job'[d] = IF d = c THEN new ELSE Idle
  BY <1>2, <1>3 DEF IInv, Typed
<1>6. \A d \in Commands : OnCourse(d)'
  BY <1>1, <1>2, <1>5 DEF OnCourse, AtWork, ApplySteps, CleanupSteps
<1>7. QED
  BY <1>4, <1>6 DEF IInv

\* A command that leaves, dead or alive, leaves nobody at work.
LEMMA LeaveKeeps ==
  ASSUME IInv, NEW c \in Commands, job[c] # Idle, Leave(c)
  PROVE  /\ job' \in [Commands -> Job] /\ lock' \in Commands \cup {None}
         /\ \A d \in Commands : OnCourse(d)'
<1>1. job' = [job EXCEPT ![c] = Idle] /\ lock' \in Commands \cup {None}
  BY DEF Leave, IInv, Typed
<1>2. \A d \in Commands \ {c} : job[d] = Idle
  BY HolderWorks
<1>3. QED
  BY <1>1, <1>2, IdleFacts DEF IInv, Typed, OnCourse

LEMMA EndInv ==
  ASSUME IInv, NEW c \in Commands, End(c) \/ Crash(c)
  PROVE  IInv'
<1>1. Leave(c) /\ UNCHANGED <<server, disk, item>> /\ job[c] # Idle /\ faults' \in 0..MaxFaults
  <2>1. CASE End(c)
    BY <2>1, IdleFacts DEF End, IInv, Typed
  <2>2. CASE Crash(c)
    BY <2>2, BackfillAssumption DEF Crash, IInv, Typed
  <2>3. QED
    BY <2>1, <2>2
<1>2. Typed' /\ KeepsACopy' /\ LedgerIsTrue' /\ OneRunPerFile' /\ Removals'
  BY <1>1, LeaveKeeps
  DEF IInv, Typed, KeepsACopy, LedgerIsTrue, OneRunPerFile, Removals, server, disk
<1>3. QED
  BY <1>1, <1>2, LeaveKeeps DEF IInv

-----------------------------------------------------------------------------
(* The server and the world. *)

\* Deleting a product takes the row of its file, while no apply works.
LEMMA DeleteProductInv ==
  ASSUME IInv, NEW f \in Files, DeleteProduct(f)
  PROVE  IInv'
<1>1. /\ record' = [record EXCEPT ![f] = "deleted"] /\ referenced' = referenced \ {f}
      /\ request' = [request EXCEPT !.remove = @ \cup {<<f, record[f]>>}]
      /\ UNCHANGED <<source, target, item, job, lock, faults, edits>> /\ ~Applying
  BY DEF DeleteProduct, disk
<1>2. /\ record' \in [Files -> Keys] /\ record'[f] = "deleted"
      /\ \A g \in Files \ {f} : record'[g] = record[g]
  BY <1>1 DEF IInv, Typed, Keys
<1>3. Typed'
  <2>1. request \in [attach : SUBSET Files, remove : SUBSET (Files \X Keys)] /\ record[f] \in Keys
    BY DEF IInv, Typed
  <2>2. request' \in [attach : SUBSET Files, remove : SUBSET (Files \X Keys)]
    BY <1>1, <2>1
  <2>3. QED
    BY <1>1, <1>2, <2>2 DEF IInv, Typed
<1>4. KeepsACopy' /\ LedgerIsTrue' /\ OneRunPerFile'
  BY <1>1, <1>2 DEF IInv, KeepsACopy, LedgerIsTrue, OneRunPerFile
<1>5. Removals'
  <2>1. request'.remove = request.remove \cup {<<f, record[f]>>}
    BY <1>1 DEF IInv, Typed
  <2>2. QED
    BY <1>2, <2>1 DEF IInv, Removals
<1>6. ASSUME NEW c \in Commands PROVE OnCourse(c)'
  <2>1. job[c].phase \notin {"recover", "apply"}
    BY <1>1 DEF Applying
  <2>2. QED
    BY <1>1, <1>2, <2>1 DEF IInv, Typed, OnCourse, AtWork, ApplySteps
<1>7. QED
  BY <1>3, <1>4, <1>5, <1>6 DEF IInv

\* The objects the server removes, or forgets to remove, are those of files without a row.
LEMMA RemoveObjectInv ==
  ASSUME IInv, NEW f \in Files, NEW key \in Keys, RemoveObject(f, key) \/ ForgetObject(f, key)
  PROVE  IInv'
<1>1. /\ request' = [request EXCEPT !.remove = @ \ {<<f, key>>}]
      /\ UNCHANGED <<record, referenced, edits, item, job, lock, faults>>
      /\ source' = source \/ source' = [source EXCEPT ![f] = "absent"]
      /\ target' = target \/ target' = [target EXCEPT ![f] = "absent"]
      /\ <<f, key>> \in request.remove
  BY DEF RemoveObject, ForgetObject, disk
<1>2. record[f] = "deleted"
  BY <1>1 DEF IInv, Removals
<1>3. /\ source' \in [Files -> Contents] /\ target' \in [Files -> Contents]
      /\ \A g \in Files \ {f} : source'[g] = source[g] /\ target'[g] = target[g]
      /\ \A g \in Files : source[g] = "absent" => source'[g] = "absent"
  BY <1>1 DEF IInv, Typed, Contents
<1>4. /\ request' \in [attach : SUBSET Files, remove : SUBSET (Files \X Keys)]
      /\ request'.remove \subseteq request.remove
  BY <1>1 DEF IInv, Typed
<1>5. Typed' /\ Removals'
  BY <1>1, <1>3, <1>4 DEF IInv, Typed, Removals
<1>6. KeepsACopy'
  BY <1>1, <1>2, <1>3 DEF IInv, KeepsACopy
<1>7. LedgerIsTrue' /\ OneRunPerFile'
  BY <1>1, <1>3, ItemsKept
<1>8. ASSUME NEW c \in Commands PROVE OnCourse(c)'
  BY <1>1, <1>2, <1>3 DEF IInv, OnCourse, AtWork, ApplySteps, CleanupSteps
<1>9. QED
  BY <1>5, <1>6, <1>7, <1>8 DEF IInv

\* Edits of products touch neither rows nor objects.
LEMMA EditInv ==
  ASSUME IInv, NEW f \in Files, Detach(f) \/ FindImage(f) \/ Attach(f)
  PROVE  IInv'
<1>1. /\ UNCHANGED <<record, source, target, item, job, lock, faults>>
      /\ referenced' \in SUBSET Files /\ edits' \in 0..MaxEdits
  BY BackfillAssumption DEF IInv, Typed, Detach, FindImage, Attach, disk
<1>2. /\ request' \in [attach : SUBSET Files, remove : SUBSET (Files \X Keys)]
      /\ request'.remove = request.remove
  BY DEF IInv, Typed, Detach, FindImage, Attach
<1>3. Typed' /\ KeepsACopy' /\ LedgerIsTrue' /\ OneRunPerFile' /\ Removals'
  BY <1>1, <1>2 DEF IInv, Typed, KeepsACopy, LedgerIsTrue, OneRunPerFile, Removals
<1>4. ASSUME NEW c \in Commands PROVE OnCourse(c)'
  BY <1>1 DEF IInv, OnCourse, AtWork
<1>5. QED
  BY <1>3, <1>4 DEF IInv

\* An object is spoiled only while the one it was made from is there and nobody works.
LEMMA DamageInv ==
  ASSUME IInv, NEW f \in Files, Damage(f)
  PROVE  IInv'
<1>1. /\ target' = [target EXCEPT ![f] = "other"] /\ source[f] = "original" /\ lock = None
      /\ UNCHANGED <<record, referenced, request, edits, source, item, job, lock, faults>>
  BY DEF Damage, server
<1>2. target' \in [Files -> Contents] /\ \A g \in Files \ {f} : target'[g] = target[g]
  BY <1>1 DEF IInv, Typed, Contents
<1>3. Typed' /\ KeepsACopy' /\ LedgerIsTrue' /\ OneRunPerFile' /\ Removals'
  BY <1>1, <1>2 DEF IInv, Typed, KeepsACopy, LedgerIsTrue, OneRunPerFile, Removals
<1>4. ASSUME NEW c \in Commands PROVE OnCourse(c)'
  BY <1>1, NobodyWorks DEF OnCourse
<1>5. QED
  BY <1>3, <1>4 DEF IInv

\* A day that passes only makes closed items due.
LEMMA DayPassesInv ==
  ASSUME IInv, DayPasses
  PROVE  IInv'
<1>1. /\ UNCHANGED <<record, referenced, request, edits, source, target, job, lock, faults>>
      /\ item' = [r \in Runs |-> [f \in Files |->
                    [item[r][f] EXCEPT !.due = (item[r][f].status = "COMMITTED")]]]
  BY DEF DayPasses, server, disk
<1>2. ASSUME NEW r \in Runs, NEW f \in Files
      PROVE  /\ item'[r][f] \in ItemRecord /\ item'[r][f].status = item[r][f].status
             /\ item'[r][f].cleanup = item[r][f].cleanup /\ item'[r][f].digest = item[r][f].digest
  <2>1. item[r][f] \in ItemRecord
    BY DEF IInv, Typed
  <2>2. item'[r][f] = [item[r][f] EXCEPT !.due = (item[r][f].status = "COMMITTED")]
    BY <1>1
  <2>3. QED
    BY <2>1, <2>2 DEF ItemRecord
<1>3. item' \in [Runs -> [Files -> ItemRecord]]
  BY <1>1, <1>2
<1>4. Typed' /\ KeepsACopy' /\ Removals'
  BY <1>1, <1>3 DEF IInv, Typed, KeepsACopy, Removals
<1>5. LedgerIsTrue' /\ OneRunPerFile'
  BY <1>1, <1>2 DEF IInv, LedgerIsTrue, OneRunPerFile
<1>6. ASSUME NEW c \in Commands PROVE OnCourse(c)'
  BY <1>1, <1>2 DEF IInv, OnCourse, AtWork, ApplySteps
<1>7. QED
  BY <1>4, <1>5, <1>6 DEF IInv

-----------------------------------------------------------------------------
(* Recovery. *)

\* What recovery does to one leftover, wherever it meets it: at the start, or among the
\* candidates of the apply.
LEMMA RecoverItemInv ==
  ASSUME IInv, NEW c \in Commands, lock = c, lock' = lock, NEW f \in Files, NEW j \in Job,
         j.step = "next", j.phase \in {"recover", "apply"}, j.run \in Runs, f \notin j.todo,
         j.phase = "apply" => record[f] = "source" /\ \A g \in j.todo : record[g] = "source",
         RecoverItem(c, f, j), UNCHANGED <<server, disk, faults>>
  PROVE  IInv'
<1> DEFINE it == item[j.run][f]
           committing == [j EXCEPT !.step = "commit", !.file = f, !.fails = TRUE]
<1>1. it \in ItemRecord /\ job \in [Commands -> Job] /\ item \in [Runs -> [Files -> ItemRecord]]
  BY DEF IInv, Typed
<1>2. it.status \in {"PROCESSING", "STAGED"}
  BY DEF RecoverItem
<1>3. \/ item' = item
      \/ \E st \in {"PENDING", "STAGED", "FAILED"}, code \in ErrorCodes :
           item' = [item EXCEPT ![j.run][f] = [it EXCEPT !.status = st, !.error = code]]
  BY <1>1 DEF RecoverItem, ItemRecord, ErrorCodes
<1>4. UNCHANGED <<record, source, target, referenced, request, edits, faults>>
  BY DEF server, disk
<1>5. /\ item' \in [Runs -> [Files -> ItemRecord]] /\ LedgerIsTrue' /\ OneRunPerFile'
      /\ item'[j.run][f].status # "none"
  <2>1. CASE item' = item
    BY <1>2, <1>4, <2>1, ItemsKept
  <2>2. ASSUME NEW st \in {"PENDING", "STAGED", "FAILED"}, NEW code \in ErrorCodes,
               item' = [item EXCEPT ![j.run][f] = [it EXCEPT !.status = st, !.error = code]]
        PROVE  /\ item' \in [Runs -> [Files -> ItemRecord]] /\ LedgerIsTrue' /\ OneRunPerFile'
               /\ item'[j.run][f].status # "none"
    <3> DEFINE new == [it EXCEPT !.status = st, !.error = code]
    <3>1. /\ new \in ItemRecord /\ new.status = st /\ new.cleanup = it.cleanup
          /\ new.digest = it.digest
      BY <1>1 DEF ItemRecord, Statuses
    <3>2. item' = [item EXCEPT ![j.run][f] = new] /\ ~Moved(it)
      BY <1>2, <2>2 DEF Moved
    <3> HIDE DEF new
    <3>3. it.cleanup = "DONE" => source[f] = "absent"
      BY DEF IInv, LedgerIsTrue
    <3>4. record \in [Files -> Keys] /\ new.status # "none" /\ new.status # "COMMITTED"
      BY <3>1 DEF IInv, Typed
    <3>5. item' \in [Runs -> [Files -> ItemRecord]] /\ LedgerIsTrue' /\ OneRunPerFile'
      BY <1>2, <1>4, <3>1, <3>2, <3>3, <3>4, ItemWrite
    <3>6. item'[j.run][f] = new
      BY <1>1, <3>2
    <3>7. QED
      BY <3>4, <3>5, <3>6
  <2>3. QED
    BY <1>3, <2>1, <2>2
<1>6. /\ job' \in [Commands -> Job] /\ \A d \in Commands \ {c} : job'[d] = job[d]
      /\ OnCourse(c)'
  <2>1. CASE job' = [job EXCEPT ![c] = j]
    <3>1. job'[c] = j /\ job' \in [Commands -> Job]
      BY <1>1, <2>1
    <3>2. OnCourse(c)'
      BY <1>4, <3>1 DEF OnCourse, AtWork, ApplySteps
    <3>3. QED
      BY <1>1, <2>1, <3>1, <3>2
  <2>2. CASE job' = [job EXCEPT ![c] = committing]
    <3>1. /\ committing \in Job /\ committing.step = "commit" /\ committing.file = f
          /\ committing.phase = j.phase /\ committing.run = j.run /\ committing.todo = j.todo
      BY DEF Job, ApplySteps
    <3> HIDE DEF committing
    <3>2. job'[c] = committing /\ job' \in [Commands -> Job]
      BY <1>1, <2>2, <3>1
    <3>3. OnCourse(c)'
      BY <1>4, <1>5, <3>1, <3>2 DEF OnCourse, AtWork, ApplySteps
    <3>4. QED
      BY <1>1, <2>2, <3>2, <3>3
  <2>3. QED
    BY <2>1, <2>2 DEF RecoverItem
<1>7. KeepsACopy'
  BY <1>4 DEF IInv, KeepsACopy
<1>8. record' \in [Files -> Keys] /\ source' \in [Files -> Contents] /\ target' \in [Files -> Contents]
      /\ faults' \in 0..MaxFaults
  BY <1>4 DEF IInv, Typed
<1>9. QED
  BY <1>4, <1>5, <1>6, <1>7, <1>8, CommandStep

\* A row is taken off the list.
LEMMA Taking ==
  ASSUME NEW j \in Job, NEW f \in Files
  PROVE  LET rest == [j EXCEPT !.todo = @ \ {f}]
         IN /\ rest \in Job /\ rest.step = j.step /\ rest.phase = j.phase /\ rest.run = j.run
            /\ rest.todo = j.todo \ {f} /\ rest.file = j.file
BY DEF Job

LEMMA RecoverInv ==
  ASSUME IInv, NEW c \in Commands, Recover(c)
  PROVE  IInv'
<1>1. At(c, "recover", "next") /\ UNCHANGED <<server, disk, lock, faults>>
  BY DEF Recover
<1>2. job[c] \in Job /\ lock = c /\ AtWork(job[c])
  BY <1>1, HolderWorks DEF At
<1>3. PICK f \in Files : RecoverItem(c, f, [job[c] EXCEPT !.todo = @ \ {f}])
  BY DEF Recover
<1> DEFINE j == [job[c] EXCEPT !.todo = @ \ {f}]
<1>4. /\ j \in Job /\ j.step = "next" /\ j.phase = "recover" /\ j.run \in Runs /\ f \notin j.todo
  BY <1>1, <1>2, Taking DEF At, AtWork
<1>5. RecoverItem(c, f, j)
  BY <1>3
<1> HIDE DEF j
<1>6. QED
  BY <1>1, <1>2, <1>4, <1>5, RecoverItemInv

\* The candidates still name the old object when they are read.
LEMMA LoadCandidatesInv ==
  ASSUME IInv, NEW c \in Commands, LoadCandidates(c)
  PROVE  IInv'
<1> DEFINE new == [job[c] EXCEPT !.phase = "apply", !.todo = {f \in Files : record[f] = "source"}]
<1>1. /\ At(c, "recover", "next") /\ job' = [job EXCEPT ![c] = new]
      /\ UNCHANGED <<record, referenced, request, edits, source, target, item, lock, faults>>
  BY DEF LoadCandidates, server, disk
<1>2. job[c] \in Job /\ lock = c /\ AtWork(job[c])
  BY <1>1, HolderWorks DEF At
<1>3. /\ new \in Job /\ new.step = "next" /\ new.phase = "apply" /\ new.run \in Runs
      /\ new.todo = {f \in Files : record[f] = "source"}
  BY <1>1, <1>2 DEF At, AtWork, Job
<1> HIDE DEF new
<1>4. job' \in [Commands -> Job] /\ job'[c] = new /\ \A d \in Commands \ {c} : job'[d] = job[d]
  BY <1>1, <1>3 DEF IInv, Typed
<1>5. OnCourse(c)'
  BY <1>1, <1>2, <1>3, <1>4 DEF OnCourse, AtWork, ApplySteps
<1>6. /\ record' \in [Files -> Keys] /\ source' \in [Files -> Contents]
      /\ target' \in [Files -> Contents] /\ faults' \in 0..MaxFaults
      /\ item' \in [Runs -> [Files -> ItemRecord]] /\ LedgerIsTrue' /\ OneRunPerFile'
  BY <1>1, ItemsKept DEF IInv, Typed
<1>7. KeepsACopy'
  BY <1>1 DEF IInv, KeepsACopy
<1>8. QED
  BY <1>1, <1>2, <1>4, <1>5, <1>6, <1>7, CommandStep

-----------------------------------------------------------------------------
(* Apply. *)

\* What a command knows at a step of the apply.
LEMMA ApplyKnows ==
  ASSUME IInv, NEW c \in Commands, job[c].step \in ApplySteps
  PROVE  /\ job[c] \in Job /\ lock = c /\ job[c].run \in Runs /\ job[c].file \in Files
         /\ job[c].file \notin job[c].todo /\ AtWork(job[c])
         /\ Item(c) \in ItemRecord /\ Item(c).status # "none" /\ Item(c) = item[job[c].run][job[c].file]
         /\ job[c].phase = "apply" => record[job[c].file] = "source"
<1>1. job[c] \in Job /\ lock = c /\ AtWork(job[c])
  BY HolderWorks DEF ApplySteps
<1>2. QED
  BY <1>1 DEF AtWork, ApplySteps, CleanupSteps, Item, IInv, Typed

\* An item that fails keeps what it says about its row.
LEMMA FailKeeps ==
  ASSUME IInv, NEW c \in Commands, job[c].step \in ApplySteps, NEW code \in ErrorCodes,
         Fail(c, code), UNCHANGED <<record, source>>
  PROVE  item' \in [Runs -> [Files -> ItemRecord]] /\ LedgerIsTrue' /\ OneRunPerFile'
<1> DEFINE r == job[c].run
           f == job[c].file
           it == item[r][f]
           new == [it EXCEPT !.status = "FAILED", !.error = code]
<1>1. r \in Runs /\ f \in Files /\ it \in ItemRecord /\ it.status # "none" /\ Item(c) = it
  BY ApplyKnows
<1>2. /\ new \in ItemRecord /\ new.status = "FAILED" /\ new.cleanup = it.cleanup
      /\ new.digest = it.digest
  BY <1>1 DEF ItemRecord, Statuses
<1>3. item' = [item EXCEPT ![r][f] = new]
  BY <1>1 DEF Fail, SetItem
<1> HIDE DEF new
<1>4. new.cleanup = "DONE" => source'[f] = "absent"
  BY <1>1, <1>2 DEF IInv, LedgerIsTrue
<1>5. Moved(it) => Moved(new)
  BY <1>2 DEF Moved
<1>6. record' \in [Files -> Keys]
  BY DEF IInv, Typed
<1>7. QED
  BY <1>1, <1>2, <1>3, <1>4, <1>5, <1>6, ItemWrite

\* The step of an apply that ends with the file: its object under the new key may have changed.
LEMMA FileLeft ==
  ASSUME IInv, NEW c \in Commands, job[c].step \in ApplySteps, NextFile(c), lock' = lock,
         UNCHANGED <<record, source, referenced, request, edits>>, faults' \in 0..MaxFaults,
         target' \in [Files -> Contents],
         \A g \in Files : target'[g] = target[g] \/ record[g] # "target",
         item' \in [Runs -> [Files -> ItemRecord]] /\ LedgerIsTrue' /\ OneRunPerFile'
  PROVE  IInv'
<1>1. lock = c /\ AtWork(job[c])
  BY ApplyKnows
<1>2. /\ job' \in [Commands -> Job] /\ \A d \in Commands \ {c} : job'[d] = job[d]
      /\ job'[c].step = "next" /\ job'[c].phase = job[c].phase /\ job'[c].run = job[c].run
      /\ job'[c].todo = job[c].todo
  BY Leaving DEF IInv
<1>3. OnCourse(c)'
  BY <1>1, <1>2, NextIsOnCourse
<1>4. KeepsACopy'
  BY DEF IInv, KeepsACopy
<1>5. record' \in [Files -> Keys] /\ source' \in [Files -> Contents]
  BY DEF IInv, Typed
<1>6. QED
  BY <1>1, <1>2, <1>3, <1>4, <1>5, CommandStep

\* The step of an apply that goes on with the file: the same may have changed, and its item.
LEMMA FileKept ==
  ASSUME IInv, NEW c \in Commands, job[c].step \in ApplySteps, job[c].phase = "apply",
         NEW step \in ApplySteps, GoTo(c, step), lock' = lock,
         UNCHANGED <<record, source, referenced, request, edits, faults>>,
         target' \in [Files -> Contents],
         \A g \in Files : target'[g] = target[g] \/ record[g] # "target",
         item' \in [Runs -> [Files -> ItemRecord]] /\ LedgerIsTrue' /\ OneRunPerFile',
         item'[job[c].run][job[c].file].status # "none"
  PROVE  IInv'
<1>1. lock = c /\ AtWork(job[c])
  BY ApplyKnows
<1>2. /\ job' \in [Commands -> Job] /\ \A d \in Commands \ {c} : job'[d] = job[d]
      /\ job'[c].step = step /\ job'[c].phase = job[c].phase /\ job'[c].run = job[c].run
      /\ job'[c].todo = job[c].todo /\ job'[c].file = job[c].file
  BY Going DEF IInv
<1>3. OnCourse(c)'
  BY <1>1, <1>2 DEF OnCourse, AtWork, ApplySteps, CleanupSteps
<1>4. KeepsACopy'
  BY DEF IInv, KeepsACopy
<1>5. record' \in [Files -> Keys] /\ source' \in [Files -> Contents] /\ faults' \in 0..MaxFaults
  BY DEF IInv, Typed
<1>6. QED
  BY <1>1, <1>2, <1>3, <1>4, <1>5, CommandStep

\* A candidate that is begun has no item of another run: that would be unfinished, or closed
\* and its row moved.
LEMMA TakeCandidateInv ==
  ASSUME IInv, NEW c \in Commands, TakeCandidate(c)
  PROVE  IInv'
<1> DEFINE run == job[c].run
           rest(f) == [job[c] EXCEPT !.todo = @ \ {f}]
<1>1. /\ job[c].phase = "apply" /\ job[c].step = "next"
      /\ UNCHANGED <<record, referenced, request, edits, source, target, faults>>
      /\ UNCHANGED <<server, disk, faults>>
  BY DEF TakeCandidate, At, server, disk
<1>2. /\ job[c] \in Job /\ lock = c /\ run \in Runs /\ \A g \in job[c].todo : record[g] = "source"
      /\ job[c] # Idle
  BY <1>1, HolderWorks, IdleFacts DEF AtWork
<1>3. PICK f \in Files :
        /\ f \in job[c].todo
        /\ \/ Leave(c) /\ UNCHANGED item
           \/ job' = [job EXCEPT ![c] = rest(f)] /\ UNCHANGED <<item, lock>>
           \/ RecoverItem(c, f, rest(f)) /\ UNCHANGED lock
           \/ /\ ~OtherRunUnresolved(run, f)
              /\ item' = [item EXCEPT ![run][f] = Begun(@)]
              /\ job' = [job EXCEPT ![c] = [rest(f) EXCEPT !.step = "process", !.file = f]]
              /\ UNCHANGED lock
  BY DEF TakeCandidate, First
<1> DEFINE j == rest(f)
<1>4. /\ j \in Job /\ j.step = "next" /\ j.phase = "apply" /\ j.run = run
      /\ j.todo = job[c].todo \ {f} /\ f \notin j.todo
  BY <1>1, <1>2, Taking
<1>5. /\ record' \in [Files -> Keys] /\ source' \in [Files -> Contents]
      /\ target' \in [Files -> Contents] /\ faults' \in 0..MaxFaults /\ KeepsACopy'
      /\ job \in [Commands -> Job]
  BY <1>1 DEF IInv, Typed, KeepsACopy
<1> HIDE DEF j
<1>6. CASE Leave(c) /\ UNCHANGED item
  <2>1. Typed' /\ LedgerIsTrue' /\ OneRunPerFile' /\ Removals'
    BY <1>1, <1>2, <1>6, LeaveKeeps DEF IInv, Typed, LedgerIsTrue, OneRunPerFile, Removals
  <2>2. QED
    BY <1>2, <1>5, <1>6, <2>1, LeaveKeeps DEF IInv
<1>7. CASE job' = [job EXCEPT ![c] = j] /\ UNCHANGED <<item, lock>>
  <2>1. job' \in [Commands -> Job] /\ job'[c] = j /\ \A d \in Commands \ {c} : job'[d] = job[d]
    BY <1>4, <1>5, <1>7
  <2>2. OnCourse(c)'
    BY <1>1, <1>2, <1>4, <1>7, <2>1 DEF OnCourse, AtWork, ApplySteps
  <2>3. item' \in [Runs -> [Files -> ItemRecord]] /\ LedgerIsTrue' /\ OneRunPerFile'
    BY <1>1, <1>7, ItemsKept
  <2>4. QED
    BY <1>1, <1>2, <1>5, <1>7, <2>1, <2>2, <2>3, CommandStep
<1>8. CASE RecoverItem(c, f, j) /\ UNCHANGED lock
  BY <1>1, <1>2, <1>3, <1>4, <1>8, RecoverItemInv
<1>9. CASE /\ ~OtherRunUnresolved(run, f)
           /\ item' = [item EXCEPT ![run][f] = Begun(@)]
           /\ job' = [job EXCEPT ![c] = [j EXCEPT !.step = "process", !.file = f]]
           /\ UNCHANGED lock
  <2> DEFINE new == [j EXCEPT !.step = "process", !.file = f]
             it == Begun(item[run][f])
  <2>1. record[f] = "source" /\ item \in [Runs -> [Files -> ItemRecord]]
    BY <1>2, <1>3 DEF IInv, Typed
  <2>2. \A s \in Runs \ {run} : item[s][f].status = "none"
    BY <1>9, <2>1 DEF OtherRunUnresolved, Unresolved, IInv, Typed, LedgerIsTrue, ItemRecord
  <2>3. it \in ItemRecord /\ it.status = "PROCESSING" /\ it.cleanup = "NOT_SCHEDULED"
    <3> DEFINE old == item[run][f]
    <3>1. old \in ItemRecord
      BY <1>2, <2>1
    <3> HIDE DEF old
    <3>2. Begun(old) \in ItemRecord /\ Begun(old).status = "PROCESSING"
          /\ Begun(old).cleanup = "NOT_SCHEDULED"
      BY <3>1 DEF Begun, ItemRecord, Statuses, CleanupStatuses, ErrorCodes
    <3>3. QED
      BY <3>2 DEF old
  <2>4. item' = [item EXCEPT ![run][f] = it]
    BY <1>2, <1>9, <2>1
  <2>5. /\ new \in Job /\ new.step = "process" /\ new.file = f /\ new.phase = "apply"
        /\ new.run = run /\ new.todo = job[c].todo \ {f}
    BY <1>4 DEF Job, ApplySteps
  <2> HIDE DEF new, it
  <2>6. job' \in [Commands -> Job] /\ job'[c] = new /\ \A d \in Commands \ {c} : job'[d] = job[d]
    BY <1>5, <1>9, <2>5 DEF new
  <2>7. item'[run][f] = it
    BY <1>2, <2>1, <2>4
  <2>8. OnCourse(c)'
    BY <1>1, <1>2, <1>9, <2>1, <2>3, <2>5, <2>6, <2>7 DEF OnCourse, AtWork, ApplySteps
  <2>9. item' \in [Runs -> [Files -> ItemRecord]] /\ LedgerIsTrue' /\ OneRunPerFile'
    BY <1>1, <1>2, <1>5, <2>1, <2>2, <2>3, <2>4, ItemWrite
  <2>10. QED
    BY <1>1, <1>2, <1>5, <1>9, <2>6, <2>8, <2>9, CommandStep
<1>10. QED
  BY <1>3, <1>6, <1>7, <1>8, <1>9 DEF j

LEMMA ProcessInv ==
  ASSUME IInv, NEW c \in Commands, Process(c)
  PROVE  IInv'
<1>1. /\ job[c].phase = "apply" /\ job[c].step = "process" /\ job[c].step \in ApplySteps
      /\ UNCHANGED <<record, source, target, referenced, request, edits, lock, faults>>
  BY DEF Process, At, server, disk, ApplySteps
<1>2. target' \in [Files -> Contents] /\ faults' \in 0..MaxFaults
  BY <1>1 DEF IInv, Typed
<1>3. CASE GoTo(c, "publish") /\ UNCHANGED item
  <2>1. item'[job[c].run][job[c].file].status # "none"
    BY <1>1, <1>3, ApplyKnows
  <2>2. "publish" \in ApplySteps
    BY DEF ApplySteps
  <2>3. QED
    BY <1>1, <1>2, <1>3, <2>1, <2>2, ItemsKept, FileKept
<1>4. CASE NextFile(c) /\ Fail(c, "PROCESS_FAILED")
  <2>1. item' \in [Runs -> [Files -> ItemRecord]] /\ LedgerIsTrue' /\ OneRunPerFile'
    BY <1>1, <1>4, FailKeeps DEF ErrorCodes
  <2>2. QED
    BY <1>1, <1>2, <1>4, <2>1, FileLeft
<1>5. QED
  BY <1>3, <1>4 DEF Process

\* Nothing is published over an object that a row names.
LEMMA PublishInv ==
  ASSUME IInv, NEW c \in Commands, Publish(c) \/ WriteInPlace(c)
  PROVE  IInv'
<1> DEFINE f == job[c].file
<1>1. /\ job[c].phase = "apply" /\ job[c].step \in ApplySteps
      /\ UNCHANGED <<record, source, referenced, request, edits, lock, faults>>
  BY DEF Publish, WriteInPlace, SetTarget, At, server, disk, ApplySteps
<1>2. faults' \in 0..MaxFaults /\ f \in Files /\ record[f] = "source"
  BY <1>1, ApplyKnows DEF IInv, Typed
<1>3. /\ target' \in [Files -> Contents]
      /\ \A g \in Files : target'[g] = target[g] \/ record[g] # "target"
  <2>1. target' = target \/ \E content \in Contents : target' = [target EXCEPT ![f] = content]
    BY DEF Publish, WriteInPlace, SetTarget, disk, Contents
  <2>2. QED
    BY <1>2, <2>1 DEF IInv, Typed
<1>4. \/ (GoTo(c, "stage") \/ GoTo(c, "write")) /\ UNCHANGED item
      \/ NextFile(c) /\ Fail(c, "TARGET_CONFLICT")
  BY DEF Publish, WriteInPlace
<1>5. CASE (GoTo(c, "stage") \/ GoTo(c, "write")) /\ UNCHANGED item
  <2>1. item'[job[c].run][job[c].file].status # "none"
    BY <1>1, <1>5, ApplyKnows
  <2>2. "stage" \in ApplySteps /\ "write" \in ApplySteps
    BY DEF ApplySteps
  <2>3. item' \in [Runs -> [Files -> ItemRecord]] /\ LedgerIsTrue' /\ OneRunPerFile'
    BY <1>1, <1>5, ItemsKept
  <2>4. QED
    BY <1>1, <1>3, <1>5, <2>1, <2>2, <2>3, FileKept
<1>6. CASE NextFile(c) /\ Fail(c, "TARGET_CONFLICT")
  <2>1. item' \in [Runs -> [Files -> ItemRecord]] /\ LedgerIsTrue' /\ OneRunPerFile'
    BY <1>1, <1>6, FailKeeps DEF ErrorCodes
  <2>2. QED
    BY <1>1, <1>2, <1>3, <1>6, <2>1, FileLeft
<1>7. QED
  BY <1>4, <1>5, <1>6

\* The item that is staged is of a file whose row has not moved.
LEMMA StageInv ==
  ASSUME IInv, NEW c \in Commands, Stage(c)
  PROVE  IInv'
<1> DEFINE r == job[c].run
           f == job[c].file
           it == Item(c)
           new == [it EXCEPT !.status = "STAGED", !.error = "", !.digest = "output",
                             !.cleanup = "NOT_SCHEDULED"]
<1>1. /\ job[c].phase = "apply" /\ job[c].step \in ApplySteps
      /\ UNCHANGED <<record, source, target, referenced, request, edits, lock, faults>>
  BY DEF Stage, At, server, disk, ApplySteps
<1>2. /\ r \in Runs /\ f \in Files /\ record[f] = "source" /\ it \in ItemRecord
      /\ it = item[r][f] /\ it.status # "none"
  BY <1>1, ApplyKnows
<1>3. /\ target' \in [Files -> Contents] /\ faults' \in 0..MaxFaults /\ record' \in [Files -> Keys]
      /\ item \in [Runs -> [Files -> ItemRecord]]
  BY <1>1 DEF IInv, Typed
<1>4. CASE NextFile(c) /\ UNCHANGED item
  BY <1>1, <1>3, <1>4, ItemsKept, FileLeft
<1>5. CASE SetItem(c, new) /\ GoTo(c, "commit")
  <2>1. new \in ItemRecord /\ new.status = "STAGED" /\ new.cleanup = "NOT_SCHEDULED"
    BY <1>2 DEF ItemRecord, Statuses, CleanupStatuses, ErrorCodes
  <2>2. item' = [item EXCEPT ![r][f] = new]
    BY <1>5 DEF SetItem
  <2> HIDE DEF new
  <2>3. item' \in [Runs -> [Files -> ItemRecord]] /\ LedgerIsTrue' /\ OneRunPerFile'
    BY <1>1, <1>2, <1>3, <2>1, <2>2, ItemWrite
  <2>4. item'[r][f].status # "none"
    BY <1>2, <1>3, <2>1, <2>2
  <2>5. "commit" \in ApplySteps
    BY DEF ApplySteps
  <2>6. QED
    BY <1>1, <1>3, <1>5, <2>3, <2>4, <2>5, FileKept
<1>6. QED
  BY <1>4, <1>5 DEF Stage

\* A row is switched to an object that is there as the ledger describes it.
LEMMA CommitInv ==
  ASSUME IInv, NEW c \in Commands, Commit(c)
  PROVE  IInv'
<1> DEFINE r == job[c].run
           f == job[c].file
           it == Item(c)
<1>1. /\ job[c].step \in ApplySteps /\ NextFile(c)
      /\ UNCHANGED <<source, target, referenced, request, edits, lock>>
  BY DEF Commit, disk, ApplySteps
<1>2. /\ r \in Runs /\ f \in Files /\ f \notin job[c].todo /\ it \in ItemRecord
      /\ it = item[r][f] /\ it.status # "none" /\ lock = c /\ AtWork(job[c])
  BY <1>1, ApplyKnows
<1>3. /\ target' \in [Files -> Contents] /\ source' \in [Files -> Contents]
      /\ record \in [Files -> Keys] /\ faults \in 0..MaxFaults
  BY <1>1 DEF IInv, Typed
<1>4. CASE UNCHANGED record /\ CommitError(c)
  <2>1. faults' \in 0..MaxFaults
    BY <1>3, <1>4, BackfillAssumption DEF CommitError
  <2>2. CASE UNCHANGED item
    BY <1>1, <1>3, <1>4, <2>1, <2>2, ItemsKept, FileLeft
  <2>3. CASE Fail(c, "STAGED_RECOVERY_FAILED")
    <3>1. item' \in [Runs -> [Files -> ItemRecord]] /\ LedgerIsTrue' /\ OneRunPerFile'
      BY <1>1, <1>4, <2>3, FailKeeps DEF ErrorCodes
    <3>2. QED
      BY <1>1, <1>3, <1>4, <2>1, <3>1, FileLeft
  <2>4. QED
    BY <1>4, <2>2, <2>3 DEF CommitError
<1>5. ASSUME NEW new, SetItem(c, new), Committable(f, it), record' = [record EXCEPT ![f] = "target"],
             UNCHANGED faults,
             new \in {Committed(it),
                      [Committed(it) EXCEPT !.status = "FAILED", !.error = "STAGED_RECOVERY_FAILED"]}
      PROVE  IInv'
  <2>1. target[f] = "output" /\ it.digest = "output" /\ record[f] # "deleted"
    BY <1>2, <1>5 DEF Committable, Matches, ItemRecord
  <2>2. new \in ItemRecord /\ Moved(new) /\ new.cleanup = "PENDING"
    BY <1>2, <1>5, <2>1
    DEF Committed, Moved, ItemRecord, Statuses, CleanupStatuses, ErrorCodes
  <2>3. item' = [item EXCEPT ![r][f] = new]
    BY <1>5 DEF SetItem
  <2>4. /\ record' \in [Files -> Keys] /\ record'[f] = "target"
        /\ \A g \in Files \ {f} : record'[g] = record[g]
    BY <1>2, <1>3, <1>5 DEF Keys
  <2>5. item' \in [Runs -> [Files -> ItemRecord]] /\ LedgerIsTrue' /\ OneRunPerFile'
    <3>1. /\ r \in Runs /\ f \in Files /\ item[r][f].status # "none" /\ source' = source
          /\ new.cleanup # "DONE" /\ record'[f] # "source"
      BY <1>1, <1>2, <2>2, <2>4
    <3>2. QED
      BY <2>2, <2>3, <2>4, <3>1, ItemWrite
  <2>6. KeepsACopy'
    BY <1>1, <2>1, <2>4 DEF IInv, KeepsACopy
  <2>7. /\ job' \in [Commands -> Job] /\ \A d \in Commands \ {c} : job'[d] = job[d]
        /\ job'[c].step = "next" /\ job'[c].phase = job[c].phase /\ job'[c].run = job[c].run
        /\ job'[c].todo = job[c].todo
    BY <1>1, Leaving DEF IInv
  <2>8. job[c].todo \subseteq Files
    BY <1>1, ApplyKnows DEF Job
  <2>9. OnCourse(c)'
    BY <1>1, <1>2, <2>4, <2>7, <2>8, NextIsOnCourse
  <2>10. \A g \in Files : record[g] = "deleted" => record'[g] = "deleted"
    BY <2>1, <2>4
  <2>11. QED
    BY <1>1, <1>2, <1>3, <1>5, <2>4, <2>5, <2>6, <2>7, <2>9, <2>10, CommandStep
<1>6. QED
  BY <1>4, <1>5 DEF Commit

-----------------------------------------------------------------------------
(* Clean-up. *)

\* A clean-up marks an item.
Marks(r, f, status) == item' = [item EXCEPT ![r][f] = [item[r][f] EXCEPT !.cleanup = status]]

\* An item that is marked keeps the rest of what it says.
LEMMA MarkKeeps ==
  ASSUME IInv, NEW r \in Runs, NEW f \in Files, NEW status \in {"FAILED", "DONE"},
         Marks(r, f, status), status = "DONE" => source[f] = "absent", UNCHANGED <<record, source>>
  PROVE  item' \in [Runs -> [Files -> ItemRecord]] /\ LedgerIsTrue' /\ OneRunPerFile'
<1> DEFINE it == item[r][f]
           new == [it EXCEPT !.cleanup = status]
<1>1. it \in ItemRecord /\ record' \in [Files -> Keys]
  BY DEF IInv, Typed
<1>2. /\ new \in ItemRecord /\ new.status = it.status /\ new.cleanup = status
      /\ new.digest = it.digest
  BY <1>1 DEF ItemRecord, CleanupStatuses
<1>3. item' = [item EXCEPT ![r][f] = new]
  BY DEF Marks
<1> HIDE DEF new
<1>4. Moved(it) => Moved(new)
  BY <1>2 DEF Moved
<1>5. it.status = "COMMITTED" => record[f] # "source"
  BY DEF IInv, LedgerIsTrue
<1>6. /\ \A g \in Files \ {f} : record'[g] = record[g]
      /\ \A g \in Files : source[g] = "absent" => source'[g] = "absent"
      /\ record[f] # "source" => record'[f] # "source"
      /\ new.status = "COMMITTED" => record'[f] # "source"
      /\ new.cleanup = "DONE" => source'[f] = "absent"
      /\ new.status # "none" => item[r][f].status # "none"
      /\ record'[f] = "target" => Moved(new) \/ (record[f] = "target" /\ ~Moved(item[r][f]))
  BY <1>2, <1>4, <1>5
<1>7. QED
  BY <1>1, <1>2, <1>3, <1>6, ItemWrite

\* A step of a clean-up that removes nothing.
LEMMA NothingRemoved ==
  ASSUME IInv, NEW c \in Commands, lock = c, lock' = lock,
         job' \in [Commands -> Job], \A d \in Commands \ {c} : job'[d] = job[d], OnCourse(c)',
         UNCHANGED <<record, source, target, referenced, request, edits, faults>>,
         item' \in [Runs -> [Files -> ItemRecord]], LedgerIsTrue', OneRunPerFile'
  PROVE  IInv'
<1>1. KeepsACopy'
  BY DEF IInv, KeepsACopy
<1>2. /\ record' \in [Files -> Keys] /\ source' \in [Files -> Contents]
      /\ target' \in [Files -> Contents] /\ faults' \in 0..MaxFaults
  BY DEF IInv, Typed
<1>3. QED
  BY <1>1, <1>2, CommandStep

\* What a command knows in a clean-up.
LEMMA CleanupKnows ==
  ASSUME IInv, NEW c \in Commands, job[c].phase = "cleanup"
  PROVE  /\ job[c] \in Job /\ lock = c /\ job[c].run \in Runs /\ AtWork(job[c])
         /\ job[c].step # "next" =>
              /\ job[c].file \in Files /\ job[c].file \notin job[c].todo
              /\ Item(c) \in ItemRecord /\ Item(c) = item[job[c].run][job[c].file]
         /\ job[c].step = "source" =>
              \/ record[job[c].file] = "deleted"
              \/ record[job[c].file] = "target" /\ target[job[c].file] = "output"
         /\ job[c].step \in {"references", "both", "target"} => record[job[c].file] = "deleted"
         /\ job[c].step \in {"target", "done"} => source[job[c].file] = "absent"
<1>1. job[c] \in Job /\ lock = c /\ AtWork(job[c])
  BY HolderWorks
<1>2. QED
  BY <1>1 DEF AtWork, Item, IInv, Typed

\* A file is left with or without a mark.
LEMMA CleanupLeaves ==
  ASSUME IInv, NEW c \in Commands, job[c].phase = "cleanup", job[c].step # "next", NextFile(c),
         NEW status \in {"FAILED", "DONE"}, Mark(c, status),
         status = "DONE" => source[job[c].file] = "absent",
         UNCHANGED <<record, source, target, referenced, request, edits, lock, faults>>
  PROVE  IInv'
<1>1. /\ lock = c /\ AtWork(job[c]) /\ job[c].run \in Runs /\ job[c].file \in Files
      /\ Item(c) = item[job[c].run][job[c].file]
  BY CleanupKnows
<1>2. item' \in [Runs -> [Files -> ItemRecord]] /\ LedgerIsTrue' /\ OneRunPerFile'
  <2>1. Marks(job[c].run, job[c].file, status)
    BY <1>1 DEF Mark, SetItem, Marks
  <2>2. QED
    BY <1>1, <2>1, MarkKeeps
<1>3. /\ job' \in [Commands -> Job] /\ \A d \in Commands \ {c} : job'[d] = job[d]
      /\ job'[c].step = "next" /\ job'[c].phase = job[c].phase /\ job'[c].run = job[c].run
      /\ job'[c].todo = job[c].todo
  BY Leaving DEF IInv
<1>4. OnCourse(c)'
  BY <1>1, <1>3, NextIsOnCourse
<1>5. QED
  BY <1>1, <1>2, <1>3, <1>4, NothingRemoved

\* An old object is to be removed only after the new one has been seen where the row says.
LEMMA InspectInv ==
  ASSUME IInv, NEW c \in Commands, Inspect(c)
  PROVE  IInv'
<1> DEFINE r == job[c].run
           taken(f) == [job[c] EXCEPT !.todo = @ \ {f}, !.file = f]
<1>1. /\ job[c].phase = "cleanup" /\ job[c].step = "next"
      /\ UNCHANGED <<record, source, target, referenced, request, edits, lock, faults>>
  BY DEF Inspect, At, server, disk
<1>2. job[c] \in Job /\ lock = c /\ r \in Runs /\ AtWork(job[c])
  BY <1>1, CleanupKnows
<1>3. PICK f \in Files :
        LET j == taken(f)
        IN \/ /\ MayRemoveSource(f, item[j.run][f])
              /\ job' = [job EXCEPT ![c] = [j EXCEPT !.step = "source"]] /\ UNCHANGED item
           \/ /\ job' = [job EXCEPT ![c] = Advance(j)]
              /\ item' = [item EXCEPT ![j.run][f].cleanup = "FAILED"]
           \/ /\ record[f] = "deleted"
              /\ job' = [job EXCEPT ![c] = [j EXCEPT !.step = "references"]] /\ UNCHANGED item
  BY DEF Inspect
<1> DEFINE j == taken(f)
<1>4. /\ j \in Job /\ j.step = "next" /\ j.phase = "cleanup" /\ j.run = r
      /\ j.todo = job[c].todo \ {f} /\ j.file = f
  BY <1>1, <1>2 DEF Job
<1>5. item[r][f] \in ItemRecord /\ job \in [Commands -> Job] /\ item \in [Runs -> [Files -> ItemRecord]]
  BY <1>2 DEF IInv, Typed
<1>6. \/ /\ MayRemoveSource(f, item[r][f])
         /\ job' = [job EXCEPT ![c] = [j EXCEPT !.step = "source"]] /\ UNCHANGED item
      \/ /\ job' = [job EXCEPT ![c] = Advance(j)]
         /\ item' = [item EXCEPT ![r][f].cleanup = "FAILED"]
      \/ /\ record[f] = "deleted"
         /\ job' = [job EXCEPT ![c] = [j EXCEPT !.step = "references"]] /\ UNCHANGED item
  BY <1>3, <1>4
<1> HIDE DEF j
<1>7. ASSUME NEW step \in {"source", "references"}, UNCHANGED item,
             job' = [job EXCEPT ![c] = [j EXCEPT !.step = step]],
             step = "source" => record[f] = "target" /\ target[f] = "output",
             step = "references" => record[f] = "deleted"
      PROVE  IInv'
  <2> DEFINE new == [j EXCEPT !.step = step]
  <2>1. /\ new \in Job /\ new.step = step /\ new.phase = "cleanup" /\ new.run = r
        /\ new.todo = job[c].todo \ {f} /\ new.file = f
    BY <1>4 DEF Job, CleanupSteps
  <2>2. job' = [job EXCEPT ![c] = new]
    BY <1>7
  <2> HIDE DEF new
  <2>3. job' \in [Commands -> Job] /\ job'[c] = new /\ \A d \in Commands \ {c} : job'[d] = job[d]
    BY <1>5, <2>1, <2>2
  <2>4. OnCourse(c)'
    BY <1>1, <1>2, <1>7, <2>1, <2>3 DEF OnCourse, AtWork, ApplySteps, CleanupSteps
  <2>5. QED
    BY <1>1, <1>2, <1>7, <2>3, <2>4, ItemsKept, NothingRemoved
<1>8. CASE MayRemoveSource(f, item[r][f]) /\ job' = [job EXCEPT ![c] = [j EXCEPT !.step = "source"]]
           /\ UNCHANGED item
  <2>1. record[f] = "target" /\ target[f] = "output"
    BY <1>5, <1>8 DEF MayRemoveSource, Matches, ItemRecord
  <2>2. QED
    BY <1>7, <1>8, <2>1
<1>9. CASE job' = [job EXCEPT ![c] = Advance(j)] /\ item' = [item EXCEPT ![r][f].cleanup = "FAILED"]
  <2>1. /\ Advance(j) \in Job /\ Advance(j).step = "next" /\ Advance(j).phase = "cleanup"
        /\ Advance(j).run = r /\ Advance(j).todo \subseteq job[c].todo
    BY <1>4, Advanced
  <2>2. /\ job' \in [Commands -> Job] /\ job'[c] = Advance(j)
        /\ \A d \in Commands \ {c} : job'[d] = job[d]
    BY <1>5, <1>9, <2>1
  <2>3. OnCourse(c)'
    BY <1>1, <1>2, <2>1, <2>2 DEF OnCourse, AtWork, ApplySteps
  <2>4. Marks(r, f, "FAILED")
    BY <1>5, <1>9 DEF Marks
  <2>5. item' \in [Runs -> [Files -> ItemRecord]] /\ LedgerIsTrue' /\ OneRunPerFile'
    BY <1>1, <1>2, <2>4, MarkKeeps
  <2>6. QED
    BY <1>1, <1>2, <2>2, <2>3, <2>5, NothingRemoved
<1>10. QED
  BY <1>6, <1>7, <1>8, <1>9

LEMMA CountReferencesInv ==
  ASSUME IInv, NEW c \in Commands, CountReferences(c)
  PROVE  IInv'
<1>1. /\ job[c].phase = "cleanup" /\ job[c].step = "references"
      /\ UNCHANGED <<record, source, target, referenced, request, edits, lock, faults>>
  BY DEF CountReferences, At, server, disk
<1>2. CASE NextFile(c) /\ Mark(c, "FAILED")
  BY <1>1, <1>2, CleanupLeaves
<1>3. CASE GoTo(c, "both") /\ UNCHANGED item
  <2>1. /\ job' \in [Commands -> Job] /\ \A d \in Commands \ {c} : job'[d] = job[d]
        /\ job'[c].step = "both" /\ job'[c].phase = job[c].phase /\ job'[c].run = job[c].run
        /\ job'[c].todo = job[c].todo /\ job'[c].file = job[c].file
    BY <1>3, Going DEF IInv, CleanupSteps
  <2>2. OnCourse(c)'
    BY <1>1, <2>1, CleanupKnows DEF OnCourse, AtWork, ApplySteps, CleanupSteps
  <2>3. QED
    BY <1>1, <1>3, <2>1, <2>2, CleanupKnows, ItemsKept, NothingRemoved
<1>4. QED
  BY <1>2, <1>3 DEF CountReferences

\* The old object goes where the row names the new one, which is there, or the row is gone.
LEMMA RemoveSourceInv ==
  ASSUME IInv, NEW c \in Commands, RemoveSource(c)
  PROVE  IInv'
<1> DEFINE f == job[c].file
           to == IF job[c].step = "both" THEN "target" ELSE "done"
<1>1. /\ job[c].phase = "cleanup" /\ job[c].step \in {"source", "both"} /\ GoTo(c, to)
      /\ source' = [source EXCEPT ![f] = "absent"]
      /\ UNCHANGED <<record, target, referenced, request, edits, item, lock, faults>>
  BY DEF RemoveSource, At, server
<1>2. /\ lock = c /\ f \in Files /\ AtWork(job[c])
      /\ record[f] = "deleted" \/ (record[f] = "target" /\ target[f] = "output")
      /\ job[c].step = "both" => record[f] = "deleted"
  BY <1>1, CleanupKnows
<1>3. /\ job' \in [Commands -> Job] /\ \A d \in Commands \ {c} : job'[d] = job[d]
      /\ job'[c].step = to /\ job'[c].phase = job[c].phase /\ job'[c].run = job[c].run
      /\ job'[c].todo = job[c].todo /\ job'[c].file = job[c].file
  BY <1>1, Going DEF IInv, CleanupSteps
<1>4. /\ source' \in [Files -> Contents] /\ source'[f] = "absent"
      /\ \A g \in Files \ {f} : source'[g] = source[g]
      /\ record' \in [Files -> Keys] /\ target' \in [Files -> Contents] /\ faults' \in 0..MaxFaults
  BY <1>1, <1>2 DEF IInv, Typed, Contents
<1>5. KeepsACopy'
  BY <1>1, <1>2, <1>4 DEF IInv, KeepsACopy
<1>6. OnCourse(c)'
  BY <1>1, <1>2, <1>3, <1>4 DEF OnCourse, AtWork, ApplySteps, CleanupSteps
<1>7. item' \in [Runs -> [Files -> ItemRecord]] /\ LedgerIsTrue' /\ OneRunPerFile'
  BY <1>1, <1>2, <1>4, ItemsKept
<1>8. QED
  BY <1>1, <1>2, <1>3, <1>4, <1>5, <1>6, <1>7, CommandStep

\* The new object goes only where the row is gone.
LEMMA RemoveTargetInv ==
  ASSUME IInv, NEW c \in Commands, RemoveTarget(c)
  PROVE  IInv'
<1> DEFINE f == job[c].file
<1>1. /\ job[c].phase = "cleanup" /\ job[c].step = "target"
      /\ UNCHANGED <<record, source, referenced, request, edits, lock, faults>>
  BY DEF RemoveTarget, SetTarget, At, server, disk
<1>2. /\ lock = c /\ f \in Files /\ AtWork(job[c]) /\ record[f] = "deleted" /\ source[f] = "absent"
  BY <1>1, CleanupKnows
<1>3. CASE SetTarget(c, "absent") /\ GoTo(c, "done") /\ UNCHANGED item
  <2>1. /\ job' \in [Commands -> Job] /\ \A d \in Commands \ {c} : job'[d] = job[d]
        /\ job'[c].step = "done" /\ job'[c].phase = job[c].phase /\ job'[c].run = job[c].run
        /\ job'[c].todo = job[c].todo /\ job'[c].file = job[c].file
    BY <1>3, Going DEF IInv, CleanupSteps
  <2>2. /\ target' \in [Files -> Contents] /\ \A g \in Files \ {f} : target'[g] = target[g]
        /\ record' \in [Files -> Keys] /\ source' \in [Files -> Contents] /\ faults' \in 0..MaxFaults
    BY <1>1, <1>2, <1>3 DEF IInv, Typed, Contents, SetTarget
  <2>3. KeepsACopy'
    BY <1>1, <1>2, <2>2 DEF IInv, KeepsACopy
  <2>4. OnCourse(c)'
    BY <1>1, <1>2, <2>1 DEF OnCourse, AtWork, ApplySteps, CleanupSteps
  <2>5. item' \in [Runs -> [Files -> ItemRecord]] /\ LedgerIsTrue' /\ OneRunPerFile'
    BY <1>1, <1>3, ItemsKept
  <2>6. QED
    BY <1>1, <1>2, <2>1, <2>2, <2>3, <2>4, <2>5, CommandStep
<1>4. CASE NextFile(c) /\ Mark(c, "FAILED") /\ UNCHANGED disk
  BY <1>1, <1>4, CleanupLeaves DEF disk
<1>5. QED
  BY <1>3, <1>4 DEF RemoveTarget

LEMMA CleanupDoneInv ==
  ASSUME IInv, NEW c \in Commands, CleanupDone(c)
  PROVE  IInv'
<1>1. /\ job[c].phase = "cleanup" /\ job[c].step = "done" /\ NextFile(c) /\ Mark(c, "DONE")
      /\ UNCHANGED <<record, source, target, referenced, request, edits, lock, faults>>
  BY DEF CleanupDone, At, server, disk
<1>2. source[job[c].file] = "absent"
  BY <1>1, CleanupKnows
<1>3. QED
  BY <1>1, <1>2, CleanupLeaves

-----------------------------------------------------------------------------
(* The theorems. *)

\* The invariant holds before the first command.
LEMMA InitInv == Init => IInv
<1> SUFFICES ASSUME Init PROVE IInv
  OBVIOUS
<1>1. Typed
  <2>1. /\ record \in [Files -> Keys] /\ referenced \subseteq Files
        /\ source \in [Files -> Contents] /\ target \in [Files -> Contents]
    BY DEF Init, Keys, Contents
  <2>2. item \in [Runs -> [Files -> ItemRecord]] /\ job \in [Commands -> Job]
    BY IdleFacts DEF Init
  <2>3. request \in [attach : SUBSET Files, remove : SUBSET (Files \X Keys)]
    BY DEF Init
  <2>4. lock \in Commands \cup {None} /\ faults \in 0..MaxFaults /\ edits \in 0..MaxEdits
    BY BackfillAssumption DEF Init
  <2>5. QED
    BY <2>1, <2>2, <2>3, <2>4 DEF Typed
<1>2. \A r \in Runs, f \in Files : item[r][f] = NoItem
  BY DEF Init
<1>3. NoItem.status = "none" /\ NoItem.cleanup = "NOT_SCHEDULED"
  BY DEF NoItem
<1>4. KeepsACopy /\ LedgerIsTrue /\ OneRunPerFile /\ Removals
  BY <1>2, <1>3 DEF Init, KeepsACopy, LedgerIsTrue, OneRunPerFile, Removals
<1>5. \A c \in Commands : OnCourse(c)
  BY DEF Init, OnCourse
<1>6. QED
  BY <1>1, <1>4, <1>5 DEF IInv

\* And after every step of a command, the server or the world.
LEMMA NextInv == IInv /\ [Next]_vars => IInv'
<1> SUFFICES ASSUME IInv, [Next]_vars PROVE IInv'
  OBVIOUS
<1>1. ASSUME NEW c \in Commands, NEW r \in Runs,
             StartCleanup(c, r) \/ \E retry \in BOOLEAN : StartApply(c, r, retry)
      PROVE  IInv'
  BY <1>1, StartInv DEF StartCleanup, StartApply
<1>2. ASSUME NEW c \in Commands, Work(c) \/ Crash(c) PROVE IInv'
  BY <1>2, RecoverInv, LoadCandidatesInv, TakeCandidateInv, ProcessInv, PublishInv, StageInv,
     CommitInv, EndInv, InspectInv, CountReferencesInv, RemoveSourceInv, RemoveTargetInv,
     CleanupDoneInv DEF Work
<1>3. ASSUME NEW f \in Files, Serve(f) \/ Damage(f) PROVE IInv'
  BY <1>3, DeleteProductInv, EditInv, RemoveObjectInv, DamageInv DEF Serve
<1>4. CASE UNCHANGED vars
  <2>1. UNCHANGED <<record, referenced, request, edits, source, target, item, job, lock, faults>>
    BY <1>4 DEF vars, server, disk
  <2>2. Typed' /\ KeepsACopy' /\ LedgerIsTrue' /\ OneRunPerFile' /\ Removals'
    BY <2>1 DEF IInv, Typed, KeepsACopy, LedgerIsTrue, OneRunPerFile, Removals
  <2>3. \A c \in Commands : OnCourse(c)'
    BY <2>1 DEF IInv, OnCourse, AtWork
  <2>4. QED
    BY <2>2, <2>3 DEF IInv
<1>5. QED
  BY <1>1, <1>2, <1>3, <1>4, DayPassesInv DEF Next

\* The invariant holds whatever dies, fails or is spoiled, and however often.
THEOREM Invariance == SafetySpec => []IInv
<1>1. QED
  BY InitInv, NextInv, PTL DEF SafetySpec

\* Every variable keeps its type, and a command that is at a file has one.
THEOREM TypeCorrect == Spec => []TypeOK
<1>1. ASSUME IInv PROVE TypeOK
  <2>1. /\ item \in [Runs -> [Files -> [status : Statuses, error : ErrorCodes, digest : Contents,
                                       cleanup : CleanupStatuses, due : BOOLEAN]]]
    BY <1>1 DEF IInv, Typed, ItemRecord, Contents
  <2>2. ASSUME NEW c \in Commands
        PROVE  /\ job[c].todo \subseteq Files
               /\ job[c] # Idle => job[c].run \in Runs
               /\ job[c].step \notin {"idle", "next"} => job[c].file \in Files
    <3>1. job[c] \in Job /\ OnCourse(c)
      BY <1>1 DEF IInv, Typed
    <3>2. job[c].todo \subseteq Files
      BY <3>1 DEF Job
    <3>3. QED
      BY <3>1, <3>2, IdleFacts DEF OnCourse, AtWork
  <2>3. QED
    BY <1>1, <2>1, <2>2 DEF IInv, Typed, TypeOK
<1>2. QED
  BY <1>1, Invariance, PTL DEF Spec

\* The object a row names is there, or the one it was made from still is (runApply, runCleanup,
\* handleDeleteProduct).
THEOREM CopyTheorem == Spec => []KeepsACopy
<1>1. IInv => KeepsACopy
  BY DEF IInv
<1>2. QED
  BY <1>1, Invariance, PTL DEF Spec

\* The ledger tells what happened to rows and objects (commitStagedItem, runCleanup).
THEOREM LedgerTheorem == Spec => []LedgerIsTrue
<1>1. IInv => LedgerIsTrue
  BY DEF IInv
<1>2. QED
  BY <1>1, Invariance, PTL DEF Spec

\* A file is the business of one run for ever (ensureNoUnresolvedOtherRunItem).
THEOREM OneRunTheorem == Spec => []OneRunPerFile
<1>1. IInv => OneRunPerFile
  BY DEF IInv
<1>2. QED
  BY <1>1, Invariance, PTL DEF Spec

\* Two commands are never at work at the same time, although each takes many steps and may die
\* at any of them (acquireGlobalBackfillLock).
THEOREM LockTheorem ==
  Spec => [](\A c, d \in Commands : job[c] # Idle /\ job[d] # Idle => c = d)
<1>1. IInv => \A c, d \in Commands : job[c] # Idle /\ job[d] # Idle => c = d
  BY DEF IInv, OnCourse
<1>2. QED
  BY <1>1, Invariance, PTL DEF Spec

=============================================================================
