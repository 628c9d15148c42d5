---------------------------- MODULE ImageBackfill ----------------------------
(***************************************************************************)
(* backfill_product_images: a command that re-encodes the product images   *)
(* uploaded before the detail profile existed. It publishes a new object   *)
(* beside the old one, switches the file's row to it and, at least a day   *)
(* later, removes the old one. A ledger row per run and file remembers how *)
(* far it got, because the command may die between any two of its writes   *)
(* and is then started again with the same run.                            *)
(*                                                                         *)
(* One object lock of the database admits one command at a time. While an  *)
(* apply works the gateway refuses writes to files and products (the write *)
(* freeze of the design document); a clean-up works beside them. Batches   *)
(* (--after-id, --limit), dry runs and counters are left out. What a       *)
(* digest tells apart is the content of the object.                        *)
(***************************************************************************)
EXTENDS Integers

CONSTANTS
  Files,       \* ids of file rows
  Runs,        \* values of --run-id
  Commands,    \* processes an operator may start
  None,
  MaxFaults,   \* bound: commands that die, ledger rows that cannot be marked
  MaxEdits     \* bound: images attached to a product again

ASSUME BackfillAssumption ==
  /\ Files \subseteq Nat /\ None \notin Runs \cup Commands
  /\ MaxFaults \in Nat /\ MaxEdits \in Nat

VARIABLES
  record,      \* files.object_key: the old key, the new one, or the row is deleted
  referenced,  \* files that are the image or the cover of a product
  source,      \* the object under the old key
  target,      \* the object under the new key
  item,        \* image_backfill_items
  job,         \* what each command is doing
  lock,        \* the command that holds the lock of the database
  request,     \* writes of the server that have begun: images to attach, objects to remove
  faults, edits

server == <<record, referenced, request, edits>>
disk == <<source, target>>
vars == <<server, disk, item, job, lock, faults>>

Keys == {"source", "target", "deleted"}

\* What an object holds: nothing, the old image, its new encoding, or anything else.
Contents == {"absent", "original", "output", "other"}

Statuses == {"none", "PENDING", "PROCESSING", "STAGED", "COMMITTED", "FAILED"}

Unresolved == Statuses \ {"none", "COMMITTED"}

CleanupStatuses == {"NOT_SCHEDULED", "PENDING", "FAILED", "DONE"}

ErrorCodes ==
  {"", "PROCESS_FAILED", "TARGET_CONFLICT", "TARGET_HASH_MISMATCH", "STAGED_RECOVERY_FAILED"}

\* digest stands for source_sha256 and output_sha256, due for a cleanup_after that has passed.
NoItem == [status |-> "none", error |-> "", digest |-> "absent",
           cleanup |-> "NOT_SCHEDULED", due |-> FALSE]

\* A defect: an item that was being processed is not recovered.
LeftoverIfStaged(it) == it.status = "STAGED"

Leftover(it) == it.status \in {"PROCESSING", "STAGED"}

\* todo are the rows read at the start of the phase; fails says that a failed commit marks its item.
Idle == [step |-> "idle", phase |-> "", run |-> None, retry |-> FALSE, todo |-> {}, file |-> 0,
         fails |-> FALSE]

-----------------------------------------------------------------------------
Item(c) == item[job[c].run][job[c].file]

SetItem(c, it) == item' = [item EXCEPT ![job[c].run][job[c].file] = it]

GoTo(c, step) == job' = [job EXCEPT ![c].step = step]

\* A defect: the file is let go and its next step is not.
AdvanceHalfway(j) == [j EXCEPT !.file = 0]

Advance(j) == [j EXCEPT !.step = "next", !.file = 0, !.fails = FALSE]

\* Done with one file, on to the next of the list.
NextFile(c) == job' = [job EXCEPT ![c] = Advance(@)]

Fail(c, code) == SetItem(c, [Item(c) EXCEPT !.status = "FAILED", !.error = code])

At(c, phase, step) == job[c].phase = phase /\ job[c].step = step

First(f, S) == f \in S /\ \A g \in S : f <= g

Applying == \E c \in Commands : job[c].phase \in {"recover", "apply"}

Init ==
  /\ record = [f \in Files |-> "source"]
  /\ referenced = Files
  /\ source = [f \in Files |-> "original"]
  /\ target = [f \in Files |-> "absent"]
  /\ item = [r \in Runs |-> [f \in Files |-> NoItem]]
  /\ job = [c \in Commands |-> Idle]
  /\ lock = None
  /\ request = [attach |-> {}, remove |-> {}]
  /\ faults = 0 /\ edits = 0

-----------------------------------------------------------------------------
(* The command starts and ends. *)

\* GET_LOCK does not wait: a command that finds the lock taken ends at once.
LockFree(c) == lock = None

Start(c, phase, run, retry, todo) ==
  /\ job[c] = Idle /\ LockFree(c)
  /\ lock' = c
  /\ job' = [job EXCEPT ![c] = [Idle EXCEPT !.step = "next", !.phase = phase, !.run = run,
                                            !.retry = retry, !.todo = todo]]
  /\ UNCHANGED <<server, disk, item, faults>>

\* An apply begins once the writes in flight are drained, with what its run left unfinished.
StartApply(c, run, retry) ==
  /\ request = [attach |-> {}, remove |-> {}]
  /\ Start(c, "recover", run, retry, {f \in Files : Leftover(item[run][f])})

StartCleanup(c, run) ==
  Start(c, "cleanup", run, FALSE,
        {f \in Files : /\ item[run][f].status = "COMMITTED" /\ item[run][f].due
                       /\ item[run][f].cleanup \in {"PENDING", "FAILED"}})

Leave(c) ==
  /\ job' = [job EXCEPT ![c] = Idle]
  /\ lock' = IF lock = c THEN None ELSE lock

End(c) ==
  /\ job[c].phase \in {"apply", "cleanup"} /\ job[c].step = "next" /\ job[c].todo = {}
  /\ Leave(c)
  /\ UNCHANGED <<server, disk, item, faults>>

\* The connection that holds the lock goes with the process.
Crash(c) ==
  /\ job[c] # Idle /\ faults < MaxFaults
  /\ faults' = faults + 1
  /\ Leave(c)
  /\ UNCHANGED <<server, disk, item>>

-----------------------------------------------------------------------------
(* Recovery: PROCESSING and STAGED items of the run. *)

Matches(object, it) == it.digest # "absent" /\ object = it.digest

\* What becomes of a leftover: one still PROCESSING is judged by the object under the new key.
RecoverItem(c, f, j) ==
  LET it == item[j.run][f]
      to(st, code) == item' = [item EXCEPT ![j.run][f] = [it EXCEPT !.status = st, !.error = code]]
      commit == job' = [job EXCEPT ![c] = [j EXCEPT !.step = "commit", !.file = f, !.fails = TRUE]]
      skip == job' = [job EXCEPT ![c] = j]
  IN \/ it.status = "STAGED" /\ commit /\ UNCHANGED item
     \/ it.status = "PROCESSING" /\ target[f] = "absent" /\ skip /\ to("PENDING", it.error)
     \/ /\ it.status = "PROCESSING" /\ target[f] # "absent" /\ it.digest = "absent"
        /\ skip /\ to("FAILED", "TARGET_HASH_MISMATCH")
     \/ /\ it.status = "PROCESSING" /\ target[f] # "absent" /\ it.digest # "absent"
        /\ IF Matches(target[f], it) THEN commit /\ to("STAGED", it.error)
                                     ELSE skip /\ to("PENDING", it.error)

Recover(c) ==
  /\ At(c, "recover", "next")
  /\ \E f \in Files : /\ First(f, job[c].todo)
                      /\ RecoverItem(c, f, [job[c] EXCEPT !.todo = @ \ {f}])
  /\ UNCHANGED <<server, disk, lock, faults>>

\* The candidates are read once; their old keys with them.
LoadCandidates(c) ==
  /\ At(c, "recover", "next") /\ job[c].todo = {}
  /\ job' = [job EXCEPT ![c].phase = "apply", ![c].todo = {f \in Files : record[f] = "source"}]
  /\ UNCHANGED <<server, disk, item, lock, faults>>

-----------------------------------------------------------------------------
(* Apply: one candidate after the other. *)

\* A defect: the items of other runs are not looked at.
OtherRunIgnored(run, f) == FALSE

OtherRunUnresolved(run, f) == \E r \in Runs \ {run} : item[r][f].status \in Unresolved

\* An image of a product, or the cover of one that is not deleted.
IsReferenced(f) == f \in referenced

Begun(it) == [it EXCEPT !.status = "PROCESSING", !.error = "", !.cleanup = "NOT_SCHEDULED"]

Skips(c, f) ==
  \/ ~IsReferenced(f)
  \/ item[job[c].run][f].status = "COMMITTED"
  \/ item[job[c].run][f].status = "FAILED" /\ ~job[c].retry
  \/ ~Leftover(item[job[c].run][f]) /\ source[f] = "absent"

\* Skip the file, stop at another run's unfinished item, recover it or begin to process it.
TakeCandidate(c) ==
  /\ At(c, "apply", "next")
  /\ \E f \in Files :
       LET run == job[c].run
           rest == [job[c] EXCEPT !.todo = @ \ {f}]
       IN /\ First(f, job[c].todo)
          /\ \/ /\ IsReferenced(f) /\ OtherRunUnresolved(run, f)
                /\ Leave(c) /\ UNCHANGED item
             \/ /\ ~(IsReferenced(f) /\ OtherRunUnresolved(run, f)) /\ Skips(c, f)
                /\ job' = [job EXCEPT ![c] = rest] /\ UNCHANGED <<item, lock>>
             \/ /\ ~OtherRunUnresolved(run, f) /\ ~Skips(c, f) /\ Leftover(item[run][f])
                /\ RecoverItem(c, f, rest) /\ UNCHANGED lock
             \/ /\ ~OtherRunUnresolved(run, f) /\ ~Skips(c, f) /\ ~Leftover(item[run][f])
                /\ item' = [item EXCEPT ![run][f] = Begun(@)]
                /\ job' = [job EXCEPT ![c] = [rest EXCEPT !.step = "process", !.file = f]]
                /\ UNCHANGED lock
  /\ UNCHANGED <<server, disk, faults>>

Process(c) ==
  /\ At(c, "apply", "process")
  /\ \/ GoTo(c, "publish") /\ UNCHANGED item
     \/ NextFile(c) /\ Fail(c, "PROCESS_FAILED")
  /\ UNCHANGED <<server, disk, lock, faults>>

SetTarget(c, content) ==
  target' = [target EXCEPT ![job[c].file] = content] /\ UNCHANGED source

\* A hard link puts the finished object in place. Where links fail the object is created in
\* place and written there; either way an object that is there already is left alone.
Publish(c) ==
  /\ At(c, "apply", "publish")
  /\ \/ target[job[c].file] # "absent" /\ NextFile(c) /\ Fail(c, "TARGET_CONFLICT") /\ UNCHANGED disk
     \/ target[job[c].file] = "absent" /\ GoTo(c, "stage") /\ SetTarget(c, "output") /\ UNCHANGED item
     \/ target[job[c].file] = "absent" /\ GoTo(c, "write") /\ SetTarget(c, "other") /\ UNCHANGED item
  /\ UNCHANGED <<server, lock, faults>>

WriteInPlace(c) ==
  /\ At(c, "apply", "write")
  /\ \/ GoTo(c, "stage") /\ SetTarget(c, "output") /\ UNCHANGED item
     \/ NextFile(c) /\ SetTarget(c, "absent") /\ Fail(c, "TARGET_CONFLICT")
  /\ UNCHANGED <<server, lock, faults>>

\* The ledger learns both digests. If that fails the item stays as it is.
Stage(c) ==
  /\ At(c, "apply", "stage")
  /\ \/ /\ SetItem(c, [Item(c) EXCEPT !.status = "STAGED", !.error = "", !.digest = "output",
                                      !.cleanup = "NOT_SCHEDULED"])
        /\ GoTo(c, "commit")
     \/ NextFile(c) /\ UNCHANGED item
  /\ UNCHANGED <<server, disk, lock, faults>>

\* A defect: the row moves and the ledger is to follow later.
CommittedLater(it) == it

\* A defect: the clean-up is not scheduled.
CommittedUnscheduled(it) == [it EXCEPT !.status = "COMMITTED"]

Committed(it) ==
  [it EXCEPT !.status = "COMMITTED", !.error = "", !.cleanup = "PENDING", !.due = FALSE]

\* Rows may be switched only with both objects in the state the ledger says.
Committable(f, it) ==
  /\ Matches(target[f], it)
  /\ record[f] = "source" => source[f] = "original"
  /\ record[f] # "deleted"

\* An error of the commit marks the item only during recovery; an error of the mark is ignored.
CommitError(c) ==
  \/ ~job[c].fails /\ UNCHANGED <<item, faults>>
  \/ job[c].fails /\ Fail(c, "STAGED_RECOVERY_FAILED") /\ UNCHANGED faults
  \/ job[c].fails /\ faults < MaxFaults /\ faults' = faults + 1 /\ UNCHANGED item

\* One transaction switches the row and closes the item. It may fail, and it may commit
\* without the command being told so.
Commit(c) ==
  LET f == job[c].file
      switched == record' = [record EXCEPT ![f] = "target"]
      closed == Committed(Item(c))
      unheard == IF job[c].fails
                 THEN [closed EXCEPT !.status = "FAILED", !.error = "STAGED_RECOVERY_FAILED"]
                 ELSE closed
  IN /\ job[c].step = "commit"
     /\ \/ Committable(f, Item(c)) /\ switched /\ SetItem(c, closed) /\ UNCHANGED faults
        \/ Committable(f, Item(c)) /\ switched /\ SetItem(c, unheard) /\ UNCHANGED faults
        \/ UNCHANGED record /\ CommitError(c)
     /\ NextFile(c)
     /\ UNCHANGED <<disk, referenced, request, edits, lock>>

-----------------------------------------------------------------------------
(* Clean-up, a day or more after the switch. *)

Mark(c, status) == SetItem(c, [Item(c) EXCEPT !.cleanup = status])

\* A defect: the new object is not looked at before the old one goes.
MayRemoveSourceUnlooked(f, it) == record[f] = "target"

\* The row has moved and the object it names is the one the ledger describes.
MayRemoveSource(f, it) == record[f] = "target" /\ Matches(target[f], it)

\* The row of the file is read; what is removed afterwards depends on it.
Inspect(c) ==
  /\ At(c, "cleanup", "next")
  /\ \E f \in Files :
       LET j == [job[c] EXCEPT !.todo = @ \ {f}, !.file = f]
           it == item[j.run][f]
           give_up == item' = [item EXCEPT ![j.run][f].cleanup = "FAILED"]
       IN /\ First(f, job[c].todo)
          /\ \/ /\ MayRemoveSource(f, it)
                /\ job' = [job EXCEPT ![c] = [j EXCEPT !.step = "source"]] /\ UNCHANGED item
             \/ /\ record[f] # "deleted" /\ ~MayRemoveSource(f, it)
                /\ job' = [job EXCEPT ![c] = Advance(j)] /\ give_up
             \/ /\ record[f] = "deleted"
                /\ job' = [job EXCEPT ![c] = [j EXCEPT !.step = "references"]] /\ UNCHANGED item
  /\ UNCHANGED <<server, disk, lock, faults>>

\* A file without a row: both objects go, unless something still refers to it.
CountReferences(c) ==
  /\ At(c, "cleanup", "references")
  /\ \/ IsReferenced(job[c].file) /\ NextFile(c) /\ Mark(c, "FAILED")
     \/ ~IsReferenced(job[c].file) /\ GoTo(c, "both") /\ UNCHANGED item
  /\ UNCHANGED <<server, disk, lock, faults>>

RemoveSource(c) ==
  LET f == job[c].file
  IN /\ At(c, "cleanup", "source") \/ At(c, "cleanup", "both")
     /\ source' = [source EXCEPT ![f] = "absent"]
     /\ GoTo(c, IF job[c].step = "both" THEN "target" ELSE "done")
     /\ UNCHANGED <<server, target, item, lock, faults>>

RemoveTarget(c) ==
  LET f == job[c].file
  IN /\ At(c, "cleanup", "target")
     /\ \/ /\ target[f] = "absent" \/ Matches(target[f], Item(c))
           /\ SetTarget(c, "absent") /\ GoTo(c, "done") /\ UNCHANGED item
        \/ /\ target[f] # "absent" /\ ~Matches(target[f], Item(c))
           /\ NextFile(c) /\ Mark(c, "FAILED") /\ UNCHANGED disk
     /\ UNCHANGED <<server, lock, faults>>

CleanupDone(c) ==
  /\ At(c, "cleanup", "done")
  /\ NextFile(c) /\ Mark(c, "DONE")
  /\ UNCHANGED <<server, disk, lock, faults>>

-----------------------------------------------------------------------------
(* The server and the world around the command. *)

\* A product is deleted that alone refers to the file; its objects are removed after the commit.
DeleteProduct(f) ==
  /\ ~Applying /\ f \in referenced /\ record[f] # "deleted"
  /\ record' = [record EXCEPT ![f] = "deleted"]
  /\ referenced' = referenced \ {f}
  /\ request' = [request EXCEPT !.remove = @ \cup {<<f, record[f]>>}]
  /\ UNCHANGED <<disk, item, job, lock, faults, edits>>

RemoveObject(f, key) ==
  /\ <<f, key>> \in request.remove
  /\ request' = [request EXCEPT !.remove = @ \ {<<f, key>>}]
  /\ IF key = "source" THEN source' = [source EXCEPT ![f] = "absent"] /\ UNCHANGED target
                       ELSE target' = [target EXCEPT ![f] = "absent"] /\ UNCHANGED source
  /\ UNCHANGED <<record, referenced, edits, item, job, lock, faults>>

\* The server dies between the commit and the removal.
ForgetObject(f, key) ==
  /\ <<f, key>> \in request.remove
  /\ request' = [request EXCEPT !.remove = @ \ {<<f, key>>}]
  /\ UNCHANGED <<record, referenced, edits, disk, item, job, lock, faults>>

\* The last product that shows the image drops it.
Detach(f) ==
  /\ ~Applying /\ f \in referenced
  /\ referenced' = referenced \ {f}
  /\ UNCHANGED <<record, request, edits, disk, item, job, lock, faults>>

\* An edit uses the image, also one that a product shows: it finds the row, then refers to it.
FindImage(f) ==
  /\ ~Applying /\ record[f] # "deleted" /\ edits < MaxEdits
  /\ edits' = edits + 1
  /\ request' = [request EXCEPT !.attach = @ \cup {f}]
  /\ UNCHANGED <<record, referenced, disk, item, job, lock, faults>>

Attach(f) ==
  /\ f \in request.attach
  /\ referenced' = referenced \cup {f}
  /\ request' = [request EXCEPT !.attach = @ \ {f}]
  /\ UNCHANGED <<record, edits, disk, item, job, lock, faults>>

\* Between commands somebody or something may spoil an object nothing can restore but its source.
Damage(f) ==
  /\ lock = None /\ target[f] = "output" /\ source[f] = "original"
  /\ target' = [target EXCEPT ![f] = "other"]
  /\ UNCHANGED <<server, source, item, job, lock, faults>>

DayPasses ==
  /\ item' = [r \in Runs |-> [f \in Files |->
                [item[r][f] EXCEPT !.due = (item[r][f].status = "COMMITTED")]]]
  /\ UNCHANGED <<server, disk, job, lock, faults>>

-----------------------------------------------------------------------------
Work(c) ==
  \/ Recover(c) \/ LoadCandidates(c) \/ TakeCandidate(c) \/ Process(c) \/ Publish(c)
  \/ WriteInPlace(c) \/ Stage(c) \/ Commit(c) \/ End(c)
  \/ Inspect(c) \/ CountReferences(c) \/ RemoveSource(c) \/ RemoveTarget(c) \/ CleanupDone(c)

Serve(f) ==
  \/ DeleteProduct(f) \/ Detach(f) \/ FindImage(f) \/ Attach(f)
  \/ \E key \in Keys : RemoveObject(f, key) \/ ForgetObject(f, key)

Next ==
  \/ \E c \in Commands, r \in Runs :
       StartCleanup(c, r) \/ \E retry \in BOOLEAN : StartApply(c, r, retry)
  \/ \E c \in Commands : Work(c) \/ Crash(c)
  \/ \E f \in Files : Serve(f) \/ Damage(f)
  \/ DayPasses

SafetySpec == Init /\ [][Next]_vars

\* A command that runs goes on, the server ends its requests, and the operator starts the apply
\* and the clean-up of every run again until nothing is left to do.
Fairness ==
  /\ \A c \in Commands : WF_vars(Work(c))
  /\ \A f \in Files :
       /\ WF_vars(Attach(f))
       /\ WF_vars(\E key \in Keys : RemoveObject(f, key) \/ ForgetObject(f, key))
  /\ WF_vars(DayPasses)
  /\ \A r \in Runs :
       /\ SF_vars(\E c \in Commands : StartApply(c, r, FALSE))
       /\ SF_vars(\E c \in Commands : StartCleanup(c, r))

Spec == SafetySpec /\ Fairness

-----------------------------------------------------------------------------
(* Properties. *)

TypeOK ==
  /\ record \in [Files -> Keys]
  /\ referenced \subseteq Files
  /\ source \in [Files -> Contents] /\ target \in [Files -> Contents]
  /\ item \in [Runs -> [Files -> [status : Statuses, error : ErrorCodes, digest : Contents,
                                  cleanup : CleanupStatuses, due : BOOLEAN]]]
  /\ \A c \in Commands :
       /\ job[c].todo \subseteq Files
       /\ job[c] # Idle => job[c].run \in Runs
       /\ job[c].step \notin {"idle", "next"} => job[c].file \in Files
  /\ lock \in Commands \cup {None}
  /\ request \in [attach : SUBSET Files, remove : SUBSET (Files \X Keys)]
  /\ faults \in 0..MaxFaults /\ edits \in 0..MaxEdits

\* Whatever dies, fails or is spoiled between commands: the object a row names is there, or the
\* one it was made from still is (runApply, runCleanup, handleDeleteProduct).
KeepsACopy ==
  \A f \in Files :
    /\ record[f] = "source" => source[f] = "original"
    /\ record[f] = "target" => target[f] = "output" \/ source[f] = "original"

\* The ledger tells what happened: a closed item has moved its row, a row moves only with an
\* item that schedules the clean-up, and an item that is cleaned up has no old object left.
LedgerIsTrue ==
  /\ \A r \in Runs, f \in Files :
       /\ item[r][f].status = "COMMITTED" => record[f] # "source"
       /\ item[r][f].cleanup = "DONE" => source[f] = "absent"
  /\ \A f \in Files : record[f] = "target" =>
       \E r \in Runs : /\ item[r][f].status \in {"COMMITTED", "FAILED"}
                       /\ item[r][f].cleanup # "NOT_SCHEDULED"
                       /\ item[r][f].digest = "output"

\* A file is the business of one run for ever, whatever two operators start and whenever their
\* commands die (ensureNoUnresolvedOtherRunItem under the lock of the database).
OneRunPerFile ==
  \A f \in Files, r, s \in Runs : item[r][f].status # "none" /\ item[s][f].status # "none" => r = s

\* What a dead command left behind is closed, failed or taken up again (recoverApplyItems).
LeftoversSettle ==
  \A r \in Runs, f \in Files :
    item[r][f].status \in {"PROCESSING", "STAGED"} ~>
      item[r][f].status \in {"PENDING", "COMMITTED", "FAILED"}

\* The old object of a closed item is removed in the end, unless the new one is spoiled or a
\* product refers to a file whose row is gone (runCleanup).
CleanupConverges ==
  \A r \in Runs, f \in Files :
    item[r][f].status = "COMMITTED" ~>
      \/ item[r][f].cleanup = "DONE"
      \/ target[f] = "other"
      \/ record[f] = "deleted" /\ f \in referenced

=============================================================================
