-------------------------- MODULE PackageTransaction --------------------------
(****************************************************************************)
(* The swap a package command makes in a project (src/package/              *)
(* transaction.rs): the files of the project, their backups, the marker     *)
(* that says a swap is under way, and the directories that are synced.      *)
(*                                                                          *)
(* A package command is a sequence of steps, each one system call, run      *)
(* under the exclusive lock that Project::open takes; a step may fail, the  *)
(* process may be killed between any two, and the machine may lose power.   *)
(* What survives a loss of power is what was synced: each object below      *)
(* keeps the states it went through since, and any of them may be the one   *)
(* found on the disk.  A rename is one step of the file system, on the disk *)
(* too.  A content is a number: the command that wrote it.                  *)
(****************************************************************************)
EXTENDS Integers, Sequences, SequencesExt

CONSTANT MaxCommands   \* bound: package commands that get to work

ASSUME PackageTransactionAssumption == MaxCommands \in Nat

Absent == 0
Torn == -1             \* a file half written, a directory half removed
Original == 1          \* what the project held before the first command
Contents == {Absent, Torn} \cup 1 .. (MaxCommands + 1)

\* TransactionPaths::artifacts, in order
artifacts == <<"packages", "autoload", "lock", "manifest", "state">>
Artifact == {"packages", "autoload", "lock", "manifest", "state"}
Object == Artifact \cup {"marker", "stage"}

\* The directory that holds an object; a backup lives in the manager directory.
home(o) ==
  CASE o \in {"packages", "autoload"} -> "vendor"
    [] o \in {"lock", "manifest"}     -> "project"
    [] o \in {"state", "marker"}      -> "manager"
    [] o = "stage"                    -> "stages"

VARIABLES
  found,      \* of each object, its states since the one last synced
  todo,       \* the steps the command has yet to take
  previous,   \* Transaction::previous
  commands,   \* commands that got to work so far
  before,     \* the contents of the project when the last of them started,
  after,      \* and those it is to install
  outcome     \* how the last command ended

vars == <<found, todo, previous, commands, before, after, outcome>>

running == todo # <<>>
changesManifest == after["manifest"] # before["manifest"]
now(o) == Last(found[o])
exists(o) == now(o).current # Absent
marked == exists("marker")

Init ==
  /\ \E there \in SUBSET Artifact :
       /\ "manifest" \in there
       /\ found = [o \in Object |->
                     <<[current |-> IF o \in there THEN Original ELSE Absent,
                        backup |-> Absent]>>]
       /\ before = [a \in Artifact |-> IF a \in there THEN Original ELSE Absent]
  /\ after = before
  /\ todo = <<>>
  /\ previous = {}
  /\ commands = 0
  /\ outcome = "none"

------------------------------------------------------------------------------
\* A step: what it does, to what, and where its failure leads.
step(does, what, fails) == [does |-> does, what |-> what, fails |-> fails]
each(does, fails) == [i \in DOMAIN artifacts |-> step(does, artifacts[i], fails)]
syncs(directories, fails) ==
  [i \in DOMAIN directories |-> step("sync", directories[i], fails)]
when(condition, steps) == IF condition THEN steps ELSE <<>>

\* prepare once the project is consistent, and the staging of the packages.
prepare ==
  each("removeBackup", "abort")
    \o <<step("remove", "stage", "abort"), step("create", "stage", "abort")>>

back_up == each("back_up", "restore")

\* Nothing is synced between the swap and the removal of the marker.
applyUnsynced(changes_manifest) ==
  back_up
    \o <<step("install", "packages", "restore"), step("install", "autoload", "restore"),
         step("write", "lock", "restore")>>
    \o when(changes_manifest, <<step("install", "manifest", "restore")>>)
    \o <<step("write", "state", "restore")>>

apply(changes_manifest) ==
  back_up
    \o syncs(<<"vendor", "project", "manager">>, "restore")
    \o <<step("install", "packages", "restore"), step("install", "autoload", "restore")>>
    \o syncs(<<"vendor", "project">>, "restore")
    \o <<step("write", "lock", "restore")>>
    \o when(changes_manifest, <<step("install", "manifest", "restore")>>)
    \o <<step("write", "state", "restore")>>
    \o syncs(<<"vendor", "project", "manager">>, "restore")

\* The marker is written and its removal takes effect, but neither is synced.
commitUnsynced(changes_manifest) ==
  <<step("new", "previous", "abort"), step("create", "marker", "dropStage")>>
    \o apply(changes_manifest)
    \o <<step("remove", "marker", "restore")>>
    \o each("removeBackup", "ignore")
    \o <<step("return", "ok", "ignore")>>

\* The backups go while the marker is still there.
commitCleansFirst(changes_manifest) ==
  <<step("new", "previous", "abort"), step("create", "marker", "dropStage")>>
    \o syncs(<<"manager">>, "abort")
    \o apply(changes_manifest)
    \o each("removeBackup", "ignore")
    \o <<step("remove", "marker", "restore")>>
    \o syncs(<<"manager">>, "late")
    \o <<step("return", "ok", "ignore")>>

\* commit; a step that fails "late" comes after the one that commits.
commit(changes_manifest) ==
  when(changes_manifest, <<step("writeStaged", "manifest", "dropStage")>>)
    \o <<step("new", "previous", "abort"),
         step("create", "marker", "dropStage"),
         step("syncFile", "marker", "dropStage")>>
    \o syncs(<<"manager">>, "abort")
    \o apply(changes_manifest)
    \o <<step("remove", "marker", "restore")>>
    \o syncs(<<"manager">>, "late")
    \o each("removeBackup", "ignore")
    \o <<step("remove", "stage", "ignore")>>
    \o syncs(<<"project", "manager">>, "late")
    \o <<step("return", "ok", "ignore")>>

restore(changes_manifest) ==
  SelectSeq(each("restore", "rollback"),
            LAMBDA s : s.what # "manifest" \/ changes_manifest)
    \o syncs(<<"vendor", "project", "manager">>, "rollback")
    \o <<step("remove", "marker", "rollback")>>
    \o syncs(<<"manager">>, "rollback")
    \o <<step("remove", "stage", "ignore"), step("return", "error", "ignore")>>

------------------------------------------------------------------------------
\* The object goes to a new state, and the command to its next steps.
becomes(o, state, next) ==
  /\ found' = [found EXCEPT ![o] = IF state = Last(@) THEN @ ELSE Append(@, state)]
  /\ todo' = next
  /\ UNCHANGED <<previous, commands, before, after, outcome>>

goesOn(next) ==
  /\ todo' = next
  /\ UNCHANGED <<found, previous, commands, before, after, outcome>>

ends(how) ==
  /\ todo' = <<>>
  /\ outcome' = how
  /\ UNCHANGED <<found, previous, commands, before, after>>

\* The step at hand, what it is applied to, and what is left to do after it.
doing(does) == running /\ Head(todo).does = does
what == Head(todo).what
rest == Tail(todo)

\* remove_path: a directory goes file by file, so that it is first half removed.
half(o, content) == o = "packages" /\ content \notin {Absent, Torn}

removeBackup ==
  /\ doing("removeBackup")
  /\ IF half(what, now(what).backup)
     THEN becomes(what, [now(what) EXCEPT !.backup = Torn], todo)
     ELSE becomes(what, [now(what) EXCEPT !.backup = Absent], rest)

remove ==
  /\ doing("remove")
  /\ IF half(what, now(what).current)
     THEN becomes(what, [now(what) EXCEPT !.current = Torn], todo)
     ELSE becomes(what, [now(what) EXCEPT !.current = Absent], rest)

\* create_stage, and the creation of the marker
create ==
  /\ doing("create")
  /\ becomes(what, [now(what) EXCEPT !.current = Original], rest)

\* Steps that change nothing a later command sees.
writeStaged == (doing("writeStaged") \/ doing("syncFile")) /\ goesOn(rest)

\* Transaction::new
newTransaction ==
  /\ doing("new")
  /\ previous' = {a \in Artifact :
                    /\ a # "manifest" \/ changesManifest
                    /\ exists(a)}
  /\ todo' = rest
  /\ UNCHANGED <<found, commands, before, after, outcome>>

\* One round of back_up: the manifest is linked, the others move.
backUp ==
  /\ doing("back_up")
  /\ IF what \in previous
     THEN becomes(what, [current |-> IF what = "manifest" THEN now(what).current ELSE Absent,
                         backup |-> now(what).current], rest)
     ELSE goesOn(rest)

\* A staged artifact moves into place.
install ==
  /\ doing("install")
  /\ becomes(what, [now(what) EXCEPT !.current = after[what]], rest)

\* write_file: create, write, sync the file; state::write ends in it.
write ==
  /\ doing("write")
  /\ IF now(what).current # Torn
     THEN becomes(what, [now(what) EXCEPT !.current = Torn], todo)
     ELSE /\ found' = [found EXCEPT ![what] =
                         Append(Front(@), [Last(@) EXCEPT !.current = after[what]])]
          /\ todo' = rest
          /\ UNCHANGED <<previous, commands, before, after, outcome>>

\* Only what has a backup is put right.
restoreBackupsOnly ==
  /\ doing("restore")
  /\ IF now(what).backup # Absent
     THEN goesOn(<<step("remove", what, "rollback"), step("moveBack", what, "rollback")>> \o rest)
     ELSE goesOn(rest)

\* One round of restore: remove what is there and move the backup back, or
\* remove what the transaction brought, or leave what it has not touched.
restoreOne ==
  /\ doing("restore")
  /\ LET clear == <<step("remove", what, "rollback")>>
         back == <<step("moveBack", what, "rollback")>>
     IN \/ now(what).backup # Absent /\ goesOn(clear \o back \o rest)
        \/ now(what).backup = Absent /\ what \notin previous /\ goesOn(clear \o rest)
        \/ now(what).backup = Absent /\ what \in previous /\ goesOn(rest)

moveBack ==
  /\ doing("moveBack")
  /\ becomes(what, [current |-> now(what).backup, backup |-> Absent], rest)

returns == doing("return") /\ ends(what)

\* The index of the last state of o that changed an entry of the directory.
lastTouch(o, directory) ==
  Max({1} \cup {i \in 2 .. Len(found[o]) :
         \/ home(o) = directory /\ found[o][i].current # found[o][i - 1].current
         \/ directory = "manager" /\ found[o][i].backup # found[o][i - 1].backup})

\* The state that was synced is forgotten with the earlier ones.
syncForgets(directory) ==
  [o \in Object |-> SubSeq(found[o], lastTouch(o, directory) + 1, Len(found[o]))]

\* sync_directory: the entries of the directory are on the disk, and with a
\* rename its other end.
synced(directory) ==
  [o \in Object |-> SubSeq(found[o], lastTouch(o, directory), Len(found[o]))]

sync ==
  /\ doing("sync")
  /\ found' = synced(what)
  /\ todo' = rest
  /\ UNCHANGED <<previous, commands, before, after, outcome>>

------------------------------------------------------------------------------
\* A package command takes the lock and, in prepare, asks for the marker: if it
\* is there the command changes nothing.
start ==
  /\ ~running /\ ~marked
  /\ commands < MaxCommands
  /\ \E changes_manifest \in BOOLEAN :
       /\ after' = [a \in Artifact |-> IF a = "manifest" /\ ~changes_manifest
                                       THEN now(a).current ELSE commands + 2]
       /\ todo' = prepare \o commit(changes_manifest)
  /\ before' = [a \in Artifact |-> now(a).current]
  /\ commands' = commands + 1
  /\ outcome' = "none"
  /\ UNCHANGED <<found, previous>>

\* The step at hand fails; what it had begun stays.
fail ==
  /\ running /\ Head(todo).does # "return"
  /\ LET dropStage == <<step("remove", "stage", "ignore"), step("return", "error", "ignore")>>
     IN CASE Head(todo).fails = "ignore"    -> goesOn(rest)
          [] Head(todo).fails = "dropStage" -> goesOn(dropStage)
          [] Head(todo).fails = "restore"   -> goesOn(restore(changesManifest))
          [] Head(todo).fails = "abort"     -> ends("error")
          [] Head(todo).fails = "rollback"  -> ends("rollback")
          [] Head(todo).fails = "late"      -> ends("late")

\* The process is killed; the system keeps the files and drops its lock.
kill == running /\ ends("killed")

survivors(o) == {<<found[o][i]>> : i \in DOMAIN found[o]}

\* The machine stops: of each object any state since the synced one is found.
powerLoss ==
  /\ \E o \in Object : Len(found[o]) > 1
  /\ \E p \in survivors("packages"), a \in survivors("autoload"), l \in survivors("lock"),
        m \in survivors("manifest"), s \in survivors("state"),
        k \in survivors("marker"), t \in survivors("stage") :
       found' = [packages |-> p, autoload |-> a, lock |-> l, manifest |-> m, state |-> s,
                 marker |-> k, stage |-> t]
  /\ todo' = <<>>
  /\ outcome' = IF running THEN "killed" ELSE outcome
  /\ UNCHANGED <<previous, commands, before, after>>

Step ==
  \/ removeBackup \/ remove \/ create \/ writeStaged \/ newTransaction \/ backUp
  \/ install \/ write \/ restoreOne \/ moveBack \/ sync \/ returns

Next == start \/ Step \/ fail \/ kill \/ powerLoss

Spec == Init /\ [][Next]_vars

------------------------------------------------------------------------------
States == [current : Contents, backup : Contents]

TypeOK ==
  /\ DOMAIN found = Object
  /\ \A o \in Object : found[o] \in Seq(States) /\ found[o] # <<>>
  /\ \A i \in DOMAIN todo : todo[i].what \in Object \cup {"previous", "vendor", "project",
                                                         "manager", "ok", "error"}
  /\ previous \subseteq Artifact
  /\ commands \in 0 .. MaxCommands
  /\ before \in [Artifact -> Contents] /\ after \in [Artifact -> Contents]
  /\ outcome \in {"none", "ok", "error", "rollback", "late", "killed"}

project == [a \in Artifact |-> now(a).current]

\* "The next package command stops if it finds transaction.pending": when none
\* is found, and no command is at work, the project is the one from before the
\* last command or the one it installed, as a whole, whatever failed, was killed
\* or was lost with the power.
UnmarkedMeansWhole == ~running /\ ~marked => project \in {before, after}

\* While the marker is there the project of before can be had back: nothing of
\* it was touched, or each artifact is in its backup or, without one, in place.
\* No backup of an earlier command passes for one of this command.
MarkedMeansRecoverable ==
  marked =>
    \/ project = before
    \/ \A a \in Artifact :
         \/ now(a).backup = before[a]
         \/ now(a).backup = Absent /\ now(a).current = before[a]

\* Whatever failed, was killed or was lost with the power, the project is whole,
\* or it is marked and can be made whole.
WholeOrRecoverable == TypeOK /\ UnmarkedMeansWhole /\ MarkedMeansRecoverable

\* A command that reported success has installed its project for good: no loss
\* of power brings the marker or a part of the old project back.
SuccessIsDurable == outcome = "ok" => ~marked /\ project = after

\* A command that reports an error, other than one of its clean-up or of its
\* own restore, has left the project as it was.
FailureChangesNothing == outcome = "error" => project = before

\* What a command reports is true, and stays true through a loss of power.
ReportsAreTrue == SuccessIsDurable /\ FailureChangesNothing

==============================================================================
