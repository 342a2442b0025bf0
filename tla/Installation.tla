----------------------------- MODULE Installation -----------------------------
(***************************************************************************)
(* The Companion's per-user installation (companion/internal/installation  *)
(* and the lifecycle commands of cmd/s3deck-companion): a journal, the     *)
(* installation state, the login startup registration of the platform and  *)
(* the migrated data files change together, and a transaction that did not *)
(* remove its journal is rolled back by the next command.  The platform    *)
(* and the files may fail at any step; the command may be killed and the   *)
(* power lost between any two.                                             *)
(*                                                                         *)
(* One command at a time holds the lock of the installation root.  The     *)
(* journal and the state are files of one directory: a power loss keeps a  *)
(* prefix of the changes since its last sync.  The Companion itself runs   *)
(* beside, unless a command holds the single-instance lock.                *)
(***************************************************************************)
EXTENDS Naturals

CONSTANTS
    Versions, None,
    NumFiles,       \* migrationFiles, which are taken in order
    Platforms,      \* those of the adapters: "launchagent", "task_scheduler"
    MaxEdits        \* bound: changes of the data by the Companion

VARIABLES
    platform,
    root,           \* the installation root: [now, crash], contents [journal, state]
    reg,            \* the registration: [exe, enabled, marker]
    data,           \* each data file: [edit, by]
    op,             \* the command that holds the lock
    app,            \* the Companion runs and holds the single-instance lock
    gambled         \* ghost: a recovery acted on a journal that was never synced

Files == 1..NumFiles

vars == <<platform, root, reg, data, op, app, gambled>>

Idle == [cmd |-> None, pc |-> "idle", fenced |-> FALSE]

Unregistered == [exe |-> None, enabled |-> FALSE, marker |-> FALSE]

Init ==
    /\ platform \in Platforms
    /\ LET empty == [journal |-> None, state |-> None] IN
       root = [now |-> empty, crash |-> {empty}]
    /\ reg = Unregistered
    /\ data = [f \in Files |-> [edit |-> 0, by |-> None]]
    /\ op = Idle /\ app = FALSE /\ gambled = FALSE

-----------------------------------------------------------------------------
\* The root directory.  Outcomes are [root, ok].

\* protectedfile.Replace of one file: not done, renamed, renamed and synced with
\* a failing last check, done.
Write(field, value) ==
    LET next == [root.now EXCEPT ![field] = value]
        synced == [now |-> next, crash |-> {next}]
    IN {[root |-> root, ok |-> FALSE],
        [root |-> [now |-> next, crash |-> root.crash \union {next}], ok |-> FALSE],
        [root |-> synced, ok |-> FALSE],
        [root |-> synced, ok |-> TRUE]}

\* os.Remove, which nothing syncs.
Unlink(field) ==
    LET next == [root.now EXCEPT ![field] = None] IN
    {[root |-> root, ok |-> FALSE],
     [root |-> [now |-> next, crash |-> root.crash \union {next}], ok |-> TRUE]}

-----------------------------------------------------------------------------
\* The platform adapters.  Outcomes are [reg, ok].

Done(r) == {[reg |-> r, ok |-> TRUE]}
Failed(regs) == {[reg |-> r, ok |-> FALSE] : r \in regs}

\* The startup registration is put in place, disabled.  The LaunchAgent is taken
\* out before its template is replaced.  A task is replaced at once, and taken
\* back, or not, when the rest fails: the removal of its definition, the marker.
Configure(v) ==
    IF platform = "launchagent"
    THEN LET new == [exe |-> v, enabled |-> FALSE, marker |-> FALSE] IN
         Done(new) \union Failed({reg, [reg EXCEPT !.enabled = FALSE], new})
    ELSE LET new == [reg EXCEPT !.exe = v, !.enabled = FALSE]
             gone == [reg EXCEPT !.exe = None, !.enabled = FALSE]
         IN Done([new EXCEPT !.marker = TRUE])
            \union Failed({reg, new, gone, [new EXCEPT !.marker = TRUE],
                           [gone EXCEPT !.marker = TRUE]})

SetEnabled(enabled) ==
    IF reg.exe = None
    THEN IF platform = "launchagent" /\ ~enabled THEN Done(reg) \union Failed({reg})
         ELSE Failed({reg})
    ELSE Done([reg EXCEPT !.enabled = enabled])
         \union Failed({reg, [reg EXCEPT !.enabled = FALSE], [reg EXCEPT !.enabled = enabled]})

\* With a marker in place a task that cannot be deleted is an error; without one
\* the task counts as absent when it cannot be queried either.
Remove ==
    IF platform = "launchagent"
    THEN Done(Unregistered) \union Failed({reg, [reg EXCEPT !.enabled = FALSE]})
    ELSE LET gone == [reg EXCEPT !.exe = None, !.enabled = FALSE] IN
         UNION {Failed({reg}),
                IF reg.exe # None THEN Failed({gone}) \union Done(Unregistered) ELSE {},
                IF reg.marker THEN {} ELSE Done(reg)}

-----------------------------------------------------------------------------
\* The lifecycle commands.  An installation takes both fences; the others do so
\* only when there is a journal to recover.

Commands == {"install", "uninstall", "enable", "disable", "status"}

Begin ==
    /\ op = Idle
    /\ \E cmd \in Commands :
       \E v \in IF cmd = "install" THEN Versions ELSE {None} :
         LET fenced == cmd = "install" \/ root.now.journal # None IN
         /\ fenced => ~app
         /\ op' = [cmd |-> cmd, pc |-> IF fenced THEN "open" ELSE "run",
                   fenced |-> fenced, version |-> v]
    /\ UNCHANGED <<platform, root, reg, data, app, gambled>>

End == op' = Idle

Goto(pc) == op' = [op EXCEPT !.pc = pc]

\* The transaction's journal is in the command's hands and its steps to take.
Enter(pc, journal) ==
    op' = [cmd |-> op.cmd, pc |-> pc, fenced |-> op.fenced, version |-> op.version,
           journal |-> journal, file |-> 1, failed |-> FALSE, recovering |-> FALSE]

\* rollback: the data first, if the journal says so.
EnterRollback(journal, recovering) ==
    op' = [cmd |-> op.cmd, pc |-> IF journal.restore THEN "restore" ELSE "unregister",
           fenced |-> op.fenced, version |-> op.version, journal |-> journal,
           file |-> 1, failed |-> FALSE, recovering |-> recovering]

Rollback == EnterRollback(op.journal, FALSE)

\* recover, or an error in reading the journal.
Recover ==
    /\ op.pc = "open"
    /\ \/ root.now.journal = None /\ Goto("run")
       \/ root.now.journal # None /\ EnterRollback(root.now.journal, TRUE)
       \/ root.now.journal # None /\ End
    /\ gambled' = (gambled \/ (root.now.journal # None /\ \E c \in root.crash : c.journal = None))
    /\ UNCHANGED <<platform, root, reg, data, app>>

\* The journal an operation writes and its next step, if it has something to do.
Plan ==
    LET state == root.now.state
        journal(restore, reconfigure, next) ==
            [restore |-> restore, reconfigure |-> reconfigure, prior |-> state,
             backup |-> IF restore THEN data ELSE None, next |-> next]
    IN CASE op.cmd = "install" ->
              {[pc |-> "migrate",
                journal |-> journal(TRUE, TRUE, [version |-> op.version, enabled |-> FALSE])]}
         [] op.cmd = "uninstall" /\ state # None ->
              {[pc |-> "remove", journal |-> journal(FALSE, TRUE, state)]}
         [] op.cmd \in {"enable", "disable"} /\ state # None
              /\ state.enabled # (op.cmd = "enable") ->
              {[pc |-> "enable",
                journal |-> journal(FALSE, FALSE, [state EXCEPT !.enabled = ~@])]}
         [] OTHER -> {}

\* Mutant of WriteJournal: the transaction begins whatever was reported.
WriteJournalUnchecked ==
    /\ op.pc = "run"
    /\ \E p \in Plan : \E out \in Write("journal", p.journal) :
         /\ root' = out.root
         /\ Enter(p.pc, p.journal)
    /\ UNCHANGED <<platform, reg, data, app, gambled>>

\* A journal that could not be confirmed ends the operation where it is, without
\* a rollback.
WriteJournal ==
    /\ op.pc = "run"
    /\ \E p \in Plan : \E out \in Write("journal", p.journal) :
         /\ root' = out.root
         /\ IF out.ok THEN Enter(p.pc, p.journal) ELSE End
    /\ UNCHANGED <<platform, reg, data, app, gambled>>

\* Nothing to do, or an early refusal; an uninstall without a state still
\* removes the registration.
Return ==
    /\ op.pc = "run"
    /\ End
    /\ IF op.cmd = "uninstall" /\ root.now.state = None
       THEN \E out \in Remove : reg' = out.reg
       ELSE UNCHANGED reg
    /\ UNCHANGED <<platform, root, data, app, gambled>>

Step(ok, pc) == IF ok THEN Goto(pc) ELSE Rollback

\* Each store is opened, which brings its file to the new version.
Migrate ==
    /\ op.pc = "migrate"
    /\ \/ /\ op.file \in Files
          /\ data' = [data EXCEPT ![op.file].by = op.version]
          /\ op' = [op EXCEPT !.file = @ + 1]
       \/ op.file > NumFiles /\ Goto("configure") /\ UNCHANGED data
       \/ Rollback /\ UNCHANGED data
    /\ UNCHANGED <<platform, root, reg, app, gambled>>

ConfigureNext ==
    /\ op.pc = "configure"
    /\ \E out \in Configure(op.version) : reg' = out.reg /\ Step(out.ok, "state")
    /\ UNCHANGED <<platform, root, data, app, gambled>>

WriteState ==
    /\ op.pc = "state"
    /\ \E out \in Write("state", op.journal.next) : root' = out.root /\ Step(out.ok, "enable")
    /\ UNCHANGED <<platform, reg, data, app, gambled>>

\* Apply enables what it installed; SetEnabled enables or disables.
Enabling == op.cmd # "disable"

Enable ==
    /\ op.pc = "enable"
    /\ \E out \in SetEnabled(Enabling) : reg' = out.reg /\ Step(out.ok, "enabled")
    /\ UNCHANGED <<platform, root, data, app, gambled>>

WriteEnabled ==
    /\ op.pc = "enabled"
    /\ \E out \in Write("state", [op.journal.next EXCEPT !.enabled = Enabling]) :
         root' = out.root /\ Step(out.ok, "commit")
    /\ UNCHANGED <<platform, reg, data, app, gambled>>

RemoveRegistration ==
    /\ op.pc = "remove"
    /\ \E out \in Remove : reg' = out.reg /\ Step(out.ok, "forget")
    /\ UNCHANGED <<platform, root, data, app, gambled>>

RemoveState ==
    /\ op.pc = "forget"
    /\ \E out \in Unlink("state") : root' = out.root /\ Step(out.ok, "commit")
    /\ UNCHANGED <<platform, reg, data, app, gambled>>

Commit ==
    /\ op.pc = "commit"
    /\ \E out \in Unlink("journal") : root' = out.root /\ IF out.ok THEN End ELSE Rollback
    /\ UNCHANGED <<platform, reg, data, app, gambled>>

-----------------------------------------------------------------------------
\* rollback: an error is remembered and the other parts are still restored.

Continue(ok, pc) == op' = [op EXCEPT !.pc = pc, !.failed = @ \/ ~ok]

Restore(f) == data' = [data EXCEPT ![f] = op.journal.backup[f]]

\* restoreMigrationSnapshot, file by file, up to the first error.
RestoreData ==
    /\ op.pc = "restore"
    /\ \/ /\ op.file \in Files
          /\ Restore(op.file)
          /\ op' = [op EXCEPT !.file = @ + 1]
       \/ op.file \in Files /\ Continue(FALSE, "unregister") /\ UNCHANGED data
       \/ op.file > NumFiles /\ Continue(TRUE, "unregister") /\ UNCHANGED data
    /\ UNCHANGED <<platform, root, reg, app, gambled>>

\* Back to the prior registration, or to none.
RestoreRegistration ==
    /\ op.pc = "unregister"
    /\ LET j == op.journal IN
       IF j.prior = None
       THEN \E out \in Remove : reg' = out.reg /\ Continue(out.ok, "restate")
       ELSE IF j.reconfigure
       THEN \E out \in Configure(j.prior.version) :
              reg' = out.reg /\ Continue(out.ok, IF out.ok THEN "reenable" ELSE "finish")
       ELSE Continue(TRUE, "reenable") /\ UNCHANGED reg
    /\ UNCHANGED <<platform, root, data, app, gambled>>

RestoreEnabled ==
    /\ op.pc = "reenable"
    /\ \E out \in SetEnabled(op.journal.prior.enabled) :
         reg' = out.reg /\ Continue(out.ok, IF out.ok THEN "restate" ELSE "finish")
    /\ UNCHANGED <<platform, root, data, app, gambled>>

RestoreState ==
    /\ op.pc = "restate"
    /\ \E out \in IF op.journal.prior = None THEN Unlink("state")
                  ELSE Write("state", op.journal.prior) :
         root' = out.root /\ Continue(out.ok, "finish")
    /\ UNCHANGED <<platform, reg, data, app, gambled>>

\* The journal goes only after everything was restored; a recovery then goes on
\* to the operation asked for.
Finish ==
    /\ op.pc = "finish"
    /\ IF op.failed THEN End /\ UNCHANGED root
       ELSE \E out \in Unlink("journal") :
              /\ root' = out.root
              /\ IF out.ok /\ op.recovering THEN Goto("run") ELSE End
    /\ UNCHANGED <<platform, reg, data, app, gambled>>

-----------------------------------------------------------------------------
\* The Companion beside, and what may happen to the machine.

StartCompanion ==
    /\ ~app /\ ~op.fenced /\ app' = TRUE
    /\ UNCHANGED <<platform, root, reg, data, op, gambled>>

EditData ==
    /\ app /\ \A f \in Files : data[f].edit < MaxEdits
    /\ \E f \in Files : data' = [data EXCEPT ![f].edit = @ + 1]
    /\ UNCHANGED <<platform, root, reg, op, app, gambled>>

StopCompanion ==
    /\ app /\ app' = FALSE
    /\ UNCHANGED <<platform, root, reg, data, op, gambled>>

Kill ==
    /\ op # Idle /\ End
    /\ UNCHANGED <<platform, root, reg, data, app, gambled>>

PowerLoss ==
    /\ End /\ app' = FALSE
    /\ \E c \in root.crash : root' = [now |-> c, crash |-> {c}]
    /\ UNCHANGED <<platform, reg, data, gambled>>

Next ==
    \/ Begin \/ Recover \/ WriteJournal \/ Return
    \/ Migrate \/ ConfigureNext \/ WriteState \/ Enable \/ WriteEnabled
    \/ RemoveRegistration \/ RemoveState \/ Commit
    \/ RestoreData \/ RestoreRegistration \/ RestoreEnabled \/ RestoreState \/ Finish
    \/ StartCompanion \/ EditData \/ StopCompanion \/ Kill \/ PowerLoss

Spec == Init /\ [][Next]_vars

-----------------------------------------------------------------------------
\* Nothing starts at login that the installation state does not name: whenever a
\* restart would find no journal, what it finds as the state is registered and
\* enabled exactly as it says, and without a state nothing is enabled - unless a
\* recovery acted on a journal whose own write had failed.
StateIsRegistered ==
    \A c \in root.crash :
        (c.journal = None /\ ~gambled) =>
            IF c.state = None THEN ~reg.enabled
            ELSE reg.exe = c.state.version /\ reg.enabled = c.state.enabled

\* Rolling back a migration is all or nothing: the journal goes only when every
\* data file is again what it was when the transaction began, whatever failed
\* before and whoever else uses the files.
RollbackRestores ==
    (op.pc = "finish" /\ ~op.failed /\ op.journal.restore) => data = op.journal.backup

\* ADR 0025: "Rollback errors remain visible and leave the journal for an
\* idempotent retry": whatever an interrupted first installation left, the retry
\* can remove the registration.
RetryCanSucceed ==
    (op = Idle /\ root.now.journal # None /\ root.now.journal.prior = None)
        => \E out \in Remove : out.ok

=============================================================================
