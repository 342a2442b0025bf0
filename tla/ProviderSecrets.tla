---------------------------- MODULE ProviderSecrets ----------------------------
(***************************************************************************)
(* Provider definitions and their credentials in the Companion:            *)
(* structuredprovider's definition store and CommitDefinition,             *)
(* secretstore.PutNew, and the import of backup.  The definitions and the  *)
(* journal of references to delete are one protected file; the             *)
(* credentials are in the operating system's vault.  Requests edit both at *)
(* the same time, either may fail, and the process or the machine may stop *)
(* between any two steps.                                                  *)
(*                                                                         *)
(* A definition is the set of its secret references.  References are drawn *)
(* at random and never twice: they are numbered in the order of drawing.   *)
(***************************************************************************)
EXTENDS Naturals, FiniteSets, ProtectedFile

CONSTANTS
    Providers, Clients,
    None,           \* no definition, nobody
    Boot,           \* the task that reconciles the two stores at the start
    MaxDefinitions, \* maximumStoredDefinitions
    MaxPending,     \* maximumPendingCleanup
    MaxRefs         \* bound on the references drawn

VARIABLES
    file,           \* structured-providers.json
    running,        \* the process runs
    state,          \* DefinitionStore.state: definitions and pending deletes
    reserved,       \* references the vault has an entry for
    secrets,        \* references the vault has the credential of
    vaultLock,      \* who holds secretstore.Store.mutex between two steps
    drawn,          \* the number of references drawn so far
    task,           \* what each request is about to do
    gambled         \* a credential was deleted while the last rename was unsynced

vars == <<file, running, state, reserved, secrets, vaultLock, drawn, task, gambled>>

NoDefinitions == [p \in Providers |-> None]

emptyDefinitionStoreState == [definitions |-> NoDefinitions, pending |-> {}]

Idle == [pc |-> "idle"]

definitionReferences(d) == UNION {d[p] : p \in {q \in Providers : d[q] # None}}

validateDefinitionStoreState(s) ==
    /\ Cardinality({p \in Providers : s.definitions[p] # None}) <= MaxDefinitions
    /\ Cardinality(s.pending) <= MaxPending
    /\ s.pending \intersect definitionReferences(s.definitions) = {}

Init ==
    /\ file = File(emptyDefinitionStoreState)
    /\ running = FALSE /\ state = emptyDefinitionStoreState
    /\ reserved = {} /\ secrets = {} /\ drawn = 0 /\ vaultLock = None
    /\ task = [c \in Clients \union {Boot} |-> Idle]
    /\ gambled = FALSE

-----------------------------------------------------------------------------
\* updateWithCommit with what it may report.  The memory follows the file as
\* soon as the file was renamed.
Update(next) ==
    IF validateDefinitionStoreState(next) THEN Replace(file, next)
    ELSE {[file |-> file, committed |-> FALSE, ok |-> FALSE]}

Take(out, next) ==
    /\ file' = out.file
    /\ state' = IF out.committed THEN next ELSE state

Become(c, t) == task' = [task EXCEPT ![c] = t]

\* What is left to do is to delete references from the vault.
Cleaning(todo) == [pc |-> "clean", todo |-> todo, deleted |-> {}]

Serving == running /\ task[Boot].pc = "idle"

\* An edit in progress: the definitions it read, the providers it replaces, what
\* it will put in their place, and the providers that still need a credential.
Edit(op, scope, plan, need) ==
    [pc |-> "bind", op |-> op, scope |-> scope, expected |-> state.definitions,
     plan |-> plan, need |-> need, staged |-> {}, ref |-> None]

\* Service.Save: some references of the present definition are kept, and there
\* may be a new credential.
Save(c) ==
    /\ Serving /\ task[c] = Idle
    /\ \E p \in Providers :
       \E need \in {{}, {p}},
          kept \in IF state.definitions[p] = None THEN {{}} ELSE SUBSET state.definitions[p] :
         Become(c, Edit("save", {p}, [state.definitions EXCEPT ![p] = kept], need))
    /\ UNCHANGED <<file, running, state, reserved, secrets, vaultLock, drawn, gambled>>

\* backup.Service.Import: the providers taken from the archive get new
\* credentials; the others stay (merge) or go (replace).
Import(c) ==
    /\ Serving /\ task[c] = Idle
    /\ \E from \in SUBSET Providers, replace \in BOOLEAN :
         Become(c, Edit("import", Providers,
                    [p \in Providers |-> IF p \in from THEN {}
                                         ELSE IF replace THEN None
                                         ELSE state.definitions[p]], from))
    /\ UNCHANGED <<file, running, state, reserved, secrets, vaultLock, drawn, gambled>>

-----------------------------------------------------------------------------
\* PutNew, which holds the vault's lock: reserve a reference with an empty
\* entry, journal it, write the credential.

Fail(c) == Become(c, Cleaning(task[c].staged))

Reserve(c) ==
    /\ task[c].pc = "bind" /\ task[c].need # {} /\ vaultLock = None
    /\ \/ /\ drawn < MaxRefs
          /\ drawn' = drawn + 1
          /\ reserved' = reserved \union {drawn'}
          /\ Become(c, [task[c] EXCEPT !.pc = "stage", !.ref = drawn'])
          /\ vaultLock' = c
       \/ /\ Fail(c)
          /\ UNCHANGED <<drawn, reserved, vaultLock>>
    /\ UNCHANGED <<file, running, state, secrets, gambled>>

\* StageCleanup inside PutNew.  If it fails the entry is deleted, or stays
\* until the next start.
Stage(c) ==
    /\ task[c].pc = "stage"
    /\ LET r == task[c].ref
           next == [state EXCEPT !.pending = @ \union {r}]
       IN \E out \in Update(next) :
            /\ Take(out, next)
            /\ IF out.ok
               THEN /\ Become(c, [task[c] EXCEPT !.pc = "write", !.staged = @ \union {r}])
                    /\ UNCHANGED <<reserved, vaultLock>>
               ELSE /\ reserved' \in {reserved, reserved \ {r}}
                    /\ vaultLock' = None
                    /\ Fail(c)
    /\ UNCHANGED <<running, secrets, drawn, gambled>>

WriteSecret(c) ==
    /\ task[c].pc = "write"
    /\ vaultLock' = None
    /\ \/ /\ secrets' = secrets \union {task[c].ref}
          /\ \E p \in task[c].need :
               Become(c, [task[c] EXCEPT !.pc = "bind", !.need = @ \ {p},
                                         !.plan[p] = @ \union {task[c].ref}])
       \/ /\ Fail(c)
          /\ UNCHANGED secrets
    /\ UNCHANGED <<file, running, state, reserved, drawn, gambled>>

-----------------------------------------------------------------------------
\* Publish and ReplaceConfiguration: the definitions read must still be there,
\* new references must be journaled; they leave the journal and the retired
\* ones enter it with the same file replacement.

Unchanged(t) == \A p \in t.scope : state.definitions[p] = t.expected[p]

Published(t) ==
    [p \in Providers |-> IF p \in t.scope THEN t.plan[p] ELSE state.definitions[p]]

Retired(t) == definitionReferences(state.definitions) \ definitionReferences(Published(t))

Activated(t) == definitionReferences(Published(t)) \ definitionReferences(state.definitions)

\* Mutant of AfterPublish: an error after the rename is compensated like any
\* other.
AfterPublishFailing(t, ok) == IF ok THEN Cleaning(Retired(t)) ELSE Cleaning(t.staged)

\* An error after the rename ends a save where it is; an import goes on to
\* delete what it retired.
AfterPublish(t, ok) == IF ok \/ t.op = "import" THEN Cleaning(Retired(t)) ELSE Idle

Publish(c) ==
    /\ task[c].pc = "bind" /\ task[c].need = {}
    /\ LET t == task[c]
           next == [definitions |-> Published(t),
                    pending |-> (state.pending \ Activated(t)) \union Retired(t)]
       IN IF Unchanged(t) /\ Activated(t) \subseteq state.pending
          THEN \E out \in Update(next) :
                 /\ Take(out, next)
                 /\ IF out.committed THEN Become(c, AfterPublish(t, out.ok)) ELSE Fail(c)
          ELSE Fail(c) /\ UNCHANGED <<file, state>>
    /\ UNCHANGED <<running, reserved, secrets, vaultLock, drawn, gambled>>

\* Service.Delete and DeleteDefinition.
Delete(c) ==
    /\ Serving /\ task[c] = Idle
    /\ \E p \in Providers :
         /\ state.definitions[p] # None
         /\ LET next == [definitions |-> [state.definitions EXCEPT ![p] = None],
                         pending |-> state.pending \union state.definitions[p]]
            IN \E out \in Update(next) :
                 /\ Take(out, next)
                 /\ Become(c, IF out.ok THEN Cleaning(state.definitions[p]) ELSE Idle)
    /\ UNCHANGED <<running, reserved, secrets, vaultLock, drawn, gambled>>

\* Settings, presets, device profiles and the order are in the same file.
UpdateSettings ==
    /\ Serving
    /\ \E out \in Update(state) : Take(out, state)
    /\ UNCHANGED <<running, reserved, secrets, vaultLock, drawn, task, gambled>>

-----------------------------------------------------------------------------
\* rollback, cleanupRetired, cleanupReferences: delete each reference from the
\* vault, then take those deleted out of the journal.

Remove(c) ==
    /\ task[c].pc = "clean" /\ vaultLock = None
    /\ \E r \in task[c].todo :
         \/ /\ reserved' = reserved \ {r} /\ secrets' = secrets \ {r}
            /\ gambled' = (gambled \/ file.crash # {file.now})
            /\ Become(c, [task[c] EXCEPT !.todo = @ \ {r}, !.deleted = @ \union {r}])
         \/ /\ Become(c, [task[c] EXCEPT !.todo = @ \ {r}])
            /\ UNCHANGED <<reserved, secrets, gambled>>
    /\ UNCHANGED <<file, running, state, vaultLock, drawn>>

CompleteCleanup(c) ==
    /\ task[c].pc = "clean" /\ task[c].todo = {}
    /\ IF task[c].deleted = {} THEN UNCHANGED <<file, state>>
       ELSE LET next == [state EXCEPT !.pending = @ \ task[c].deleted] IN
            \E out \in Update(next) : Take(out, next)
    /\ Become(c, Idle)
    /\ UNCHANGED <<running, reserved, secrets, vaultLock, drawn, gambled>>

-----------------------------------------------------------------------------
\* loadStructuredProviders opens the file and reconciles before it serves.

Start ==
    /\ ~running /\ running' = TRUE
    /\ state' = file.now
    /\ Become(Boot, [pc |-> "reconcile"])
    /\ UNCHANGED <<file, reserved, secrets, vaultLock, drawn, gambled>>

\* ReconcileCleanup: entries nobody owns are journaled, then the whole journal
\* is cleaned.  The vault may not answer.
Reconcile ==
    /\ task[Boot].pc = "reconcile"
    /\ LET orphans == (reserved \ definitionReferences(state.definitions)) \ state.pending
           next == [state EXCEPT !.pending = @ \union orphans]
       IN \/ Become(Boot, Idle) /\ UNCHANGED <<file, state>>
          \/ IF orphans = {}
             THEN Become(Boot, Cleaning(state.pending)) /\ UNCHANGED <<file, state>>
             ELSE \E out \in Update(next) :
                    /\ Take(out, next)
                    /\ Become(Boot, IF out.ok THEN Cleaning(next.pending) ELSE Idle)
    /\ UNCHANGED <<running, reserved, secrets, vaultLock, drawn, gambled>>

\* The process ends, with or without the machine.
Crash ==
    /\ running /\ running' = FALSE
    /\ file' \in {file} \union {File(v) : v \in file.crash}
    /\ state' = emptyDefinitionStoreState /\ vaultLock' = None
    /\ task' = [c \in DOMAIN task |-> Idle]
    /\ UNCHANGED <<reserved, secrets, drawn, gambled>>

Next ==
    \/ Start \/ Reconcile \/ Crash \/ UpdateSettings
    \/ \E c \in Clients :
         \/ Save(c) \/ Import(c) \/ Reserve(c) \/ Stage(c) \/ WriteSecret(c)
         \/ Publish(c) \/ Delete(c)
    \/ \E c \in Clients \union {Boot} : Remove(c) \/ CompleteCleanup(c)

Spec == Init /\ [][Next]_vars

-----------------------------------------------------------------------------
\* A definition never loses its credential: whatever definitions memory has or a
\* restart may find, the vault holds the credential of each reference, through
\* concurrent edits, imports, failures and crashes - unless a credential was
\* deleted on the strength of a rename that was never synced.
DefinitionsKeepSecrets ==
    ~gambled =>
        \A s \in {state} \union file.crash : definitionReferences(s.definitions) \subseteq secrets

\* No credential is forgotten: each one in the vault belongs to a definition or
\* to the journal, in whatever content a crash leaves behind.
NoSecretForgotten ==
    \A s \in file.crash : secrets \subseteq definitionReferences(s.definitions) \union s.pending
==============================================================================
