# ferric: specifications, model checking and proofs

`ferric` is the command-line client of FerricStore. This directory specifies
its core logic in TLA+, model-checks the specifications with TLC, and proves
theorems about them with TLAPS. Paths such as `internal/...` are relative to
the root of the repository.

A `ferric` process is short-lived: it runs one command and exits. What is hard
in it is therefore not inside one process. Processes of the same user run side
by side (terminals, scripts, cron), share two stores on the machine (a profile
document and the system keyring), talk to servers that go on after the command
has given up, and can be killed between any two system calls.

## 1. Inventory

Each entry: state, operations, interactions, what is hard, what makes it correct.

**Profile store** (`internal/profile/profile.go`). State: one JSON document
(`current_profile`, `profiles`), a lock file `<path>.lock`, a second lock file
`<path>.credentials.lock`, temporary files. Operations: `Put`, `Get`, `List`,
`Current`, `Use`, `Delete`, `WithCredentialMutation`. Writers take the flock,
load, change, write a temporary file, sync it and rename it; readers take no
lock. Hard: lost updates, readers between two steps of a save, kills, power
loss, failing system calls, a failing unlock after a successful save. Correct
when every call behaves as one atomic step or none, no state of the disk is
unreadable, the selection names a saved profile, and no call waits for ever.

**Credential store** (`internal/credential/store.go`). State: the system
keyring, one entry per account. Operations: `Put`, `Get`, `Delete`. One call to
an external service each; any may fail.

**Login service** (`internal/auth/service.go`). State: none of its own; it
changes both stores, one after the other, under the credential lock.
Operations: `Login` (validate on the network, put the secret under a fresh
reference, put the profile, remove the previous secret; roll the secret back if
the profile was not saved), `Logout` (remove the secret). Hard: there is no
transaction over the two stores; logins, logouts, deletes and connecting
commands overlap; each step can fail or be the last one of a killed process; a
rollback can fail. Correct when a profile is never used with another login's
secret, a login replaces the previous one at once or not at all, a removed
secret stays removed, and no secret is left behind unnoticed.

**Login providers** (`internal/auth/password.go`, `enterprise.go`). No state.
They normalise the request and validate the credential against the server.

**Profile commands** (`internal/cli/profile.go`). `list`, `show`, `use`,
`delete`. `delete` removes the secret, then the metadata, and puts the secret
back if the metadata was not removed. Hard: as for the login service.

**Authentication commands** (`internal/cli/auth.go`). `login`, `status`,
`logout`. They resolve the profile name before any lock, read a secret from the
terminal or standard input, and apply the timeout.

**Saved connections** (`internal/connection/service.go`). `Open` reads the
profile, then the secret its reference names, without a lock, and lets a
provider connect; `OpenEphemeral` connects with credentials that are not
stored. Hard: the profile read may be stale when the secret is read.

**Connection resolution** (`internal/connection/environment.go`,
`internal/cli/root.go`, `internal/cli/network.go`). Precedence: `--profile`,
then environment credentials, then `FERRIC_PROFILE`, then the selected profile,
then, when nothing is saved, `default`. A deletion of the selected profile selects
another one. Environment credentials are complete or an error, OSS and
Enterprise variables exclude each other, secret files are bounded and regular.
Hard: a file replaced between `Stat` and `Open`; a broken environment that must
not fall back to a saved profile; logout under environment credentials.

**Network command life cycle** (`internal/cli/network.go`,
`internal/ferric/transport.go`). Timeout, open, operation, close, output. Hard:
the timeout passes while the server commits; the close fails after a success.

**Platform credential exchange** (`internal/platformapi/client.go`,
`internal/connection/enterprise.go`, `internal/ferric/enterprise.go`). A
control-plane token is exchanged for a temporary credential. Hard: redirects,
bounded answers, expiry, a token that must reach the control plane only.

**Command safety and raw commands** (`internal/commandsafety/safety.go`,
`internal/cli/sdk_command.go`, `sdk_contract.go`, `confirmation.go`). Which
commands need `--yes`; whether a blocking wait fits within the timeout. Hard:
boundaries of 64-bit durations, zero meaning "for ever", commands inside a
transaction, a `--yes` that is an argument. Correct when nothing sensitive is
sent unconfirmed, arguments arrive as typed, and an accepted wait is over before
the timeout.

**Transactions** (`internal/cli/transaction.go`). WATCH, MULTI, queueing, EXEC
or DISCARD on one connection. Hard: other clients between WATCH and EXEC, a
step that fails after MULTI, an answer to EXEC that is lost.

**Flow queues and workflows** (`internal/cli/queue.go`, `workflow*.go`,
`flow_*.go`). Claims, leases and fencing tokens that the user carries from one
command to the next; batches; values; reclaim. Hard: an expired lease used
late, a claim whose answer is lost, batches that are validated as a whole,
durations below the unit of the server.

**Schedules, queries and governance** (`internal/cli/schedule.go`, `query.go`,
`governance*.go`). Options are validated together and become one request.

**Store, cluster, ACL, server, pub/sub and usage commands**
(`internal/cli/store.go`, `cluster.go`, `acl.go`, `server.go`, `pubsub.go`,
`usage.go`). One request each, no state.

**Output, SDK adapters, entry point** (`internal/outputcontract`,
`internal/cli/output.go`, `input.go`, `internal/ferric/password.go`,
`internal/endpoint`, `cmd/ferric`, `internal/buildinfo`). Formatting,
construction of clients, wiring.

How they interact: a command resolves a name (root.go), takes the profile and
its secret from the two stores (connection), or changes both (auth, profile
commands). Between processes there are only the two stores and the two flocks:
`.credentials.lock` is taken first and held over all steps of a login, logout
or delete; `.lock` is taken inside it, for each change of the document.
`profile use` takes `.lock` alone. No other order occurs.

## 2. Modules

| module | what it is | code |
|---|---|---|
| `ProfileDocument` | the document and the pure part of Put, Use, Delete, Current | `profile/profile.go` |
| `ProfileRegistry` | abstract: calls that take effect in one step between call and return | interface of `profile.go` |
| `ProfileFile` | the same calls as system calls on files and a flock | `withFileLock`, `load`, `save` |
| `SavedLogins` | abstract: what logging in, logging out and deleting promise | docs/authentication.md, `auth/service.go` |
| `CredentialLifecycle` | commands over the document and the keyring | `auth/service.go`, `cli/profile.go`, `connection/service.go` |
| `EnvironmentCredentials` | credentials from environment variables and a secret file | `connection/environment.go` |
| `OneRequest` | abstract: what a user may conclude from how a command ended | docs, `cli/network.go` |
| `NetworkCommand` | one command: which connection, one request, close, report | `cli/network.go`, `root.go`, `auth.go`, `cluster.go` |
| `Durations` | the unit that `BlockingWait` and `FlowOptions` count in | |
| `BlockingWait` | the wait hidden in the arguments, held against `--timeout` | `cli/sdk_command.go`, `network.go`, `flow_flags.go` |
| `CommandSafety` | what needs `--yes`, and every way to the wire | `commandsafety/safety.go`, `cli/*.go` |
| `FlowOptions` | options of queue, schedule and governance commands | `cli/flow_flags.go`, `schedule.go`, `governance*.go`, `queue.go`, `workflow*.go` |
| `FlowQuery` | the input of workflow queries | `cli/query.go` |
| `AtomicBatch` | abstract: what a transaction promises | docs/commands.md |
| `Transaction` | WATCH, MULTI, queueing, EXEC against other writers | `cli/transaction.go` |
| `FlowLease` | claims, tokens, acknowledgements, batches, signals | `cli/queue.go`, `workflow*.go`, `flow_bulk*.go`, `flow_reclaim.go` |
| `PlatformExchange` | from a typed or stored secret to a client | `auth`, `connection`, `ferric`, `platformapi`, `endpoint` |
| `*Proofs` | theorems about the module that the name begins with; `CommandProofs` about `CommandSafety`, with what it extends, and `BlockingWait` | |
| `MC*` | definitions for TLC | |

Refinements: `ProfileFile` implements `ProfileRegistry`, which is what allows
`CredentialLifecycle` to use the document's operations as single steps;
`CredentialLifecycle` implements `SavedLogins`; `NetworkCommand` implements
`OneRequest`; `Transaction` implements `AtomicBatch`.

Composition: `CommandSafety` extends `FlowOptions` and `FlowQuery`: what they
accept and make of a line is part of its actions `RunOptions` and `RunQuery`.
`NetworkCommand` extends `ProfileDocument`, as `ProfileFile` and
`CredentialLifecycle` do: what other processes do to the document is what the
store does. It takes from `EnvironmentCredentials` only whether the environment
is absent, complete or broken; `CredentialLifecycle` takes from `PlatformExchange`
only whether a validation succeeded.

### ProfileDocument

`document` is the Go struct; its map is a function. Names are positive numbers,
so `sort.Strings` is `<=` and `NoName` (0) is the empty string. `Put` selects
the first profile saved; `Delete` moves the selection to `default`, or to the
first name in order, or to none. `load` refuses other versions and the code
never writes one, so the version is left out.

### ProfileFile

One process makes one call. `file` is what is at the path, as the system shows
it, and `onDisk` what may be there after a power loss. `temporary` is the process's
temporary file, from `CreateTemp` (`Create`) through `Chmod` and `Write`
(`Write`), `Sync` and `Close` (`Sync`), to `Rename`. `Lock` is `TryLockContext`;
`LockFails`, `LoadFails`, `SaveFails` are the error returns, each of which runs
the deferred unlock, and `SaveFails` the deferred removal of the temporary file,
whose own failure the code passes over (the file is then `KeptFile`). `Exit` and `Crash` drop the flock, as the system does for a process that
ends. `WriteBack` is the system writing a renamed directory entry out;
`PowerLoss` keeps only what was written and synced.

### CredentialLifecycle

One process runs one command. `pc` names the next call it makes: `validate`,
`lock`, `read` (profiles.Get), `store` (credentials.Put), `persist`
(profiles.Put), `cleanup` or `rollback` (credentials.Delete), `fetch`
(credentials.Get), `remove` (credentials.Delete), `erase` (profiles.Delete),
`restore` (credentials.Put), `unlock`; `use`; `open` and `secret` for a
connecting command. A login is identified with the process that makes it: the
secret it validated and the reference it draws (128 random bits) are its own. A
profile without a reference, written by an earlier version, keeps its secret
under its own name; `Init` is any set of those, including none. The ghosts
`committed` and `abandoned` record which logins saved their profile, and the
accounts whose removal the keyring refused or a kill cut off.

Choices worth knowing:

- *Cancelled contexts.* Each call first looks at its context. Whether it is over
  is a free choice at each call (`GiveUp`, `Abort`, and the failing variants).
  This is exact, because after a failure the code either returns or goes on
  with an uncancelled context (`context.WithoutCancel`) in rollback and restore.
  Logout, delete and use have no timeout. No keyring call has one that the
  code enforces: that they return is assumed (fairness, below).
- *Kills.* `SIGINT` is not caught, so it is a kill: the process stops between
  two calls and the system drops its flocks.
- *Keyring.* A call that fails changed nothing. A keyring that reports a failure
  after having made the change is not modelled.
- *A failing unlock.* `flock(LOCK_UN)` hardly ever fails, but `withFileLock`
  reports it as a failure of an operation that took effect. It is a constant,
  `UnlockMayFail`, TRUE in the runs that say so and FALSE in the run that shows
  everything else: two findings below are about it.
- *References.* Drawn references differ from each other and from profile names
  (`ProcsAssumption`).
- *Left out.* The in-process mutex (a process makes one call at a time), the
  branch for a profile store that is no coordinator (the CLI always has one),
  `internal/auth` stores that are not configured.

### EnvironmentCredentials

`env` is the map that `values` collects; a text is a sequence of characters, as
short as it can be and still be absent, empty, blank, well-formed or malformed.
`Resolve` is the method up to the point where it needs a file; `Stat`, `Open`,
`Fstat` and `Read` are the system calls of `readBoundedSecretFile`, each of which
may fail (`CallFails`), and `Accept` is what follows the secret, the CA path of
`resolvePassword` included. Between two of them somebody may put another file,
pipe or directory, or nothing, at the path (`Replace`); no file comes back, so
that replacing ends. What is opened stays what it was: a file that is written
in place while it is read is not modelled. `url.Parse` and `filepath.IsAbs` are
one character each: `@` for what the first must refuse, `/` for the second.

### NetworkCommand

`inv` is the command line with the variables that matter. `pc` follows
`runNetworkCommand`: `Start` is everything before the first call (arguments,
`--yes`, the timeout), `Environment` and `Select` are the two steps of
`openActiveConnection`, `LoadProfile`, `LoadSecret` and `Dial` those of
`Service.Open`, then `Send`, `Answer` or `GiveUp`, `Close`, `Report`. `logout`
and `status` take their own ways through the same steps. The server is external
(`Serve`, `Break`): a request that was sent may be carried out after the command
gave up. Other `ferric` processes select, save, delete and log out profiles
(`UseElsewhere`, `SaveElsewhere`, `DeleteElsewhere`, `LogoutElsewhere`), each with
the operation of `ProfileDocument` that the store performs, so that a deletion
selects another profile and a first login the saved one. Names are numbers, as
there; a blank name is `NoName`. `Select` is `selectedProfile` with
`FileStore.Current`. Two ghosts: `seen`, the documents that were in force, and
`picked`, the names that users selected or logged in to first.

### BlockingWait

Times are counted in units, with a constant number of units in a millisecond and
in a second, so that the code's truncations and roundings happen at small
numbers (`Durations`); a duration stops at `MaxDuration`, as in Go. A word of the command line
has a rational value or none. `SecondsWaitAt`, `MillisecondsWaitAt` and
`MillisecondsWaitAfter` are the parsers of sdk_command.go; `ServerWait` is what
the server will do with the same arguments, defined apart from them. `Check` is
validation; then the request travels, is held, and the answer travels back, each
for any time that `Overhead` allows.

### CommandSafety, FlowOptions, FlowQuery

An argument is the word that it is for the server and whether it is spelled
exactly so. The trees of commands are tables: what each command sends before its
arguments and whether it asks for `--yes`. `RunNamed`, `RunRaw`,
`RunTransaction`, `RunOptions` and `RunQuery` are the five ways from a command
line to the wire, each from the parsed line to "refused" or "sent". In `FlowOptions`,
`FlowCommands` gives each option of a command its kind, `Accepts` says which
values of a kind are let through, `Fits` which combinations, and `Request` what
is sent. In `FlowQuery`, `Member` and `Assigned` read one parameter each, from the
document and from an assignment; `ReadMembers` and `ReadAssignments` are recursive
functions that apply them to one after the other. `CallsAssumption` says what a
command line may hold: a command of the tables, any sequence of arguments, any
number of commands in a file, the options of a command with values of their
kinds, or the input of a query.

### Transaction

`Start` is everything before the connection. `Watch`, `Multi`, `Queue` and
`Exec` are one round trip each; `QueueRefused` is the error path with DISCARD;
`Lose` is the timeout or a lost connection at any point, after which the server
forgets what the connection watched and queued (`Forget`), but may still execute
an EXEC that was on its way (`Execute`). `Result` is `checkedTransactionResult`.
A command that was queued and fails inside EXEC, which the server reports among
the results and does not undo, is not modelled.

### FlowLease

The commands are operators of a line (which options and tokens were typed); a
valid line becomes a request on the wire. The server is external and does no more
than compare what a request carries. The users know the tokens that were printed
to them and type any mixture of them. `GiveUp` is the timeout: the request stays
on the wire and may be handled later. A claim is a number, in the order of being
issued. What the server does where a request says nothing is assumed: a claim
without `--reclaim-expired`, for which the code sends no value at all
(flow_flags.go:248), is not given expired work. `spawn-children` may name the state
in which the parent is and the one in which it waits; what becomes of the parent
when its children end is not modelled. The ghosts `acked` and `heard` count what each claim and each signal key
brought about.

### PlatformExchange

`call` is a login or an opening, with its method. `LoginSecret` and the
providers' own checks come first; `Exchange` sends the token to the control
plane, which answers as it likes (`Answered`, `Redirected`, `Refused`); then
`NewClient`, `Stat`, `Open` and `Read` for the CA certificate file, `Build`,
`HandOver` or `Ping` with `Pong` or `NoPong`, and `Close`. The clock (`Tick`) and the end of
the context (`ContextEnds`) may come at any step; what is at the path of the CA
file may be replaced at any step. An endpoint is its scheme; `bad` is an empty or
malformed one, or one with credentials in it. `sent` records which secret went
to whom.

## 3. Runs

| run | instance | shows |
|---|---|---|
| `profile_file` | 2 calls, 2 profiles with 2 values, 1 power loss, all failures (of unlocking too) and kills | `ImplementsRegistry`: calls are atomic. `DocumentNeverTorn`: what is on the disk decodes, also after a power loss. `SelectionIsSaved`. `FailedSaveLeavesNoFile`. `CallsEnd` |
| `credential_lifecycle` | 3 commands (login, logout, delete, open), 2 names | `CredentialsPaired`, `OpenedWithOwnSecret`, `MissingSecretExplained`, `OrphansAccountedFor`, `FailedLoginLeavesNothing`, `RemovalIsFinal`, and the refinement `KeepsPromise` |
| `credential_waiting` | 3 commands (login, logout, delete, use), failing unlocks | `CommandsEnd`: the credential lock is given back on every path |
| `environment_variables` | either set in all combinations of its variables with at most one of the other; for the environments that name a file, every file of up to 3 of `x`, LF, CR, a pipe, a directory or nothing, replaced once at any step | `AcceptedIffComplete` against the definition in docs/authentication.md; `SecretIsWhole`; `ResolveEnds` |
| `network_command` | every mix of flag, environment, variable and profile document, 3 names, 1 step of another process | `ResolvedInOrder`, `ClientsClosed`, `KeepsPromise` (success means done once, refused means never done), `CommandEnds` |
| `commands` | every named command; raw commands of up to 4 words; transactions of 2; options up to two free beside the needed ones; queries with up to 3 members and 2 assignments; every blocking command with waits around the margin, timeouts from -1 to 20 units | `SensitiveOnlyIfConfirmed`, `ArgumentsArrive`, `SentAsMeant`, `QueryAsMeant`. `AnsweredInTime`: an accepted wait is over before the timeout, and only a claim without `--wait` may be late. `RefusedForAReason`: what fits is not refused |
| `transaction` | 2 processes, 2 keys, 1 write from elsewhere | `AllOrNothing`: the refinement of `AtomicBatch` |
| `flow_lease` | 2 users in each of three sessions, 2 claims, 2 or 3 requests | `OnlyHolderActs`, `TakenOverOnlyIfAsked`, `AcknowledgedOnce`, `RepeatableStart`, `SignalActsOnce` |
| `platform_exchange` | every call, every answer, a clock of 0 to 2, every CA file replaced | `SecretsStayHome`, `FailsClosed`, `LoginIsProven`, `TrustIsWhole`, `OnlyHandedOverOpen`, `ExchangeEnds` |
| `login_unlock_error` | 1 profile, failing unlock | violates `RollbackKeepsProfileSignedIn` |
| `delete_unlock_error` | 1 profile, failing unlock | violates `DeletedProfileLeavesNoSecret` |
| `profile_selection` | 3 names, 1 step of another process | violates `SelectedByUserOrDefault` |

The larger ones: `flow_lease` has 2.3 million distinct states, `network_command`
1.3 million, `profile_file` 1.2 million, `platform_exchange` and `environment_variables` 0.16 million each,
`commands` 0.13 million, `transaction` 75,000. `commands` has the behaviours of
`CommandSafety` and those of `BlockingWait`, one command in each (`EitherSpec`).

Bounds. *Stores.* Every bad scenario we know of takes two actors on one profile:
one between two of its steps, and one that runs to completion meanwhile. Two
callers of the document and two names (the selected one and another, one of them
`default`) show all of them; two values tell a lost update from the update. The
third process of the credential runs is a victim beside two that race, or the
queue at the lock. Each process runs one command; a process that died and is
restarted is another one of the set. One power loss is enough: after it, the
state is one in which a run may start. `open` is not in the liveness run because
it waits for nothing, `use` not in the safety run because it touches neither the
keyring nor the references. Processes are symmetric in the safety run.
*Files.* The lengths that matter are zero, one, the limit (2 instead of 64 KiB)
and one above it, with and without each line end. One replacement separates the
two examinations of a file. *Commands.* One command suffices for
`NetworkCommand`: commands share nothing but the stores. One step of another
process separates any two reads; the names are 1 to 3 with `default` in the
middle, so that the first name in order, `default` and another one are told apart. *Waits.* Four units to a second and two to a millisecond make the
margin one second and leave room for a fraction of a millisecond on either side;
`Overhead` is one unit below the margin. *Safety.* Words of a raw command are
those of the classifier, one that is none, and `--yes`; four places allow
two `--yes` and both a word and a subcommand. Two free options show every
pair; for schedules they are added to each way of recurring. Three members and
two assignments exceed `MaxParameters` = 2 in the document, in the
assignments and only in both together; integers lie on either side of
`MaxInteger` and of `MaxFloat`. *Transactions.* A writer between WATCH and EXEC
may be the other transaction or a write from elsewhere; two keys allow a
watched and a written one. *Leases.* Two claims are a stale and a current
holder of one execution; the third request is the one that comes too late.
Users are symmetric, and no property of that run is about liveness. *Exchange.* A clock of three
values tells issue, use and expiry apart.

Fairness. `ProfileFile`, `CredentialLifecycle`: weak fairness of `Step(p)` for
every process: the system schedules every process that can run, and each step is
a call that returns. No failure, kill or give-up is fair. `TryLockContext` polls
with a delay and is not fair to one waiter among endless callers; it is enough
here because each process makes one call, as each `ferric` does.
`EnvironmentCredentials`: weak fairness of its own system calls, not of `OpenPipe`,
which is a writer's step. `NetworkCommand` and `PlatformExchange`: weak
fairness of the command's own steps and of the timeout, nothing of any server:
what the commands call on this machine, the keyring and the profile file, is
assumed to return, because no timeout ends such a call.
The two properties about files (`ResolveEnds`, `ExchangeEnds`) except one case,
`PipeSwappedIn`: a pipe that takes the place of a regular file between `os.Stat`
and `os.Open` makes the open wait for a writer, which no later examination can
prevent. A pipe that is there from the start is refused, as
environment_fifo_test.go expects.

Deadlock is not looked for: every system here is meant to come to its end.

Findings. (1) `withFileLock` (profile.go:313) joins an unlock error to the result
after the document was replaced. `Service.Login` then rolls back the secret that
the saved profile refers to: the user is left with a profile that cannot
connect, although docs/authentication.md promises the previous or the new
credential. (2) `deleteProfileState` (cli/profile.go:216) then puts the secret of
a deleted profile back into the keyring, where nothing refers to it any more.
(3) docs/commands.md:22 has commands work on "the profile selected by `ferric
profile use`, then `default`". After the selected profile was deleted,
`FileStore.Delete` (profile.go:264) selects `default` only if it is saved, and
otherwise the first name, which nobody selected. The run counts the profile of a
first login as selected; strictly read, the sentence excludes that too.
`ResolvedInOrder` states the order that the code keeps.

Remarks. Behaviour met while modelling that no run refutes; but for the first,
it contradicts no document we know of. The models follow the code in each of
them, unless the remark says that it is outside the model.

- `cluster failover` parses its shard index when the client is open
  (cluster.go:225, `ReadsArgumentLate`), where docs/commands.md:302 has every
  operation validate its inputs "before opening a connection".
- A group or consumer named `BLOCK` hides the wait of XREADGROUP from the check
  of the timeout (sdk_command.go:178); `LinesAreSound` excludes it.
- A named command is classified by its own words, without its arguments
  (sdk_command.go:75): `server doctor start-check` with an argument `REPAIR` is
  sent without `--yes`. What the server makes of it is its affair.
- `workflow transition` may name `running` as its target (workflow.go:371), which
  the batch form refuses (flow_bulk_validation.go:103).
- `--max-active` below a millisecond becomes 0 (flow_flags.go:330), and `--wait`
  is sent as 0 (flow_flags.go:245, schedule.go:507), unlike the durations that go
  through `positiveMilliseconds`. `SentAsMeant` speaks of the latter only.
- An explicit `--after 0s` or `--every 0s` counts as not given; a blank `--at` is
  accepted; `policy set --max-active ""` is an empty patch.
- Integers above 64 bits in a query's parameters become the nearest
  floating-point number (query.go:325); `QueryAsMeant` says so.
- JSON payloads are decoded into floating-point numbers (input.go), so that
  integers above 2^53 lose digits; not modelled.
- The CA certificate file has no second examination after it was opened
  (ferric/password.go:183), the secret file has.

## 4. Proofs

For every value of the constants, not only for the instances of the runs.

**The document** (at the head of `ProfileFileProofs`): maps, `Insert`, `Remove`;
`OperationsYieldDocuments`; `OperationsKeepSelection` (a saved profile stays
selected whenever there is one); `CurrentIsSaved`. From `NamesAssumption`; the
first name in order exists because the natural numbers are well-founded. The
few of these lemmas that the credential and the network proofs need are stated
there as well.

**The file** (`ProfileFileProofs`): `TypeCorrect`, `DocumentIsNeverTorn`,
`SelectionIsAlwaysSaved`, `FailedSavesLeaveNoFile`, and `CallsAreAtomic`, the
refinement of `ProfileRegistry`, also when unlocking may fail. A file that could not
be removed after a failed save is the one exception in `FailedSavesLeaveNoFile`,
because the code ignores that error (profile.go:377). The invariant: every
file that a power loss may bring back is synced and selects a saved profile
(`Settled`; without it, nothing is known of the document after a power loss); one
process at a time is between `Lock` and `Rename` (`Alone`); nothing is answered
before the call has taken effect or failed (`Told`); what a process is about to
save is the effect of its request on the document as it still is (`Buffered`,
which holds because of `Alone`). For the refinement, `ActIsPromised` finds for each
step of a process the one of the registry: a call takes effect when it reads,
when it finds no profile to change, or when it renames. Assumptions:
`NamesAssumption` and `FileAssumption` (the kinds of two constants).

**The credential life cycle** (`CredentialLifecycleProofs`): `TypeCorrect`,
`PairedAlways`, `OpenedAlwaysWithOwnSecret`, `RemovalIsAlwaysFinal`; while unlocking
does not fail, `FailedLoginAlwaysLeavesNothing`, `OrphansAlwaysAccountedFor`,
`MissingSecretAlwaysExplained` and `PromiseAlwaysKept`, the refinement of
`SavedLogins`. None of these is inductive. The invariant that is has layers, each proved with the help of those before it:

| layer | what it says | why it is needed |
|---|---|---|
| `TypeInv` | types, and what a place in a command implies | all others |
| `Unread` | nothing is read or reported before the reads | a fresh process has no secret of another run |
| `Exclusive` | one process at a time is between `Lock` and `Unlock` | no other process moves what is being removed or restored |
| `Drawn` | a reference is in no profile before its login is saved, and nowhere before its secret is stored | a new secret lands on no account in use |
| `Owned` | each account holds the secret of the login it belongs to | the pairing properties |
| `Final` | after a removal nothing is left that could restore the secret | finality |
| `Undone` | the profile of a login that rolls back was not saved | rollback removes nothing in use; false when unlocking may fail |
| `Fixed` | what was read under the lock still stands | cleanup and delete act on the profile that is saved now |
| `Unshared` | no two profiles name one account, nor one that a login is about to clean up | cleanup and logout touch one profile only |
| `Kept` | a profile that nobody asked to remove finds its secret | missing secrets |

Assumptions: `ProcsAssumption` and `NamesAssumption` (references differ from
names, names are positive numbers) and, where said, `~UnlockMayFail`, which the two
findings show to be needed.

**Network commands** (`NetworkCommandProofs`): `TypeCorrect`,
`OrderIsKept`, `ClientsAreClosed`, and `PromiseIsKept`, the refinement of
`OneRequest`. `ResolvedInOrder` needs to know which earlier sources were ruled
out at each place (`PlaceFits`); `ClientsClosed` where a client can be open
(`ClientFits`); the refinement that a result is there only after an answer
(`OutcomeFits`). For any number of steps elsewhere, a saved profile stays selected
(`ElsewhereOnDocument`), so that what `Current` returns is the selection
(`CurrentIsSelected`); the lemma `ResolvedNow` is the heart: a choice that fits the
present document fits one that was in force. Assumptions: `NamesAssumption`, the
kinds of command lines and of the bound, and that `None` is a value of its own.

**Environment credentials** (`EnvironmentCredentialsProofs`): `OnlyCompleteIsAccepted`
and `SecretsAreWhole`. `AcceptedIffComplete` is not inductive: what `Resolve`
found when it decided to read a file has to be known until the file was read
(`Chosen`), as has that nothing was answered before (`Unanswered`). For
`SecretIsWhole`, what is open is a version that was at the path, and it was
regular when it was examined (`Recorded`). The lemma `CompleteIs` shows that the
checks of the code, made one after the other, are together what the documentation
calls complete; `TrimSuffixIs` and `LineEndIs`, that the two `TrimSuffix` of the
code remove one line end and nothing else, CR LF taken as one. Assumptions:
`EnvironmentsAssumption`, that only the variables that the code looks up are in
the map, and `FilesAssumption`, the kinds of the files and of their bound.

**Command safety** (`CommandProofs`): `SensitiveIsConfirmed`,
`RawArgumentsArrive`, `OptionsAreSentAsMeant` and `QueryIsAsMeant`, for command
lines, files, documents and lists of options of any length. A line is decided in
one step, so the invariant adds to the four properties only that nothing is sent
before (`Decided`); the work is in what the step decides.

- *Sensitive commands.* `ClassIs`: the class of a command is that of its words,
  however they are spelled. `SaidIsTelling`: what the help says to require `--yes`
  begins with words that the classifier knows (`Telling`), so that every raw
  command and every line of a file that begins with them is asked for. The words of a
  named command either are such words, or exclude them, whatever its arguments
  are (`Harmless`, `HarmlessStaysSo`); each table has its lemma
  (`ServerRootIsSettled`, `AclIsSettled` and so on).
- *Raw arguments.* `LastYesIs` and `RawIs`: what is taken away is the last
  `--yes`. `RemovalKeepsClass`: a sensitive command stays sensitive without it,
  because `--yes` is no word of the classifier (`ConfirmationIsMild`), and the word
  that makes a command sensitive moves by one place at most. `UpperKeepsClass`
  is the same for the name in capitals.
- *Options.* `DurationIsSent` is about the division: less than a millisecond is
  lost, and what is positive stays so, because the code refuses what it would
  round to zero. `PairsAreSent`: with no name twice, the function that is sent
  has every pair. `ScheduleIsCoherent`, `ListIsCoherent`, `LedgerIsCoherent`: the
  combinations that are let through.
- *Queries.* `ReadingIs` and `AssigningIs` show that the recursive functions of
  the reading exist, and `SetInduction`, from the well-foundedness of the
  natural numbers with a set in the place of a predicate, carries a statement
  along them: after n parameters, the reading is well exactly if the first n can
  be the parameters of one query (`Whole`), and then it holds them, as many as
  there are (`Follows`). `NamesDiffer` relates this to the number of names, and
  `AcceptedIsWellFormed` to `WellFormed`, which is stated of the whole line.
  `FloatIsNearest`: a number of more than 64 bits is off by half the spacing at most.

Assumptions: `CallsAssumption` (above), `MillisecondAssumption` and
`NumbersAssumption` (positive or natural constants).

**Blocking waits** (at the end of `CommandProofs`): `AlwaysAnsweredInTime` and
`NeverRefusedWithoutReason`. Three lemmas (`SecondsAgree`, `MillisecondsAgree`,
`BlockAgrees`) show, for each parser of the code, that it accepts what the
server would accept and reads the same wait from it, and `StoreReads` puts them
together for the commands; the server's side is defined from its own grammar.
`AcceptedFits` says that what is accepted leaves the margin,
`RefusedDoesNotFit` that what is refused would not have left a millisecond more.
The invariant: the time held is at most the server's wait and all other time at
most `Overhead`; a command that was refused failed the check (`NotAccepted`).
Assumptions, the three parts of `WaitsAssumption`: `UnitsAreSound`, with
`Overhead < Second`, the margin that the code grants the network;
`LinesAreSound`, that a command has its arguments and that nothing but the
option is called `BLOCK`; `NumeralsAreSound`, that the words that are numbers are
fractions. `MillisecondAssumption` is that of `Durations`. The proofs are about the
specification `WaitSpec`: the names of `BlockingWait` differ from those of
`CommandSafety`, so that one module can extend both.

**Transactions** (`TransactionProofs`): `TypeCorrect` and `TransactionIsAtomic`,
the refinement of `AtomicBatch`. The invariant adds, for each process, that the
verdict fits its place and its EXEC (`VerdictFits`), that the server's queue is
the file up to the command that is next (`QueueFits`), and that what is watched
are versions no newer than the present ones (`WatchFits`); the last makes
"unchanged" at EXEC mean unchanged since WATCH.

**Claims and leases** (`FlowLeaseProofs`): `TypeCorrect`,
`NobodyAcknowledgesTwice`, `SignalsActOnce` and three action properties,
`OnlyTheHolderActs`, `TakenOverOnlyIfAskedFor`, `StartsAreRepeatable`, for any number of
users, executions, claims and requests, all of them delayed, lost or answered
too late. The invariant has three parts besides the types. A request on the wire
says what was typed, and what was typed is a line that the command accepts, a
batch without repetitions among them (`Faithful`). The lease that a record names
was issued for this execution with this fencing token, only an open execution
has one, and only one that is held is live (`Held`). A claim was acknowledged at
most once, and never while it is in force or before it was issued (`Unspent`):
this is what makes an acknowledgement that is sent twice, or that stayed on the
wire until somebody else claimed, act at most once. Each command has its
lemma, that it sends only lines it accepts, and each handler of the server one
for the invariant. Assumptions: `BoundsAssumption` (finitely many executions and
claims) and `SessionsAssumption` (the kinds of what is typed).

**The exchange** (`PlatformExchangeProofs`): `TypeCorrect`,
`SecretsAlwaysStayHome`, `ExchangeFailsClosed`, `LoginAlwaysProven`,
`TrustAlwaysWhole`, `NoClientLeft`. The invariant relates the place in the call
to the secret that is presented (`Presented`), to the answers that can have come
(`Running`), to the trust (`Trusting`) and to what PING proved (`Proven`).

Only model-checked:

- The five liveness properties, which are outside the prover: `CallsEnd`,
  `CommandsEnd`, `ResolveEnds`, `CommandEnds`, `ExchangeEnds`.
- The three properties that the findings refute.

## 5. Not modelled

Formatting of results and the output contracts; reading from a terminal and
bounded reading of payloads; the SDK and its wire protocol; help texts and shell
completion; the entry point and build information; commands that only read and
take no options that are looked at (history, search, statistics, `profile show`,
the indexes of queries). They keep no state and order no steps, or are not part
of this repository. Server behaviour is modelled only as far as the commands
depend on it, and is marked external.

## 6. Plan

1. `TwoLocks`: the credential lock and the document lock in one model, for the
   order in which they are taken.
2. `profile list` and completion, which read the profiles and the selection in
   two calls.
3. Larger instances: three callers of the document, two steps of other processes beside a
   network command.
