# Gratis: a verification project

Gratis is a hosting control panel. One API process per replica (`api/`) serves an HTTP API to
a dashboard (`web/`) and a gRPC service to agents (`agent/`); one agent runs as root on every
managed host and carries out commands: virtual hosts, system accounts, databases, DNS
zones, mail. This directory holds TLA+ models of that program, the TLC configurations that
check them, and TLAPS proofs about them. Paths below are relative to the repository root.

## 1. Inventory

| part | code | state | operations | module |
|---|---|---|---|---|
| sessions and command dispatch | `api/internal/grpc/server.go` | `agents` (server ID -> session), `pending` (command ID -> result channel), one `send` channel per session, one `resultCh` per call | `Connect`, `handleSession`, `handleAgentMessage`, `SendCommand`, `registerAgent`, `unregisterAgent` | `ControlPlane` |
| agent connect loop | `agent/internal/rpc/agent.go` | the stream in use, one goroutine per command, `lastCPU` | `Run`, `connect`, `session`, `handleCommand`, `buildHeartbeat` | `ControlPlane`, `Fleet` |
| dispatcher | `agent/internal/rpc/dispatch.go` | the managers, those of services that are not configured nil | one handler per kind of command | `Host`, `Vhosts` |
| provisioning | `api/internal/store/store.go` | PostgreSQL tables `servers`, `provisioning_tokens` | `CreateToken`, `ValidateToken`, `UpsertServer` | `Provisioning` |
| virtual hosts | `agent/internal/webserver/nginx.go` | `sites-available`, `sites-enabled`, what nginx has loaded | `CreateVhost`, `DeleteVhost`, `RestartService` | `Vhosts` |
| mail | `agent/internal/email/manager.go` | tables `virtual_domains`, `virtual_users`, `virtual_aliases`, the mail directories | `AddDomain`, `RemoveDomain`, `CreateAccount`, `CreateAlias`, ... | `Mail` |
| DKIM | `agent/internal/email/dkim.go` | key directories, `KeyTable`, `SigningTable` | `SetupDKIM`, `RemoveDKIM` | `Dkim` |
| DNS | `agent/internal/dns/powerdns.go` | zones and RRsets in PowerDNS | `CreateZone`, `DeleteZone`, `UpsertRecord`, `DeleteRecord` | `Dns` |
| databases | `agent/internal/database/mariadb.go` | MariaDB databases, users, grants | `CreateDatabase`, `DeleteDatabase` | `Databases` |
| accounts | `agent/internal/system/accounts.go` | Linux users, their home directories, quotas | `CreateAccount`, `DeleteAccount` | `Accounts` |
| metrics | `agent/internal/system/metrics.go` | the last CPU sample | `SampleCPU`, `CPUPercent`, `ReadMemInfo`, ... | `Metrics` (CPU) |
| HTTP routes | `api/internal/grpc/routes.go` | none of its own | list and detail of servers, tokens, vhosts | `Fleet`, `ControlPlane`, `Sites`, `Provisioning` |
| start and shutdown | `api/cmd/api`, `agent/cmd/agent`, `Server.Run` | | `GracefulStop`, `Shutdown`, signals | `Fleet`, `Host` |

How the parts interact. An HTTP request becomes a call of `SendCommand`. It finds the
session of its server in `agents`, enters its result channel in `pending`, queues the
command on the session's `send` channel and waits at most 30 seconds. The session's handler
goroutine writes the command to the gRPC stream. The agent starts a goroutine per command,
which runs the dispatcher and sends a result on the stream the command came by. The handler
claims the call from `pending` by the command's ID and delivers the result. Streams break,
agents redial after 5 seconds, and either process may restart at any time. Heartbeats come by
the same streams every 15 seconds and are written into the session, where HTTP requests read
them. Replicas of the API share the database and nothing else.

What is hard here:

- *Reconnects.* A new session may register before the handler of the old one has ended;
  both then act on the same entry of `agents`.
- *Stale sessions.* `SendCommand` and `handleGetServer` use the session they looked up after
  releasing the lock.
- *Timeouts.* A result may arrive before, while, or after its caller gives up.
- *Restarts.* The API forgets calls that agents are still running; an agent that dies leaves
  commands half done, on disk and in MariaDB and PowerDNS.
- *Concurrent commands.* Commands of one host run in goroutines of their own, in any order,
  over shared files, tables and services, each in several steps that can fail half-way, or
  report a failure of what was done.
- *Shared files.* Tables that are read, truncated and written back without a lock; home
  directories that accounts share or that lie in one another.
- *Boundaries.* Counters that wrap, a quota that is rounded to none, the full channel, a name
  with several spellings.

`PROJECT.json` lists the hazards line by line, with the properties that cover them.

## 2. Plan

The order is by importance; what exists is marked.

1. `ControlPlane` (done): sessions, registry, command dispatch, reconnects and restarts, with
   `CommandRpc` (done), the abstract remote call it implements, and the proofs (done).
2. `Vhosts` (done): concurrent create and delete commands over the two nginx directories,
   `nginx -t`, rollback, faults and crashes, with the proofs (done).
3. `Provisioning` (done): token binding, the foreign key, concurrent first use, with the proof
   (done).
4. `Commands` (done), the frame of the other commands; `Databases`, `Accounts`, `Dns`, `Mail`,
   `Dkim` (done), each its kinds of command; `Host` (done), the dispatcher over all of them,
   with the proofs (done).
5. `Metrics` and `Fleet` (done): replicas, drain, heartbeats, the list and detail routes, with
   the proofs (done).
6. `Sites` (done): `Vhosts` under the delivery of `CommandRpc`, from the HTTP status to nginx,
   with the proofs (done). `Host` needs no such module: its commands arrive in any number, at any
   time and with any overlap (`Arrive`), so delivery can only take behaviours away.

## 3. Modules

### `ControlPlane` and `CommandRpc`

Processes and goroutines are identified by what they own: an agent process, a stream (its
handler goroutine at the API), a call (its `SendCommand` goroutine), a job (its
`handleCommand` goroutine). One action is what one goroutine does between two points where
another can interfere: a critical section of `s.mu`, a channel operation, a stream operation.

| variable | code |
|---|---|
| `agents`, `pending` | the maps of `Server`; `pending` as its set of keys, the channel being that of the call |
| `resultCh[k]` | the channel of capacity 1 that `SendCommand` makes |
| `sendq[c]` | `connectedAgent.send`, capacity `SendCap` (32) |
| `handler[c]`, `inhand[c]` | where the handler goroutine of stream `c` is; the result it has claimed and not delivered |
| `pc[k]`, `via[k]`, `target[k]` | where call `k` is or how it returned; the session pointer it holds; the server it is for |
| `stream[c]`, `owner[c]`, `up[c]`, `down[c]` | the gRPC stream: open or broken, who dialled it, the messages on the way in each direction, the 8-slot `recv` channels included |
| `phase[a]`, `aconn[a]`, `jobs` | the agent's reconnect loop, its stream, its command goroutines |
| `ran`, `verdict` | history: which agents started a command, and what the dispatcher returned |

The actions follow the code top to bottom: `Dial`, `BeginSession`, `TakeCommand`, `Finish`,
`Report`, `SessionLost`, `AgentRestart` on the agent; `Accept`, `Reject`, `RegisterAgent`,
`SendCommandDown`, `SendCommandLost`, `ClaimResult`, `DeliverResult`, `EndSession`,
`UnregisterAgent` in the handler of a stream; `Lookup`, `Post`, `Enqueue`, `TakeResult`,
`Expire`, `GiveUp` in `SendCommand`; `Break` and `ApiRestart` around them. `Status` is what
`handleCreateVhost` and `handleDeleteVhost` make of the return of `SendCommand`.

Abstractions. Heartbeats and log messages are left out (they change neither the registry nor
a call; `Fleet` has the heartbeats). What authenticate returns is a constant, `ServerOf`:
without a store it is the hostname, with one it is what the token is bound to; two agents may
have the same server. The content of a command is its call. A stream that nobody refers to is
reused by a later `Dial`, which keeps the model finite while agents reconnect without bound.

`CommandRpc` says what an HTTP handler may assume of `SendCommand`: the call is refused and
nothing runs; or it is issued, runs at most once, and is answered with the verdict of its own
run or abandoned, in which case it may still run later. `ControlPlane` implements it under
the mapping `Rpc` (call phase from `pc`, number of runs from `ran`).

`ControlPlaneInv` holds the inductive invariant, `ControlPlaneProofs` the proofs,
`MCControlPlane` the instances for TLC. Operators marked "Variant of" are faulty versions of
the operator after them; the properties are tested against them.

### `Vhosts`

One action is one file operation or external command of `CreateVhost`, `DeleteVhost` or
`RestartService`; commands interleave because the agent runs each in a goroutine of its own and
`nginx.go` takes no lock.

| variable | code |
|---|---|
| `conf[d]` | `sites-available/<d>.conf`: which command wrote it, nothing, or the rest of a write that failed (`Torn`, `Blank`) |
| `link` | the domains with a link in `sites-enabled` |
| `up`, `loaded` | whether nginx runs, and the configs it serves |
| `pc[o]`, `kind[o]`, `dom[o]`, `sound[o]` | where command `o` is or how it ended, and its arguments; `sound` abstracts them all to whether nginx accepts the config they render |
| `slipped` | history: a failure left something behind that nobody was told of (a link whose removal failed, a file cut short, an agent that died between the link and the test) |
| `last[d]`, `was[o]` | history: the last command begun for a domain, and its files when the command began |

`BeginCreate`, `WriteConf`, `RemoveStaleLink`, `EnableSite`, `TestConfig`, `DisableSite`,
`DiscardConf`, `ReloadNginx` are the lines of `CreateVhost` in order; `DropLink`, `DropConf`,
`ReloadNginx` those of `DeleteVhost`. nginx is external: it accepts the directory when no link
dangles and no linked file is malformed (an empty file is accepted and defines no site), and
a reload that fails changes nothing. Two constants say what the environment does: `Overlaps`
(which commands the API sends before the last is done) and `Faults` (file operations and
programs fail; the agent restarts). `Vhosts` keeps a frame of its own, apart from `Commands`:
its properties compare a command with the one before it, which that frame forgets.

### `Sites`

`Sites` puts the calls of `CommandRpc` (`phase`, `runs`, `verdict`, which `ControlPlane`
implements) before the files of `Vhosts`: the same identifier is a call, its command and its
goroutine.

| variable | code |
|---|---|
| `request[o]` | the payload that the handler of the route passes to `SendCommand` |
| `tasks` | the goroutines of `handleCommand` that have not reported |
| `asked[d]` | history: the last call made for a domain |

`Ask`, `Unsent`, `Reply` and `TimeOut` are `handleCreateVhost` and `handleDeleteVhost` around
`SendCommand`; `TakeCommand` is the agent's loop, `HandleCommand` a step of the dispatcher and,
after its last one (`Reported`), the result. `AgentDies` takes all goroutines with it. Nothing in
the code keeps commands for one domain apart, so the model says what a caller has to do: not to
ask for a domain before the last command for it is over (`MayAsk`). A caller that got an answer
knows this; after a timeout it does not, as the command may still be on its way or running.

`W` is `Vhosts` with commands for different domains overlapping only, which the theorems of
`VhostsProofs` assume; `ImplementsVhosts` says that what reaches the files under such callers is
that.

### `Provisioning`

One action is one SQL statement of `CreateToken`, `ValidateToken` or `UpsertServer`; there is
no transaction around them. The variables are the rows of the two tables and, for every
registration, how far it is and what it has read. PostgreSQL is external: a statement takes
effect as a whole or fails, and the foreign key of `migrate` is enforced at once.

### `Commands` and the modules of one kind of command

`Commands` is `handleCommand`: a command arrives (`Arrive`), takes its steps (`Goto`, `Try`),
and succeeds, fails (`Over`) or is lost with the agent (`AllLost`). `Try` is a step whose error
ends the command, whether or not the step had its effect: a statement or a request whose
answer is lost reports an error after it was carried out.

What a success promises is stated for as long as it `Stands`: until a command arrives that may
undo it, or from the start when such a command is still running. Each module says which do
(`DbUndoes`: a create and a drop that share the database or the user; and so on), so commands
for different things, and repeated commands for one, stay within the promise. `Disturbs` is for
overlaps that break it only while they last, and puts commands into `raced`; the promise that is
withdrawn from those is the one each property names.

| module | variables | one step is | what is particular |
|---|---|---|---|
| `Databases` | `dbs`, `pass`, `grants` | a SQL statement | users with several databases, databases with several users; `CREATE USER IF NOT EXISTS` keeps a password; `DROP DATABASE` keeps grants |
| `Accounts` | `users`, `homedir`, `owner`, `limit` | `useradd`, `setquota`, `userdel` | a home is given or the default, and may be that of another account or lie in it (`Inside`): `useradd` leaves a directory that is there to its owner, `userdel -r` takes all inside; uids are reused; limits belong to a uid and survive it; the quota in whole blocks, with a tenth of grace; a `setquota` that fails is a warning |
| `Dns` | `zones`, `rrsets` | an HTTP request | names are labels with or without the dot, in every spelling; a PATCH is refused as a whole |
| `Mail` | `schema`, `id`, `nextid`, `boxes`, `aliases`, `dirs`, `found` | a SQL statement or a directory operation | tables are made one by one (`schema` counts them) and a statement on a missing one fails; a domain ID is looked up in one statement and used in the next; cascades; `INSERT IGNORE`; MkdirAll |
| `Dkim` | `key`, `keytab`, `sigtab`, `kept` | `openssl`, an append, the read, the truncation (`OpenTable`) or the write of a table | deletions write back what they read (`kept`), over what was appended since the truncation (`Overwritten`); a failed `RemoveDKIM` is only logged (`skipped`); `torn`: a table was cut short; `crossed`: two deletions overlapped |

MariaDB, PowerDNS, the account programs and `openssl` are external, modelled by the answers
the code meets. Arguments that validation refuses are not sent. Password hashing is injective,
so a hash is its password.

### `Host`

`Dispatch` starts any command of the kinds above whose manager is there and refuses the others
("not configured"). `Started` is what `main` makes of MariaDB when `s` statements of `SetupSchema`
had succeeded before: unreachable, then neither databases nor mail; reachable with the mail tables
complete; or reachable and a statement failed, then no mail, and the tables made so far stay. `AgentRestart` ends the commands in progress where
they are and chooses again; it may happen at any point, any number of times. `managers` keeps
only the managers the commands of the behaviour need: the others make no difference.

A behaviour receives the commands of one of `Mixes`, so that TLC does not multiply stores
that share no variable: DNS commands touch nothing that database commands touch. Mail and
domain commands share their tables and are mixed.

`CommandsProofs` holds what the proofs about commands of any kind share, and the invariants of
`Databases`, `Accounts` and `Dns`; `MailProofs` that of `Mail` and `Dkim`; `HostProofs` the
theorems about `Host`.

### `Metrics` and `Fleet`

`Metrics` has for every host the cpu line of `/proc/stat` (`stat`), each field modulo `Modulus` (2^64
in the code), the agent's `lastCPU`, and as history what was counted since that sample (`since`).
The fields are those that the code tells apart or that are peculiar: idle time; iowait, which it
counts as busy; guest time, which the kernel has in user already and the code adds a second
time; and all the others as one. `ReadLine` is the sum of `SampleCPU`, with the zero for a field that
does not parse; `CPUPercent`, `Plus` and `Minus` are its arithmetic. `Tick` is time that passes,
`GoesBack` a counter that the kernel takes back. `unfit` marks the hosts whose next report a
restart, a misread line or such a counter has spoiled.

`Fleet` has the replicas of the API process, each with its registry (`agents[p]`), the streams
with their handler goroutines as in `ControlPlane` but for what they carry, and:

| variable | code |
|---|---|
| `pod[p]` | the process: listening, in `GracefulStop` (`draining`), or gone |
| `sent[c]`, `lastMetrics[c]`, `lastSeen[c]` | heartbeats sent on a stream, by number; the one whose metrics, and whose arrival time, its session holds |
| `view[k]` | an HTTP request of `handleGetServer`: the session it found, what it has read of it |
| `shown[c]` | history: the newest heartbeat of the session that an answer has shown |

`StoreMetrics` and `StoreSeen` are the two writes of one critical section. What takes `s.mu`
waits for its end (`Locked`): registering, unregistering, the next heartbeat and the look-up of a
request. But `handleGetServer` reads both fields after `RUnlock` (`ReadSeen`, `ReadMetrics`), and may
see the first write without the second. That is a data race, in which a read returns any value that the
field has had since the look-up (`Since`) -- for the time also a torn one, since `time.Time` is more than
one word. No order between the two reads is assumed: a new time may come with old metrics, and the
other way round. `lastMetrics` is read twice, for nil and for its value; it is a pointer, and a second
read of one location by one goroutine does not return an older write than the first, so that one
step stands for both. `Terminate`, `Exit` and `Kill` are the shutdown: `GracefulStop` waits for the
handlers, which end only when their agents do, so the end is normally the kill after the grace
period; `Start` is the restart policy.

## 4. What is checked

| run | instance | shows |
|---|---|---|
| `reconnect` | 1 agent, 3 streams, 2 calls, `SendCap` 2 | `ReplyIsOwn`, `PendingOwned`, `DeliverNeverBlocks` under every order of reconnects, restarts, late and lost results; `ImplementsRpc` |
| `shared_id` | 3 agents, 2 of them with one server ID, 2 streams, 1 call; handlers fair | `RegistryLive` and `RunsOnceOnTarget` while sessions replace each other and another server is connected; `StaleEntryCleared`: the entry of a broken session goes |
| `send_blocks` | 1 stream, 2 calls, `SendCap` 1, fair | **violated** `SendCommandReturns`: it may hang for ever |
| `session_listed` | 1 agent, 2 streams, fair | **violated** `SessionListed`: an agent in session may never be listed |
| `sites` | 2 domains, 3 calls, late and lost answers, faults and restarts | `StatusTrue`: a 201 or 204 is true of nginx until the domain is asked for again; `ImplementsVhosts`: callers that wait keep commands for one domain apart; `OutcomeServed`: what nginx serves for a domain is what its last successful command left; `ValidUnlessTrying`: nginx accepts what is on the disk unless a command is trying a config it refuses |
| `vhosts_rollback` | 2 domains, 3 commands, one at a time, no faults | **violated** `RollbackRestores`: the rollback removes a vhost that worked |
| `provision` | 2 tokens, 3 IDs, 3 registrations | **violated** `FirstUseAccepted`: the first use of a token is refused |
| `host` | 3 or 4 overlapping commands out of each mix, failures with and without effect, restarts | what a success of every other command promises: `OutcomeDatabase`, `OutcomeDropped`, `OutcomeAccount`, `OutcomeNoAccount`, `OutcomeServes`, `OutcomeUnserved`, `OutcomeMailbox`, `OutcomeForwarded`, `OutcomeSigned`, `OutcomeRemoved` |
| `dkim_prefix` | 2 domains, one name extends the other, 3 commands | **violated** `OutcomeSigned`: a deletion takes the lines of the longer name too, with nothing else going on |
| `dkim_lost` | 2 domains, 3 commands | **violated** `SignedUnlessDeleted`: a write-back loses the line of another domain |
| `fleet` | 2 replicas, 1 host, 2 streams, 2 requests, fair | `CPUShare`: reported CPU shares are those of what was counted; `ViewsAdvance`: no view goes back behind an earlier one; `ComesBack`: once faults end, the agent is in a registry for good; `StaysBack`: and no step takes it out again |
| `fleet_replicas` | 2 replicas, no faults | **violated** `SessionFound`: a request that reaches the other replica does not find the host |

Bounds. Three streams let a session be replaced twice while the first handler still runs; two
let it be replaced once, and two agents with one ID do so without a third. Two calls are enough
for one to be answered with the other's result, to fill a channel of capacity 1 and to be
swapped; `SendCap` 1 or 2 reaches the full channel that 32 reaches in production. Agents redial
and both processes restart without bound. What `shared_id` and `reconnect` say about safety is
also proved, for every instance.

For `Sites`, two domains are enough for a command to meet the files of another, and three calls
let a domain go through a create and a refused update or a delete while the other changes or
nginx is restarted; that they are enough is not needed, since all its properties are proved for
any number. `VIEW` leaves out `was`, which only `RollbackRestores` reads. In `host`, `most` of a mix is 3 (mail: 4): a first command that succeeds, one that
overlaps or follows it, and one between the two. Databases, users, names and uids come in twos,
so that commands share one thing and differ in the other; the second user may be given the home of
the first, or a directory in it; the quotas are 1023 bytes (no whole
block) and 30000 (29 blocks and a remainder, with a grace that is rounded too). The DNS mix has one zone with
two names, two types, priority 10 and 0, and all spellings of each. The mail mix creates and
deletes one of its two domains; the other never exists. Commands are symmetric, so their names
do not matter.

In `fleet`, `MaxBeats` 2 lets a request read between two heartbeats of a session; `Modulus` 3 is
the smallest at which a counter and the sum wrap while more than one unit of time passes; `Budgets` has
one behaviour for each question in place of all at once: four ticks of the clock, or one with a
restart of the agent; three faults of replicas and streams; two requests, or one with a fault.

What the passing runs assume is part of what they show:

- `StatusTrue`, `OutcomeServed` and `ValidUnlessTrying` need that commands for one domain do not
  overlap, which neither the API nor the agent enforces (every HTTP request calls `SendCommand` at
  once, every command has a goroutine of its own). In `Sites` the callers see to it, and
  `ImplementsVhosts` shows that waiting is enough. Without it, a delete can remove the
  link before a create of the domain makes it, and the file after the create was
  tested and reported success: the dangling link makes nginx refuse every later change and a
  restart (`Overlaps` with `"same"` in `Vhosts`).
- `ValidUnlessTrying` leaves out what `slipped`: an agent that dies between the link and the test
  leaves an untested config enabled, and an ignored `os.Remove` error leaves a dangling link.
  Otherwise a create is refused only while some config that nginx refuses is being tried, its own
  or that of an overlapping command; and with no such config a restart never leaves nginx down.
- `OutcomeDatabase` promises the password only when the user was not there before and no other
  create of it with another password ran meanwhile: a retry keeps the old password.
- `OutcomeAccount` leaves out quotas below 1 KiB (rounded to no limit), quotas that were warned
  about, and the limits of a uid that an account created without a quota inherits. Of homes it says
  that the user owns its own, unless the directory was there before or went with the home of another
  user that was purged (`homeless`); both happen, since the code passes `homedir` on as it is.
- `OutcomeServes` leaves out a `CreateZone` whose records meet those of an upsert in progress. A
  command that reports an error promises nothing: a retry that meets a conflict, an MX record with
  priority 0 that is refused.
- `OutcomeForwarded` says nothing of an alias whose domain is deleted between the look-up and the
  INSERT: it is reported as created without a row, and the deletion withdraws the promise.
- `OutcomeSigned` needs that no deletion of another domain overlaps the creation and that no two
  deletions overlap later (`crossed`: one may read the table that the other has truncated, and write
  back nothing), and holds until a table is cut short (`torn`, by a failure or a death of the agent
  between truncation and write). `SignedUnlessDeleted`, without the first two, is what the run
  `dkim_lost` refutes. `OutcomeRemoved` leaves out what a deletion logged as an error, and directories when
  a mailbox of the domain was being created (`MkdirAll` makes them again).
- `CPUShare` says of what the reported number is the share: of all fields, so that guest time
  weighs twice, and that it is never below the share of the time the CPUs were busy. How far above it
  is (guests, iowait) is the code's choice.
- `ViewsAdvance` does not ask that time and metrics are of one heartbeat, which the unlocked reads
  do not give, and lets a time be torn as long as nothing of the session had been shown.
- `ComesBack` needs that no handler of an earlier stream is left when faults end:
  `session_listed` shows what such a handler does.

Fairness. `HandlersGoOn` assumes only that a handler goroutine of the API that can go on does,
that one of several ready cases of a Go `select` is taken in the end, and that a broken stream
is noticed. `FairSpec` of `ControlPlane` adds the same for `SendCommand` and the agent, timers that
fire, and an agent that redials. `FairSpec` of `Fleet` assumes of replicas that one in
`GracefulStop` is killed after its grace period and one that is down is started again
(`deploy/docker-compose.yml` has `restart`, Kubernetes a Deployment). Nothing is assumed about commands
(they may hang), heartbeats or the environment. A rejection by `authenticate` on a working stream is a
fault like the others: `ComesBack` speaks of the time after the last of them. An authentication that
rejects for ever keeps its agent out for ever. The
other modules have no liveness: a command may hang for ever in a program or a request without a
timeout, and nobody retries it.

The violations are defects of the code, or of what its documents promise:

- `server.go:233` sends on the session's channel before the timeout context exists. When the
  session's handler has gone and the channel is full, the HTTP request hangs for ever and its
  entry stays in `pending`. In the model's trace a call looks up the session, the session
  ends, and the channel stays full.
- `server.go:138`: the deferred `unregisterAgent(serverID)` deletes whatever session the ID
  has. When a host reconnects before the handler of its old stream has noticed the loss, the
  old handler deletes the new entry, and the host stays connected, unlisted and unreachable.
- `nginx.go:82`: the rollback removes link and file although the command had overwritten a config
  that worked. After a refused update the site is gone at the next reload.
- `store.go:84`: the token is bound to a server ID before the row of that server exists, which the
  foreign key of `store.go:117` refuses. With a store configured no fresh token can register.
- `dkim.go:80`: lines are removed by substring, so deleting `a.com` unsigns `a.com.br`.
- `dkim.go:131`: the table is written back as it was read, without the lines that other commands
  have appended since; or without any, when it was read while another deletion had it truncated.
- The registry is in the memory of one process, while the chart deploys two replicas and
  the runbook promises zero downtime: a host is found by the replica its agent is connected to.

## 5. What is proved

For the control plane TLAPS checks, for every number of agents, servers, streams and calls,
every assignment `ServerOf` and every capacity:

| theorem | states |
|---|---|
| `TypesAreKept` | `Spec => []TypeOK` |
| `RegistryIsLive` | `Spec => []RegistryLive` |
| `PendingIsOwned` | `Spec => []PendingOwned` |
| `DeliveryNeverBlocks` | `Spec => []DeliverNeverBlocks` |
| `CommandsRunOnceOnTarget` | `Spec => []RunsOnceOnTarget` |
| `RepliesAreOwn` | `Spec => []ReplyIsOwn` |
| `Refinement` | `Spec => ImplementsRpc` |

Assumptions: `ConstantsOK` only (a server for each agent, a positive capacity, `None` and
`Accepted` distinct from the values they stand beside). Streams, agents and calls need not
be finite.

The argument is the invariant `IInv` of `ControlPlaneInv`, in three layers, each inductive
given the ones before. *Wiring* says who may point at which stream: agents use streams they
opened, registry entries and `SendCommand` goroutines hold sessions of the right server, and a
held session's memory is not reused. It is needed because a stream is reused by `Dial`: without it a
queued command could turn up in the queue of another host. *Delivery* says that the answer of a call is in one of
three places: not claimed (`pending`), in the hand of one handler, or in the channel. *Routing*
says that a command that was not started sits in exactly one position of one channel or stream
of its own server, that it has at most one goroutine after that, and that every copy of a
result carries the recorded verdict. `RunsOnceOnTarget` is not inductive without it: the
command must be unable to be in two places. The refinement follows action by action from `IInv`.

For `Vhosts`, for any domains and commands and any faults, and but for the first under
`"same" \notin Overlaps`:

| theorem | states |
|---|---|
| `TypesAreKept` | `Spec => []TypeOK` |
| `OutcomesAreServed` | `Spec => []OutcomeServed` |
| `OnlyTrialsAreRefused` | `Spec => []ValidUnlessTrying` |
| `RollbackOnlyErases` | `Spec => RollbackErases`, assuming that no file operation fails |

The second needs `SInv` of `VhostsInv`: the last command of a domain is the only one that may be in
progress (`LastIsOwn`), and how far it is says what its files hold (`FilesFollow`). The point of
the proof is a reload by a command of *another* domain: it loads every file, so what it loads
for this domain has to be right already. The third adds `LinksVouched`: until something slips, a
link belongs to a domain whose last command tested it, is testing it or will still remove it. The fourth says what the
rollback does in place of `RollbackRestores`, which run `vhosts_rollback` violates: it leaves no file
of the domain, so it undoes the create of a new vhost and no other (`Unlinked`: the link it
removed is not made again by a command of another domain).

For `Sites`, for any domains and calls, any faults and every `Overlaps`, so also with commands
for one domain allowed to overlap:

| theorem | states |
|---|---|
| `SitesTypesAreKept` | `SitesSpec => []SitesTypeOK` |
| `SitesImplementVhosts` | `SitesSpec => ImplementsVhosts` |
| `StatusIsTrue` | `SitesSpec => []StatusTrue` |
| `SitesTrialsRefused` | `SitesSpec => []ValidUnlessTrying` |

They discharge the assumption of `VhostsProofs`: that module is instantiated with
`Overlaps <- {"other"}`, and every step of `Sites` is shown to be a step of that instance or to
leave the files alone. The argument is `CallsInv`: what has begun with the files is a call that
an agent has started, it is in progress only in a goroutine that has not reported (`TasksOwn`),
and of the calls for a domain all but the last one are over (`LastAsked`). So when a goroutine
begins, no other command of its domain is in progress (`ApartWhenBegun`). A command that timed out
and is still to run is the case that needs the last of these: it is not over, so the caller
has not asked again. `StatusIsTrue` then puts `OutcomeServed` of the files behind the verdict
that the answer carries (`AnswersTrue`). Assumptions: `ConstantsOK`, and `RequestsOK` (`None` is no
request).

For `Fleet`, for any replicas, hosts, streams and requests, any `MaxBeats`, any `Budgets` and
every `Modulus`, so also 2^64:

| theorem | states |
|---|---|
| `TypesAreKept` | `Spec => []TypeOK` |
| `CPUShareHolds` | `Spec => []CPUShare` |
| `ViewsOnlyAdvance` | `Spec => []ViewsAdvance` |
| `BackForGood` | `Spec => StaysBack` |
| `OneReplicaFinds` | `Spec /\ []OneHandler => SessionFound`, assuming that `Pods` has one member |

`CPUShareHolds` rests on `GInv`: the line of a fit host is ahead of its last sample, in the total and
in idle, by what was counted since, modulo `Modulus` (`Ahead`), and that is less than one round
(`Small`). The lemmas before it say that a sum and a difference modulo `Modulus` are undone
by one another as long as the sum stays below a round, and that the sum of the fields advances by the
fields that advance, although each may wrap on its own. `ViewsOnlyAdvance` rests on `FInv`
and `Floors`: time and metrics of a session differ by at most the heartbeat that is being stored
(`BeatsOrdered`), no answer has shown more than the session holds, and what a request reads begins
at its look-up, which the lock keeps from falling between two writes (`ViewFloor`). Without that
lock the time could be older than the metrics an earlier answer showed.

`BackForGood` is the safety half of `ComesBack`, and `OneReplicaFinds` the positive side of the runs
`fleet_replicas` and `session_listed`: with one replica, and as long as no two handlers of one host run
at once (`OneHandler`), a host that is connected is found. *Connected* speaks of the agent, its stream and its
handler, not of the registry; that the entry is there is `Listed`, and it is kept because only the handler of
another stream of the host could remove it. Both conditions are needed, as those runs show. Both theorems rest on `Wired`: what a
registry holds under a host is a stream of that host whose handler is still there, in that
process, and a handler closes only after its stream broke. `BackForGood` goes through the
steps one by one: without faults nothing breaks the stream of a session, and the only
`unregisterAgent` that could remove its entry is that of its own handler, whose stream is
not broken, or that of a handler of an earlier stream, and there is none.

For `Provisioning`, for any tokens, server IDs and registrations, without assumptions:

| theorem | states |
|---|---|
| `NobodyEverRegisters` | `Spec => []NobodyRegisters` |

It completes run `provision`: with a database that starts empty not only may a first use be
refused, no registration is accepted, ever, and no token becomes used. `NoServers` says why:
the `UPDATE` asks for a row of `servers` that only a registration past that `UPDATE` inserts.

For `Host`, for any number of commands of every kind, in any mix, with any failures and restarts:

| theorem | states |
|---|---|
| `TypesAreKept` | `Spec => []TypeOK` |
| `DatabasesHold`, `DropsHold` | `Spec => []OutcomeDatabase`, `Spec => []OutcomeDropped` |
| `AccountsHold`, `NoAccountsHold` | `Spec => []OutcomeAccount`, `Spec => []OutcomeNoAccount` |
| `MailboxesHold`, `AliasesHold` | `Spec => []OutcomeMailbox`, `Spec => []OutcomeForwarded` |
| `ServedHold`, `UnservedHold` | `Spec => []OutcomeServes`, `Spec => []OutcomeUnserved` |
| `RemovalsHold` | `Spec => []OutcomeRemoved` |
| `SignedHold` | `Spec => []OutcomeSigned`, assuming `Extends = {}`: no name of a domain begins another's |

Assumptions: `MixesOK` (a command that is sent is one of its kind: its names, uids, addresses
and domains are those of the constants; a DNS record is written in one of the spellings of the
name it means, and no label "@" is meant literally: `DnsSent`), `PasswordsOK`, `AccountsOK`, `ExtendsOK` (`None` is no
password, no uid, no directory and no command; a directory does not lie in itself) and `DirsOK` (the directory of a domain is not that of a
mailbox). A mix may have any number of commands, and a quota is any number. `SignedHold` needs
`Extends = {}` because a deletion removes the lines of every longer name: run `dkim_prefix`.

The argument is one invariant per kind of command (`DbInv`, `AccInv`, `DnsInv`, `MailInv`), each of the same
parts. The labels of a kind belong to its commands (`MailPcs`). While a command is in progress, every
outcome that it may undo is withdrawn (`MailUndone`), and so is what an overlap spoils
(`MailRaced`). A command whose outcome is not withdrawn has done, at each step, what its code has
done so far (`MailDone`): the outcome is what that says at "ok". A step of another command keeps
it, since the step changes only what belongs to its own command (`OthersKept`), and a command of
another kind, or a restart, changes nothing of this kind (`MailInvAside`).

Mail needs the most beside that. `RowTypes` says that a row belongs to the domain of its address and that
no number is given out twice; `FoundOwn` that a number looked up by a command is that of its own
domain or of no domain any more, so a late insert fails at the foreign key instead of filing
the mailbox under another domain. For DKIM an outcome depends on what deletions of other domains have
read and not yet written back: `Lined` and `Unlined` say that what they hold has the line of a
domain that was created, and lacks that of one that was deleted. While a table is truncated only the
deletion that is writing it has the lines; that there is one such deletion at a time is
what `crossed` gives.

For accounts `AccInv` has beside these parts who owns a home: a creation that is not `homeless` has made
its directory for its user, and only a `userdel -r` of that directory or of one around it takes it away.

DNS rests on a lemma about names beside its invariant, `SpellingsExpanded`: `expandName` turns every
spelling into the name that is meant, so what is sent to PowerDNS is what the command stands for
(`SentAsMeant`). The one overlap that could break a record after its command reported success
is the creation of the same zone, between its POST and its PATCH; `Settled` says that
for an outcome that stands there is none.

Only model-checked: liveness (`StaleEntryCleared`, `ComesBack`, and two violated properties of
the control plane), which is out of the prover's reach, and the
violations. Every safety property that a passing run checks is proved.

## 6. Not modelled

- Generated code (`gen/`) and the wire format: no behaviour of its own.
- The dashboard (`web/`): it renders three GET requests and keeps no state. Container and Helm
  files are the source of some promises and of nothing else; TLS, flags and logging are left out.
- In the API: the reader goroutine that leaks when `handleSession` returns with a full `recv`
  channel (`server.go:158`); concurrent use of `stream.Send` inside grpc-go (`agent.go:156`), which
  the library does not define: each Send has the outcome of a serial call or of a lost message;
  `healthz`; requests refused before they reach `SendCommand`.
- In `Metrics`: memory, disk and load, single readings that relate to nothing before or after.
- In `Vhosts`: the services of `RestartService` other than nginx; `systemctl reload` is taken to have
  taken effect when it returns. In `Dkim`: the TXT record that
  `SetupDKIM` returns and its caller drops, and the reload of OpenDKIM:
  a domain counts as signed when its key and lines are there, as they are at the daemon's next reload. In
  `Databases` and `Mail`: `_` and `%` in the name of a database, which GRANT takes for wildcards; the
  duplicate rows of an alias that is created twice (a set here); and a statement that takes effect
  after the agent that sent it has died. In `Host`: names and
  arguments that validation refuses, hashing, and the text of errors.
- Commands of different kinds meet only through the stores that one of the mixes shares; a
  customer database that is named `mail` like the one of the mail tables is not sent.
