# A TLA+ verification of SchedulX

SchedulX runs *schedule tasks* on groups of cloud machines: an **expand** obtains machines from
BridgX, initialises them over ssh and puts them behind a load balancer, a **shrink** takes them out
and gives them back, a **deploy** replaces the software on all machines of a cluster. A task is a
row in MySQL and a goroutine in the server that executes the *instructions* of a *template* one by
one. This directory models that scheduler, the tables it works on, its polling and listing loops, the
templates it reads, the services they belong to and the token it uses for Zadig; TLC checks small
instances, and TLAPS proves the results listed below for all values of the constants.

To repeat the checks: `tlc -config <run>.cfg <module>` for each run of `PROJECT.json`, and `tlapm` on
each module whose name ends in `_proofs`.

## 1. Inventory

| component | source | state | operations | hard behaviour |
|---|---|---|---|---|
| Schedule service | `service/schedulesvc.go`, `instrsvc.go`, `api/handler/service.go` | a goroutine per task with the request it hands from instruction to instruction | expand, shrink, deploy; `doInstr`; eleven instructions | tasks of one cluster are not kept apart; deferred functions decide what is recorded; panics; nothing resumes a task |
| BridgX service and node actions | `service/bridgxsvc.go`, `noteactsvc.go` | poller goroutine, channel, error counter | expand, shrink, three polls, machine lists | timer against late answer, error counting, unrecovered panics |
| Environment and node service | `service/envsvc.go`, `nodesvc.go`, `common.go` | a goroutine per machine, `sync.WaitGroup` | base and service initialisation, five deploy stages, callback | late callbacks, dropped errors, no time limit in `wg.Wait` |
| Mount service | `service/mountsvc.go` | - | mount, unmount | two systems updated one after the other |
| Tables | `repository/*.go`, `repository/model/db` | `task`, `instr_record`, `instance`, `schedule_template`, `instruction`, `service_cluster` | queries and updates | few transactions; ignored errors; `instance.task_id` with two meanings |
| Template service | `service/templatesvc.go`, `scheduletemplaterepo.go`, `instructionrepo.go` | templates and their instructions | create, update, delete | what a half-done request commits; updates under a running task |
| Task and instance service | `service/tasksvc.go`, `instancesvc.go` | - | progress, lists, counts | rates and counts derived from rows |
| BridgX, load balancer | `client/bridgxcli`, `pkg/cloud/aliyun` (clients only) | machines, asynchronous tasks, server group | expand, shrink, queries, add and remove servers | lost answers, partial success |
| Service administration | `service/service.go`, `repository/servicerepo.go` | `service`, `service_cluster` | create, delete, list, detail, history | queries that pick the first row of several; deletions that leave clusters, templates and tasks behind |
| Zadig integration | `service/integration_svc.go`, `zadigsvc.go`, `client/zadigcli`, `repository/integration_repo.go` | `integration`, the cached token | create, delete, login, refresh, workflow queries | a token without a lock, slow and failed logins, a refresh nobody recovers |
| Routing, ssh client, tools | `api/router`, `pkg` | - | pass-through | - |

What makes them correct:

* a task's row and its records never contradict each other, ends are final, and a task ends;
* the stages of a task do not overlap on its machines, whatever fails or times out;
* tasks of different clusters do not disturb each other;
* a machine serves only while it runs and is set up; it is released only after it left the server
  group; none that runs is forgotten, none is counted twice;
* a verdict of a poll is grounded in an answer, and no poller is leaked; the listing that follows takes
  every page once and ends;
* a template and its reverse fit together after any sequence of requests, and a running task keeps
  the instructions it started with;
* a service keeps its cluster, and what lists, details and checks find is what is there;
* a request for Zadig has a token unless something failed, and in the end the right one.

`PROJECT.json` lists the hazards this comes from, each at its line, with the properties that cover it.

## 2. Modules

| module | models | built on |
|---|---|---|
| `Repository` | `task`, `instr_record`, `instance` and the operators of the repository package on them | |
| `Cloud` | BridgX and the load balancer as the clients see them (external) | `Repository` |
| `EnvService` | the goroutines per machine, their commands and callbacks | `Repository` |
| `ScheduleSvc` | the scheduler: requests, instructions, errors, panics, crash and restart | `Cloud`, `EnvService` |
| `TaskLifecycle` | abstract: what a task promises to those who poll it | |
| `ScheduleProps` | the properties of the scheduler and its refinement of `TaskLifecycle` | `ScheduleSvc` |
| `MCSchedule` | model values, symmetry and fairness for TLC | `ScheduleProps` |
| `PollQuery` | one poll: poller, channel, `select` | |
| `Paging` | the loop over pages that lists machines or rows, while they change | |
| `PollAndList` | a poll, and the listing its caller goes on to | `PollQuery`, `Paging` |
| `TemplateSvc` | templates, instructions, cluster binding, a task reading them | |
| `Services` | services, their clusters and the tasks of their templates; what queries find | `TemplateSvc` |
| `MCServices` | model values, symmetry and a bound for TLC | `Services` |
| `IntegrationSvc` | integrations, the cached Zadig token, requests and refresh | |
| `ScheduleSvc_proofs`, `ScheduleLifecycle_proofs`, `ScheduleRows_proofs`, `ScheduleBarrier_proofs`, `ScheduleSerial_proofs` | theorems about the scheduler | each on the one before, the first on `ScheduleProps` |
| `PollAndList_proofs`, `Services_proofs`, `IntegrationSvc_proofs` | theorems about a poll and its listing, services with their templates, the Zadig token | their modules |

### The scheduler

`run[t]` is the goroutine of task `t`. Its `pc` names the call it is about to make - to BridgX, to
the load balancer or to a table that other goroutines use - and one action is that call with the code
up to the next one. `grp` is the `InstGroup` that `doInstr` hands to the next instruction, `key` the
task id that goes with it, `bx` the BridgX task, `err` the goroutine's `asyncErr`.

The writes to the task's own rows (step, record) that surround a call belong to its action: the goroutine
is the only writer of them, so nobody can tell the difference, except a crash in between,
which leaves the step or record of one instruction one write behind. The deferred functions are part
of the actions that return: `Succeed`, `Fail` and `Finish` write what the deferred functions of the
instruction, of `ExecAct` and of the goroutine write, `TaskPanics` what they write during a panic.
`Spawn` starts the goroutines of `EnvService`, whose `NodeReturns` is the command and the callback.

`Faults` chooses what may go wrong: `bridgx` (refusals, failed BridgX tasks), `lost` (BridgX or the
load balancer acts, the answer is lost), `auth` (the query for the cluster fails, which
panics, or in the listing of a deploy is an error), `slb`,
`ssh`, `slow` (remote work outlasts a poll), `db` (any statement fails), `crash`. Errors the code
ignores are ignored in the model (`stored \in Outcomes("db")`); errors it returns end the instruction
(`InstrFails`); answers it dereferences without looking end the process.

Left out: parameters of instructions, credentials and scripts; the sleeps; the paging of lists, which
`Paging` has; the order of rows. A failed unmarshalling of an instruction's parameters has the effect of a failed call. A
deploy has a `recover`, but nothing in its instructions panics on a modelled failure.

### A poll

`ScheduleSvc` takes a poll as one step with a guard (the rate is 1) and a way out (`PollGivesUp`).
`PollQuery` justifies that: it has the clock, the poller's sleep, its three errors, its own limit of
two seconds more than the caller's, the channel of capacity one and the `select`. A behaviour is one of the
two kinds of poll in `Polls`: `bridgx`, which counts failed queries, or `nodes`, the poll of the machines, whose
failed query is a nil dereference in a goroutine without recovery: the process ends (`PollPanics` of
`ScheduleSvc`). A poller that outlives its caller by two seconds can still panic; in `ScheduleSvc`
that is an ordinary `Crash`.

### A listing

After its poll `poolQueryTask`, like `pollQueryExpandAction`, asks for page after page until it has as many
instances as the last answer counted; `clusterInstances` does the same without a poll. In `Paging` `rows` is what
there is to list: machines of BridgX, one answer per page, or rows of the table `instance`, where a page is two
statements (`FindRows`, `CountRows`), with the error of the second one like that of the first. `Leaves` and
`Enters` are the rest of the system. `PollAndList` starts the listing when the poll has passed. `ScheduleSvc`
takes a listing as one step: what may go wrong between its pages is the subject of `Paging`.

### Templates

Creating, updating and deleting are database transactions. The first statement of a create locks the row
of its service cluster and that of an update the row of its template, so one transaction is one step.
Deletion sets flags; instructions are read by id whatever their flag says. What the model tells apart is
what is committed when a request fails: all of it is rolled back when the deferred function sees the error
(`Refused`), what was done so far stays when the error is shadowed (`ShadowedIn`) or when the request
lacks a part and the code panics (`CreateContainerPanics`, `UpdateContainerPanics`, `OmittedIn`); the
HTTP server recovers, so the process survives.

An update takes whatever template its id names and whatever cluster its request names, and its kind from the request, not from the row.
`UpdateInstance` deletes that row, be it one half of a pair, of another cluster or gone; `UpdateContainer` by the id of a shrink template makes the two
of the pair change places: the row that is called expand then holds the shrink steps. `Delete` first looks up what is to be deleted, for the reverses and the clusters;
when that query fails its error is dropped (`DeleteUnseen`): only the named rows go, nothing is unbound, and the caller is told "ok".

`torn` remembers the clusters of which a request was left half done, took a pair apart or took the template from a binding. Properties that such a request
does break in the code speak of the other clusters (`Kept`), and say what is still true of these: two live templates that are each other's reverse undo
each other (`PairsAreWhole`), and a task runs the steps of one of the two (`MayRun`). A deletion of no ids at all is left out.

### Services

A service and its one cluster, `default`, are created in a transaction; a deletion flags the service only. A
cluster is known by the name of its service, a task by its template: `running` holds the templates of the tasks that go on, `MaxTask` of them at most.
A caller may ask `GET /service/scheduling` (`Scheduling`) and, in a request of its own, start a task (`Schedule`) or not (`Forgoes`). Nothing in the
server holds the two together or makes anybody ask: `Careful` are the callers who do, `looked` is what they were told and have not acted on. The queries
are operators with the names of the functions: `HasRunningTask` goes from the name over clusters and live templates to
tasks, `GetServiceList` and `TmplExpandId` (of `GetServiceDetail`) take the first template, `GetScheduleTempList` the first expand one. `UpdateService` writes descriptions
no other part reads and is left out.

### The Zadig token

`proc[p]` is a goroutine: the refresh, or one that serves requests. A request reads the host, then the token, and
logs in when the token is empty. A Go string is a pointer and a length, which the assignment
`s.ZadigToken = resp.Token` stores one after the other without a lock: `StoreWord` is one of them, and a
reader in between gets a mixed string. A token is the id of the integration whose login it came from, so that the model can tell
whose it is. `excused` remembers which requests met a failure; `trouble` bounds failures. `Restart` is an
operator's, or follows `LoginUrlPanics` of the refresh, which ends the process.

## 3. What is checked

| run | shows |
|---|---|
| `Concurrent` | two tasks of any kind at the same time, in one cluster or two, every fault but `db`, `slb` and `auth`: `TypeOK`, `PhaseBarrier`, `RecordsTellProgress`, `WorksInOwnCluster`, `RateIsDefined`, `RevivedByItsOwnTask`, and the scheduler implements `TaskLifecycle` |
| `SerialShrink` | three tasks, one at a time: `ReleasedNotServing`, `LossIsReported`, `OnlyReadyMachinesServe`, `ShrinkWithinCountIfMounted` |
| `SerialDeploy` | three tasks of any kind, one at a time: `DeploySuccessIsComplete`, `OneLiveRow`, `RunningIsTracked`, `CountIsOfRunning` |
| `DbFaults` | one task, any statement may fail, in a cluster with a machine or in one without: `PhaseBarrier`, `OneLiveRow` |
| `Liveness` | `TasksEnd`, for two tasks of any kind at the same time whose ids are also those BridgX gives |
| `Poll` | the safety properties of a poll of either kind and of the listing after it, `BothEnd` and `ListingEnds` |
| `Templates` | a service with templates of both kinds and two callers who look before they start a task, with half-done requests, deletions that look nothing up, updates by any id: pairs reverse each other and stay whole unless taken apart, groups are current, bindings have a template, a task keeps its group; a service has its cluster; detail and history find what is there; `TasksWithinCallers`, though both callers may have looked before either starts |
| `Zadig` | `EmptySentIsExplained` and `EventuallyAccepted` while integrations come and go, logins are slow or fail and the process restarts |
| `PanicSuccess`, `ShrinkTooMany`, `UmountAfterDeploy`, `TemplateShadowed` | end in a violation, see *Disagreements* |

Every property has a mutant in `PROJECT.json`: a definition of the model changed the way a bug would
change the code (the operators marked *Mutant* in the modules), under which TLC finds the property violated.

**Bounds.** Two machines are enough for a partial result (one ready, one failed); `Concurrent` has three, one
mounted already and two for an expand that partly fails while another task works on the first; two tasks for every interleaving of a pair, three where a property needs a history
(expand, deploy, shrink) and tasks follow one another. As many BridgX ids as the tasks of a run can use, or one fewer, where
BridgX then refuses. `Counts` has 1 and 2 in the serial runs, so that a request may ask for all machines or some,
and 2 in `Concurrent`. `Broken` names the kinds of task whose template may lack a readable group, which ends the
task at once; a template that is read is possible as well. `Mounted` starts a run
after an earlier expand, a state the program reaches by one; its row carries the first BridgX id. `EndStep` is
4 (all expand steps) or 3 (a template without load balancer). `MaxServers` is the constant of the code and is
not reached. In `PollQuery` the unit of time is arbitrary: an interval of 2, a patience of 6 and a grace of 1
give polls that are exactly on time, late, and woken after the caller has left; the clock stops at `MaxClock`.
`MaxRows` 5 with `PageSize` 2 gives listings of none, one, two and three pages, full and short ones, while rows leave and enter
between any two statements. `Templates` stops after `MaxTmpl` 3 templates and `MaxInstr` 7 instructions: a pair that is updated by either id or
taken apart, or a pair and deploy templates that replace one another. `Parts` names how many of the four
expand steps, or of the five deploy instructions, a request has or gets done: with {1, 4} a step is missing or all are
there, and a half-done request stops early or late. `TemplateShadowed` has all of 1..4. `MaxTask` 2 is the number of callers, so both may have a task; `OneOnceTorn` keeps
TLC from going on with two tasks or looks at once in a cluster that a request has left in disorder, where one is enough to meet what is left. Services have unique names and
clusters of their own and meet only in requests that name the template of another one (`torn`); that these disturb nobody else is in the proofs, which are for any number of services. `Zadig` has two hosts, two integrations ever (one
replaced by the other), two failures and one request beside the refresh, which is enough for two logins to overlap, mix their words and
be made good; the proof is for any number of requests. Symmetry over machines is used only in runs without
temporal properties and in which no machine is singled out by `Mounted`.

**Faults left out of a run.** `Concurrent` has no `auth`, for a panic records a success the lifecycle forbids
(`PanicSuccess`); no `slb`, whose refusals take the way out of `lost` without moving the server group and are in the serial
runs; and no `db`, under which `RecordsTellProgress` is false. `DbFaults` has `db` and `auth`. The serial
runs leave out crashes, after which a patient caller never gets a second task. `SerialDeploy` has no `bridgx` and no
`slow`: an expand that gives up leaves machines without rows, and late callbacks revive rows. `SerialShrink` has both, and `LossIsReported` says what remains of `RunningIsTracked` there.

**Ids.** BridgX and the scheduler number their tasks on their own, and `instance.task_id` holds ids of both. All runs but
`Liveness` keep the two sets apart. With common ids `WorksInOwnCluster`, `PhaseBarrier` and `DeploySuccessIsComplete` are false (the rate and the list of an expand
include the rows of a deploy with the same id, perhaps in another cluster; a rate that counts rows of the other task lets a stage begin early) and so is `RunningIsTracked` (a deploy whose insert meets the row of an
expand with its id fails after it has marked all rows DELETED); TLC finds each of them when `BxTaskId` is set to the ids of `TaskId`. That
tasks end is true nevertheless, which is what `Liveness` shows.

**Callers.** `OneAtATime` restricts requests to callers who take turns: each asks `GET /service/scheduling` and starts its task before the next one asks.
The server does not insist on either. What asking is worth is the subject of `Services`: it sees tasks of templates that are still there, and callers who ask at
the same time are all told that there is none, so that with n callers who all ask there may be n tasks (`TasksWithinCallers`), and only with one never two. Who does not ask is not bounded by
anything, hence the condition `Careful = Caller` of the property; nothing in the code enforces it. Properties of a history of tasks are checked for such callers; `PhaseBarrier`,
`WorksInOwnCluster`, `RecordsTellProgress` and the refinement hold for callers who do not wait.

**Deadlock** is checked in every run. The server with nothing to do is the action `Idle`, a poll that is over
`Rest`, a listing that is over `AllRest`; a task that waits for ever for a machine leaves steps of other actors or none, and is not hidden by them,
for `Idle` needs every task to be at rest.

**Fairness.** `TaskFairness` (weak, per task) is the Go scheduler running a goroutine that can run. `DeployNodeFairness`
(weak, per command) says that the commands of a deploy end: `wg.Wait` has no time limit and the ssh client none
for a running command, so a deploy whose command hangs never ends in the code either. Nothing is assumed of
BridgX, nor of the commands of an expand: expands and shrinks end although these hang, because `slow`
lets a poll give up, which is the `time.After` of the code. In `Liveness` `db` and `crash` are off: after a lost
final update or a crash a task stays RUNNING for ever in the code as well. `PollQuery` assumes that poller and
caller run and that time passes; an HTTP query ends because its client has a timeout; `FairBoth` adds that the caller goes on with its pages, and nothing of
the rows that move. In `Zadig` every started request goes on, and the refresh, whose timer fires every five minutes; the clients have timeouts of two
and three seconds. Nobody has to create an integration, to send a request or to restart the process. `EventuallyAccepted` speaks of behaviours in which
changes and failures stop, as the bounds make them.

**Disagreements.** Four runs end in a violation of what a comment or a description in the repository says; the
findings in `PROJECT.json` quote it: a panicking expand is reported as a success (`PanicSuccess`); a shrink
releases more than its count (`ShrinkTooMany`); a deploy makes the next shrink forget to unmount
(`UmountAfterDeploy`); a failed template request is committed in part (`TemplateShadowed`). The passing
properties say what holds nevertheless; `ShrinkWithinCountIfMounted`, for one, is the part of
`ShrinkWithinCount` that the code keeps. Other behaviour a reader may not expect is in the model without a run
of its own, each at its line: a shrink that could not read its instances shows the step of a finished one
(`ShrinkPickFails`, `instrsvc.go:207`); a deploy that fails between its two writes leaves running machines with
DELETED rows only (`DeployMark`, `DeployInsert`, `instancerepo.go:144`); UNALB is never stored (`UmountTaskId`,
`instancerepo.go:239`); errors of the first deploy stage are dropped (`NodeReturns`, `envsvc.go:113`); a container
template whose request lacks a part is committed in part (`CreateContainerPanics`, `templatesvc.go:300`); a deletion whose lookup fails deletes one
half of a pair and is told "ok" (`DeleteUnseen`, `scheduletemplaterepo.go:350`), after which expand and shrink may find halves of different pairs, the cluster stays bound
without a template, the detail may show a shrink template and the history misses its tasks; an update does the same to a pair when its id and mode do not fit
(`UpdateInstance`, `templatesvc.go:690`).

## 4. What is proved

| theorem | statement | assumptions |
|---|---|---|
| `ScheduleSvc_proofs!TypeCorrect` | `Spec => []TypeOK` | the named assumptions on constants |
| `ScheduleLifecycle_proofs!ProgressIsTold` | `Spec => []RecordsTellProgress` | no failing statements (`Stores`: `"db" \notin Faults`) |
| `ScheduleLifecycle_proofs!TasksLiveAsPromised` | `Spec => ImplementsLifecycle`, the refinement of `TaskLifecycle` | no failing statements (`Stores`), no failing query for a cluster (`Answers`) |
| `ScheduleRows_proofs!RateAlwaysDefined`, `OnlyWriterRevives` | `Spec => []RateIsDefined`, `Spec => RevivedByItsOwnTask` | the named assumptions |
| `ScheduleBarrier_proofs!PhasesAreBarriers`, `ClustersAreApart` | `PhaseBarrier`, `WorksInOwnCluster` | until a deploy has an id of BridgX (`[]IdsApart`) |
| `ScheduleBarrier_proofs!DeploysAreComplete` | `DeploySuccessIsComplete` | the same, and `Stores` |
| `ScheduleSerial_proofs!RowsAreSingle` | `OneLiveRow` | `[]IdsApart`; callers who wait, or a single task (`Patient`); no command outlasts its poll (`Timely`: no `slow`) |
| `ScheduleSerial_proofs!MachinesAreTracked`, `CountsAreRight` | `RunningIsTracked`, `CountIsOfRunning` | `[]IdsApart`, `Patient`; only `slb` and `ssh` fail (`Calm`); an expand has more steps than the purchase (`Initialises`: `EndStep > 1`) |
| `ScheduleSerial_proofs!ReadyMachinesServe` | `Spec => OnlyReadyMachinesServe`, under every fault | `[]IdsApart`, `Patient` |
| `ScheduleSerial_proofs!ShrinksWithinCount` | `Spec => ShrinkWithinCountIfMounted`, under every fault | `[]IdsApart`, `Patient`; expands end by mounting (`MountsInStep4`: `EndStep = 4`) |
| `ScheduleSerial_proofs!LossesAreReported` | `LossIsReported` | `[]IdsApart`; callers who wait (`Patient`) or never deploy (`NoDeploys`); `Stores`, `Answers`, `Initialises` |
| `ScheduleSerial_proofs!NothingIsLostUndeployed` | `Spec => []LossIsReported`, with tasks of a cluster at once | `NoDeploys`, `Stores`, `Answers`, `Initialises` |
| `ScheduleSerial_proofs!ReleasedDoesNotServe` | `Spec => []ReleasedNotServing` | `Patient`, `NoDeploys`, `MountsInStep4`, `Stores`; no answer is lost (`Heard`: no `lost`) |
| `IntegrationSvc_proofs!TypeCorrect`, `EmptyTokenIsExplained` | `TypeOK`, `EmptySentIsExplained` for any number of requests | the named assumptions |
| `PollAndList_proofs!ListingTypes`, `PagesAreFull`, `NoNodeTwice`, `ListingIsComplete` | `PagingTypeOK`, `FullPages`, `NothingTwice`, `ListedIsComplete` for every page size and number of rows | the named assumptions |
| `Services_proofs!PairsStayWhole`, `ShrinksFindTheReverse`, `FlagsAreOfOldInstructions`, `TasksFinishTheirGroup`, `BindingsHaveTemplates` | `PairsAreWhole`, `ShrinkUndoesExpand`, `GroupsAreCurrent`, `TaskKeepsItsGroup`, `BoundHasTemplate` for any number of services, templates and instructions | the named assumptions |
| `Services_proofs!ServicesTypesHold`, `ServicesHaveTheirCluster`, `DetailsAreRight`, `HistoryMissesNothing`; `CallersShareACluster` | `ServicesTypeOK`, `OneClusterPerService`, `DetailShowsExpand`, `HistoryShowsRunning`; `TasksWithinCallers` for any number of callers | the named assumptions |
| `PollAndList_proofs!TypeCorrect`, `SendNeverBlocks`, `DoneIsGrounded`, `EarlyFailureIsGrounded` | the safety properties of a poll | the named assumptions |
| `PollAndList_proofs!TogetherAsApart` | the safety properties of both for the poll with the listing after it (`FairBoth`) | the named assumptions |

`TypeOK` of the scheduler is not inductive: that the instruction a task executes is one of its group, and that the ids it
stores are BridgX's, follows only from where the goroutine is. `IInv` adds `Control`: for every task that is active, the
program counter belongs to the instruction at its index, the index lies within the group of the task's kind, and the
ids it holds are those the stage has obtained. The proof shows `Init => IInv` and that every action keeps it, one lemma for each
group of actions.

`ProgressIsTold` needs more: `Progress` says, for every task, which records the program counter implies - all before
the current index SUCC, the current one RUNNING during its calls, SUCC while the relation is saved, and none beyond. A task that ended with
an error has one that says FAIL or none that is RUNNING. It is inductive together with `IInv`; the final step derives `RecordsTellProgress`
from it. The assumption on statements is needed: with a lost record update the property is false.

`TasksLiveAsPromised` maps the row of a task and the number of its records that say SUCC to `TaskLifecycle`. Its invariant `Lives` says where each
program counter lies in that life: a row that is SUCC or FAIL belongs to a goroutine that ended, and one that is SUCC to records that are all SUCC.
Every action is then a step of the abstraction or a stutter. Both assumptions are needed: a lost status update leaves a
task RUNNING that has failed, and a panic of an expand records a success (`PanicSuccess`).

The properties of rows need to see a step from the rows' side. `Move` is what any action does to a goroutine, `Written` what it does to
a row, and three more views what it does to commands and cloud; each is proved once for all actions, so that an invariant is
proved from five facts and not from thirty actions. `Handy`, which `RateAlwaysDefined` and `OnlyWriterRevives` follow from, says that a goroutine
that holds a key has rows with that key for the machines it holds, and that a command in flight has the key its task gave it, also when that task has ended. It holds under every fault.

`Barrier` needs more. In a rate that is 1 no row may be BASE any more (`Known`, `OwnBx`: a key is that of one task; `RowOf`: a row carries the cluster of its machine;
`Place`, `Stocked`: a task holds machines of its cluster, each with its row; `Sent`: what a command in flight with a given target implies for its row and
the program counter of its task). The argument for base and service initialisation is that a command with target BASE whose
row has left BASE has written it, and has ended with that step. It rests on keys that are not shared, and the code
does not guarantee that: expand rows have the id of a BridgX task, deploy rows that of a schedule task. `IdsApart` is exactly that no deploy has the id of a task BridgX has had so far. The
theorems hold of every behaviour in which this is so at every state, and TLC finds the properties false in one in which it is not (*Ids* above).

`DeploysAreComplete` adds `AllStaged`: how far the rows of a deploy are when its goroutine is at a given stage, and which verdicts its commands in flight may still bring. `wg.Wait` makes a stage
begin when the commands of the last have ended. Only here do lost statements matter (`Stores`): a callback whose write is lost leaves its row behind while the deploy goes on.

`ScheduleSerial_proofs` is about callers who wait. `Serial` says what waiting gives: a cluster has one task that runs (`OneActive`), and its row says so
(`Unended`), which is why the question of the next caller sees it; a command is awaited by a task at its poll or at `wg.Wait`, and its row does not yet
say what is waited for (`Awaited`); an expand that has machines without rows is the only one to know them (`Held`); a deploy between its
two writes has no living row in its cluster (`Marked`). So a row comes to life only where none is alive (`Woken`), which keeps `Single`. With `slow` this is false: a late
callback sets a row that a deploy has marked DELETED, beside the new one.

`Tracked` adds the machines. A machine is in transit (`InTransit`) while an expand has it without a row, while a deploy is between its two
writes, or from the release by a shrink to the mark on its rows. All others are `Synced`: they run if and only if they have a living row. Each of the four kinds of transit
ends in that (`ExpandSettles`, `FreshSettles`, `DeploySettles`, `ShrinkSettles`), and a machine that is not in transit is left alone (`UpMoves`, `LifeMoves`). This needs that whoever has a machine in transit
comes to its write, which a refusal of BridgX, a timeout, a lost statement or a crash prevents: hence `Calm`. It needs `Initialises` because
an expand of a template with one step ends after the purchase, and writes no rows at all. A deploy has to find none of its ids taken (`Unborn`), which `[]IdsApart` gives. For
`CountsAreRight` `Single` and `Synced` make the rows of a cluster and its running machines a bijection.

`ReadyMachinesServe` is an action property of the mount. `Readiness` follows an expand to it: before service initialisation none of its rows says SVC
(`NotReadyYet`), a row whose service command is in flight does not say so yet (`SvcPending`), hence an expand whose poll found them all SVC has no
command in flight (`Over`), and nothing takes a row back before the mount (`ReadyToMount`). `ShrinksWithinCount` follows a shrink from
its query to the call (`Chooses`): what the query chose is within the count, and a shrink that chose none goes on in a cluster without mounted rows, where the fallback
to unmounted machines is meant to act. It needs that no other task mounts in between, hence `Patient`, and that rows are finite in number (`FiniteRows`), because TLA+ says nothing of the cardinality of an infinite set.

`LossesAreReported` is what remains of `MachinesAreTracked` when BridgX refuses, is slow or loses its answers, and when the process dies: somebody
answers for a machine without a row. Its invariant `Debts` has the books of BridgX (`Tidy`: who was bought is bought once and pending
until BridgX is done, who is sold was settled before and is gone in the end), what they mean for a task (`Rested`, `Engaged`), and `Kept`: a machine that runs, or will, and
has no living row is owed by a task of its cluster (`Owes`) that failed, is dead, is about to report an error, or is about to write the row (`Liable`). Of the two statements that take
rows, the mark of a shrink takes those of machines BridgX has released, and a deploy owes what it marks, because it deploys all machines that have a row and run (`MarkKept`). A deploy beside another task of the cluster marks rows of machines that were not running when it asked for them:
the property is then false, which is why callers have to wait or not to deploy. Without deploys `IdsApart` always holds (`AlwaysApart`), so that
`NothingIsLostUndeployed` has no condition on the behaviour left.

`ReleasedDoesNotServe` puts the server group into the invariant, `Balanced`. What serves runs and is in no release of BridgX (`Fit`), and a row says ALB of it, or will once its
task has made the update after the mount, unless the task died before it (`Shown`): then it stays unfinished, and callers who wait ask for nothing more (`OneUnfinished`). The machines an expand has, will have or has rows of are not given back while it runs (`FitMachines`). A running shrink has taken
its machines out of the server group, and may pick others only in a cluster that has none in there (`OffGroup`), because the query for mounted rows
found none and every machine that serves has one. No callback overwrites such a row, since an expand mounts when its commands are over (`AlbOver`, from `Over` of
`Readiness`), and its rows say ALB after its last instruction only (`AlbLate`). Each hypothesis is needed, TLC finds counterexamples without it: a deploy replaces the rows that say ALB by rows that do
not (`UmountAfterDeploy`); a lost answer of the load balancer or a failed update leaves a mounted machine without the mark; overlapping tasks release what an expand is about to mount;
and with `EndStep < 4` a shrink does not unmount.

The invariant of `PollQuery` relates the program counter of the poller to the channel: before its verdict the channel is empty, which
is why the send finds room; a verdict "pass" implies an answer that was seen; a verdict "fail" implies three errors or a
clock beyond the caller's time.

The invariant of `IntegrationSvc` follows a request through the empty token: one that is about to return has stored a token whose length is not 0, or has
an excuse, or the token it will read is one that others stored; whoever empties the token excuses every request. The types need that a login holds the id of
a row there ever was, deleted or not.

The invariant of `Paging` has, besides `FullPages`, the order of the table: what is listed rises, and lies below
every row behind the offset of the next page. Rows that leave move the others to earlier positions, never back across the offset, so that nothing is listed twice; the rows that move to
an earlier page are the ones that may be missed. `ListedIsComplete` speaks of listings without such moves: then what is listed is the
part of the table before the offset (`Prefix`), the row count is what it was, and a listing that stops has gone through all of it. `TogetherAsApart` shows that a caller who polls and then
lists takes steps of one or the other, so that what is proved of each apart holds of `FairBoth`, the specification of the run.

`Services_proofs` begins with the groups. `GroupOf` picks the k-th instruction of a template by counting, from a sequence that
`CreatedBy` builds with a fold; `CreatedIs` unfolds it for the one to four steps there are, and `GroupIs` shows that the choice goes through the places of the
template's instructions in their order. What remains is that the groups of a pair are the ids 1, 3, 4, 5 and 6, 2 after the last instruction there was (`PairGroups`). Each request is then
described by what it does to both tables (`PairAdded`, `PairRegrouped`, `PairFlagged`, `DeployAdded`, `PairsDropped`, `HalvesDropped`): old rows may be
flagged, new ones come behind (`Grew`). `ServicesInv` says that an expand template is followed by its shrink template, which knows it and which it knows unless a panic came before, and which shares its flag unless a request took the two apart (`Pairs`), that a group
names instructions of its own template, unflagged unless a panic came after the flags were set (`AllOwn`), that both groups come from the same number of steps, the other way round only in a cluster of `torn` (`AllFit`),
that a task's past and future make up such a group (`JobFits`), that clusters and services match (`ClustersKnown`), and that
a running task belongs to the first live template of its kind (`RunsFirst`). The last one is what makes the queries that look at a first template right: new templates
come behind, and a deletion only takes competitors away. `TasksWithinCallers` is inductive as it stands: a start turns the look of its caller into a task, and a look is added only to a cluster whose live templates
have no task, where no more callers than there are can have looked. That there are as many clusters as services is the named
assumption `ServicesAssumption`; the code gives a service exactly one.

TLC found `IInv` and `Progress` to hold on the instances of `Concurrent` and `SerialDeploy`, `IInv` on that of
`DbFaults`, the parts of `Handy`, `Barrier` and `AllStaged` on those of `Concurrent` and `DbFaults`, those of `Serial`, `Tracked` and `Debts` on that of `SerialDeploy`, those of `Readiness`, `Debts` and `Balanced` on that of `SerialShrink`, `Balanced` also with crashes, the parts of `ServicesInv` on that of `Templates`, on one with two services and on one with callers who do not look, before they were proved. Where an attempt failed, the invariant was too weak or the property false:
that `PhaseBarrier` and `DeploySuccessIsComplete` depend on the ids came to light in the proof.

Only model-checked are the liveness properties (`TasksEnd`, `EventuallyAccepted`, `BothEnd`, `ListingEnds`; fairness and ENABLED are out of the prover's reach). Every invariant and every
action property of the passing runs is stated by a theorem, under the assumptions of the table; where a run allows more than they do, the run is what shows the rest.

## 5. Not modelled

Routing, authorisation and configuration have no state of their own; the ssh client and the script templates are
text and I/O, of which success or failure is modelled. Updates of a service's description, the lists of clusters and templates and the lookup by address
format what they read. `WriteDB` and `ReadDB` are one database in the models: how far a replica may be behind is not in
the code.

## 6. Plan

Done: the scheduler with its tables and environment, its polls and listings, templates with services, the Zadig token, and the
proofs above. To do, in this order:

1. What remains of `ReleasedNotServing` when answers are lost: a weaker property, with the machines of failed tasks as the exception, and its proof.
2. The same for services that deploy: which machines `UmountAfterDeploy` leaves mounted.
