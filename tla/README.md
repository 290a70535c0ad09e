# A verification development for IaC Studio

IaC Studio is a local-first Go program: a web UI in which Terraform, OpenTofu,
Ansible and Pulumi projects are designed, planned and applied, and in which AI
agents may call MCP tools under policies and human approvals. These modules
model the part of the Go code under `src/internal/` in which safety depends on
state, ordering, concurrency or a long case analysis: what an agent may
execute, what a user may apply, and what the stores around both must not lose.

All paths below are relative to `src/internal/`.

## 1. Inventory

### Components that carry state

| Component | State | Operations | What makes it correct |
|---|---|---|---|
| Agent Run store (`agentruns/store.go`) | runs in memory, their order, a counter; per run a status, logs, patches, approval gates | `Create`, `SetStatus`, `Cancel`, `Fail`, `AddLog`, `AddLogIfNoPendingApprovals`, `AddPatch`, `AddApproval`, `DecideApproval`, `ConsumeApprovalBinding`, eviction | a gate is decided once, an approval spent at most once and only while the run is open and undecided gates are none; the log accounts for every decision; closed runs are frozen; the newest `maxRuns` runs are remembered |
| Tool authorization (`agentrouting/policy.go`, `decision.go`, `authorizer.go`) | none | `Authorize` | closed by default: whatever disappears or changes, the decision never loosens |
| Tool execution (`agentrouting/executor.go`, `router.go`, `run_recorder.go`, `approval_binding.go`; `api/agent_tool_executions.go`, `agent_tool_execution_idempotency.go`) | the attempt table; per request its context and progress | the execute endpoint; retries, takeovers, eviction | every mutating call had an approval of exactly that call, spent by nobody else; every call is in the audit log; retries do not execute again while the first attempt is remembered; every request is answered |
| Route authorization endpoint (`api/agent_tool_routes.go`, `agent_tool_route_idempotency.go`) | an attempt table of its own | authorize | one recorded decision per key while its attempt is remembered; a replay answers the same question |
| Policy store (`agentrouting/policy_store*.go`) | policies in memory, and in a file behind a lock file | `Save`, `Get`, start | an acknowledged policy survives crashes and other processes; a broken file refuses |
| Plan gate, run handler, runner (`api/plan_gate.go`, `api/router.go`, `runner/safe_runner.go`) | the recorded plan and the active execution per directory; `tfplan` and its JSON | run (plan, apply, destroy, init), kill | a mutation runs only with the plan the user reviewed, once, made from the present code; one execution per directory; a directory is never blocked by a command that has ended |
| Plan classifier (`plan/`, `api/plan_classification.go`) | none | classify JSON, text, saved plans | what is not plainly harmless asks for an acknowledgement |
| Policy engines and rules (`policy/`, `policy/engines/`, `security/`) | policy files, programs on `PATH` | evaluate, block | a denial is not hidden by another's failure; fixes fix; the rule sets agree |
| Sync handlers and file watcher (`api/router.go`, `watcher/watcher.go`) | the project's files; pause flags, debounce timers | sync; `Pause`, `Resume`, notify | no plan of the old code passes; no block of a file is lost; an external edit is reported |
| Airlock inventory (`mcpairlock/tools.go`) | tools, schema hashes, allowlists in a file | discovery, `EvaluateTool`, `SetToolAllowlist` | overlapping updates lose nothing; a changed tool needs a new review |
| Airlock lifecycle (`mcpairlock/lifecycle.go`) | one record per MCP server process | `Start`, `Stop`, `StopAll`, reaping | one process per server, none forgotten |
| Airlock attestation (`mcpairlock/attestations.go`, `approval.go`) | approved executables in a file | `Save`, approval, check before a start | an executable that was not approved, or changed up to the second look before its launch, does not start |
| WebSocket hub (`api/ws.go`) | registered clients and their buffers | register, unregister, broadcast, close | messages in order and without gaps until a client is dropped; no send on a closed channel; nobody waits for ever |
| Cloud connections (`cloudconnections`) | records and a key in files; a cached key per process, or one from its environment | save, delete, list, use, migrate | a field holds the value last given for it, encrypted with one key, and readable as long as all processes are started with the same key setting |
| Agent provider profiles (`agentproviderconnections`) | records in a file | save, delete, read | an unmentioned secret keeps its value |
| Recovery snapshots and drift (`drift`, `recovery`) | checkpoints in the project | detect, suppress, propose, record, choose | no difference that every part of an address shows disappears; a rollback compares with the right checkpoint |
| Review handoff (`review`, `git`) | the project's git repository and tree | branch, add, commit, clean up | a review branch holds its own artifacts only; a failure cleans up unless git fails the cleanup too |
| MCP server (`mcp`, `cmd/mcp`) | the audit log, remediation drafts | one line after the other | artifacts and branches need a token, plan files a call for a plan; every call has its record |
| AI agent loop (`ai/agent`, `ai/tools`, `api/agent.go`) | one conversation per request, the audit ring | routing, the bounded tool loop | a specialist keeps to its tools; results reach their calls |

The components without interesting state or decisions (parsers, generators,
catalogs, cost and blast analyses, RAG, prompts, workspace metadata, the web UI)
are listed in `PROJECT.json` with the reason why they are not modelled.

### How they interact

- The HTTP handlers run concurrently, one goroutine per request. The execute
  endpoint reads the Agent Run, asks Airlock for the tool's risk, goes through
  the attempt table, asks the authorizer (policy store and Airlock), writes its
  decision into the Agent Run store, spends an approval and only then calls the
  MCP tool process. Each of these is a critical section of its own; users
  decide gates and cancel runs in between. The authorize endpoint does the
  first half of this, behind a table of its own.
- The run handler answers 202 and continues in a goroutine, which consumes the
  plan gate, runs the command through the SafeRunner, exports and hashes the
  plan and records it in the gate. Before that it classifies the saved plan and
  runs the policy engines, each of which may hold up an apply. Sync handlers
  and the watcher's callback invalidate the gate at any time.
- Airlock starts the MCP server processes that tool calls go to. A start asks
  the attestation store twice whether the executable it sees was approved;
  approvals come from other requests, and executables are upgraded, meanwhile.
  The shutdown sweep of `cmd/server/main.go` stops what is running.
- `iac-studio-mcp` is a process of its own. It shares the connection files, the
  policies and the working trees with the API server, but no mutex.
- Drift findings become proposals; a proposal becomes artifacts and a review
  branch through `review`, called by the API server and the MCP server alike.
- Results go to the WebSocket hub, which no decision depends on.

### What is hard

Steps of two requests that interleave between critical sections; state read
before an unlock and used after it; retries that race the attempt they repeat;
caches at their limit; a command that outlives, or is killed around, the
moments at which it is registered and removed; two processes over one file with
a lock of one of them; a process that dies between two steps; commands that
fail one after the other in a tree nobody locks; judgements of one thing in
several places. `PROJECT.json` lists each hazard at its line, with the
properties that speak about it or the reason why none does.

## 2. Modules

| Module | Models | Extends or instantiates |
|---|---|---|
| `ApprovalLedger` | abstract: gates of runs, decided once, spent once | |
| `AgentRuns` | `agentruns.Store` | instance of `ApprovalLedger` (refinement) |
| `ToolDecision` | firewall verdict, route policy, authorizer, recorder's check | |
| `MCToolDecision` | the decision while policy, inventory and request vary | `ToolDecision` |
| `ToolExecution` | the execute endpoint with concurrent requests | `AgentRuns` (`Store!`) and `ToolDecision` (`D!`), sharing the store's variables |
| `RouteAttempts` | the authorize endpoint and its attempt table | |
| `PolicyStore` | policies of several processes over one file | |
| `ToolInventory` | discovery and allowlists | `ToolDecision` (`D!`), for the verdict |
| `Attestations` | approval requests and the attestation file | |
| `ServerCycle` | abstract: each MCP server is down, starting, up or stopping | |
| `McpLifecycle` | starts, stops and sweeps of MCP server processes | `Attestations`; instance of `ServerCycle` (refinement) |
| `PlanRun` | run handler, plan gate, SafeRunner, sync, watcher for one directory | |
| `PlanRisk` | plan classification, pure | |
| `PolicyEngines` | the five policy engines, pure | |
| `ApplyReview` | the apply gate while plans, policies and programs change | `PlanRisk`, `PolicyEngines` |
| `ResourceRules` | built-in policies and scanner over one edited resource | |
| `ProjectSync` | a project's files under syncs, editors and the watcher | |
| `Hub` | the WebSocket hub with its pumps | |
| `CloudConnections` | connection records and keys of two processes | |
| `ProviderProfiles` | model-provider profiles | |
| `Drift` | drift reports, proposals, checkpoints | |
| `ReviewHandoff` | review branches in a shared working tree | |
| `McpServer` | the MCP server's loop with kills and restarts | |
| `AgentLoop` | the built-in agent's requests | |
| `AgentRunsProofs`, `ToolExecutionProofs`, `McpLifecycleProofs`, `PlanRunProofs` | theorems | their component, TLAPS |
| `DecisionProofs` | theorems about what is decided of a call, an apply, a resource | `MCToolDecision`, `ApplyReview`, `ResourceRules`, TLAPS |
| `RecoveryProofs` | theorems about review branches and drift | `ReviewHandoff`, `Drift`, TLAPS |
| `StoresProofs` | theorems about three stores of `MCStores` | `PolicyStore`, `ToolInventory`, `RouteAttempts`, TLAPS |
| `ServicesProofs` | theorems about six services of `MCServices`, `MCStores` and `MCLive` | `Hub`, `ProjectSync`, `McpServer`, `AgentLoop`, `CloudConnections`, `ProviderProfiles`, TLAPS |
| `MCAgentRuns`, `MCToolExecution`, `MCPlanRun`, `MCMcpLifecycle`, `MCReviewHandoff` | instances of one component | their component |
| `MCStores` | instance of five components | `Attestations`, `PolicyStore`, `ToolInventory`, `RouteAttempts`, `McpServer` |
| `MCServices` | instance of eight components | `MCToolDecision`, `ApplyReview`, `ResourceRules`, `Drift`, `ReviewHandoff`, `AgentLoop`, `CloudConnections`, `ProviderProfiles` |
| `MCLive` | instance of three components, with fairness | `Hub`, `ProjectSync`; instance of `PlanRun` |

`MCStores`, `MCServices` and `MCLive` check components that share no state. A
variable `subject` names the component a behaviour is one of; the others keep
their first state. So the states add up instead of multiplying. A component
that is extended has its properties checked as they stand, which is the form
the theorems state; `Completes`, of the instance of `PlanRun`, is named again
in `MCLive`.
`MCServices` and `MCStores` have a `VIEW` of the subject's variables only: the others never change, and the
properties read nothing else. It also leaves out what no step and no property reads any more, such as
the copy of a file that a finished request held. Components do share state where the code makes
them (`ToolExecution` over `AgentRuns`, `McpLifecycle` over `Attestations`,
`ApplyReview` over its two judges).

Operators under the comment "Faulty variant" are not part of any
specification. Each states how the definition after it could plausibly be
broken, and was used to confirm that a property notices.

### AgentRuns

`Store.mu` is held by every exported method from its first read to its last
write, so a method is one action. `runs`, `order` and `next` are the fields of
`Store`; a record of `Run` keeps the fields decisions depend on. What a method
does to the run it finds is an operator (`WithStatus`, `Canceled`, `Failed`,
`WithGate`, `Approved`, `Rejected`, `Spent`); `Update` is `Store.update`.
A method that returns an error changes nothing. Details worth knowing: a log
entry with a gate (`approved`, `rejected`, `allowed`) stands for the log line
the code writes for that gate, and `Spent` clears the binding, which is how the
code makes an approval single-use. `SetStatus` is modelled with every status,
because the method is exported, although no handler calls it with all of them.

### ToolDecision

Pure operators. `DecideTool` is `decideToolWithAllowlist`, `Authorize` the whole
of `Authorizer.Authorize` in the order of its early returns, `EvaluateMatched`
and `FirstMatch` the policy evaluation, `RecorderAccepts` the second check of
`RunRecorder.record`. A scope (project, provider, connection, server, tool) is
one value, because rules compare the five strings for equality. The policy and
the inventory row are sets of at most one element: empty when the store
answers with an error.

### ToolExecution

One request per element of `Clients`; `req[c].pc` names the point between two
critical sections.

| `pc` | Code |
|---|---|
| `start` -> `claim` | `readAgentToolExecutionRequest`: reads the run and the risk |
| `claim` | `agentToolExecutionAttemptStore.execute` up to the callback, under its mutex: conflict, join, takeover of a released attempt, eviction, new attempt |
| `wait` | a joined retry waits on the leader's channel or its own context |
| `check` | `requireActiveAgentToolExecutionRun` |
| `authorize` | `Authorizer.Authorize`, with stores that may not answer |
| `record` | `Router.RouteToolCall`: denial fails the run, allowance is logged, or an approved gate is looked for |
| `consume` | `ConsumeApprovalBinding` |
| `gate` | `RecordBoundApproval` |
| `recheck` | `validateExecutionRoute` after recording |
| `invoke`, `calling` | the MCP tool call |
| `publish` -> `done` | the locked end of `execute`: outcome, channel closed, entry kept or deleted |

`req[c].leader` is the pointer to the attempt a request holds and `attempt` its
outcome. `UserStep` is the store's other callers: runs are created, cancelled,
their gates decided. `Disconnect` ends a request's context, `ChangeInventory`
is a rediscovery that reclassifies the tool. The approval binding is a keyed
hash of the arguments, the risk and the run; it is modelled as the pair of call
and risk, kept in the run.

### RouteAttempts

`table` and `listed` are the endpoint's `entries` and `completed`; an attempt is
named by the caller that began it, and `caller[c].first` is the pointer a caller
holds. The decision itself is any of the three, recorded in the run; the run may
be closed or evicted at any time. A waiting caller may hang up.

### PolicyStore, ToolInventory

The two files that several processes share. `PolicyStore` splits `Save` where
another process can get in: `persistMu`, the lock file, the reload, the
replacement, the release, the swap of the map readers use. A process may crash
at each point; the operating system drops its lock. `replaced` lists who
replaced the file, and `View(n)` is what the first `n` of them make of it.
`ToolInventory` has the mutex of one process only: `raced` is the history
variable for two processes between load and save at once, and `sightings`
records which discovery wrote which schema.

### Attestations

`attested` is the JSON file, `approval[a]` one request of the approve endpoint.
Every request builds a store of its own (`NewExecutableAttestationStore`), so
there is no shared copy in memory: `Load` reads the file, `Compare` is the
second read in `Save`, which refuses a file that changed or is full, and
`Persist` the atomic replacement. Between the last two nothing is locked, so of
two requests in that window one may overwrite what the other was told is saved;
`contended` is a history variable for that window and `saved` for what was
acknowledged. A read, a fingerprint or a write that fails is `Refuse`.

### McpLifecycle

Every section under `lifecycle.mu` is one action, begins with reaping
(`Running`, `Exits`), and reads and writes `starting`, `running`, `stopping`
and `exits` as the code does. A process is named by the start request that
launched it; `alive` holds those for which `cmd.Wait` has not returned.

| `pc` of a start | Code |
|---|---|
| `idle` | first section of `Start`: an active server answers at once |
| `fingerprint`, `attest` | `Check`: fingerprint, then the verdict, the probes and the version |
| `claim` | second section: refused, or `starting` is set |
| `verify`, `reattest` | `verifyLaunchExecutable`: fingerprint and verdict again, then the section that releases a refused start |
| `launch`, `grace`, `cancel` | `defaultLauncher`: started; survived the grace, ended in it, or stopped for a cancelled request |
| `record` | last section: the process is put on record or the launch failed |

| `pc` of a stop | Code |
|---|---|
| `claim` | the section of `Stop` that moves the record to `stopping`; `StopAll` repeats it for every server in `todo` |
| `signal` | `osProcessHandle.Stop`: waits for the process, up to its limits |
| `forget`, `restore` | the section after it: the record is dropped, or put back if the process still lives |

`claimed`, `left` and `stop[k].found` are history: which processes a stop took
charge of, which a cancelled start could not end, and which a stop was to end.
`executed[c]` is the executable that was at the path when the process was
launched. Nothing looks at the path between the second look and the launch, so
another executable may be installed there in between (`Install`): `swapped`
remembers the starts to which that happened.
A stop that reaches its limit is one that finds the process alive; whether a
process reacts to signals is not assumed.

### PlanRun

One working directory. `source` is a version of the source files, `synced` the
version the last finished sync wrote; `tfplan` and `planJSON` name the command
whose plan the file holds. A plan hash stands for what the code hashes: the
command's output, the bytes of `tfplan` and of the plan JSON (`Hash`), all
distinct per command. `pc` splits the goroutine where another one can get in:
`consume`, `check` (the active check under the lock), `register` (the second
critical section), `launch`, `running`, `export`, `write`, `hash`, `record`.
`active` is `SafeRunner.active` for the directory, removed by whoever ends.
`Kill` cancels whatever is registered. `overlap` is a history variable: two
requests were in progress at once.

### PlanRisk, PolicyEngines, ApplyReview

`PlanRisk` classifies a change by its actions, the needles its type matches and
the fields that differ; values carry what they print as, because the classifier
compares printed values. `PolicyEngines` gives each engine's result for a
project, failures included, and who runs which engines. `ApplyReview` changes
the project step by step (plans, policy files and directories, programs,
resources) and states what the gate must do with it.

### ResourceRules

One resource of each type the rules know, edited attribute by attribute; an
attribute's value says what HCL holds and what the parser makes of it, since the
rules compare Go values. `Violations` is the built-in policies, `Scan` the
scanner, `Fixes` its suggestions and `ApplyFix` the user taking one.

### ProjectSync, Hub

`ProjectSync`: a sync reads the blocks of each file it will write (`ReadBlocks`),
writes file by file (`WriteFile`), may stop in between (`EndSync`), and shares
one pause flag with every other sync. A body that cannot be read is refused
before the pause (`RefuseSync`); names of resources and files are validated
after it, so such a refusal is a sync that begins and ends without a write:
its deferred `Resume` also takes away the pause of another sync. A sync of one
file's code replaces that file (`BeginCodeSync`, `WriteCode`). The directory is
the project's, whose path is the key of the pause; syncs of an environment's
directory and of Pulumi code write elsewhere and are left out. `edited` and
`overtaken` are history.
`Hub`: one action per branch of `Run`'s select and per channel operation of the
pumps and handlers; a message is its number in the order of the hub, `since` and
`got` remember what a client should have and has seen. The race of `Close`
against a send is the choice between two ready branches.

### CloudConnections, ProviderProfiles

A secret is named by the request that submitted it, an encrypted one also by its
key. A process takes the key its environment names (`environment`, `KeyOf`), and
else that of the key file, which the first one to encrypt makes; it caches the
outcome of each, a failure included (`encryptKey`, `decryptKey`, `Failed`), until
it is started anew (`Restart`), perhaps with another setting. A list or use of
connections may migrate records of older files outside the mutex that saves take
(`Rewrite`). `crossed` and `mixed` are history: both processes were writing, and
two processes, or one and its successor, had different settings. The key file is
not changed from outside.

Profiles have one mutex per operation, so each operation is one step, and the
interest lies in how an update combines masked, missing and new fields, stores
and references, and what it makes of the secrets of an older file. The key is
that of the connections and stays with `CloudConnections`.

### Drift

An address is a type and a name, as in the code. It may have several blocks
(`blocks`: a data and a resource block, duplicates) and in the state several
resources (of several modules) with several instances each (`entries`: `count`,
`for_each`); either side may lack a field. What is compared is the last block
with the first instance of the last resource that has one (`code`, `live`), and
of these the fields that both sides have. Suppression rules come and go, and
checkpoints are recorded. `Report`, `Proposal` and `RollbackCurrent` are what the
endpoints would answer in that state.

### ReviewHandoff

One step per git command (`pc`: `check`, `write`, `verify`, `exists`, `base`,
`checkout`, `add`, `commit`, `back`, `delete`), each of which may fail; nothing
is locked. The errors of `back` and `delete`, the cleanup after a failed commit,
are discarded, so a request goes on though the tree or the branch stays as it
was; `uncleaned` is the history variable for that. A failure to list a branch
counts as its absence. A draft names the proposal, its files and its branch. The
owner of the project uses the same tree: `disturbed` is the history variable for
git commands of the owner during the last commands of a request. Everything
`ReviewsSeparate` says is relative to that.

### McpServer, AgentLoop

`McpServer` is one goroutine: a line is read, handled (`Handle`, or the steps of
`open_remediation_pr`), recorded (`AppendAudit`), answered. `Kill` ends the
process between any two; `Serve` starts another one, with or without a token.
`generate_plan` has `terraform plan` write `tfplan` into the project, asks for no
token and is recorded as not mutated (`GeneratePlan`, `planFiles`). A draft may
fail before or after its branch exists (`DraftFails`); a branch that git failed
to remove stays, though the record says that nothing was mutated.
`AgentLoop` routes a request to a specialist, takes the model's turns with any
batch of tool names, runs them in order and appends to the audit ring.

## 3. Runs

| Run | Question | Result and bounds |
|---|---|---|
| `agent_runs` | does the store keep an exact audit trail, freeze closed runs, forget only old runs, and implement `ApprovalLedger`? | passes. Two runs with one remembered, so that a run with undecided gates is evicted; two gates, so that one is pending while another is decided or spent; free-text logs stop after two entries while decisions and spends always log |
| `tool_execution` | can a tool be called without its own approval or without an audit entry? | passes. Three requests (the one that asks, and two that race for the approval), two keys, three gates, a tool that turns from mutating to reading, one request at most whose client hangs up (`OneGone`) |
| `tool_retries` | does the attempt table stay consistent, and is every request answered? | passes. Two requests with two keys and two calls (conflict, join, takeover), a table of one entry (eviction and refusal), one remembered run (a run gone in between) |
| `plan_run` | can a mutation pass the gate unreviewed, or a directory stay blocked? And is serial use safe? | passes. Three commands (plan, plan, apply), two of them under way at a time (`TwoAtATime`), two connections, one change of the code |
| `mcp_lifecycle` | has each server at most one process, approved and known, through its cycle? Is it released by every request? | passes. One server, since sections read and write one server's records only and `StopAll` looks at them one by one; two starts and two stops or sweeps that overlap; an approval, and upgrades at any point of a start, the last moment before the launch included |
| `stores` | what survives concurrent and crashing writers of the attestation, policy and inventory files, and does the route endpoint record each key once, and the MCP server each call? | passes. Three requests against each store, since what two lose or repeat a third notices; two processes; an attestation file of two for three servers and a route table of one for two keys, so that both limits are reached; two schema hashes, one of which mutates. `McpAccountable` (artifacts and branches need a token, plan files a call for a plan; no call is answered with a result before its record is written; what a record tells is true, except that a failed, approved draft may have left a branch): two lines, with kills and restarts at every point |
| `services` | eight questions, one per component: see below | passes. Bounds per component below |
| `live` | do accepted commands end, does the hub deliver and let everyone go, do syncs keep blocks, and are edits reported that no sync has hidden? | passes, under fairness. Two commands; two clients, a broadcaster, a queue and buffers of one message (so that both are full and a slow client is dropped); two overlapping syncs and an edit over two files that begin with every block, since a file without blocks has none to lose |
| `concurrent_run` | "prevent concurrent executions on the same project" (`runner/safe_runner.go:105`) | violated |
| `replaced_plan` | "binds approval to the exact latest successful plan" (`api/router.go:1699`) | violated |
| `stale_plan` | "code changed, previous plan is stale" (`api/router.go:1509`) | violated |
| `review_artifacts` | review branches "commit only generated ... artifacts" (the repository's `README.md:291`) | violated |

Deadlock is not checked: every system here may stop, when all requests are
answered and the bounds are used up.

The components of `services`:

| Subject | Properties | Bounds |
|---|---|---|
| `calls` | `AllowedMeansReviewed`, `RecorderAgrees`, `FailsClosed`, `FirstRuleWins` (proved for any policy and inventory): authorization is closed by default when its inputs change | two rules over one matching and one other scope, two mode sets, three risks (read, mutation, unknown), every inventory row. Two rules are enough for "the first match wins"; the remaining risks are treated like one of the three by the code, except that `generate_code` is also allowed in propose mode |
| `apply` | `ReviewsAgree` (proved for any plans, policy files and programs): an apply passes unasked only with metadata changes and without a denial that any engine has to see; failures of engines do not hold up, or let through, what they do not judge; text of a plan is never judged looser than its JSON; a policy run and the gate agree | one of seven kinds of change per plan, chosen for each branch of the classifier; two policy files with every verdict in three directories, tried beside no plan, a garbled one and one without changes, since policies and the plan's risk are judged apart; every set of programs |
| `rules` | `RulesAgree` (proved): a scanner's fix ends its finding and brings no other, and the two rule sets agree where both judge | one resource of every type, with every combination of the attributes' values |
| `drift` | `DriftAccounted` (proved for any number of resources, rules and checkpoints): no difference that all parts of an address show disappears between report, suppression and proposals, no difference is invented, and a rollback compares with the right checkpoint | two addresses, two fields which either side may lack, up to two blocks, resources and instances of an address (`MaxParts`), six suppression rules (one per selector and one that names nothing), one of them at a time, three checkpoints. An address with several parts or without a live field is there alone and unsuppressed, since the code compares each address by itself before it suppresses anything |
| `review` | `ReviewsSeparate` (proved for any number): review branches and trees of different drafts are kept apart, and a failure leaves no empty branch unless git failed the cleanup as well | two requests, two drafts, one act of the owner; every git command may fail |
| `agent` | `AgentInLane` (proved for any tools, requests and limits): a specialist writes only if it may, results reach their calls, the audit ring holds the last requests | two requests over one file, two turns, batches beyond a cap of one, a ring of one |
| `connections` | `ConnectionsKept` (proved for any number of managers, requests and connections): a field has the value last given for it unless two processes wrote at once, a record has one key, no key is lost, and every process reads every record as long as all have the same key setting | two requests by either of two processes, one connection, two methods, an older file; one key in an environment, none elsewhere, which is enough for two settings to differ; no further change of setting once they do |
| `profiles` | `ProfilesKept` (proved for any number of profiles and secrets): an unmentioned secret keeps its value through any update, that of an older file included | one profile, which may be of an older file, two secrets, four operations |

### What the four violated runs show

1. *Two executions at once.* `executeWithEnv` looks at `active` under the lock,
   unlocks, prepares the command, and locks again to register. Two requests may
   pass the first section before either reaches the second. The deferred delete
   of the first to end also removes the entry of the other.
2. *Another plan is applied.* The gate remembers a hash; `apply` runs
   `terraform apply tfplan` on whatever the file holds. With two plan commands
   in progress, the second may overwrite `tfplan` after the first was hashed
   and then fail, so that the record of the first stays valid.
3. *A stale plan passes.* A sync invalidates the gate, but a plan command that
   is still running read the old code and records its plan afterwards.
4. *A state file is committed for review.* The checks for unrelated changes
   ignore state and plan files, also when they are staged, and `git commit`
   takes everything that is staged.

The first three need two requests in progress in one directory.
`SerialUseIsSafe`, in `plan_run`, states that without such an overlap none can
happen, and that the classified plan JSON is then that of the plan which is
applied. For the fourth, `ReviewsSeparate` states what a commit can hold
besides the artifacts.

### What the models follow although one may wonder

Some behaviour of the code is surprising without contradicting anything the
repository says; the modules model it as it is.

- Of two processes that update the tool inventory or the connections at once,
  one loses its update (`raced`, `crossed`): the mutex is that of one process.
- The parser drops nested blocks, so the suggested fix for an unencrypted bucket
  can never satisfy the rule that suggests it (`policy/policy.go:204`); and
  `v == 0` never holds for the parser's `int64`, so that
  `backup_retention_period = 0` is not flagged (`policy/policy.go:450`,
  `security/scanner.go:424`).
- A Sentinel policy that does not compile counts as one that denies, an OPA
  policy that does not compile is skipped, and `deny = false` in OPA blocks.
- Posted plan text that parses to nothing and does not say "to add" counts as a
  plan without changes.
- The classifier compares printed values: a change that prints alike (`1` and
  `"1"`) does not count against a metadata-only update.
- A process whose cancelled start could not stop it lives on unknown to Airlock
  (`left`).
- Between the second look at an executable and its launch, Airlock does not look
  again: what is installed at the path by then is what runs
  (`mcpairlock/lifecycle.go:113-150`, `swapped`).
- A sync that is refused for a resource's name or file has paused the watcher
  before, and resumes it although another sync may still be writing
  (`api/router.go:1546-1563`).
- Drift compares one block with one instance of an address: what only the other
  instances of a `count` show is not reported (`drift/drift.go:168-176`).
- Processes whose environments name different keys cannot read each other's
  records (`mixed`), and a key that is set later hides the records of the file's
  key.
- `generate_plan` leaves a plan file behind without a token, and is recorded as a
  call that mutates nothing (`mcp/service.go`, `runner/runner.go:109`).
- A draft whose commit, and then whose cleanup, fails leaves its branch, and the
  MCP server records that nothing was mutated (`review/handoff.go:120-123`,
  `mcp/service.go:620-622`).

### Bounds

`MaxCreates`, `MaxGates`, `MaxLogs`, `MaxPatches` (AgentRuns), `MaxRules`
(MCToolDecision), `MaxEdits` (PlanRun), `MaxFileEdits` (ProjectSync),
`MaxInputs` (Hub), `MaxOwnerActs` (ReviewHandoff), `MaxLines` (McpServer),
`MaxTurns` (AgentLoop), `MaxOperations` (ProviderProfiles), `MaxParts`,
`MaxSuppressions` and `MaxCheckpoints` (Drift), `MaxChanges` and `MaxPolicies` (ApplyReview) bound otherwise unbounded
counters in guards. `MaxRuns`, `MaxEntries`, `MaxAttempts`, `MaxAttestations`,
`QueueSize`, `BufferSize`, `BatchCap` and `AuditSize` are limits of the code
itself, made small so that they are reached. In `ToolExecution`, `MaxLogs` is
larger than the number of entries any behaviour writes. Each command, client
and request is used once, so a retry is another client with the same key.
Some bounds are constraints of an instance instead of guards: `TwoAtATime`
(`MCPlanRun`), since two commands are what the properties of the gate relate;
`OneGone` (`MCToolExecution`), since a hang-up changes nothing but its own request;
and in `MCServices` what `ApplyStep`, `DriftStep` and `ConnectionsStep` say in
their comments, as the table above has it. The theorems of section 4 assume none of them.

Symmetric sets are those whose members no definition tells apart: commands and
connections in `plan_run`, clients in `tool_execution`, requests and processes
in `stores`, requests in `review_artifacts`, requests about connections in
`services`. Runs with liveness have none.

### Fairness

`ToolExecution!Spec` and `PlanRun!Spec` assume weak fairness of the steps of a
request or command that has started: its goroutine is scheduled, tool calls end
because the invoker bounds each with a timeout, and commands end because the
SafeRunner runs each under a timeout and kills the process when it passes.
`McpLifecycle!Spec` assumes the same of starts and stops that have begun: the
probes, the launch's grace and the wait for a process to end all have limits in
the code. `Hub` assumes that its loop, pumps and senders run on, and that a
`select` takes a branch that stays ready: the `done` branch after `Close`, and
each ready branch before. A write to a connection that was closed fails in the
end; one to an open connection may never end, because `ws.go` sets no write
deadline, so a write pump stuck at such a client (`Stuck`) is what
`HubReleases` excepts. `ProjectSync` assumes that the watcher's loop and
timers run and that a sync's handler ends. Nothing is assumed of users, of
editors, of new requests, of hang-ups, of clients, or of processes: a process
need never end, and a client need never read.

## 4. Proofs

`AgentRunsProofs` proves, for every set of operations, every limit and every
bound, from `StoreAssumption` only (the limit is a positive number, the empty
binding is not an operation):

- `TypeCorrect`: `Spec => []TypeOK`
- `MostRecent`: `Spec => []KeepsMostRecentRuns`
- `Audit`: `Spec => []AuditTrail`
- `Rejection`: `Spec => []RejectionFailsRun`
- `LedgerRefined`: `Spec => ImplementsLedger`, the refinement of `ApprovalLedger`

Each follows from `StoreInvariant`. None of these properties is inductive on
its own. `KeepsMostRecentRuns` is needed for types and audit alike: identifiers
in `order` are distinct and below `next`, so a new run never takes the place of
a remembered one. `SpendsLogged` needs that the spent gate was approved *and
logged so before*, which comes from `DecisionsLogged`, and that a gate without
binding is never bound again, which the proof obtains from types.
`RejectionFailsRun` needs the guard that a closed run admits no operation,
since a rejected gate closes its run in the same step.

The argument has three layers: lemmas on what each operator does to one run
(`WithStatus`, `Approved`, `Spent`, ... each keep a `SafeRun` safe), lemmas on
the window of remembered runs under `Create` and eviction, and one step per
action that combines the two through `Update`. The refinement maps each action
to the ledger's step on the gates of its run, or to a stutter; that an approved
gate is never spent again nor decided anew comes from `AuditTrail`, which is
part of the invariant, and an eviction is the ledger's forgetting of a run.

`ToolExecutionProofs` proves, for any finite set of requests and any keys,
calls and bounds, from `ExecutionAssumption` (the two limits are positive, keys
and calls exist, the empty binding is no operation, modes and risks are those
of the code):

- `TypeCorrect`: `Spec => []TypeOK`
- `EntriesKept`: `Spec => []EntriesAccounted`
- `RetriesJoin`: `Spec => []RetriesMatch`
- `CallsAreApproved`: `Spec => []CallsApproved`
- `CallsAreAudited`: `Spec => []CallsAudited`
- `RunsWaitForGates`: `Spec => []WaitingIffPending`

What requests and users do to the Agent Run store are actions of `AgentRuns`, so
the store's invariant holds here too and is cited, not proved again.
`AttemptsInvariant` is about the attempt table: an attempt in flight has its
entry (`OpenHeld`), an entry is led by the request that began it (`EntriesLed`),
the finished ones are those listed, once each (`Listed`), within the limit
(`Bounded`), and who waits or replays asked for what its leader did (`Joined`).
`CallsInvariant` is about the calls. `PhaseInv` says what a request holds at
each point between two critical sections; `GatesOpened`, that some request
asked for the very call each gate is for; `HoldersApproved`, that a request
which claims a gate claims an approved one, with its binding cleared once the
request holds it; `HoldersAlone`, that no two hold one gate; `HoldersCounted`,
that they are no more than the log's entries for it; and `RunsSettled` is what
`WaitingIffPending` says of one run. The heart is that a gate is spent by
clearing its binding and that a cleared binding is never set again: so whoever
gets past `consume` found it set, and everyone who held the gate before would
have left it cleared.

Four more theorems say what the composition adds to its parts:

- `StoreImplemented`: `Safety => Runs!Spec`, where `Safety` is `Spec` without
  fairness and `Runs` is `AgentRuns` over the same variables (without patches,
  which an execution never adds). Each critical
  section is one operation of the store or none (`StoreSteps`), so what is
  proved of the store by itself holds under any requests.
- `LedgerImplemented`: `Safety => Runs!ImplementsLedger`, from the former and
  `LedgerRefined`: the endpoint implements `ApprovalLedger`, through two
  refinements.
- `CallsAreSpent`: `Safety => []CallsSpent`. It ties the call to the ledger: the
  gate a tool was called for is spent in it, and the ledger spends no gate twice.
- `WaitersAreServed`: `Safety => []NobodyWaitsInVain`. Who waits for an attempt
  waits for one with an outcome, or at work on getting one, so no two requests
  wait for each other. It is what `Answered` says without fairness, and rests on
  `HasLeader`, kept because an attempt only moves forward (`AttemptsGrow`).

`McpLifecycleProofs` proves, for all sets of servers, requests and executables,
from `AttestationAssumption` and `LifecycleAssumption` only (servers and
executables exist, and "no process" and "no attestation" are none of the
requests):

- `TypeCorrect`: `Safety => []TypeOK`
- `NoOrphans`: `Safety => []ProcessesKnown`
- `OnlyApproved`: `Safety => []LaunchesApproved`
- `StopsComplete`: `Safety => []StopsReach`
- `CycleRefined`: `Safety => ImplementsCycle`, the refinement of `ServerCycle`
- `ApprovalsStay`: `Safety => []ApprovalsKept`, about the attestation file
- `NoneClaimedByNobody`: `Safety => []ClaimsOwned`, what `ReleasesServer` says
  without fairness: whatever is starting or stopping is so for a request that is
  at work on it, so no server is left claimed by a request that has gone

`Safety` is `Spec` without fairness. All follow from `LifecycleInvariant`,
whose conjuncts need each other. `StartsInv` says that one start at a time has
a server claimed and that a claimed server has no process on record, so a
launched process is never put over another. `RecordsInv` says that a record is
running or stopping but not both, and that one stop has charge of each that
stops, so a failed stop restores exactly what it took. `KnownInv` and
`ReachInv` are about living processes and follow these records around.
`AttestInv` covers the copies of the file that requests hold, because a copy
may become the file (`FileInv` adds whose turn it is to replace it, and that
every copy keeps the limit, for `ApprovalsKept`); `LaunchInv` carries the approval seen at the launch along,
which lasts because an approval that was saved never changes; `SeenInv` says that
what a start saw at its second look is what is installed, and what runs, unless
an upgrade came in between (`swapped`). The refinement
shows that each action keeps every server's phase (`Stay`) or moves one server
along the cycle (`CycleStep`); reaping in particular changes no phase, since a
record whose process has ended already counts as down. With two servers the
same theorems say what the one-server run cannot: that servers do not disturb
each other.

`PlanRunProofs` proves, for any number of commands, connections and edits, from
`PlanRunAssumption` only:

- `TypeCorrect`: `Safety => []TypeOK`
- `GateIsSound`: `Safety => []MutationsReviewed`
- `EntryIsCurrent`: `Safety => []NoStaleEntry`
- `SerialUse`: `Safety => []SerialUseIsSafe`

The first three follow from `RunInv` (`RunInvariant`), which holds however
requests interleave.
`GateInv` is about the record: it is of a plan command that ended without
failing, and no mutation has passed with it. `PassedInv` keeps the same for
mutations that passed, since the record they consumed is gone. `SavingInv` says
that only a plan that has not failed gets to be recorded; `SyncInv` bounds a
version about to be written. `SerialUse` needs `SerialInv`, which holds only
while `overlap` is false: one command at most is under way and none during a
sync; the record is of one plan, which `tfplan` still holds, made from sources
no older than the last sync (`GateAlone`); a plan under way keeps to its own
files (`PlanningAlone`), and a mutation that passed finds the plan it named
(`MutatingAlone`). A second request breaks these conjuncts, and the three
violated runs of `MCPlanRun` show what follows.

`StoresProofs` proves, about each store and its own steps, whatever the numbers
of processes, requests, scopes, tools and keys:

- `PoliciesStay`: `PolicyInit /\ [][PolicyNext]_policyVars => []PoliciesKept`
- `InventoryStays`: the same of `InventoryNext` and `InventoryKept`
- `AttemptsKept`: the same of `RouteNext` and `RecordedOncePerKey`
- `RetriesHaveFirst`: the same of `RouteNext` and `RouteWaitersHaveFirst`: a retry
  waits for another caller's attempt, which is under way or has its result

from `PolicyStoreAssumption`, `InventoryAssumption` and `RouteAssumption` (there
are processes, scopes, tools, keys and routes, the values for "none" are none of
the requests, the route table's limit is positive). `PolicyInv` needs to know
where the two locks are: `LocksHeld` says that whoever is past a lock holds it,
and that what a request is about to write is the file as it is with its own
scope changed. So the file is the `View` of all replacements (`FileIsView`),
each by another request (`ReplacedOnce`). `Written` and `Readers` say that what
a request publishes, and what a process decides by, is the view after some
number of replacements that covers all it acknowledged. `View` chooses the last
replacement of each scope; the lemmas `ViewStays` and `ViewChanges` say what one
more replacement does to it.

`InventoryInv` is about the copy of the file that each request holds between
load and save: without a race between processes (`raced`) one request at a time
holds one (`MutexHeld`), so that it saves the allowlist as it is with its own
change (`AllowlistKept`). That a known schema was seen twice needs where the
first sighting is (`SightingsSaved`, `RowsSeen`): the second is compared with
the row the first one left in the file.

`RouteInv` is about attempts, which are named by the callers that began them: an
attempt in flight has its key's place (`PlacesHeld`), a place is of an attempt
in flight or of one that was recorded (`PlacesLed`), a recorded one keeps its
place until it is evicted (`RecordedKept`), and who joined asked for the same
(`RoutesJoined`). The list of places that may be evicted is injective and ranges
over the recorded ones (`PlacesListed`), so eviction frees what the limit asks
for.

`DecisionProofs` proves, for every policy, every inventory row and every
request, without an assumption:

- `OnlyReviewedRuns`: `CallSpec => []AllowedMeansReviewed`
- `NoneUnaudited`: `CallSpec => []RecorderAgrees`
- `LossesDeny`: `CallSpec => FailsClosed`
- `FirstRuleDecides`: `CallSpec => FirstRuleWins`

The invariant (`CallInv`) says little: the request has one of the modes and
there is one row at most. The content is in the case analysis of `Authorize`,
along its early returns. `FirstRuleDecides` rests on `FirstStays`: the least
index of a rule that matches is the same in a longer policy. That there is a
least one follows from the well-foundedness of the naturals (`LeastIndex`, by
`WFMin`), and that the policy is a sequence of rules is an invariant of its own
(`OnePolicy`).

It also proves, from `ApplyAssumption` (programs are those engines shell out to,
changes have the actions and fields of a plan, bounds are natural numbers) and,
for the rules, from nothing:

- `AppliesReviewed`: `ApplyInit /\ [][ApplyNext]_applyVars => []ReviewsAgree`
- `RulesHold`: `RulesInit /\ [][RulesNext]_ruleVars => []RulesAgree`

Both rest on their types. Of an apply, the types say that a directory that is
missing or a plain file holds no policies (`ApplyTypesKept`), without which a
denial could hide behind it. Then one lemma per engine says what it finds an
error for, and that it cannot miss one it has to see (`OPAErrors`,
`SentinelErrors`, ...), and a run blocks as soon as one engine does
(`BlocksByOne`). `SafeChanges` says which changes the classifier lets pass
unasked, and `TextStricter` that a change whose values are not shown is judged no
milder. Of a resource, each check reads a few attributes only (`ReadsOnly`,
`PoliciesReadOnly`), so a fix, which sets one, can disturb one check and one
group of policies (`FixEnds`); the score of fewer findings is no lower
(`FewerScoreMore`). The types and the attributes are the finite table of the
module, since the rules name them.

`RecoveryProofs` proves, for any number of requests and drafts, from
`HandoffAssumption`:

- `BranchesSeparate`: `ReviewsSeparate` holds in every reachable state

by way of `ReviewInvariant`. `BranchesInv` says that a branch is held by one
request at a time, was made by one, and that what is checked out exists.
`TreeInv` is about files: requests that contend, those that hold a branch or
may still get one, agree on the draft, and nothing but that draft's files (and
state files) is staged. `CleanupInv` says what a request that is alone with its
draft can return to, and that it leaves its branch behind only with a commit, or
`Stranded`: without a base to return to, or because git failed the cleanup, which
it does not notice (`uncleaned`). The last two hold until the owner interferes
(`disturbed`). The key to the argument is the order of steps: a request writes
its files *before* it looks for the changes of others. So of two requests with
different drafts, the second to look finds the files of the first, until they
are committed, and refuses.

It also proves, from `DriftAssumption` (finitely many addresses, the values for
"none" and for an absent field are no address and no value, suppression rules
have the selectors of the code, bounds are natural numbers):

- `DifferencesAccounted`: `DriftInit /\ [][DriftNext]_driftVars => []DriftAccounted`

The invariant is the types: each address has a list of blocks and a list of
resources with lists of instances. `ComparedParts` says that what is compared is
among them, by `GreatestOf` (a finite set of indices has a greatest one), so a
difference that all parts show is found (`DifferenceFound`), and one that is
found is some part's (`ReportedDiffers`). `FoundAddresses` says that findings are exactly of the addresses that differ, so
each resource is counted once (`CountedOnce`, by the cardinality of disjoint
sets); `HiddenByRule` that a finding is missing only because a rule names
something it has; `Proposed` and `SizeReverted` what the two modes take up; and
`NewestOther` that the checkpoint chosen is the newest of its kind, which exists
because there are finitely many.

`ServicesProofs` proves, of each of six services and its own steps, for every
value of its constants:

- `MessagesDelivered`: `HubInit /\ [][HubNext]_hubVars => []HubDelivers`
- `BlocksKept`: the same of `SyncNext` and `SyncsKeepBlocks`
- `EditsAreOnTheirWay`: the same of `SyncNext` and `EditsOnTheirWay`
- `CallsAccounted`: the same of `McpNext` and `McpAccountable`
- `AgentsInLane`: the same of `LoopNext` and `AgentInLane`
- `GivenSecretsKept`: the same of `ConnNext` and `ConnectionsKept`
- `SecretsKept`: the same of `ProfileNext` and `ProfilesKept`

from the assumption each module names: limits of the code are positive
(`QueueSize`, `BufferSize`, `MaxTurns`, `BatchCap`, `AuditSize`), bounds are
natural numbers, the values for "none" and "older file" are no request, token,
method or key, the main file is a file, and there is a connection and an
authentication method.

- `HubInv`: what a client got, and then what waits in its channel, are the
  numbers that follow `since`, without a gap (`Follows`); a registered client's
  reach up to the last message handed out, so the next fits behind them. A
  channel is closed exactly when its client has left the set, so a second
  `unregister`, or a drop before it, closes nothing again.
- `SyncInv`: what a sync is about to write over a file covers the file's blocks,
  unless it does not parse or was changed since the sync read it
  (`KeepsBlocks`), and it writes only files its resources belong to
  (`WritesTargets`). `overtaken` is needed: another sync's write makes the first
  conjunct false. `PauseOwned` says that the pause is some running sync's, refused ones
  included, and that an edit owed a report meanwhile is on a timer already; an
  edit whose event the watcher has not seen when a sync pauses it is owed none
  any more. So the event of every other edit outside any sync is in the
  watcher's queue or its timers, and nothing drops it (`EditsOnTheirWay`, the
  safety half of `EditsReported`).
- `McpInv`: while a call is in hand it is the last line and has no record yet, a
  branch only of the draft in hand, a token if its record says approved, and what
  its record is going to say is true but for the branch of a draft that failed
  (`InHand`); whatever is answered is accounted for (`Answered`), every branch and
  artifact is a draft call's with a token (`Drafted`), and every plan file of a
  project that a call asked a plan for (`PlansAsked`). Kills fall between any two
  steps; the record is counted by lines, so that a restarted process cannot write
  it twice (`PastLines`, `OneAnswerEach`).
- `LoopInv`: a request under way was routed to a specialist (`Routed`), who may
  write if it wrote (`Written`); the results so far are those of the first calls
  of the batch, and a value only for a tool of its list (`Batched`); the ring is
  the end of the history (`Logged`).
- `ConnInv`: a record is encrypted as a whole with the key on disk or one that an
  environment named, or is an older one that nobody migrated; and while all
  settings are the same, with the key of every process (`RecordsEncoded`). A
  process uses no key but its own, and none has failed to find it while settings
  are the same (`KeysAgree`), since a key file, once made, is never replaced. A
  request that is about to write holds its manager's mutex and a migrated snapshot
  (`Prepared`), of the file as it is unless another manager wrote across it
  (`SnapshotsCurrent`), and then the file holds what was given (`GivenKept`).
- `ProfileInv`: a record's references name secrets it has, or it has none
  (`Sound`), and its secrets are the last ones given (`Holds`). Masked and
  missing fields, and the values of an older file, make the case analysis of an
  update; no step is concurrent.

The runs check `HubDelivers`, `SyncsKeepBlocks` and the other four as the modules
state them. What the theorems add is size: any number of sockets, files, lines,
turns, requests and secrets.

Every invariant and every action property that a run checks is stated by one of
these theorems. The type invariants of the modules are proved as parts of the
inductive invariants, instead of being listed in a run.

Only model-checked: liveness (`Answered`, `Completes`, `ReleasesServer`,
`HubReleases`, `EditsReported`), because the proof system does not handle
fairness, though what the first, third and last of them need of the state is
proved (`WaitersAreServed`, `NoneClaimedByNobody`, `EditsAreOnTheirWay`); and the four violated properties, which have counterexamples. What a
recursive definition computes for every input would take an induction theorem
that the installed provers cannot instantiate; where a least counterexample is
enough, its existence is proved from `WFMin` instead.

## 5. Plan

Done: every component of the inventory above has its module and its run, and
every safety property of a run has its theorem. Worth adding, in this order:

1. `ToolInventory` composed with `ToolExecution`, with schemas that change
   between an approval and its use.
2. Commands of Pulumi and Ansible, as further kinds of command in `PlanRun`;
   the readers of git history that recovery uses.

## 6. Not modelled

- Prompts, diffs, log texts, redaction and path handling: data that no property
  depends on.
- Parsers, generators, the Pulumi bridge, catalogs, cost and blast analyses:
  translations of data without state, for which the repository has tables of
  examples. What their output means for a decision (a nested block that is
  dropped, a number of another type) is in `ResourceRules` and `PlanRisk`.
- Syncs of an environment's directory and of Pulumi code; a key file that is
  spoiled from outside; discovery of local model providers, which probes and
  keeps nothing.
- AI providers, embeddings and RAG: requests to a service and what is made of
  the answer. The agent loop takes any answer.
- Projects, workspace, HTTP parsing and authentication: sequential reads and
  writes of files, or no decision that another component relies on.
- Pulumi and Ansible commands, whose gates follow the same code with other
  artifacts; output limits and environments of commands.
- External scanners and engines, MCP tools, `terraform`, git and the operating
  system, except for what the code sees of them: they answer, fail, or do not
  answer.
- The web UI.

Time is abstracted to what it can cause: a record expires, a call ends, a
notification is late.
