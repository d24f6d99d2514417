# crib-sdk in TLA+

crib-sdk is a Go library, and a command line `cribctl`, that turns *plans* (a
graph of plans and components) into Kubernetes manifests and applies them with
`kubectl` and local commands. These modules model the engines that decide what
is applied, in which order, and what happens when a step fails or two
goroutines meet. Paths below are relative to `src/`.

Every module is parsed by SANY, model-checked by TLC with the `.cfg` beside it,
and TLAPS checks the theorems about eleven of them, a refinement among them.

## The system

```
 cribctl plan preview, plan apply  (one output directory per command)
      |
      v
 PreviewPlan, ApplyPlan / crib.Plan.Apply
      |
      v
 PlanService.CreatePlan --- Build (crib/plan.go) ---> resolved plan
      |   \--- component functions --- Composite engine (fx, reflect)
      |                             \- scalars: cdk8s constructs, helm client
      v   App.Synth: one YAML file per resource, in an output directory
 AppPlan.Apply --- findManifests, normalizeManifests ---> bundles
      |
      v   one bundle at a time, under service.mu
 ManifestBundle.Apply --- NewRunner, Execute (clientsideapply.mu) ---> bash -c

 cribctl helm create-component
      |
      v
 CreateHelmComponent.Run --- VendorRepo (retry, timeout, clientsideapply.mu) ---> helm
      \--- Generator.Generate ---> component.go, component_test.go, values.yaml,
                                   chart.defaults.yaml
```

| Component | State | Operations | Hard because | Correct when | Module |
|---|---|---|---|---|---|
| Plan API, `crib/plan.go` | `childFuncs`, `childPlans`; `stack`, `visited`, `frames` of one Build | `Build` | lazy, keyed by names, run twice per plan | cycles found exactly when there; children first, in order, also after a second Build | PlanBuild |
| Manifests, `internal/core/service/plan.go` | the output directory, bundles | `findManifests`, `normalizeManifests`, `Client` | three places close a bundle | no file lost, repeated, reordered or mixed | Manifests, CribctlPlan |
| Plan engine, `internal/core/service/plan.go` | `mu`, `planResults` | `CreatePlan`, `Preview`, `Apply` | goroutines, two mutexes, partial failure | exclusion, no leaked lock, failures reported, order kept; implements PlanEngine | PlanEngine, PlanService |
| Runners, `internal/adapter/clientsideapply` | `clientsideapply.mu` | `NewRunner`, `Execute` | taken inside and outside `service.mu` | one command at a time | PlanService |
| Composite engine, `internal/core/service/composite.go` | components, edges, `results`, `sliceResults` | register, graph, execute | matching by reflected types, ordering, cycles | dependencies first, slices complete, order of arguments irrelevant unless an interface is implemented by results of other types | Composite |
| Buffer pools, `internal/adapter/mempools` | pooled buffers and their arrays | `Get`, `put` and seven callers | shared by all goroutines; slices outlive the owner | one owner, own bytes | BufferPool |
| Plan results, `internal/adapter/plancache` | `nodes`, `roots`, RWMutex | `Add`, `Components`, lookups | filled inside a loop that goes on after errors | what was added, in order | `results` of PlanService |
| Helm client, `internal/adapter/helm` | `retries`, the ticker and the attempt's context; helm's repositories and index | seven calls, each with timeout and retry | a killed attempt leaves helm anywhere; the ticker runs beside the attempts; the mutex ignores the context | attempts bounded and spaced, the chart asked for, every call ends | HelmClient |
| create-component, `internal/adapter/cribctl`, `helm/generator.go` | the four files of a component | `Run`, `Generate` | concurrent templates, failures half way, a second run over the first | success leaves one whole component, failure to vendor leaves the old one | CreateComponent |
| File handler, `internal/adapter/filehandler` | a rooted directory | `Scan`, temporary directories, buffered reads | the order of the scan is the order of apply | | `Tree` of CribctlPlan, BufferPool |
| Resolvers, `service/iresolver`; doctor | none | rewrite an object; compare versions | | | not modelled |
| cribctl commands, `cmd/cribctl` | one output directory | `plan preview`, `plan apply` | the plan is synthesized twice, into a directory that may hold more | what was shown is applied, success is complete | CribctlPlan |
| Composites, `crib/composite` | props; constructs and dependencies of an App | component functions, `Validate` | names put together in several functions; called again by a preview | names resolve, commands wait, ids are unique, calls repeat | Components |
| Names, `internal/core/common/infra` | none | `ResourceID` | hash of the exported props only | ids clash for twins only | ComponentLibrary |
| Values, `internal/values_loaders.go`, `crib/scalar/charts` | `chartDefaults`, loaders, trees of maps | loaders, merge, `SetValueAtPath` | maps shared between components, loaders that work once | the user's values win, calls repeat, leaks are bounded | ChartValues |
| Scalars, `crib/scalar`; plans, `contrib` | an App | constructors | | as composites | ComponentLibrary, MCComponents |

## Modules

`MCx` gives the constants of `x` their values for TLC; `xProofs` holds theorems
about `x` (ComponentsProofs those about ComponentLibrary too, CreateComponentProofs those
about HelmClient), and Lemmas what they need to know of sequences and folds, with the
proofs about Manifests.
Definitions whose comment starts with "Mutant of" are wrong variants of the definition
after them; they are not part of any specification and document what each property is
able to tell apart.

**PlanBuild** — one goroutine running `Plan.Build` as a state machine. `frames`,
`stack` and `visited` are the code's; `pending` holds the rest of the `range
p.childFuncs` loop of each open call, so one action is one turn of `resolveFn`:
`DetectCycle` (panic), `SkipVisited` (name already visited), `Descend` (open a
call), `ReturnToParent` and `ReturnFromBuild` (both through `CloseTop`: pop,
unmark, mark visited, clear `childFuncs`). Names and plan objects are different
things: two plans may share a name, since `stack` and `visited` are keyed by name.

**Manifests** — the pure functions from a directory to bundles as operators
(`normalizeDir` is a fold of the loop body). A file keeps its path and four attributes:
whether it is YAML, whether it can be read, whether it is a ClientSideApply, and
its `onFailure`.

**CribctlPlan** — `plan preview` and `plan apply`, one command after another, composed
with Manifests. Each command runs a plan of its own. `disk` is the command's directory: a new one, or that of
`--render-dir`, which may be the one earlier commands rendered into (`rendered`) or hold files
of any other origin (`Directories`); `kept` remembers what it held when the command began. `PreviewPlan`
and `CreatePlan` both synthesize into it, from two calls of the plan function;
`FindManifests` reads all of it. A plan renders the same paths every time, or has one
command whose id is new in every process (kind and registry put their script in a
temporary directory) or in every call (`examplev1` has a UUID in its props). Every
step may fail, the prompt may be answered either way or fail. PlanService takes the
plan service's inside apart; here a call is one step.

**PlanService** — any number of goroutines, each applying or previewing a plan or
running a helm command, with both mutexes. An action is what happens between two
points where another goroutine can come in; a critical section is entered by one
action and left by a later one. Component functions may fail. Which tree
`Synth` writes is a choice of TLC, and so is what its manifests say about failure, since
`Client` reads them back without validating; the bundles are those of module Manifests, and
`found` remembers all of a call.
The children of a plan are those Build resolved.

**PlanEngine** — what a caller may rely on: a plan is rejected or accepted as a whole,
with its components in order; its bundles get one outcome each, in order; an abort
ends the call with an error. It knows no locks, apps or directories. `Engine` in
PlanService is the refinement mapping: the phase of a call is read off its control
point and return value, its components are `results` once CreatePlan has returned.

**ComponentLibrary, Components** — the component functions of `crib/scalar` and
`crib/composite` as sequences of calls to cdk8s: `Make` a construct under an id,
`AddDependency` between charts. An object keeps what others may name: `gives`, what it
provides (pods with labels and ports, mounted files, databases and users, hosts),
`refs`, what it names, and `awaits`, what its command needs to exist. A construct is known
by its path of ids `<<prefix, key>>`; the key is what `ResourceID` hashes, the `Exported`
fields of the props. ComponentLibrary holds
the scalars and the workload helpers, Components the composites and the engine that
calls them: CreatePlan's loop (`Call`, `MakeConstruct`, `Depend`, `CallReturns`), then a
preview that calls the functions again with the props the first call left (`Changed`). A
second construct of one id panics (`IdTaken`), and a panic ends the program. An explorer of
type blockscout passes validation and fails in its function (`NotImplemented`). `ResourceID`
keeps eight hex digits of the hash; the model takes them to tell all keys apart. A plan is any
sequence of `Component` records: props of the types the functions take.

**ChartValues** — how a chart component gets its values. Go maps and slices are
references, so the model has a heap; `Merge` (mergo), `Copy` (maps.Copy) and
`SetValueAtPath` say which objects are made and which are shared. Calls of the
Component functions come in any order over one set of chart defaults and loaders, and a
values map, a YAML loader or a file may be given to several components. A loader refuses a second
parse, and one of kind "empty" fails always (a missing or undecodable file, a loader without
data). An index of a path that does not parse (`Unread`) makes `SetValueAtPath` return silently,
with what it has made so far left in place. A negative index, which panics, is left out.

**Composite** — registration, `dependencyGraph`, `executeGraph` with its `visit`
calls on an explicit `path`, and `ExecuteComponent`. `Builtins` are the two components
`CompositeSet.Apply` puts in front of every list: one returns the chart's context, the other
takes a `context.Context`, an interface, and returns the chart factory. A component is its position in
that list and a description of its Apply method; a constructor that is not one, returns an
error or panics is `callable = FALSE`, all three keep the composite from starting. `Candidates` is
`valueForType`; where the code ranges over a Go map the result is any of the
possible ones.

**BufferPool** — goroutines that take a buffer, write, and either use the bytes
while holding it or return a slice of its array. Arrays are separate from buffers,
because the slice refers to the array and a write may move a buffer to another.

**HelmClient** — the client `NewClient` returns: the base client, wrapped in a
timeout for each attempt, wrapped in the retry loop. A method of the base client is
the sequence `Steps(r)`; `StartAttempt` is one entry of the timeout decorator,
`BeginCommand` and `CommandEnds` or `CommandFails` are `CmdRunner.Execute` around
its mutex, `WaitForTick`, `TakeTick` and `GiveUp` the loop and its `select`. `Tick`
is the clock: it runs down `left`, the rest of the attempt's context, and drives
the ticker (`phase`, and `due` for the one tick its channel buffers). `VendorRepo`
calls the base client's own methods, so its inner calls have neither timeout nor
retry. External are helm's list of repositories (`added`), its index (`index`), what
is published (`remote`), and other commands of the process that hold the mutex
(`Other`).

**CreateComponent** — `CreateHelmComponent.Run` over HelmClient, which it extends:
validation, `vendorChart` with `checkVersion`, `readValues`, then the generator. The
templates are rendered by goroutines, so `Render` and `RenderFails` take any template
still `pending`; the component directory maps every file to the version and values it
was written from, or to `Torn`. Two runs share the directory. A call may also be
made by any other program (`Use`), which covers the methods the command does not use.

## Runs

| Run | Checks | Bounds |
|---|---|---|
| PlanBuild | types; a panic names a real cycle; a completed Build missed none; children before parents and in order; a returned plan object is resolved or has a namesake; every Build ends | 4 plans, two sharing a name, every assignment of up to 2 children each, 2 Builds |
| CribctlPlan | bundles are the files in order, uniform, as few as possible; what is applied is a prefix of what was shown and what the directory held before; success is complete; every command ends | 2 commands, each preview or apply, with any of 21 plans, in a fresh directory, that of the other command or one of 2 with other files; up to 4 files in 2 directories, YAML or not, readable or not, local and remote; ids fixed, per process or per call |
| PlanService | exclusion, failures, order of components; every call ends; PlanEngine is implemented | 2 applies, 1 preview, 1 helm command; plans three levels deep; no bundle, an abort before a remote one, or a continue before one whose onFailure is unset |
| Composite | dependencies first; outcome independent of order, but for interfaces whose implementer only the list settles; parameters complete; what interfaces get; every run ends | the builtins and every list of up to 4 of 14 kinds of components |
| BufferPool | one owner; bytes used while a buffer is held are the holder's; buffers come back | 3 calls, 3 buffers, 4 arrays, 2 writes each |
| CreateComponent | attempts spaced; errors only after all of them; the chart asked for, and fresh; what each run leaves of the files; every call and run ends | 1 goroutine and other commands; 2 runs with version latest, 1 or 2, or one call of each method; `RetryCount` 2, `RetryInterval` 2, `Timeout` 2, `VendorTimeout` 3; 2 published versions; 2 templates |
| Components | every name resolves; every waiting command comes after what it waits for; ids clash for twins only; a preview calls the functions to the same effect | 23 plans: the ten registered in `contrib`, two sandbox job distributors away from their database, and eleven that use the options these leave out or hold twins |
| ChartValues | the user's values and patches reach the chart; a second call repeats the first; what leaks between components is bounded | up to 4 calls of 10 components, in any order; 3 charts that merge or copy, patch or not; a values map, a YAML loader and a file, each shared by components of several charts one of which patches it, and a loader that fails |

`CHECK_DEADLOCK FALSE` everywhere: each of these programs ends, and its last state
has no successor. That nothing stops earlier is what the liveness properties
(`BuildEnds`, `CommandsEnd`, `EveryCallEnds` of PlanService and of CreateComponent,
`RunEnds`, `BuffersReturn`) say; Components and ChartValues are sequential calls
without loops of their own.

Why the bounds are enough. Build: a cycle of length three through shared names,
diamonds and self-loops all fit in four plans, and the second Build shows the
state the first leaves. CribctlPlan: the fold over files looks at one file and at the
flag of the one before, so every transition occurs within three files and the fourth
shows a bundle closed twice; the directory links a command only to what earlier
ones left and to what it held before, which two commands and two other directories show. PlanService: every pair of kinds of callers,
twice the one that competes with itself. Composite: a cycle of two, a diamond and a
slice with two producers plus an unrelated component fit in four, beside the builtins. BufferPool: a
buffer moves from one call to another while a third holds its slice.
CreateComponent: calls share only the mutex and helm's index, and `Other` may
take the mutex at any step, so a second caller adds no order of events for it;
an attempt may outlast a retry interval (3 against 2), which is when the ticker
buffers a tick and drops another; two retries give a first, a middle and a last
attempt; two versions make the index stale. Components: the registered plans are the
inputs the program has, and every option the model keeps occurs in some plan.
ChartValues: what a call sees depends on the last writer of a shared map, and four
calls give a writer, one in between, and a component called twice.

What the properties except is written into them. ChartValues: `UserValuesWin` and
`CallsRepeat` except a map of the user's that an earlier component `Writes` into (a chart that
merges or patches, and that shares a map with this one); `LeaksAreNamed` says that leaks come
from such a component and, in a chart that only copies, lie below a key of the user's own map.
Composite: the graph knows a result by its static type, so the implementer of an interface may
be unknown to it. `OrderDoesNotMatter` asks of such a parameter to be `Settled`: the implementer
is listed before the consumer and before all that waits for it (`ListedFirst`). In every list the
builtins are, one of which takes an interface by its own name. PlanService: `FailuresReported` is
about abort; any other error is passed over, and the hazard list says where. CribctlPlan:
`ShownIsApplied` counts what the directory held before, and is about fixed ids; `AppliesThePlan`, which the run
CribctlPlanStale violates, counts only what was shown.

`CurrentNamespace` of Components is the namespace of the user's kubectl context. Its properties
have these exceptions. `OfAptos`: networkinfo writes an EVM network on port 8545 for aptos nodes
too. `Coherent`: props that say one thing twice may contradict each other, and nothing validates
that they do not (an EVM chain served under another name or port than networkinfo writes, a
sandbox job distributor in another namespace than its database, or whose DSN names another
host). `Elsewhere`: what is waited for in a namespace where it is not, by `WaitForRollout`, whose
command has no `-n` (`workload.go:73`), or by an incoherent sandbox job distributor. Constructs that
two components share (`PanicsOnlyOnTwins`): because they, or two parts of one (`HasTwins`), have the same
exported props, as two anvils that differ in an unexported option only, or because they run
the same command, which `aws`, `kind` and `kindCluster` do in the plan's own scope
(`Commands`). `OneShot`: the functions that refuse their own props the second time, a node set
and a configmap with a loader. What a plan brings along has to be given by it (`NamesGiven`: the
database of a node's URL, the endpoint of an explorer), which MCComponents assumes and TLC evaluates.

Some runs are expected to be violated. Each states what a comment of the
repository says and shows a behaviour in which the code does something else:

| Run | What happens |
|---|---|
| PlanServiceDescendants | `CreatePlan` reads the root's direct children only: the components of a grandchild are never called (`crib/plan.go:67`). |
| BufferPoolOutput | The output of a command, or the content of a file, is overwritten by the next user of the buffer before it is read (`mempools.go:19`). |
| ComponentsPreview | Of the registered plans one: `NodeSet.Validate` sets the namespace of its nodes and rejects nodes that have one: the plan `chainlink-nodesetv1` is applied, and previewed as an error. |
| CribctlPlanStale | `plan apply` synthesizes the plan for its preview and again to apply it, in one directory: a plan whose ids change between calls (`contrib/example/v1`) has the first synthesis applied too. |

More divergences are in the models but have no run of their own:

- Of two plan objects with one name the second is returned unresolved and its
  children are dropped silently (`crib/plan.go:222-223` says all are resolved;
  `ResolvedOrNamesake` states that exception).
- `Preview` uses cdk8s without the mutex that exists because concurrent use fails
  (`service/plan.go:28-30`).
- The order of the arguments matters for an interface that the graph does not match by type: a
  component with the signature of configmap v2's mapper, listed before one whose result
  implements the interface it collects, is executed first and given an empty slice
  (`composite.go:386`, against `crib/composite.go:13-15`); a single parameter fails as missing.
  A single one with two implementations gets one of them without an error.
- A component that returns only a nil error, listed twice: the second one's lookup of
  `context.Context` dereferences the nil and panics (`composite.go:585`; `crib/composite.go:17`
  says that scalars can be repeated). In the model such a list ends as "panic".
- A ClientSideApply that says nothing about failure is read back from the directory and fails:
  `NewError` makes a plain error of it, and Apply drops that and returns a state
  (`service/plan.go:149-152`, `domain/client_side_apply.go:110`; the scalar's default is abort).
  The constructors of the repository always set the field.
- `WaitForRollout` waits in the namespace of the kubectl context (`workload.go:65,73`), where the
  job distributor of its registered plan is not; a sandbox job distributor is deployed in the
  namespace of its database and awaited in its own (`sandbox/chainlink/jd/v1/jd.go:101,110,116`).
- A patch of an aptos component is written into the map of a values or YAML loader it shares with
  a postgres component, which then gets the patch in place of the user's value
  (`charts/aptos/v1/component.go:71-72,100`).
- With `--render-dir`, files that another plan rendered into the directory are applied without
  being shown (`cmd/plan.go:24`, `plan_apply.go:50`).
- Equal struct results count once in a slice (`ParametersAreComplete` states that
  exception), and the second of two results is lost, as the comment in `ExecuteComponent` admits.
- `TemplateRepo` panics when its command fails, since it reads a nil result first
  (`helm.go:137`).
- Without `--version`, create-component refuses its own default, `latest`, before it
  calls helm (`helm_create_component.go:28`; its help gives such an example).
- Components of one chart share nested defaults, and a patch of one is seen by the
  next (`charts/anvil/v1/component.go:75`, `charts/aptos/v1/component.go:74`);
  `LeaksAreNamed` bounds what leaks. The postgres, jd and telepresence charts ignore
  `ValuesPatches`, which the sandbox's job distributor gives them
  (`composite/sandbox/chainlink/jd/v1/jd.go:71`).
- A configmap whose data comes from a loader is refused when it is called again
  (`k8s/configmap/v1/configmap.go:59`), as by a preview; no registered plan has one.
- networkinfo writes an EVM network for aptos nodes, and an explorer may be given the type
  blockscout, whose function only returns an error (`explorer.go:56-58`).
- Two `aws` components with one profile, or a `kind` and a `kindCluster` component of one
  name, cannot be in one plan: they make a command with the same id in the same scope,
  and jsii panics (`composite/bootstrap/aws/v1/aws.go:47`, `scalar/bootstrap/kind/v1/kind.go:57`;
  the path of the script is the same all through a process).
- `plan apply` prints an error of the preview or of Apply and exits with status 0.

## Fairness

Each fair specification adds weak fairness of a goroutine's own steps, and only
CreateComponent's more, as said below. Build and the composite engine run on one goroutine with no waiting.
In PlanService each caller is fair (`WF_vars(Step(c))`): the scheduler runs every
goroutine, and a mutex that is free for good is granted to a waiter. `sync.Mutex`
promises more, its starvation mode serves waiters in order, but no property
needs it, since every caller locks a bounded number of times. That a command ends
is an assumption: commands have no timeout of their own, and `EveryCallEnds` is
false of a `kubectl --wait` that hangs. In BufferPool no call ever waits.
In CribctlPlan a command is fair (`WF_vars(Command)`): one goroutine whose only waits are
for the prompt, which is assumed to be answered, and for the commands it runs. That
another command is started is not assumed.
CreateComponent needs strong fairness of `BeginCommand`: other commands may take the
mutex again and again, and it is the starvation mode of `sync.Mutex` that serves a
waiter nevertheless. `Tick` is fair, for time passes, and waits for a command whose
context has ended: `exec.CommandContext` kills it. That a command without a
timeout ends (`helm template`, the other commands of the process) is assumed.
Nothing is assumed of cancellation, of publications or of new calls.

## Proofs

TLAPS proves the following for every value of the constants that satisfies the
modules' ASSUMEs.

Induction has to be written out: the library's induction theorems take a predicate as
a parameter, which no prover here can instantiate. **Lemmas** states it for a
set of numbers instead (`NatSetInduction`: if a set with 0 and the successors of its members
missed `n`, adding one would map its members below `n` one to one into fewer;
`SeqSetInduction` for sequences, `SubsetInduction` for the subsets of a finite set), and
derives from it what `FlattenSeq`, `FoldLeft`, `FoldSet` and the lists of a sorted set are
(`FlattenSeqFacts`, `SetFoldIsRun`, `FoldSubsetsExists` and `FoldStays`, `ByRankLists`).

Its second half is about Manifests, with no assumption but that directories are finite.
What the loop of
`normalizeManifests` does to a list of manifests of any length: `LoopInv` says that the
bundles closed so far and the current one fit a client each, and that two remote ones
never meet; `BundleManifestsIn` that together they hold the manifests read so far, in
order. `NormalizeDirFacts` and `NormalizeFacts` carry this to a directory and the tree.

**CribctlPlanProofs** (from `PlansAssumption` and `DirectoriesAssumption`). All five invariants of the run, for
directories of any size and any number of commands. `BundlesAreTheFilesHolds`,
`BundlesFitClientsHolds` and `BundlesAreMaximalHolds` are those results applied to what
the scan finds. `CommandInvariant` says what a command knows at each stage: the last
synthesis lies in the directory (`OnDisk`), the bundles are those of the directory as
it is (`Found`), the loop went on past failures that may be passed only (`WentOn`), and a
plan of fixed ids has written the same files every time (`Unchanged`).
`ShownIsAppliedHolds` and `SuccessIsWholeHolds` follow from it.
`PlansAssumption` and `DirectoriesAssumption` say what a directory is: finitely many files, each
known by its path. Nothing is assumed of what a kept directory holds, of the plan that wrote it,
or that two commands run the same plan; for that `ShownIsApplied` has `kept` in it.

**PlanBuildProofs** (from `PlanAssumption`: names and declared children of plans).
`TypeCorrect`; `StackIsThePath`, that `stack` is the set of the names of the
frames, no two frames share a name and none is visited; `CyclesAreReal`;
`BuildMissesNoCycle`; `ChildrenAreFirst`. `CallInv` adds to the first two what links
a call to its caller: the child a call was opened for is the head of the parent's
`pending`. For the last two, `FirstBuild` says that during the first Build the
visited names are closed under children except for what the open loops have still
to do. Acyclicity of the visited names is inductive: a name closes only when all
its children are visited and it itself is not, so it cannot lie on a cycle
inside the old set. `ChildrenInOrderHolds` needs `Consumed`, that what an open call
has collected followed by what it has still to do is what the plan declared, in both
Builds; `ResolvedOrNamesakeHolds` needs `NamesResolved`, that every visited name has a
plan whose constructors were consumed, and so has every listed child.

**PlanServiceProofs** (from `PlanServiceAssumption`). `LocksInvariant` ties each
mutex to the control points between its Lock and its Unlock and gives
`ExclusionHolds`. `HistoryInvariant` follows a caller through its points and gives
`ErrorsPreventApplyHolds` and `AbortStopsPlanHolds`: before Synth nothing ran, Synth
needs no failure, and an abort is always the last entry. `ProgressInvariant` adds how
far a call has come: what it has resolved followed by what it has still to call is
the plan's list of components. It gives `ChildrenBeforeParentHolds`, since that list
concatenates those of the children and ends with the plan's own, and
`PlanServiceImplementsPlanEngine`: with any number of callers each step maps to a step
of PlanEngine or to none. `FailuresReportedHolds` rests on `ErrorsInvariant`: the bundles that
ran and those left are together the bundles found, and what failed with another error than
abort has a manifest that does not say abort. It holds whatever the manifests say, since
`TreesAssumption` asks only for a directory to be finite; an error which is neither abort nor
continue goes unreported, as listed above.

**CompositeProofs** (from `CompositeAssumption`). All the invariants of the run and the
action property, for argument lists of any length. `SearchInv` describes the visits:
`path` is a chain of dependencies, each of them unexecuted, and what the loop of a
visit has passed is executed, which gives `DependenciesFirstHolds`. `ValuesInv` adds
what the two result maps hold, with which `ParametersAreCompleteHolds` and
`InterfacesSeeExecutedHolds` say what a parameter is given. `OrderDoesNotMatterHolds`
says what is left of "the order does not matter" in every list that runs, the builtins in front.
Of any list: a run that ends as "circular" has found a set of components that wait for one
another; one that ends as "done" found a producer for every single parameter; and a component
executes after all that could give a value to a parameter that is `Settled`. Of a list whose
parameters all are: a "missing" dependency is one no order would meet, and a run that is "done"
has no such set, since the first of it to be executed would have had to wait for another. The
third part needs to know why a visit was made: the components listed before the one at the
bottom of `path` are executed, and all others on `path` are what that one waits for (`Roots`).
So what has to precede a component (`Precede`: the producers of its parameters and whatever is
`ListedFirst`) is executed when it is, which `ExecutedClosed` and `ExecutedAcyclic` say.

**BufferPoolProofs** (from `BufferPoolAssumption`). `PoolInv` strengthens
`OneOwner` and `CopiesAreOwn` by `ArraysAreApart`, that no two buffers share an array,
and by `HeldCells`, that a held buffer contains what its holder wrote.
It gives `OneOwnerHolds`, `HeldBytesHold` and `CopiesHold`. Together with the
BufferPoolOutput run they draw the line exactly: bytes used before the buffer is
given back are safe beside any number of careless callers, bytes used after are not.

**CreateComponentProofs** (from `HelmClientAssumption` and `CreateComponentAssumption`).
`LoopInvariant` says of each call what its loop has paid for: `retries * RetryInterval`,
one more interval when a tick is buffered, and the `phase` of the ticker never exceed
`since` (`Paid`, with `Fired` for a buffered tick); it waits for a tick only while
`retries < RetryCount` (`MayRetry`); and an error ends a call that is out of retries or
cancelled (`Patient`). `SpacingHolds` and `PatienceHolds` follow. `RetriesAreSpaced`
alone is not inductive: what `TakeTick` needs is the interval that the buffered tick
stands for. `PullInvariant` says which steps an attempt to pull may have left and what
those it has taken did (`Attempted`): after `update` the index is no older than the attempt,
whatever other callers, killed commands and publications did since, because helm's index
only grows (`Grows`); after `search` the version found is no older; after `pull` the chart
is that version. `PulledAsAskedHolds` follows, and, with `RunInvariant` (what a run of the
command knows at each stage), `FilesFollowRunsHolds`, for any templates and runs.
`PulledAsAsked` speaks of freshness for http repositories only: an OCI release is searched
for in an index that nothing updates, so "latest" of it is whatever the index has
(`CreateComponent` never asks for that, other callers of `VendorRepo` may).

**ComponentsProofs** (from `PlansAssumption`, that a plan is a sequence of components). All
four invariants of the run, for plans of any length, node sets and chains of any size, and
any props. The work is in two layers.

What the steps of one function are. `Acts` says what they refer to, offer, await and
order; `Block` that they make constructs below one path, under ids from a given set, and
no two of one path unless the props have twins. Both compose over `\o` and `FlattenSeq`
(`JoinActs`, `JoinBlocks`, `LiftBlock` for a nested component, `FlattenBlock` for a loop),
so every scalar and composite has a lemma, down to `StepsSound`: the steps of a valid,
coherent component resolve every name but those its props bring, put each command after
what it awaits, and order charts as `Later` does. `Later` is the reason why no plan
has a cycle: it compares two paths where they part, by a `Rank` that each function's ids
have (the Postgres before its wait, before the job distributor, before its wait; the
charts of `chains` by their position), and is a strict order (`LaterIsStrict`).
`IdsTell` says that components with different exported props and commands never meet in
an id, before or after a call has changed them, and `ShownAgain` that `Changed` props make
the same resources, under other ids perhaps.

What the engine does with steps. `RunInv`: while nothing has panicked there is a plan such
that props, constructs, dependencies and results are those of its calls so far; of a
running call, what it has made followed by `todo` is its steps (`Progress`). The four
properties are not inductive without it: a half-made component resolves nothing, and
whether an id is taken depends on which props the earlier calls had. TLC checked `RunInv`
on the run's plans before it was proved (`RunFollowsPlan`). It gives `ConstructsNeverClash`
and `PreviewRepeats`; of plans that satisfy `NamesGiven`, which is what a user has to get right
and TLC finds true of the run's plans, `NamesResolve`; and `CommandsInOrder` of all plans. The
exceptions listed above are part of the properties, so of these theorems too: `NamesResolve`
is about coherent components, `CommandsInOrder` about waits that are not `Elsewhere`. For
`CommandsInOrder` the fold of `OrderedCharts` is shown to stay within `Later` and to keep
every edge it began with (`OrderedChartsFacts`), in whatever order it takes the charts.

Only model-checked: all liveness (fairness and ENABLED are outside TLAPS) and everything of
ChartValues (`Merge` and `Leaves` are recursive over trees of maps, and what a recursive
definition computes for every tree no prover here can follow).

## Not modelled

- cdk8s, jsii, fx, kubectl and helm themselves, and the contents of manifests:
  images, resources, environment variables, probes.
- What no code of the repository uses: `k8s/job`, `loki` and the second version of
  configmap, `WaitForReady` of helmchart, `defaultsPath` of kind (never set,
  `kind.go:60`), `UnmarshalDocument`, `HelmChartVersions.IsValid`, and `EchoRunner`,
  which `NewRunner` never creates. The lookups of plancache are for callers of
  `Plan.Apply`.
- Functions of one value, kept nowhere: the manifest resolvers, doctor's comparison of
  versions, `EnvLoader`, validation by struct tags (a library), `normalizePackageName`,
  and the rule of mergo that an empty value does not override.
- `CopyDir` and the single-file operations of the file handler.
- Two concurrent Builds that share plan objects, a Build after a recovered panic, and
  a component function that calls the plan engine again. No code of the
  repository does any of these.

## Plan

Done: PlanBuild, Manifests, PlanEngine, PlanService, Composite, BufferPool, HelmClient,
CreateComponent, ComponentLibrary, Components, ChartValues, CribctlPlan. Next:

1. Proofs about ChartValues: which objects of the heap a call can reach, as an
   invariant over the set of allocated objects, with `Merge` as a function on heaps without
   cycles, and `CallsRepeat` for loaders that copy.
2. SharedPlans: two instances of PlanBuild over one set of plan objects, should
   the repository come to build plans concurrently.
3. The configmap of version 2, and `k8s/job`, once a plan uses them.
