----------------------------- MODULE Components -----------------------------
(***************************************************************************)
(* A plan's component functions at work: CreatePlan calls each of them in  *)
(* an App, and AppPlan.Preview calls each of them again, with the same     *)
(* props, in a second App.  An action is one step of a component function  *)
(* (module ComponentLibrary).  Helm may fail to fetch a chart at any call. *)
(*                                                                         *)
(* A component is a record: its type, and the props that decide which      *)
(* objects it makes.  Props that a function changes are fields that Call   *)
(* updates: they are pointers, and the second call sees the changes.       *)
(***************************************************************************)
EXTENDS ComponentLibrary

CONSTANT Plans   \* sequences of components

(* A component: its type, and the props that matter.                       *)
SandboxNode == [type : STRING, ns : STRING, release : STRING, chain : STRING,
                service : STRING, ports : SUBSET Nat]
Explorer == [type : {"otterscan", "blockscout"}, ns : STRING, release : STRING,
             target : {"endpoint"} \X STRING \X STRING \X SUBSET Nat]
Chain == [nodes : Seq(SandboxNode), explorer : Seq(Explorer)]
Release == [ns : STRING, release : STRING]

Component ==
    [type : {"node"}, ns : STRING, app : STRING, ports : SUBSET Nat, configs : SUBSET STRING,
     secrets : SUBSET STRING, args : BOOLEAN, url : {<<>>} \cup (STRING \X STRING \X STRING)]
    \cup [type : {"nodeset"}, ns : STRING, release : STRING, nodes : Seq(STRING),
          named : BOOLEAN]
    \cup [type : {"jd"}, ns : STRING, app : STRING, rollout : BOOLEAN]
    \cup [type : {"anvil"}, ns : STRING, chain : STRING, ingress : BOOLEAN,
          persistence : BOOLEAN]
    \cup [type : {"fake"}, ns : STRING, app : STRING, ports : Seq(STRING \X Nat)]
    \cup [type : {"telepresence"}, ns : STRING, quit : BOOLEAN]
    \cup [type : {"nginx"}]
    \cup [type : {"aws"}, profile : STRING, cluster : STRING, ns : STRING]
    \cup [type : {"kind", "kindCluster"}, name : STRING]
    \cup [type : {"chains"}, configs : Seq(Chain), sequential : BOOLEAN]
    \cup [type : {"sandboxJD"}, jd : Release, db : Release, host : STRING]
    \cup [type : {"postgres"}, ns : STRING, release : STRING, users : SUBSET (STRING \X STRING)]
    \cup [type : {"configmap"}, ns : STRING, name : STRING, files : SUBSET STRING,
          loader : BOOLEAN, loaded : BOOLEAN]

ASSUME PlansAssumption == Plans \subseteq Seq(Component)

VARIABLES
    props,      \* the plan's components, with their props as they are now
    app,        \* the App being filled: "create" or "preview", or how it ended
    at,         \* the component whose function is called
    todo,       \* steps that call has not taken; <<>> between calls
    calling,    \* the call has begun
    made,       \* constructs of the App
    deps,       \* dependencies between its charts
    results,    \* result of every call in this App: "ok", "error" (invalid
                \* props), "helm" or "unimplemented"
    created     \* what CreatePlan's App holds, once it is complete

vars == <<props, app, at, todo, calling, made, deps, results, created>>

Root == << <<"root", "">> >>

----------------------------------------------------------------------------
(* chainlinknode.go.  c: ns, app, url (<<>> or <<host, user, database>>),  *)
(* ports, configs, secrets (names of the overrides), args (given by hand). *)
NodePath(p, c) ==
    Append(p, ResourceID("sdk.composite.chainlink.node.v1", Exported(c)))

DefaultPorts == [api |-> 6688, p2pv2 |-> 5001]
NodePorts(c) == IF c.ports = {} THEN {DefaultPorts.api, DefaultPorts.p2pv2} ELSE c.ports

(* Without a DatabaseURL the node brings a database named after itself.    *)
NodeURL(c) == IF c.url = <<>> THEN <<c.app \o "-postgres", c.app, c.app>> ELSE c.url

NodePostgres(q, c) ==
    IF c.url = <<>>
    THEN Postgres(q, c.ns, c.app \o "-postgres", c.app \o "-postgres",
                  {<<c.app, c.app>>})
    ELSE <<>>

(* Mutant of NodeFiles: the overrides are left out of the ConfigMap.       *)
NodeFilesPlain(q, c) ==
    Secret(q, c.ns, c.app \o "-file", {"secrets.toml", "apicredentials"} \cup c.secrets)
        \o ConfigMap(q, c.ns, c.app \o "-config", {"config.toml"}, FALSE, {})

(* The Secret and the ConfigMap with the files ...                         *)
NodeFiles(q, c) ==
    Secret(q, c.ns, c.app \o "-file", {"secrets.toml", "apicredentials"} \cup c.secrets)
        \o ConfigMap(q, c.ns, c.app \o "-config", {"config.toml"} \cup c.configs, FALSE, {})

(* ... and what the command line reads of them: -c and -s arguments for    *)
(* every file, unless the args are given, and secrets.toml, which the init *)
(* container always reads for the database's URL.                          *)
NodeArgs(c) ==
    {<<"secret", c.ns, c.app \o "-file",
       IF c.args THEN {"secrets.toml"}
       ELSE {"secrets.toml", "apicredentials"} \cup c.secrets>>,
     <<"configmap", c.ns, c.app \o "-config",
       IF c.args THEN {} ELSE {"config.toml"} \cup c.configs>>}

NodeDeployment(q, c) ==
    Make(Append(q, <<"chainlink-deployment">>), q, <<"Deployment", c.ns, c.app>>,
         {Pod(c.ns, Labels("chainlink", c.app) \cup Ports(NodePorts(c)))},
         NodeArgs(c) \cup
             {<<"database", c.ns, NodeURL(c)[1], {<<NodeURL(c)[2], NodeURL(c)[3]>>}>>},
         {})

chainlinkNode(p, c) ==
    LET q == NodePath(p, c) IN
    NewChart(q) \o NodePostgres(q, c) \o NodeFiles(q, c) \o NodeDeployment(q, c)
        \o Service(q, c.ns, c.app, Labels("chainlink", c.app), NodePorts(c), NodePorts(c))

----------------------------------------------------------------------------
(* nodeset.go.  c: ns, release, nodes (apps of the nodes, in order).       *)
NodeUser(i) == <<"chainlink_user", i>>
NodeDatabase(i) == <<"chainlink_node", i>>

(* The users and databases the script creates.                             *)
generateInitSQL(c) == {<<NodeUser(i), NodeDatabase(i)>> : i \in 1..Len(c.nodes)}

(* A node of the set: a copy of its props with the shared database's URL.  *)
SetNode(c, i) ==
    [type |-> "node", ns |-> c.ns, app |-> c.nodes[i], ports |-> {}, configs |-> {}, secrets |-> {},
     args |-> FALSE, url |-> <<c.release, NodeUser(i), NodeDatabase(i)>>]

(* The wait is for every pod labelled chainlink in the namespace, after    *)
(* all nodes of the set.                                                   *)
nodeSet(p, c) ==
    LET q == Append(p, ResourceID("sdk.composite.chainlink.nodeset.v1", Exported(c)))
        labels == {<<"name", "chainlink">>}
        after(i) == AddDependency(CommandPath(q, c.ns, WaitCommand(labels)),
                                  NodePath(q, SetNode(c, i)))
    IN  NewChart(q)
        \o Postgres(q, c.ns, c.release, c.release, generateInitSQL(c))
        \o FlattenSeq([i \in 1..Len(c.nodes) |-> chainlinkNode(q, SetNode(c, i))])
        \o ClientSideApply(q, c.ns, WaitCommand(labels), {}, {Pod(c.ns, labels)})
        \o FlattenSeq([i \in 1..Len(c.nodes) |-> after(i)])

----------------------------------------------------------------------------
(* jd.go.  c: ns, app, rollout.                                            *)
JDWorkload(c) ==
    [kind |-> "deployment", ns |-> c.ns, app |-> "jd", name |-> c.app,
     ports |-> {42242, 8080, 8081}]

AddPostgresWithWait(q, c) ==
    LET db == c.app \o "-db" IN
    Postgres(q, c.ns, db, db, {<<"chainlink", "chainlink">>})
        \o Wait(q, c.ns, PodNumber0(db),
                PostgresPath(q, c.ns, db, db, {<<"chainlink", "chainlink">>}))

jdApp(q, c) ==
    Deployment(q, JDWorkload(c),
               {<<"database", c.ns, c.app \o "-db", {<<"chainlink", "chainlink">>}>>})
        \o ExposeViaService(q, JDWorkload(c))
        \o IF c.rollout THEN WaitForRollout(q, JDWorkload(c)) ELSE <<>>

jdComposite(p, c) ==
    LET q == Append(p, ResourceID("sdk.composite.chainlink.jd.v1", Exported(c)))
    IN  NewChart(q) \o AddPostgresWithWait(q, c) \o jdApp(q, c)

(* anvil.go.  c: ns, chain, ingress, persistence.                          *)
blockchain(p, c) ==
    LET q == Append(p, ResourceID("sdk.composite.blockchain.anvil.v1", Exported(c)))
        w == [kind |-> IF c.persistence THEN "statefulset" ELSE "deployment",
              ns |-> c.ns, app |-> "anvil", name |-> "anvil-" \o c.chain,
              ports |-> {8545}]
    IN  NewChart(q)
        \o (IF c.persistence THEN StatefulSet(q, w) ELSE Deployment(q, w, {}))
        \o IF c.ingress THEN ExposeViaIngress(q, w) ELSE ExposeViaService(q, w)

(* fake.go.  c: ns, app, ports (a sequence of <<name, number>>).           *)
fake(p, c) ==
    LET q == Append(p, ResourceID("sdk.composite.fake.v1", Exported(c)))
        numbers == {c.ports[i][2] : i \in DOMAIN c.ports}
        service(i) == Service(q, c.ns, c.app \o "-" \o c.ports[i][1],
                              Labels("fake", c.app), {c.ports[i][2]}, c.ports[i])
    IN  NewChart(q)
        \o Make(Append(q, <<"fake-deployment">>), q, <<"Deployment", c.ns, c.app>>,
                {Pod(c.ns, Labels("fake", c.app) \cup Ports(numbers))}, {}, {})
        \o FlattenSeq([i \in DOMAIN c.ports |-> service(i)])

----------------------------------------------------------------------------
(* telepresence.go.  c: ns, quit.                                          *)
CreateNamespaceLocalRBACs(q, c) ==
    Role(q, c.ns, "traffic-manager")
        \o RoleBinding(q, c.ns, "traffic-manager", "traffic-manager", "traffic-manager")
        \o ServiceAccount(q, c.ns, "traffic-manager")

(* Mutant of telepresenceComposite: the last dependency is forgotten.      *)
TelepresenceUnordered(p, c) ==
    LET q == Append(p, ResourceID("sdk.composite.telepresence.v1", Exported(c)))
        labels == {<<"app", "traffic-manager">>, <<"telepresence", "manager">>}
    IN  NewChart(q) \o CreateNamespaceLocalRBACs(q, c)
        \o ChartScalar(q, "telepresence", c.ns, "traffic-manager", "", {Pod(c.ns, labels)},
                       {<<"account", c.ns, "traffic-manager", {}>>})
        \o Wait(q, c.ns, labels, ChartPath(q, "telepresence", c.ns, "traffic-manager", ""))
        \o ClientSideApply(q, "default", <<"connect", c.ns>>, {},
                           {<<"ready", c.ns, "", labels>>})

telepresenceComposite(p, c) ==
    LET q == Append(p, ResourceID("sdk.composite.telepresence.v1", Exported(c)))
        labels == {<<"app", "traffic-manager">>, <<"telepresence", "manager">>}
        manager == ChartPath(q, "telepresence", c.ns, "traffic-manager", "")
        connect == CommandPath(q, "default", <<"connect", c.ns>>)
    IN  NewChart(q) \o CreateNamespaceLocalRBACs(q, c)
        \o ChartScalar(q, "telepresence", c.ns, "traffic-manager", "", {Pod(c.ns, labels)},
                       {<<"account", c.ns, "traffic-manager", {}>>})
        \o Wait(q, c.ns, labels, manager)
        \o (IF c.quit
            THEN ClientSideApply(q, c.ns, <<"quit">>, {}, {})
                 \o AddDependency(manager, CommandPath(q, c.ns, <<"quit">>))
            ELSE <<>>)
        \o ClientSideApply(q, "default", <<"connect", c.ns>>, {},
                           {<<"ready", c.ns, "", labels>>})
        \o AddDependency(connect, CommandPath(q, c.ns, WaitCommand(labels)))

(* nginxcontroller.go: the remote manifest, its namespace, and the wait.   *)
nginxController(p) ==
    LET q == Append(p, ResourceID("sdk.NginxController", ""))
        ns == "ingress-nginx"
        labels == Labels("ingress-nginx", "ingress-nginx")
                      \cup {<<"component", "controller">>}
    IN  NewChart(q) \o RemoteApply(q, "manifestURI", {Pod(ns, labels)})
        \o Namespace(q, ns)
        \o AddDependency(RemotePath(q, "manifestURI"), NamespacePath(q, ns))
        \o Wait(q, ns, labels, RemotePath(q, "manifestURI"))

(* aws.go: log in, then switch to the cluster, then to the namespace.      *)
awsComposite(p, c) ==
    ClientSideApply(p, "", <<"aws", c.profile>>, {<<"session", "", "", {}>>}, {})
        \o ClientSideApply(p, "", <<"kubectx", c.cluster>>,
                           {<<"context", "", "", {}>>}, {<<"session", "", "", {}>>})
        \o ClientSideApply(p, "", <<"kubens", c.ns>>, {}, {<<"context", "", "", {}>>})
        \o AddDependency(CommandPath(p, "", <<"kubectx", c.cluster>>),
                         CommandPath(p, "", <<"aws", c.profile>>))
        \o AddDependency(CommandPath(p, "", <<"kubens", c.ns>>),
                         CommandPath(p, "", <<"kubectx", c.cluster>>))

(* kind.go: the registry, then the cluster that uses it, then its context. *)
kindComposite(p, c) ==
    LET registry == c.name \o "-registry"
        context == <<"context", c.name>>
    IN  dockerRegistry(p, registry, "5001")
        \o kindCluster(p, c.name, {<<"registry", "", registry, {}>>})
        \o ClientSideApply(p, "default", context, {}, {<<"cluster", "", c.name, {}>>})
        \o AddDependency(KindPath(p, c.name),
                         CommandPath(p, "default", RegistryCommand(registry, "5001")))
        \o AddDependency(CommandPath(p, "default", context), KindPath(p, c.name))

----------------------------------------------------------------------------
(* The sandbox: node.go.  n: type, ns, release, chain, service and ports   *)
(* of its chart's values.                                                  *)
SandboxNodePath(p, n) == Append(p, ResourceID("sdk.Blockchain", n))
SandboxChart(p, n) ==
    ComponentPath(SandboxNodePath(p, n), n.type, n.ns, n.release, n.service, n.ports)

blockchainNode(p, n) ==
    LET q == SandboxNodePath(p, n) IN
    NewChart(q)
        \o ComponentChart(q, n.type, n.ns, n.release, n.service, n.ports, {})
        \o Wait(q, n.ns, DevspaceLabels(n.release), SandboxChart(p, n))

(* explorer.go.  e: type, ns, release, target (the endpoint its values     *)
(* name).  Validate accepts a blockscout and CreateComponent returns an    *)
(* error for it, when the explorer's own chart is made already.            *)
ExplorerPath(p, e) == Append(p, ResourceID("sdk.BlockExplorer", e))

blockscout(q, e) ==
    Make(Append(q, <<"blockscout">>), q, <<"Blockscout", e.ns, e.release>>, {}, {}, {})

blockchainExplorer(p, e) ==
    LET q == ExplorerPath(p, e) IN
    IF e.type = "blockscout"
    THEN NewChart(q) \o blockscout(q, e)
    ELSE NewChart(q)
        \o ComponentChart(q, "otterscan", e.ns, e.release, e.release, {80}, {e.target})
        \o Wait(q, e.ns, DevspaceLabels(e.release),
                ComponentPath(q, "otterscan", e.ns, e.release, e.release, {80}))

(* networkinfo.go: the ConfigMap that tells others where the node listens. *)
(* i is the index of its config.                                           *)
NetworkPath(p, n, i) == Append(p, ResourceID("sdk.NetworkInfo", <<n, i>>))

networkInfo(p, n, i) ==
    NewChart(NetworkPath(p, n, i))
        \o ConfigMap(NetworkPath(p, n, i), n.ns, "network-anvil-" \o n.chain,
                     {"01-network-" \o n.release \o ".toml"}, FALSE,
                     {Endpoint(n.ns, n.release, {8545})})

(* chains.go.  c: configs (nodes, explorer <<>> or <<e>>), sequential.     *)
(* What the loop appends to allComponents for one config, in order: the    *)
(* first node's explorer comes right after it.                             *)
ConfigCharts(q, k, i) ==
    FlattenSeq([j \in DOMAIN k.nodes |->
        <<SandboxChart(q, k.nodes[j])>>
            \o IF j = 1 /\ k.explorer # <<>>
               THEN <<ExplorerPath(q, k.explorer[1])>> ELSE <<>>])
        \o <<ConfigMapPath(NetworkPath(q, k.nodes[1], i), k.nodes[1].ns,
               "network-anvil-" \o k.nodes[1].chain,
               {"01-network-" \o k.nodes[1].release \o ".toml"}, FALSE)>>

ConfigSteps(q, k, i) ==
    LET explorer(j) ==
            IF j = 1 /\ k.explorer # <<>>
            THEN blockchainExplorer(q, k.explorer[1])
                 \o AddDependency(ExplorerPath(q, k.explorer[1]),
                                  SandboxChart(q, k.nodes[1]))
            ELSE <<>>
    IN  FlattenSeq([j \in DOMAIN k.nodes |-> blockchainNode(q, k.nodes[j]) \o explorer(j)])
        \o networkInfo(q, k.nodes[1], i)

(* Sequential processing makes every component depend on the one before.   *)
blockchains(p, c) ==
    LET q == Append(p, ResourceID("sdk.Blockchains", Exported(c)))
        all == FlattenSeq([i \in DOMAIN c.configs |-> ConfigCharts(q, c.configs[i], i)])
    IN  NewChart(q)
        \o FlattenSeq([i \in DOMAIN c.configs |-> ConfigSteps(q, c.configs[i], i)])
        \o IF c.sequential
           THEN FlattenSeq([i \in 1..(Len(all) - 1) |-> AddDependency(all[i + 1], all[i])])
           ELSE <<>>

(* The sandbox's jd.go.  c: jd and db (ns, release), host, the db's name.  *)
(* JD is deployed in the db's namespace and waited for in its own.         *)
sandboxJD(p, c) ==
    LET q == Append(p, ResourceID("sdk.composite.chainlink.jd.v1", Exported(c)))
        users == {<<"chainlink", "chainlink">>}
        pg == PostgresPath(q, c.db.ns, c.db.release, c.host, users)
        jd == ComponentPath(q, "jd", c.db.ns, c.jd.release, "jd", {42242, 8080, 8081})
    IN  NewChart(q)
        \o Postgres(q, c.db.ns, c.db.release, c.host, users)
        \o Wait(q, c.db.ns, PodNumber0(c.db.release), pg)
        \o ComponentChart(q, "jd", c.db.ns, c.jd.release, "jd", {42242, 8080, 8081},
               {<<"database", c.db.ns, "jd-db", users>>})
        \o Wait(q, c.jd.ns, DevspaceLabels(c.jd.release), jd)
        \o AddDependency(jd, CommandPath(q, c.db.ns, WaitCommand(PodNumber0(c.db.release))))

----------------------------------------------------------------------------
Steps(p, c) ==
    CASE c.type = "node"         -> chainlinkNode(p, c)
      [] c.type = "nodeset"      -> nodeSet(p, c)
      [] c.type = "jd"           -> jdComposite(p, c)
      [] c.type = "anvil"        -> blockchain(p, c)
      [] c.type = "fake"         -> fake(p, c)
      [] c.type = "telepresence" -> telepresenceComposite(p, c)
      [] c.type = "nginx"        -> nginxController(p)
      [] c.type = "aws"          -> awsComposite(p, c)
      [] c.type = "kind"         -> kindComposite(p, c)
      [] c.type = "kindCluster"  -> kindCluster(p, c.name, {})
      [] c.type = "chains"       -> blockchains(p, c)
      [] c.type = "sandboxJD"    -> sandboxJD(p, c)
      [] c.type = "postgres"     -> Postgres(p, c.ns, c.release, c.release, c.users)
      [] c.type = "configmap"    -> ConfigMap(p, c.ns, c.name, c.files, c.loader, {})

(* What can make props invalid that were valid before, or that the types   *)
(* allow: nodes of a set that have a namespace already, or none; a         *)
(* ConfigMap with data and a loader; a chain without nodes or ids.         *)
Valid(c) ==
    CASE c.type = "nodeset"   -> ~c.named /\ c.nodes # <<>>
      [] c.type = "configmap" -> ~c.loader \/ ~c.loaded
      [] c.type = "chains"    ->
            \A i \in DOMAIN c.configs :
                /\ c.configs[i].nodes # <<>>
                /\ \A n \in ToSet(c.configs[i].nodes) :
                       n.type \in {"anvil", "aptos"} /\ n.chain # ""
      [] OTHER -> TRUE

(* Mutant of Changed: the node keeps the URL of the database it brings.    *)
ChangedWithURL(c) ==
    IF c.type = "node" THEN [c EXCEPT !.ports = NodePorts(c), !.url = NodeURL(c)] ELSE c

(* What a call leaves in the props: NodeSet.Validate names the nodes'      *)
(* namespace, loadData fills Data and keeps the loader, and chainlinkNode  *)
(* sets the default ports, after it has computed its id.                   *)
Changed(c) ==
    CASE c.type = "nodeset"   -> [c EXCEPT !.named = TRUE]
      [] c.type = "configmap" -> [c EXCEPT !.loaded = TRUE]
      [] c.type = "node"      -> [c EXCEPT !.ports = NodePorts(c)]
      [] OTHER -> c

Init ==
    /\ props \in Plans
    /\ app = "create"
    /\ at = 1
    /\ todo = <<>>
    /\ calling = FALSE
    /\ made = {}
    /\ deps = {}
    /\ results = <<>>
    /\ created = {}

InApp == app \in {"create", "preview"}

Return(result) ==
    /\ results' = Append(results, result)
    /\ at' = at + 1
    /\ calling' = FALSE
    /\ todo' = <<>>

(* The loop calls the next component function ...                          *)
Call ==
    /\ InApp /\ ~calling /\ at <= Len(props)
    /\ Valid(props[at])
    /\ calling' = TRUE
    /\ todo' = Steps(Root, props[at])
    /\ props' = [props EXCEPT ![at] = Changed(@)]
    /\ UNCHANGED <<app, at, made, deps, results, created>>

(* ... which returns at once if its props do not validate.                 *)
CallInvalid ==
    /\ InApp /\ ~calling /\ at <= Len(props)
    /\ ~Valid(props[at])
    /\ Return("error")
    /\ UNCHANGED <<props, app, made, deps, created>>

Taken(path) == \E o \in made : o.path = path

Construct(step) ==
    [path |-> step.path, chart |-> step.chart, what |-> step.what,
     gives |-> step.gives, refs |-> step.refs, awaits |-> step.awaits, of |-> at]

(* A panic ends the program: no step is taken after it.                    *)
NextIs(op) == InApp /\ calling /\ todo # <<>> /\ Head(todo).op = op

MakeConstruct ==
    /\ NextIs("make")
    /\ ~Taken(Head(todo).path)
    /\ Head(todo).what[1] # "Blockscout"
    /\ made' = made \cup {Construct(Head(todo))}
    /\ todo' = Tail(todo)
    /\ UNCHANGED <<props, app, at, calling, deps, results, created>>

(* A scope holds one construct of an id: jsii panics on a second one, and  *)
(* nothing on the way up recovers it (helmchart.New alone recovers, around *)
(* paths of its own).                                                      *)
IdTaken ==
    /\ NextIs("make")
    /\ Taken(Head(todo).path)
    /\ app' = "panic"
    /\ UNCHANGED <<props, at, todo, calling, made, deps, results, created>>

(* A remote manifest cannot be fetched: that panic is not recovered.       *)
DownloadPanics ==
    /\ NextIs("make")
    /\ Head(todo).what[1] = "Remote"
    /\ app' = "offline"
    /\ UNCHANGED <<props, at, todo, calling, made, deps, results, created>>

(* helm fails to template a chart: helmchart.New recovers the panic of     *)
(* cdk8s and returns it as an error.                                       *)
FetchFails ==
    /\ NextIs("make")
    /\ Head(todo).what[1] = "HelmRelease"
    /\ Return("helm")
    /\ UNCHANGED <<props, app, made, deps, created>>

NotImplemented ==
    /\ NextIs("make")
    /\ Head(todo).what[1] = "Blockscout"
    /\ Return("unimplemented")
    /\ UNCHANGED <<props, app, made, deps, created>>

Depend ==
    /\ NextIs("depend")
    /\ deps' = deps \cup {<<Head(todo).from, Head(todo).on>>}
    /\ todo' = Tail(todo)
    /\ UNCHANGED <<props, app, at, calling, made, results, created>>

CallReturns ==
    /\ InApp /\ calling /\ todo = <<>>
    /\ Return("ok")
    /\ UNCHANGED <<props, app, made, deps, created>>

(* CreatePlan ends: with an error if any call failed.                      *)
EndCreate ==
    /\ app = "create" /\ ~calling /\ at > Len(props)
    /\ app' = IF ToSet(results) \subseteq {"ok"} THEN "created" ELSE "failed"
    /\ created' = made
    /\ UNCHANGED <<props, at, todo, calling, made, deps, results>>

(* Preview makes a new App and starts over.                                *)
BeginPreview ==
    /\ app = "created"
    /\ app' = "preview"
    /\ at' = 1
    /\ made' = {}
    /\ deps' = {}
    /\ results' = <<>>
    /\ UNCHANGED <<props, todo, calling, created>>

(* Errors become nodes of the tree: a preview always ends.                 *)
EndPreview ==
    /\ app = "preview" /\ ~calling /\ at > Len(props)
    /\ app' = "previewed"
    /\ UNCHANGED <<props, at, todo, calling, made, deps, results, created>>

Next ==
    \/ Call \/ CallInvalid \/ MakeConstruct \/ IdTaken \/ DownloadPanics
    \/ FetchFails \/ NotImplemented \/ Depend \/ CallReturns \/ EndCreate \/ BeginPreview \/ EndPreview

Spec == Init /\ [][Next]_vars

----------------------------------------------------------------------------
Meets(have, need) ==
    /\ have[1] = need[1] /\ have[2] = need[2] /\ have[3] = need[3]
    /\ need[4] \subseteq have[4]

Meeting(o, need) == \E have \in o.gives : Meets(have, need)

(* networkinfo writes an EVM network on port 8545 for every node, and an   *)
(* aptos node has none.                                                    *)
OfAptos(o) ==
    /\ props[o.of].type = "chains"
    /\ \E i \in DOMAIN props[o.of].configs :
          props[o.of].configs[i].nodes[1].type = "aptos"

(* What the props bring along and something else has to provide: the       *)
(* database of a node's URL, the endpoint an explorer shows.               *)
Brought(c) ==
    CASE c.type = "node" /\ c.url # <<>> ->
            {<<"database", c.ns, c.url[1], {<<c.url[2], c.url[3]>>}>>}
      [] c.type = "chains" ->
            {k.explorer[1].target : k \in {k \in ToSet(c.configs) : k.explorer # <<>>}}
      [] OTHER -> {}

Gives(c) == UNION {x.gives : x \in {y \in ToSet(Steps(Root, c)) : y.op = "make"}}

(* Every plan provides what its props bring along.                         *)
NamesGiven ==
    \A plan \in Plans : \A i \in DOMAIN plan : \A need \in Brought(plan[i]) :
        \E j \in DOMAIN plan : \E have \in Gives(plan[j]) : Meets(have, need)

(* Props that say one thing twice and say the same: an EVM chain listens   *)
(* where networkinfo says, and the sandbox's job distributor has its       *)
(* database next to it, under the name its DSN has.  Validate does not ask *)
(* for it (networkinfo.go:60, sandbox jd.go:116).                          *)
Coherent(c) ==
    CASE c.type = "chains" ->
            \A k \in ToSet(c.configs) :
                k.nodes # <<>> /\ k.nodes[1].type = "anvil" =>
                    k.nodes[1].service = k.nodes[1].release /\ 8545 \in k.nodes[1].ports
      [] c.type = "sandboxJD" ->
            c.host = "jd-db" /\ c.db.release = c.host /\ c.jd.ns = c.db.ns
      [] OTHER -> TRUE

(* Everything one object of a created plan names exists in it, under the   *)
(* same name, in the same namespace and with everything asked of it: the   *)
(* pods behind a service listen on its ports and carry its labels, the     *)
(* files on a command line are mounted, the database of a URL has the user *)
(* (chainlinknode.go, nodeset.go, jd.go, workload.go, telepresence.go,     *)
(* chains.go: names put together in different functions).  Left out are    *)
(* the components whose own props contradict each other, and those with an *)
(* Aptos node.                                                             *)
ReferencesResolve ==
    app = "created" =>
        \A o \in made : Coherent(props[o.of]) /\ ~OfAptos(o) =>
            \A need \in o.refs : \E p \in made : Meeting(p, need)

(* Charts in the order cdk8s applies them (external): a chart comes after  *)
(* those it depends on and after the charts inside it.                     *)
Charts == {o.chart : o \in made}

OrderedCharts ==
    LET edges == {e \in deps : e[1] \in Charts /\ e[2] \in Charts}
                     \cup {e \in Charts \X Charts : IsStrictPrefix(e[1], e[2])}
        through(chart, order) ==
            order \cup ({e[1] : e \in {f \in order : f[2] = chart}}
                            \X {e[2] : e \in {f \in order : f[1] = chart}})
    IN  FoldSet(through, edges, Charts)

MetInOrder(o, need, after) ==
    \E p \in made : Meeting(p, need) /\ <<o.chart, p.chart>> \in after

(* Where the code waits for a thing in a place of its own.  The command of *)
(* WaitForRollout names no namespace: the current context's is taken.  The *)
(* sandbox's jd.go deploys JD next to its database and waits for it where  *)
(* its props put it, and for the database under its release's name.        *)
Elsewhere(o, need) ==
    \/ /\ o.what[1] = "ClientSideApply" /\ o.what[3][1] = "rollout"
       /\ need[2] # o.what[2]
    \/ props[o.of].type = "sandboxJD" /\ ~Coherent(props[o.of])

(* A command that waits for something, or builds on an earlier command,    *)
(* runs after the chart that provides it, whatever else the plan holds,    *)
(* and the order exists: no chart comes after itself.  "Set up             *)
(* dependencies: telepresence -> wait -> connect", "aws login -> cluster   *)
(* context -> namespace", "wait for all nodes to be created before         *)
(* checking if they're ready".                                             *)
CommandsComeAfter ==
    app = "created" =>
        LET after == OrderedCharts IN
        /\ \A q \in Charts : <<q, q>> \notin after
        /\ \A o \in made : \A need \in o.awaits :
               ~Elsewhere(o, need) => MetInOrder(o, need, after)

Alike(c, d) == Exported(c) = Exported(d)

(* What aws, kind and kindCluster run has no chart of a component around   *)
(* it: <<namespace, command>>.                                             *)
Commands(c) ==
    CASE c.type = "aws" -> {<<"", <<"aws", c.profile>>>>, <<"", <<"kubectx", c.cluster>>>>,
                            <<"", <<"kubens", c.ns>>>>}
      [] c.type = "kind" -> {<<"default", RegistryCommand(c.name \o "-registry", "5001")>>,
                             <<"default", KindCommand(c.name)>>,
                             <<"default", <<"context", c.name>>>>}
      [] c.type = "kindCluster" -> {<<"default", KindCommand(c.name)>>}
      [] OTHER -> {}

Twins(c, d) == Alike(c, d) \/ Commands(c) \cap Commands(d) # {}

(* Parts of a component with the same props: its nodes and explorers, the  *)
(* services of its ports.                                                  *)
HasTwins(c) ==
    \/ /\ c.type = "chains"
       /\ \E i, k \in DOMAIN c.configs :
             \/ /\ i # k /\ c.configs[i].explorer # <<>> /\ c.configs[k].explorer # <<>>
                /\ c.configs[i].explorer[1] = c.configs[k].explorer[1]
             \/ \E j \in DOMAIN c.configs[i].nodes, l \in DOMAIN c.configs[k].nodes :
                   <<i, j>> # <<k, l>> /\ c.configs[i].nodes[j] = c.configs[k].nodes[l]
    \/ /\ c.type = "fake"
       /\ \E i, k \in DOMAIN c.ports : i # k /\ c.ports[i] = c.ports[k]

(* Constructs never clash, though their ids are only a prefix and a hash   *)
(* of the props, and props change between calls: a panic in a component    *)
(* function means that an earlier component of the plan has the same       *)
(* exported props, as two anvils that differ in an option only, or runs    *)
(* one of its commands, as two aws components with one profile, or that    *)
(* two parts of the component itself are the same.                         *)
PanicsOnlyOnTwins ==
    app = "panic" =>
        HasTwins(props[at]) \/ \E i \in 1..(at - 1) : Twins(props[i], props[at])

Resources(constructs, i) ==
    {[what |-> o.what, gives |-> o.gives, refs |-> o.refs, awaits |-> o.awaits] :
        o \in {x \in constructs : x.of = i}}

ShowsAlike(i) ==
    results[i] # "helm" => /\ results[i] = "ok"
                           /\ Resources(made, i) = Resources(created, i)

(* Components whose function rejects its own props the second time.        *)
OneShot(c) == c.type = "nodeset" \/ (c.type = "configmap" /\ c.loader)

(* A preview shows every component as it will be applied, unless helm      *)
(* fails: the calls change the props, and must not change what the next    *)
(* call makes of them.                                                     *)
RepeatsAlike ==
    app = "previewed" =>
        \A i \in DOMAIN props : ~OneShot(props[i]) => ShowsAlike(i)

(* "Preview displays the Directed Acyclic Graph (DAG) structure of a       *)
(* CRIB-SDK Plan" (cmd/cribctl/cmd/plan_preview.go:15): every component of *)
(* the plan is shown.                                                      *)
PreviewShowsPlan == app = "previewed" => \A i \in DOMAIN props : ShowsAlike(i)
=============================================================================
