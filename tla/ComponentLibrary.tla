-------------------------- MODULE ComponentLibrary --------------------------
(***************************************************************************)
(* The component functions of crib/scalar and crib/composite, each as the  *)
(* sequence of steps it takes in the cdk8s App: it makes constructs and    *)
(* declares dependencies between charts.  A nested component that fails    *)
(* ends the one that calls it, so nesting is concatenation.                *)
(*                                                                         *)
(* A construct is known by its path, the sequence of ids from the App      *)
(* down.  Of a Kubernetes object only what another object or command       *)
(* depends on is kept, as capabilities <<kind, namespace, name, set>>:     *)
(*   gives    what the object provides once it is applied                  *)
(*   refs     what it names and will use sooner or later                   *)
(*   awaits   what a command needs to be there already when it runs        *)
(* A capability meets a need that differs from it at most in a smaller     *)
(* set: pods carry more labels than a selector asks for, a Secret holds    *)
(* more files than one container reads.                                    *)
(*                                                                         *)
(* What a Helm chart or a remote manifest deploys is external; it is read  *)
(* off the chart's default values and the names the code relies on.        *)
(***************************************************************************)
EXTENDS SequencesExt

CONSTANT CurrentNamespace   \* namespace of the kubectl context the commands use

----------------------------------------------------------------------------
(* Mutant of ResourceID: the hash of the props is left out.                *)
PlainID(prefix, key) == <<prefix, "">>

(* crib.ResourceID: the prefix and a hash of the props.  The key stands    *)
(* for what the props of that prefix encode.  The code keeps eight hex     *)
(* digits of the hash, so different props can get one id by chance; here   *)
(* they never do.                                                          *)
ResourceID(prefix, key) == <<prefix, key>>

(* JSON encodes the exported fields of props only.                         *)
Unexported == {"ingress", "persistence", "sequential"}
Exported(c) == [f \in DOMAIN c \ Unexported |-> c[f]]

Make(path, chart, what, gives, refs, awaits) ==
    << [op |-> "make", path |-> path, chart |-> chart, what |-> what,
        gives |-> gives, refs |-> refs, awaits |-> awaits] >>

(* cdk8s.NewChart: a chart of its own with nothing in it yet.              *)
NewChart(path) == Make(path, path, <<"Chart", "", "">>, {}, {}, {})

(* x.Node().AddDependency(y)                                               *)
AddDependency(from, on) == << [op |-> "depend", from |-> from, on |-> on] >>

(* A scalar: a chart that holds one object.                                *)
ScalarPath(p, prefix, ns, name, key) == Append(p, ResourceID(prefix, <<ns, name, key>>))

Scalar(p, prefix, kind, ns, name, key, gives, refs) ==
    Make(ScalarPath(p, prefix, ns, name, key), ScalarPath(p, prefix, ns, name, key),
         <<kind, ns, name>>, gives, refs, {})

Labels(name, instance) == {<<"name", name>>, <<"instance", instance>>}
Ports(ports) == {<<"port", n>> : n \in ports}
Pod(ns, labels) == <<"pod", ns, "", labels>>
Endpoint(ns, host, ports) == <<"endpoint", ns, host, ports>>

----------------------------------------------------------------------------
(* The scalars of crib/scalar/k8s.                                         *)
NamespacePath(p, ns) == ScalarPath(p, "sdk.Namespace", "", ns, "")

Namespace(p, ns) ==
    Scalar(p, "sdk.Namespace", "Namespace", "", ns, "",
           {<<"namespace", "", ns, {}>>}, {})

Secret(p, ns, name, files) ==
    Scalar(p, "sdk.SecretV1", "Secret", ns, name, files,
           {<<"secret", ns, name, files>>}, {})

(* loader: the data come from a DataLoader.                                *)
ConfigMapPath(p, ns, name, files, loader) ==
    ScalarPath(p, "sdk.ConfigMapV1", ns, name, <<files, loader>>)

ConfigMap(p, ns, name, files, loader, refs) ==
    Scalar(p, "sdk.ConfigMapV1", "ConfigMap", ns, name, <<files, loader>>,
           {<<"configmap", ns, name, files>>}, refs)

(* A Service routes its ports to pods that carry its selector and listen   *)
(* on those ports.  named are the ports as its props have them.            *)
Service(p, ns, name, selector, ports, named) ==
    Scalar(p, "sdk.ServiceV1", "Service", ns, name, named,
           {Endpoint(ns, name, ports)}, {Pod(ns, selector \cup Ports(ports))})

Ingress(p, ns, name, service, ports) ==
    Scalar(p, "sdk.IngressV1", "Ingress", ns, name, ports,
           {}, {Endpoint(ns, service, ports)})

Role(p, ns, name) ==
    Scalar(p, "sdk.scalar.RoleV1", "Role", ns, name, "",
           {<<"role", ns, name, {}>>}, {})

RoleBinding(p, ns, name, role, account) ==
    Scalar(p, "sdk.scalar.RoleBindingV1", "RoleBinding", ns, name, "",
           {}, {<<"role", ns, role, {}>>, <<"account", ns, account, {}>>})

ServiceAccount(p, ns, name) ==
    Scalar(p, "sdk.scalar.ServiceAccountV1", "ServiceAccount", ns, name, "",
           {<<"account", ns, name, {}>>}, {})

----------------------------------------------------------------------------
(* clientsideapply.New: one local command; command holds its arguments.    *)
CommandPath(p, ns, command) ==
    Append(p, ResourceID("sdk.ClientSideApply", <<ns, command>>))

ClientSideApply(p, ns, command, gives, awaits) ==
    LET path == CommandPath(p, ns, command)
    IN  Make(path, path, <<"ClientSideApply", ns, command>>, gives, {}, awaits)

(* The command "kubectl wait -n ns --for=condition=... pod -l=labels", and *)
(* the dependency that puts it after the chart it waits for.               *)
WaitCommand(labels) == <<"wait", labels>>

Wait(p, ns, labels, on) ==
    ClientSideApply(p, ns, WaitCommand(labels),
                    {<<"ready", ns, "", labels>>}, {Pod(ns, labels)})
        \o AddDependency(CommandPath(p, ns, WaitCommand(labels)), on)

(* remoteapply.New fetches a manifest by its URL and makes a chart of it.  *)
RemotePath(p, url) == Append(p, ResourceID("sdk.RemoteApply", url))

RemoteApply(p, url, gives) ==
    Make(RemotePath(p, url), RemotePath(p, url), <<"Remote", "", url>>, gives, {}, {})

(* The scalars kind and docker registry run an embedded script.            *)
KindCommand(name) == <<"kind", name>>
KindPath(p, name) == CommandPath(p, "default", KindCommand(name))

kindCluster(p, name, awaits) ==
    ClientSideApply(p, "default", KindCommand(name),
                    {<<"cluster", "", name, {}>>}, awaits)

RegistryCommand(name, port) == <<"registry", name, port>>

dockerRegistry(p, name, port) ==
    ClientSideApply(p, "default", RegistryCommand(name, port),
                    {<<"registry", "", name, {}>>}, {})

----------------------------------------------------------------------------
(* helmchart.New: a chart for the release, the release itself, which helm  *)
(* has to fetch, and the namespace, which comes first.                     *)
HelmNew(path, chart, ns, release, gives, refs) ==
    NewChart(path)
        \o Make(Append(path, ResourceID(chart, release)), path,
                <<"HelmRelease", ns, release>>, gives, refs, {})
        \o Namespace(path, ns)
        \o AddDependency(path, NamespacePath(path, ns))

resourcePrefix ==
    [anvil |-> "sdk.HelmChart#anvil", aptos |-> "sdk.HelmChart#aptos",
     jd |-> "sdk.HelmChart#jd", otterscan |-> "sdk.HelmChart#otterscan",
     postgres |-> "sdk.HelmChart#postgres", telepresence |-> "sdk.HelmChart#telepresence"]

(* Component of a chart under crib/scalar/charts: a chart of its own       *)
(* around helmchart.New, whose chart it returns.                           *)
ChartOuter(p, chart, ns, release, values) ==
    Append(p, ResourceID(resourcePrefix[chart], <<ns, release, values>>))

ChartPath(p, chart, ns, release, values) ==
    Append(ChartOuter(p, chart, ns, release, values),
           ResourceID("sdk.HelmChart", <<ns, release>>))

ChartScalar(p, chart, ns, release, values, gives, refs) ==
    NewChart(ChartOuter(p, chart, ns, release, values))
        \o HelmNew(ChartPath(p, chart, ns, release, values), chart, ns, release, gives, refs)

(* The postgresql chart: a StatefulSet named host, from the value          *)
(* fullnameOverride, with the given <<user, database>> pairs.              *)
PodNumber0(host) == {<<"pod-name", host \o "-0">>, <<"name", "postgresql">>}

PostgresPath(p, ns, release, host, users) ==
    ChartPath(p, "postgres", ns, release, <<host, users>>)

Postgres(p, ns, release, host, users) ==
    ChartScalar(p, "postgres", ns, release, <<host, users>>,
                {Pod(ns, PodNumber0(host)), <<"database", ns, host, users>>}, {})

(* component-chart: pods labelled with the release, and the service the    *)
(* values name.                                                            *)
DevspaceLabels(release) == {<<"component", release>>, <<"name", "devspace-app">>}

ComponentPath(p, chart, ns, release, service, ports) ==
    ChartPath(p, chart, ns, release, <<service, ports>>)

ComponentChart(p, chart, ns, release, service, ports, refs) ==
    ChartScalar(p, chart, ns, release, <<service, ports>>,
                {Pod(ns, DevspaceLabels(release)), Endpoint(ns, service, ports)}, refs)

----------------------------------------------------------------------------
(* composite/deployment and composite/statefulset: a chart with the        *)
(* workload, whose pods carry its labels and listen on its ports.  w is    *)
(* [kind, ns, app, name, ports].                                           *)
WorkloadPath(p, w) ==
    Append(p, ResourceID(IF w.kind = "deployment" THEN "sdk.DeploymentV1"
                         ELSE "sdk.StatefulSetV1", <<w.ns, w.app, w.name>>))

WorkloadGives(w) ==
    {Pod(w.ns, Labels(w.app, w.name) \cup Ports(w.ports)),
     <<w.kind, w.ns, "", {<<"instance", w.name>>}>>}

Deployment(p, w, refs) ==
    NewChart(WorkloadPath(p, w))
        \o Make(Append(WorkloadPath(p, w), <<"Resource">>), WorkloadPath(p, w),
                <<"Deployment", w.ns, w.name>>, WorkloadGives(w), refs, {})

StatefulSet(p, w) ==
    NewChart(WorkloadPath(p, w))
        \o Make(Append(WorkloadPath(p, w), <<"Resource">>), WorkloadPath(p, w),
                <<"StatefulSet", w.ns, w.name>>, WorkloadGives(w), {}, {})

(* A Service of the workload's name, in the workload's chart, with the     *)
(* workload's own labels as its selector.                                  *)
ExposeViaService(p, w) ==
    Service(WorkloadPath(p, w), w.ns, w.name, Labels(w.app, w.name), w.ports, w.ports)

ExposeViaIngress(p, w) ==
    ExposeViaService(p, w)
        \o Ingress(WorkloadPath(p, w), w.ns, w.name \o "-ingress", w.name, w.ports)

(* "kubectl rollout status" with the instance label and no -n: it looks in *)
(* the namespace of the current context.                                   *)
RolloutCommand(w) == <<"rollout", w.kind, w.name>>

WaitForRollout(p, w) ==
    ClientSideApply(p, w.ns, RolloutCommand(w), {},
                    {<<w.kind, CurrentNamespace, "", {<<"instance", w.name>>}>>})
        \o AddDependency(CommandPath(p, w.ns, RolloutCommand(w)), WorkloadPath(p, w))
=============================================================================
