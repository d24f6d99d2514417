---------------------------- MODULE MCChartValues ----------------------------
(* Three charts with the shape of the sandbox's defaults, and components   *)
(* like those of the registered sandbox plans.                             *)
EXTENDS ChartValues

map(at) == [list |-> FALSE, at |-> at]
list(values) == [list |-> TRUE, at |-> [i \in 0..(Len(values) - 1) |-> values[i + 1]]]
leaf(x) == <<"leaf", x>>

(* containers: [{image, env: [{value}]}], service: {name}, from address k. *)
DefaultsAt(k) ==
    << map("containers" :> Ref(k + 1) @@ "service" :> Ref(k + 5)),
       list(<<Ref(k + 2)>>),
       map("image" :> leaf("image") @@ "env" :> Ref(k + 3)),
       list(<<Ref(k + 4)>>),
       map("value" :> leaf("default")),
       map("name" :> leaf("default")) >>

(* The users' values: {service: {name, tls: {cert}}}.                      *)
UserAt(k, x) == << map("service" :> Ref(k + 1)),
                   map("name" :> leaf(x) @@ "tls" :> Ref(k + 2)), map("cert" :> leaf(x)) >>

MCHeap == DefaultsAt(1) \o DefaultsAt(7) \o DefaultsAt(13)
              \o UserAt(19, "one") \o UserAt(22, "two") \o UserAt(25, "three")

MCDefaults == "anvil" :> 1 @@ "aptos" :> 7 @@ "postgres" :> 13

MCCharts ==
    "anvil" :> [merges |-> TRUE, patches |-> TRUE]
        @@ "aptos" :> [merges |-> FALSE, patches |-> TRUE]
        @@ "postgres" :> [merges |-> FALSE, patches |-> FALSE]

EnvValue(i, j) == << <<"containers", i>>, <<"env", j>>, <<"value", -1>> >>
Image(i) == << <<"containers", i>>, <<"image", -1>> >>
patch(path, x) == [path |-> path, value |-> leaf(x)]

component(chart, values, loader, patches) ==
    [chart |-> chart, values |-> values, loader |-> loader, patches |-> patches]

file == [kind |-> "file", values |-> 25]
yaml == [kind |-> "yaml", values |-> 22]
empty == [kind |-> "empty", values |-> 0]

Name == << <<"service", -1>>, <<"name", -1>> >>
Cert == << <<"service", -1>>, <<"tls", -1>>, <<"cert", -1>> >>

(* The values 19, the YAML loader and the file are each given to           *)
(* components of several charts, one of which patches what the user wrote. *)
MCProps ==
    "anvil1" :> component("anvil", 19, NoLoader, <<patch(EnvValue(0, 0), "1")>>)
    @@ "anvil2" :> component("anvil", 0, file, <<patch(EnvValue(0, 1), "2"), patch(Cert, "2")>>)
    @@ "aptos1" :> component("aptos", 0, file, <<patch(Image(0), "other")>>)
    @@ "aptos2" :> component("aptos", 0, NoLoader,
                             <<patch(Image(1), "new"), patch(EnvValue(1, 0), "2"),
                               patch(<< <<"service", -1>>, <<"ports", 1>> >>, "80"),
                               patch(<< <<"service", -1>>, <<"ports", Unread>> >>, "81"),
                               patch(<< <<"extra", -1>>, <<"list", Unread>>, <<"x", -1>> >>, "82")>>)
    @@ "aptos3" :> component("aptos", 0, yaml, <<patch(Name, "a"), patch(Name, "b")>>)
    @@ "aptos4" :> component("aptos", 0, empty, <<>>)
    @@ "postgres1" :> component("postgres", 0, file, <<patch(EnvValue(0, 0), "ignored")>>)
    @@ "postgres2" :> component("postgres", 19, file, <<>>)
    @@ "postgres3" :> component("postgres", 19, NoLoader, <<>>)
    @@ "postgres4" :> component("postgres", 0, yaml, <<>>)
=============================================================================
