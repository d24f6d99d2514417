---------------------------- MODULE MCComponents ----------------------------
(* The plans registered in contrib, and others that use the options they   *)
(* leave out.                                                              *)
EXTENDS Components

NS == "crib-local"

node(name, url, ports, configs, secrets, args) ==
    [type |-> "node", ns |-> NS, app |-> name, url |-> url, ports |-> ports,
     configs |-> configs, secrets |-> secrets, args |-> args]

nodeset(nodes) ==
    [type |-> "nodeset", ns |-> NS, release |-> "shared-postgres",
     nodes |-> nodes, named |-> FALSE]

jd(ns, rollout) == [type |-> "jd", ns |-> ns, app |-> "jd", rollout |-> rollout]

anvil(chain, ingress, persistence) ==
    [type |-> "anvil", ns |-> NS, chain |-> chain, ingress |-> ingress,
     persistence |-> persistence]

sandbox(kind, release, chain, service, ports) ==
    [type |-> kind, ns |-> NS, release |-> release, chain |-> chain,
     service |-> service, ports |-> ports]

evm(chain) == sandbox("anvil", "anvil-" \o chain, chain, "anvil-" \o chain, {8545})
aptos == sandbox("aptos", "aptos", "1", "aptos-node", {6181, 8080, 8081, 9101, 50051})

explorer(type, chain) ==
    [type |-> type, ns |-> NS, release |-> "ots-" \o chain,
     target |-> Endpoint(NS, "anvil-" \o chain, {8545})]

chains(configs, sequential) ==
    [type |-> "chains", configs |-> configs, sequential |-> sequential]

config(nodes, explorers) == [nodes |-> nodes, explorer |-> explorers]

distributor(jdNS, dbNS) ==
    [type |-> "sandboxJD", jd |-> [ns |-> jdNS, release |-> "jd"],
     db |-> [ns |-> dbNS, release |-> "jd-db"], host |-> "jd-db"]

aws(cluster) == [type |-> "aws", profile |-> "sand", cluster |-> cluster, ns |-> "default"]
kind(type, name) == [type |-> type, name |-> name]

(* contrib: example, kind, aws, anvil, jd, node, nodeset, and the sandbox. *)
Registered ==
    { << kind("kindCluster", "example"), [type |-> "nginx"] >>,
      << kind("kind", "crib"),
         [type |-> "telepresence", ns |-> "ambassador", quit |-> FALSE] >>,
      << aws("main") >>,
      << anvil("1337", FALSE, FALSE), anvil("2337", FALSE, FALSE) >>,
      << jd(NS, TRUE) >>,
      << [type |-> "postgres", ns |-> NS, release |-> "node-db-0",
          users |-> {<<"chainlink1", "chainlink">>}],
         node("node-0", <<"node-db-0", "chainlink1", "chainlink">>, {}, {}, {}, FALSE) >>,
      << nodeset(<<"chainlink-0", "chainlink-1">>) >>,
      << chains(<< config(<<evm("1337")>>, <<explorer("otterscan", "1337")>>) >>, FALSE) >>,
      << chains(<< config(<<aptos>>, <<>>) >>, TRUE) >>,
      << distributor(NS, NS) >> }

(* Job distributors of the sandbox away from their database.               *)
Parted == { << distributor("jd", NS) >>,
            << anvil("1", FALSE, FALSE), distributor(NS, "db") >> }

Others ==
    { << node("a", <<>>, {8080}, {"x.toml"}, {"y.toml"}, FALSE),
         node("b", <<>>, {}, {}, {}, TRUE) >>,
      << jd("default", TRUE),
         [type |-> "telepresence", ns |-> NS, quit |-> TRUE] >>,
      << anvil("1337", TRUE, TRUE),
         [type |-> "fake", ns |-> NS, app |-> "fake",
          ports |-> << <<"http", 80>>, <<"admin", 81>> >>] >>,
      << chains(<< config(<<evm("1"), evm("2")>>, <<explorer("otterscan", "1")>>),
                   config(<<evm("3")>>, <<>>) >>, TRUE) >>,
      << anvil("1", FALSE, FALSE), anvil("1", TRUE, TRUE) >>,
      << chains(<< config(<<>>, <<>>) >>, FALSE), anvil("1", TRUE, FALSE) >>,
      << [type |-> "configmap", ns |-> NS, name |-> "m", files |-> {"f"},
          loader |-> TRUE, loaded |-> FALSE],
         [type |-> "configmap", ns |-> NS, name |-> "n", files |-> {"f"},
          loader |-> FALSE, loaded |-> FALSE] >>,
      << aws("main"), aws("other") >>,
      << kind("kind", "crib"), kind("kindCluster", "crib") >>,
      << chains(<< config(<<evm("1")>>, <<>>), config(<<evm("1")>>, <<>>) >>, FALSE) >>,
      << chains(<< config(<<evm("1"), evm("2")>>, <<explorer("blockscout", "1")>>) >>, TRUE) >> }

MCPlans == Registered \cup Parted \cup Others

ASSUME NamesGiven
=============================================================================
