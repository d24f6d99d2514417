---------------------------- MODULE MCCribctlPlan ----------------------------
(* Plans of one or two directories: up to two files of every kind the scan *)
(* tells apart, and some longer ones, with each way of forming ids; and    *)
(* directories with files the plans overwrite, precede and follow.         *)
EXTENDS CribctlPlan

file(yaml, reads, csa, onFailure) ==
    [yaml |-> yaml, reads |-> reads, csa |-> csa, onFailure |-> onFailure]

Remote == file(TRUE, TRUE, FALSE, "unset")
Local == file(TRUE, TRUE, TRUE, "abort")
LocalContinue == file(TRUE, TRUE, TRUE, "continue")
Broken == file(TRUE, FALSE, TRUE, "unset")
Other == file(FALSE, TRUE, FALSE, "unset")

paths(d, fs) ==
    [p \in {d} \X (DOMAIN fs) |-> fs[p[2]] @@ [path |-> p]]

Dirs == BoundedSeq({Remote, Local}, 2)
            \cup { <<Other>>, <<Other, Remote>>, <<Local, Remote, Remote>>,
                   <<Remote, Local, Broken>>, <<Remote, LocalContinue, Local>> }

MCPlans ==
    [files : {paths(1, a) : a \in Dirs}
             \cup {paths(1, a) @@ paths(2, <<Remote>>) : a \in {<<Remote>>, <<Local>>, <<Other>>}},
     ids : {"fixed"}]
    \cup [files : {paths(1, a) : a \in {<<Remote>>, <<Remote, Local>>, <<LocalContinue>>}},
          ids : {"process", "fresh"}]

(* A ClientSideApply of another origin, without onFailure.                 *)
Unset == file(TRUE, TRUE, TRUE, "unset")

MCDirectories == { paths(1, <<Other, Unset, Broken>>), paths(2, <<Other, Remote>>) }

(* For the run about what changes in a directory of one command.           *)
ChangingPlans == {p \in MCPlans : p.ids # "fixed"}
NoDirectories == {}
=============================================================================
