---------------------------- MODULE CribctlPlan ----------------------------
(***************************************************************************)
(* "cribctl plan preview" and "cribctl plan apply", one command after      *)
(* another, each with the plan and the directory it names.  A command      *)
(* works in one directory: a temporary one, or with --render-dir any       *)
(* directory there is, that of an earlier command or one with files of     *)
(* another origin.  Apply synthesizes the plan twice into it:     *)
(* PreviewPlan once, to show it, and ApplyPlan again, from a new plan;     *)
(* then it applies the manifests it finds there.  Synth (external) writes  *)
(* the files of a plan and removes none.                                   *)
(*                                                                         *)
(* A file is known by its path <<directory, name>>, numbers in the order   *)
(* of their names.  The paths of a plan follow from the ids of its         *)
(* components, which are hashes of their props: a plan renders the same    *)
(* paths every time, or has one command whose id is new in every process   *)
(* (the scripts of kind and registry lie in a temporary directory), or in  *)
(* every call of the plan function (examplev1 has a UUID in its props).    *)
(***************************************************************************)
EXTENDS Manifests

CONSTANTS
    Plans,        \* [files, ids]: path -> file; "fixed", "process" or "fresh"
    Directories,  \* what --render-dir may name beside earlier commands' output
    MaxCommands   \* bound on the number of commands

(* A directory: finitely many files, each of which knows its path.         *)
Files == [yaml: BOOLEAN, reads: BOOLEAN, csa: BOOLEAN,
          onFailure: {"abort", "continue", "unset"}, path: Nat \X Nat]

IsDirectory(files) ==
    /\ DOMAIN files \subseteq Nat \X Nat
    /\ IsFiniteSet(DOMAIN files)
    /\ files \in [DOMAIN files -> Files]
    /\ \A p \in DOMAIN files : files[p].path = p

ASSUME PlansAssumption ==
    \A p \in Plans : p.ids \in {"fixed", "process", "fresh"} /\ IsDirectory(p.files)

ASSUME DirectoriesAssumption == \A files \in Directories : IsDirectory(files)

VARIABLES
    plan,         \* the plan the command names
    command,      \* [name, render] of the command that runs
    commands,     \* commands started: the number of the process
    synths,       \* times a plan has been synthesized
    disk,         \* the command's directory: path -> file
    kept,         \* what it held when the command began
    rendered,     \* the directory a command with --render-dir wrote last
    stage,        \* where the command is
    shown,        \* files of the synthesis that was previewed
    latest,       \* files of the last synthesis
    bundles,      \* what Apply found
    applied       \* outcome of every bundle handed to Apply

vars == <<plan, command, commands, synths, disk, kept, rendered, stage, shown,
          latest, bundles, applied>>

NoFiles == [p \in {} |-> {}]
NoCommand == [name |-> "none", render |-> FALSE]

(* A directory after the files new are written into it.                    *)
Over(new, files) ==
    [p \in DOMAIN new \cup DOMAIN files |->
        IF p \in DOMAIN new THEN new[p] ELSE files[p]]

(* The command with the changing id, in a directory of its own.            *)
Script(n) ==
    [path \in {<<100 + n, 1>>} |->
        [yaml |-> TRUE, reads |-> TRUE, csa |-> TRUE, onFailure |-> "abort",
         path |-> path]]

Synthesis(n) ==
    Over(plan.files, CASE plan.ids = "fixed"   -> NoFiles
                       [] plan.ids = "process" -> Script(commands)
                       [] plan.ids = "fresh"   -> Script(n))

(* The directory as the scan sees it.                                      *)
Tree(files) ==
    [d \in {p[1] : p \in DOMAIN files} |->
        LET names == Sorted({p[2] : p \in {q \in DOMAIN files : q[1] = d}},
                            LAMBDA a, b : a < b)
        IN  [i \in DOMAIN names |-> files[<<d, names[i]>>]]]

Init ==
    /\ plan \in Plans
    /\ command = NoCommand
    /\ commands = 0
    /\ synths = 0
    /\ disk = NoFiles
    /\ kept = NoFiles
    /\ rendered = NoFiles
    /\ stage = "idle"
    /\ shown = NoFiles
    /\ latest = NoFiles
    /\ bundles = <<>>
    /\ applied = <<>>

(* PersistentPreRunE: open the directory of --render-dir, as it is, or     *)
(* make a temporary one.  ValidatePlanArgs has found the plan.             *)
Start(name, render) ==
    /\ stage \in {"idle", "done", "failed", "cancelled"}
    /\ commands < MaxCommands
    /\ plan' \in Plans
    /\ command' = [name |-> name, render |-> render]
    /\ commands' = commands + 1
    /\ disk' \in IF render THEN Directories \cup {rendered} ELSE {NoFiles}
    /\ kept' = disk'
    /\ stage' = "preview"
    /\ shown' = NoFiles
    /\ latest' = NoFiles
    /\ bundles' = <<>>
    /\ applied' = <<>>
    /\ UNCHANGED <<synths, rendered>>

(* An error is printed, and the command ends.                              *)
Fails(at) ==
    /\ stage = at
    /\ stage' = "failed"
    /\ UNCHANGED <<plan, command, commands, synths, disk, kept, rendered, shown,
                   latest, bundles, applied>>

(* CreatePlan fails when a component does, and then writes no file.        *)
PreviewFails == Fails("preview")
CreateFails == Fails("create")

Synth ==
    /\ synths' = synths + 1
    /\ latest' = Synthesis(synths + 1)
    /\ disk' = Over(latest', disk)
    /\ rendered' = IF command.render THEN disk' ELSE rendered

PreviewPlan ==
    /\ stage = "preview"
    /\ Synth
    /\ shown' = latest'
    /\ stage' = IF command.name = "apply" THEN "confirm" ELSE "done"
    /\ UNCHANGED <<plan, command, commands, kept, bundles, applied>>

(* --yes, or the answer to the prompt, which may also fail.                *)
Confirm(answer) ==
    /\ stage = "confirm"
    /\ stage' = CASE answer \in {"flag", "yes"} -> "create"
                  [] answer = "no" -> "cancelled"
                  [] answer = "error" -> "failed"
    /\ UNCHANGED <<plan, command, commands, synths, disk, kept, rendered, shown,
                   latest, bundles, applied>>

(* ApplyPlan makes a new plan and synthesizes it into the same directory.  *)
CreatePlan ==
    /\ stage = "create"
    /\ Synth
    /\ stage' = "find"
    /\ UNCHANGED <<plan, command, commands, kept, shown, bundles, applied>>

FindManifests ==
    /\ stage = "find"
    /\ \E manifests \in {findManifests(Tree(disk))} :
          bundles' = normalizeManifests(manifests)
    /\ stage' = "apply"
    /\ UNCHANGED <<plan, command, commands, synths, disk, kept, rendered, shown,
                   latest, applied>>

(* Mutant of Aborts: a failure never ends the loop.                        *)
AbortsNever(bundle, outcome) == FALSE

(* A bundle without a client, a command that is not installed, or a        *)
(* failure of one that aborts, ends the loop.                              *)
Aborts(bundle, outcome) ==
    \/ ~ClientOK(bundle)
    \/ outcome = "missing"
    \/ outcome = "error" /\ OnFailure(bundle) = "abort"

ApplyBundle(outcome) ==
    /\ stage = "apply"
    /\ Len(applied) < Len(bundles)
    /\ applied' = Append(applied, outcome)
    /\ stage' = IF Aborts(bundles[Len(applied) + 1], outcome) THEN "failed" ELSE stage
    /\ UNCHANGED <<plan, command, commands, synths, disk, kept, rendered, shown,
                   latest, bundles>>

(* Mutant of Applied: the end is seen only after a bundle.                 *)
AppliedSome ==
    /\ stage = "apply"
    /\ Len(applied) = Len(bundles)
    /\ bundles # <<>>
    /\ stage' = "done"
    /\ UNCHANGED <<plan, command, commands, synths, disk, kept, rendered, shown,
                   latest, bundles, applied>>

Applied ==
    /\ stage = "apply"
    /\ Len(applied) = Len(bundles)
    /\ stage' = "done"
    /\ UNCHANGED <<plan, command, commands, synths, disk, kept, rendered, shown,
                   latest, bundles, applied>>

Command ==
    \/ PreviewPlan \/ PreviewFails
    \/ \E answer \in {"flag", "yes", "no", "error"} : Confirm(answer)
    \/ CreatePlan \/ CreateFails \/ FindManifests \/ Applied
    \/ \E outcome \in {"ok", "error", "missing"} : ApplyBundle(outcome)

Next ==
    \/ \E name \in {"preview", "apply"}, render \in BOOLEAN : Start(name, render)
    \/ Command

(* The steps of a command follow one another; the prompt is answered.      *)
Spec == Init /\ [][Next]_vars /\ WF_vars(Command)

----------------------------------------------------------------------------
(* The YAML files of a directory in the order of their paths: what has to  *)
(* be applied, defined without bundles.                                    *)
InOrder(files) ==
    Sorted({p \in DOMAIN files : files[p].yaml},
           LAMBDA p, q : p[1] < q[1] \/ (p[1] = q[1] /\ p[2] < q[2]))

PathsOf(bs) ==
    LET ms == ManifestsIn(bs) IN [k \in DOMAIN ms |-> ms[k].file.path]

(* Normalizing loses, repeats and reorders nothing: the bundles, read one  *)
(* after the other, are the YAML files of the directory in their order     *)
(* (findManifests, normalizeManifests).                                    *)
BundlesAreTheFiles == stage = "apply" => PathsOf(bundles) = InOrder(disk)

(* A bundle is one kubectl call or one local command, never a mixture, its *)
(* flag isLocal is that of its manifests, and the guards of                *)
(* clientSideApply and kubectlApply do not refuse it.                      *)
BundlesFitClients ==
    \A i \in DOMAIN bundles :
        /\ ClientOK(bundles[i])
        /\ \A k \in DOMAIN bundles[i].manifests :
              bundles[i].manifests[k].isLocal = bundles[i].isLocal

(* Remote manifests of one directory with no local one between them go to  *)
(* kubectl together: two remote bundles in a row have different            *)
(* directories.                                                            *)
BundlesAreMaximal ==
    \A i \in 2..Len(bundles) :
        ~bundles[i].isLocal /\ ~bundles[i - 1].isLocal =>
            bundles[i].manifests[1].file.path[1]
                # bundles[i - 1].manifests[1].file.path[1]

(* What a command has handed to Apply so far.                              *)
Handed == PathsOf(SubSeq(bundles, 1, Len(applied)))

(* The user consents to what the preview shows, a yes to a list of files.  *)
(* When the ids of the plan do not change, a command applies, in the order *)
(* of the paths and from the first one on, exactly the files that were     *)
(* previewed and those its directory held when it began, whatever fails.   *)
(* A temporary directory holds none, so what is applied is what was shown; *)
(* of the directory of --render-dir the user is shown nothing.             *)
ShownIsApplied == plan.ids = "fixed" => IsPrefix(Handed, InOrder(Over(shown, kept)))

(* "Successfully applied plan" is printed only when every file of the      *)
(* synthesis that ApplyPlan made has been handed to its command, and no    *)
(* failure that should abort the plan was among them.                      *)
SuccessIsWhole ==
    stage = "done" /\ command.name = "apply" =>
        /\ ToSet(InOrder(latest)) \subseteq ToSet(Handed)
        /\ Len(applied) = Len(bundles)
        /\ \A i \in DOMAIN applied :
              applied[i] = "ok" \/ (applied[i] = "error" /\ OnFailure(bundles[i]) # "abort")

(* Every command ends, whatever it finds in its directory.                 *)
CommandsEnd == stage = "preview" ~> stage \in {"done", "failed", "cancelled"}

(* "This will apply plan %q to the target cluster" (plan_apply.go:50): a   *)
(* command applies no file that its own synthesis of the plan did not      *)
(* make.                                                                   *)
AppliesThePlan == ToSet(Handed) \subseteq DOMAIN latest
=============================================================================
