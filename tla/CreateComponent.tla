-------------------------- MODULE CreateComponent --------------------------
(***************************************************************************)
(* `cribctl helm create-component`: CreateHelmComponent.Run                *)
(* (internal/adapter/cribctl) over the helm client and the generator       *)
(* (internal/adapter/helm/generator.go), beside other users of the client. *)
(*                                                                         *)
(* Run vendors the chart, reads its values and writes four files into the  *)
(* directory of the component, which keeps what an earlier run of the      *)
(* command left there.  A file is known by the release version and the     *)
(* version of the values it was made from: <<>> when it does not exist,    *)
(* Torn when writing it failed.                                            *)
(***************************************************************************)
EXTENDS HelmClient

CONSTANTS
    CreatorVersions,  \* versions given on the command line
    Templates,        \* *.gotemplate
    MaxRuns           \* bound: runs of the command over one directory

ASSUME CreateComponentAssumption ==
    /\ CreatorVersions \subseteq 0..MaxVersion
    /\ MaxRuns \in Nat \ {0}
    /\ {"chart.defaults.yaml", "values.yaml"} \cap Templates = {}

Files == Templates \cup {"chart.defaults.yaml", "values.yaml"}
Torn == <<0>>

VARIABLES
    stage,      \* the function Run is in, or how it ended
    runs,       \* runs of the command so far
    wanted,     \* Release.Version
    values,     \* the version of the chart the values were read from
    pending,    \* templates not rendered yet
    failed,     \* a template failed to render
    out         \* the files of the component

creation == <<stage, runs, wanted, values, pending, failed, out>>
allVars == <<vars, creation>>

Ended == {"ok", "error"}

CreateInit ==
    /\ Init
    /\ stage = [c \in Callers |-> "start"]
    /\ runs = [c \in Callers |-> 0]
    /\ wanted = [c \in Callers |-> Latest]
    /\ values = [c \in Callers |-> 0]
    /\ pending = [c \in Callers |-> {}]
    /\ failed = [c \in Callers |-> FALSE]
    /\ out = [c \in Callers |-> [f \in Files |-> <<>>]]

Enter(c, s) == stage' = [stage EXCEPT ![c] = s]

(* The command is run, perhaps again; its process ended with the run       *)
(* before.                                                                 *)
Start(c) ==
    /\ \/ stage[c] = "start" /\ pc[c] = "idle"
       \/ stage[c] \in Ended
    /\ runs[c] < MaxRuns
    /\ \E v \in CreatorVersions : wanted' = [wanted EXCEPT ![c] = v]
    /\ Enter(c, "validate")
    /\ runs' = [runs EXCEPT ![c] = @ + 1]
    /\ values' = [values EXCEPT ![c] = 0]
    /\ UNCHANGED <<vars, pending, failed, out>>

(* The tag "required,version" of Release.Version, which Validate reaches   *)
(* through CreateHelmComponent.Release: neither "" nor "latest" passes.    *)
ValidVersion(v) == v # Latest

Refuse(c) ==
    /\ stage[c] = "validate"
    /\ ~ValidVersion(wanted[c])
    /\ Enter(c, "error")
    /\ UNCHANGED <<vars, runs, wanted, values, pending, failed, out>>

VendorRequest(c) ==
    [method |-> "VendorRepo", oci |-> FALSE, named |-> TRUE,
     version |-> wanted[c]]

VendorChart(c) ==
    /\ stage[c] = "validate"
    /\ ValidVersion(wanted[c])
    /\ Enter(c, "vendor")
    /\ Call(c, VendorRequest(c))
    /\ UNCHANGED <<runs, wanted, values, pending, failed, out>>

(* FirstErrorFns goes on after a nil error only.  checkVersion then has    *)
(* nothing to do: Validate has refused what it would look up.              *)
VendorEnds(c) ==
    /\ stage[c] = "vendor"
    /\ pc[c] = "done"
    /\ Enter(c, IF outcome[c] = "ok" THEN "readValues" ELSE "error")
    /\ UNCHANGED <<vars, runs, wanted, values, pending, failed, out>>

(* values.yaml of the vendored chart; it fails when it is empty, too.      *)
ReadValues(c) ==
    /\ stage[c] = "readValues"
    /\ Enter(c, "mkdir")
    /\ chart[c] # 0
    /\ values' = [values EXCEPT ![c] = chart[c]]
    /\ UNCHANGED <<vars, runs, wanted, pending, failed, out>>

(* A step of Run that may fail before it has written anything.             *)
StepFails(c) ==
    /\ stage[c] \in {"readValues", "mkdir"}
    /\ Enter(c, "error")
    /\ UNCHANGED <<vars, runs, wanted, values, pending, failed, out>>

(* Generate: the output directory and testdata exist; Render starts one    *)
(* goroutine for each template.                                            *)
Mkdir(c) ==
    /\ stage[c] = "mkdir"
    /\ Enter(c, "render")
    /\ pending' = [pending EXCEPT ![c] = Templates]
    /\ failed' = [failed EXCEPT ![c] = FALSE]
    /\ UNCHANGED <<vars, runs, wanted, values, out>>

Content(c) == <<wanted[c], values[c]>>

Put(c, file, content) == out' = [out EXCEPT ![c][file] = content]

(* One template is rendered and its file written.                          *)
Render(c) ==
    /\ stage[c] = "render"
    /\ \E t \in pending[c] :
          /\ pending' = [pending EXCEPT ![c] = @ \ {t}]
          /\ Put(c, t, Content(c))
    /\ UNCHANGED <<vars, stage, runs, wanted, values, failed>>

(* Mutant of RenderFails: the error of a template is lost.                 *)
RenderFailsSilently(c) ==
    /\ stage[c] = "render"
    /\ \E t \in pending[c] :
          /\ pending' = [pending EXCEPT ![c] = @ \ {t}]
          /\ \/ UNCHANGED out
             \/ Put(c, t, Torn)
    /\ UNCHANGED <<vars, stage, runs, wanted, values, failed>>

(* It fails before its file is created, or when it is written; the other   *)
(* goroutines go on.                                                       *)
RenderFails(c) ==
    /\ stage[c] = "render"
    /\ failed' = [failed EXCEPT ![c] = TRUE]
    /\ \E t \in pending[c] :
          /\ pending' = [pending EXCEPT ![c] = @ \ {t}]
          /\ \/ UNCHANGED out
             \/ Put(c, t, Torn)
    /\ UNCHANGED <<vars, stage, runs, wanted, values>>

(* wg.Wait() has the errors of all of them.                                *)
RenderEnds(c) ==
    /\ stage[c] = "render"
    /\ pending[c] = {}
    /\ Enter(c, IF failed[c] THEN "error" ELSE "save")
    /\ UNCHANGED <<vars, runs, wanted, values, pending, failed, out>>

(* TemplateOpts.Save, which validates the release once more.               *)
Save(c) ==
    /\ stage[c] = "save"
    /\ ValidVersion(wanted[c])
    /\ Put(c, "chart.defaults.yaml", Content(c))
    /\ Enter(c, "copyValues")
    /\ UNCHANGED <<vars, runs, wanted, values, pending, failed>>

CopyValues(c) ==
    /\ stage[c] = "copyValues"
    /\ Put(c, "values.yaml", Content(c))
    /\ Enter(c, "ok")
    /\ UNCHANGED <<vars, runs, wanted, values, pending, failed>>

(* Creating, encoding or closing one of the two files fails.               *)
WriteFails(c) ==
    /\ stage[c] \in {"save", "copyValues"}
    /\ Enter(c, "error")
    /\ \/ UNCHANGED out
       \/ Put(c, IF stage[c] = "save" THEN "chart.defaults.yaml"
                                      ELSE "values.yaml", Torn)
    /\ UNCHANGED <<vars, runs, wanted, values, pending, failed>>

RunStep(c) ==
    \/ Refuse(c)
    \/ VendorChart(c)
    \/ VendorEnds(c)
    \/ ReadValues(c)
    \/ StepFails(c)
    \/ Mkdir(c)
    \/ Render(c)
    \/ RenderFails(c)
    \/ RenderEnds(c)
    \/ Save(c)
    \/ CopyValues(c)
    \/ WriteFails(c)

(* Any other program makes one call of the client, which it may cancel;    *)
(* cribctl never cancels its context.                                      *)
Use(c) ==
    /\ stage[c] = "start"
    /\ pc[c] = "idle"
    /\ Call(c, req[c])
    /\ UNCHANGED creation

Abandon(c) == stage[c] = "start" /\ Cancel(c) /\ UNCHANGED creation

CreateNext ==
    \/ \E c \in Callers :
          \/ Start(c) \/ RunStep(c) \/ Use(c) \/ Abandon(c)
          \/ CallStep(c) /\ UNCHANGED creation
    \/ (OtherBegins \/ OtherEnds \/ Tick \/ Publish) /\ UNCHANGED creation

CreateSpec == CreateInit /\ [][CreateNext]_allVars

(* Goroutines run, Go's mutex is not denied for ever to one that waits for *)
(* it, a running command ends or is killed, and time passes.  No timeout   *)
(* covers `helm template` and the other commands: that they end is assumed.*)
FairSpec ==
    /\ CreateSpec
    /\ \A c \in Callers :
          /\ WF_allVars(RunStep(c))
          /\ WF_allVars(CallStep(c) /\ UNCHANGED creation)
          /\ SF_allVars(BeginCommand(c) /\ UNCHANGED creation)
    /\ WF_allVars(OtherEnds /\ UNCHANGED creation)
    /\ WF_allVars(Tick /\ UNCHANGED creation)

----------------------------------------------------------------------------
(* The n-th repeated attempt starts at least n intervals after the first   *)
(* one failed, however long the attempts in between took and however many  *)
(* ticks were dropped (the retry decorator's ticker).                      *)
RetriesAreSpaced ==
    \A c \in Callers : retries[c] * RetryInterval <= since[c]

(* A call returns an error only after all its attempts, or because its     *)
(* context was cancelled (the loop of the retry decorator).                *)
GivesUpLate ==
    \A c \in Callers :
        outcome[c] = "error" => retries[c] = RetryCount \/ cancelled[c]

(* A chart returned by VendorRepo or PullRepo is the version asked for,    *)
(* unless an OCI reference ends in another name than the release.  And     *)
(* VendorRepo of "latest" from an http repository returns no version older *)
(* than the newest at the start of its last attempt, although helm         *)
(* searches its own index, and an earlier attempt may have been killed     *)
(* between any two commands.  (For an OCI release nothing updates it.)     *)
PulledAsAsked ==
    \A c \in Callers :
        outcome[c] = "ok" /\ req[c].method \in {"VendorRepo", "PullRepo"} =>
            /\ chart[c] = IF ~req[c].named THEN 0
                          ELSE IF req[c].version = Latest THEN found[c]
                          ELSE req[c].version
            /\ req[c].method = "VendorRepo" /\ req[c].version = Latest /\ req[c].named
                  => req[c].oci \/ seen[c] <= chart[c]

(* A run that reports success leaves four whole files, all made from the   *)
(* release and the values of that run, whatever an earlier, failed run     *)
(* left (FirstErrorFns in Run and Generate, the joined errors of Render);  *)
(* and until the chart is vendored and its values are read the files stay  *)
(* as they are: a run that cannot reach the repository does no harm to the *)
(* component that is there.                                                *)
FilesFollowRuns ==
    /\ [](\A c \in Callers :
            stage[c] = "ok" => \A f \in Files : out[c][f] = <<wanted[c], wanted[c]>>)
    /\ [][\A c \in Callers : out'[c] # out[c] => values[c] = wanted[c]]_allVars

(* Every call ends, and so does every run of the command: attempts are     *)
(* bounded in number and time, and every command gives the mutex back.     *)
EveryCallEnds ==
    /\ \A c \in Callers : pc[c] \in Active ~> pc[c] = "done"
    /\ \A c \in Callers : stage[c] = "validate" ~> stage[c] \in Ended
=============================================================================
