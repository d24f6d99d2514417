----------------------------- MODULE HelmClient -----------------------------
(***************************************************************************)
(* The helm client, internal/adapter/helm.  NewClient wraps the base       *)
(* client in a timeout for every attempt and that in a retry loop whose    *)
(* pauses come from a time.Ticker.  A method of the base client is a       *)
(* sequence of steps; those that run a helm command wait for the mutex of  *)
(* package clientsideapply, which does not look at the context, and the    *)
(* command is killed when the context of its attempt ends.                 *)
(*                                                                         *)
(* helm itself is external: the repository and what is published in it,    *)
(* and the index `helm repo update` fetches and `helm search` reads.       *)
(* Versions are numbered in the order of their publication.  Time passes   *)
(* in ticks; a killed command has ended before the next tick.              *)
(***************************************************************************)
EXTENDS Naturals, Sequences, SequencesExt

CONSTANTS
    Callers,        \* goroutines that use the client
    NoCaller,       \* value of the free mutex
    Other,          \* any other command of the process that holds it
    Requests,       \* [method, oci, named, version]; see Steps
    MaxVersion,     \* bound: versions of the chart that are published
    RetryCount,     \* 5: attempts after the first one
    RetryInterval,  \* 5 s
    Timeout,        \* 30 s, for every method but the next two
    VendorTimeout   \* 90 s

Latest == 0                     \* "latest" or "": to be resolved
Neighbour == MaxVersion + 1     \* a version of a chart with a longer name

ASSUME HelmClientAssumption ==
    /\ NoCaller \notin Callers
    /\ Other \notin Callers \cup {NoCaller}
    /\ MaxVersion \in Nat \ {0}
    /\ RetryCount \in Nat
    /\ {RetryInterval, Timeout, VendorTimeout} \subseteq Nat \ {0}
    /\ Timeout <= VendorTimeout

VARIABLES
    mu,         \* holder of clientsideapply.mu
    pc,         \* where each caller is
    req,        \* the request of its call
    steps,      \* steps the current attempt has left
    left,       \* ticks until the attempt's context ends
    cancelled,  \* the caller's own context is cancelled
    retries,    \* attempts made after the first
    phase,      \* ticks since the ticker last fired
    due,        \* a tick is buffered in the ticker's channel
    since,      \* history: ticks since the ticker was made
    found,      \* the version a search found in this attempt
    chart,      \* the version in this attempt's directory; 0: none
    seen,       \* history: newest version published when the attempt began
    outcome,    \* what the call returned
    added,      \* external: the repository is known to helm
    index,      \* external: newest version in helm's index of it
    remote      \* external: newest version published

helm == <<added, index, remote>>
timers == <<left, phase, due, since>>
vars == <<mu, pc, req, steps, cancelled, retries, found, chart, seen, outcome,
          timers, helm>>

Points == {"idle", "attempt", "running", "failed", "select", "done"}
Active == Points \ {"idle", "done"}
NoLimit == VendorTimeout + 1    \* a method without a timeout
MaxSince == RetryCount * RetryInterval

----------------------------------------------------------------------------
(* Steps of the base client's methods.  Commands are run by helm; the      *)
(* other steps are local.                                                  *)
Commands == {"add", "update", "search", "pull", "template"}

PullSteps(r) ==
    <<"mkdtemp">> \o (IF r.version = Latest THEN <<"search">> ELSE <<>>)
        \o <<"pull", "open">>

(* VendorRepo calls the base client's own methods: what it calls has no    *)
(* timeout and no retries of its own.                                      *)
VendorSteps(r) ==
    (IF r.oci THEN <<>> ELSE <<"add", "update">>) \o PullSteps(r)

Steps(r) ==
    CASE r.method = "VendorRepo" -> VendorSteps(r)
      [] r.method = "PullRepo" -> PullSteps(r)
      [] r.method = "AddRepo" -> IF r.oci THEN <<"refuse">> ELSE <<"add">>
      [] r.method = "UpdateRepo" -> IF r.oci THEN <<"refuse">> ELSE <<"update">>
      [] r.method = "TemplateRepo" -> <<"readChart", "template">>
      [] r.method = "CurrentVersion" -> <<"search", "some">>
      [] OTHER -> <<"search">>   \* LatestVersion, ListVersions

TimeoutOf(r) ==
    CASE r.method = "TemplateRepo" -> NoLimit
      [] r.method = "VendorRepo" -> VendorTimeout
      [] OTHER -> Timeout

(* `helm search repo` is fuzzy: a chart whose name begins with the one     *)
(* asked for is listed too, here before it.  Versions come newest first.   *)
Listing ==
    IF added
      THEN <<[exact |-> FALSE, version |-> Neighbour]>>
             \o [i \in 1..index |-> [exact |-> TRUE, version |-> index + 1 - i]]
      ELSE <<>>

(* searchRepo keeps exact matches; Latest is the first of them, or the     *)
(* empty version.                                                          *)
SearchRepo ==
    LET exact == {i \in DOMAIN Listing : Listing[i].exact}
    IN  IF exact = {} THEN 0 ELSE Listing[Min(exact)].version

(* The version `helm pull` is asked for.  An empty one is dropped from the *)
(* command line, and helm refuses the flag without its value.              *)
Wanted(c) == IF req[c].version = Latest THEN found[c] ELSE req[c].version

CanPull(c) ==
    IF req[c].oci THEN Wanted(c) \in 1..remote
                  ELSE added /\ Wanted(c) \in 1..index

----------------------------------------------------------------------------
Init ==
    /\ mu = NoCaller
    /\ pc = [c \in Callers |-> "idle"]
    /\ req \in [Callers -> Requests]
    /\ steps = [c \in Callers |-> <<>>]
    /\ cancelled = [c \in Callers |-> FALSE]
    /\ outcome = [c \in Callers |-> "none"]
    /\ retries = [c \in Callers |-> 0]
    /\ left = [c \in Callers |-> 0]
    /\ phase = [c \in Callers |-> 0]
    /\ due = [c \in Callers |-> FALSE]
    /\ since = [c \in Callers |-> 0]
    /\ found = [c \in Callers |-> 0]
    /\ chart = [c \in Callers |-> 0]
    /\ seen = [c \in Callers |-> 0]
    /\ added \in BOOLEAN
    /\ remote = 1
    /\ index = IF added THEN 1 ELSE 0

Goto(c, point) == pc' = [pc EXCEPT ![c] = point]

Return(c, value) ==
    /\ Goto(c, "done")
    /\ outcome' = [outcome EXCEPT ![c] = value]

(* An attempt: the timeout decorator derives a context and calls the base  *)
(* client, which starts from its first step, with a directory of its own.  *)
StartAttempt(c, r) ==
    /\ Goto(c, "attempt")
    /\ steps' = [steps EXCEPT ![c] = Steps(r)]
    /\ left' = [left EXCEPT ![c] = TimeoutOf(r)]
    /\ found' = [found EXCEPT ![c] = 0]
    /\ chart' = [chart EXCEPT ![c] = 0]
    /\ seen' = [seen EXCEPT ![c] = remote]

(* A method of the retry decorator is called.                              *)
Call(c, r) ==
    /\ pc[c] \in {"idle", "done"}
    /\ req' = [req EXCEPT ![c] = r]
    /\ StartAttempt(c, r)
    /\ outcome' = [outcome EXCEPT ![c] = "none"]
    /\ retries' = [retries EXCEPT ![c] = 0]
    /\ phase' = [phase EXCEPT ![c] = 0]
    /\ due' = [due EXCEPT ![c] = FALSE]
    /\ since' = [since EXCEPT ![c] = 0]
    /\ UNCHANGED <<mu, cancelled, helm>>

AtStep(c, kinds) ==
    pc[c] = "attempt" /\ steps[c] # <<>> /\ Head(steps[c]) \in kinds

NextStep(c) == steps' = [steps EXCEPT ![c] = Tail(@)]

(* NewTempHandler, filehandler.New, Chart.Unmarshal succeed.  New creates  *)
(* a directory that is not there, so a chart that unpacked under another   *)
(* name than the release's is returned as an empty directory.              *)
LocalStep(c) ==
    /\ AtStep(c, {"mkdtemp", "open", "readChart"})
    /\ NextStep(c)
    /\ chart' = IF Head(steps[c]) = "open" /\ ~req[c].named
                  THEN [chart EXCEPT ![c] = 0] ELSE chart
    /\ UNCHANGED <<mu, pc, req, cancelled, retries, found, seen, outcome,
                   timers, helm>>

(* CurrentVersion wants one version.                                       *)
HaveVersion(c) ==
    /\ AtStep(c, {"some"})
    /\ found[c] # 0
    /\ NextStep(c)
    /\ UNCHANGED <<mu, pc, req, cancelled, retries, found, chart, seen,
                   outcome, timers, helm>>

(* A local step fails; an OCI repository is refused, and so is an empty    *)
(* list of versions.                                                       *)
LocalStepFails(c) ==
    /\ \/ AtStep(c, {"mkdtemp", "open", "readChart", "refuse"})
       \/ AtStep(c, {"some"}) /\ found[c] = 0
    /\ Goto(c, "failed")
    /\ UNCHANGED <<mu, req, steps, cancelled, retries, found, chart, seen,
                   outcome, timers, helm>>

(* Execute takes the mutex, however long that takes.                       *)
BeginCommand(c) ==
    /\ AtStep(c, Commands)
    /\ mu = NoCaller
    /\ mu' = c
    /\ Goto(c, "running")
    /\ UNCHANGED <<req, steps, cancelled, retries, found, chart, seen, outcome,
                   timers, helm>>

Expired(c) == left[c] = 0 \/ cancelled[c]

(* The command succeeds: its context had not ended when it was started,    *)
(* nor since.  `helm repo add` of a repository already known does nothing. *)
CommandEnds(c) ==
    /\ pc[c] = "running"
    /\ ~Expired(c)
    /\ mu' = NoCaller
    /\ Goto(c, "attempt")
    /\ NextStep(c)
    /\ LET command == Head(steps[c])
       IN  /\ command = "update" => added
           /\ command = "pull" => CanPull(c)
           /\ added' = (added \/ command = "add")
           /\ index' = IF command = "update" \/ (command = "add" /\ ~added)
                         THEN remote ELSE index
           /\ found' = IF command = "search"
                         THEN [found EXCEPT ![c] = SearchRepo] ELSE found
           /\ chart' = IF command = "pull"
                         THEN [chart EXCEPT ![c] = Wanted(c)] ELSE chart
    /\ UNCHANGED <<req, cancelled, retries, seen, outcome, timers, remote>>

(* Mutant of CommandFails: Unlock is not deferred.                         *)
CommandFailsLocked(c) ==
    /\ pc[c] = "running"
    /\ Head(steps[c]) # "template"
    /\ Goto(c, "failed")
    /\ UNCHANGED <<mu, req, steps, cancelled, retries, found, chart, seen,
                   outcome, timers, helm>>

(* The command fails or is killed, perhaps after it changed what helm has. *)
(* TemplateRepo reads the output of a nil result first, and panics.        *)
CommandFails(c) ==
    /\ pc[c] = "running"
    /\ mu' = NoCaller
    /\ IF Head(steps[c]) = "template"
         THEN Return(c, "panic")
         ELSE Goto(c, "failed") /\ UNCHANGED outcome
    /\ \/ UNCHANGED <<added, index>>
       \/ /\ \/ Head(steps[c]) = "update" /\ added
             \/ Head(steps[c]) = "add" /\ ~added
          /\ added' = TRUE
          /\ index' = remote
    /\ UNCHANGED <<req, steps, cancelled, retries, found, chart, seen, timers,
                   remote>>

(* All steps are done: err is nil and the retry decorator returns.         *)
Succeed(c) ==
    /\ pc[c] = "attempt"
    /\ steps[c] = <<>>
    /\ Return(c, "ok")
    /\ UNCHANGED <<mu, req, steps, cancelled, retries, found, chart, seen,
                   timers, helm>>

(* The loop condition; before the first retry the ticker is made.          *)
WaitForTick(c) ==
    /\ pc[c] = "failed"
    /\ retries[c] < RetryCount
    /\ Goto(c, "select")
    /\ UNCHANGED <<mu, req, steps, cancelled, retries, found, chart, seen,
                   outcome, timers, helm>>

(* Mutant of ReturnError: no attempt is ever repeated.                     *)
ReturnAnyError(c) ==
    /\ pc[c] = "failed"
    /\ Return(c, "error")
    /\ UNCHANGED <<mu, req, steps, cancelled, retries, found, chart, seen,
                   timers, helm>>

(* The last attempt failed.                                                *)
ReturnError(c) ==
    /\ pc[c] = "failed"
    /\ retries[c] >= RetryCount
    /\ Return(c, "error")
    /\ UNCHANGED <<mu, req, steps, cancelled, retries, found, chart, seen,
                   timers, helm>>

(* Mutants of TakeTick: the tick is not consumed; the repeated attempt     *)
(* goes on where the failed one stopped.                                   *)
TakeAnyTick(c) ==
    /\ pc[c] = "select"
    /\ due[c]
    /\ retries' = [retries EXCEPT ![c] = @ + 1]
    /\ StartAttempt(c, req[c])
    /\ UNCHANGED <<mu, req, cancelled, outcome, phase, due, since, helm>>

ResumeAttempt(c) ==
    /\ pc[c] = "select"
    /\ due[c]
    /\ due' = [due EXCEPT ![c] = FALSE]
    /\ retries' = [retries EXCEPT ![c] = @ + 1]
    /\ Goto(c, "attempt")
    /\ left' = [left EXCEPT ![c] = TimeoutOf(req[c])]
    /\ seen' = [seen EXCEPT ![c] = remote]
    /\ UNCHANGED <<mu, req, steps, cancelled, outcome, found, chart, phase,
                   since, helm>>

(* select receives from the ticker: another attempt.  When the context is  *)
(* done as well, Go picks either case.                                     *)
TakeTick(c) ==
    /\ pc[c] = "select"
    /\ due[c]
    /\ due' = [due EXCEPT ![c] = FALSE]
    /\ retries' = [retries EXCEPT ![c] = @ + 1]
    /\ StartAttempt(c, req[c])
    /\ UNCHANGED <<mu, req, cancelled, outcome, phase, since, helm>>

(* select sees the caller's context done: the last error is returned.      *)
GiveUp(c) ==
    /\ pc[c] = "select"
    /\ cancelled[c]
    /\ Return(c, "error")
    /\ UNCHANGED <<mu, req, steps, cancelled, retries, found, chart, seen,
                   timers, helm>>

(* The caller's context is cancelled.                                      *)
Cancel(c) ==
    /\ pc[c] \in Active
    /\ ~cancelled[c]
    /\ cancelled' = [cancelled EXCEPT ![c] = TRUE]
    /\ UNCHANGED <<mu, pc, req, steps, retries, found, chart, seen, outcome,
                   timers, helm>>

----------------------------------------------------------------------------
(* The ticker exists from the first failure to the return.                 *)
Ticking(c) == pc[c] = "select" \/ (pc[c] \in Active /\ retries[c] > 0)

Smaller(a, b) == IF a < b THEN a ELSE b

(* Time passes.  A ticker fires every RetryInterval, however long the      *)
(* attempts take; its channel holds one tick and further ones are dropped. *)
Tick ==
    /\ \E c \in Callers : pc[c] \in Active
    /\ \A c \in Callers : ~(pc[c] = "running" /\ Expired(c))
    /\ left' = [c \in Callers |->
           IF left[c] \in 1..VendorTimeout THEN left[c] - 1 ELSE left[c]]
    /\ phase' = [c \in Callers |->
           IF ~Ticking(c) THEN phase[c]
           ELSE IF phase[c] + 1 = RetryInterval THEN 0 ELSE phase[c] + 1]
    /\ due' = [c \in Callers |->
           due[c] \/ (Ticking(c) /\ phase[c] + 1 = RetryInterval)]
    /\ since' = [c \in Callers |->
           IF Ticking(c) THEN Smaller(since[c] + 1, MaxSince) ELSE since[c]]
    /\ UNCHANGED <<mu, pc, req, steps, cancelled, retries, found, chart, seen,
                   outcome, helm>>

(* External: a new version of the chart is published.                      *)
Publish ==
    /\ remote < MaxVersion
    /\ remote' = remote + 1
    /\ UNCHANGED <<mu, pc, req, steps, cancelled, retries, found, chart, seen,
                   outcome, timers, added, index>>

(* Another goroutine runs a command: a kubectl, or a helm that may add the *)
(* repository or bring its index up to date.                               *)
OtherBegins ==
    /\ mu = NoCaller
    /\ mu' = Other
    /\ UNCHANGED <<pc, req, steps, cancelled, retries, found, chart, seen,
                   outcome, timers, helm>>

OtherEnds ==
    /\ mu = Other
    /\ mu' = NoCaller
    /\ \/ UNCHANGED helm
       \/ added' = TRUE /\ index' = remote /\ UNCHANGED remote
    /\ UNCHANGED <<pc, req, steps, cancelled, retries, found, chart, seen,
                   outcome, timers>>

(* What a call does by itself once it is made.                             *)
CallStep(c) ==
    \/ LocalStep(c)
    \/ HaveVersion(c)
    \/ LocalStepFails(c)
    \/ BeginCommand(c)
    \/ CommandEnds(c)
    \/ CommandFails(c)
    \/ Succeed(c)
    \/ WaitForTick(c)
    \/ ReturnError(c)
    \/ TakeTick(c)
    \/ GiveUp(c)
=============================================================================
