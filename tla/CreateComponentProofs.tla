----------------------- MODULE CreateComponentProofs -----------------------
(***************************************************************************)
(* Proofs about the helm client and create-component over it, for every    *)
(* number of callers, every retry count, interval and timeout, and every   *)
(* number of versions, of runs and of templates.                           *)
(*                                                                         *)
(* RetriesAreSpaced is not inductive: that a buffered tick was paid for    *)
(* with an interval, and that the ticker is phase ticks into the next one, *)
(* has to be known.  Paid adds both; it compares with since, which the     *)
(* model caps at MaxSince, so the cap is the other case.                   *)
(*                                                                         *)
(* PulledAsAsked needs PullInv: which steps an attempt may have left, and  *)
(* what those it has taken have done to helm's index and to its directory, *)
(* whatever the others did in between.  FilesFollowRuns needs that one and *)
(* RunInv: what a run of the command knows at each of its stages.          *)
(***************************************************************************)
EXTENDS CreateComponent, SequenceTheorems, TLAPS

Fired(c) == IF due[c] THEN RetryInterval ELSE 0

(* What the ticker has measured.                                           *)
Paid(c) ==
    \/ retries[c] * RetryInterval + Fired(c) + phase[c] <= since[c]
    \/ since[c] = MaxSince

(* A caller in the loop may still repeat its attempt.                      *)
MayRetry(c) ==
    /\ retries[c] <= RetryCount
    /\ pc[c] = "select" => retries[c] < RetryCount

(* An error is the last attempt's or follows a cancelled context.          *)
Patient(c) == outcome[c] = "error" => retries[c] = RetryCount \/ cancelled[c]

LoopTypes ==
    /\ pc \in [Callers -> Points]
    /\ retries \in [Callers -> Nat]
    /\ phase \in [Callers -> Nat]
    /\ due \in [Callers -> BOOLEAN]
    /\ since \in [Callers -> Nat]
    /\ cancelled \in [Callers -> BOOLEAN]
    /\ outcome \in [Callers -> {"none", "ok", "error", "panic"}]

LoopInv ==
    /\ LoopTypes
    /\ \A c \in Callers : Paid(c) /\ MayRetry(c) /\ Patient(c)

----------------------------------------------------------------------------
(* Products with the interval, which the solver does not find by itself.   *)
LEMMA ProductMonotonic ==
    ASSUME NEW a \in Nat, NEW b \in Nat, NEW k \in Nat, a <= b
    PROVE  a * k <= b * k
  OBVIOUS

LEMMA ProductSuccessor ==
    ASSUME NEW a \in Nat, NEW k \in Nat
    PROVE  (a + 1) * k = a * k + k
  OBVIOUS

LEMMA ProductIsNat ==
    ASSUME NEW a \in Nat, NEW k \in Nat
    PROVE  a * k \in Nat
  OBVIOUS

LEMMA InitLoop == CreateInit => LoopInv
<1> SUFFICES ASSUME CreateInit PROVE LoopInv
  OBVIOUS
<1>1. LoopTypes
  BY DEF CreateInit, Init, LoopTypes, Points
<1>2. ASSUME NEW c \in Callers PROVE Paid(c) /\ MayRetry(c) /\ Patient(c)
  BY HelmClientAssumption
     DEF CreateInit, Init, Paid, MayRetry, Patient, Fired, HelmClientAssumption
<1> QED
  BY <1>1, <1>2 DEF LoopInv

(* Steps that touch neither the loop's counters nor its verdict: they may  *)
(* move the caller between points other than "select", from which only     *)
(* TakeTick and GiveUp lead.                                               *)
LEMMA QuietStep ==
    ASSUME LoopInv,
           UNCHANGED <<retries, phase, due, since, cancelled, outcome>>,
           pc' \in [Callers -> Points],
           \A c \in Callers : pc'[c] = "select" => pc[c] = "select"
    PROVE  LoopInv'
  BY DEF LoopInv, LoopTypes, Paid, Fired, MayRetry, Patient, MaxSince

(* A return: the verdict has to be justified.                              *)
LEMMA ReturnStep ==
    ASSUME LoopInv, NEW c \in Callers, NEW value \in {"ok", "error", "panic"},
           Return(c, value),
           UNCHANGED <<retries, phase, due, since, cancelled>>,
           value = "error" => retries[c] = RetryCount \/ cancelled[c]
    PROVE  LoopInv'
<1>1. LoopTypes'
  BY DEF LoopInv, LoopTypes, Return, Goto, Points
<1>2. ASSUME NEW d \in Callers PROVE (Paid(d) /\ MayRetry(d) /\ Patient(d))'
  BY <1>1, <1>2
     DEF LoopInv, LoopTypes, Paid, Fired, MayRetry, Patient, MaxSince, Return,
         Goto
<1> QED
  BY <1>1, <1>2 DEF LoopInv

LEMMA CallLoop ==
    ASSUME LoopInv, NEW c \in Callers, NEW r, Call(c, r)
    PROVE  LoopInv'
<1>1. LoopTypes'
  BY DEF LoopInv, LoopTypes, Call, StartAttempt, Goto, Points
<1>2. ASSUME NEW d \in Callers PROVE (Paid(d) /\ MayRetry(d) /\ Patient(d))'
  <2>1. CASE d = c
    BY <1>1, <2>1, HelmClientAssumption
       DEF LoopInv, LoopTypes, Call, StartAttempt, Goto, Paid, Fired, MayRetry,
           Patient, HelmClientAssumption
  <2>2. CASE d # c
    BY <1>1, <2>2
       DEF LoopInv, LoopTypes, Call, StartAttempt, Goto, Paid, Fired, MayRetry,
           Patient, MaxSince
  <2> QED
    BY <2>1, <2>2
<1> QED
  BY <1>1, <1>2 DEF LoopInv

LEMMA TakeTickLoop ==
    ASSUME LoopInv, NEW c \in Callers, TakeTick(c)
    PROVE  LoopInv'
<1>1. LoopTypes'
  BY DEF LoopInv, LoopTypes, TakeTick, StartAttempt, Goto, Points
<1>2. ASSUME NEW d \in Callers PROVE (Paid(d) /\ MayRetry(d) /\ Patient(d))'
  <2>1. CASE d = c
    <3>1. /\ retries'[c] = retries[c] + 1
          /\ due[c] /\ ~due'[c]
          /\ phase'[c] = phase[c] /\ since'[c] = since[c]
          /\ pc[c] = "select" /\ pc'[c] = "attempt"
          /\ outcome' = outcome /\ cancelled' = cancelled
      BY DEF LoopInv, LoopTypes, TakeTick, StartAttempt, Goto
    <3>2. retries[c] \in Nat /\ phase[c] \in Nat /\ since[c] \in Nat
      BY DEF LoopInv, LoopTypes
    <3>3. /\ retries'[c] * RetryInterval
               = retries[c] * RetryInterval + RetryInterval
          /\ retries[c] * RetryInterval \in Nat
          /\ RetryInterval \in Nat
      BY <3>1, <3>2, ProductSuccessor, ProductIsNat, HelmClientAssumption
         DEF HelmClientAssumption
    <3>4. Paid(c)'
      BY <3>1, <3>2, <3>3 DEF LoopInv, Paid, Fired, MaxSince
    <3>5. MayRetry(c)'
      BY <3>1, <3>2, HelmClientAssumption
         DEF LoopInv, MayRetry, HelmClientAssumption
    <3>6. Patient(c)'
      <4>1. retries[c] < RetryCount /\ RetryCount \in Nat
        BY <3>1, HelmClientAssumption
           DEF LoopInv, MayRetry, HelmClientAssumption
      <4> QED
        BY <3>1, <3>2, <4>1 DEF LoopInv, Patient
    <3> QED
      BY <2>1, <3>4, <3>5, <3>6
  <2>2. CASE d # c
    BY <1>1, <2>2
       DEF LoopInv, LoopTypes, TakeTick, StartAttempt, Goto, Paid, Fired,
           MayRetry, Patient, MaxSince
  <2> QED
    BY <2>1, <2>2
<1> QED
  BY <1>1, <1>2 DEF LoopInv

(* The passage of time: a tick that fires is paid for by the interval that *)
(* phase had measured, whether or not one was buffered already.            *)
LEMMA TickLoop ==
    ASSUME LoopInv, Tick
    PROVE  LoopInv'
<1>1. MaxSince \in Nat /\ RetryInterval \in Nat
  BY ProductIsNat, HelmClientAssumption DEF MaxSince, HelmClientAssumption
<1>2. LoopTypes'
  BY <1>1 DEF LoopInv, LoopTypes, Tick, Smaller
<1>3. ASSUME NEW d \in Callers PROVE (Paid(d) /\ MayRetry(d) /\ Patient(d))'
  <2>1. /\ retries' = retries /\ outcome' = outcome
        /\ cancelled' = cancelled /\ pc' = pc
    BY DEF Tick
  <2>2. MayRetry(d)' /\ Patient(d)'
    BY <2>1 DEF LoopInv, MayRetry, Patient
  <2>3. /\ retries[d] \in Nat /\ phase[d] \in Nat /\ since[d] \in Nat
        /\ due[d] \in BOOLEAN
    BY DEF LoopInv, LoopTypes
  <2>4. retries[d] * RetryInterval \in Nat
    BY <1>1, <2>3, ProductIsNat
  <2>5. Paid(d)'
    <3>1. CASE ~Ticking(d)
      <4>1. phase'[d] = phase[d] /\ due'[d] = due[d] /\ since'[d] = since[d]
        BY <3>1, <2>3 DEF Tick
      <4> QED
        BY <4>1, <2>1 DEF LoopInv, Paid, Fired, MaxSince
    <3>2. CASE Ticking(d) /\ phase[d] + 1 = RetryInterval
      <4>1. /\ phase'[d] = 0 /\ due'[d]
            /\ since'[d] = IF since[d] + 1 < MaxSince THEN since[d] + 1
                                                      ELSE MaxSince
        BY <3>2 DEF Tick, Smaller
      <4>2. retries[d] * RetryInterval + phase[d] <= since[d]
              \/ since[d] = MaxSince
        BY <1>1, <2>3, <2>4 DEF LoopInv, Paid, Fired
      <4>3. retries[d] * RetryInterval + RetryInterval + 0 <= since'[d]
              \/ since'[d] = MaxSince
        BY <1>1, <2>3, <2>4, <3>2, <4>1, <4>2
      <4> QED
        BY <2>1, <4>1, <4>3 DEF Paid, Fired, MaxSince
    <3>3. CASE Ticking(d) /\ phase[d] + 1 # RetryInterval
      <4>1. /\ phase'[d] = phase[d] + 1 /\ due'[d] = due[d]
            /\ since'[d] = IF since[d] + 1 < MaxSince THEN since[d] + 1
                                                      ELSE MaxSince
        BY <2>3, <3>3 DEF Tick, Smaller
      <4>2. Fired(d) \in Nat /\ Fired(d)' = Fired(d)
        BY <1>1, <4>1 DEF Fired
      <4>3. retries[d] * RetryInterval + Fired(d) + phase[d] <= since[d]
              \/ since[d] = MaxSince
        BY DEF LoopInv, Paid
      <4>4. retries[d] * RetryInterval + Fired(d) + phase'[d] <= since'[d]
              \/ since'[d] = MaxSince
        BY <1>1, <2>3, <2>4, <4>1, <4>2, <4>3
      <4> QED
        BY <2>1, <4>2, <4>4 DEF Paid, MaxSince
    <3> QED
      BY <3>1, <3>2, <3>3
  <2> QED
    BY <2>2, <2>5
<1> QED
  BY <1>2, <1>3 DEF LoopInv

(* What a call does by itself.                                             *)
LEMMA CallStepLoop ==
    ASSUME LoopInv, NEW c \in Callers, CallStep(c)
    PROVE  LoopInv'
<1>1. CASE LocalStep(c)
  BY <1>1, QuietStep DEF LocalStep, LoopInv, LoopTypes, timers
<1>2. CASE HaveVersion(c)
  BY <1>2, QuietStep DEF HaveVersion, LoopInv, LoopTypes, timers
<1>3. CASE LocalStepFails(c)
  BY <1>3, QuietStep DEF LocalStepFails, Goto, LoopInv, LoopTypes, Points, timers
<1>4. CASE BeginCommand(c)
  BY <1>4, QuietStep DEF BeginCommand, Goto, LoopInv, LoopTypes, Points, timers
<1>5. CASE CommandEnds(c)
  BY <1>5, QuietStep DEF CommandEnds, Goto, LoopInv, LoopTypes, Points, timers
<1>6. CASE CommandFails(c)
  <2>1. UNCHANGED <<retries, phase, due, since, cancelled>>
    BY <1>6 DEF CommandFails, timers
  <2>2. CASE Head(steps[c]) = "template"
    <3>1. Return(c, "panic")
      BY <1>6, <2>2 DEF CommandFails
    <3> QED
      BY <2>1, <3>1, ReturnStep
  <2>3. CASE Head(steps[c]) # "template"
    <3>1. Goto(c, "failed") /\ UNCHANGED outcome
      BY <1>6, <2>3 DEF CommandFails
    <3> QED
      BY <2>1, <3>1, QuietStep DEF Goto, LoopInv, LoopTypes, Points
  <2> QED
    BY <2>2, <2>3
<1>7. CASE Succeed(c)
  BY <1>7, ReturnStep DEF Succeed, timers
<1>8. CASE WaitForTick(c)
  <2>1. /\ pc' = [pc EXCEPT ![c] = "select"]
        /\ retries[c] < RetryCount
        /\ UNCHANGED <<retries, phase, due, since, cancelled, outcome>>
    BY <1>8 DEF WaitForTick, Goto, timers
  <2> QED
    BY <2>1
       DEF LoopInv, LoopTypes, Points, Paid, Fired, MayRetry, Patient, MaxSince
<1>9. CASE ReturnError(c)
  <2>1. retries[c] = RetryCount
    BY <1>9, HelmClientAssumption
       DEF ReturnError, LoopInv, LoopTypes, MayRetry, HelmClientAssumption
  <2> QED
    BY <1>9, <2>1, ReturnStep DEF ReturnError, timers
<1>10. CASE TakeTick(c)
  BY <1>10, TakeTickLoop
<1>11. CASE GiveUp(c)
  BY <1>11, ReturnStep DEF GiveUp, timers
<1> QED
  BY <1>1, <1>2, <1>3, <1>4, <1>5, <1>6, <1>7, <1>8, <1>9, <1>10, <1>11
     DEF CallStep

LEMMA NextLoop == LoopInv /\ [CreateNext]_allVars => LoopInv'
<1> SUFFICES ASSUME LoopInv, [CreateNext]_allVars PROVE LoopInv'
  OBVIOUS
<1>1. ASSUME UNCHANGED vars PROVE LoopInv'
  BY <1>1, QuietStep DEF vars, timers, LoopInv, LoopTypes
<1>2. ASSUME NEW c \in Callers, Start(c) PROVE LoopInv'
  BY <1>2, <1>1 DEF Start
<1>3. ASSUME NEW c \in Callers, RunStep(c) PROVE LoopInv'
  <2>1. CASE VendorChart(c)
    BY <1>3, <2>1, CallLoop DEF VendorChart
  <2>2. CASE ~VendorChart(c)
    <3>1. UNCHANGED vars
      BY <1>3, <2>2
         DEF RunStep, Refuse, VendorEnds, ReadValues, StepFails, Mkdir, Render,
             RenderFails, RenderEnds, Save, CopyValues, WriteFails
    <3> QED
      BY <3>1, <1>1
  <2> QED
    BY <2>1, <2>2
<1>4. ASSUME NEW c \in Callers, Use(c) PROVE LoopInv'
  BY <1>4, CallLoop DEF Use
<1>5. ASSUME NEW c \in Callers, Abandon(c) PROVE LoopInv'
  <2>1. /\ cancelled' = [cancelled EXCEPT ![c] = TRUE]
        /\ UNCHANGED <<pc, retries, phase, due, since, outcome>>
    BY <1>5 DEF Abandon, Cancel, timers
  <2> QED
    BY <2>1
       DEF LoopInv, LoopTypes, Paid, Fired, MayRetry, Patient, MaxSince
<1>6. ASSUME NEW c \in Callers, CallStep(c) PROVE LoopInv'
  BY <1>6, CallStepLoop
<1>7. CASE OtherBegins \/ OtherEnds \/ Publish
  BY <1>7, QuietStep
     DEF OtherBegins, OtherEnds, Publish, timers, LoopInv, LoopTypes
<1>8. CASE Tick
  BY <1>8, TickLoop
<1>9. CASE UNCHANGED allVars
  BY <1>9, <1>1 DEF allVars
<1> QED
  BY <1>2, <1>3, <1>4, <1>5, <1>6, <1>7, <1>8, <1>9 DEF CreateNext

(* The invariant of the retry loop, for every value of the constants.      *)
THEOREM LoopInvariant == CreateSpec => []LoopInv
  BY InitLoop, NextLoop, PTL DEF CreateSpec

(* Repeated attempts are spaced by the interval (the retry decorator).     *)
THEOREM SpacingHolds == CreateSpec => []RetriesAreSpaced
<1>1. LoopInv => RetriesAreSpaced
  <2> SUFFICES ASSUME LoopInv, NEW c \in Callers
               PROVE  retries[c] * RetryInterval <= since[c]
    BY DEF RetriesAreSpaced
  <2>1. /\ retries[c] \in Nat /\ phase[c] \in Nat /\ since[c] \in Nat
        /\ RetryInterval \in Nat /\ RetryCount \in Nat
        /\ retries[c] <= RetryCount
    BY HelmClientAssumption
       DEF LoopInv, LoopTypes, MayRetry, HelmClientAssumption
  <2>2. Fired(c) \in Nat /\ retries[c] * RetryInterval \in Nat
    BY <2>1, ProductIsNat DEF Fired
  <2>3. retries[c] * RetryInterval <= MaxSince
    BY <2>1, ProductMonotonic DEF MaxSince
  <2>4. CASE since[c] = MaxSince
    BY <2>3, <2>4
  <2>5. CASE retries[c] * RetryInterval + Fired(c) + phase[c] <= since[c]
    BY <2>1, <2>2, <2>5
  <2> QED
    BY <2>4, <2>5 DEF LoopInv, Paid
<1> QED
  BY <1>1, LoopInvariant, PTL

(* No call gives up before its attempts are spent, unless it is cancelled. *)
THEOREM PatienceHolds == CreateSpec => []GivesUpLate
<1>1. LoopInv => GivesUpLate
  BY DEF LoopInv, Patient, GivesUpLate
<1> QED
  BY <1>1, LoopInvariant, PTL

----------------------------------------------------------------------------
(* The steps an attempt to pull may have left, of the latest version or of *)
(* the one that was asked for.                                             *)
Pulls == {"VendorRepo", "PullRepo"}

AfterSearch == {<<"pull", "open">>, <<"open">>, <<>>}

AfterUpdate ==
    {<<"mkdtemp", "search", "pull", "open">>, <<"search", "pull", "open">>}
        \cup AfterSearch

LatestRest ==
    {<<"add", "update", "mkdtemp", "search", "pull", "open">>,
     <<"update", "mkdtemp", "search", "pull", "open">>} \cup AfterUpdate

PinnedRest ==
    {<<"add", "update", "mkdtemp", "pull", "open">>,
     <<"update", "mkdtemp", "pull", "open">>,
     <<"mkdtemp", "pull", "open">>} \cup AfterSearch

Rest(r) == IF r.version = Latest THEN LatestRest ELSE PinnedRest

(* The index is brought up to date before it is searched.                  *)
Fresh(r) == r.method = "VendorRepo" /\ r.version = Latest /\ ~r.oci

(* What has been done of an attempt that has these steps left.             *)
Attempted(c) ==
    /\ steps[c] \in Rest(req[c])
    /\ steps[c] = <<"open">> => chart[c] = Wanted(c)
    /\ steps[c] = <<>> => chart[c] = IF req[c].named THEN Wanted(c) ELSE 0
    /\ Fresh(req[c]) =>
          /\ steps[c] \in AfterUpdate => added /\ seen[c] <= index
          /\ steps[c] \in AfterSearch => seen[c] <= found[c]

Pulled(c) ==
    /\ chart[c] = IF req[c].named THEN Wanted(c) ELSE 0
    /\ Fresh(req[c]) => seen[c] <= found[c]

PullOf(c) ==
    /\ seen[c] <= remote
    /\ outcome[c] = "ok" => pc[c] = "done"
    /\ req[c].method \in Pulls =>
          /\ pc[c] \in {"attempt", "running"} => Attempted(c)
          /\ pc[c] = "running" =>
                steps[c] # <<>> /\ Head(steps[c]) \in Commands
          /\ outcome[c] = "ok" => Pulled(c)

PullTypes ==
    /\ pc = [c \in Callers |-> pc[c]]
    /\ req = [c \in Callers |-> req[c]]
    /\ steps = [c \in Callers |-> steps[c]]
    /\ outcome = [c \in Callers |-> outcome[c]]
    /\ chart = [c \in Callers |-> chart[c]]
    /\ found \in [Callers -> Nat]
    /\ seen \in [Callers -> Nat]
    /\ added \in BOOLEAN /\ index \in Nat /\ remote \in Nat
    /\ index <= remote

PullInv == PullTypes /\ \A c \in Callers : PullOf(c)

(* What precedes what in an attempt to pull.                               *)
StepFacts(s, rest) ==
    /\ Tail(s) \in rest
    /\ Head(s) \in {"add", "update", "mkdtemp", "search", "pull", "open"}
    /\ Head(s) = "open" <=> s = <<"open">>
    /\ Tail(s) = <<"open">> <=> Head(s) = "pull"
    /\ Tail(s) = <<>> => Head(s) = "open"

LEMMA LatestSteps ==
    ASSUME NEW s \in LatestRest, s # <<>>
    PROVE  /\ StepFacts(s, LatestRest)
           /\ Tail(s) \in AfterUpdate => Head(s) = "update" \/ s \in AfterUpdate
           /\ Tail(s) \in AfterSearch => Head(s) = "search" \/ s \in AfterSearch
           /\ Head(s) = "search" => s \in AfterUpdate
<1>1. CASE s = <<"add", "update", "mkdtemp", "search", "pull", "open">>
  <2>1. Head(s) = "add" /\ Tail(s) = <<"update", "mkdtemp", "search", "pull", "open">>
    BY <1>1
  <2>2. Len(s) = 6 /\ Len(Tail(s)) = 5
    BY <1>1, <2>1
  <2> QED
    BY <2>1, <2>2 DEF StepFacts, LatestRest, AfterUpdate, AfterSearch
<1>2. CASE s = <<"update", "mkdtemp", "search", "pull", "open">>
  <2>1. Head(s) = "update" /\ Tail(s) = <<"mkdtemp", "search", "pull", "open">>
    BY <1>2
  <2>2. Len(s) = 5 /\ Len(Tail(s)) = 4
    BY <1>2, <2>1
  <2> QED
    BY <2>1, <2>2 DEF StepFacts, LatestRest, AfterUpdate, AfterSearch
<1>3. CASE s = <<"mkdtemp", "search", "pull", "open">>
  <2>1. Head(s) = "mkdtemp" /\ Tail(s) = <<"search", "pull", "open">>
    BY <1>3
  <2>2. Len(s) = 4 /\ Len(Tail(s)) = 3
    BY <1>3, <2>1
  <2> QED
    BY <1>3, <2>1, <2>2 DEF StepFacts, LatestRest, AfterUpdate, AfterSearch
<1>4. CASE s = <<"search", "pull", "open">>
  <2>1. Head(s) = "search" /\ Tail(s) = <<"pull", "open">>
    BY <1>4
  <2>2. Len(s) = 3 /\ Len(Tail(s)) = 2
    BY <1>4, <2>1
  <2> QED
    BY <1>4, <2>1, <2>2 DEF StepFacts, LatestRest, AfterUpdate, AfterSearch
<1>5. CASE s = <<"pull", "open">>
  <2>1. Head(s) = "pull" /\ Tail(s) = <<"open">>
    BY <1>5
  <2>2. Len(s) = 2 /\ Len(Tail(s)) = 1
    BY <1>5, <2>1
  <2> QED
    BY <1>5, <2>1, <2>2 DEF StepFacts, LatestRest, AfterUpdate, AfterSearch
<1>6. CASE s = <<"open">>
  <2>1. Head(s) = "open" /\ Tail(s) = <<>>
    BY <1>6
  <2> QED
    BY <1>6, <2>1 DEF StepFacts, LatestRest, AfterUpdate, AfterSearch
<1> QED
  BY <1>1, <1>2, <1>3, <1>4, <1>5, <1>6 DEF LatestRest, AfterUpdate, AfterSearch

LEMMA PinnedSteps ==
    ASSUME NEW s \in PinnedRest, s # <<>>
    PROVE  StepFacts(s, PinnedRest)
<1>1. CASE s = <<"add", "update", "mkdtemp", "pull", "open">>
  <2>1. Head(s) = "add" /\ Tail(s) = <<"update", "mkdtemp", "pull", "open">>
    BY <1>1
  <2>2. Len(s) = 5 /\ Len(Tail(s)) = 4
    BY <1>1, <2>1
  <2> QED
    BY <2>1, <2>2 DEF StepFacts, PinnedRest, AfterSearch
<1>2. CASE s = <<"update", "mkdtemp", "pull", "open">>
  <2>1. Head(s) = "update" /\ Tail(s) = <<"mkdtemp", "pull", "open">>
    BY <1>2
  <2>2. Len(s) = 4 /\ Len(Tail(s)) = 3
    BY <1>2, <2>1
  <2> QED
    BY <2>1, <2>2 DEF StepFacts, PinnedRest, AfterSearch
<1>3. CASE s = <<"mkdtemp", "pull", "open">>
  <2>1. Head(s) = "mkdtemp" /\ Tail(s) = <<"pull", "open">>
    BY <1>3
  <2>2. Len(s) = 3 /\ Len(Tail(s)) = 2
    BY <1>3, <2>1
  <2> QED
    BY <2>1, <2>2 DEF StepFacts, PinnedRest, AfterSearch
<1>4. CASE s = <<"pull", "open">>
  <2>1. Head(s) = "pull" /\ Tail(s) = <<"open">>
    BY <1>4
  <2>2. Len(s) = 2 /\ Len(Tail(s)) = 1
    BY <1>4, <2>1
  <2> QED
    BY <2>1, <2>2 DEF StepFacts, PinnedRest, AfterSearch
<1>5. CASE s = <<"open">>
  <2>1. Head(s) = "open" /\ Tail(s) = <<>>
    BY <1>5
  <2> QED
    BY <1>5, <2>1 DEF StepFacts, PinnedRest, AfterSearch
<1> QED
  BY <1>1, <1>2, <1>3, <1>4, <1>5 DEF PinnedRest, AfterSearch

StepNames == {"add", "update", "mkdtemp", "search", "pull", "open"}

(* What two lists of steps make together.                                  *)
LEMMA Joined ==
    ASSUME NEW s \in Seq(StepNames), NEW t \in Seq(StepNames),
           NEW u \in Seq(StepNames), Len(u) = Len(s) + Len(t),
           \A i \in 1..Len(u) : u[i] = IF i <= Len(s) THEN s[i] ELSE t[i - Len(s)]
    PROVE  s \o t = u
<1>1. /\ s \o t \in Seq(StepNames) /\ Len(s \o t) = Len(s) + Len(t)
      /\ \A i \in 1..Len(s) + Len(t) :
             (s \o t)[i] = IF i <= Len(s) THEN s[i] ELSE t[i - Len(s)]
  BY ConcatProperties
<1> QED
  BY <1>1, SeqEqual

(* Every attempt starts before its first command, with all of its steps.   *)
LEMMA FirstSteps ==
    ASSUME NEW r, r.method \in Pulls
    PROVE  /\ Steps(r) \in Rest(r) /\ Steps(r) # <<>> /\ Steps(r) # <<"open">>
           /\ Fresh(r) => Steps(r) \notin AfterUpdate /\ Steps(r) \notin AfterSearch
<1>1. PullSteps(r) = IF r.version = Latest
                       THEN <<"mkdtemp", "search", "pull", "open">>
                       ELSE <<"mkdtemp", "pull", "open">>
  <2>1. <<"mkdtemp">> \o <<"search">> = <<"mkdtemp", "search">>
    <3> DEFINE s == <<"mkdtemp">> t == <<"search">> u == <<"mkdtemp", "search">>
    <3>1. s \in Seq(StepNames) /\ t \in Seq(StepNames) /\ u \in Seq(StepNames)
      BY DEF StepNames
    <3>2. Len(s) = 1 /\ Len(t) = 1 /\ Len(u) = Len(s) + Len(t)
      OBVIOUS
    <3>3. \A i \in 1..Len(u) :
             u[i] = IF i <= Len(s) THEN s[i] ELSE t[i - Len(s)]
      OBVIOUS
    <3> HIDE DEF s, t, u
    <3>4. s \o t = u
      BY <3>1, <3>2, <3>3, Joined
    <3> QED
      BY <3>4 DEF s, t, u
  <2>2. <<"mkdtemp">> \o <<>> = <<"mkdtemp">>
    OBVIOUS
  <2>3. <<"mkdtemp", "search">> \o <<"pull", "open">>
          = <<"mkdtemp", "search", "pull", "open">>
    <3> DEFINE s == <<"mkdtemp", "search">> t == <<"pull", "open">>
               u == <<"mkdtemp", "search", "pull", "open">>
    <3>1. s \in Seq(StepNames) /\ t \in Seq(StepNames) /\ u \in Seq(StepNames)
      BY DEF StepNames
    <3>2. Len(s) = 2 /\ Len(t) = 2 /\ Len(u) = Len(s) + Len(t)
      OBVIOUS
    <3>3. \A i \in 1..Len(u) :
             u[i] = IF i <= Len(s) THEN s[i] ELSE t[i - Len(s)]
      OBVIOUS
    <3> HIDE DEF s, t, u
    <3>4. s \o t = u
      BY <3>1, <3>2, <3>3, Joined
    <3> QED
      BY <3>4 DEF s, t, u
  <2>4. <<"mkdtemp">> \o <<"pull", "open">> = <<"mkdtemp", "pull", "open">>
    <3> DEFINE s == <<"mkdtemp">> t == <<"pull", "open">>
               u == <<"mkdtemp", "pull", "open">>
    <3>1. s \in Seq(StepNames) /\ t \in Seq(StepNames) /\ u \in Seq(StepNames)
      BY DEF StepNames
    <3>2. Len(s) = 1 /\ Len(t) = 2 /\ Len(u) = Len(s) + Len(t)
      OBVIOUS
    <3>3. \A i \in 1..Len(u) :
             u[i] = IF i <= Len(s) THEN s[i] ELSE t[i - Len(s)]
      OBVIOUS
    <3> HIDE DEF s, t, u
    <3>4. s \o t = u
      BY <3>1, <3>2, <3>3, Joined
    <3> QED
      BY <3>4 DEF s, t, u
  <2>5. CASE r.version = Latest
    BY <2>1, <2>3, <2>5 DEF PullSteps
  <2>6. CASE r.version # Latest
    BY <2>2, <2>4, <2>6 DEF PullSteps
  <2> QED
    BY <2>5, <2>6
<1>2. CASE r.method = "PullRepo"
  <2>1. Steps(r) = PullSteps(r)
    BY <1>2 DEF Steps
  <2>2. Len(Steps(r)) \in {3, 4}
    BY <1>1, <2>1
  <2>3. Steps(r) \in Rest(r)
    BY <1>1, <2>1 DEF Rest, LatestRest, PinnedRest, AfterUpdate
  <2>4. Steps(r) # <<>> /\ Steps(r) # <<"open">>
    BY <2>2
  <2> QED
    BY <1>2, <2>3, <2>4 DEF Fresh
<1>3. CASE r.method = "VendorRepo" /\ r.oci
  <2>1. Steps(r) = PullSteps(r)
    BY <1>1, <1>3 DEF Steps, VendorSteps
  <2>2. Len(Steps(r)) \in {3, 4}
    BY <1>1, <2>1
  <2>3. Steps(r) \in Rest(r)
    BY <1>1, <2>1 DEF Rest, LatestRest, PinnedRest, AfterUpdate
  <2>4. Steps(r) # <<>> /\ Steps(r) # <<"open">>
    BY <2>2
  <2> QED
    BY <1>3, <2>3, <2>4 DEF Fresh
<1>4. CASE r.method = "VendorRepo" /\ ~r.oci
  <2>1. Steps(r) = <<"add", "update">> \o PullSteps(r)
    BY <1>4 DEF Steps, VendorSteps
  <2>2. Steps(r) = IF r.version = Latest
                     THEN <<"add", "update", "mkdtemp", "search", "pull", "open">>
                     ELSE <<"add", "update", "mkdtemp", "pull", "open">>
    <3>1. <<"add", "update">> \o <<"mkdtemp", "search", "pull", "open">>
            = <<"add", "update", "mkdtemp", "search", "pull", "open">>
      <4> DEFINE s == <<"add", "update">> t == <<"mkdtemp", "search", "pull", "open">>
                 u == <<"add", "update", "mkdtemp", "search", "pull", "open">>
      <4>1. s \in Seq(StepNames) /\ t \in Seq(StepNames) /\ u \in Seq(StepNames)
        BY DEF StepNames
      <4>2. Len(s) = 2 /\ Len(t) = 4 /\ Len(u) = Len(s) + Len(t)
        OBVIOUS
      <4>3. \A i \in 1..Len(u) :
               u[i] = IF i <= Len(s) THEN s[i] ELSE t[i - Len(s)]
        OBVIOUS
      <4> HIDE DEF s, t, u
      <4>4. s \o t = u
        BY <4>1, <4>2, <4>3, Joined
      <4> QED
        BY <4>4 DEF s, t, u
    <3>2. <<"add", "update">> \o <<"mkdtemp", "pull", "open">>
            = <<"add", "update", "mkdtemp", "pull", "open">>
      <4> DEFINE s == <<"add", "update">> t == <<"mkdtemp", "pull", "open">>
                 u == <<"add", "update", "mkdtemp", "pull", "open">>
      <4>1. s \in Seq(StepNames) /\ t \in Seq(StepNames) /\ u \in Seq(StepNames)
        BY DEF StepNames
      <4>2. Len(s) = 2 /\ Len(t) = 3 /\ Len(u) = Len(s) + Len(t)
        OBVIOUS
      <4>3. \A i \in 1..Len(u) :
               u[i] = IF i <= Len(s) THEN s[i] ELSE t[i - Len(s)]
        OBVIOUS
      <4> HIDE DEF s, t, u
      <4>4. s \o t = u
        BY <4>1, <4>2, <4>3, Joined
      <4> QED
        BY <4>4 DEF s, t, u
    <3> QED
      BY <1>1, <2>1, <3>1, <3>2
  <2>3. Len(Steps(r)) \in {5, 6}
    BY <2>2
  <2>4. Steps(r) \in Rest(r)
    BY <2>2 DEF Rest, LatestRest, PinnedRest
  <2>5. Steps(r) # <<>> /\ Steps(r) # <<"open">>
    BY <2>3
  <2>6. Steps(r) \notin AfterUpdate
    <3>1. ASSUME NEW s \in AfterUpdate PROVE Len(s) # 5 /\ Len(s) # 6
      <4>1. CASE s = <<"mkdtemp", "search", "pull", "open">>
        BY <4>1
      <4>2. CASE s = <<"search", "pull", "open">>
        BY <4>2
      <4>3. CASE s = <<"pull", "open">>
        BY <4>3
      <4>4. CASE s = <<"open">>
        BY <4>4
      <4>5. CASE s = <<>>
        BY <4>5
      <4> QED
        BY <3>1, <4>1, <4>2, <4>3, <4>4, <4>5 DEF AfterUpdate, AfterSearch
    <3>2. Len(Steps(r)) = 5 \/ Len(Steps(r)) = 6
      BY <2>3
    <3> QED
      BY <3>1, <3>2
  <2> QED
    BY <2>4, <2>5, <2>6 DEF AfterUpdate
<1> QED
  BY <1>2, <1>3, <1>4 DEF Pulls

LEMMA SearchFacts ==
    ASSUME index \in Nat, added \in BOOLEAN
    PROVE  SearchRepo = IF added THEN index ELSE 0
<1>1. CASE ~added
    BY <1>1 DEF SearchRepo, Listing
<1>2. CASE added
    <2> DEFINE old == <<[exact |-> FALSE, version |-> Neighbour]>>
               new == [i \in 1..index |-> [exact |-> TRUE, version |-> index + 1 - i]]
    <2>1. Listing = old \o new
        BY <1>2 DEF Listing
    <2>2. Len(old) = 1 /\ ~old[1].exact
        OBVIOUS
    <2>3. Len(new) = index /\ \A i \in 1..index : new[i].exact /\ new[i].version = index + 1 - i
        OBVIOUS
    <2>4. /\ DOMAIN Listing = 1..(index + 1) /\ Listing[1] = old[1]
          /\ \A i \in 2..(index + 1) : Listing[i] = new[i - 1]
        BY <2>1, <2>2, <2>3
    <2> HIDE DEF old, new
    <2>5. {i \in DOMAIN Listing : Listing[i].exact} = 2..(index + 1)
        BY <2>2, <2>3, <2>4
    <2>6. CASE index = 0
        BY <1>2, <2>5, <2>6 DEF SearchRepo
    <2>7. CASE index # 0
        <3>1. Min(2..(index + 1)) = 2
            BY <2>7 DEF Min
        <3>2. Listing[2].version = index
            BY <2>3, <2>4, <2>7
        <3>3. 2..(index + 1) # {}
            BY <2>7
        <3> QED
            BY <1>2, <2>5, <3>1, <3>2, <3>3 DEF SearchRepo
    <2> QED
        BY <2>6, <2>7
<1> QED
    BY <1>1, <1>2

LEMMA RestSteps ==
    ASSUME NEW r, NEW s \in Rest(r), s # <<>>
    PROVE  /\ StepFacts(s, Rest(r))
           /\ r.version = Latest =>
                 /\ Tail(s) \in AfterUpdate => Head(s) = "update" \/ s \in AfterUpdate
                 /\ Tail(s) \in AfterSearch => Head(s) = "search" \/ s \in AfterSearch
                 /\ Head(s) = "search" => s \in AfterUpdate
<1>1. CASE r.version = Latest
  BY <1>1, LatestSteps DEF Rest
<1>2. CASE r.version # Latest
  BY <1>2, PinnedSteps DEF Rest
<1> QED
  BY <1>1, <1>2

----------------------------------------------------------------------------
LEMMA InitPull == CreateInit => PullInv
<1> SUFFICES ASSUME CreateInit PROVE PullInv
  OBVIOUS
<1>1. PullTypes
  BY DEF CreateInit, Init, PullTypes
<1>2. ASSUME NEW c \in Callers PROVE PullOf(c)
  BY DEF CreateInit, Init, PullOf
<1> QED
  BY <1>1, <1>2 DEF PullInv

(* What helm knows of the repository only grows.                           *)
Grows ==
    /\ added' \in BOOLEAN /\ index' \in Nat /\ remote' \in Nat
    /\ added => added'
    /\ index <= index' /\ remote <= remote' /\ index' <= remote'

(* A caller whose attempt is left as it is, or ends.                       *)
Rests(d) ==
    /\ req'[d] = req[d] /\ steps'[d] = steps[d] /\ chart'[d] = chart[d]
    /\ found'[d] = found[d] /\ seen'[d] = seen[d]
    /\ pc'[d] \in {"attempt", "running"} => pc[d] \in {"attempt", "running"}
    /\ pc'[d] = "running" =>
          pc[d] = "running" \/ (steps[d] # <<>> /\ Head(steps[d]) \in Commands)
    /\ outcome'[d] = "ok" => outcome[d] = "ok" /\ pc'[d] = "done"

LEMMA RestingKeepsPull ==
    ASSUME PullInv, Grows, NEW d \in Callers, Rests(d)
    PROVE  PullOf(d)'
<1>1. /\ seen[d] \in Nat /\ found[d] \in Nat /\ index \in Nat /\ remote \in Nat
      /\ PullOf(d)
  BY DEF PullInv, PullTypes
<1>2. Wanted(d)' = Wanted(d)
  BY DEF Wanted, Rests
<1>3. Attempted(d) => Attempted(d)'
  BY <1>1, <1>2 DEF Attempted, Rests, Grows
<1>4. Pulled(d) => Pulled(d)'
  BY <1>2 DEF Pulled, Rests
<1> QED
  BY <1>1, <1>3, <1>4 DEF PullOf, Rests, Grows

LEMMA RestingStep ==
    ASSUME PullInv, Grows, UNCHANGED <<req, steps, chart, found, seen>>,
           pc' = [d \in Callers |-> pc'[d]],
           outcome' = [d \in Callers |-> outcome'[d]],
           \A d \in Callers : Rests(d)
    PROVE  PullInv'
<1>1. PullTypes'
  BY DEF PullInv, PullTypes, Grows
<1> QED
  BY <1>1, RestingKeepsPull DEF PullInv

LEMMA StayingGrows ==
    ASSUME PullInv, UNCHANGED helm
    PROVE  Grows
  BY DEF PullInv, PullTypes, Grows, helm

(* An attempt begins, the first one of a call or a repeated one.           *)
LEMMA AttemptPull ==
    ASSUME PullInv, NEW c \in Callers, NEW r, StartAttempt(c, r),
           req' = [req EXCEPT ![c] = r], UNCHANGED helm,
           outcome' = [outcome EXCEPT ![c] = outcome'[c]], outcome'[c] # "ok"
    PROVE  PullInv'
<1>1. PullTypes'
  BY DEF PullInv, PullTypes, StartAttempt, Goto, helm
<1>2. ASSUME NEW d \in Callers, d # c PROVE PullOf(d)'
  <2>1. Rests(d)
    BY <1>2 DEF Rests, StartAttempt, Goto, PullInv, PullTypes, PullOf
  <2> QED
    BY <2>1, StayingGrows, RestingKeepsPull
<1>3. PullOf(c)'
  <2>1. /\ req'[c] = r /\ steps'[c] = Steps(r) /\ seen'[c] = remote
        /\ pc'[c] = "attempt" /\ remote' = remote
    BY DEF PullInv, PullTypes, StartAttempt, Goto, helm
  <2>2. ASSUME r.method \in Pulls PROVE Attempted(c)'
    <3>1. /\ Steps(r) \in Rest(r) /\ Steps(r) # <<>> /\ Steps(r) # <<"open">>
          /\ Fresh(r) => Steps(r) \notin AfterUpdate /\ Steps(r) \notin AfterSearch
      BY <2>2, FirstSteps
    <3> QED
      BY <2>1, <3>1 DEF Attempted
  <2> QED
    BY <2>1, <2>2 DEF PullOf, PullInv, PullTypes
<1> QED
  BY <1>1, <1>2, <1>3 DEF PullInv

LEMMA LocalStepPull ==
    ASSUME PullInv, NEW c \in Callers, LocalStep(c)
    PROVE  PullInv'
<1>1. Grows
  BY StayingGrows DEF LocalStep
<1>2. PullTypes'
  BY DEF PullInv, PullTypes, LocalStep, NextStep, helm
<1>3. ASSUME NEW d \in Callers, d # c PROVE PullOf(d)'
  <2>1. Rests(d)
    BY <1>3 DEF Rests, LocalStep, NextStep, PullInv, PullTypes, PullOf
  <2> QED
    BY <1>1, <2>1, RestingKeepsPull
<1>4. PullOf(c)'
  <2> DEFINE s == steps[c]
  <2>1. /\ pc[c] = "attempt" /\ pc' = pc /\ req' = req /\ found' = found
        /\ seen' = seen /\ outcome' = outcome
        /\ added' = added /\ index' = index /\ remote' = remote
        /\ s # <<>> /\ Head(s) \in {"mkdtemp", "open", "readChart"}
        /\ steps'[c] = Tail(s)
        /\ chart'[c] = IF Head(s) = "open" /\ ~req[c].named THEN 0 ELSE chart[c]
    BY DEF LocalStep, AtStep, NextStep, helm, PullInv, PullTypes
  <2>2. PullOf(c)
    BY DEF PullInv
  <2>3. ASSUME req[c].method \in Pulls PROVE Attempted(c)'
    <3>1. Attempted(c)
      BY <2>1, <2>2, <2>3 DEF PullOf
    <3>2. /\ StepFacts(s, Rest(req[c]))
          /\ req[c].version = Latest =>
                /\ Tail(s) \in AfterUpdate => Head(s) = "update" \/ s \in AfterUpdate
                /\ Tail(s) \in AfterSearch => Head(s) = "search" \/ s \in AfterSearch
      BY <2>1, <3>1, RestSteps DEF Attempted
    <3>3. Wanted(c)' = Wanted(c)
      BY <2>1 DEF Wanted
    <3> HIDE DEF s
    <3> QED
      BY <2>1, <3>1, <3>2, <3>3 DEF Attempted, StepFacts, Fresh, s
  <2> QED
    BY <2>1, <2>2, <2>3 DEF PullOf
<1> QED
  BY <1>2, <1>3, <1>4 DEF PullInv

LEMMA HaveVersionPull ==
    ASSUME PullInv, NEW c \in Callers, HaveVersion(c)
    PROVE  PullInv'
<1>1. Grows
  BY StayingGrows DEF HaveVersion
<1>2. PullTypes'
  BY DEF PullInv, PullTypes, HaveVersion, NextStep, helm
<1>3. ASSUME NEW d \in Callers, d # c PROVE PullOf(d)'
  <2>1. Rests(d)
    BY <1>3 DEF Rests, HaveVersion, NextStep, PullInv, PullTypes, PullOf
  <2> QED
    BY <1>1, <2>1, RestingKeepsPull
<1>4. PullOf(c)'
  <2>1. /\ pc[c] = "attempt" /\ steps[c] # <<>> /\ Head(steps[c]) = "some"
    BY DEF HaveVersion, AtStep
  <2>2. req[c].method \notin Pulls
    <3> SUFFICES ASSUME req[c].method \in Pulls PROVE FALSE
      OBVIOUS
    <3>1. steps[c] \in Rest(req[c])
      BY <2>1 DEF PullInv, PullOf, Attempted
    <3> QED
      BY <2>1, <3>1, RestSteps DEF StepFacts
  <2> QED
    BY <2>2 DEF HaveVersion, PullInv, PullOf, helm
<1> QED
  BY <1>2, <1>3, <1>4 DEF PullInv

(* A command of an attempt succeeds: `helm search` reads an index that has *)
(* been brought up to date since the attempt began, and `helm pull` leaves *)
(* the version it was asked for.                                           *)
LEMMA CommandEndsPull ==
    ASSUME PullInv, NEW c \in Callers, CommandEnds(c)
    PROVE  PullInv'
<1> DEFINE s == steps[c]
<1>1. /\ pc[c] = "running" /\ pc' = [pc EXCEPT ![c] = "attempt"]
      /\ steps' = [steps EXCEPT ![c] = Tail(s)]
      /\ Head(s) = "update" => added
      /\ added' = (added \/ Head(s) = "add")
      /\ index' = IF Head(s) = "update" \/ (Head(s) = "add" /\ ~added)
                     THEN remote ELSE index
      /\ found' = IF Head(s) = "search" THEN [found EXCEPT ![c] = SearchRepo]
                                        ELSE found
      /\ chart' = IF Head(s) = "pull" THEN [chart EXCEPT ![c] = Wanted(c)] ELSE chart
      /\ req' = req /\ seen' = seen /\ outcome' = outcome /\ remote' = remote
  BY DEF CommandEnds, Goto, NextStep
<1>2. PullTypes /\ PullOf(c)
  BY DEF PullInv
<1>3. SearchRepo = (IF added THEN index ELSE 0) /\ SearchRepo \in Nat
  BY <1>2, SearchFacts DEF PullTypes
<1> HIDE DEF s
<1>4. Grows
  BY <1>1, <1>2 DEF Grows, PullTypes
<1>5. PullTypes'
  <2>1. pc' = [d \in Callers |-> pc'[d]] /\ steps' = [d \in Callers |-> steps'[d]]
    BY <1>1, <1>2 DEF PullTypes
  <2>2. found' \in [Callers -> Nat] /\ chart' = [d \in Callers |-> chart'[d]]
    BY <1>1, <1>2, <1>3 DEF PullTypes
  <2> QED
    BY <1>1, <1>2, <1>4, <2>1, <2>2 DEF PullTypes, Grows
<1>6. ASSUME NEW d \in Callers, d # c PROVE PullOf(d)'
  <2>1. Rests(d)
    BY <1>1, <1>2, <1>6 DEF Rests, PullTypes, PullInv, PullOf
  <2> QED
    BY <1>4, <2>1, RestingKeepsPull
<1>7. PullOf(c)'
  <2>1. ASSUME req[c].method \in Pulls PROVE Attempted(c)'
    <3>1. Attempted(c) /\ s # <<>> /\ Head(s) \in Commands
      BY <1>1, <1>2, <2>1 DEF PullOf, s
    <3>2. /\ StepFacts(s, Rest(req[c]))
          /\ req[c].version = Latest =>
                /\ Tail(s) \in AfterUpdate => Head(s) = "update" \/ s \in AfterUpdate
                /\ Tail(s) \in AfterSearch => Head(s) = "search" \/ s \in AfterSearch
                /\ Head(s) = "search" => s \in AfterUpdate
      BY <3>1, RestSteps DEF Attempted, s
    <3>3. steps'[c] = Tail(s)
      BY <1>1, <1>2 DEF PullTypes
    <3>4. Tail(s) # <<>>
      BY <3>1, <3>2 DEF StepFacts, Commands
    <3>5. Tail(s) = <<"open">> => chart'[c] = Wanted(c)'
      BY <1>1, <1>2, <3>2 DEF StepFacts, Wanted, PullTypes
    <3>6. ASSUME Fresh(req[c]), Tail(s) \in AfterUpdate
          PROVE  added' /\ seen[c] <= index'
      <4>1. Head(s) = "update" \/ (added /\ seen[c] <= index)
        BY <3>1, <3>2, <3>6 DEF Attempted, Fresh, s
      <4> QED
        BY <1>1, <1>2, <4>1, <1>4 DEF PullOf, PullTypes, Grows
    <3>7. ASSUME Fresh(req[c]), Tail(s) \in AfterSearch
          PROVE  seen[c] <= found'[c]
      <4>1. CASE Head(s) = "search"
        <5>1. added /\ seen[c] <= index
          BY <3>1, <3>2, <3>7, <4>1 DEF Attempted, Fresh, s
        <5> QED
          BY <1>1, <1>2, <1>3, <4>1, <5>1 DEF PullTypes
      <4>2. CASE Head(s) # "search"
        BY <1>1, <3>1, <3>2, <3>7, <4>2 DEF Attempted, Fresh, s
      <4> QED
        BY <4>1, <4>2
    <3> QED
      BY <1>1, <3>2, <3>3, <3>4, <3>5, <3>6, <3>7 DEF Attempted, StepFacts
  <2> QED
    BY <1>1, <1>2, <2>1 DEF PullOf, PullTypes
<1> QED
  BY <1>5, <1>6, <1>7 DEF PullInv

LEMMA SucceedPull ==
    ASSUME PullInv, NEW c \in Callers, Succeed(c)
    PROVE  PullInv'
<1>1. Grows
  BY StayingGrows DEF Succeed
<1>2. PullTypes'
  BY DEF PullInv, PullTypes, Succeed, Return, Goto, helm
<1>3. ASSUME NEW d \in Callers, d # c PROVE PullOf(d)'
  <2>1. Rests(d)
    BY <1>3 DEF Rests, Succeed, Return, Goto, PullInv, PullTypes, PullOf
  <2> QED
    BY <1>1, <2>1, RestingKeepsPull
<1>4. PullOf(c)'
  <2>1. /\ pc[c] = "attempt" /\ steps[c] = <<>> /\ pc'[c] = "done"
        /\ req' = req /\ found' = found /\ chart' = chart /\ seen' = seen
        /\ remote' = remote
    BY DEF Succeed, Return, Goto, PullInv, PullTypes, helm
  <2>2. PullOf(c)
    BY DEF PullInv
  <2>3. ASSUME req[c].method \in Pulls PROVE Pulled(c)'
    <3>1. Attempted(c)
      BY <2>1, <2>2, <2>3 DEF PullOf
    <3>2. Wanted(c)' = Wanted(c)
      BY <2>1 DEF Wanted
    <3> QED
      BY <2>1, <3>1, <3>2 DEF Attempted, Pulled, AfterSearch, AfterUpdate
  <2> QED
    BY <2>1, <2>2, <2>3 DEF PullOf
<1> QED
  BY <1>2, <1>3, <1>4 DEF PullInv

LEMMA CallStepPull ==
    ASSUME PullInv, NEW c \in Callers, CallStep(c)
    PROVE  PullInv'
<1> USE DEF Rests, PullInv, PullTypes, PullOf
<1>1. CASE LocalStep(c)
  BY <1>1, LocalStepPull
<1>2. CASE HaveVersion(c)
  BY <1>2, HaveVersionPull
<1>3. CASE LocalStepFails(c)
  BY <1>3, RestingStep, StayingGrows DEF LocalStepFails, Goto, AtStep
<1>4. CASE BeginCommand(c)
  BY <1>4, RestingStep, StayingGrows DEF BeginCommand, Goto, AtStep
<1>5. CASE CommandEnds(c)
  BY <1>5, CommandEndsPull
<1>6. CASE CommandFails(c)
  <2>1. Grows
    <3>1. CASE UNCHANGED <<added, index>>
      BY <1>6, <3>1 DEF CommandFails, Grows
    <3>2. CASE added' = TRUE /\ index' = remote
      BY <1>6, <3>2 DEF CommandFails, Grows
    <3> QED
      BY <1>6, <3>1, <3>2 DEF CommandFails
  <2>2. /\ UNCHANGED <<req, steps, chart, found, seen>>
        /\ pc[c] = "running"
        /\ \/ pc' = [pc EXCEPT ![c] = "done"]
              /\ outcome' = [outcome EXCEPT ![c] = "panic"]
           \/ pc' = [pc EXCEPT ![c] = "failed"] /\ outcome' = outcome
    BY <1>6 DEF CommandFails, Return, Goto
  <2> QED
    BY <2>1, <2>2, RestingStep
<1>7. CASE Succeed(c)
  BY <1>7, SucceedPull
<1>8. CASE WaitForTick(c)
  BY <1>8, RestingStep, StayingGrows DEF WaitForTick, Goto
<1>9. CASE ReturnError(c)
  BY <1>9, RestingStep, StayingGrows DEF ReturnError, Return, Goto
<1>10. CASE TakeTick(c)
  <2>1. outcome' = [outcome EXCEPT ![c] = outcome'[c]] /\ outcome'[c] # "ok"
    BY <1>10 DEF TakeTick
  <2>2. req' = [req EXCEPT ![c] = req[c]]
    BY <1>10 DEF TakeTick
  <2>3. StartAttempt(c, req[c]) /\ UNCHANGED helm
    BY <1>10 DEF TakeTick
  <2> HIDE DEF PullInv
  <2> QED
    BY <2>1, <2>2, <2>3, AttemptPull
<1>11. CASE GiveUp(c)
  BY <1>11, RestingStep, StayingGrows DEF GiveUp, Return, Goto
<1> QED
  BY <1>1, <1>2, <1>3, <1>4, <1>5, <1>6, <1>7, <1>8, <1>9, <1>10, <1>11
     DEF CallStep

LEMMA CallPull ==
    ASSUME PullInv, NEW c \in Callers, NEW r, Call(c, r)
    PROVE  PullInv'
<1>1. outcome' = [outcome EXCEPT ![c] = outcome'[c]] /\ outcome'[c] # "ok"
  BY DEF Call, PullInv, PullTypes
<1> QED
  BY <1>1, AttemptPull DEF Call

(* The steps of Run that are no call of the client leave the client alone. *)
LEMMA RunStepVars ==
    ASSUME NEW c \in Callers, RunStep(c), ~VendorChart(c)
    PROVE  UNCHANGED vars
BY DEF RunStep, Refuse, VendorEnds, ReadValues, StepFails, Mkdir, Render,
       RenderFails, RenderEnds, Save, CopyValues, WriteFails

LEMMA NextPull == PullInv /\ [CreateNext]_allVars => PullInv'
<1> SUFFICES ASSUME PullInv, [CreateNext]_allVars PROVE PullInv'
  OBVIOUS
<1>1. ASSUME UNCHANGED vars PROVE PullInv'
  BY <1>1, RestingStep, StayingGrows DEF vars, helm, Rests, PullInv, PullTypes, PullOf
<1>2. ASSUME NEW c \in Callers, Start(c) PROVE PullInv'
  BY <1>2, <1>1 DEF Start
<1>3. ASSUME NEW c \in Callers, RunStep(c) PROVE PullInv'
  <2>1. CASE VendorChart(c)
    BY <2>1, CallPull DEF VendorChart
  <2>2. CASE ~VendorChart(c)
    BY <1>3, <2>2, <1>1, RunStepVars
  <2> QED
    BY <2>1, <2>2
<1>4. ASSUME NEW c \in Callers, Use(c) PROVE PullInv'
  BY <1>4, CallPull DEF Use
<1>5. ASSUME NEW c \in Callers, Abandon(c) PROVE PullInv'
  BY <1>5, RestingStep, StayingGrows
     DEF Abandon, Cancel, Rests, PullInv, PullTypes, PullOf
<1>6. ASSUME NEW c \in Callers, CallStep(c) PROVE PullInv'
  BY <1>6, CallStepPull
<1>7. CASE OtherBegins
  BY <1>7, RestingStep, StayingGrows DEF OtherBegins, Rests, PullInv, PullTypes, PullOf
<1>8. CASE OtherEnds
  <2>1. Grows
    <3>1. CASE UNCHANGED helm
      BY <3>1, StayingGrows
    <3>2. CASE added' = TRUE /\ index' = remote /\ UNCHANGED remote
      BY <3>2 DEF Grows, PullInv, PullTypes
    <3> QED
      BY <1>8, <3>1, <3>2 DEF OtherEnds
  <2> QED
    BY <1>8, <2>1, RestingStep DEF OtherEnds, Rests, PullInv, PullTypes, PullOf
<1>9. CASE Tick
  BY <1>9, RestingStep, StayingGrows DEF Tick, Rests, PullInv, PullTypes, PullOf
<1>10. CASE Publish
  <2>1. Grows
    BY <1>10 DEF Publish, Grows, PullInv, PullTypes
  <2> QED
    BY <1>10, <2>1, RestingStep DEF Publish, Rests, PullInv, PullTypes, PullOf
<1>11. CASE UNCHANGED allVars
  BY <1>11, <1>1 DEF allVars
<1> QED
  BY <1>2, <1>3, <1>4, <1>5, <1>6, <1>7, <1>8, <1>9, <1>10, <1>11 DEF CreateNext

(* What an attempt to pull has done by each of its steps, for every number *)
(* of callers, of versions and of retries.                                 *)
THEOREM PullInvariant == CreateSpec => []PullInv
  BY InitPull, NextPull, PTL DEF CreateSpec

(* A chart that VendorRepo or PullRepo returns is the version that was     *)
(* asked for, and a newest one is no older than the last attempt, whatever *)
(* was killed before it.                                                   *)
THEOREM PulledAsAskedHolds == CreateSpec => []PulledAsAsked
<1>1. PullInv => PulledAsAsked
  BY DEF PullInv, PullOf, Pulls, Pulled, Fresh, Wanted, PulledAsAsked
<1> QED
  BY <1>1, PullInvariant, PTL

----------------------------------------------------------------------------
(* The runs of create-component.                                           *)
Whole(c, files) == \A f \in files : out[c][f] = <<wanted[c], wanted[c]>>

(* What a run knows at each stage: the chart it vendored is the one it was *)
(* asked for, its values are that chart's, and the files it has written    *)
(* are made from both.                                                     *)
RunOf(c) ==
    /\ stage[c] \in {"vendor", "readValues"} =>
          req[c] = VendorRequest(c) /\ ValidVersion(wanted[c])
    /\ stage[c] = "readValues" => pc[c] = "done" /\ outcome[c] = "ok"
    /\ stage[c] \in {"mkdir", "render", "save", "copyValues", "ok"} =>
          values[c] = wanted[c]
    /\ stage[c] = "render" /\ ~failed[c] => Whole(c, Templates \ pending[c])
    /\ stage[c] \in {"save", "copyValues", "ok"} => Whole(c, Templates)
    /\ stage[c] \in {"copyValues", "ok"} => Whole(c, {"chart.defaults.yaml"})
    /\ stage[c] = "ok" => Whole(c, {"values.yaml"})

RunTypes ==
    /\ stage = [c \in Callers |-> stage[c]]
    /\ wanted = [c \in Callers |-> wanted[c]]
    /\ values = [c \in Callers |-> values[c]]
    /\ failed = [c \in Callers |-> failed[c]]
    /\ pending \in [Callers -> SUBSET Templates]
    /\ out = [c \in Callers |-> [f \in Files |-> out[c][f]]]

RunInv == RunTypes /\ \A c \in Callers : RunOf(c)

LEMMA InitRun == CreateInit => RunInv
<1> SUFFICES ASSUME CreateInit PROVE RunInv
  OBVIOUS
<1>1. RunTypes
  BY DEF CreateInit, RunTypes
<1>2. ASSUME NEW c \in Callers PROVE RunOf(c)
  BY DEF CreateInit, RunOf
<1> QED
  BY <1>1, <1>2 DEF RunInv

(* Its own call is all that a run knows of the client, and a call that has *)
(* returned stays as it is.                                                *)
Steady(c) ==
    /\ req'[c] = req[c]
    /\ pc[c] = "done" => pc'[c] = "done" /\ outcome'[c] = outcome[c]

LEMMA ClientStepRun ==
    ASSUME RunInv, UNCHANGED creation,
           \A d \in Callers : stage[d] # "start" => Steady(d)
    PROVE  RunInv'
<1>1. RunTypes'
  BY DEF RunInv, RunTypes, creation
<1>2. ASSUME NEW d \in Callers PROVE RunOf(d)'
  <2>1. /\ stage' = stage /\ wanted' = wanted /\ values' = values
        /\ pending' = pending /\ failed' = failed /\ out' = out
    BY DEF creation
  <2>2. \A files : Whole(d, files)' <=> Whole(d, files)
    BY <2>1 DEF Whole
  <2>3. VendorRequest(d)' = VendorRequest(d)
    BY <2>1 DEF VendorRequest
  <2>4. RunOf(d)
    BY DEF RunInv
  <2> QED
    BY <2>1, <2>2, <2>3, <2>4 DEF RunOf, Steady, ValidVersion
<1> QED
  BY <1>1, <1>2 DEF RunInv

LEMMA CallStepSteady ==
    ASSUME PullInv, NEW c \in Callers, CallStep(c), NEW d \in Callers
    PROVE  Steady(d)
<1>1. req' = req
  BY DEF CallStep, LocalStep, HaveVersion, LocalStepFails, BeginCommand,
         CommandEnds, CommandFails, Succeed, WaitForTick, ReturnError, TakeTick,
         GiveUp
<1>2. pc[c] # "done"
  BY DEF CallStep, LocalStep, HaveVersion, LocalStepFails, BeginCommand,
         CommandEnds, CommandFails, Succeed, WaitForTick, ReturnError, TakeTick,
         GiveUp, AtStep
<1>3. CASE d = c
  BY <1>1, <1>2, <1>3 DEF Steady
<1>4. CASE d # c
  <2>1. pc'[d] = pc[d]
    BY <1>4 DEF CallStep, LocalStep, HaveVersion, LocalStepFails, BeginCommand,
         CommandEnds, CommandFails, Succeed, WaitForTick, ReturnError, TakeTick,
         GiveUp, Goto, Return, StartAttempt, PullInv, PullTypes
  <2>2. outcome'[d] = outcome[d]
    BY <1>4 DEF CallStep, LocalStep, HaveVersion, LocalStepFails, BeginCommand,
         CommandEnds, CommandFails, Succeed, WaitForTick, ReturnError, TakeTick,
         GiveUp, Return, PullInv, PullTypes
  <2> QED
    BY <1>1, <2>1, <2>2 DEF Steady
<1> QED
  BY <1>3, <1>4

(* A step of one run: the others go on as they are.                        *)
Elsewhere(d) ==
    /\ stage'[d] = stage[d] /\ wanted'[d] = wanted[d]
    /\ values'[d] = values[d] /\ pending'[d] = pending[d]
    /\ failed'[d] = failed[d] /\ out'[d] = out[d]
    /\ req'[d] = req[d] /\ pc'[d] = pc[d] /\ outcome'[d] = outcome[d]

LEMMA ElsewhereRun ==
    ASSUME NEW d \in Callers, RunOf(d), Elsewhere(d)
    PROVE  RunOf(d)'
<1>1. \A files : Whole(d, files)' <=> Whole(d, files)
  BY DEF Whole, Elsewhere
<1>2. VendorRequest(d)' = VendorRequest(d)
  BY DEF VendorRequest, Elsewhere
<1> QED
  BY <1>1, <1>2 DEF RunOf, Elsewhere, ValidVersion

LEMMA PutFacts ==
    ASSUME RunTypes, NEW c \in Callers, NEW file \in Files, NEW content,
           Put(c, file, content)
    PROVE  /\ out' = [d \in Callers |-> [f \in Files |-> out'[d][f]]]
           /\ \A d \in Callers : d # c => out'[d] = out[d]
           /\ \A f \in Files : out'[c][f] = IF f = file THEN content ELSE out[c][f]
<1> DEFINE o == out[c] n == [o EXCEPT ![file] = content]
<1>1. out = [d \in Callers |-> out[d]] /\ o = [f \in Files |-> o[f]]
  BY DEF RunTypes
<1>2. out' = [out EXCEPT ![c] = n]
  BY DEF Put
<1>3. n = [f \in Files |-> IF f = file THEN content ELSE o[f]]
  BY <1>1
<1> HIDE DEF n, o
<1>4. out'[c] = n /\ \A d \in Callers : d # c => out'[d] = out[d]
  BY <1>1, <1>2
<1>5. ASSUME NEW d \in Callers PROVE out'[d] = [f \in Files |-> out'[d][f]]
  <2>1. out[d] = [f \in Files |-> out[d][f]]
    BY DEF RunTypes
  <2> QED
    BY <1>3, <1>4, <2>1
<1>6. out' = [d \in Callers |-> out'[d]]
  BY <1>1, <1>2
<1>7. out' = [d \in Callers |-> [f \in Files |-> out'[d][f]]]
  BY <1>5, <1>6
<1> QED
  BY <1>3, <1>4, <1>7 DEF o

(* The chart a run has vendored is the version it wants.                   *)
LEMMA VendoredIsWanted ==
    ASSUME PullInv, RunInv, NEW c \in Callers, stage[c] = "readValues"
    PROVE  chart[c] = wanted[c]
<1>1. /\ req[c] = VendorRequest(c) /\ wanted[c] # Latest
      /\ outcome[c] = "ok"
  BY DEF RunInv, RunOf, ValidVersion
<1>2. /\ req[c].method = "VendorRepo" /\ req[c].named /\ req[c].version = wanted[c]
  BY <1>1 DEF VendorRequest
<1>3. Pulled(c)
  BY <1>1, <1>2 DEF PullInv, PullOf, Pulls
<1> QED
  BY <1>1, <1>2, <1>3 DEF Pulled, Wanted

LEMMA RunStepRun ==
    ASSUME PullInv, RunInv, NEW c \in Callers, RunStep(c)
    PROVE  /\ RunInv'
           /\ \A d \in Callers : out'[d] # out[d] => values[d] = wanted[d]
<1> USE DEF Enter
<1>1. RunTypes /\ RunOf(c)
  BY DEF RunInv
<1>2. ASSUME RunTypes', RunOf(c)', \A d \in Callers : d # c => Elsewhere(d)
      PROVE  RunInv'
  BY <1>2, ElsewhereRun DEF RunInv
<1>3. CASE Refuse(c)
  <2>1. RunTypes' /\ \A d \in Callers : d # c => Elsewhere(d)
    BY <1>1, <1>3 DEF Refuse, RunTypes, Elsewhere, vars
  <2>2. RunOf(c)'
    BY <1>1, <1>3 DEF Refuse, RunTypes, RunOf
  <2> QED
    BY <1>2, <1>3, <2>1, <2>2 DEF Refuse
<1>4. CASE VendorChart(c)
  <2>1. RunTypes' /\ \A d \in Callers : d # c => Elsewhere(d)
    BY <1>1, <1>4 DEF VendorChart, Call, StartAttempt, Goto, RunTypes, Elsewhere,
                      PullInv, PullTypes
  <2>2. RunOf(c)'
    BY <1>1, <1>4 DEF VendorChart, Call, RunTypes, RunOf, PullInv, PullTypes,
                      VendorRequest, ValidVersion
  <2> QED
    BY <1>2, <1>4, <2>1, <2>2 DEF VendorChart
<1>5. CASE VendorEnds(c)
  <2>1. RunTypes' /\ \A d \in Callers : d # c => Elsewhere(d)
    BY <1>1, <1>5 DEF VendorEnds, RunTypes, Elsewhere, vars
  <2>2. RunOf(c)'
    BY <1>1, <1>5 DEF VendorEnds, RunTypes, RunOf, VendorRequest, ValidVersion, vars
  <2> QED
    BY <1>2, <1>5, <2>1, <2>2 DEF VendorEnds
<1>6. CASE ReadValues(c)
  <2>1. RunTypes' /\ \A d \in Callers : d # c => Elsewhere(d)
    BY <1>1, <1>6 DEF ReadValues, RunTypes, Elsewhere, vars
  <2>2. values'[c] = wanted'[c] /\ stage'[c] = "mkdir"
    BY <1>1, <1>6, VendoredIsWanted DEF ReadValues, RunTypes
  <2>3. RunOf(c)'
    BY <2>2 DEF RunOf
  <2> QED
    BY <1>2, <1>6, <2>1, <2>3 DEF ReadValues
<1>7. CASE StepFails(c)
  <2>1. RunTypes' /\ \A d \in Callers : d # c => Elsewhere(d)
    BY <1>1, <1>7 DEF StepFails, RunTypes, Elsewhere, vars
  <2>2. RunOf(c)'
    BY <1>1, <1>7 DEF StepFails, RunTypes, RunOf
  <2> QED
    BY <1>2, <1>7, <2>1, <2>2 DEF StepFails
<1>8. CASE Mkdir(c)
  <2>1. RunTypes' /\ \A d \in Callers : d # c => Elsewhere(d)
    BY <1>1, <1>8 DEF Mkdir, RunTypes, Elsewhere, vars
  <2>2. /\ stage[c] = "mkdir" /\ stage'[c] = "render"
        /\ Templates \ pending'[c] = {}
        /\ values' = values /\ wanted' = wanted
    BY <1>1, <1>8 DEF Mkdir, RunTypes
  <2>3. RunOf(c)'
    BY <1>1, <2>2 DEF RunOf, Whole
  <2> QED
    BY <1>2, <1>8, <2>1, <2>3 DEF Mkdir
<1>9. CASE Render(c)
  <2>1. PICK t \in pending[c] :
            /\ pending' = [pending EXCEPT ![c] = @ \ {t}]
            /\ Put(c, t, Content(c))
    BY <1>9 DEF Render
  <2>2. t \in Files
    BY <1>1, <2>1 DEF RunTypes, Files
  <2>3. /\ out' = [d \in Callers |-> [f \in Files |-> out'[d][f]]]
        /\ \A d \in Callers : d # c => out'[d] = out[d]
        /\ \A f \in Files : out'[c][f] = IF f = t THEN Content(c) ELSE out[c][f]
    BY <1>1, <2>1, <2>2, PutFacts
  <2>4. RunTypes' /\ \A d \in Callers : d # c => Elsewhere(d)
    BY <1>1, <1>9, <2>1, <2>3 DEF Render, RunTypes, Elsewhere, vars
  <2>5. /\ stage[c] = "render" /\ stage' = stage /\ values' = values
        /\ wanted' = wanted /\ failed' = failed /\ pending'[c] = pending[c] \ {t}
    BY <1>1, <1>9, <2>1 DEF Render, RunTypes
  <2>6. values[c] = wanted[c]
    BY <1>1, <2>5 DEF RunOf
  <2>7. ASSUME ~failed'[c] PROVE Whole(c, Templates \ pending[c])'
    BY <1>1, <2>3, <2>5, <2>6, <2>7 DEF RunOf, Whole, Content, Files
  <2>8. RunOf(c)'
    BY <2>5, <2>6, <2>7 DEF RunOf
  <2> QED
    BY <1>2, <2>3, <2>4, <2>6, <2>8
<1>10. CASE RenderFails(c)
  <2>1. PICK t \in pending[c] :
            /\ pending' = [pending EXCEPT ![c] = @ \ {t}]
            /\ UNCHANGED out \/ Put(c, t, Torn)
    BY <1>10 DEF RenderFails
  <2>2. t \in Files
    BY <1>1, <2>1 DEF RunTypes, Files
  <2>3. /\ out' = [d \in Callers |-> [f \in Files |-> out'[d][f]]]
        /\ \A d \in Callers : d # c => out'[d] = out[d]
    <3>1. CASE UNCHANGED out
      BY <1>1, <3>1 DEF RunTypes
    <3>2. CASE Put(c, t, Torn)
      BY <1>1, <2>2, <3>2, PutFacts
    <3> QED
      BY <2>1, <3>1, <3>2
  <2>4. RunTypes' /\ \A d \in Callers : d # c => Elsewhere(d)
    BY <1>1, <1>10, <2>1, <2>3 DEF RenderFails, RunTypes, Elsewhere, vars
  <2>5. /\ stage[c] = "render" /\ stage' = stage /\ values' = values
        /\ wanted' = wanted /\ failed'[c]
    BY <1>1, <1>10 DEF RenderFails, RunTypes
  <2>6. RunOf(c)' /\ values[c] = wanted[c]
    BY <1>1, <2>5 DEF RunOf
  <2> QED
    BY <1>2, <2>3, <2>4, <2>6
<1>11. CASE RenderEnds(c)
  <2>1. RunTypes' /\ \A d \in Callers : d # c => Elsewhere(d)
    BY <1>1, <1>11 DEF RenderEnds, RunTypes, Elsewhere, vars
  <2>2. /\ stage[c] = "render" /\ pending[c] = {}
        /\ stage'[c] = IF failed[c] THEN "error" ELSE "save"
        /\ values' = values /\ wanted' = wanted /\ out' = out
    BY <1>1, <1>11 DEF RenderEnds, RunTypes
  <2>3. RunOf(c)'
    BY <1>1, <2>2 DEF RunOf, Whole
  <2> QED
    BY <1>2, <2>1, <2>2, <2>3
<1>12. CASE Save(c)
  <2>1. "chart.defaults.yaml" \in Files /\ "chart.defaults.yaml" \notin Templates
    BY CreateComponentAssumption DEF Files, CreateComponentAssumption
  <2>2. /\ out' = [d \in Callers |-> [f \in Files |-> out'[d][f]]]
        /\ \A d \in Callers : d # c => out'[d] = out[d]
        /\ \A f \in Files : out'[c][f] = IF f = "chart.defaults.yaml"
                                          THEN Content(c) ELSE out[c][f]
    BY <1>1, <1>12, <2>1, PutFacts DEF Save
  <2>3. RunTypes' /\ \A d \in Callers : d # c => Elsewhere(d)
    BY <1>1, <1>12, <2>2 DEF Save, RunTypes, Elsewhere, vars
  <2>4. /\ stage[c] = "save" /\ stage'[c] = "copyValues"
        /\ values' = values /\ wanted' = wanted
    BY <1>1, <1>12 DEF Save, RunTypes
  <2>5. values[c] = wanted[c] /\ Whole(c, Templates)
    BY <1>1, <2>4 DEF RunOf
  <2>6. Whole(c, Templates)' /\ Whole(c, {"chart.defaults.yaml"})'
    BY <2>1, <2>2, <2>4, <2>5 DEF Whole, Content, Files
  <2>7. RunOf(c)'
    BY <2>4, <2>5, <2>6 DEF RunOf
  <2> QED
    BY <1>2, <2>2, <2>3, <2>5, <2>7
<1>13. CASE CopyValues(c)
  <2>1. /\ "values.yaml" \in Files /\ "chart.defaults.yaml" \in Files
        /\ "values.yaml" \notin Templates
    BY CreateComponentAssumption DEF Files, CreateComponentAssumption
  <2>2. /\ out' = [d \in Callers |-> [f \in Files |-> out'[d][f]]]
        /\ \A d \in Callers : d # c => out'[d] = out[d]
        /\ \A f \in Files : out'[c][f] = IF f = "values.yaml"
                                          THEN Content(c) ELSE out[c][f]
    BY <1>1, <1>13, <2>1, PutFacts DEF CopyValues
  <2>3. RunTypes' /\ \A d \in Callers : d # c => Elsewhere(d)
    BY <1>1, <1>13, <2>2 DEF CopyValues, RunTypes, Elsewhere, vars
  <2>4. /\ stage[c] = "copyValues" /\ stage'[c] = "ok"
        /\ values' = values /\ wanted' = wanted
    BY <1>1, <1>13 DEF CopyValues, RunTypes
  <2>5. /\ values[c] = wanted[c]
        /\ Whole(c, Templates) /\ Whole(c, {"chart.defaults.yaml"})
    BY <1>1, <2>4 DEF RunOf
  <2>6. /\ Whole(c, Templates)' /\ Whole(c, {"chart.defaults.yaml"})'
        /\ Whole(c, {"values.yaml"})'
    BY <2>1, <2>2, <2>4, <2>5 DEF Whole, Content, Files
  <2>7. RunOf(c)'
    BY <2>4, <2>5, <2>6 DEF RunOf
  <2> QED
    BY <1>2, <2>2, <2>3, <2>5, <2>7
<1>14. CASE WriteFails(c)
  <2> DEFINE file == IF stage[c] = "save" THEN "chart.defaults.yaml"
                                          ELSE "values.yaml"
  <2>1. file \in Files
    BY DEF Files
  <2>2. /\ out' = [d \in Callers |-> [f \in Files |-> out'[d][f]]]
        /\ \A d \in Callers : d # c => out'[d] = out[d]
    <3>1. CASE UNCHANGED out
      BY <1>1, <3>1 DEF RunTypes
    <3>2. CASE Put(c, file, Torn)
      BY <1>1, <2>1, <3>2, PutFacts
    <3> QED
      BY <1>14, <3>1, <3>2 DEF WriteFails
  <2>3. RunTypes' /\ \A d \in Callers : d # c => Elsewhere(d)
    BY <1>1, <1>14, <2>2 DEF WriteFails, RunTypes, Elsewhere, vars
  <2>4. stage[c] \in {"save", "copyValues"} /\ stage'[c] = "error"
    BY <1>1, <1>14 DEF WriteFails, RunTypes
  <2>5. RunOf(c)' /\ values[c] = wanted[c]
    BY <1>1, <2>4 DEF RunOf
  <2> QED
    BY <1>2, <2>2, <2>3, <2>5
<1> QED
  BY <1>3, <1>4, <1>5, <1>6, <1>7, <1>8, <1>9, <1>10, <1>11, <1>12, <1>13, <1>14
     DEF RunStep

LEMMA StartRun ==
    ASSUME RunInv, NEW c \in Callers, Start(c)
    PROVE  RunInv'
<1>1. RunTypes' /\ \A d \in Callers : d # c => Elsewhere(d)
  BY DEF Start, Enter, RunInv, RunTypes, Elsewhere, vars
<1>2. stage'[c] = "validate"
  BY DEF Start, Enter, RunInv, RunTypes
<1>3. RunOf(c)'
  BY <1>2 DEF RunOf
<1> QED
  BY <1>1, <1>3, ElsewhereRun DEF RunInv

LEMMA NextRun ==
    ASSUME PullInv, RunInv, [CreateNext]_allVars
    PROVE  /\ RunInv'
           /\ \A d \in Callers : out'[d] # out[d] => values[d] = wanted[d]
<1>1. ASSUME NEW c \in Callers, Start(c) PROVE RunInv' /\ out' = out
  BY <1>1, StartRun DEF Start
<1>2. ASSUME NEW c \in Callers, Use(c) PROVE RunInv' /\ out' = out
  <2>1. \A d \in Callers : stage[d] # "start" => Steady(d)
    BY <1>2 DEF Use, Call, StartAttempt, Goto, Steady, PullInv, PullTypes
  <2> QED
    BY <1>2, <2>1, ClientStepRun DEF Use, creation
<1>3. ASSUME NEW c \in Callers, Abandon(c) PROVE RunInv' /\ out' = out
  <2>1. \A d \in Callers : Steady(d)
    BY <1>3 DEF Abandon, Cancel, Steady
  <2> QED
    BY <1>3, <2>1, ClientStepRun DEF Abandon, creation
<1>4. ASSUME NEW c \in Callers, CallStep(c), UNCHANGED creation
      PROVE  RunInv' /\ out' = out
  BY <1>4, CallStepSteady, ClientStepRun DEF creation
<1>5. ASSUME OtherBegins \/ OtherEnds \/ Tick \/ Publish, UNCHANGED creation
      PROVE  RunInv' /\ out' = out
  <2>1. \A d \in Callers : Steady(d)
    BY <1>5 DEF OtherBegins, OtherEnds, Tick, Publish, Steady
  <2> QED
    BY <1>5, <2>1, ClientStepRun DEF creation
<1>6. ASSUME UNCHANGED allVars PROVE RunInv' /\ out' = out
  <2>1. \A d \in Callers : Steady(d)
    BY <1>6 DEF allVars, vars, Steady
  <2> QED
    BY <1>6, <2>1, ClientStepRun DEF allVars, creation
<1> QED
  BY <1>1, <1>2, <1>3, <1>4, <1>5, <1>6, RunStepRun DEF CreateNext

(* What a run knows at each of its stages, for every set of templates and  *)
(* every number of runs over one directory.                                *)
THEOREM RunInvariant == CreateSpec => [](PullInv /\ RunInv)
<1>1. PullInv /\ RunInv /\ [CreateNext]_allVars => RunInv'
  BY NextRun
<1> QED
  BY <1>1, InitRun, PullInvariant, PTL DEF CreateSpec

(* A run that succeeds leaves whole files of its own, and no run touches   *)
(* them before it has vendored its chart and read the values of it.        *)
THEOREM FilesFollowRunsHolds == CreateSpec => FilesFollowRuns
<1>1. RunInv => \A c \in Callers :
          stage[c] = "ok" => \A f \in Files : out[c][f] = <<wanted[c], wanted[c]>>
  BY DEF RunInv, RunOf, Whole, Files
<1>2. PullInv /\ RunInv /\ [CreateNext]_allVars =>
          [\A c \in Callers : out'[c] # out[c] => values[c] = wanted[c]]_allVars
  BY NextRun
<1> QED
  BY <1>1, <1>2, RunInvariant, PTL DEF CreateSpec, FilesFollowRuns
=============================================================================
