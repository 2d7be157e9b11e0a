------------------------------ MODULE Commands ------------------------------
(***************************************************************************)
(* What the master asks the workers for, from the start of the program to  *)
(* its end: the collective calls of the start-up, one broadcast per        *)
(* command, and at the end the timings and counters for the profile.       *)
(*                                                                         *)
(* Collective calls carry no names: the n-th call of every process on a    *)
(* communicator belongs to the same operation.  A broadcast returns to the *)
(* master at once and to a worker once the master has called it; a gather  *)
(* returns to a worker at once and to the master once all have called it.  *)
(* Barriers and MPI_Comm_split return to nobody before all have called.    *)
(*                                                                         *)
(* The master takes no decision that depends on an answer, so it is the    *)
(* sequence of its calls.  The packages of an iteration are module         *)
(* WorkLoop; here a worker counts events until it is told to end.          *)
(***************************************************************************)
EXTENDS Integers, Sequences, FiniteSets, Functions

CONSTANTS NWorkers,
          NSpecies,    \* columns of the field
          Setups,      \* options and number of time steps to consider
          MaxEvents    \* bound: events counted in a run

ASSUME CommandsAssumption ==
  /\ NWorkers \in Nat \ {0}
  /\ NSpecies \in Nat
  /\ MaxEvents \in Nat
  /\ Setups \subseteq [dht : BOOLEAN, interp : BOOLEAN, ai : BOOLEAN,
                       snaps : BOOLEAN, timesteps : Nat]

Worker == 1 .. NWorkers

\* The process with rank 0 in the communicator of the workers.
Root == 1

CHEM_FIELD_INIT        == 0
CHEM_WORK_LOOP         == 8
CHEM_PERF              == 9
CHEM_BREAK_MAIN_LOOP   == 10
CHEM_AI_BCAST_VALIDITY == 11

WORKER_PHREEQC        == 0
WORKER_DHT_GET        == 1
WORKER_DHT_FILL       == 2
WORKER_IDLE           == 3
WORKER_IP_WRITE       == 4
WORKER_IP_READ        == 5
WORKER_IP_GATHER      == 6
WORKER_IP_FC          == 7
WORKER_DHT_HITS       == 8
WORKER_DHT_EVICTIONS  == 9
WORKER_PHT_CACHE_HITS == 10
WORKER_IP_CALLS       == 11

Timings == WORKER_PHREEQC .. WORKER_IP_FC
Metrics == WORKER_DHT_HITS .. WORKER_IP_CALLS

VARIABLES setup,      \* the options
          program,    \* the calls of the master, as the options have them
          mpos,       \* the call the master is at
          wpc,        \* what a worker waits for or does
          at,         \* its next collective call with the master
          names,      \* species names it has still to read
          asked,      \* the type of timing or metric it was asked for
          resized,    \* whether it has made room for a validity vector
          validity,   \* the step its validity vector is of (0: none)
          iteration,  \* its count of iterations
          ended,      \* LOOP_END is on its way to it
          counter,    \* its counters of this iteration
          series,     \* its counters of the iterations before
          reduce,     \* its contributions to reductions under way
          mail,       \* sums sent to the master
          result,     \* what the master has got for each metric
          happened    \* history: the events of all workers by iteration

vars == <<setup, program, mpos, wpc, at, names, asked, resized, validity,
          iteration, ended, counter, series, reduce, mail, result, happened>>
----------------------------------------------------------------------------
(* The master                                                              *)

Call(op, what, value) == <<[op |-> op, what |-> what, value |-> value]>>
Bcast(what, value)    == Call("bcast", what, value)
When(condition, calls) == IF condition THEN calls ELSE <<>>

\* Blocks of the same length, one behind the other.
Blocks(number, length, Block(_)) ==
  [p \in 1 .. number * length |->
     Block(((p - 1) \div length) + 1)[((p - 1) % length) + 1]]

\* Mutant: one name less is sent than announced.
SpeciesNamesOneLess ==
  Bcast("n_elements", NSpecies + 1)
    \o Blocks(NSpecies, 2, LAMBDA n : Bcast("size", 1) \o Bcast("name", 1))

\* getSpeciesNames: the size of each name, then the name.
SpeciesNames ==
  Bcast("n_elements", NSpecies)
    \o Blocks(NSpecies, 2, LAMBDA n : Bcast("size", 1) \o Bcast("name", 1))

\* Up to masterSetField.
StartUp(s) ==
  Call("barrier", "barrier", 0)
    \o SpeciesNames
    \o Bcast("base_totals", 0)
    \o Bcast("has_id", 0)
    \o When(s.dht \/ s.interp, Call("split", "split", 0))
    \o Bcast("command", CHEM_FIELD_INIT)
    \o Bcast("prop_count", NSpecies)

\* Mutant: the validity vector of the first step is sent again.
IterationAIOnce(s, n) ==
  When(s.ai, Bcast("command", CHEM_AI_BCAST_VALIDITY) \o Bcast("validity", 1))
    \o Bcast("command", CHEM_WORK_LOOP)
    \o Call("barrier", "barrier", 0)
    \o Call("loop", "loop", n)

\* MasterRunParallel in step n.
Iteration(s, n) ==
  When(s.ai, Bcast("command", CHEM_AI_BCAST_VALIDITY) \o Bcast("validity", n))
    \o Bcast("command", CHEM_WORK_LOOP)
    \o Call("barrier", "barrier", 0)
    \o Call("loop", "loop", n)

Perf(type) == Bcast("command", CHEM_PERF) \o Bcast("type", type)

\* The getters: MasterGatherWorkerTimings, or a message from one worker.
Timing(type) == Perf(type) \o Call("gather", "gather", type)
Metric(type) == Perf(type) \o Call("probe", "probe", type)

\* Mutant: the counters of the interpolation are asked for with the DHT alone.
ProfilingDHT(s) ==
  Timing(WORKER_IDLE) \o Timing(WORKER_PHREEQC)
    \o When(s.dht, Metric(WORKER_DHT_HITS) \o Metric(WORKER_PHT_CACHE_HITS))

\* The profile after the last step.
Profiling(s) ==
  Timing(WORKER_IDLE)
    \o Timing(WORKER_PHREEQC)
    \o When(s.dht,
            Metric(WORKER_DHT_HITS) \o Metric(WORKER_DHT_EVICTIONS)
              \o Timing(WORKER_DHT_GET) \o Timing(WORKER_DHT_FILL))
    \o When(s.interp,
            Timing(WORKER_IP_WRITE) \o Timing(WORKER_IP_READ)
              \o Timing(WORKER_IP_GATHER) \o Timing(WORKER_IP_FC)
              \o Metric(WORKER_IP_CALLS) \o Metric(WORKER_PHT_CACHE_HITS))

\* Mutant: the workers are not told to leave WorkerLoop.
NoLoopBreak == <<>>

MasterLoopBreak == Bcast("command", CHEM_BREAK_MAIN_LOOP)

\* The calls of all steps; those of a step are as many in each of them.
Iterations(s) ==
  Blocks(s.timesteps, Len(Iteration(s, 1)), LAMBDA n : Iteration(s, n))

Program(s) == StartUp(s) \o Iterations(s) \o Profiling(s) \o MasterLoopBreak

Collective(call) == call.op \in {"bcast", "barrier", "split", "gather"}

\* The collective call that follows position p of the program.
CollectiveAfter(p) ==
  IF p < Len(program) /\ ~Collective(program[p + 1]) THEN p + 2 ELSE p + 1

Running == mpos <= Len(program)
Current == program[mpos]
----------------------------------------------------------------------------
Init ==
  /\ setup \in Setups
  /\ program = Program(setup)
  /\ mpos = 1
  /\ wpc = [w \in Worker |-> "barrier"]
  /\ at = [w \in Worker |-> 1]
  /\ names = [w \in Worker |-> 0]
  /\ asked = [w \in Worker |-> 0]
  /\ resized = [w \in Worker |-> FALSE]
  /\ validity = [w \in Worker |-> 0]
  /\ iteration = [w \in Worker |-> 0]
  /\ ended = [w \in Worker |-> FALSE]
  /\ counter = [w \in Worker |-> [t \in Metrics |-> 0]]
  /\ series = [w \in Worker |-> [t \in Metrics |-> <<>>]]
  /\ reduce = [w \in Worker |-> <<>>]
  /\ mail = <<>>
  /\ result = [t \in {} |-> <<>>]
  /\ happened = [t \in Metrics |-> [n \in 1 .. setup.timesteps |-> 0]]

MasterBcast ==
  /\ Running
  /\ Current.op = "bcast"
  /\ mpos' = mpos + 1
  /\ UNCHANGED <<setup, program, wpc, at, names, asked, resized, validity,
                 iteration, ended, counter, series, reduce, mail, result,
                 happened>>

\* MPI_Gather returns to the master.
MasterGather ==
  /\ Running
  /\ Current.op = "gather"
  /\ \A w \in Worker : at[w] > mpos
  /\ mpos' = mpos + 1
  /\ UNCHANGED <<setup, program, wpc, at, names, asked, resized, validity,
                 iteration, ended, counter, series, reduce, mail, result,
                 happened>>

\* All results are in; LOOP_END goes to all workers.
MasterLoop ==
  /\ Running
  /\ Current.op = "loop"
  /\ ended' = [w \in Worker |-> TRUE]
  /\ mpos' = mpos + 1
  /\ UNCHANGED <<setup, program, wpc, at, names, asked, resized, validity,
                 iteration, counter, series, reduce, mail, result, happened>>

\* MPI_Probe with the tag of the metric finds a message, MPI_Recv takes it.
MasterProbe ==
  /\ Running
  /\ Current.op = "probe"
  /\ mail # <<>>
  /\ Head(mail).tag = Current.value
  /\ result' = [t \in DOMAIN result \cup {Current.value} |->
                  IF t = Current.value THEN Head(mail).sums ELSE result[t]]
  /\ mail' = Tail(mail)
  /\ mpos' = mpos + 1
  /\ UNCHANGED <<setup, program, wpc, at, names, asked, resized, validity,
                 iteration, ended, counter, series, reduce, happened>>

\* A barrier of master and workers.  The one of an iteration leads into the
\* loop, the one of the start-up to the species names.
Barrier ==
  /\ Running
  /\ Current.op = "barrier"
  /\ \A w \in Worker : wpc[w] = "barrier"
  /\ mpos' = mpos + 1
  /\ at' = [w \in Worker |-> CollectiveAfter(at[w])]
  /\ wpc' = [w \in Worker |-> IF at[w] = 1 THEN "n_elements" ELSE "loop"]
  /\ iteration' = [w \in Worker |-> IF at[w] = 1 THEN 0 ELSE iteration[w] + 1]
  /\ UNCHANGED <<setup, program, names, asked, resized, validity, ended,
                 counter, series, reduce, mail, result, happened>>

\* initializeDHT
Split ==
  /\ Running
  /\ Current.op = "split"
  /\ \A w \in Worker : wpc[w] = "split"
  /\ mpos' = mpos + 1
  /\ at' = [w \in Worker |-> CollectiveAfter(at[w])]
  /\ wpc' = [w \in Worker |-> "command"]
  /\ UNCHANGED <<setup, program, names, asked, resized, validity, iteration,
                 ended, counter, series, reduce, mail, result, happened>>
----------------------------------------------------------------------------
(* The workers                                                             *)

\* The value of the next broadcast to worker w.
Value(w) == program[at[w]].value

\* Worker w gets that value and takes it for "what".
Receives(w, what) ==
  /\ wpc[w] = what
  /\ at[w] < mpos
  /\ at' = [at EXCEPT ![w] = CollectiveAfter(@)]

GoesTo(w, pc) == wpc' = [wpc EXCEPT ![w] = pc]

\* The start-up of a worker, with as many names as it was told.
ReadStartUp(w) ==
  /\ \/ /\ Receives(w, "n_elements")
        /\ names' = [names EXCEPT ![w] = Value(w)]
        /\ GoesTo(w, IF Value(w) = 0 THEN "base_totals" ELSE "size")
     \/ /\ Receives(w, "size")
        /\ GoesTo(w, "name")
        /\ UNCHANGED names
     \/ /\ Receives(w, "name")
        /\ names' = [names EXCEPT ![w] = @ - 1]
        /\ GoesTo(w, IF names[w] = 1 THEN "base_totals" ELSE "size")
     \/ /\ Receives(w, "base_totals")
        /\ GoesTo(w, "has_id")
        /\ UNCHANGED names
     \/ /\ Receives(w, "has_id")
        /\ GoesTo(w, IF setup.dht \/ setup.interp THEN "split" ELSE "command")
        /\ UNCHANGED names
  /\ UNCHANGED <<setup, program, mpos, asked, resized, validity, iteration,
                 ended, counter, series, reduce, mail, result, happened>>

\* What a worker does for a command, which throws for an unknown tag.
Handler(command) ==
  CASE command = CHEM_FIELD_INIT        -> "prop_count"
    [] command = CHEM_AI_BCAST_VALIDITY -> "validity"
    [] command = CHEM_WORK_LOOP         -> "barrier"
    [] command = CHEM_PERF              -> "type"
    [] command = CHEM_BREAK_MAIN_LOOP   -> "postsim"
    [] OTHER                            -> "error"

\* The head of WorkerLoop.
ReadCommand(w) ==
  /\ Receives(w, "command")
  /\ GoesTo(w, Handler(Value(w)))
  /\ UNCHANGED <<setup, program, mpos, names, asked, resized, validity,
                 iteration, ended, counter, series, reduce, mail, result,
                 happened>>

FieldInit(w) ==
  /\ Receives(w, "prop_count")
  /\ resized' = [resized EXCEPT ![w] = setup.ai]
  /\ GoesTo(w, "command")
  /\ UNCHANGED <<setup, program, mpos, names, asked, validity, iteration,
                 ended, counter, series, reduce, mail, result, happened>>

ReadValidity(w) ==
  /\ Receives(w, "validity")
  /\ validity' = [validity EXCEPT ![w] = Value(w)]
  /\ GoesTo(w, "command")
  /\ UNCHANGED <<setup, program, mpos, names, asked, resized, iteration,
                 ended, counter, series, reduce, mail, result, happened>>

\* What can be counted with the surrogates in use.
Countable ==
  {t \in Metrics : \/ t = WORKER_DHT_HITS /\ setup.dht
                   \/ t = WORKER_DHT_EVICTIONS /\ (setup.dht \/ setup.interp)
                   \/ /\ t \in {WORKER_IP_CALLS, WORKER_PHT_CACHE_HITS}
                      /\ setup.interp}

\* Events counted so far, over all workers.
EventsSoFar ==
  SumFunction([x \in Metrics \X (1 .. setup.timesteps) |->
                 happened[x[1]][x[2]]])

\* A worker counts an event, in a package or, an eviction, after its results
\* have been sent.
Count(w, t) ==
  /\ wpc[w] = "loop"
  /\ t \in Countable
  /\ t # WORKER_DHT_EVICTIONS => ~ended[w]
  /\ EventsSoFar < MaxEvents
  /\ counter' = [counter EXCEPT ![w][t] = @ + 1]
  /\ happened' = [happened EXCEPT ![t][iteration[w]] = @ + 1]
  /\ UNCHANGED <<setup, program, mpos, wpc, at, names, asked, resized,
                 validity, iteration, ended, series, reduce, mail, result>>

\* LOOP_END is received.
EndLoop(w) ==
  /\ wpc[w] = "loop"
  /\ ended[w]
  /\ ended' = [ended EXCEPT ![w] = FALSE]
  /\ GoesTo(w, "post")
  /\ UNCHANGED <<setup, program, mpos, at, names, asked, resized, validity,
                 iteration, counter, series, reduce, mail, result, happened>>

\* The counters that an iteration's end appends to its series.
Stored ==
  (IF setup.dht THEN {WORKER_DHT_HITS, WORKER_DHT_EVICTIONS} ELSE {})
    \cup (IF setup.interp THEN {WORKER_IP_CALLS, WORKER_PHT_CACHE_HITS} ELSE {})

\* Mutant: the counters run on.
CounterRunsOn(w, t) == counter[w][t]

\* A counter after the end of an iteration.
Reset(w, t) == IF t \in Stored THEN 0 ELSE counter[w][t]

\* WorkerPostIter of the workers W.
PostIter(W) ==
  /\ \A w \in W : wpc[w] = "post"
  /\ series' = [w \in Worker |-> [t \in Metrics |->
                  IF w \in W /\ t \in Stored
                  THEN Append(series[w][t], counter[w][t])
                  ELSE series[w][t]]]
  /\ counter' = [w \in Worker |-> [t \in Metrics |->
                   IF w \in W THEN Reset(w, t) ELSE counter[w][t]]]
  /\ wpc' = [w \in Worker |-> IF w \in W THEN "command" ELSE wpc[w]]
  /\ UNCHANGED <<setup, program, mpos, at, names, asked, resized, validity,
                 iteration, ended, reduce, mail, result, happened>>

\* Statistics, dumps and the factor of the proximity table are collective calls
\* of the workers.
IterationEnd ==
  IF setup.interp \/ (setup.dht /\ setup.snaps)
  THEN PostIter(Worker)
  ELSE \E w \in Worker : PostIter({w})

\* Mutant: the counters of hits are taken for a timing.
IsTimingOrHits(type) == type <= WORKER_DHT_HITS

IsTiming(type) == type < WORKER_DHT_HITS

\* CHEM_PERF: which timing or metric.
ReadType(w) ==
  /\ Receives(w, "type")
  /\ asked' = [asked EXCEPT ![w] = Value(w)]
  /\ GoesTo(w, IF IsTiming(Value(w)) THEN "gather" ELSE "reduce")
  /\ UNCHANGED <<setup, program, mpos, names, resized, validity, iteration,
                 ended, counter, series, reduce, mail, result, happened>>

\* WorkerPerfToMaster throws for a type it does not know.
PerfToMaster(w) ==
  /\ wpc[w] = "gather"
  /\ IF asked[w] \in Timings
     THEN /\ at' = [at EXCEPT ![w] = CollectiveAfter(@)]
          /\ GoesTo(w, "command")
     ELSE /\ GoesTo(w, "error")
          /\ UNCHANGED at
  /\ UNCHANGED <<setup, program, mpos, names, asked, resized, validity,
                 iteration, ended, counter, series, reduce, mail, result,
                 happened>>

\* WorkerMetricsToMaster: MPI_Reduce returns at once to all but the root.
MetricsToMaster(w) ==
  /\ wpc[w] = "reduce"
  /\ reduce' = [reduce EXCEPT ![w] = Append(@, series[w][asked[w]])]
  /\ GoesTo(w, IF w = Root THEN "reduced" ELSE "command")
  /\ UNCHANGED <<setup, program, mpos, at, names, asked, resized, validity,
                 iteration, ended, counter, series, mail, result, happened>>

\* Entry n of the sum of all contributions.
SumOverWorkers(n) == SumFunction([w \in Worker |-> Head(reduce[w])[n]])

\* The root gets the sums and sends them.
SendSums ==
  /\ wpc[Root] = "reduced"
  /\ \A w \in Worker : reduce[w] # <<>>
  /\ mail' = Append(mail, [tag |-> asked[Root],
                           sums |-> [n \in DOMAIN Head(reduce[Root]) |->
                                       SumOverWorkers(n)]])
  /\ reduce' = [w \in Worker |-> Tail(reduce[w])]
  /\ GoesTo(Root, "send")
  /\ UNCHANGED <<setup, program, mpos, at, names, asked, resized, validity,
                 iteration, ended, counter, series, result, happened>>

\* MPI_Send returns, at the latest when the message has been received.
SumsSent ==
  /\ wpc[Root] = "send"
  /\ GoesTo(Root, "command")
  /\ UNCHANGED <<setup, program, mpos, at, names, asked, resized, validity,
                 iteration, ended, counter, series, reduce, mail, result,
                 happened>>

\* WorkerPostSim of the workers W, and the end of WorkerLoop.
PostSim(W) ==
  /\ \A w \in W : wpc[w] = "postsim"
  /\ wpc' = [w \in Worker |-> IF w \in W THEN "stopped" ELSE wpc[w]]
  /\ UNCHANGED <<setup, program, mpos, at, names, asked, resized, validity,
                 iteration, ended, counter, series, reduce, mail, result,
                 happened>>

\* The last dump is a collective call of the workers.
SimulationEnd ==
  IF (setup.dht \/ setup.interp) /\ setup.snaps
  THEN PostSim(Worker)
  ELSE \E w \in Worker : PostSim({w})

AllStopped == ~Running /\ \A w \in Worker : wpc[w] = "stopped"

Stopped == AllStopped /\ UNCHANGED vars

WorkerStep(w) ==
  \/ ReadStartUp(w) \/ ReadCommand(w) \/ FieldInit(w) \/ ReadValidity(w)
  \/ EndLoop(w) \/ ReadType(w) \/ PerfToMaster(w) \/ MetricsToMaster(w)

MasterStep == MasterBcast \/ MasterGather \/ MasterLoop \/ MasterProbe

Together == Barrier \/ Split \/ IterationEnd \/ SimulationEnd \/ SendSums

Next ==
  \/ MasterStep
  \/ \E w \in Worker : WorkerStep(w) \/ \E t \in Metrics : Count(w, t)
  \/ Together
  \/ SumsSent
  \/ Stopped

Spec == Init /\ [][Next]_vars

\* Processes run on, collective calls return once their condition is met, and
\* a send is only sure to return when it has been received.
FairSpec ==
  /\ Spec
  /\ WF_vars(MasterStep)
  /\ \A w \in Worker : WF_vars(WorkerStep(w))
  /\ WF_vars(Together)
  /\ WF_vars(SumsSent /\ mail = <<>>)
----------------------------------------------------------------------------
(* Properties                                                              *)

\* The values the variables can take.
TypeOK ==
  /\ setup \in Setups
  /\ mpos \in 1 .. Len(program) + 1
  /\ \A w \in Worker :
       /\ at[w] \in 1 .. Len(program) + 1
       /\ names[w] \in 0 .. NSpecies
       /\ asked[w] \in Timings \cup Metrics
       /\ iteration[w] \in 0 .. setup.timesteps
       /\ \A t \in Metrics : Len(series[w][t]) <= iteration[w]
       /\ Len(reduce[w]) <= 1
  /\ Len(mail) <= 1
  /\ DOMAIN result \subseteq Metrics

\* The collective calls a worker can be in.
CallsOfWorker ==
  {"barrier", "n_elements", "size", "name", "base_totals", "has_id", "split",
   "command", "prop_count", "validity", "type", "gather"}

\* Every worker is in the collective call that the master makes or has made at
\* the same place in its own series, for each combination of options: no value
\* is taken for another one, and no unknown tag is thrown.
CollectivesMatch ==
  \A w \in Worker :
    /\ wpc[w] # "error"
    /\ wpc[w] \in CallsOfWorker =>
         /\ at[w] <= Len(program)
         /\ program[at[w]].what = wpc[w]

\* What the master gets for a metric is, for each iteration, the number of
\* events of that iteration on all workers: evictions that a worker counts
\* after its results, and workers that are ahead of others, do not blur it.
MetricsExact ==
  \A t \in DOMAIN result : result[t] = happened[t]

\* A worker in the loop of a step has the predictions' validity of that step,
\* and room for it before it comes.
FreshValidity ==
  setup.ai => \A w \in Worker :
    /\ wpc[w] = "validity" => resized[w]
    /\ wpc[w] = "loop" => validity[w] = iteration[w]

\* No worker is asked for what it has not: the tables' communicator and the
\* proximity table exist with their options only.
AskedExists ==
  \A w \in Worker :
    /\ wpc[w] = "gather" /\ asked[w] \in WORKER_IP_WRITE .. WORKER_IP_FC =>
         setup.interp
    /\ wpc[w] = "reduce" => setup.dht \/ setup.interp
    /\ wpc[w] = "reduce" /\ asked[w] = WORKER_PHT_CACHE_HITS => setup.interp

\* Master and workers come to their end.
ProgramEnds == <>AllStopped
=============================================================================
