------------------------------ MODULE WorkLoop ------------------------------
(***************************************************************************)
(* The work loop of the chemistry module: MasterRunParallel on rank 0 and  *)
(* WorkerProcessPkgs on the workers.  In every iteration the master        *)
(* shuffles the field into a buffer, sends the buffer to free workers one  *)
(* package at a time, puts each result back where its package came from,   *)
(* and when all are in unshuffles the buffer and ends the iteration.       *)
(*                                                                         *)
(* The content of a cell is [cell, steps] as in SerialChemistry.  A worker *)
(* may take a result from the DHT or by interpolation instead of running   *)
(* Phreeqc; all three count as one step.                                   *)
(*                                                                         *)
(* MPI delivers the messages between two ranks in order.  A standard-mode  *)
(* MPI_Send may return as soon as the message is buffered, or only when    *)
(* the receiver has taken it; MPI_Iprobe may miss a message that is still  *)
(* under way.                                                              *)
(***************************************************************************)
EXTENDS Packages, Sequences

CONSTANTS NCells, WPSize,   \* n_cells and wp_size
          NWorkers,         \* comm_size - 1
          MaxIter,          \* iterations of the coupling loop
          Collective,       \* whether the workers end iterations together
          Tables,           \* dht_enabled or interp_enabled
          AISurrogate,      \* ai_surrogate_enabled
          Validities        \* the cells whose prediction may be accepted

ASSUME SizeAssumption ==
  /\ NCells \in Nat \ {0}
  /\ WPSize \in Nat \ {0}
  /\ NWorkers \in Nat \ {0}
  /\ MaxIter \in Nat

Cell == 0 .. NCells - 1

ASSUME ModeAssumption ==
  /\ Collective \subseteq BOOLEAN
  /\ Tables \in BOOLEAN
  /\ AISurrogate \in BOOLEAN
  /\ Validities \subseteq SUBSET Cell

Worker == 1 .. NWorkers

VARIABLES
  collective,     \* whether the workers meet in WorkerPostIter
  field,          \* chem_field
  valid,          \* the cells of ai_surrogate_validity_vector that are 1
  iteration,      \* iterations the master has completed
  (* locals of MasterRunParallel, MasterSendPkgs and MasterRecvPkgs *)
  mpc,            \* where the master is
  buffer,         \* mpi_buffer
  p,              \* the worker its loops are at
  count_pkgs, work_pointer, pkg_to_send, pkg_to_recv, free_workers,
  to_send,        \* the argument of MasterRecvPkgs
  has_work, send_addr,   \* worker_list
  (* the workers *)
  wpc,            \* where each worker is
  wp,             \* its work package
  witer,          \* its own count of iterations, from 1
  (* the messages under way *)
  toWorker, toMaster

masterVars == <<mpc, buffer, p, count_pkgs, work_pointer, pkg_to_send,
                pkg_to_recv, free_workers, to_send, has_work, send_addr>>
workerVars == <<collective, wpc, wp, witer>>
channels   == <<toWorker, toMaster>>
vars == <<collective, field, valid, iteration, mpc, buffer, p, count_pkgs,
          work_pointer, pkg_to_send, pkg_to_recv, free_workers, to_send, has_work,
          send_addr, wpc, wp, witer, toWorker, toMaster>>

n_packages == NPackages(NCells, WPSize)

Slot(c) == Position(NCells, n_packages, c)

Advance(content) == [content EXCEPT !.steps = @ + 1]

\* LOOP_WORK: the contents of a package and, in its header, wp_start_index.
Work(data, start) == [tag |-> "LOOP_WORK", data |-> data, start |-> start]
LoopEnd == [tag |-> "LOOP_END", data |-> <<>>, start |-> 0]

NoPackage == [data |-> <<>>, start |-> 0]

Init ==
  /\ collective \in Collective
  /\ field = [c \in Cell |-> [cell |-> c, steps |-> 0]]
  /\ valid = {}
  /\ iteration = 0
  /\ mpc = "ready"
  /\ buffer = field
  /\ p = 1
  /\ count_pkgs = 0
  /\ work_pointer = 0
  /\ pkg_to_send = 0
  /\ pkg_to_recv = 0
  /\ free_workers = NWorkers
  /\ to_send = FALSE
  /\ has_work = [w \in Worker |-> FALSE]
  /\ send_addr = [w \in Worker |-> 0]
  /\ wpc = [w \in Worker |-> "ready"]
  /\ wp = [w \in Worker |-> NoPackage]
  /\ witer = [w \in Worker |-> 1]
  /\ toWorker = [w \in Worker |-> <<>>]
  /\ toMaster = [w \in Worker |-> <<>>]
----------------------------------------------------------------------------
(* The master                                                              *)

\* With the AI surrogate the coupling loop first writes the predictions it
\* accepts into the field, and simulate broadcasts which they are.
Predict ==
  /\ mpc = "ready"
  /\ iteration < MaxIter
  /\ IF AISurrogate
     THEN \E v \in Validities :
            /\ valid' = v
            /\ field' = [c \in Cell |-> IF c \in v THEN Advance(field[c]) ELSE field[c]]
     ELSE UNCHANGED <<field, valid>>
  /\ mpc' = "barrier"
  /\ UNCHANGED <<iteration, buffer, p, count_pkgs, work_pointer, pkg_to_send,
                 pkg_to_recv, free_workers, to_send, has_work, send_addr,
                 workerVars, channels>>

\* CHEM_WORK_LOOP and the barrier behind it, which opens once all workers are
\* back from their last iteration; then shuffleField and a fresh worker_list.
StartLoop ==
  /\ mpc = "barrier"
  /\ \A w \in Worker : wpc[w] = "ready"
  /\ wpc' = [w \in Worker |-> "probe"]
  /\ buffer' = [q \in Cell |-> field[CHOOSE c \in Cell : Slot(c) = q]]
  /\ pkg_to_send' = n_packages
  /\ pkg_to_recv' = n_packages
  /\ count_pkgs' = 0
  /\ work_pointer' = 0
  /\ free_workers' = NWorkers
  /\ has_work' = [w \in Worker |-> FALSE]
  /\ send_addr' = [w \in Worker |-> 0]
  /\ p' = 1
  /\ mpc' = "send"
  /\ UNCHANGED <<collective, field, valid, iteration, to_send, wp, witer,
                 channels>>

\* Mutant: the worker list is not consulted.
AlwaysFree(w) == TRUE

\* w_list[p].has_work == 0
IsFree(w) == ~has_work[w]

\* MasterSendPkgs: worker p is free, it gets the next package.  The header is
\* computed after count_pkgs has been incremented.
SendPackage ==
  /\ mpc = "send"
  /\ p <= NWorkers
  /\ IsFree(p)
  /\ pkg_to_send > 0
  /\ LET size == PackageSize(NCells, n_packages, count_pkgs)
         data == [q \in 1 .. size |-> buffer[work_pointer + q - 1]]
         start == SizesBefore(NCells, n_packages, count_pkgs + 1)
     IN  /\ toWorker' = [toWorker EXCEPT ![p] = Append(@, Work(data, start))]
         /\ work_pointer' = work_pointer + size
  /\ count_pkgs' = count_pkgs + 1
  /\ send_addr' = [send_addr EXCEPT ![p] = work_pointer]
  /\ mpc' = "sending"
  /\ UNCHANGED <<field, valid, iteration, buffer, p, pkg_to_send, pkg_to_recv,
                 free_workers, to_send, has_work, workerVars, toMaster>>

\* Mutant: free_workers is not decremented.
PackageSentUncounted ==
  /\ mpc = "sending"
  /\ has_work' = [has_work EXCEPT ![p] = TRUE]
  /\ pkg_to_send' = pkg_to_send - 1
  /\ p' = p + 1
  /\ mpc' = "send"
  /\ UNCHANGED <<field, valid, iteration, buffer, count_pkgs, work_pointer,
                 pkg_to_recv, free_workers, to_send, send_addr, workerVars,
                 channels>>

\* The MPI_Send of a package returns.
PackageSent ==
  /\ mpc = "sending"
  /\ has_work' = [has_work EXCEPT ![p] = TRUE]
  /\ free_workers' = free_workers - 1
  /\ pkg_to_send' = pkg_to_send - 1
  /\ p' = p + 1
  /\ mpc' = "send"
  /\ UNCHANGED <<field, valid, iteration, buffer, count_pkgs, work_pointer,
                 pkg_to_recv, to_send, send_addr, workerVars, channels>>

SkipWorker ==
  /\ mpc = "send"
  /\ p <= NWorkers
  /\ ~IsFree(p) \/ pkg_to_send = 0
  /\ p' = p + 1
  /\ UNCHANGED <<field, valid, iteration, mpc, buffer, count_pkgs, work_pointer,
                 pkg_to_send, pkg_to_recv, free_workers, to_send, has_work,
                 send_addr, workerVars, channels>>

\* MasterSendPkgs returns and MasterRecvPkgs is called.
StartRecv ==
  /\ mpc = "send"
  /\ p = NWorkers + 1
  /\ to_send' = (pkg_to_send > 0)
  /\ mpc' = "recv"
  /\ UNCHANGED <<field, valid, iteration, buffer, p, count_pkgs, work_pointer,
                 pkg_to_send, pkg_to_recv, free_workers, has_work, send_addr,
                 workerVars, channels>>

\* Mutant: the loop ends when all packages have been sent.
AllSent == pkg_to_send = 0

\* The master's loop runs while pkg_to_recv > 0.
AllReceived == pkg_to_recv = 0

\* A result from worker w: it goes where the worker's package was cut out.
RecvResult(w) ==
  /\ mpc = "recv"
  /\ ~AllReceived
  /\ toMaster[w] # <<>>
  /\ LET data == Head(toMaster[w])
         a == send_addr[w]
     IN  buffer' = [q \in Cell |-> IF q \in a .. a + Len(data) - 1
                                   THEN data[q - a + 1] ELSE buffer[q]]
  /\ toMaster' = [toMaster EXCEPT ![w] = Tail(@)]
  /\ has_work' = [has_work EXCEPT ![w] = FALSE]
  /\ pkg_to_recv' = pkg_to_recv - 1
  /\ free_workers' = free_workers + 1
  /\ UNCHANGED <<field, valid, iteration, mpc, p, count_pkgs, work_pointer,
                 pkg_to_send, to_send, send_addr, workerVars, toWorker>>

\* MPI_Iprobe, used while there is a free worker and a package for it, finds
\* nothing: back to MasterSendPkgs.
ProbeFails ==
  /\ mpc = "recv"
  /\ ~AllReceived
  /\ to_send
  /\ free_workers > 0
  /\ mpc' = "send"
  /\ p' = 1
  /\ UNCHANGED <<field, valid, iteration, buffer, count_pkgs, work_pointer,
                 pkg_to_send, pkg_to_recv, free_workers, to_send, has_work,
                 send_addr, workerVars, channels>>

\* Mutant: unshuffleField is called with the package size.
UnshuffleBySize ==
  /\ mpc = "recv"
  /\ AllReceived
  /\ field' = [c \in Cell |-> buffer[Position(NCells, WPSize, c)]]
  /\ mpc' = "end"
  /\ p' = 1
  /\ UNCHANGED <<valid, iteration, buffer, count_pkgs, work_pointer, pkg_to_send,
                 pkg_to_recv, free_workers, to_send, has_work, send_addr,
                 workerVars, channels>>

\* Mutant: the loop that sends LOOP_END misses the first worker.
UnshuffleEndsFromTwo ==
  /\ mpc = "recv"
  /\ AllReceived
  /\ field' = [c \in Cell |-> buffer[Slot(c)]]
  /\ mpc' = "end"
  /\ p' = 2
  /\ UNCHANGED <<valid, iteration, buffer, count_pkgs, work_pointer, pkg_to_send,
                 pkg_to_recv, free_workers, to_send, has_work, send_addr,
                 workerVars, channels>>

\* All results are in: unshuffleField.
Unshuffle ==
  /\ mpc = "recv"
  /\ AllReceived
  /\ field' = [c \in Cell |-> buffer[Slot(c)]]
  /\ mpc' = "end"
  /\ p' = 1
  /\ UNCHANGED <<valid, iteration, buffer, count_pkgs, work_pointer, pkg_to_send,
                 pkg_to_recv, free_workers, to_send, has_work, send_addr,
                 workerVars, channels>>

SendEnd ==
  /\ mpc = "end"
  /\ p <= NWorkers
  /\ toWorker' = [toWorker EXCEPT ![p] = Append(@, LoopEnd)]
  /\ mpc' = "ending"
  /\ UNCHANGED <<field, valid, iteration, buffer, p, count_pkgs, work_pointer,
                 pkg_to_send, pkg_to_recv, free_workers, to_send, has_work,
                 send_addr, workerVars, toMaster>>

\* The MPI_Send of LOOP_END returns.
EndSent ==
  /\ mpc = "ending"
  /\ p' = p + 1
  /\ mpc' = "end"
  /\ UNCHANGED <<field, valid, iteration, buffer, count_pkgs, work_pointer,
                 pkg_to_send, pkg_to_recv, free_workers, to_send, has_work,
                 send_addr, workerVars, channels>>

\* simulate returns to the coupling loop.
Return ==
  /\ mpc = "end"
  /\ p = NWorkers + 1
  /\ iteration' = iteration + 1
  /\ mpc' = "ready"
  /\ UNCHANGED <<field, valid, buffer, p, count_pkgs, work_pointer, pkg_to_send,
                 pkg_to_recv, free_workers, to_send, has_work, send_addr,
                 workerVars, channels>>

\* MasterLoopBreak: the broadcast reaches the workers in WorkerLoop, and they
\* leave it through WorkerPostSim.
LoopBreak ==
  /\ mpc = "ready"
  /\ iteration = MaxIter
  /\ \A w \in Worker : wpc[w] = "ready"
  /\ mpc' = "stopped"
  /\ wpc' = [w \in Worker |-> "stopped"]
  /\ UNCHANGED <<field, valid, iteration, buffer, p, count_pkgs, work_pointer,
                 pkg_to_send, pkg_to_recv, free_workers, to_send, has_work,
                 send_addr, collective, wp, witer, channels>>

Stopped == mpc = "stopped" /\ UNCHANGED vars
----------------------------------------------------------------------------
(* A worker                                                                *)

\* WorkerDoWork receives the package and reads its header.
RecvWork(w) ==
  /\ wpc[w] = "probe"
  /\ toWorker[w] # <<>>
  /\ LET msg == Head(toWorker[w])
     IN  /\ msg.tag = "LOOP_WORK"
         /\ wp' = [wp EXCEPT ![w] = [data |-> msg.data, start |-> msg.start]]
  /\ toWorker' = [toWorker EXCEPT ![w] = Tail(@)]
  /\ wpc' = [wpc EXCEPT ![w] = "work"]
  /\ UNCHANGED <<collective, field, valid, iteration, masterVars, witer,
                 toMaster>>

\* ai_surrogate_validity_vector[index], shuffled like the field.  Behind the
\* end of the vector the read is undefined.
Accepted(index) ==
  IF ~AISurrogate THEN {FALSE}
  ELSE IF index < NCells THEN {\E c \in valid : Slot(c) = index}
  ELSE BOOLEAN

\* Whether the input of a cell is also its output: there is an accepted
\* prediction, and no table had a result, which is copied over the prediction.
PredictionStays(index) ==
  IF Tables /\ TRUE \in Accepted(index) THEN BOOLEAN ELSE Accepted(index)

\* The outputs of a package: every cell without a prediction that stays is a
\* step further.
Outputs(package) ==
  {[q \in 1 .. Len(package.data) |->
      IF stays[q] THEN package.data[q] ELSE Advance(package.data[q])] :
     stays \in {f \in [1 .. Len(package.data) -> BOOLEAN] :
                  \A q \in 1 .. Len(package.data) :
                    f[q] \in PredictionStays(package.start + q - 1)}}

\* The package is computed and the MPI_Isend of the results posted.
DoWork(w) ==
  /\ wpc[w] = "work"
  /\ \E data \in Outputs(wp[w]) :
       toMaster' = [toMaster EXCEPT ![w] = Append(@, data)]
  /\ wpc' = [wpc EXCEPT ![w] = "fill"]
  /\ UNCHANGED <<collective, field, valid, iteration, masterVars, wp, witer,
                 toWorker>>

\* fillDHT and writePairs are done and the MPI_Wait of the results returns.
FinishWork(w) ==
  /\ wpc[w] = "fill"
  /\ wp' = [wp EXCEPT ![w] = NoPackage]
  /\ wpc' = [wpc EXCEPT ![w] = "probe"]
  /\ UNCHANGED <<collective, field, valid, iteration, masterVars, witer,
                 channels>>

RecvEnd(w) ==
  /\ wpc[w] = "probe"
  /\ toWorker[w] # <<>>
  /\ Head(toWorker[w]).tag = "LOOP_END"
  /\ toWorker' = [toWorker EXCEPT ![w] = Tail(@)]
  /\ wpc' = [wpc EXCEPT ![w] = "post"]
  /\ UNCHANGED <<collective, field, valid, iteration, masterVars, wp, witer,
                 toMaster>>

\* WorkerPostIter, whose dumps and flushes are collective, see module DHT: a
\* worker gets through once all are in it.
PostIter(w) ==
  /\ wpc[w] = "post"
  /\ collective =>
       \A v \in Worker : wpc[v] = "post" \/ witer[v] > witer[w]
  /\ witer' = [witer EXCEPT ![w] = @ + 1]
  /\ wpc' = [wpc EXCEPT ![w] = "ready"]
  /\ UNCHANGED <<collective, field, valid, iteration, masterVars, wp, channels>>
----------------------------------------------------------------------------
MasterStep ==
  \/ SendPackage \/ SkipWorker \/ StartRecv \/ Unshuffle \/ SendEnd \/ Return
  \/ Predict \/ StartLoop \/ LoopBreak

WorkerStep(w) == RecvWork(w) \/ DoWork(w) \/ RecvEnd(w) \/ PostIter(w)

Next ==
  \/ MasterStep
  \/ PackageSent \/ EndSent \/ ProbeFails \/ Stopped
  \/ \E w \in Worker : RecvResult(w) \/ WorkerStep(w) \/ FinishWork(w)

Spec == Init /\ [][Next]_vars

\* Ranks run on; a call that waits for a message returns when it is there.  A
\* send is only sure to return once its message has been received.  A failing
\* MPI_Iprobe may be repeated, but not for ever while there is a message.
Fairness ==
  /\ WF_vars(MasterStep)
  /\ WF_vars((PackageSent \/ EndSent) /\ toWorker[p] = <<>>)
  /\ WF_vars(ProbeFails \/ \E w \in Worker : RecvResult(w))
  /\ \A w \in Worker :
       /\ WF_vars(WorkerStep(w))
       /\ WF_vars(FinishWork(w) /\ toMaster[w] = <<>>)

FairSpec == Spec /\ Fairness
----------------------------------------------------------------------------
(* Properties                                                              *)

Content == [cell : Cell, steps : 0 .. 2 * MaxIter]

TypeOK ==
  /\ collective \in Collective
  /\ field \in [Cell -> Content]
  /\ valid \in SUBSET Cell
  /\ iteration \in 0 .. MaxIter
  /\ mpc \in {"ready", "barrier", "send", "sending", "recv", "end", "ending",
              "stopped"}
  /\ buffer \in [Cell -> Content]
  /\ p \in 1 .. NWorkers + 1
  /\ count_pkgs \in 0 .. n_packages
  /\ work_pointer \in 0 .. NCells
  /\ pkg_to_send \in 0 .. n_packages
  /\ pkg_to_recv \in 0 .. n_packages
  /\ free_workers \in 0 .. NWorkers
  /\ to_send \in BOOLEAN
  /\ has_work \in [Worker -> BOOLEAN]
  /\ send_addr \in [Worker -> 0 .. NCells - 1]
  /\ wpc \in [Worker -> {"ready", "probe", "work", "fill", "post", "stopped"}]
  /\ witer \in [Worker -> 1 .. MaxIter + 1]
  /\ \A w \in Worker :
       /\ Len(wp[w].data) <= WPSize
       /\ wp[w].start \in 0 .. NCells
       /\ Len(toWorker[w]) <= 1
       /\ Len(toMaster[w]) <= 1

\* Where the package of worker w is: none, on the way, in work, on its way back.
InTransit(w) ==
  Len(toWorker[w]) + (IF wpc[w] = "work" THEN 1 ELSE 0) + Len(toMaster[w])

\* The worker list tells the truth: a worker marked busy has exactly one
\* package, one marked free has none (and so cannot be blocked in the MPI_Wait
\* for its results while the master blocks in an MPI_Send to it), and the
\* counters of free workers and of packages agree with it.
WorkerListExact ==
  mpc \in {"send", "recv"} =>
    /\ \A w \in Worker : InTransit(w) = IF has_work[w] THEN 1 ELSE 0
    /\ free_workers = Cardinality({w \in Worker : ~has_work[w]})
    /\ pkg_to_recv = pkg_to_send + Cardinality({w \in Worker : has_work[w]})

\* When the master ends an iteration no message of it is under way, so none is
\* taken for one of the next, and no worker is called back from an unfinished
\* package.
NothingLeftOver ==
  /\ mpc \in {"end", "ending"} =>
       \A w \in Worker : toMaster[w] = <<>> /\ wpc[w] # "work"
  /\ mpc \in {"ready", "barrier"} =>
       \A w \in Worker :
         /\ toMaster[w] = <<>>
         /\ wpc[w] = "ready" => toWorker[w] = <<>>

\* A cell is advanced once in every iteration, from its own content, whichever
\* of Phreeqc, surrogate and prediction provides the result.
FieldAdvanced ==
  mpc \in {"end", "ending"} =>
    field = [c \in Cell |-> [cell |-> c, steps |-> iteration + 1]]

\* Without predictions, distributing the cells over the workers is the same
\* as computing the field in place.
Serial == INSTANCE SerialChemistry
ImplementsSerial == Serial!Spec

\* Every call of simulate returns and the simulation comes to its end.
SimulationEnds == <>(mpc = "stopped")
=============================================================================
