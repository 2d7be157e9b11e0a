-------------------------- MODULE WorkLoop_proofs --------------------------
(***************************************************************************)
(* Theorems about module WorkLoop, for every grid, package size and number *)
(* of workers.  With and without predictions, the worker list of the       *)
(* master and the messages under way agree, and no message outlives its    *)
(* iteration; without predictions the loop implements SerialChemistry.     *)
(***************************************************************************)
EXTENDS WorkLoop, Counting_proofs

Phases == {"ready", "barrier", "send", "sending", "recv", "end", "ending", "stopped"}
Looping == {"send", "sending", "recv"}
Ending  == {"end", "ending"}
Outside == {"ready", "barrier"}

\* The variables the argument needs, without the data of the field.
ControlType ==
  /\ mpc \in Phases
  /\ p \in 1 .. NWorkers + 1
  /\ pkg_to_send \in Nat
  /\ pkg_to_recv \in Int
  /\ free_workers \in Int
  /\ has_work \in [Worker -> BOOLEAN]
  /\ wpc \in [Worker -> {"ready", "probe", "work", "fill", "post", "stopped"}]
  /\ DOMAIN toWorker = Worker /\ toWorker = [w \in Worker |-> toWorker[w]]
  /\ DOMAIN toMaster = Worker /\ toMaster = [w \in Worker |-> toMaster[w]]

One(messages) == messages # <<>> /\ messages = <<Head(messages)>>

Silent(w) == toWorker[w] = <<>> /\ toMaster[w] = <<>>

\* w has a package: in a message to it, in work, or in a message from it.
HasPackage(w) ==
  \/ /\ One(toWorker[w])
     /\ Head(toWorker[w]).tag = "LOOP_WORK"
     /\ toMaster[w] = <<>>
     /\ wpc[w] \in {"probe", "fill"}
  \/ Silent(w) /\ wpc[w] = "work"
  \/ /\ toWorker[w] = <<>>
     /\ One(toMaster[w])
     /\ wpc[w] \in {"probe", "fill"}

HasNone(w) == Silent(w) /\ wpc[w] \in {"probe", "fill"}

\* LOOP_END is on its way to w, or w has left the loop.
HasEnded(w) ==
  /\ toMaster[w] = <<>>
  /\ \/ toWorker[w] = <<LoopEnd>> /\ wpc[w] \in {"probe", "fill"}
     \/ toWorker[w] = <<>> /\ wpc[w] \in {"post", "ready"}

\* Marked in worker_list, or about to be when the MPI_Send returns.
Given(w) == has_work[w] \/ (mpc = "sending" /\ w = p)

\* The LOOP_END of w has been sent.
EndSentTo(w) == w < p \/ (mpc = "ending" /\ w = p)

\* What the phase of the master says of each worker.
WorkerInv ==
  /\ mpc \in Looping =>
       \A w \in Worker : IF Given(w) THEN HasPackage(w) ELSE HasNone(w)
  /\ mpc \in Ending =>
       \A w \in Worker : IF EndSentTo(w) THEN HasEnded(w) ELSE HasNone(w)
  /\ mpc \in Outside => \A w \in Worker : HasEnded(w)
  /\ mpc = "stopped" => \A w \in Worker : wpc[w] = "stopped"

Busy == {w \in Worker : has_work[w]}
Free == {w \in Worker : ~has_work[w]}

\* What the counters say of worker_list.
CountInv ==
  /\ mpc \in Looping =>
       /\ free_workers = Cardinality(Free)
       /\ pkg_to_recv = pkg_to_send + Cardinality(Busy)
  /\ mpc = "sending" => p \in Free /\ pkg_to_send > 0
  /\ mpc = "ending" => p \in Worker

\* The inductive invariant.  WorkerListExact itself is not inductive: it does
\* not say what is under way while a package is being sent, nor which messages
\* the workers may still find at the end.
IInv == ControlType /\ WorkerInv /\ CountInv
----------------------------------------------------------------------------
(* Data                                                                    *)

\* A field of at least one cell gives a natural number of packages.
LEMMA PackagesType == n_packages \in Nat
<1>1. NCells \div WPSize \in Nat
  BY SizeAssumption
<1>. QED
  BY <1>1 DEF n_packages, NPackages

\* A message appended to an empty channel is alone in it.
LEMMA AppendOne ==
  ASSUME NEW m
  PROVE  /\ One(Append(<<>>, m))
         /\ Head(Append(<<>>, m)) = m
<1>1. Append(<<>>, m) = <<m>>
  OBVIOUS
<1>2. Head(<<m>>) = m /\ <<m>> # <<>>
  OBVIOUS
<1>. QED
  BY <1>1, <1>2 DEF One

\* Once the only message of a channel is taken, nothing is left.
LEMMA TailOne ==
  ASSUME NEW s, One(s)
  PROVE  Tail(s) = <<>>
<1>1. s = <<Head(s)>>
  BY DEF One
<1>2. \A m : Tail(<<m>>) = <<>>
  OBVIOUS
<1>. QED
  BY <1>1, <1>2

\* Busy and free workers are finite sets, and together they are all workers.
LEMMA WorkersFinite ==
  /\ IsFiniteSet(Busy) /\ Cardinality(Busy) \in Nat
  /\ IsFiniteSet(Free) /\ Cardinality(Free) \in Nat
<1>1. IsFiniteSet(Worker)
  BY SizeAssumption, FS_Interval DEF Worker
<1>2. Busy \in SUBSET Worker /\ Free \in SUBSET Worker
  BY DEF Busy, Free
<1>. QED
  BY <1>1, <1>2, FS_Subset, FS_CardinalityType

\* Marking a free worker busy moves it from one set to the other.
LEMMA MarkBusy ==
  ASSUME NEW w \in Free, has_work' = [has_work EXCEPT ![w] = TRUE],
         has_work \in [Worker -> BOOLEAN]
  PROVE  /\ Cardinality(Busy') = Cardinality(Busy) + 1
         /\ Cardinality(Free') = Cardinality(Free) - 1
<1>1. Busy' = Busy \cup {w} /\ w \notin Busy
  BY DEF Busy, Free
<1>2. Free' = Free \ {w}
  BY DEF Free
<1>. QED
  BY <1>1, <1>2, WorkersFinite, FS_AddElement, FS_RemoveElement

\* And the other way round.
LEMMA MarkFree ==
  ASSUME NEW w \in Busy, has_work' = [has_work EXCEPT ![w] = FALSE],
         has_work \in [Worker -> BOOLEAN]
  PROVE  /\ Cardinality(Busy') = Cardinality(Busy) - 1
         /\ Cardinality(Free') = Cardinality(Free) + 1
<1>1. Busy' = Busy \ {w}
  BY DEF Busy
<1>2. Free' = Free \cup {w} /\ w \notin Free
  BY DEF Busy, Free
<1>. QED
  BY <1>1, <1>2, WorkersFinite, FS_AddElement, FS_RemoveElement

\* Before the first package of an iteration nobody is busy.
LEMMA NobodyBusy ==
  ASSUME has_work = [w \in Worker |-> FALSE]
  PROVE  Cardinality(Busy) = 0 /\ Cardinality(Free) = NWorkers
<1>1. Busy = {} /\ Free = Worker
  BY DEF Busy, Free
<1>2. Cardinality(Worker) = NWorkers
  BY SizeAssumption, FS_Interval DEF Worker
<1>. QED
  BY <1>1, <1>2, FS_EmptySet

\* If no result is outstanding, no worker is marked and no package is left.
LEMMA AllReceivedFree ==
  ASSUME IInv, mpc = "recv", AllReceived
  PROVE  \A w \in Worker : HasNone(w)
<1>1. Cardinality(Busy) = 0
  BY WorkersFinite DEF IInv, CountInv, ControlType, AllReceived, Looping
<1>2. Busy = {}
  BY <1>1, WorkersFinite, FS_EmptySet
<1>3. \A w \in Worker : ~Given(w)
  BY <1>2 DEF Busy, Given
<1>. QED
  BY <1>3 DEF IInv, WorkerInv, Looping
----------------------------------------------------------------------------
(* The steps of the master                                                 *)

LEMMA InitInv == Init => IInv
<1>. SUFFICES ASSUME Init PROVE IInv
  OBVIOUS
<1>1. ControlType
  BY SizeAssumption DEF Init, ControlType, Phases
<1>2. WorkerInv
  BY DEF Init, WorkerInv, HasEnded, Looping, Ending, Outside
<1>3. CountInv
  BY DEF Init, CountInv, Looping
<1>. QED
  BY <1>1, <1>2, <1>3 DEF IInv

LEMMA PredictInv == IInv /\ Predict => IInv'
BY DEF IInv, Predict, channels, workerVars, ControlType, Phases, WorkerInv, HasEnded,
       CountInv, Looping, Ending, Outside

\* All workers are back from their last iteration, so no LOOP_END is under way.
LEMMA StartLoopInv == IInv /\ StartLoop => IInv'
<1>. SUFFICES ASSUME IInv, StartLoop PROVE IInv'
  OBVIOUS
<1>1. ControlType'
  BY PackagesType, SizeAssumption
  DEF IInv, StartLoop, channels, ControlType, Phases
<1>2. mpc' = "send" /\ \A w \in Worker : wpc'[w] = "probe" /\ ~has_work'[w]
  BY DEF StartLoop
<1>3. \A w \in Worker : HasNone(w)'
  BY <1>2 DEF IInv, StartLoop, channels, WorkerInv, HasEnded, Outside, HasNone, Silent
<1>4. WorkerInv'
  BY <1>2, <1>3 DEF WorkerInv, Given, Looping, Ending, Outside
<1>5. CountInv'
  <2>1. Cardinality(Busy') = 0 /\ Cardinality(Free') = NWorkers
    <3>1. has_work' = [w \in Worker |-> FALSE]
      BY DEF StartLoop
    <3>2. Busy' = {} /\ Free' = Worker
      BY <3>1 DEF Busy, Free
    <3>3. Cardinality(Worker) = NWorkers
      BY SizeAssumption, FS_Interval DEF Worker
    <3>. QED
      BY <3>2, <3>3, FS_EmptySet
  <2>2. free_workers' = Cardinality(Free')
    BY <2>1 DEF StartLoop
  <2>3. pkg_to_send' = n_packages /\ pkg_to_recv' = n_packages
    BY DEF StartLoop
  <2>4. n_packages = n_packages + 0
    BY PackagesType
  <2>5. pkg_to_recv' = pkg_to_send' + Cardinality(Busy')
    BY <2>1, <2>3, <2>4
  <2>. QED
    BY <1>2, <2>2, <2>5 DEF CountInv
<1>. QED
  BY <1>1, <1>4, <1>5 DEF IInv

\* The worker list says that worker p has nothing: the message to it is alone.
LEMMA SendPackageInv == IInv /\ SendPackage => IInv'
<1>. SUFFICES ASSUME IInv, SendPackage PROVE IInv'
  OBVIOUS
<1>1. PICK data, start : toWorker' = [toWorker EXCEPT ![p] = Append(@, Work(data, start))]
  BY DEF SendPackage
<1>2. p \in Worker /\ ~has_work[p] /\ pkg_to_send > 0 /\ mpc = "send" /\ mpc' = "sending"
  BY SizeAssumption DEF IInv, ControlType, SendPackage, Worker, IsFree
<1>3. UNCHANGED <<p, pkg_to_send, pkg_to_recv, free_workers, has_work, wpc, toMaster>>
  BY DEF SendPackage, workerVars
<1>4. ControlType'
  BY <1>1, <1>2, <1>3 DEF IInv, ControlType, Phases
<1>5. \A w \in Worker : IF Given(w) THEN HasPackage(w) ELSE HasNone(w)
  BY <1>2 DEF IInv, WorkerInv, Looping
<1>6. HasPackage(p)'
  <2>1. HasNone(p)
    BY <1>2, <1>5 DEF Given
  <2>2. toWorker'[p] = Append(<<>>, Work(data, start))
    BY <1>1, <1>2, <2>1 DEF HasNone, Silent, IInv, ControlType
  <2>3. One(toWorker[p])' /\ Head(toWorker'[p]).tag = "LOOP_WORK"
    BY <1>3, <2>2, AppendOne DEF Work, One
  <2>. QED
    BY <1>3, <2>1, <2>3 DEF HasPackage, HasNone, Silent
<1>7. ASSUME NEW w \in Worker, w # p
      PROVE  IF Given(w)' THEN HasPackage(w)' ELSE HasNone(w)'
  <2>1. toWorker'[w] = toWorker[w]
    BY <1>1, <1>2, <1>7 DEF IInv, ControlType
  <2>2. Given(w)' <=> Given(w)
    BY <1>2, <1>3, <1>7 DEF Given
  <2>. QED
    BY <1>3, <1>5, <2>1, <2>2 DEF HasPackage, HasNone, Silent, One
<1>8. WorkerInv'
  BY <1>2, <1>3, <1>6, <1>7 DEF WorkerInv, Given, Looping, Ending, Outside
<1>9. CountInv'
  BY <1>2, <1>3 DEF IInv, CountInv, Busy, Free, Looping
<1>. QED
  BY <1>4, <1>8, <1>9 DEF IInv

\* The package was sent: what was given is now marked.
LEMMA PackageSentInv == IInv /\ PackageSent => IInv'
<1>. SUFFICES ASSUME IInv, PackageSent PROVE IInv'
  OBVIOUS
<1>1. mpc = "sending" /\ mpc' = "send" /\ p \in Worker /\ p \in Free /\ pkg_to_send > 0
  BY DEF PackageSent, IInv, CountInv, Free, Looping
<1>2. ControlType'
  BY <1>1, SizeAssumption DEF IInv, ControlType, PackageSent, workerVars, channels, Phases, Worker
<1>3. WorkerInv'
  <2>1. \A w \in Worker : Given(w)' <=> Given(w)
    BY <1>1 DEF Given, PackageSent, IInv, ControlType
  <2>2. UNCHANGED <<wpc, toWorker, toMaster>>
    BY DEF PackageSent, workerVars, channels
  <2>3. \A w \in Worker : IF Given(w) THEN HasPackage(w) ELSE HasNone(w)
    BY <1>1 DEF IInv, WorkerInv, Looping
  <2>4. \A w \in Worker : IF Given(w)' THEN HasPackage(w)' ELSE HasNone(w)'
    BY <2>1, <2>2, <2>3 DEF HasPackage, HasNone, Silent, One
  <2>. QED
    BY <1>1, <2>4 DEF WorkerInv, Looping, Ending, Outside
<1>4. CountInv'
  <2>1. /\ Cardinality(Busy') = Cardinality(Busy) + 1
        /\ Cardinality(Free') = Cardinality(Free) - 1
    BY <1>1, MarkBusy DEF PackageSent, IInv, ControlType
  <2>2. /\ free_workers' = free_workers - 1
        /\ pkg_to_send' = pkg_to_send - 1
        /\ pkg_to_recv' = pkg_to_recv
    BY DEF PackageSent
  <2>3. /\ free_workers = Cardinality(Free)
        /\ pkg_to_recv = pkg_to_send + Cardinality(Busy)
        /\ pkg_to_send \in Nat
    BY <1>1 DEF IInv, CountInv, ControlType, Looping
  <2>4. free_workers' = Cardinality(Free') /\ pkg_to_recv' = pkg_to_send' + Cardinality(Busy')
    BY <2>1, <2>2, <2>3, WorkersFinite
  <2>. QED
    BY <1>1, <2>4 DEF CountInv
<1>. QED
  BY <1>2, <1>3, <1>4 DEF IInv

\* The loops over the workers go on; what holds of each worker stays.
LEMMA LoopStepsInv == IInv /\ (SkipWorker \/ StartRecv \/ ProbeFails) => IInv'
<1>. SUFFICES ASSUME IInv, SkipWorker \/ StartRecv \/ ProbeFails PROVE IInv'
  OBVIOUS
<1>1. /\ mpc \in {"send", "recv"} /\ mpc' \in {"send", "recv"}
      /\ UNCHANGED <<pkg_to_send, pkg_to_recv, free_workers, has_work, wpc,
                     toWorker, toMaster>>
  BY DEF SkipWorker, StartRecv, ProbeFails, workerVars, channels
<1>2. p' \in 1 .. NWorkers + 1
  BY SizeAssumption DEF IInv, ControlType, SkipWorker, StartRecv, ProbeFails
<1>3. ControlType'
  BY <1>1, <1>2 DEF IInv, ControlType, Phases
<1>4. WorkerInv'
  <2>1. \A w \in Worker : Given(w)' <=> Given(w)
    BY <1>1 DEF Given
  <2>2. \A w \in Worker : IF Given(w) THEN HasPackage(w) ELSE HasNone(w)
    BY <1>1 DEF IInv, WorkerInv, Looping
  <2>3. \A w \in Worker : IF Given(w)' THEN HasPackage(w)' ELSE HasNone(w)'
    BY <1>1, <2>1, <2>2 DEF HasPackage, HasNone, Silent, One
  <2>. QED
    BY <1>1, <2>3 DEF WorkerInv, Looping, Ending, Outside
<1>5. CountInv'
  BY <1>1 DEF IInv, CountInv, Busy, Free, Looping
<1>. QED
  BY <1>3, <1>4, <1>5 DEF IInv

\* A result comes from a worker that is marked, and the mark goes.
LEMMA RecvResultInv == ASSUME IInv, NEW w \in Worker, RecvResult(w) PROVE IInv'
<1>1. /\ mpc = "recv" /\ mpc' = "recv" /\ toMaster[w] # <<>>
      /\ toMaster' = [toMaster EXCEPT ![w] = Tail(@)]
      /\ has_work' = [has_work EXCEPT ![w] = FALSE]
      /\ pkg_to_recv' = pkg_to_recv - 1
      /\ free_workers' = free_workers + 1
      /\ UNCHANGED <<p, pkg_to_send, wpc, toWorker>>
  BY DEF RecvResult, workerVars
<1>2. \A v \in Worker : IF Given(v) THEN HasPackage(v) ELSE HasNone(v)
  BY <1>1 DEF IInv, WorkerInv, Looping
<1>3. /\ w \in Busy
      /\ toWorker[w] = <<>> /\ One(toMaster[w]) /\ wpc[w] \in {"probe", "fill"}
  BY <1>1, <1>2 DEF HasNone, HasPackage, Silent, Given, Busy
<1>4. ControlType'
  <2>1. DOMAIN toMaster' = Worker /\ toMaster' = [v \in Worker |-> toMaster'[v]]
    BY <1>1 DEF IInv, ControlType
  <2>2. pkg_to_recv' \in Int /\ free_workers' \in Int
    BY <1>1 DEF IInv, ControlType
  <2>3. has_work' \in [Worker -> BOOLEAN]
    BY <1>1 DEF IInv, ControlType
  <2>. QED
    BY <1>1, <2>1, <2>2, <2>3 DEF IInv, ControlType, Phases
<1>5. WorkerInv'
  <2>1. HasNone(w)' /\ ~Given(w)'
    <3>1. toMaster'[w] = <<>>
      BY <1>1, <1>3, TailOne DEF IInv, ControlType
    <3>2. ~Given(w)'
      BY <1>1 DEF Given, IInv, ControlType
    <3>. QED
      BY <1>1, <1>3, <3>1, <3>2 DEF HasNone, Silent
  <2>2. ASSUME NEW v \in Worker, v # w
        PROVE  IF Given(v)' THEN HasPackage(v)' ELSE HasNone(v)'
    <3>1. toMaster'[v] = toMaster[v] /\ has_work'[v] = has_work[v]
      BY <1>1, <2>2 DEF IInv, ControlType
    <3>2. Given(v)' <=> Given(v)
      BY <1>1, <3>1 DEF Given
    <3>. QED
      BY <1>1, <1>2, <3>1, <3>2 DEF HasPackage, HasNone, Silent, One
  <2>. QED
    BY <1>1, <2>1, <2>2 DEF WorkerInv, Looping, Ending, Outside
<1>6. CountInv'
  <2>1. /\ Cardinality(Busy') = Cardinality(Busy) - 1
        /\ Cardinality(Free') = Cardinality(Free) + 1
    BY <1>1, <1>3, MarkFree DEF IInv, ControlType
  <2>2. /\ free_workers = Cardinality(Free)
        /\ pkg_to_recv = pkg_to_send + Cardinality(Busy)
        /\ pkg_to_send \in Nat
    BY <1>1 DEF IInv, CountInv, ControlType, Looping
  <2>3. free_workers' = Cardinality(Free') /\ pkg_to_recv' = pkg_to_send' + Cardinality(Busy')
    BY <1>1, <2>1, <2>2, WorkersFinite
  <2>. QED
    BY <1>1, <2>3 DEF CountInv
<1>. QED
  BY <1>4, <1>5, <1>6 DEF IInv

\* When the last result is in, every worker has nothing.
LEMMA UnshuffleInv == IInv /\ Unshuffle => IInv'
<1>. SUFFICES ASSUME IInv, Unshuffle PROVE IInv'
  OBVIOUS
<1>1. /\ mpc = "recv" /\ AllReceived /\ mpc' = "end" /\ p' = 1
      /\ UNCHANGED <<pkg_to_send, pkg_to_recv, free_workers, has_work, wpc,
                     toWorker, toMaster>>
  BY DEF Unshuffle, workerVars, channels
<1>2. ControlType'
  BY <1>1, SizeAssumption DEF IInv, ControlType, Phases
<1>3. \A w \in Worker : HasNone(w)'
  BY <1>1, AllReceivedFree DEF HasNone, Silent
<1>4. \A w \in Worker : ~EndSentTo(w)'
  <2>1. \A w \in Worker : ~(w < 1)
    BY SizeAssumption DEF Worker
  <2>. QED
    BY <1>1, <2>1 DEF EndSentTo
<1>5. WorkerInv'
  BY <1>1, <1>3, <1>4 DEF WorkerInv, Looping, Ending, Outside
<1>6. CountInv'
  BY <1>1 DEF CountInv, Looping
<1>. QED
  BY <1>2, <1>5, <1>6 DEF IInv

LEMMA SendEndInv == IInv /\ SendEnd => IInv'
<1>. SUFFICES ASSUME IInv, SendEnd PROVE IInv'
  OBVIOUS
<1>1. /\ mpc = "end" /\ mpc' = "ending" /\ p \in Worker
      /\ toWorker' = [toWorker EXCEPT ![p] = Append(@, LoopEnd)]
      /\ UNCHANGED <<p, pkg_to_send, pkg_to_recv, free_workers, has_work, wpc,
                     toMaster>>
  BY SizeAssumption DEF SendEnd, workerVars, IInv, ControlType, Worker
<1>2. ControlType'
  BY <1>1 DEF IInv, ControlType, Phases
<1>3. \A w \in Worker : IF EndSentTo(w) THEN HasEnded(w) ELSE HasNone(w)
  BY <1>1 DEF IInv, WorkerInv, Ending
<1>4. HasEnded(p)' /\ EndSentTo(p)'
  <2>1. HasNone(p)
    BY <1>1, <1>3, SizeAssumption DEF EndSentTo, Worker
  <2>2. toWorker'[p] = <<LoopEnd>>
    <3>1. toWorker'[p] = Append(<<>>, LoopEnd)
      BY <1>1, <2>1 DEF HasNone, Silent, IInv, ControlType
    <3>2. Append(<<>>, LoopEnd) = <<LoopEnd>>
      OBVIOUS
    <3>. QED
      BY <3>1, <3>2
  <2>. QED
    BY <1>1, <2>1, <2>2 DEF HasNone, Silent, HasEnded, EndSentTo
<1>5. ASSUME NEW w \in Worker, w # p
      PROVE  IF EndSentTo(w)' THEN HasEnded(w)' ELSE HasNone(w)'
  <2>1. toWorker'[w] = toWorker[w]
    BY <1>1, <1>5 DEF IInv, ControlType
  <2>2. EndSentTo(w)' <=> EndSentTo(w)
    BY <1>1, <1>5 DEF EndSentTo
  <2>. QED
    BY <1>1, <1>3, <2>1, <2>2 DEF HasEnded, HasNone, Silent
<1>6. WorkerInv'
  BY <1>1, <1>4, <1>5 DEF WorkerInv, Looping, Ending, Outside
<1>7. CountInv'
  BY <1>1 DEF CountInv, Looping
<1>. QED
  BY <1>2, <1>6, <1>7 DEF IInv

LEMMA EndSentInv == IInv /\ EndSent => IInv'
<1>. SUFFICES ASSUME IInv, EndSent PROVE IInv'
  OBVIOUS
<1>1. /\ mpc = "ending" /\ mpc' = "end" /\ p \in Worker /\ p' = p + 1
      /\ UNCHANGED <<pkg_to_send, pkg_to_recv, free_workers, has_work, wpc,
                     toWorker, toMaster>>
  BY DEF EndSent, workerVars, channels, IInv, CountInv
<1>2. ControlType'
  BY <1>1, SizeAssumption DEF IInv, ControlType, Phases, Worker
<1>3. \A w \in Worker : EndSentTo(w)' <=> EndSentTo(w)
  BY <1>1 DEF EndSentTo, Worker
<1>4. \A w \in Worker : IF EndSentTo(w) THEN HasEnded(w) ELSE HasNone(w)
  BY <1>1 DEF IInv, WorkerInv, Ending
<1>5. \A w \in Worker : IF EndSentTo(w)' THEN HasEnded(w)' ELSE HasNone(w)'
  BY <1>1, <1>3, <1>4 DEF HasEnded, HasNone, Silent
<1>6. WorkerInv'
  BY <1>1, <1>5 DEF WorkerInv, Looping, Ending, Outside
<1>7. CountInv'
  BY <1>1 DEF CountInv, Looping
<1>. QED
  BY <1>2, <1>6, <1>7 DEF IInv

\* LOOP_END has been sent to all.
LEMMA ReturnInv == IInv /\ Return => IInv'
<1>. SUFFICES ASSUME IInv, Return PROVE IInv'
  OBVIOUS
<1>1. /\ mpc = "end" /\ mpc' = "ready" /\ p = NWorkers + 1
      /\ UNCHANGED <<p, pkg_to_send, pkg_to_recv, free_workers, has_work, wpc,
                     toWorker, toMaster>>
  BY DEF Return, workerVars, channels
<1>2. \A w \in Worker : EndSentTo(w)
  BY <1>1, SizeAssumption DEF EndSentTo, Worker
<1>3. \A w \in Worker : HasEnded(w)'
  BY <1>1, <1>2 DEF IInv, WorkerInv, Ending, HasEnded
<1>4. ControlType'
  BY <1>1 DEF IInv, ControlType, Phases
<1>5. WorkerInv'
  BY <1>1, <1>3 DEF WorkerInv, Looping, Ending, Outside
<1>6. CountInv'
  BY <1>1 DEF CountInv, Looping
<1>. QED
  BY <1>4, <1>5, <1>6 DEF IInv

LEMMA LoopBreakInv == IInv /\ LoopBreak => IInv'
BY DEF LoopBreak, channels, IInv, ControlType, Phases, WorkerInv, CountInv,
       Looping, Ending, Outside
----------------------------------------------------------------------------
(* The steps of a worker                                                   *)

\* What a worker does concerns the other workers in no way.
OnlyWorker(w) ==
  /\ UNCHANGED <<mpc, p, pkg_to_send, pkg_to_recv, free_workers, has_work>>
  /\ \A v \in Worker \ {w} :
       /\ wpc'[v] = wpc[v]
       /\ toWorker'[v] = toWorker[v]
       /\ toMaster'[v] = toMaster[v]

\* So it is enough to look at the worker itself.
LEMMA WorkerFrame ==
  ASSUME IInv, NEW w \in Worker, OnlyWorker(w), ControlType', mpc # "stopped",
         HasPackage(w) => HasPackage(w)',
         HasNone(w) => HasNone(w)',
         HasEnded(w) => HasEnded(w)'
  PROVE  IInv'
<1>1. UNCHANGED <<mpc, p, pkg_to_send, pkg_to_recv, free_workers, has_work>>
  BY DEF OnlyWorker
<1>2. CountInv'
  BY <1>1 DEF IInv, CountInv, Busy, Free
<1>3. \A v \in Worker : (Given(v)' <=> Given(v)) /\ (EndSentTo(v)' <=> EndSentTo(v))
  BY <1>1 DEF Given, EndSentTo
<1>4. ASSUME NEW v \in Worker
      PROVE  /\ HasPackage(v) => HasPackage(v)'
             /\ HasNone(v) => HasNone(v)'
             /\ HasEnded(v) => HasEnded(v)'
  <2>1. CASE v = w
    BY <2>1
  <2>2. CASE v # w
    BY <2>2 DEF OnlyWorker, HasPackage, HasNone, HasEnded, Silent, One
  <2>. QED
    BY <2>1, <2>2
<1>5. mpc \in Looping =>
        \A v \in Worker : IF Given(v)' THEN HasPackage(v)' ELSE HasNone(v)'
  BY <1>3, <1>4 DEF IInv, WorkerInv
<1>6. mpc \in Ending =>
        \A v \in Worker : IF EndSentTo(v)' THEN HasEnded(v)' ELSE HasNone(v)'
  BY <1>3, <1>4 DEF IInv, WorkerInv
<1>7. mpc \in Outside => \A v \in Worker : HasEnded(v)'
  BY <1>4 DEF IInv, WorkerInv
<1>8. WorkerInv'
  BY <1>1, <1>5, <1>6, <1>7 DEF WorkerInv
<1>. QED
  BY <1>2, <1>8 DEF IInv

\* A worker that takes a step has not been stopped.
LEMMA StepRuns ==
  ASSUME IInv, NEW w \in Worker, wpc[w] # "stopped"
  PROVE  mpc # "stopped"
BY DEF IInv, WorkerInv

LEMMA RecvWorkInv == ASSUME IInv, NEW w \in Worker, RecvWork(w) PROVE IInv'
<1>1. /\ wpc[w] = "probe" /\ toWorker[w] # <<>>
      /\ Head(toWorker[w]).tag = "LOOP_WORK"
      /\ toWorker' = [toWorker EXCEPT ![w] = Tail(@)]
      /\ wpc' = [wpc EXCEPT ![w] = "work"]
      /\ UNCHANGED <<mpc, p, pkg_to_send, pkg_to_recv, free_workers, has_work, toMaster>>
  BY DEF RecvWork, masterVars
<1>2. ControlType'
  BY <1>1 DEF IInv, ControlType
<1>3. OnlyWorker(w)
  BY <1>1 DEF OnlyWorker, IInv, ControlType
<1>4. HasPackage(w) => HasPackage(w)'
  <2>. SUFFICES ASSUME HasPackage(w) PROVE HasPackage(w)'
    OBVIOUS
  <2>1. One(toWorker[w]) /\ toMaster[w] = <<>>
    BY <1>1 DEF HasPackage, Silent
  <2>2. toWorker'[w] = <<>> /\ toMaster'[w] = <<>> /\ wpc'[w] = "work"
    BY <1>1, <2>1, TailOne DEF IInv, ControlType
  <2>. QED
    BY <2>2 DEF HasPackage, Silent
<1>5. ~HasNone(w)
  BY <1>1 DEF HasNone, Silent
<1>6. ~HasEnded(w)
  <2>1. Head(<<LoopEnd>>).tag # "LOOP_WORK"
    BY DEF LoopEnd
  <2>. QED
    BY <1>1, <2>1 DEF HasEnded
<1>. QED
  BY <1>1, <1>2, <1>3, <1>4, <1>5, <1>6, StepRuns, WorkerFrame

LEMMA DoWorkInv == ASSUME IInv, NEW w \in Worker, DoWork(w) PROVE IInv'
<1>1. PICK data : toMaster' = [toMaster EXCEPT ![w] = Append(@, data)]
  BY DEF DoWork
<1>2. /\ wpc[w] = "work" /\ wpc' = [wpc EXCEPT ![w] = "fill"]
      /\ UNCHANGED <<mpc, p, pkg_to_send, pkg_to_recv, free_workers, has_work, toWorker>>
  BY DEF DoWork, masterVars
<1>3. ControlType'
  BY <1>1, <1>2 DEF IInv, ControlType
<1>4. OnlyWorker(w)
  BY <1>1, <1>2 DEF OnlyWorker, IInv, ControlType
<1>5. HasPackage(w) => HasPackage(w)'
  <2>. SUFFICES ASSUME HasPackage(w) PROVE HasPackage(w)'
    OBVIOUS
  <2>1. Silent(w)
    BY <1>2 DEF HasPackage
  <2>2. toMaster'[w] = Append(<<>>, data) /\ toWorker'[w] = <<>> /\ wpc'[w] = "fill"
    BY <1>1, <1>2, <2>1 DEF Silent, IInv, ControlType
  <2>3. One(toMaster[w])'
    BY <2>2, AppendOne DEF One
  <2>. QED
    BY <2>2, <2>3 DEF HasPackage
<1>6. ~HasNone(w) /\ ~HasEnded(w)
  BY <1>2 DEF HasNone, HasEnded
<1>. QED
  BY <1>2, <1>3, <1>4, <1>5, <1>6, StepRuns, WorkerFrame

LEMMA FinishWorkInv == ASSUME IInv, NEW w \in Worker, FinishWork(w) PROVE IInv'
<1>1. /\ wpc[w] = "fill" /\ wpc' = [wpc EXCEPT ![w] = "probe"]
      /\ UNCHANGED <<mpc, p, pkg_to_send, pkg_to_recv, free_workers, has_work,
                     toWorker, toMaster>>
  BY DEF FinishWork, masterVars, channels
<1>2. ControlType'
  BY <1>1 DEF IInv, ControlType
<1>3. OnlyWorker(w) /\ wpc'[w] = "probe"
  BY <1>1 DEF OnlyWorker, IInv, ControlType
<1>4. /\ HasPackage(w) => HasPackage(w)'
      /\ HasNone(w) => HasNone(w)'
      /\ HasEnded(w) => HasEnded(w)'
  BY <1>1, <1>3 DEF HasPackage, HasNone, HasEnded, Silent, One
<1>. QED
  BY <1>1, <1>2, <1>3, <1>4, StepRuns, WorkerFrame

LEMMA RecvEndInv == ASSUME IInv, NEW w \in Worker, RecvEnd(w) PROVE IInv'
<1>1. /\ wpc[w] = "probe" /\ toWorker[w] # <<>>
      /\ Head(toWorker[w]).tag = "LOOP_END"
      /\ toWorker' = [toWorker EXCEPT ![w] = Tail(@)]
      /\ wpc' = [wpc EXCEPT ![w] = "post"]
      /\ UNCHANGED <<mpc, p, pkg_to_send, pkg_to_recv, free_workers, has_work, toMaster>>
  BY DEF RecvEnd, masterVars
<1>2. ControlType'
  BY <1>1 DEF IInv, ControlType
<1>3. OnlyWorker(w)
  BY <1>1 DEF OnlyWorker, IInv, ControlType
<1>4. ~HasPackage(w) /\ ~HasNone(w)
  BY <1>1 DEF HasPackage, HasNone, Silent
<1>5. HasEnded(w) => HasEnded(w)'
  <2>. SUFFICES ASSUME HasEnded(w) PROVE HasEnded(w)'
    OBVIOUS
  <2>1. toWorker[w] = <<LoopEnd>> /\ toMaster[w] = <<>>
    BY <1>1 DEF HasEnded
  <2>2. Tail(<<LoopEnd>>) = <<>>
    OBVIOUS
  <2>3. toWorker'[w] = <<>> /\ toMaster'[w] = <<>> /\ wpc'[w] = "post"
    BY <1>1, <2>1, <2>2 DEF IInv, ControlType
  <2>. QED
    BY <2>3 DEF HasEnded
<1>. QED
  BY <1>1, <1>2, <1>3, <1>4, <1>5, StepRuns, WorkerFrame

LEMMA PostIterInv == ASSUME IInv, NEW w \in Worker, PostIter(w) PROVE IInv'
<1>1. /\ wpc[w] = "post" /\ wpc' = [wpc EXCEPT ![w] = "ready"]
      /\ UNCHANGED <<mpc, p, pkg_to_send, pkg_to_recv, free_workers, has_work,
                     toWorker, toMaster>>
  BY DEF PostIter, masterVars, channels
<1>2. ControlType'
  BY <1>1 DEF IInv, ControlType
<1>3. OnlyWorker(w) /\ wpc'[w] = "ready"
  BY <1>1 DEF OnlyWorker, IInv, ControlType
<1>4. ~HasPackage(w) /\ ~HasNone(w) /\ (HasEnded(w) => HasEnded(w)')
  BY <1>1, <1>3 DEF HasPackage, HasNone, HasEnded, Silent
<1>. QED
  BY <1>1, <1>2, <1>3, <1>4, StepRuns, WorkerFrame
----------------------------------------------------------------------------
(* The theorems                                                            *)

LEMMA StepInv == IInv /\ [Next]_vars => IInv'
<1>. SUFFICES ASSUME IInv, [Next]_vars PROVE IInv'
  OBVIOUS
<1>1. CASE MasterStep
  BY <1>1, SendPackageInv, LoopStepsInv, UnshuffleInv, SendEndInv, ReturnInv,
     PredictInv, StartLoopInv, LoopBreakInv DEF MasterStep
<1>2. CASE PackageSent \/ EndSent \/ ProbeFails
  BY <1>2, PackageSentInv, EndSentInv, LoopStepsInv
<1>3. ASSUME NEW w \in Worker, RecvResult(w) \/ WorkerStep(w) \/ FinishWork(w)
      PROVE  IInv'
  BY <1>3, RecvResultInv, RecvWorkInv, DoWorkInv, RecvEndInv, PostIterInv,
     FinishWorkInv DEF WorkerStep
<1>4. CASE UNCHANGED vars
  BY <1>4 DEF vars, IInv, ControlType, WorkerInv, CountInv, HasPackage, HasNone,
         HasEnded, Silent, One, Given, EndSentTo, Busy, Free
<1>. QED
  BY <1>1, <1>2, <1>3, <1>4 DEF Next, Stopped

\* The invariant holds in every state.
THEOREM Invariant == Spec => []IInv
BY InitInv, StepInv, PTL DEF Spec

\* One message or one package in work, as the worker list says.
LEMMA ExactFromInv == IInv => WorkerListExact
<1>. SUFFICES ASSUME IInv, mpc \in {"send", "recv"} PROVE WorkerListExact
  BY DEF WorkerListExact
<1>1. /\ free_workers = Cardinality(Free)
      /\ pkg_to_recv = pkg_to_send + Cardinality(Busy)
  BY DEF IInv, CountInv, Looping
<1>2. ASSUME NEW w \in Worker
      PROVE  InTransit(w) = IF has_work[w] THEN 1 ELSE 0
  <2>1. IF has_work[w] THEN HasPackage(w) ELSE HasNone(w)
    BY DEF IInv, WorkerInv, Given, Looping
  <2>2. Len(<<>>) = 0 /\ \A s : One(s) => Len(s) = 1
    <3>1. \A m : Len(<<m>>) = 1
      OBVIOUS
    <3>. QED
      BY <3>1 DEF One
  <2>3. CASE HasNone(w) /\ ~has_work[w]
    BY <2>2, <2>3 DEF HasNone, Silent, InTransit
  <2>4. CASE HasPackage(w) /\ has_work[w]
    <3>1. \/ Len(toWorker[w]) = 1 /\ Len(toMaster[w]) = 0 /\ wpc[w] # "work"
          \/ Len(toWorker[w]) = 0 /\ Len(toMaster[w]) = 0 /\ wpc[w] = "work"
          \/ Len(toWorker[w]) = 0 /\ Len(toMaster[w]) = 1 /\ wpc[w] # "work"
      BY <2>2, <2>4 DEF HasPackage, Silent
    <3>2. InTransit(w) = 1
      <4>1. CASE Len(toWorker[w]) = 1 /\ Len(toMaster[w]) = 0 /\ wpc[w] # "work"
        BY <4>1 DEF InTransit
      <4>2. CASE Len(toWorker[w]) = 0 /\ Len(toMaster[w]) = 0 /\ wpc[w] = "work"
        BY <4>2 DEF InTransit
      <4>3. CASE Len(toWorker[w]) = 0 /\ Len(toMaster[w]) = 1 /\ wpc[w] # "work"
        BY <4>3 DEF InTransit
      <4>. QED
        BY <3>1, <4>1, <4>2, <4>3
    <3>. QED
      BY <2>4, <3>2
  <2>. QED
    BY <2>1, <2>3, <2>4
<1>. QED
  BY <1>1, <1>2 DEF WorkerListExact, Free, Busy

\* WorkerListExact: whenever the master looks for a free worker or waits for
\* a result, a worker that worker_list marks has exactly one package, one that
\* it does not mark has none, and the counters agree with it.
THEOREM WorkerListTrue == Spec => []WorkerListExact
BY Invariant, ExactFromInv, PTL

LEMMA NothingLeftFromInv == IInv => NothingLeftOver
<1>. SUFFICES ASSUME IInv PROVE NothingLeftOver
  OBVIOUS
<1>1. ASSUME mpc \in Ending, NEW w \in Worker
      PROVE  toMaster[w] = <<>> /\ wpc[w] # "work"
  BY <1>1 DEF IInv, WorkerInv, HasEnded, HasNone, Silent
<1>2. ASSUME mpc \in Outside, NEW w \in Worker
      PROVE  toMaster[w] = <<>> /\ (wpc[w] = "ready" => toWorker[w] = <<>>)
  BY <1>2 DEF IInv, WorkerInv, HasEnded
<1>. QED
  BY <1>1, <1>2 DEF NothingLeftOver, Ending, Outside

\* NothingLeftOver: when the master ends an iteration no result is under way
\* and no package in work, and a worker that waits for the next iteration has
\* no message of the last one before it.
THEOREM NoMessageOutlives == Spec => []NothingLeftOver
BY Invariant, NothingLeftFromInv, PTL
----------------------------------------------------------------------------
(* What is in the packages.  Without predictions, distributing the cells over *)
(* the workers is the same as computing the field in place.                    *)

\* The cell that shuffleField puts at q.
CellAt(q) == CHOOSE c \in Cell : Slot(c) = q

\* What belongs at q after so many steps.
Result(q, steps) == [cell |-> CellAt(q), steps |-> steps]

\* The content of w's package: in the message to it, in the message from it,
\* or in its hands.
Load(w) ==
  IF toWorker[w] # <<>> THEN Head(toWorker[w]).data
  ELSE IF toMaster[w] # <<>> THEN Head(toMaster[w])
  ELSE wp[w].data

Size(w) == Len(Load(w))

\* The part of the buffer it was cut out of.
Segment(w) == send_addr[w] .. send_addr[w] + Size(w) - 1

\* 1 once the package has been computed.
Computed(w) == IF toMaster[w] # <<>> THEN 1 ELSE 0

LoadRight(w) ==
  /\ send_addr[w] \in Nat
  /\ Size(w) \in Nat
  /\ send_addr[w] + Size(w) <= work_pointer
  /\ Load(w) = [i \in 1 .. Size(w) |->
                  Result(send_addr[w] + i - 1, iteration + Computed(w))]

\* The result of the cell at q is back.
Returned(q) ==
  /\ q < work_pointer
  /\ \A w \in Worker : Given(w) => q \notin Segment(w)

FieldInv ==
  /\ iteration \in Nat
  /\ field = [c \in Cell |->
       [cell |-> c, steps |-> IF mpc \in Ending THEN iteration + 1 ELSE iteration]]

\* The master is at the end of the packages it has sent.
PointerInv ==
  /\ count_pkgs \in Nat
  /\ count_pkgs + pkg_to_send = IF mpc = "sending" THEN n_packages + 1 ELSE n_packages
  /\ work_pointer = SizesBefore(NCells, n_packages, count_pkgs)

LoadsInv == \A w \in Worker : Given(w) => LoadRight(w)

DisjointInv ==
  \A w, v \in Worker :
    Given(w) /\ Given(v) /\ w # v => Segment(w) \cap Segment(v) = {}

BufferInv ==
  /\ DOMAIN buffer = Cell
  /\ \A q \in Cell :
       buffer[q] = Result(q, IF Returned(q) THEN iteration + 1 ELSE iteration)

\* The inductive invariant of the content.  It is the packages' addresses that
\* need it: a result is right only if it is put back where its package was cut
\* out, and no other package touches that place.
DataInv ==
  /\ FieldInv
  /\ DOMAIN send_addr = Worker /\ DOMAIN wp = Worker
  /\ mpc \in Looping =>
       PointerInv /\ LoadsInv /\ DisjointInv /\ BufferInv
----------------------------------------------------------------------------
(* The shuffled field                                                      *)

LEMMA PackagesPositive == NCells \in Nat /\ n_packages \in Nat \ {0}
BY SizeAssumption, NPackagesType DEF n_packages

\* CellAt undoes Slot.
LEMMA SlotInverse ==
  /\ \A c \in Cell : Slot(c) \in Cell /\ CellAt(Slot(c)) = c
  /\ \A q \in Cell : CellAt(q) \in Cell /\ Slot(CellAt(q)) = q
<1>1. \A c \in Cell : Slot(c) \in Cell
  BY PackagesPositive, PositionType DEF Slot, Cell
<1>2. \A c, d \in Cell : Slot(c) = Slot(d) => c = d
  BY PackagesPositive, ShuffleIsPermutation DEF Slot, Cell
<1>3. \A q \in Cell : \E c \in Cell : Slot(c) = q
  BY PackagesPositive, ShuffleIsPermutation DEF Slot, Cell
<1>4. \A q \in Cell : CellAt(q) \in Cell /\ Slot(CellAt(q)) = q
  BY <1>3 DEF CellAt
<1>. QED
  BY <1>1, <1>2, <1>4

\* The number of elements of a sequence given by its elements.
LEMMA LenOf ==
  ASSUME NEW n \in Nat, NEW s, DOMAIN s = 1 .. n
  PROVE  Len(s) = n
OBVIOUS

\* Computing a cell takes what belongs there one step further.
LEMMA AdvanceResult ==
  ASSUME NEW q, NEW k \in Nat
  PROVE  Advance(Result(q, k)) = Result(q, k + 1)
BY DEF Advance, Result

LEMMA PointerType ==
  ASSUME PointerInv
  PROVE  work_pointer \in 0 .. NCells
BY PackagesPositive, SizesBeforeNext DEF PointerInv
----------------------------------------------------------------------------
(* The steps of the master                                                 *)

LEMMA InitData == Init => DataInv
<1>. SUFFICES ASSUME Init PROVE DataInv
  OBVIOUS
<1>1. mpc = "ready"
  BY DEF Init
<1>2. FieldInv
  BY <1>1 DEF Init, FieldInv, Ending
<1>3. DOMAIN send_addr = Worker /\ DOMAIN wp = Worker
  BY DEF Init
<1>. QED
  BY <1>1, <1>2, <1>3 DEF DataInv, Looping

\* Outside the loop only the field counts.
LEMMA OutsideData ==
  ASSUME DataInv, FieldInv', mpc' \notin Looping,
         UNCHANGED <<send_addr, wp>>
  PROVE  DataInv'
BY DEF DataInv

\* If every load stays where and what it was, so does the rest.
LEMMA LoadFrame ==
  ASSUME DataInv, mpc \in Looping, mpc' \in Looping,
         UNCHANGED <<iteration, buffer, work_pointer, send_addr>>,
         \A w \in Worker :
           /\ Given(w)' <=> Given(w)
           /\ Given(w) => LoadRight(w)' /\ Size(w)' = Size(w)
  PROVE  LoadsInv' /\ DisjointInv' /\ BufferInv'
<1>1. LoadsInv'
  BY DEF LoadsInv
<1>2. \A w \in Worker : Given(w) => Segment(w)' = Segment(w)
  BY DEF Segment
<1>3. DisjointInv'
  BY <1>2 DEF DisjointInv, DataInv
<1>4. \A q \in Cell : Returned(q)' <=> Returned(q)
  BY <1>2 DEF Returned
<1>5. BufferInv'
  BY <1>4 DEF BufferInv, DataInv
<1>. QED
  BY <1>1, <1>3, <1>5

\* shuffleField puts every cell at its place; nothing has been sent yet.
LEMMA StartLoopData == IInv /\ DataInv /\ StartLoop => DataInv'
<1>. SUFFICES ASSUME IInv, DataInv, StartLoop PROVE DataInv'
  OBVIOUS
<1>1. /\ mpc = "barrier" /\ mpc' = "send"
      /\ count_pkgs' = 0 /\ work_pointer' = 0 /\ pkg_to_send' = n_packages
      /\ buffer' = [q \in Cell |-> field[CellAt(q)]]
      /\ has_work' = [w \in Worker |-> FALSE]
      /\ send_addr' = [w \in Worker |-> 0]
      /\ UNCHANGED <<field, iteration, wp>>
  BY DEF StartLoop, CellAt
<1>2. FieldInv'
  BY <1>1 DEF DataInv, FieldInv, Ending
<1>3. PointerInv'
  BY <1>1, PackagesPositive, SizesBeforeEnds DEF PointerInv
<1>4. \A w \in Worker : ~Given(w)'
  BY <1>1 DEF Given
<1>5. LoadsInv' /\ DisjointInv'
  BY <1>4 DEF LoadsInv, DisjointInv
<1>6. BufferInv'
  <2>1. \A q \in Cell : ~Returned(q)'
    BY <1>1 DEF Returned, Cell
  <2>2. \A q \in Cell : buffer'[q] = [cell |-> CellAt(q), steps |-> iteration]
    BY <1>1, SlotInverse DEF DataInv, FieldInv, Ending
  <2>3. DOMAIN buffer' = Cell
    BY <1>1
  <2>. QED
    BY <1>1, <2>1, <2>2, <2>3 DEF BufferInv, Result
<1>. QED
  BY <1>1, <1>2, <1>3, <1>5, <1>6 DEF DataInv

LEMMA PackageSentData == IInv /\ DataInv /\ PackageSent => DataInv'
<1>. SUFFICES ASSUME IInv, DataInv, PackageSent PROVE DataInv'
  OBVIOUS
<1>1. /\ mpc = "sending" /\ mpc' = "send" /\ p \in Worker
      /\ pkg_to_send' = pkg_to_send - 1
      /\ has_work' = [has_work EXCEPT ![p] = TRUE]
      /\ UNCHANGED <<field, iteration, buffer, count_pkgs, work_pointer, send_addr,
                     wp, toWorker, toMaster>>
  BY DEF PackageSent, workerVars, channels, IInv, CountInv, Free
<1>2. FieldInv'
  BY <1>1 DEF DataInv, FieldInv, Ending
<1>3. PointerInv'
  <2>1. count_pkgs \in Nat /\ pkg_to_send \in Nat /\ count_pkgs + pkg_to_send = n_packages + 1
    BY <1>1 DEF DataInv, PointerInv, Looping, IInv, ControlType
  <2>2. count_pkgs' + pkg_to_send' = n_packages
    BY <1>1, <2>1, PackagesPositive
  <2>. QED
    BY <1>1, <2>1, <2>2 DEF DataInv, PointerInv, Looping
<1>4. \A w \in Worker :
        /\ Given(w)' <=> Given(w)
        /\ Given(w) => LoadRight(w)' /\ Size(w)' = Size(w)
  <2>1. \A w \in Worker : Given(w)' <=> Given(w)
    BY <1>1 DEF Given, IInv, ControlType
  <2>2. \A w \in Worker : Given(w) => LoadRight(w)
    BY <1>1 DEF DataInv, LoadsInv, Looping
  <2>3. \A w \in Worker : Load(w)' = Load(w) /\ Size(w)' = Size(w) /\ Computed(w)' = Computed(w)
    BY <1>1 DEF Load, Size, Computed
  <2>. QED
    BY <1>1, <2>1, <2>2, <2>3 DEF LoadRight
<1>5. LoadsInv' /\ DisjointInv' /\ BufferInv'
  BY <1>1, <1>4, LoadFrame DEF Looping
<1>. QED
  BY <1>1, <1>2, <1>3, <1>5 DEF DataInv

LEMMA LoopStepsData ==
  IInv /\ DataInv /\ (SkipWorker \/ StartRecv \/ ProbeFails) => DataInv'
<1>. SUFFICES ASSUME IInv, DataInv, SkipWorker \/ StartRecv \/ ProbeFails
              PROVE  DataInv'
  OBVIOUS
<1>1. /\ mpc \in {"send", "recv"} /\ mpc' \in {"send", "recv"}
      /\ UNCHANGED <<field, iteration, buffer, count_pkgs, work_pointer, pkg_to_send,
                     has_work, send_addr, wp, toWorker, toMaster>>
  BY DEF SkipWorker, StartRecv, ProbeFails, workerVars, channels
<1>2. FieldInv' /\ PointerInv'
  BY <1>1 DEF DataInv, FieldInv, PointerInv, Looping, Ending
<1>3. \A w \in Worker :
        /\ Given(w)' <=> Given(w)
        /\ Given(w) => LoadRight(w)' /\ Size(w)' = Size(w)
  <2>1. \A w \in Worker : Given(w)' <=> Given(w)
    BY <1>1 DEF Given
  <2>2. \A w \in Worker : Given(w) => LoadRight(w)
    BY <1>1 DEF DataInv, LoadsInv, Looping
  <2>3. \A w \in Worker : Load(w)' = Load(w) /\ Size(w)' = Size(w) /\ Computed(w)' = Computed(w)
    BY <1>1 DEF Load, Size, Computed
  <2>. QED
    BY <1>1, <2>1, <2>2, <2>3 DEF LoadRight
<1>4. LoadsInv' /\ DisjointInv' /\ BufferInv'
  BY <1>1, <1>3, LoadFrame DEF Looping
<1>. QED
  BY <1>1, <1>2, <1>4 DEF DataInv

\* A package is cut out behind the ones sent before, and still as it was.
LEMMA SendPackageData == IInv /\ DataInv /\ SendPackage => DataInv'
<1>. SUFFICES ASSUME IInv, DataInv, SendPackage PROVE DataInv'
  OBVIOUS
<1>. DEFINE size == PackageSize(NCells, n_packages, count_pkgs)
            data == [i \in 1 .. size |-> buffer[work_pointer + i - 1]]
            start == SizesBefore(NCells, n_packages, count_pkgs + 1)
<1>1. /\ mpc = "send" /\ mpc' = "sending" /\ p \in Worker /\ ~has_work[p]
      /\ toWorker' = [toWorker EXCEPT ![p] = Append(@, Work(data, start))]
      /\ work_pointer' = work_pointer + size
      /\ count_pkgs' = count_pkgs + 1
      /\ send_addr' = [send_addr EXCEPT ![p] = work_pointer]
      /\ UNCHANGED <<field, iteration, buffer, p, pkg_to_send, has_work, wp, toMaster>>
  BY SizeAssumption DEF SendPackage, workerVars, IInv, ControlType, Worker, IsFree
<1>2. FieldInv'
  BY <1>1 DEF DataInv, FieldInv, Ending
<1>3. PointerInv /\ LoadsInv /\ DisjointInv /\ BufferInv
  BY <1>1 DEF DataInv, Looping
<1>4. /\ work_pointer \in 0 .. NCells /\ size \in 0 .. NCells
      /\ work_pointer + size = start /\ start \in 0 .. NCells
  BY <1>3, PackagesPositive, SizesBeforeNext DEF PointerInv
<1>5. PointerInv'
  <2>1. count_pkgs' \in Nat /\ work_pointer' = SizesBefore(NCells, n_packages, count_pkgs')
    BY <1>1, <1>3, <1>4 DEF PointerInv
  <2>2. count_pkgs + pkg_to_send = n_packages /\ count_pkgs \in Nat /\ pkg_to_send \in Nat
    BY <1>1, <1>3 DEF PointerInv, IInv, ControlType
  <2>3. count_pkgs' + pkg_to_send' = n_packages + 1
    BY <1>1, <2>2
  <2>. QED
    BY <1>1, <2>1, <2>3 DEF PointerInv
<1>6. ~Given(p) /\ HasNone(p)
  BY <1>1 DEF Given, IInv, WorkerInv, Looping
<1>7. /\ Given(p)'
      /\ \A w \in Worker \ {p} :
           /\ Given(w)' <=> Given(w)
           /\ Load(w)' = Load(w)
           /\ Size(w)' = Size(w)
           /\ Computed(w)' = Computed(w)
           /\ send_addr'[w] = send_addr[w]
  <2>1. \A w \in Worker \ {p} : toWorker'[w] = toWorker[w] /\ send_addr'[w] = send_addr[w]
    BY <1>1 DEF IInv, ControlType, DataInv
  <2>. QED
    BY <1>1, <2>1 DEF Given, Load, Size, Computed
<1>8. send_addr'[p] = work_pointer /\ Load(p)' = data /\ Size(p)' = size /\ Computed(p)' = 0
  <2>. HIDE DEF data, start, size
  <2>1. toWorker'[p] = Append(<<>>, Work(data, start))
    BY <1>1, <1>6 DEF HasNone, Silent, IInv, ControlType
  <2>2. toWorker'[p] # <<>> /\ Head(toWorker'[p]).data = data
    BY <2>1, AppendOne DEF One, Work
  <2>3. Load(p)' = data
    BY <1>1, <2>2 DEF Load
  <2>4. Len(data) = size
    BY <1>4, LenOf DEF data
  <2>5. Computed(p)' = 0
    BY <1>1, <1>6 DEF Computed, HasNone, Silent
  <2>6. send_addr'[p] = work_pointer
    BY <1>1 DEF DataInv
  <2>. QED
    BY <2>3, <2>4, <2>5, <2>6 DEF Size
<1>. HIDE DEF start
<1>9. LoadsInv'
  <2>1. ASSUME NEW w \in Worker, w # p, Given(w)' PROVE LoadRight(w)'
    <3>1. LoadRight(w)
      BY <1>3, <1>7, <2>1 DEF LoadsInv
    <3>2. send_addr[w] + Size(w) <= work_pointer'
      BY <1>1, <1>4, <3>1 DEF LoadRight
    <3>. QED
      BY <1>1, <1>7, <2>1, <3>1, <3>2 DEF LoadRight
  <2>2. LoadRight(p)'
    <3>1. ASSUME NEW i \in 1 .. size
          PROVE  data[i] = Result(work_pointer + i - 1, iteration)
      <4>1. work_pointer + i - 1 \in Cell /\ ~(work_pointer + i - 1 < work_pointer)
        BY <1>4, PackagesPositive DEF Cell
      <4>2. buffer[work_pointer + i - 1] = Result(work_pointer + i - 1, iteration)
        BY <1>3, <4>1 DEF BufferInv, Returned
      <4>. QED
        BY <4>2
    <3>2. data = [i \in 1 .. size |-> Result(work_pointer + i - 1, iteration)]
      BY <3>1
    <3>3. iteration + 0 = iteration
      BY DEF DataInv, FieldInv
    <3>. HIDE DEF data, size
    <3>. QED
      BY <1>1, <1>4, <1>8, <3>2, <3>3 DEF LoadRight
  <2>. QED
    BY <1>1, <2>1, <2>2 DEF LoadsInv
<1>. HIDE DEF data, size
<1>10. Segment(p)' = work_pointer .. work_pointer + size - 1
  BY <1>1, <1>8 DEF Segment
<1>11. \A w \in Worker \ {p} : Segment(w)' = Segment(w)
  BY <1>7 DEF Segment
<1>12. \A w \in Worker \ {p} : Given(w) => \A q \in Segment(w) : q < work_pointer
  BY <1>3, <1>4 DEF LoadsInv, LoadRight, Segment
<1>13. DisjointInv'
  <2>1. ASSUME NEW w \in Worker \ {p}, Given(w)
        PROVE  Segment(w)' \cap Segment(p)' = {}
    BY <1>4, <1>10, <1>11, <1>12, <2>1
  <2>2. ASSUME NEW w \in Worker \ {p}, NEW v \in Worker \ {p}, Given(w), Given(v), w # v
        PROVE  Segment(w)' \cap Segment(v)' = {}
    BY <1>3, <1>11, <2>2 DEF DisjointInv
  <2>. QED
    BY <1>1, <1>7, <2>1, <2>2 DEF DisjointInv
<1>14. BufferInv'
  <2>1. ASSUME NEW q \in Cell PROVE Returned(q)' <=> Returned(q)
    <3>1. q \in Segment(p)' <=> work_pointer <= q /\ q < work_pointer'
      BY <1>1, <1>4, <1>10 DEF Cell
    <3>2. q < work_pointer => q < work_pointer'
      BY <1>1, <1>4 DEF Cell
    <3>3. work_pointer <= q <=> ~(q < work_pointer)
      BY <1>4 DEF Cell
    <3>. QED
      BY <1>1, <1>6, <1>7, <1>11, <3>1, <3>2, <3>3 DEF Returned
  <2>. QED
    BY <1>1, <1>3, <2>1 DEF BufferInv
<1>. QED
  BY <1>1, <1>2, <1>5, <1>9, <1>13, <1>14 DEF DataInv

\* The results go where the package came from, and nowhere else.
LEMMA RecvResultData ==
  ASSUME IInv, DataInv, NEW w \in Worker, RecvResult(w)
  PROVE  DataInv'
<1>1. /\ mpc = "recv" /\ mpc' = "recv" /\ toMaster[w] # <<>>
      /\ LET data == Head(toMaster[w])
             a == send_addr[w]
         IN  buffer' = [q \in Cell |-> IF q \in a .. a + Len(data) - 1
                                       THEN data[q - a + 1] ELSE buffer[q]]
      /\ toMaster' = [toMaster EXCEPT ![w] = Tail(@)]
      /\ has_work' = [has_work EXCEPT ![w] = FALSE]
      /\ UNCHANGED <<field, iteration, p, count_pkgs, work_pointer, pkg_to_send,
                     send_addr, wp, toWorker>>
  BY DEF RecvResult, workerVars
<1>2. FieldInv' /\ PointerInv'
  BY <1>1 DEF DataInv, FieldInv, PointerInv, Looping, Ending
<1>3. LoadsInv /\ DisjointInv /\ BufferInv
  BY <1>1 DEF DataInv, Looping
<1>4. Given(w) /\ toWorker[w] = <<>>
  BY <1>1 DEF IInv, WorkerInv, HasNone, HasPackage, Silent, Looping
<1>5. /\ ~Given(w)'
      /\ \A v \in Worker \ {w} :
           /\ Given(v)' <=> Given(v)
           /\ Load(v)' = Load(v)
           /\ Size(v)' = Size(v)
           /\ Computed(v)' = Computed(v)
  <2>1. ~has_work'[w] /\ \A v \in Worker \ {w} :
          toMaster'[v] = toMaster[v] /\ has_work'[v] = has_work[v]
    BY <1>1 DEF IInv, ControlType
  <2>. QED
    BY <1>1, <2>1 DEF Given, Load, Size, Computed
<1>6. LoadsInv'
  <2>1. ASSUME NEW v \in Worker \ {w}, Given(v) PROVE LoadRight(v)'
    <3>1. LoadRight(v)
      BY <1>3, <2>1 DEF LoadsInv
    <3>. QED
      BY <1>1, <1>5, <3>1 DEF LoadRight
  <2>. QED
    BY <1>5, <2>1 DEF LoadsInv
<1>7. \A v \in Worker \ {w} : Segment(v)' = Segment(v)
  BY <1>1, <1>5 DEF Segment
<1>8. DisjointInv'
  BY <1>3, <1>5, <1>7 DEF DisjointInv
<1>9. BufferInv'
  <2>1. Load(w) = Head(toMaster[w]) /\ Computed(w) = 1
    BY <1>1, <1>4 DEF Load, Computed
  <2>2. /\ send_addr[w] \in Nat /\ Size(w) \in Nat
        /\ send_addr[w] + Size(w) <= work_pointer
        /\ Load(w) = [i \in 1 .. Size(w) |-> Result(send_addr[w] + i - 1, iteration + 1)]
    BY <1>3, <1>4, <2>1 DEF LoadsInv, LoadRight
  <2>3. buffer' = [q \in Cell |-> IF q \in Segment(w) THEN Load(w)[q - send_addr[w] + 1]
                                  ELSE buffer[q]]
    BY <1>1, <2>1 DEF Segment, Size
  <2>4. work_pointer \in 0 .. NCells
    BY <1>1, PointerType DEF DataInv, Looping
  <2>5. ASSUME NEW q \in Cell, q \in Segment(w)
        PROVE  buffer'[q] = Result(q, iteration + 1) /\ Returned(q)'
    <3>1. q \in Int /\ q - send_addr[w] + 1 \in 1 .. Size(w) /\ q < work_pointer
      BY <2>2, <2>4, <2>5 DEF Segment, Cell
    <3>2. Load(w)[q - send_addr[w] + 1] =
            Result(send_addr[w] + (q - send_addr[w] + 1) - 1, iteration + 1)
      BY <2>2, <3>1
    <3>3. send_addr[w] + (q - send_addr[w] + 1) - 1 = q
      BY <2>2, <3>1
    <3>4. \A v \in Worker \ {w} : Given(v) => q \notin Segment(v)
      BY <1>3, <1>4, <2>5 DEF DisjointInv
    <3>. QED
      BY <1>1, <1>5, <1>7, <2>3, <2>5, <3>1, <3>2, <3>3, <3>4 DEF Returned
  <2>6. ASSUME NEW q \in Cell, q \notin Segment(w)
        PROVE  buffer'[q] = buffer[q] /\ (Returned(q)' <=> Returned(q))
    BY <1>1, <1>5, <1>7, <2>3, <2>6 DEF Returned
  <2>7. DOMAIN buffer' = Cell
    BY <2>3
  <2>. QED
    BY <1>1, <1>3, <2>5, <2>6, <2>7 DEF BufferInv
<1>. QED
  BY <1>1, <1>2, <1>6, <1>8, <1>9 DEF DataInv

\* When the last result is in, every place of the buffer has been returned.
LEMMA AllReturned ==
  ASSUME IInv, DataInv, mpc = "recv", AllReceived
  PROVE  \A q \in Cell : Returned(q)
<1>1. PointerInv
  BY DEF DataInv, Looping
<1>2. pkg_to_recv = 0 /\ pkg_to_recv = pkg_to_send + Cardinality(Busy) /\ pkg_to_send \in Nat
  BY DEF IInv, CountInv, ControlType, AllReceived, Looping
<1>3. pkg_to_send = 0 /\ Cardinality(Busy) = 0
  BY <1>2, WorkersFinite
<1>4. Busy = {}
  BY <1>3, WorkersFinite, FS_EmptySet
<1>5. \A w \in Worker : ~Given(w)
  BY <1>4 DEF Busy, Given
<1>6. count_pkgs = n_packages
  BY <1>1, <1>3, PackagesPositive DEF PointerInv
<1>7. work_pointer = NCells
  BY <1>1, <1>6, PackagesPositive, SizesBeforeEnds DEF PointerInv
<1>8. \A q \in Cell : q < NCells
  BY PackagesPositive DEF Cell
<1>. QED
  BY <1>5, <1>7, <1>8 DEF Returned

\* The unshuffled field is the old one with every cell advanced.
LEMMA UnshuffleField ==
  ASSUME IInv, DataInv, Unshuffle
  PROVE  /\ field' = [c \in Cell |-> [cell |-> c, steps |-> iteration + 1]]
         /\ field = [c \in Cell |-> [cell |-> c, steps |-> iteration]]
<1>1. mpc = "recv" /\ AllReceived /\ field' = [c \in Cell |-> buffer[Slot(c)]]
  BY DEF Unshuffle
<1>2. BufferInv /\ field = [c \in Cell |-> [cell |-> c, steps |-> iteration]]
  BY <1>1 DEF DataInv, FieldInv, Looping, Ending
<1>3. ASSUME NEW c \in Cell
      PROVE  buffer[Slot(c)] = [cell |-> c, steps |-> iteration + 1]
  <2>1. Slot(c) \in Cell /\ CellAt(Slot(c)) = c
    BY SlotInverse
  <2>2. Returned(Slot(c))
    BY <1>1, <2>1, AllReturned
  <2>. QED
    BY <1>2, <2>1, <2>2 DEF BufferInv, Result
<1>. QED
  BY <1>1, <1>2, <1>3

LEMMA UnshuffleData == IInv /\ DataInv /\ Unshuffle => DataInv'
<1>. SUFFICES ASSUME IInv, DataInv, Unshuffle PROVE DataInv'
  OBVIOUS
<1>1. mpc' = "end" /\ UNCHANGED <<iteration, send_addr, wp>>
  BY DEF Unshuffle, workerVars
<1>2. FieldInv'
  BY <1>1, UnshuffleField DEF FieldInv, DataInv, Ending
<1>. QED
  BY <1>1, <1>2, OutsideData DEF Looping

\* The steps between two loops.
LEMMA OutsideStepsData ==
  ASSUME AISurrogate = FALSE, DataInv,
         Predict \/ SendEnd \/ EndSent \/ Return \/ LoopBreak
  PROVE  DataInv'
<1>1. UNCHANGED <<field, send_addr, wp>>
  BY DEF Predict, SendEnd, EndSent, Return, LoopBreak, workerVars
<1>2. mpc' \notin Looping
  BY DEF Predict, SendEnd, EndSent, Return, LoopBreak, Looping
<1>3. CASE Return
  BY <1>1, <1>2, <1>3, OutsideData DEF Return, DataInv, FieldInv, Ending
<1>4. CASE Predict \/ SendEnd \/ EndSent \/ LoopBreak
  <2>1. iteration' = iteration /\ (mpc' \in Ending <=> mpc \in Ending)
    BY <1>4 DEF Predict, SendEnd, EndSent, LoopBreak, Ending
  <2>2. FieldInv'
    BY <1>1, <2>1 DEF DataInv, FieldInv
  <2>. QED
    BY <1>1, <1>2, <2>2, OutsideData
<1>. QED
  BY <1>3, <1>4
----------------------------------------------------------------------------
(* The steps of a worker                                                   *)

\* What the master knows stays; so it is enough that the load of the worker is
\* right after its step.
LEMMA WorkerData ==
  ASSUME IInv, DataInv, NEW w \in Worker, OnlyWorker(w),
         UNCHANGED <<field, iteration, buffer, count_pkgs, work_pointer, send_addr>>,
         DOMAIN wp' = Worker, \A v \in Worker \ {w} : wp'[v] = wp[v],
         HasPackage(w) /\ LoadRight(w) => LoadRight(w)' /\ Size(w)' = Size(w)
  PROVE  DataInv'
<1>1. UNCHANGED <<mpc, p, pkg_to_send, has_work>>
  BY DEF OnlyWorker
<1>2. FieldInv' /\ (mpc \in Looping => PointerInv')
  BY <1>1 DEF DataInv, FieldInv, PointerInv
<1>3. ASSUME mpc \in Looping
      PROVE  LoadsInv' /\ DisjointInv' /\ BufferInv'
  <2>1. \A v \in Worker : Given(v)' <=> Given(v)
    BY <1>1 DEF Given
  <2>2. ASSUME NEW v \in Worker, Given(v)
        PROVE  LoadRight(v)' /\ Size(v)' = Size(v)
    <3>1. LoadRight(v) /\ HasPackage(v)
      BY <1>3, <2>2 DEF DataInv, LoadsInv, IInv, WorkerInv
    <3>2. CASE v = w
      BY <3>1, <3>2
    <3>3. CASE v # w
      <4>1. Load(v)' = Load(v) /\ Size(v)' = Size(v) /\ Computed(v)' = Computed(v)
        BY <3>3 DEF OnlyWorker, Load, Size, Computed
      <4>. QED
        BY <3>1, <4>1 DEF LoadRight
    <3>. QED
      BY <3>2, <3>3
  <2>. QED
    BY <1>1, <1>3, <2>1, <2>2, LoadFrame
<1>. QED
  BY <1>1, <1>2, <1>3 DEF DataInv

\* The worker takes the package out of the message.
LEMMA RecvWorkData ==
  ASSUME IInv, DataInv, NEW w \in Worker, RecvWork(w)
  PROVE  DataInv'
<1>1. /\ wpc[w] = "probe" /\ toWorker[w] # <<>>
      /\ wp' = [wp EXCEPT ![w] = [data |-> Head(toWorker[w]).data,
                                  start |-> Head(toWorker[w]).start]]
      /\ toWorker' = [toWorker EXCEPT ![w] = Tail(@)]
      /\ wpc' = [wpc EXCEPT ![w] = "work"]
      /\ UNCHANGED <<mpc, p, pkg_to_send, pkg_to_recv, free_workers, has_work,
                     toMaster, field, iteration, buffer, count_pkgs, work_pointer,
                     send_addr>>
  BY DEF RecvWork, masterVars
<1>2. OnlyWorker(w)
  BY <1>1 DEF OnlyWorker, IInv, ControlType
<1>3. DOMAIN wp' = Worker /\ \A v \in Worker \ {w} : wp'[v] = wp[v]
  BY <1>1 DEF DataInv
<1>4. ASSUME HasPackage(w), LoadRight(w)
      PROVE  LoadRight(w)' /\ Size(w)' = Size(w)
  <2>1. One(toWorker[w]) /\ toMaster[w] = <<>>
    BY <1>1, <1>4 DEF HasPackage, Silent
  <2>2. toWorker'[w] = <<>> /\ toMaster'[w] = <<>>
    BY <1>1, <2>1, TailOne DEF IInv, ControlType
  <2>3. wp'[w].data = Head(toWorker[w]).data
    BY <1>1 DEF DataInv
  <2>4. Load(w)' = Load(w) /\ Size(w)' = Size(w) /\ Computed(w)' = Computed(w)
    BY <1>1, <2>1, <2>2, <2>3 DEF Load, Size, Computed
  <2>. QED
    BY <1>1, <1>4, <2>4 DEF LoadRight
<1>. QED
  BY <1>1, <1>2, <1>3, <1>4, WorkerData

\* Without predictions every cell of the package is computed.
LEMMA DoWorkData ==
  ASSUME AISurrogate = FALSE, IInv, DataInv, NEW w \in Worker, DoWork(w)
  PROVE  DataInv'
<1>1. PICK data \in Outputs(wp[w]) : toMaster' = [toMaster EXCEPT ![w] = Append(@, data)]
  BY DEF DoWork
<1>2. /\ wpc[w] = "work" /\ wpc' = [wpc EXCEPT ![w] = "fill"]
      /\ UNCHANGED <<mpc, p, pkg_to_send, pkg_to_recv, free_workers, has_work,
                     toWorker, wp, field, iteration, buffer, count_pkgs,
                     work_pointer, send_addr>>
  BY DEF DoWork, masterVars
<1>3. OnlyWorker(w)
  BY <1>1, <1>2 DEF OnlyWorker, IInv, ControlType
<1>4. data = [i \in 1 .. Len(wp[w].data) |-> Advance(wp[w].data[i])]
  BY <1>1 DEF Outputs, PredictionStays, Accepted
<1>5. ASSUME HasPackage(w), LoadRight(w)
      PROVE  LoadRight(w)' /\ Size(w)' = Size(w)
  <2>1. toWorker[w] = <<>> /\ toMaster[w] = <<>>
    BY <1>2, <1>5 DEF HasPackage, Silent
  <2>2. Load(w) = wp[w].data /\ Computed(w) = 0 /\ Size(w) = Len(wp[w].data)
    BY <2>1 DEF Load, Computed, Size
  <2>3. toMaster'[w] = Append(<<>>, data)
    BY <1>1, <2>1 DEF IInv, ControlType
  <2>4. toMaster'[w] # <<>> /\ Head(toMaster'[w]) = data
    BY <2>3, AppendOne DEF One
  <2>5. Load(w)' = data /\ Computed(w)' = 1
    BY <1>2, <2>1, <2>4 DEF Load, Computed
  <2>6. Size(w) \in Nat /\ iteration \in Nat
    BY <1>5 DEF LoadRight, DataInv, FieldInv
  <2>7. Size(w)' = Size(w)
    BY <1>4, <2>2, <2>5, <2>6, LenOf DEF Size
  <2>8. ASSUME NEW i \in 1 .. Size(w)
        PROVE  data[i] = Result(send_addr[w] + i - 1, iteration + 1)
    <3>1. wp[w].data[i] = Result(send_addr[w] + i - 1, iteration)
      BY <1>5, <2>2, <2>6 DEF LoadRight
    <3>2. data[i] = Advance(wp[w].data[i])
      BY <1>4, <2>2
    <3>. QED
      BY <2>6, <3>1, <3>2, AdvanceResult
  <2>9. data = [i \in 1 .. Size(w) |-> Result(send_addr[w] + i - 1, iteration + 1)]
    BY <1>4, <2>2, <2>8
  <2>. QED
    BY <1>2, <1>5, <2>5, <2>7, <2>9 DEF LoadRight
<1>. QED
  BY <1>2, <1>3, <1>5, WorkerData DEF DataInv

\* The rest of a worker's steps touch no package.
LEMMA WorkerStepsData ==
  ASSUME IInv, DataInv, NEW w \in Worker, FinishWork(w) \/ RecvEnd(w) \/ PostIter(w)
  PROVE  DataInv'
<1>1. /\ UNCHANGED <<mpc, p, pkg_to_send, pkg_to_recv, free_workers, has_work,
                     toMaster, field, iteration, buffer, count_pkgs, work_pointer,
                     send_addr>>
      /\ wpc[w] # "work"
      /\ DOMAIN wp' = Worker /\ \A v \in Worker \ {w} : wp'[v] = wp[v]
  BY DEF FinishWork, RecvEnd, PostIter, masterVars, channels, DataInv
<1>2. OnlyWorker(w)
  BY <1>1 DEF FinishWork, RecvEnd, PostIter, channels, OnlyWorker, IInv, ControlType
<1>3. ASSUME HasPackage(w), LoadRight(w)
      PROVE  LoadRight(w)' /\ Size(w)' = Size(w)
  <2>1. toWorker' = toWorker
    <3>1. ~RecvEnd(w)
      BY <1>1, <1>3 DEF HasPackage, RecvEnd
    <3>. QED
      BY <3>1 DEF FinishWork, PostIter, channels
  <2>2. toWorker[w] # <<>> \/ toMaster[w] # <<>>
    BY <1>1, <1>3 DEF HasPackage, One
  <2>3. Load(w)' = Load(w) /\ Size(w)' = Size(w) /\ Computed(w)' = Computed(w)
    BY <1>1, <2>1, <2>2 DEF Load, Size, Computed
  <2>. QED
    BY <1>1, <1>3, <2>3 DEF LoadRight
<1>. QED
  BY <1>1, <1>2, <1>3, WorkerData
----------------------------------------------------------------------------
(* The theorems                                                            *)

LEMMA StepData ==
  ASSUME AISurrogate = FALSE
  PROVE  IInv /\ DataInv /\ [Next]_vars => DataInv'
<1>. SUFFICES ASSUME IInv, DataInv, [Next]_vars PROVE DataInv'
  OBVIOUS
<1>1. CASE MasterStep
  BY <1>1, SendPackageData, LoopStepsData, UnshuffleData, OutsideStepsData,
     StartLoopData DEF MasterStep
<1>2. CASE PackageSent \/ EndSent \/ ProbeFails
  BY <1>2, PackageSentData, OutsideStepsData, LoopStepsData
<1>3. ASSUME NEW w \in Worker, RecvResult(w) \/ WorkerStep(w) \/ FinishWork(w)
      PROVE  DataInv'
  BY <1>3, RecvResultData, RecvWorkData, DoWorkData, WorkerStepsData DEF WorkerStep
<1>4. CASE UNCHANGED vars
  BY <1>4 DEF vars, DataInv, FieldInv, PointerInv, LoadsInv, DisjointInv, BufferInv,
         LoadRight, Given, Load, Size, Segment, Computed, Returned
<1>. QED
  BY <1>1, <1>2, <1>3, <1>4 DEF Next, Stopped

\* Every package carries the content of the cells it was cut out of, before or
\* after the step, and what has been put back is the result of its own cell.
THEOREM ContentRight ==
  ASSUME AISurrogate = FALSE
  PROVE  Spec => []DataInv
BY Invariant, InitData, StepData, PTL DEF Spec

LEMMA AdvancedFromInv == DataInv => FieldAdvanced
BY DEF DataInv, FieldInv, FieldAdvanced, Ending

\* FieldAdvanced: at the end of every iteration each cell has been advanced
\* exactly once, from its own content.
THEOREM CellsAdvanced ==
  ASSUME AISurrogate = FALSE
  PROVE  Spec => []FieldAdvanced
BY ContentRight, AdvancedFromInv, PTL

LEMMA SerialInit == Init => Serial!Init
BY DEF Init, Serial!Init

LEMMA SerialStep ==
  ASSUME AISurrogate = FALSE
  PROVE  IInv /\ DataInv /\ [Next]_vars => [Serial!Simulate]_field
<1>. SUFFICES ASSUME IInv, DataInv, [Next]_vars PROVE [Serial!Simulate]_field
  OBVIOUS
<1>1. CASE Unshuffle
  <2>1. /\ field' = [c \in Cell |-> [cell |-> c, steps |-> iteration + 1]]
        /\ field = [c \in Cell |-> [cell |-> c, steps |-> iteration]]
    BY <1>1, UnshuffleField
  <2>2. \A c \in Cell : Serial!Advance(field[c]) = [cell |-> c, steps |-> iteration + 1]
    BY <2>1 DEF Serial!Advance
  <2>. QED
    BY <2>1, <2>2 DEF Serial!Simulate
<1>2. CASE MasterStep /\ ~Unshuffle
  BY <1>2 DEF MasterStep, SendPackage, SkipWorker, StartRecv, SendEnd, Return,
         Predict, StartLoop, LoopBreak
<1>3. CASE PackageSent \/ EndSent \/ ProbeFails
  BY <1>3 DEF PackageSent, EndSent, ProbeFails
<1>4. ASSUME NEW w \in Worker, RecvResult(w) \/ WorkerStep(w) \/ FinishWork(w)
      PROVE  field' = field
  BY <1>4 DEF RecvResult, WorkerStep, RecvWork, DoWork, RecvEnd, PostIter, FinishWork
<1>5. CASE UNCHANGED vars
  BY <1>5 DEF vars
<1>. QED
  BY <1>1, <1>2, <1>3, <1>4, <1>5 DEF Next, Stopped

\* ImplementsSerial: whatever the order in which packages and results travel,
\* the field that simulate leaves behind is the one a single process computes.
THEOREM Refinement ==
  ASSUME AISurrogate = FALSE
  PROVE  Spec => ImplementsSerial
BY Invariant, ContentRight, SerialInit, SerialStep, PTL
   DEF Spec, ImplementsSerial, Serial!Spec
----------------------------------------------------------------------------
(* The type invariant.  It holds with predictions as well, so it cannot use  *)
(* what ContentRight says of the steps of a cell, and counts them itself.    *)

\* Contents of a cell after at most k steps.
UpTo(k) == [cell : Cell, steps : 0 .. k]

\* An iteration takes a cell two steps at most, a prediction and a result.
FieldSteps ==
  2 * iteration + (IF mpc \in Ending THEN 2
                   ELSE IF mpc \in {"ready", "stopped"} THEN 0 ELSE 1)
BufferSteps == 2 * iteration + (IF mpc \in Looping \cup Ending THEN 2 ELSE 0)

\* The scalars of the master.
MasterType ==
  /\ collective \in Collective
  /\ valid \in SUBSET Cell
  /\ to_send \in BOOLEAN
  /\ iteration \in 0 .. MaxIter
  /\ mpc \notin {"ready", "stopped"} => iteration < MaxIter
  /\ count_pkgs \in 0 .. n_packages
  /\ work_pointer \in 0 .. NCells
  /\ pkg_to_send \in 0 .. n_packages
  /\ pkg_to_recv \in 0 .. n_packages
  /\ free_workers \in 0 .. NWorkers
  /\ mpc \in Looping => PointerInv

\* A worker's own count is behind the master's only between Return and its
\* PostIter, and ahead of it only between its PostIter and Return.
IterType ==
  /\ witer \in [Worker -> 1 .. MaxIter + 1]
  /\ \A w \in Worker :
       /\ mpc \in Looping => witer[w] = iteration + 1
       /\ mpc \in Ending => witer[w] = iteration + (IF wpc[w] = "ready" THEN 2 ELSE 1)
       /\ mpc \in Outside => witer[w] = iteration + (IF wpc[w] = "ready" THEN 1 ELSE 0)

LoadType(w) ==
  /\ Size(w) \in 0 .. WPSize
  /\ send_addr[w] + Size(w) <= work_pointer
  /\ Load(w) \in [1 .. Size(w) -> UpTo(2 * iteration + 1 + Computed(w))]

\* What the packages hold, and the part of the buffer that has not been sent.
ContentType ==
  /\ field \in [Cell -> UpTo(FieldSteps)]
  /\ buffer \in [Cell -> UpTo(BufferSteps)]
  /\ send_addr \in [Worker -> 0 .. NCells - 1]
  /\ DOMAIN wp = Worker
  /\ \A w \in Worker :
       /\ Len(wp[w].data) \in 0 .. WPSize
       /\ wp[w].start \in 0 .. NCells
       /\ toWorker[w] # <<>> => Head(toWorker[w]).start \in 0 .. NCells
       /\ mpc = "stopped" => Silent(w)
  /\ mpc \in Looping =>
       /\ \A w \in Worker : Given(w) => LoadType(w)
       /\ \A q \in Cell : q >= work_pointer => buffer[q] \in UpTo(2 * iteration + 1)

TypeInv == MasterType /\ IterType /\ ContentType
----------------------------------------------------------------------------
LEMMA UpToGrows ==
  ASSUME NEW j \in Nat, NEW k \in Nat, j <= k
  PROVE  UpTo(j) \subseteq UpTo(k)
BY DEF UpTo

LEMMA AdvanceUpTo ==
  ASSUME NEW k \in Nat, NEW content \in UpTo(k)
  PROVE  Advance(content) \in UpTo(k + 1)
BY DEF UpTo, Advance

LEMMA InitTypeInv == Init => TypeInv
<1>. SUFFICES ASSUME Init PROVE TypeInv
  OBVIOUS
<1>1. mpc = "ready" /\ iteration = 0 /\ MaxIter \in Nat /\ NCells \in Nat \ {0}
      /\ NWorkers \in Nat /\ n_packages \in Nat /\ WPSize \in Nat
  BY SizeAssumption, PackagesPositive DEF Init
<1>2. MasterType
  <2>1. collective \in Collective /\ valid \in SUBSET Cell /\ to_send \in BOOLEAN
    BY DEF Init
  <2>2. /\ count_pkgs = 0 /\ work_pointer = 0 /\ pkg_to_send = 0 /\ pkg_to_recv = 0
        /\ free_workers = NWorkers
    BY DEF Init
  <2>3. mpc \notin Looping
    BY <1>1 DEF Looping
  <2>. QED
    BY <1>1, <2>1, <2>2, <2>3 DEF MasterType
<1>3. IterType
  BY <1>1 DEF Init, IterType, Looping, Ending, Outside
<1>4. ContentType
  <2>1. FieldSteps = 0 /\ BufferSteps = 0
    BY <1>1 DEF FieldSteps, BufferSteps, Looping, Ending
  <2>2. field \in [Cell -> UpTo(0)] /\ buffer \in [Cell -> UpTo(0)]
    BY DEF Init, UpTo
  <2>3. \A w \in Worker : Len(wp[w].data) = 0 /\ wp[w].start = 0 /\ toWorker[w] = <<>>
    BY DEF Init, NoPackage
  <2>4. send_addr \in [Worker -> 0 .. NCells - 1] /\ DOMAIN wp = Worker
    BY <1>1 DEF Init
  <2>. QED
    BY <1>1, <2>1, <2>2, <2>3, <2>4 DEF ContentType, Looping
<1>. QED
  BY <1>2, <1>3, <1>4 DEF TypeInv

\* The scalars.
LEMMA StepMaster == IInv /\ TypeInv /\ [Next]_vars => MasterType'
<1>. SUFFICES ASSUME IInv, TypeInv, [Next]_vars PROVE MasterType'
  OBVIOUS
<1>. DEFINE Others == UNCHANGED <<collective, valid, to_send, iteration, count_pkgs,
                                  work_pointer, pkg_to_send, pkg_to_recv, free_workers>>
<1>0. MasterType /\ ControlType /\ CountInv
  BY DEF TypeInv, IInv
<1>1. ASSUME UNCHANGED <<collective, iteration, count_pkgs, work_pointer, pkg_to_send,
                         pkg_to_recv, free_workers>>,
             valid' \in SUBSET Cell, to_send' \in BOOLEAN,
             mpc' \notin {"ready", "stopped"} => iteration < MaxIter,
             mpc' \in Looping => mpc \in Looping,
             mpc' = "sending" <=> mpc = "sending"
      PROVE  MasterType'
  BY <1>0, <1>1 DEF MasterType, PointerInv
<1>2. CASE Predict
  <2>1. valid' \in SUBSET Cell
    BY <1>0, <1>2, ModeAssumption DEF Predict, MasterType
  <2>. QED
    BY <1>0, <1>1, <1>2, <2>1 DEF Predict, MasterType, workerVars, Looping
<1>3. CASE StartLoop
  <2>1. n_packages \in Nat \ {0} /\ NCells \in Nat /\ NWorkers \in Nat
    BY PackagesPositive, SizeAssumption
  <2>2. SizesBefore(NCells, n_packages, 0) = 0
    BY <2>1, SizesBeforeEnds
  <2>3. PointerInv'
    BY <1>3, <2>1, <2>2 DEF StartLoop, PointerInv
  <2>. QED
    BY <1>0, <1>3, <2>1, <2>3 DEF StartLoop, MasterType
<1>4. CASE SendPackage
  <2>1. /\ mpc = "send" /\ mpc' = "sending" /\ pkg_to_send > 0
        /\ work_pointer' = work_pointer + PackageSize(NCells, n_packages, count_pkgs)
        /\ count_pkgs' = count_pkgs + 1
        /\ UNCHANGED <<collective, valid, to_send, iteration, pkg_to_send,
                       pkg_to_recv, free_workers>>
    BY <1>4 DEF SendPackage, workerVars
  <2>2. PointerInv /\ n_packages \in Nat \ {0} /\ NCells \in Nat
    BY <1>0, <2>1, PackagesPositive DEF MasterType, Looping
  <2>3. count_pkgs + 1 \in 0 .. n_packages /\ count_pkgs \in Nat
    BY <1>0, <2>1, <2>2 DEF PointerInv, MasterType
  <2>4. /\ SizesBefore(NCells, n_packages, count_pkgs + 1) = work_pointer'
        /\ SizesBefore(NCells, n_packages, count_pkgs + 1) \in 0 .. NCells
    BY <2>1, <2>2, <2>3, SizesBeforeNext DEF PointerInv
  <2>5. (count_pkgs + 1) + pkg_to_send = n_packages + 1
    BY <1>0, <2>1, <2>2, <2>3 DEF PointerInv, MasterType
  <2>6. PointerInv'
    BY <2>1, <2>3, <2>4, <2>5 DEF PointerInv
  <2>. QED
    BY <1>0, <2>1, <2>3, <2>4, <2>6 DEF MasterType
<1>5. CASE PackageSent
  <2>1. /\ mpc = "sending" /\ mpc' = "send" /\ pkg_to_send' = pkg_to_send - 1
        /\ free_workers' = free_workers - 1
        /\ UNCHANGED <<collective, valid, to_send, iteration, count_pkgs, work_pointer,
                       pkg_to_recv>>
    BY <1>5 DEF PackageSent, workerVars
  <2>2. pkg_to_send > 0 /\ p \in Free /\ free_workers = Cardinality(Free) /\ PointerInv
    BY <1>0, <2>1 DEF CountInv, MasterType, Looping
  <2>3. Cardinality(Free) \in Nat /\ Cardinality(Free) # 0
    BY <2>2, WorkersFinite, FS_EmptySet
  <2>4. pkg_to_send' \in 0 .. n_packages /\ free_workers' \in 0 .. NWorkers
    BY <1>0, <2>1, <2>2, <2>3, PackagesPositive, SizeAssumption DEF MasterType
  <2>5. PointerInv'
    BY <1>0, <2>1, <2>2, PackagesPositive DEF PointerInv, MasterType
  <2>. QED
    BY <1>0, <2>1, <2>4, <2>5 DEF MasterType
<1>6. ASSUME NEW w \in Worker, RecvResult(w)
      PROVE  MasterType'
  <2>1. /\ mpc = "recv" /\ mpc' = "recv" /\ ~AllReceived /\ toMaster[w] # <<>>
        /\ has_work' = [has_work EXCEPT ![w] = FALSE]
        /\ pkg_to_recv' = pkg_to_recv - 1
        /\ free_workers' = free_workers + 1
        /\ UNCHANGED <<collective, valid, to_send, iteration, count_pkgs, work_pointer,
                       pkg_to_send, p>>
    BY <1>6 DEF RecvResult, workerVars
  <2>2. Given(w)
    BY <2>1 DEF IInv, WorkerInv, HasNone, Silent, Looping
  <2>3. w \in Busy /\ free_workers = Cardinality(Free)
    BY <1>0, <2>1, <2>2 DEF Given, Busy, CountInv, Looping
  <2>4. free_workers' \in 0 .. NWorkers
    <3>1. Cardinality(Free') = Cardinality(Free) + 1
      BY <1>0, <2>1, <2>3, MarkFree DEF ControlType
    <3>2. IsFiniteSet(Worker) /\ Cardinality(Worker) = NWorkers /\ Free' \subseteq Worker
      BY SizeAssumption, FS_Interval DEF Worker, Free
    <3>3. Cardinality(Free') <= NWorkers /\ Cardinality(Free) \in Nat
      BY <3>2, FS_Subset, WorkersFinite
    <3>. QED
      BY <2>1, <2>3, <3>1, <3>3, SizeAssumption
  <2>5. pkg_to_recv' \in 0 .. n_packages
    BY <1>0, <2>1, PackagesPositive DEF MasterType, AllReceived
  <2>6. PointerInv'
    BY <1>0, <2>1 DEF PointerInv, MasterType, Looping
  <2>. QED
    BY <1>0, <2>1, <2>4, <2>5, <2>6 DEF MasterType
<1>7. CASE SkipWorker \/ StartRecv \/ ProbeFails \/ Unshuffle \/ SendEnd \/ EndSent
  <2>1. to_send' \in BOOLEAN
    <3>1. CASE StartRecv
      BY <3>1 DEF StartRecv
    <3>2. CASE SkipWorker \/ ProbeFails \/ Unshuffle \/ SendEnd \/ EndSent
      <4>1. to_send' = to_send
        BY <3>2 DEF SkipWorker, ProbeFails, Unshuffle, SendEnd, EndSent
      <4>. QED
        BY <1>0, <4>1 DEF MasterType
    <3>. QED
      BY <1>7, <3>1, <3>2
  <2>2. /\ UNCHANGED <<collective, valid, iteration, count_pkgs, work_pointer, pkg_to_send,
                       pkg_to_recv, free_workers>>
        /\ mpc \notin {"ready", "stopped", "sending"} /\ mpc' # "sending"
        /\ mpc' \in Looping => mpc \in Looping
    BY <1>7 DEF SkipWorker, StartRecv, ProbeFails, Unshuffle, SendEnd, EndSent,
                workerVars, Looping
  <2>. QED
    BY <1>0, <1>1, <2>1, <2>2 DEF MasterType
<1>8. CASE Return
  <2>1. /\ mpc = "end" /\ mpc' = "ready" /\ iteration' = iteration + 1
        /\ UNCHANGED <<collective, valid, to_send, count_pkgs, work_pointer, pkg_to_send,
                       pkg_to_recv, free_workers>>
    BY <1>8 DEF Return, workerVars
  <2>2. iteration' \in 0 .. MaxIter
    BY <1>0, <2>1, SizeAssumption DEF MasterType
  <2>. QED
    BY <1>0, <2>1, <2>2 DEF MasterType, Looping
<1>9. CASE LoopBreak
  BY <1>0, <1>1, <1>9 DEF LoopBreak, MasterType, Looping
<1>10. ASSUME NEW w \in Worker, WorkerStep(w) \/ FinishWork(w)
       PROVE  MasterType'
  BY <1>0, <1>1, <1>10 DEF WorkerStep, RecvWork, DoWork, RecvEnd, PostIter, FinishWork,
         masterVars, MasterType
<1>11. CASE UNCHANGED vars
  BY <1>0, <1>1, <1>11 DEF vars, MasterType
<1>. HIDE DEF MasterType
<1>. QED
  BY <1>2, <1>3, <1>4, <1>5, <1>6, <1>7, <1>8, <1>9, <1>10, <1>11
     DEF Next, MasterStep, Stopped

\* The counts of the workers.
LEMMA StepIter == IInv /\ TypeInv /\ [Next]_vars => IterType'
<1>. SUFFICES ASSUME IInv, TypeInv, [Next]_vars PROVE IterType'
  OBVIOUS
<1>0. IterType /\ MasterType /\ iteration \in Nat /\ MaxIter \in Nat /\ ControlType
  BY SizeAssumption DEF TypeInv, MasterType, IInv
<1>1. ASSUME UNCHANGED <<witer, iteration>>,
             mpc' \in Looping <=> mpc \in Looping,
             mpc' \in Ending <=> mpc \in Ending,
             mpc' \in Outside <=> mpc \in Outside,
             \A w \in Worker : wpc'[w] = "ready" <=> wpc[w] = "ready"
      PROVE  IterType'
  BY <1>0, <1>1 DEF IterType
<1>2. CASE StartLoop
  <2>1. /\ mpc = "barrier" /\ mpc' = "send" /\ UNCHANGED <<witer, iteration>>
        /\ \A w \in Worker : wpc[w] = "ready"
    BY <1>2 DEF StartLoop
  <2>. QED
    BY <1>0, <2>1 DEF IterType, Looping, Ending, Outside
<1>3. CASE Unshuffle
  <2>1. /\ mpc = "recv" /\ mpc' = "end" /\ UNCHANGED <<witer, iteration, wpc>>
    BY <1>3 DEF Unshuffle, workerVars
  <2>2. \A w \in Worker : wpc[w] # "ready"
    BY <2>1 DEF IInv, WorkerInv, HasNone, HasPackage, Looping
  <2>. QED
    BY <1>0, <2>1, <2>2 DEF IterType, Looping, Ending, Outside
<1>4. CASE Return
  <2>1. mpc = "end" /\ mpc' = "ready" /\ iteration' = iteration + 1 /\ UNCHANGED <<witer, wpc>>
    BY <1>4 DEF Return, workerVars
  <2>. QED
    BY <1>0, <2>1 DEF IterType, Looping, Ending, Outside
<1>5. CASE LoopBreak
  <2>1. mpc' = "stopped" /\ UNCHANGED witer
    BY <1>5 DEF LoopBreak
  <2>. QED
    BY <1>0, <2>1 DEF IterType, Looping, Ending, Outside
<1>6. CASE \/ Predict \/ SendPackage \/ PackageSent \/ SkipWorker \/ StartRecv
           \/ ProbeFails \/ SendEnd \/ EndSent
  <2>1. UNCHANGED <<witer, iteration, wpc>>
    BY <1>6 DEF Predict, SendPackage, PackageSent, SkipWorker, StartRecv, ProbeFails,
                SendEnd, EndSent, workerVars
  <2>2. /\ mpc' \in Looping <=> mpc \in Looping
        /\ mpc' \in Ending <=> mpc \in Ending
        /\ mpc' \in Outside <=> mpc \in Outside
    BY <1>6 DEF Predict, SendPackage, PackageSent, SkipWorker, StartRecv, ProbeFails,
                SendEnd, EndSent, Looping, Ending, Outside
  <2>. QED
    BY <1>1, <2>1, <2>2
<1>7. ASSUME NEW w \in Worker, RecvResult(w)
      PROVE  IterType'
  BY <1>1, <1>7 DEF RecvResult, workerVars
<1>8. ASSUME NEW w \in Worker, RecvWork(w) \/ DoWork(w) \/ RecvEnd(w) \/ FinishWork(w)
      PROVE  IterType'
  <2>1. UNCHANGED <<witer, iteration, mpc>> /\ wpc[w] # "ready"
        /\ \A v \in Worker : wpc'[v] = "ready" <=> wpc[v] = "ready"
    BY <1>0, <1>8 DEF RecvWork, DoWork, RecvEnd, FinishWork, masterVars, ControlType
  <2>. QED
    BY <1>1, <2>1
<1>9. ASSUME NEW w \in Worker, PostIter(w)
      PROVE  IterType'
  <2>1. /\ wpc[w] = "post" /\ witer' = [witer EXCEPT ![w] = @ + 1]
        /\ wpc' = [wpc EXCEPT ![w] = "ready"] /\ UNCHANGED <<iteration, mpc>>
    BY <1>9 DEF PostIter, masterVars
  <2>2. mpc \in Ending \cup Outside
    BY <1>0, <2>1 DEF IInv, WorkerInv, HasNone, HasPackage, ControlType, Phases,
                      Looping, Ending, Outside
  <2>3. mpc \notin Looping /\ ~(mpc \in Ending /\ mpc \in Outside)
    BY <2>2 DEF Looping, Ending, Outside
  <2>4. /\ mpc \in Ending => witer[w] = iteration + 1 /\ iteration < MaxIter
        /\ mpc \in Outside => witer[w] = iteration /\ iteration <= MaxIter
    BY <1>0, <2>1 DEF IterType, MasterType, Ending, Outside
  <2>5. witer[w] + 1 \in 1 .. MaxIter + 1
    BY <1>0, <2>2, <2>4
  <2>6. witer' \in [Worker -> 1 .. MaxIter + 1]
    BY <1>0, <2>1, <2>5 DEF IterType
  <2>7. ASSUME NEW v \in Worker
        PROVE  /\ mpc \in Ending =>
                    witer'[v] = iteration + (IF wpc'[v] = "ready" THEN 2 ELSE 1)
               /\ mpc \in Outside =>
                    witer'[v] = iteration + (IF wpc'[v] = "ready" THEN 1 ELSE 0)
    <3>1. CASE v = w
      BY <1>0, <2>1, <2>4, <3>1 DEF IterType, ControlType
    <3>2. CASE v # w
      BY <1>0, <2>1, <3>2 DEF IterType, ControlType
    <3>. QED
      BY <3>1, <3>2
  <2>. QED
    BY <2>1, <2>3, <2>6, <2>7 DEF IterType
<1>10. CASE UNCHANGED vars
  BY <1>1, <1>10 DEF vars
<1>. HIDE DEF IterType
<1>. QED
  BY <1>2, <1>3, <1>4, <1>5, <1>6, <1>7, <1>8, <1>9, <1>10
     DEF Next, MasterStep, WorkerStep, Stopped

\* Nothing is said of a package that is not given.
LEMMA ContentFrame ==
  ASSUME ContentType, mpc' \in Looping <=> mpc \in Looping, mpc' # "stopped",
         FieldSteps' = FieldSteps, BufferSteps' = BufferSteps,
         UNCHANGED <<field, buffer, iteration, work_pointer, send_addr, wp,
                     toWorker, toMaster>>,
         mpc \in Looping => \A w \in Worker : Given(w)' => Given(w)
  PROVE  ContentType'
<1>1. \A w \in Worker : LoadType(w) => LoadType(w)'
  BY DEF LoadType, Size, Load, Computed
<1>. HIDE DEF LoadType
<1>. QED
  BY <1>1 DEF ContentType

\* An accepted prediction is one step; the others stay behind.
LEMMA PredictContent == IInv /\ TypeInv /\ Predict => ContentType'
<1>. SUFFICES ASSUME IInv, TypeInv, Predict PROVE ContentType'
  OBVIOUS
<1>1. /\ mpc = "ready" /\ mpc' = "barrier"
      /\ UNCHANGED <<buffer, iteration, send_addr, wp, toWorker>>
  BY DEF Predict, workerVars, channels
<1>2. iteration \in Nat
  BY SizeAssumption DEF TypeInv, MasterType
<1>3. /\ FieldSteps = 2 * iteration /\ FieldSteps' = 2 * iteration + 1
      /\ BufferSteps' = BufferSteps
  BY <1>1, <1>2 DEF FieldSteps, BufferSteps, Ending, Looping
<1>4. field' \in [Cell -> UpTo(2 * iteration + 1)]
  <2>1. field \in [Cell -> UpTo(2 * iteration)]
    BY <1>3 DEF TypeInv, ContentType
  <2>2. UpTo(2 * iteration) \subseteq UpTo(2 * iteration + 1)
    BY <1>2, UpToGrows
  <2>3. \A c \in Cell : Advance(field[c]) \in UpTo(2 * iteration + 1)
    BY <1>2, <2>1, AdvanceUpTo
  <2>4. CASE AISurrogate
    <3>1. PICK v \in Validities :
            field' = [c \in Cell |-> IF c \in v THEN Advance(field[c]) ELSE field[c]]
      BY <2>4 DEF Predict
    <3>. QED
      BY <2>1, <2>2, <2>3, <3>1
  <2>5. CASE ~AISurrogate
    BY <2>1, <2>2, <2>5 DEF Predict
  <2>. QED
    BY <2>4, <2>5
<1>5. ContentType
  BY DEF TypeInv
<1>. HIDE DEF FieldSteps, BufferSteps, UpTo, LoadType
<1>. QED
  BY <1>1, <1>3, <1>4, <1>5 DEF ContentType, Looping

\* shuffleField.
LEMMA StartLoopContent == IInv /\ TypeInv /\ StartLoop => ContentType'
<1>. SUFFICES ASSUME IInv, TypeInv, StartLoop PROVE ContentType'
  OBVIOUS
<1>1. /\ mpc = "barrier" /\ mpc' = "send"
      /\ buffer' = [q \in Cell |-> field[CellAt(q)]]
      /\ has_work' = [w \in Worker |-> FALSE]
      /\ send_addr' = [w \in Worker |-> 0]
      /\ UNCHANGED <<field, iteration, wp, toWorker>>
  BY DEF StartLoop, CellAt, channels
<1>2. iteration \in Nat
  BY SizeAssumption DEF TypeInv, MasterType
<1>3. /\ FieldSteps = 2 * iteration + 1 /\ FieldSteps' = 2 * iteration + 1
      /\ BufferSteps' = 2 * iteration + 2
  BY <1>1, <1>2 DEF FieldSteps, BufferSteps, Ending, Looping
<1>4. ContentType
  BY DEF TypeInv
<1>5. field \in [Cell -> UpTo(2 * iteration + 1)]
  BY <1>3, <1>4 DEF ContentType
<1>6. \A q \in Cell : buffer'[q] \in UpTo(2 * iteration + 1)
  BY <1>1, <1>5, SlotInverse
<1>7. buffer' \in [Cell -> UpTo(2 * iteration + 2)]
  <2>1. UpTo(2 * iteration + 1) \subseteq UpTo(2 * iteration + 2)
    BY <1>2, UpToGrows
  <2>. QED
    BY <1>1, <1>6, <2>1
<1>8. send_addr' \in [Worker -> 0 .. NCells - 1]
  BY <1>1, SizeAssumption
<1>9. \A w \in Worker : ~Given(w)'
  BY <1>1 DEF Given
<1>. HIDE DEF FieldSteps, BufferSteps, UpTo, LoadType
<1>. QED
  BY <1>1, <1>3, <1>4, <1>5, <1>6, <1>7, <1>8, <1>9 DEF ContentType

\* A package is a part of the buffer that has not been sent before.
LEMMA SendPackageContent == IInv /\ TypeInv /\ SendPackage => ContentType'
<1>. SUFFICES ASSUME IInv, TypeInv, SendPackage PROVE ContentType'
  OBVIOUS
<1>. DEFINE size == PackageSize(NCells, n_packages, count_pkgs)
            data == [q \in 1 .. size |-> buffer[work_pointer + q - 1]]
            start == SizesBefore(NCells, n_packages, count_pkgs + 1)
<1>1. /\ mpc = "send" /\ mpc' = "sending" /\ p \in Worker /\ ~has_work[p]
      /\ pkg_to_send > 0
      /\ toWorker' = [toWorker EXCEPT ![p] = Append(@, Work(data, start))]
      /\ work_pointer' = work_pointer + size
      /\ send_addr' = [send_addr EXCEPT ![p] = work_pointer]
      /\ UNCHANGED <<field, iteration, buffer, p, has_work, wp, toMaster>>
  BY SizeAssumption DEF SendPackage, workerVars, IInv, ControlType, Worker, IsFree
<1>2. ContentType /\ PointerInv /\ iteration \in Nat /\ pkg_to_send \in Nat
  BY <1>1, SizeAssumption DEF TypeInv, MasterType, Looping, IInv, ControlType
<1>3. FieldSteps' = FieldSteps /\ BufferSteps' = BufferSteps
  BY <1>1 DEF FieldSteps, BufferSteps, Ending, Looping
<1>4. /\ work_pointer \in 0 .. NCells /\ size \in 1 .. WPSize
      /\ work_pointer + size = start /\ start \in 0 .. NCells
  <2>1. count_pkgs \in 0 .. n_packages - 1 /\ count_pkgs \in Nat
    BY <1>1, <1>2, PackagesPositive DEF PointerInv
  <2>2. size \in 1 .. WPSize
    BY <2>1, PackageSizeBounds, SizeAssumption DEF n_packages
  <2>. QED
    BY <1>2, <2>1, <2>2, PackagesPositive, SizesBeforeNext DEF PointerInv
<1>5. work_pointer \in 0 .. NCells - 1 /\ NCells \in Nat /\ WPSize \in Nat
  BY <1>4, SizeAssumption
<1>6. ~Given(p) /\ HasNone(p)
  BY <1>1 DEF Given, IInv, WorkerInv, Looping
<1>7. \A w \in Worker \ {p} :
        /\ Given(w)' <=> Given(w)
        /\ toWorker'[w] = toWorker[w]
        /\ Load(w)' = Load(w)
        /\ Size(w)' = Size(w)
        /\ Computed(w)' = Computed(w)
        /\ send_addr'[w] = send_addr[w]
  <2>1. \A w \in Worker \ {p} : toWorker'[w] = toWorker[w] /\ send_addr'[w] = send_addr[w]
    BY <1>1, <1>2 DEF IInv, ControlType, ContentType
  <2>. QED
    BY <1>1, <2>1 DEF Given, Load, Size, Computed
<1>8. /\ send_addr'[p] = work_pointer /\ Load(p)' = data /\ Size(p)' = size
      /\ Computed(p)' = 0 /\ Head(toWorker'[p]).start = start
  <2>. HIDE DEF data, start, size
  <2>1. toWorker'[p] = Append(<<>>, Work(data, start))
    BY <1>1, <1>6 DEF HasNone, Silent, IInv, ControlType
  <2>2. /\ toWorker'[p] # <<>> /\ Head(toWorker'[p]).data = data
        /\ Head(toWorker'[p]).start = start
    BY <2>1, AppendOne DEF One, Work
  <2>3. Load(p)' = data
    BY <1>1, <2>2 DEF Load
  <2>4. Len(data) = size
    BY <1>4, LenOf DEF data
  <2>5. Computed(p)' = 0
    BY <1>1, <1>6 DEF Computed, HasNone, Silent
  <2>6. send_addr'[p] = work_pointer
    BY <1>1, <1>2 DEF ContentType
  <2>. QED
    BY <2>2, <2>3, <2>4, <2>5, <2>6 DEF Size
<1>9. data \in [1 .. size -> UpTo(2 * iteration + 1)]
  <2>1. ASSUME NEW q \in 1 .. size
        PROVE  buffer[work_pointer + q - 1] \in UpTo(2 * iteration + 1)
    <3>1. work_pointer + q - 1 \in Cell /\ work_pointer + q - 1 >= work_pointer
      BY <1>4, <1>5 DEF Cell
    <3>2. \A r \in Cell : r >= work_pointer => buffer[r] \in UpTo(2 * iteration + 1)
      BY <1>1, <1>2 DEF ContentType, Looping
    <3>. QED
      BY <3>1, <3>2
  <2>. QED
    BY <2>1
<1>. HIDE DEF data, start
<1>10. LoadType(p)'
  <2>1. 2 * iteration + 1 + 0 = 2 * iteration + 1
    BY <1>2
  <2>2. size \in 0 .. WPSize /\ work_pointer + size <= work_pointer'
    BY <1>1, <1>4, <1>5
  <2>. HIDE DEF size, UpTo
  <2>. QED
    BY <1>1, <1>8, <1>9, <2>1, <2>2 DEF LoadType
<1>11. ASSUME NEW w \in Worker \ {p}, Given(w)'
       PROVE  LoadType(w)'
  <2>1. LoadType(w)
    BY <1>1, <1>2, <1>7, <1>11 DEF ContentType, Looping
  <2>2. send_addr[w] + Size(w) <= work_pointer'
    <3>1. send_addr[w] \in Int /\ Size(w) \in Int
      BY <1>2, <1>5, <2>1 DEF ContentType, LoadType
    <3>. HIDE DEF size
    <3>. QED
      BY <1>1, <1>4, <2>1, <3>1 DEF LoadType
  <2>. HIDE DEF UpTo
  <2>. QED
    BY <1>1, <1>7, <2>1, <2>2 DEF LoadType
<1>12. \A q \in Cell : q >= work_pointer' => buffer'[q] \in UpTo(2 * iteration' + 1)
  <2>1. \A q \in Cell : q >= work_pointer' => q >= work_pointer
    BY <1>1, <1>4, <1>5 DEF Cell
  <2>. HIDE DEF UpTo
  <2>. QED
    BY <1>1, <1>2, <2>1 DEF ContentType, Looping
<1>13. \A w \in Worker : toWorker'[w] # <<>> => Head(toWorker'[w]).start \in 0 .. NCells
  BY <1>2, <1>4, <1>7, <1>8 DEF ContentType
<1>14. send_addr' \in [Worker -> 0 .. NCells - 1]
  BY <1>1, <1>2, <1>5 DEF ContentType
<1>. HIDE DEF FieldSteps, BufferSteps, UpTo, LoadType, size
<1>. QED
  BY <1>1, <1>2, <1>3, <1>10, <1>11, <1>12, <1>13, <1>14 DEF ContentType

\* A result is put back below the work pointer.
LEMMA RecvResultContent ==
  ASSUME IInv, TypeInv, NEW w \in Worker, RecvResult(w)
  PROVE  ContentType'
<1>1. /\ mpc = "recv" /\ mpc' = "recv" /\ toMaster[w] # <<>>
      /\ LET data == Head(toMaster[w])
             a == send_addr[w]
         IN  buffer' = [q \in Cell |-> IF q \in a .. a + Len(data) - 1
                                       THEN data[q - a + 1] ELSE buffer[q]]
      /\ toMaster' = [toMaster EXCEPT ![w] = Tail(@)]
      /\ has_work' = [has_work EXCEPT ![w] = FALSE]
      /\ UNCHANGED <<field, iteration, p, work_pointer, send_addr, wp, toWorker>>
  BY DEF RecvResult, workerVars
<1>2. ContentType /\ iteration \in Nat /\ work_pointer \in 0 .. NCells /\ NCells \in Nat
  BY SizeAssumption DEF TypeInv, MasterType
<1>3. FieldSteps' = FieldSteps /\ BufferSteps' = BufferSteps /\ BufferSteps = 2 * iteration + 2
  BY <1>1, <1>2 DEF FieldSteps, BufferSteps, Ending, Looping
<1>4. Given(w) /\ toWorker[w] = <<>>
  BY <1>1 DEF IInv, WorkerInv, HasNone, HasPackage, Silent, Looping
<1>5. /\ ~Given(w)'
      /\ \A v \in Worker \ {w} :
           /\ Given(v)' <=> Given(v)
           /\ Load(v)' = Load(v)
           /\ Size(v)' = Size(v)
           /\ Computed(v)' = Computed(v)
  <2>1. ~has_work'[w] /\ \A v \in Worker \ {w} :
          toMaster'[v] = toMaster[v] /\ has_work'[v] = has_work[v]
    BY <1>1 DEF IInv, ControlType
  <2>. QED
    BY <1>1, <2>1 DEF Given, Load, Size, Computed
<1>6. ASSUME NEW v \in Worker, Given(v)'
      PROVE  LoadType(v)'
  <2>1. v # w /\ LoadType(v)
    BY <1>1, <1>2, <1>5, <1>6 DEF ContentType, Looping
  <2>. HIDE DEF UpTo
  <2>. QED
    BY <1>1, <1>5, <2>1 DEF LoadType
<1>7. Load(w) = Head(toMaster[w]) /\ Computed(w) = 1
  BY <1>1, <1>4 DEF Load, Computed
<1>8. /\ send_addr[w] \in Nat /\ Size(w) \in Nat /\ send_addr[w] + Size(w) <= work_pointer
      /\ Load(w) \in [1 .. Size(w) -> UpTo(2 * iteration + 2)]
  <2>1. LoadType(w) /\ send_addr[w] \in 0 .. NCells - 1
    BY <1>1, <1>2, <1>4 DEF ContentType, Looping
  <2>2. 2 * iteration + 1 + Computed(w) = 2 * iteration + 2
    BY <1>2, <1>7
  <2>. HIDE DEF UpTo
  <2>. QED
    BY <2>1, <2>2 DEF LoadType
<1>9. buffer' = [q \in Cell |-> IF q \in Segment(w) THEN Load(w)[q - send_addr[w] + 1]
                                ELSE buffer[q]]
  BY <1>1, <1>7 DEF Segment, Size
<1>10. \A q \in Cell : q \in Segment(w) => /\ q - send_addr[w] + 1 \in 1 .. Size(w)
                                           /\ ~(q >= work_pointer)
  BY <1>2, <1>8 DEF Segment, Cell
<1>11. buffer \in [Cell -> UpTo(2 * iteration + 2)]
  BY <1>2, <1>3 DEF ContentType
<1>12. buffer' \in [Cell -> UpTo(2 * iteration + 2)]
  <2>. HIDE DEF UpTo
  <2>1. \A q \in Cell : q \in Segment(w) =>
          Load(w)[q - send_addr[w] + 1] \in UpTo(2 * iteration + 2)
    BY <1>8, <1>10
  <2>. QED
    BY <1>9, <1>11, <2>1
<1>13. \A q \in Cell : q >= work_pointer' => buffer'[q] \in UpTo(2 * iteration' + 1)
  <2>1. \A q \in Cell : q >= work_pointer => buffer[q] \in UpTo(2 * iteration + 1)
    BY <1>1, <1>2 DEF ContentType, Looping
  <2>. HIDE DEF UpTo
  <2>. QED
    BY <1>1, <1>9, <1>10, <2>1
<1>. HIDE DEF FieldSteps, BufferSteps, UpTo, LoadType
<1>. QED
  BY <1>1, <1>2, <1>3, <1>6, <1>12, <1>13 DEF ContentType

\* unshuffleField.
LEMMA UnshuffleContent == IInv /\ TypeInv /\ Unshuffle => ContentType'
<1>. SUFFICES ASSUME IInv, TypeInv, Unshuffle PROVE ContentType'
  OBVIOUS
<1>1. /\ mpc = "recv" /\ mpc' = "end" /\ field' = [c \in Cell |-> buffer[Slot(c)]]
      /\ UNCHANGED <<iteration, buffer, send_addr, wp, toWorker>>
  BY DEF Unshuffle, workerVars, channels
<1>2. ContentType /\ iteration \in Nat
  BY SizeAssumption DEF TypeInv, MasterType
<1>3. /\ FieldSteps' = 2 * iteration + 2 /\ BufferSteps = 2 * iteration + 2
      /\ BufferSteps' = 2 * iteration + 2
  BY <1>1, <1>2 DEF FieldSteps, BufferSteps, Ending, Looping
<1>4. buffer \in [Cell -> UpTo(2 * iteration + 2)]
  BY <1>2, <1>3 DEF ContentType
<1>5. field' \in [Cell -> UpTo(2 * iteration + 2)]
  BY <1>1, <1>4, SlotInverse
<1>. HIDE DEF FieldSteps, BufferSteps, UpTo, LoadType
<1>. QED
  BY <1>1, <1>2, <1>3, <1>4, <1>5 DEF ContentType, Looping

\* The steps of the master that touch neither packages nor cells.
LEMMA QuietContent ==
  IInv /\ TypeInv /\ (SkipWorker \/ StartRecv \/ ProbeFails \/ PackageSent \/ EndSent)
    => ContentType'
<1>. SUFFICES ASSUME IInv, TypeInv,
                     SkipWorker \/ StartRecv \/ ProbeFails \/ PackageSent \/ EndSent
              PROVE  ContentType'
  OBVIOUS
<1>1. /\ UNCHANGED <<field, buffer, iteration, work_pointer, send_addr, wp, toWorker,
                     toMaster>>
      /\ mpc' \in Looping <=> mpc \in Looping
      /\ mpc' \in Ending <=> mpc \in Ending
      /\ mpc \notin {"ready", "stopped"} /\ mpc' \notin {"ready", "stopped"}
  BY DEF SkipWorker, StartRecv, ProbeFails, PackageSent, EndSent, workerVars, channels,
         Looping, Ending
<1>2. FieldSteps' = FieldSteps /\ BufferSteps' = BufferSteps
  BY <1>1 DEF FieldSteps, BufferSteps
<1>3. mpc \in Looping => \A w \in Worker : Given(w)' => Given(w)
  <2>1. CASE PackageSent
    BY <2>1 DEF PackageSent, Given, IInv, ControlType
  <2>2. CASE SkipWorker \/ StartRecv \/ ProbeFails \/ EndSent
    BY <2>2 DEF SkipWorker, StartRecv, ProbeFails, EndSent, Given, Looping
  <2>. QED
    BY <2>1, <2>2
<1>4. ContentType
  BY DEF TypeInv
<1>. QED
  BY <1>1, <1>2, <1>3, <1>4, ContentFrame

\* The end of an iteration, and of the simulation.
LEMMA EndContent == IInv /\ TypeInv /\ (SendEnd \/ Return \/ LoopBreak) => ContentType'
<1>. SUFFICES ASSUME IInv, TypeInv, SendEnd \/ Return \/ LoopBreak PROVE ContentType'
  OBVIOUS
<1>1. /\ UNCHANGED <<field, buffer, send_addr, wp, toMaster>>
      /\ mpc \in {"end", "ready"} /\ mpc' \notin Looping
  BY DEF SendEnd, Return, LoopBreak, workerVars, channels, Looping
<1>2. ContentType /\ iteration \in Nat
  BY SizeAssumption DEF TypeInv, MasterType
<1>3. FieldSteps' = FieldSteps /\ BufferSteps' = BufferSteps
  <2>1. CASE SendEnd
    BY <2>1 DEF SendEnd, FieldSteps, BufferSteps, Looping, Ending
  <2>2. CASE Return
    <3>1. iteration' = iteration + 1 /\ mpc = "end" /\ mpc' = "ready"
      BY <2>2 DEF Return
    <3>. QED
      BY <1>2, <3>1 DEF FieldSteps, BufferSteps, Looping, Ending
  <2>3. CASE LoopBreak
    BY <2>3 DEF LoopBreak, FieldSteps, BufferSteps, Looping, Ending
  <2>. QED
    BY <2>1, <2>2, <2>3
<1>4. \A w \in Worker : toWorker'[w] # <<>> => Head(toWorker'[w]).start \in 0 .. NCells
  <2>1. CASE SendEnd
    <3>1. /\ mpc = "end" /\ p \in Worker
          /\ toWorker' = [toWorker EXCEPT ![p] = Append(@, LoopEnd)]
      BY <2>1, SizeAssumption DEF SendEnd, IInv, ControlType, Worker
    <3>2. toWorker[p] = <<>>
      BY <3>1 DEF IInv, WorkerInv, EndSentTo, HasNone, Silent, Ending, ControlType, Worker
    <3>3. toWorker'[p] = Append(<<>>, LoopEnd)
      BY <3>1, <3>2 DEF IInv, ControlType
    <3>4. Head(toWorker'[p]).start \in 0 .. NCells
      BY <3>3, AppendOne, SizeAssumption DEF LoopEnd
    <3>5. \A w \in Worker \ {p} : toWorker'[w] = toWorker[w]
      BY <3>1 DEF IInv, ControlType
    <3>. QED
      BY <1>2, <3>4, <3>5 DEF ContentType
  <2>2. CASE Return \/ LoopBreak
    <3>1. toWorker' = toWorker
      BY <2>2 DEF Return, LoopBreak, channels
    <3>. QED
      BY <1>2, <3>1 DEF ContentType
  <2>. QED
    BY <2>1, <2>2
<1>5. mpc' = "stopped" => \A w \in Worker : Silent(w)'
  <2>1. CASE LoopBreak
    <3>1. mpc = "ready" /\ UNCHANGED channels /\ \A w \in Worker : wpc[w] = "ready"
      BY <2>1 DEF LoopBreak
    <3>2. \A w \in Worker : Silent(w)
      BY <3>1 DEF IInv, WorkerInv, HasEnded, Outside, Silent
    <3>. QED
      BY <3>1, <3>2 DEF channels, Silent
  <2>2. CASE SendEnd \/ Return
    BY <2>2 DEF SendEnd, Return
  <2>. QED
    BY <2>1, <2>2
<1>. HIDE DEF FieldSteps, BufferSteps, UpTo, LoadType
<1>. QED
  BY <1>1, <1>2, <1>3, <1>4, <1>5 DEF ContentType

\* A worker changes its own package only.
LEMMA WorkerContent ==
  ASSUME IInv, ContentType, NEW w \in Worker, OnlyWorker(w), mpc # "stopped",
         UNCHANGED <<field, iteration, buffer, work_pointer, send_addr>>,
         DOMAIN wp' = Worker, \A v \in Worker \ {w} : wp'[v] = wp[v],
         Len(wp'[w].data) \in 0 .. WPSize, wp'[w].start \in 0 .. NCells,
         toWorker'[w] # <<>> => Head(toWorker'[w]).start \in 0 .. NCells,
         HasPackage(w) /\ LoadType(w) => LoadType(w)'
  PROVE  ContentType'
<1>1. UNCHANGED <<mpc, p, has_work>>
  BY DEF OnlyWorker
<1>2. FieldSteps' = FieldSteps /\ BufferSteps' = BufferSteps
  BY <1>1 DEF FieldSteps, BufferSteps
<1>3. ASSUME mpc \in Looping, NEW v \in Worker, Given(v)'
      PROVE  LoadType(v)'
  <2>1. LoadType(v) /\ HasPackage(v)
    BY <1>1, <1>3 DEF ContentType, IInv, WorkerInv, Given
  <2>2. CASE v = w
    BY <2>1, <2>2
  <2>3. CASE v # w
    <3>1. Load(v)' = Load(v) /\ Size(v)' = Size(v) /\ Computed(v)' = Computed(v)
      BY <2>3 DEF OnlyWorker, Load, Size, Computed
    <3>. QED
      BY <2>1, <3>1 DEF LoadType
  <2>. QED
    BY <2>2, <2>3
<1>4. \A v \in Worker :
        /\ Len(wp'[v].data) \in 0 .. WPSize /\ wp'[v].start \in 0 .. NCells
        /\ toWorker'[v] # <<>> => Head(toWorker'[v]).start \in 0 .. NCells
  BY DEF ContentType, OnlyWorker
<1>. HIDE DEF FieldSteps, BufferSteps, UpTo, LoadType
<1>. QED
  BY <1>1, <1>2, <1>3, <1>4 DEF ContentType

LEMMA RecvWorkContent ==
  ASSUME IInv, TypeInv, NEW w \in Worker, RecvWork(w)
  PROVE  ContentType'
<1>1. /\ wpc[w] = "probe" /\ toWorker[w] # <<>> /\ Head(toWorker[w]).tag = "LOOP_WORK"
      /\ wp' = [wp EXCEPT ![w] = [data |-> Head(toWorker[w]).data,
                                  start |-> Head(toWorker[w]).start]]
      /\ toWorker' = [toWorker EXCEPT ![w] = Tail(@)]
      /\ wpc' = [wpc EXCEPT ![w] = "work"]
      /\ UNCHANGED <<mpc, p, pkg_to_send, pkg_to_recv, free_workers, has_work,
                     toMaster, field, iteration, buffer, work_pointer, send_addr>>
  BY DEF RecvWork, masterVars
<1>2. OnlyWorker(w) /\ ContentType
  BY <1>1 DEF OnlyWorker, IInv, ControlType, TypeInv
<1>3. DOMAIN wp' = Worker /\ (\A v \in Worker \ {w} : wp'[v] = wp[v])
      /\ wp'[w] = [data |-> Head(toWorker[w]).data, start |-> Head(toWorker[w]).start]
  BY <1>1, <1>2 DEF ContentType
<1>4. mpc \in Looping /\ Given(w) /\ HasPackage(w)
  <2>1. Head(<<LoopEnd>>).tag = "LOOP_END"
    BY DEF LoopEnd
  <2>2. ~HasNone(w) /\ ~HasEnded(w)
    BY <1>1, <2>1 DEF HasNone, HasEnded, Silent
  <2>3. mpc \in Looping
    BY <1>1, <2>2 DEF IInv, WorkerInv, ControlType, Phases, Looping, Ending, Outside
  <2>. QED
    BY <2>2, <2>3 DEF IInv, WorkerInv
<1>5. One(toWorker[w]) /\ toMaster[w] = <<>>
  BY <1>1, <1>4 DEF HasPackage, Silent
<1>6. toWorker'[w] = <<>> /\ toMaster'[w] = <<>>
  BY <1>1, <1>5, TailOne DEF IInv, ControlType
<1>7. Load(w) = Head(toWorker[w]).data /\ LoadType(w)
  BY <1>1, <1>2, <1>4 DEF Load, ContentType
<1>8. Load(w)' = Load(w) /\ Size(w)' = Size(w) /\ Computed(w)' = Computed(w)
  BY <1>1, <1>3, <1>5, <1>6, <1>7 DEF Load, Size, Computed
<1>9. LoadType(w)'
  BY <1>1, <1>7, <1>8 DEF LoadType
<1>10. Len(wp'[w].data) \in 0 .. WPSize /\ wp'[w].start \in 0 .. NCells
  <2>1. Len(Head(toWorker[w]).data) \in 0 .. WPSize
    BY <1>7 DEF LoadType, Size
  <2>. QED
    BY <1>1, <1>2, <1>3, <2>1 DEF ContentType
<1>11. mpc # "stopped"
  BY <1>4 DEF Looping
<1>. HIDE DEF LoadType, ContentType
<1>. QED
  BY <1>1, <1>2, <1>3, <1>6, <1>9, <1>10, <1>11, WorkerContent

\* A computed cell is a step further, a prediction that stays is one already.
LEMMA DoWorkContent ==
  ASSUME IInv, TypeInv, NEW w \in Worker, DoWork(w)
  PROVE  ContentType'
<1>1. PICK data \in Outputs(wp[w]) : toMaster' = [toMaster EXCEPT ![w] = Append(@, data)]
  BY DEF DoWork
<1>2. /\ wpc[w] = "work" /\ wpc' = [wpc EXCEPT ![w] = "fill"]
      /\ UNCHANGED <<mpc, p, pkg_to_send, pkg_to_recv, free_workers, has_work,
                     toWorker, wp, field, iteration, buffer, work_pointer, send_addr>>
  BY DEF DoWork, masterVars
<1>3. OnlyWorker(w) /\ ContentType /\ mpc # "stopped"
  BY <1>1, <1>2, StepRuns DEF OnlyWorker, IInv, ControlType, TypeInv
<1>4. PICK stays \in [1 .. Len(wp[w].data) -> BOOLEAN] :
        data = [q \in 1 .. Len(wp[w].data) |->
                  IF stays[q] THEN wp[w].data[q] ELSE Advance(wp[w].data[q])]
  BY <1>1 DEF Outputs
<1>5. ASSUME HasPackage(w), LoadType(w)
      PROVE  LoadType(w)'
  <2>1. toWorker[w] = <<>> /\ toMaster[w] = <<>>
    BY <1>2, <1>5 DEF HasPackage, Silent
  <2>2. Load(w) = wp[w].data /\ Computed(w) = 0 /\ Size(w) = Len(wp[w].data)
    BY <2>1 DEF Load, Computed, Size
  <2>3. toMaster'[w] = Append(<<>>, data)
    BY <1>1, <2>1 DEF IInv, ControlType
  <2>4. toMaster'[w] # <<>> /\ Head(toMaster'[w]) = data
    BY <2>3, AppendOne DEF One
  <2>5. Load(w)' = data /\ Computed(w)' = 1
    BY <1>2, <2>1, <2>4 DEF Load, Computed
  <2>6. Size(w) \in 0 .. WPSize /\ Size(w) \in Nat /\ iteration \in Nat
    BY <1>5, SizeAssumption DEF LoadType, TypeInv, MasterType
  <2>7. Size(w)' = Size(w)
    BY <1>4, <2>2, <2>5, <2>6, LenOf DEF Size
  <2>8. /\ 2 * iteration + 1 + Computed(w) = 2 * iteration + 1
        /\ 2 * iteration + 1 + Computed(w)' = 2 * iteration + 2
        /\ 2 * iteration + 1 + 1 = 2 * iteration + 2
    BY <2>2, <2>5, <2>6
  <2>9. wp[w].data \in [1 .. Size(w) -> UpTo(2 * iteration + 1)]
    BY <1>5, <2>2, <2>8 DEF LoadType
  <2>10. \A content \in UpTo(2 * iteration + 1) :
           content \in UpTo(2 * iteration + 2) /\ Advance(content) \in UpTo(2 * iteration + 2)
    BY <2>6, <2>8, UpToGrows, AdvanceUpTo
  <2>11. data \in [1 .. Size(w) -> UpTo(2 * iteration + 2)]
    <3>. HIDE DEF UpTo
    <3>. QED
      BY <1>4, <2>2, <2>9, <2>10
  <2>. HIDE DEF UpTo
  <2>. QED
    BY <1>2, <1>5, <2>5, <2>7, <2>8, <2>11 DEF LoadType
<1>6. /\ DOMAIN wp' = Worker /\ Len(wp'[w].data) \in 0 .. WPSize
      /\ wp'[w].start \in 0 .. NCells
      /\ toWorker'[w] # <<>> => Head(toWorker'[w]).start \in 0 .. NCells
  BY <1>2, <1>3 DEF ContentType
<1>. HIDE DEF LoadType, ContentType
<1>. QED
  BY <1>2, <1>3, <1>5, <1>6, WorkerContent

LEMMA WorkerStepsContent ==
  ASSUME IInv, TypeInv, NEW w \in Worker, FinishWork(w) \/ RecvEnd(w) \/ PostIter(w)
  PROVE  ContentType'
<1>1. /\ UNCHANGED <<mpc, p, pkg_to_send, pkg_to_recv, free_workers, has_work,
                     toMaster, field, iteration, buffer, work_pointer, send_addr>>
      /\ wpc[w] \notin {"work", "stopped"}
      /\ wp' = wp \/ wp' = [wp EXCEPT ![w] = NoPackage]
  BY DEF FinishWork, RecvEnd, PostIter, masterVars, channels
<1>2. OnlyWorker(w) /\ ContentType /\ mpc # "stopped"
  BY <1>1, StepRuns DEF FinishWork, RecvEnd, PostIter, channels, OnlyWorker, IInv, ControlType,
                        TypeInv
<1>3. /\ DOMAIN wp' = Worker /\ (\A v \in Worker \ {w} : wp'[v] = wp[v])
      /\ wp'[w] = wp[w] \/ wp'[w] = NoPackage
  BY <1>1, <1>2 DEF ContentType
<1>4. Len(wp'[w].data) \in 0 .. WPSize /\ wp'[w].start \in 0 .. NCells
  <2>1. Len(NoPackage.data) = 0 /\ NoPackage.start = 0
    BY DEF NoPackage
  <2>. QED
    BY <1>2, <1>3, <2>1, SizeAssumption DEF ContentType
<1>5. toWorker'[w] # <<>> => Head(toWorker'[w]).start \in 0 .. NCells
  <2>1. CASE RecvEnd(w)
    <3>1. toWorker' = [toWorker EXCEPT ![w] = Tail(@)] /\ toWorker[w] # <<>>
      BY <2>1 DEF RecvEnd
    <3>2. One(toWorker[w])
      <4>1. One(<<LoopEnd>>)
        BY DEF One
      <4>2. HasPackage(w) \/ HasEnded(w)
        BY <1>2, <3>1 DEF IInv, WorkerInv, HasNone, Silent, ControlType, Phases, Looping,
                          Ending, Outside
      <4>. QED
        BY <1>1, <3>1, <4>1, <4>2 DEF HasPackage, HasEnded, Silent
    <3>. QED
      BY <3>1, <3>2, TailOne DEF IInv, ControlType
  <2>2. CASE FinishWork(w) \/ PostIter(w)
    BY <1>2, <2>2 DEF FinishWork, PostIter, channels, ContentType
  <2>. QED
    BY <2>1, <2>2
<1>6. ASSUME HasPackage(w), LoadType(w)
      PROVE  LoadType(w)'
  <2>1. toWorker' = toWorker
    <3>1. ~RecvEnd(w)
      BY <1>1, <1>6 DEF HasPackage, RecvEnd
    <3>. QED
      BY <3>1 DEF FinishWork, PostIter, channels
  <2>2. toWorker[w] # <<>> \/ toMaster[w] # <<>>
    BY <1>1, <1>6 DEF HasPackage, One
  <2>3. Load(w)' = Load(w) /\ Size(w)' = Size(w) /\ Computed(w)' = Computed(w)
    BY <1>1, <2>1, <2>2 DEF Load, Size, Computed
  <2>. QED
    BY <1>1, <1>6, <2>3 DEF LoadType
<1>. HIDE DEF LoadType, ContentType
<1>. QED
  BY <1>1, <1>2, <1>3, <1>4, <1>5, <1>6, WorkerContent

LEMMA StepContent == IInv /\ TypeInv /\ [Next]_vars => ContentType'
<1>. SUFFICES ASSUME IInv, TypeInv, [Next]_vars PROVE ContentType'
  OBVIOUS
<1>1. CASE MasterStep
  BY <1>1, PredictContent, StartLoopContent, SendPackageContent, UnshuffleContent,
     QuietContent, EndContent DEF MasterStep
<1>2. CASE PackageSent \/ EndSent \/ ProbeFails
  BY <1>2, QuietContent
<1>3. ASSUME NEW w \in Worker, RecvResult(w) \/ WorkerStep(w) \/ FinishWork(w)
      PROVE  ContentType'
  BY <1>3, RecvResultContent, RecvWorkContent, DoWorkContent, WorkerStepsContent
     DEF WorkerStep
<1>4. CASE UNCHANGED vars
  BY <1>4 DEF vars, TypeInv, ContentType, LoadType, FieldSteps, BufferSteps, Given, Load,
         Size, Computed, Silent
<1>. QED
  BY <1>1, <1>2, <1>3, <1>4 DEF Next, Stopped

LEMMA StepTypeInv == IInv /\ TypeInv /\ [Next]_vars => TypeInv'
BY StepMaster, StepIter, StepContent DEF TypeInv

LEMMA TypeFromInv == IInv /\ TypeInv => TypeOK
<1>. SUFFICES ASSUME IInv, TypeInv PROVE TypeOK
  OBVIOUS
<1>1. ControlType /\ MasterType /\ IterType /\ ContentType
  BY DEF IInv, TypeInv
<1>2. iteration \in 0 .. MaxIter /\ iteration \in Nat /\ MaxIter \in Nat
  BY <1>1, SizeAssumption DEF MasterType
<1>3. mpc \notin {"ready", "stopped"} => iteration < MaxIter
  BY <1>1 DEF MasterType
<1>4. /\ FieldSteps \in Nat /\ FieldSteps <= 2 * MaxIter
      /\ BufferSteps \in Nat /\ BufferSteps <= 2 * MaxIter
  BY <1>2, <1>3 DEF FieldSteps, BufferSteps, Looping, Ending
<1>5. UpTo(FieldSteps) \subseteq Content /\ UpTo(BufferSteps) \subseteq Content
  BY <1>2, <1>4 DEF UpTo, Content
<1>6. field \in [Cell -> Content] /\ buffer \in [Cell -> Content]
  BY <1>1, <1>5 DEF ContentType
<1>7. ASSUME NEW w \in Worker
      PROVE  Len(toWorker[w]) <= 1 /\ Len(toMaster[w]) <= 1
  <2>1. Len(<<>>) = 0 /\ Len(<<LoopEnd>>) = 1 /\ \A s : One(s) => Len(s) = 1
    <3>1. \A m : Len(<<m>>) = 1
      OBVIOUS
    <3>. QED
      BY <3>1 DEF One
  <2>2. HasPackage(w) \/ HasNone(w) \/ HasEnded(w) \/ Silent(w)
    BY <1>1 DEF ControlType, Phases, IInv, WorkerInv, ContentType, Looping, Ending, Outside
  <2>3. /\ toWorker[w] = <<>> \/ toWorker[w] = <<LoopEnd>> \/ One(toWorker[w])
        /\ toMaster[w] = <<>> \/ One(toMaster[w])
    BY <2>2 DEF HasPackage, HasNone, HasEnded, Silent
  <2>4. /\ Len(toWorker[w]) = 0 \/ Len(toWorker[w]) = 1
        /\ Len(toMaster[w]) = 0 \/ Len(toMaster[w]) = 1
    <3>. HIDE DEF One, LoopEnd
    <3>. QED
      BY <2>1, <2>3, Zenon
  <2>5. \A m : m = 0 \/ m = 1 => m <= 1
    OBVIOUS
  <2>. QED
    BY <2>4, <2>5, Zenon
<1>8. \A w \in Worker : Len(wp[w].data) <= WPSize /\ wp[w].start \in 0 .. NCells
  BY <1>1, SizeAssumption DEF ContentType
<1>9. /\ send_addr \in [Worker -> 0 .. NCells - 1]
      /\ witer \in [Worker -> 1 .. MaxIter + 1]
  BY <1>1 DEF ContentType, IterType
<1>10. /\ collective \in Collective /\ valid \in SUBSET Cell /\ to_send \in BOOLEAN
       /\ count_pkgs \in 0 .. n_packages /\ work_pointer \in 0 .. NCells
       /\ pkg_to_send \in 0 .. n_packages /\ pkg_to_recv \in 0 .. n_packages
       /\ free_workers \in 0 .. NWorkers
  BY <1>1 DEF MasterType
<1>11. /\ mpc \in Phases /\ p \in 1 .. NWorkers + 1 /\ has_work \in [Worker -> BOOLEAN]
       /\ wpc \in [Worker -> {"ready", "probe", "work", "fill", "post", "stopped"}]
  BY <1>1 DEF ControlType
<1>. HIDE DEF Content
<1>. QED
  BY <1>2, <1>6, <1>7, <1>8, <1>9, <1>10, <1>11 DEF TypeOK, Phases

\* TypeOK: with predictions as without them, no cell is advanced more than
\* twice in an iteration, no package is larger than asked for, its place and
\* the address of its results stay inside the grid, and no counter leaves its
\* bounds.
THEOREM TypesKept == Spec => []TypeOK
<1>1. Init => IInv /\ TypeInv
  BY InitInv, InitTypeInv
<1>2. IInv /\ TypeInv /\ [Next]_vars => (IInv /\ TypeInv)'
  BY StepInv, StepTypeInv
<1>. QED
  BY <1>1, <1>2, TypeFromInv, PTL DEF Spec
=============================================================================
