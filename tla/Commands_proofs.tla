--------------------------- MODULE Commands_proofs ---------------------------
(***************************************************************************)
(* Theorems about module Commands, for every choice of its options and     *)
(* every number of workers and time steps: every call of a rank meets its  *)
(* counterpart, the workers know what the master has set up, and what the  *)
(* master is told of the metrics is what happened.                         *)
(***************************************************************************)
EXTENDS Commands, Counting_proofs, SequenceTheorems

----------------------------------------------------------------------------
(* The layout of the program                                               *)

Ops == {"bcast", "barrier", "split", "gather", "loop", "probe"}

Whats == CallsOfWorker \cup {"loop", "probe"}

Calls == [op : Ops, what : Whats, value : Nat]

Options == [dht : BOOLEAN, interp : BOOLEAN, ai : BOOLEAN, snaps : BOOLEAN,
            timesteps : Nat]

LEMMA ConcatAt ==
  ASSUME NEW x \in Seq(Calls), NEW y \in Seq(Calls)
  PROVE  /\ x \o y \in Seq(Calls)
         /\ Len(x \o y) = Len(x) + Len(y)
         /\ \A p \in 1 .. Len(x) : (x \o y)[p] = x[p]
         /\ \A p \in 1 .. Len(y) : (x \o y)[Len(x) + p] = y[p]
  OBVIOUS

LEMMA CallOf ==
  ASSUME NEW x \in Seq(Calls), NEW p \in 1 .. Len(x)
  PROVE  x[p] \in Calls
  OBVIOUS

LEMMA CallAt ==
  ASSUME NEW op \in Ops, NEW what \in Whats, NEW value \in Nat
  PROVE  /\ Call(op, what, value) \in Seq(Calls)
         /\ Len(Call(op, what, value)) = 1
         /\ Call(op, what, value)[1] =
              [op |-> op, what |-> what, value |-> value]
  BY DEF Call, Calls

LEMMA BcastAt ==
  ASSUME NEW what \in Whats, NEW value \in Nat
  PROVE  /\ Bcast(what, value) \in Seq(Calls)
         /\ Len(Bcast(what, value)) = 1
         /\ Bcast(what, value)[1] =
              [op |-> "bcast", what |-> what, value |-> value]
  BY CallAt DEF Bcast, Ops

LEMMA SpeciesNamesAt ==
  /\ SpeciesNames \in Seq(Calls)
  /\ Len(SpeciesNames) = 2 * NSpecies + 1
  /\ SpeciesNames[1] = [op |-> "bcast", what |-> "n_elements", value |-> NSpecies]
  /\ \A k \in 1 .. NSpecies :
       /\ SpeciesNames[2 * k] = [op |-> "bcast", what |-> "size", value |-> 1]
       /\ SpeciesNames[2 * k + 1] = [op |-> "bcast", what |-> "name", value |-> 1]
<1>. DEFINE pair == Bcast("size", 1) \o Bcast("name", 1)
            x == Bcast("n_elements", NSpecies)
            y == [p \in 1 .. NSpecies * 2 |-> pair[((p - 1) % 2) + 1]]
<1>1. /\ pair \in Seq(Calls) /\ Len(pair) = 2
      /\ pair[1] = [op |-> "bcast", what |-> "size", value |-> 1]
      /\ pair[2] = [op |-> "bcast", what |-> "name", value |-> 1]
  <2>1. /\ Bcast("size", 1) \in Seq(Calls) /\ Len(Bcast("size", 1)) = 1
        /\ Bcast("size", 1)[1] = [op |-> "bcast", what |-> "size", value |-> 1]
    BY BcastAt DEF Whats, CallsOfWorker
  <2>2. /\ Bcast("name", 1) \in Seq(Calls) /\ Len(Bcast("name", 1)) = 1
        /\ Bcast("name", 1)[1] = [op |-> "bcast", what |-> "name", value |-> 1]
    BY BcastAt DEF Whats, CallsOfWorker
  <2>3. /\ pair[1] = Bcast("size", 1)[1] /\ pair[1 + 1] = Bcast("name", 1)[1]
        /\ pair \in Seq(Calls) /\ Len(pair) = 2
    BY <2>1, <2>2, ConcatAt
  <2>. QED
    BY <2>1, <2>2, <2>3
<1>2. /\ x \in Seq(Calls) /\ Len(x) = 1
      /\ x[1] = [op |-> "bcast", what |-> "n_elements", value |-> NSpecies]
  BY BcastAt, CommandsAssumption DEF CommandsAssumption, Whats, CallsOfWorker
<1>3. SpeciesNames = x \o y
  BY DEF SpeciesNames, Blocks
<1>. HIDE DEF pair, x
<1>4. y \in Seq(Calls) /\ Len(y) = 2 * NSpecies
  <2>1. \A p \in 1 .. NSpecies * 2 : ((p - 1) % 2) + 1 \in 1 .. 2
    BY CommandsAssumption DEF CommandsAssumption
  <2>2. \A q \in 1 .. 2 : pair[q] \in Calls
    BY <1>1, CallOf
  <2>3. \A p \in 1 .. NSpecies * 2 : pair[((p - 1) % 2) + 1] \in Calls
    BY <2>1, <2>2
  <2>. QED
    BY <2>3, CommandsAssumption DEF CommandsAssumption
<1>5. ASSUME NEW k \in 1 .. NSpecies
      PROVE  y[2 * k - 1] = pair[1] /\ y[2 * k] = pair[2]
  <2>1. ((2 * k - 1 - 1) % 2) + 1 = 1 /\ ((2 * k - 1) % 2) + 1 = 2
    BY CommandsAssumption DEF CommandsAssumption
  <2>. QED
    BY <2>1, CommandsAssumption DEF CommandsAssumption
<1>. HIDE DEF y
<1>6. /\ x \o y \in Seq(Calls) /\ Len(x \o y) = 1 + 2 * NSpecies
      /\ (x \o y)[1] = x[1]
      /\ \A p \in 1 .. 2 * NSpecies : (x \o y)[1 + p] = y[p]
  <2>1. /\ x \o y \in Seq(Calls)
        /\ Len(x \o y) = Len(x) + Len(y)
        /\ \A p \in 1 .. Len(x) : (x \o y)[p] = x[p]
        /\ \A p \in 1 .. Len(y) : (x \o y)[Len(x) + p] = y[p]
    BY <1>2, <1>4, ConcatAt
  <2>. QED
    BY <2>1, <1>2, <1>4
<1>7. ASSUME NEW k \in 1 .. NSpecies
      PROVE  /\ SpeciesNames[2 * k] = pair[1]
             /\ SpeciesNames[2 * k + 1] = pair[2]
  <2>1. 2 * k - 1 \in 1 .. 2 * NSpecies /\ 2 * k \in 1 .. 2 * NSpecies
    BY CommandsAssumption DEF CommandsAssumption
  <2>2. SpeciesNames[1 + (2 * k - 1)] = y[2 * k - 1] /\ SpeciesNames[1 + 2 * k] = y[2 * k]
    BY <2>1, <1>3, <1>6
  <2>. QED
    BY <2>2, <1>5, CommandsAssumption DEF CommandsAssumption
<1>. QED
  BY <1>1, <1>2, <1>3, <1>6, <1>7, CommandsAssumption DEF CommandsAssumption

Entry(op, what, value) == [op |-> op, what |-> what, value |-> value]

LEMMA EntryType ==
  ASSUME NEW value \in Nat
  PROVE  /\ Entry("barrier", "barrier", value) \in Calls
         /\ Entry("split", "split", value) \in Calls
         /\ Entry("gather", "gather", value) \in Calls
         /\ Entry("loop", "loop", value) \in Calls
         /\ Entry("probe", "probe", value) \in Calls
         /\ Entry("bcast", "base_totals", value) \in Calls
         /\ Entry("bcast", "has_id", value) \in Calls
         /\ Entry("bcast", "command", value) \in Calls
         /\ Entry("bcast", "prop_count", value) \in Calls
         /\ Entry("bcast", "validity", value) \in Calls
         /\ Entry("bcast", "type", value) \in Calls
  BY DEF Entry, Calls, Ops, Whats, CallsOfWorker

LEMMA CallIsEntry ==
  ASSUME NEW op, NEW what, NEW value
  PROVE  /\ Call(op, what, value) = <<Entry(op, what, value)>>
         /\ Bcast(what, value) = <<Entry("bcast", what, value)>>
  BY DEF Call, Bcast, Entry

LEMMA AppendOne ==
  ASSUME NEW x \in Seq(Calls), NEW e \in Calls
  PROVE  /\ x \o <<e>> \in Seq(Calls)
         /\ Len(x \o <<e>>) = Len(x) + 1
         /\ \A p \in 1 .. Len(x) : (x \o <<e>>)[p] = x[p]
         /\ (x \o <<e>>)[Len(x) + 1] = e
  OBVIOUS

LEMMA AppendCall ==
  ASSUME NEW x \in Seq(Calls), NEW n \in Nat, Len(x) = n, NEW e \in Calls
  PROVE  /\ x \o <<e>> \in Seq(Calls)
         /\ Len(x \o <<e>>) = n + 1
         /\ \A p \in 1 .. n : (x \o <<e>>)[p] = x[p]
         /\ (x \o <<e>>)[n + 1] = e
  OBVIOUS

Shared(s) == s.dht \/ s.interp

\* The number of calls of the start-up.
Off(s) == 2 * NSpecies + (IF Shared(s) THEN 7 ELSE 6)

\* The calls of the start-up in sequence x.
StartUpCalls(s, x) ==
  /\ x[1] = Entry("barrier", "barrier", 0)
  /\ x[2] = Entry("bcast", "n_elements", NSpecies)
  /\ \A k \in 1 .. NSpecies :
       /\ x[2 * k + 1] = Entry("bcast", "size", 1)
       /\ x[2 * k + 2] = Entry("bcast", "name", 1)
  /\ x[2 * NSpecies + 3] = Entry("bcast", "base_totals", 0)
  /\ x[2 * NSpecies + 4] = Entry("bcast", "has_id", 0)
  /\ Shared(s) => x[2 * NSpecies + 5] = Entry("split", "split", 0)
  /\ x[Off(s) - 1] = Entry("bcast", "command", CHEM_FIELD_INIT)
  /\ x[Off(s)] = Entry("bcast", "prop_count", NSpecies)

LEMMA StartUpAt ==
  ASSUME NEW s \in Options
  PROVE  /\ StartUp(s) \in Seq(Calls)
         /\ Len(StartUp(s)) = Off(s)
         /\ StartUpCalls(s, StartUp(s))
<1>. DEFINE N == 2 * NSpecies
            a == <<Entry("barrier", "barrier", 0)>>
            b == a \o SpeciesNames
            c == b \o <<Entry("bcast", "base_totals", 0)>>
            d == c \o <<Entry("bcast", "has_id", 0)>>
            e == d \o When(Shared(s), <<Entry("split", "split", 0)>>)
            f == e \o <<Entry("bcast", "command", CHEM_FIELD_INIT)>>
            g == f \o <<Entry("bcast", "prop_count", NSpecies)>>
            sh == IF Shared(s) THEN 1 ELSE 0
<1>. USE CommandsAssumption DEF CommandsAssumption
<1>0. N \in Nat /\ CHEM_FIELD_INIT \in Nat
  BY DEF CHEM_FIELD_INIT
<1>1. StartUp(s) = g
  BY CallIsEntry DEF StartUp, Shared
<1>2. /\ b \in Seq(Calls) /\ Len(b) = N + 2
      /\ b[1] = Entry("barrier", "barrier", 0)
      /\ b[2] = Entry("bcast", "n_elements", NSpecies)
      /\ \A k \in 1 .. NSpecies : /\ b[2 * k + 1] = Entry("bcast", "size", 1)
                                  /\ b[2 * k + 2] = Entry("bcast", "name", 1)
  <2>1. a \in Seq(Calls) /\ Len(a) = 1 /\ a[1] = Entry("barrier", "barrier", 0)
    BY EntryType
  <2>. HIDE DEF a
  <2>2. /\ b \in Seq(Calls)
        /\ Len(b) = Len(a) + Len(SpeciesNames)
        /\ \A p \in 1 .. Len(a) : b[p] = a[p]
        /\ \A p \in 1 .. Len(SpeciesNames) : b[Len(a) + p] = SpeciesNames[p]
    BY <2>1, SpeciesNamesAt, ConcatAt
  <2>. HIDE DEF b
  <2>3. \A p \in 1 .. N + 1 : b[1 + p] = SpeciesNames[p]
    BY <2>1, <2>2, SpeciesNamesAt
  <2>4. b[2] = Entry("bcast", "n_elements", NSpecies)
    BY <2>3, SpeciesNamesAt DEF Entry
  <2>5. ASSUME NEW k \in 1 .. NSpecies
        PROVE  /\ b[2 * k + 1] = Entry("bcast", "size", 1)
               /\ b[2 * k + 2] = Entry("bcast", "name", 1)
    <3>1. 2 * k \in 1 .. N + 1 /\ 2 * k + 1 \in 1 .. N + 1
      OBVIOUS
    <3>2. b[1 + 2 * k] = SpeciesNames[2 * k] /\ b[1 + (2 * k + 1)] = SpeciesNames[2 * k + 1]
      BY <3>1, <2>3
    <3>. QED
      BY <3>2, SpeciesNamesAt DEF Entry
  <2>. QED
    BY <2>1, <2>2, <2>4, <2>5, SpeciesNamesAt
<1>. HIDE DEF b, N
<1>3. /\ c \in Seq(Calls) /\ Len(c) = N + 3 /\ \A p \in 1 .. N + 2 : c[p] = b[p]
      /\ c[N + 3] = Entry("bcast", "base_totals", 0)
  BY <1>0, <1>2, AppendCall, EntryType
<1>. HIDE DEF c
<1>4. /\ d \in Seq(Calls) /\ Len(d) = N + 4 /\ \A p \in 1 .. N + 3 : d[p] = c[p]
      /\ d[N + 4] = Entry("bcast", "has_id", 0)
  BY <1>0, <1>3, AppendCall, EntryType
<1>. HIDE DEF d
<1>5. /\ e \in Seq(Calls) /\ Len(e) = N + 4 + sh /\ \A p \in 1 .. N + 4 : e[p] = d[p]
      /\ Shared(s) => e[N + 5] = Entry("split", "split", 0)
  <2>1. CASE Shared(s)
    <3>. DEFINE z == d \o <<Entry("split", "split", 0)>>
    <3>1. e = z /\ sh = 1
      BY <2>1 DEF When
    <3>2. /\ z \in Seq(Calls) /\ Len(z) = N + 4 + 1 /\ \A p \in 1 .. N + 4 : z[p] = d[p]
          /\ z[N + 4 + 1] = Entry("split", "split", 0)
      BY <1>0, <1>4, AppendCall, EntryType
    <3>. HIDE DEF z, e, sh
    <3>. QED
      BY <3>1, <3>2, <1>0
  <2>2. CASE ~Shared(s)
    <3>1. e = d \o <<>> /\ sh = 0
      BY <2>2 DEF When
    <3>2. d \o <<>> = d
      BY <1>4, ConcatEmptySeq
    <3>. HIDE DEF e, sh
    <3>. QED
      BY <2>2, <3>1, <3>2, <1>0, <1>4
  <2>. QED
    BY <2>1, <2>2
<1>6. N + 4 + sh \in Nat /\ Off(s) = N + 6 + sh /\ sh \in {0, 1}
      /\ (Shared(s) => N + 5 <= N + 4 + sh)
  BY <1>0 DEF Off, N
<1>. HIDE DEF e, sh
<1>7. /\ f \in Seq(Calls) /\ Len(f) = N + 4 + sh + 1 /\ \A p \in 1 .. N + 4 + sh : f[p] = e[p]
      /\ f[N + 4 + sh + 1] = Entry("bcast", "command", CHEM_FIELD_INIT)
  <2>1. Entry("bcast", "command", CHEM_FIELD_INIT) \in Calls
    BY <1>0, EntryType
  <2>. DEFINE n == N + 4 + sh
  <2>2. n \in Nat /\ e \in Seq(Calls) /\ Len(e) = n
    BY <1>5, <1>6
  <2>. HIDE DEF n
  <2>3. /\ f \in Seq(Calls) /\ Len(f) = n + 1 /\ \A p \in 1 .. n : f[p] = e[p]
        /\ f[n + 1] = Entry("bcast", "command", CHEM_FIELD_INIT)
    BY <2>1, <2>2, AppendCall
  <2>. QED
    BY <2>3 DEF n
<1>. HIDE DEF f
<1>8. /\ g \in Seq(Calls) /\ Len(g) = N + 4 + sh + 1 + 1
      /\ \A p \in 1 .. N + 4 + sh + 1 : g[p] = f[p]
      /\ g[N + 4 + sh + 1 + 1] = Entry("bcast", "prop_count", NSpecies)
  BY <1>6, <1>7, AppendCall, EntryType
<1>. HIDE DEF g
<1>9. \A p \in 1 .. N + 2 : g[p] = b[p]
  BY <1>0, <1>3, <1>4, <1>5, <1>6, <1>7, <1>8
<1>10. \A k \in 1 .. NSpecies : 2 * k + 1 \in 1 .. N + 2 /\ 2 * k + 2 \in 1 .. N + 2
  BY DEF N
<1>11. \A k \in 1 .. NSpecies : /\ g[2 * k + 1] = Entry("bcast", "size", 1)
                                /\ g[2 * k + 2] = Entry("bcast", "name", 1)
  BY <1>2, <1>9, <1>10
<1>12. /\ g[1] = Entry("barrier", "barrier", 0)
       /\ g[2] = Entry("bcast", "n_elements", NSpecies)
  BY <1>0, <1>2, <1>9
<1>13. g[N + 3] = c[N + 3] /\ g[N + 4] = d[N + 4]
  <2>1. \A p \in 1 .. N + 4 : g[p] = d[p]
    BY <1>0, <1>5, <1>6, <1>7, <1>8
  <2>. QED
    BY <2>1, <1>0, <1>4
<1>14. Shared(s) => g[N + 5] = e[N + 5]
  BY <1>0, <1>6, <1>7, <1>8, SMTT(30)
<1>15. g[N + 4 + sh + 1] = f[N + 4 + sh + 1]
  BY <1>6, <1>8
<1>16. Off(s) = N + 4 + sh + 1 + 1 /\ Off(s) - 1 = N + 4 + sh + 1
  BY <1>0, <1>6
<1>17. StartUpCalls(s, g)
  BY <1>3, <1>4, <1>5, <1>7, <1>8, <1>11, <1>12, <1>13, <1>14, <1>15, <1>16 DEF StartUpCalls, N
<1>. QED
  BY <1>1, <1>8, <1>16, <1>17

\* The number of calls of a step, and of those for the validity vector.
StepCalls(s)     == IF s.ai THEN 5 ELSE 3
ValidityCalls(s) == IF s.ai THEN 2 ELSE 0

\* The calls of step n in sequence x, behind the first o calls.
IterationCalls(s, x, o, n) ==
  /\ s.ai => /\ x[o + 1] = Entry("bcast", "command", CHEM_AI_BCAST_VALIDITY)
             /\ x[o + 2] = Entry("bcast", "validity", n)
  /\ x[o + ValidityCalls(s) + 1] = Entry("bcast", "command", CHEM_WORK_LOOP)
  /\ x[o + ValidityCalls(s) + 2] = Entry("barrier", "barrier", 0)
  /\ x[o + ValidityCalls(s) + 3] = Entry("loop", "loop", n)

LEMMA IterationAt ==
  ASSUME NEW s \in Options, NEW n \in Nat
  PROVE  /\ Iteration(s, n) \in Seq(Calls)
         /\ Len(Iteration(s, n)) = StepCalls(s)
         /\ IterationCalls(s, Iteration(s, n), 0, n)
<1>. DEFINE command == Entry("bcast", "command", CHEM_WORK_LOOP)
            barrier == Entry("barrier", "barrier", 0)
            loop == Entry("loop", "loop", n)
            commandV == Entry("bcast", "command", CHEM_AI_BCAST_VALIDITY)
            validityV == Entry("bcast", "validity", n)
<1>1. Iteration(s, n) = When(s.ai, <<commandV>> \o <<validityV>>)
                          \o <<command>> \o <<barrier>> \o <<loop>>
  BY CallIsEntry DEF Iteration
<1>2. CHEM_WORK_LOOP \in Nat /\ CHEM_AI_BCAST_VALIDITY \in Nat
  BY DEF CHEM_WORK_LOOP, CHEM_AI_BCAST_VALIDITY
<1>3. /\ command \in Calls /\ barrier \in Calls /\ loop \in Calls
      /\ commandV \in Calls /\ validityV \in Calls
  BY <1>2, EntryType
<1>. HIDE DEF command, barrier, loop, commandV, validityV
<1>. DEFINE v == When(s.ai, <<commandV>> \o <<validityV>>)
            m == ValidityCalls(s)
            x == v \o <<command>>
            y == x \o <<barrier>>
            z == y \o <<loop>>
<1>4. /\ v \in Seq(Calls) /\ Len(v) = m /\ m \in {0, 2}
      /\ s.ai => m = 2 /\ v[1] = commandV /\ v[2] = validityV
  <2>1. CASE s.ai
    <3>1. <<commandV>> \in Seq(Calls) /\ Len(<<commandV>>) = 1 /\ <<commandV>>[1] = commandV
      BY <1>3
    <3>. DEFINE w == <<commandV>> \o <<validityV>>
    <3>2. w \in Seq(Calls) /\ Len(w) = 2 /\ w[1] = commandV /\ w[2] = validityV
      BY <3>1, <1>3, AppendCall
    <3>3. v = w /\ m = 2
      BY <2>1 DEF When, ValidityCalls
    <3>. HIDE DEF v, w, m
    <3>. QED
      BY <3>2, <3>3
  <2>2. CASE ~s.ai
    BY <2>2 DEF When, ValidityCalls
  <2>. QED
    BY <2>1, <2>2
<1>. HIDE DEF v, m
<1>5. /\ x \in Seq(Calls) /\ Len(x) = m + 1 /\ \A p \in 1 .. m : x[p] = v[p]
      /\ x[m + 1] = command
  BY <1>3, <1>4, AppendCall
<1>. HIDE DEF x
<1>6. /\ y \in Seq(Calls) /\ Len(y) = m + 1 + 1 /\ \A p \in 1 .. m + 1 : y[p] = x[p]
      /\ y[m + 1 + 1] = barrier
  BY <1>3, <1>4, <1>5, AppendCall
<1>. HIDE DEF y
<1>7. /\ z \in Seq(Calls) /\ Len(z) = m + 1 + 1 + 1
      /\ \A p \in 1 .. m + 1 + 1 : z[p] = y[p]
      /\ z[m + 1 + 1 + 1] = loop
  BY <1>3, <1>4, <1>6, AppendCall
<1>8. Iteration(s, n) = z
  BY <1>1 DEF x, y, v
<1>. HIDE DEF z
<1>9. /\ z[m + 1] = command /\ z[m + 2] = barrier /\ z[m + 3] = loop /\ Len(z) = m + 3
      /\ s.ai => z[1] = commandV /\ z[2] = validityV
  BY <1>4, <1>5, <1>6, <1>7
<1>10. StepCalls(s) = m + 3
  BY DEF StepCalls, ValidityCalls, m
<1>11. IterationCalls(s, z, 0, n)
  BY <1>4, <1>9 DEF IterationCalls, command, barrier, loop, commandV, validityV, m
<1>. QED
  BY <1>7, <1>8, <1>9, <1>10, <1>11

LEMMA BlockIndex ==
  ASSUME NEW l \in {3, 5}, NEW n \in Nat, NEW i \in 1 .. l
  PROVE  /\ ((((n * l) + i) - 1) \div l) + 1 = n + 1
         /\ ((((n * l) + i) - 1) % l) + 1 = i
<1>1. CASE l = 3
  BY <1>1
<1>2. CASE l = 5
  BY <1>2
<1>. QED
  BY <1>1, <1>2

LEMMA BlockParts ==
  ASSUME NEW l \in {3, 5}, NEW T \in Nat, NEW p \in 1 .. T * l
  PROVE  /\ ((p - 1) \div l) + 1 \in 1 .. T
         /\ ((p - 1) % l) + 1 \in 1 .. l
<1>1. CASE l = 3
  BY <1>1
<1>2. CASE l = 5
  BY <1>2
<1>. QED
  BY <1>1, <1>2

LEMMA IterationsAt ==
  ASSUME NEW s \in Options
  PROVE  /\ Iterations(s) \in Seq(Calls)
         /\ Len(Iterations(s)) = s.timesteps * StepCalls(s)
         /\ \A n \in 1 .. s.timesteps :
              \A i \in 1 .. StepCalls(s) :
                Iterations(s)[((n - 1) * StepCalls(s)) + i] = Iteration(s, n)[i]
<1>. DEFINE l == StepCalls(s)
            T == s.timesteps
<1>1. l \in {3, 5} /\ T \in Nat
  BY DEF StepCalls, Options
<1>2. Len(Iteration(s, 1)) = l
  BY IterationAt
<1>3. Iterations(s) = [p \in 1 .. T * l |-> Iteration(s, ((p - 1) \div l) + 1)[((p - 1) % l) + 1]]
  BY <1>2 DEF Iterations, Blocks
<1>. HIDE DEF l, T
<1>4. \A n \in 1 .. T : \A i \in 1 .. l : Iteration(s, n)[i] \in Calls
  <2>. TAKE n \in 1 .. T
  <2>1. Iteration(s, n) \in Seq(Calls) /\ Len(Iteration(s, n)) = l
    BY <1>1, IterationAt DEF l
  <2>. QED
    BY <2>1, CallOf
<1>5. T * l \in Nat
  BY <1>1
<1>6. Iterations(s) \in Seq(Calls) /\ Len(Iterations(s)) = T * l
  <2>1. \A p \in 1 .. T * l :
          Iteration(s, ((p - 1) \div l) + 1)[((p - 1) % l) + 1] \in Calls
    BY <1>1, <1>4, BlockParts
  <2>. QED
    BY <1>3, <1>5, <2>1
<1>7. ASSUME NEW n \in 1 .. T, NEW i \in 1 .. l
      PROVE  Iterations(s)[((n - 1) * l) + i] = Iteration(s, n)[i]
  <2>. DEFINE p == ((n - 1) * l) + i
  <2>1. n - 1 \in Nat /\ n \in Int /\ i \in Int
    BY <1>1
  <2>2. ((p - 1) \div l) + 1 = n /\ ((p - 1) % l) + 1 = i
    BY <1>1, <2>1, BlockIndex
  <2>3. p \in 1 .. T * l
    <3>1. CASE l = 3
      BY <3>1, <1>1
    <3>2. CASE l = 5
      BY <3>2, <1>1
    <3>. QED
      BY <3>1, <3>2, <1>1
  <2>. HIDE DEF p
  <2>4. Iterations(s)[p] = Iteration(s, n)[i]
    BY <1>3, <2>2, <2>3
  <2>. QED
    BY <2>4 DEF p
<1>. QED
  BY <1>6, <1>7 DEF l, T

\* The counters that are stored with options s: Stored is StoredOf(setup).
StoredOf(s) ==
  (IF s.dht THEN {WORKER_DHT_HITS, WORKER_DHT_EVICTIONS} ELSE {})
    \cup (IF s.interp THEN {WORKER_IP_CALLS, WORKER_PHT_CACHE_HITS} ELSE {})

\* The timings there are with options s.
TimingsOf(s) ==
  WORKER_PHREEQC .. (IF s.interp THEN WORKER_IP_FC ELSE WORKER_IDLE)

\* The master asks for one timing or one metric behind the first o calls.
Triple(s, x, o) ==
  \E t \in TimingsOf(s) \cup StoredOf(s) :
    /\ x[o + 1] = Entry("bcast", "command", CHEM_PERF)
    /\ x[o + 2] = Entry("bcast", "type", t)
    /\ x[o + 3] = IF t \in StoredOf(s) THEN Entry("probe", "probe", t)
                  ELSE Entry("gather", "gather", t)

Triples(s, x, k) ==
  /\ x \in Seq(Calls)
  /\ Len(x) = 3 * k
  /\ \A j \in 0 .. k - 1 : Triple(s, x, 3 * j)

LEMMA TriplesConcat ==
  ASSUME NEW s, NEW k \in Nat, NEW l \in Nat, NEW x, NEW y,
         Triples(s, x, k), Triples(s, y, l)
  PROVE  Triples(s, x \o y, k + l)
<1>1. /\ x \in Seq(Calls) /\ Len(x) = 3 * k
      /\ y \in Seq(Calls) /\ Len(y) = 3 * l
  BY DEF Triples
<1>. DEFINE z == x \o y
<1>2. /\ z \in Seq(Calls) /\ Len(z) = 3 * k + 3 * l
      /\ \A p \in 1 .. 3 * k : z[p] = x[p]
      /\ \A p \in 1 .. 3 * l : z[3 * k + p] = y[p]
  <2>1. /\ z \in Seq(Calls) /\ Len(z) = Len(x) + Len(y)
        /\ \A p \in 1 .. Len(x) : z[p] = x[p]
        /\ \A p \in 1 .. Len(y) : z[Len(x) + p] = y[p]
    BY <1>1, ConcatAt
  <2>. HIDE DEF z
  <2>. QED
    BY <1>1, <2>1
<1>. HIDE DEF z
<1>3. ASSUME NEW j \in 0 .. k + l - 1
      PROVE  Triple(s, z, 3 * j)
  <2>1. CASE j < k
    <3>1. Triple(s, x, 3 * j)
      BY <2>1 DEF Triples
    <3>2. /\ z[3 * j + 1] = x[3 * j + 1] /\ z[3 * j + 2] = x[3 * j + 2]
          /\ z[3 * j + 3] = x[3 * j + 3]
      BY <1>2, <2>1
    <3>. QED
      BY <3>1, <3>2 DEF Triple
  <2>2. CASE j >= k
    <3>. DEFINE i == j - k
    <3>1. i \in 0 .. l - 1 /\ 3 * j = 3 * k + 3 * i
      BY <2>2
    <3>2. Triple(s, y, 3 * i)
      BY <3>1 DEF Triples
    <3>. HIDE DEF i
    <3>3. /\ 3 * i + 1 \in 1 .. 3 * l /\ 3 * i + 2 \in 1 .. 3 * l /\ 3 * i + 3 \in 1 .. 3 * l
      BY <3>1
    <3>4. /\ z[3 * k + (3 * i + 1)] = y[3 * i + 1] /\ z[3 * k + (3 * i + 2)] = y[3 * i + 2]
          /\ z[3 * k + (3 * i + 3)] = y[3 * i + 3]
      BY <1>2, <3>3
    <3>5. /\ 3 * k + (3 * i + 1) = 3 * j + 1 /\ 3 * k + (3 * i + 2) = 3 * j + 2
          /\ 3 * k + (3 * i + 3) = 3 * j + 3
      BY <3>1
    <3>. QED
      BY <3>2, <3>4, <3>5 DEF Triple
  <2>. QED
    BY <2>1, <2>2
<1>4. Len(z) = 3 * (k + l)
  BY <1>2
<1>5. Triples(s, z, k + l)
  BY <1>2, <1>3, <1>4 DEF Triples
<1>. QED
  BY <1>5 DEF z

LEMMA OneTriple ==
  ASSUME NEW s, NEW t \in (TimingsOf(s) \cup StoredOf(s)) \cap Nat
  PROVE  /\ t \in StoredOf(s) => Triples(s, Metric(t), 1)
         /\ t \notin StoredOf(s) => Triples(s, Timing(t), 1)
<1>. DEFINE command == Entry("bcast", "command", CHEM_PERF)
            type == Entry("bcast", "type", t)
            probe == Entry("probe", "probe", t)
            gather == Entry("gather", "gather", t)
<1>1. CHEM_PERF \in Nat
  BY DEF CHEM_PERF
<1>2. command \in Calls /\ type \in Calls /\ probe \in Calls /\ gather \in Calls
  BY <1>1, EntryType
<1>3. /\ Metric(t) = <<command>> \o <<type>> \o <<probe>>
      /\ Timing(t) = <<command>> \o <<type>> \o <<gather>>
  BY CallIsEntry DEF Metric, Timing, Perf
<1>. DEFINE x == <<command>> \o <<type>>
            m == x \o <<probe>>
            g == x \o <<gather>>
<1>. HIDE DEF command, type, probe, gather
<1>4. x \in Seq(Calls) /\ Len(x) = 2 /\ x[1] = command /\ x[2] = type
  <2>1. <<command>> \in Seq(Calls) /\ Len(<<command>>) = 1 /\ <<command>>[1] = command
    BY <1>2
  <2>. QED
    BY <2>1, <1>2, AppendCall
<1>. HIDE DEF x
<1>5. m \in Seq(Calls) /\ Len(m) = 3 /\ m[1] = command /\ m[2] = type /\ m[3] = probe
  <2>1. /\ m \in Seq(Calls) /\ Len(m) = Len(x) + 1
        /\ \A p \in 1 .. Len(x) : m[p] = x[p]
        /\ m[Len(x) + 1] = probe
    BY <1>2, <1>4, AppendOne
  <2>. HIDE DEF m
  <2>. QED
    BY <2>1, <1>4
<1>6. g \in Seq(Calls) /\ Len(g) = 3 /\ g[1] = command /\ g[2] = type /\ g[3] = gather
  <2>1. /\ g \in Seq(Calls) /\ Len(g) = Len(x) + 1
        /\ \A p \in 1 .. Len(x) : g[p] = x[p]
        /\ g[Len(x) + 1] = gather
    BY <1>2, <1>4, AppendOne
  <2>. HIDE DEF g
  <2>. QED
    BY <2>1, <1>4
<1>7. Metric(t) = m /\ Timing(t) = g
  BY <1>3 DEF x
<1>. HIDE DEF m, g
<1>8. t \in StoredOf(s) => Triple(s, m, 0)
  BY <1>5 DEF Triple, command, type, probe
<1>9. t \notin StoredOf(s) => Triple(s, g, 0)
  BY <1>6 DEF Triple, command, type, gather
<1>10. 0 .. 1 - 1 = {0} /\ 3 * 0 = 0 /\ 3 * 1 = 3
  OBVIOUS
<1>. QED
  BY <1>5, <1>6, <1>7, <1>8, <1>9, <1>10 DEF Triples


InTriples(s, x) == \E k \in Nat : Triples(s, x, k)

LEMMA InTriplesConcat ==
  ASSUME NEW s, NEW x, NEW y, InTriples(s, x), InTriples(s, y)
  PROVE  InTriples(s, x \o y)
<1>1. PICK k \in Nat : Triples(s, x, k)
  BY DEF InTriples
<1>2. PICK l \in Nat : Triples(s, y, l)
  BY DEF InTriples
<1>3. Triples(s, x \o y, k + l) /\ k + l \in Nat
  BY <1>1, <1>2, TriplesConcat
<1>. QED
  BY <1>3 DEF InTriples

\* The number of timings and metrics asked for.
Asked(s) == Len(Profiling(s)) \div 3

LEMMA ProfilingAt ==
  ASSUME NEW s \in Options
  PROVE  Triples(s, Profiling(s), Asked(s)) /\ Asked(s) \in Nat
<1>. DEFINE first == Timing(WORKER_IDLE) \o Timing(WORKER_PHREEQC)
            dht == Metric(WORKER_DHT_HITS) \o Metric(WORKER_DHT_EVICTIONS)
                     \o Timing(WORKER_DHT_GET) \o Timing(WORKER_DHT_FILL)
            interp == Timing(WORKER_IP_WRITE) \o Timing(WORKER_IP_READ)
                        \o Timing(WORKER_IP_GATHER) \o Timing(WORKER_IP_FC)
                        \o Metric(WORKER_IP_CALLS) \o Metric(WORKER_PHT_CACHE_HITS)
<1>1. ASSUME NEW t \in (TimingsOf(s) \cup StoredOf(s)) \cap Nat
      PROVE  /\ t \in StoredOf(s) => InTriples(s, Metric(t))
             /\ t \notin StoredOf(s) => InTriples(s, Timing(t))
  BY OneTriple DEF InTriples
<1>2. \A t \in {WORKER_IDLE, WORKER_PHREEQC, WORKER_DHT_GET, WORKER_DHT_FILL} :
        InTriples(s, Timing(t))
  BY <1>1 DEF TimingsOf, StoredOf, WORKER_PHREEQC, WORKER_DHT_GET, WORKER_DHT_FILL,
     WORKER_IDLE, WORKER_IP_FC, WORKER_DHT_HITS, WORKER_DHT_EVICTIONS,
     WORKER_PHT_CACHE_HITS, WORKER_IP_CALLS
<1>3. InTriples(s, first)
  BY <1>2, InTriplesConcat
<1>4. ASSUME s.dht PROVE InTriples(s, dht)
  <2>1. \A t \in {WORKER_DHT_HITS, WORKER_DHT_EVICTIONS} : InTriples(s, Metric(t))
    BY <1>1, <1>4 DEF StoredOf, WORKER_DHT_HITS, WORKER_DHT_EVICTIONS
  <2>. QED
    BY <1>2, <2>1, InTriplesConcat
<1>5. ASSUME s.interp PROVE InTriples(s, interp)
  <2>1. \A t \in {WORKER_IP_WRITE, WORKER_IP_READ, WORKER_IP_GATHER, WORKER_IP_FC} :
          InTriples(s, Timing(t))
    BY <1>1, <1>5 DEF TimingsOf, StoredOf, WORKER_PHREEQC, WORKER_IP_WRITE, WORKER_IP_READ,
       WORKER_IP_GATHER, WORKER_IP_FC, WORKER_DHT_HITS, WORKER_DHT_EVICTIONS,
       WORKER_PHT_CACHE_HITS, WORKER_IP_CALLS
  <2>2. \A t \in {WORKER_IP_CALLS, WORKER_PHT_CACHE_HITS} : InTriples(s, Metric(t))
    BY <1>1, <1>5 DEF StoredOf, WORKER_IP_CALLS, WORKER_PHT_CACHE_HITS
  <2>. QED
    BY <2>1, <2>2, InTriplesConcat
<1>6. InTriples(s, <<>>)
  <2>1. Triples(s, <<>>, 0)
    BY DEF Triples
  <2>. QED
    BY <2>1 DEF InTriples
<1>7. Profiling(s) = first \o When(s.dht, dht) \o When(s.interp, interp)
  BY DEF Profiling
<1>. HIDE DEF first, dht, interp
<1>8. InTriples(s, When(s.dht, dht)) /\ InTriples(s, When(s.interp, interp))
  BY <1>4, <1>5, <1>6 DEF When
<1>9. InTriples(s, Profiling(s))
  BY <1>3, <1>7, <1>8, InTriplesConcat
<1>10. PICK k \in Nat : Triples(s, Profiling(s), k)
  BY <1>9 DEF InTriples
<1>11. Asked(s) = k
  BY <1>10 DEF Asked, Triples
<1>. QED
  BY <1>10, <1>11

\* The calls before step n, and those before the profile.
CallsBefore(s, n) == Off(s) + ((n - 1) * StepCalls(s))
Base(s)      == Off(s) + (s.timesteps * StepCalls(s))

LEMMA BeforeNext ==
  ASSUME NEW s \in Options
  PROVE  /\ Off(s) \in Nat /\ Off(s) >= 6 /\ Off(s) >= 2 * NSpecies + 6
         /\ Shared(s) => Off(s) = 2 * NSpecies + 7
         /\ ~Shared(s) => Off(s) = 2 * NSpecies + 6
         /\ Base(s) \in Nat
         /\ \A n \in Nat : CallsBefore(s, n) \in Int
         /\ \A n \in Nat : CallsBefore(s, n + 1) = CallsBefore(s, n) + StepCalls(s)
         /\ \A m, n \in Nat : m < n => CallsBefore(s, m) + StepCalls(s) <= CallsBefore(s, n)
         /\ CallsBefore(s, 1) = Off(s)
         /\ CallsBefore(s, s.timesteps + 1) = Base(s)
<1>. USE CommandsAssumption DEF CommandsAssumption
<1>1. Off(s) \in Nat /\ Off(s) >= 6 /\ Off(s) >= 2 * NSpecies + 6
      /\ (Shared(s) => Off(s) = 2 * NSpecies + 7)
      /\ (~Shared(s) => Off(s) = 2 * NSpecies + 6)
  BY DEF Off
<1>2. StepCalls(s) \in {3, 5} /\ s.timesteps \in Nat
  BY DEF StepCalls, Options
<1>3. CASE StepCalls(s) = 3
  BY <1>1, <1>2, <1>3 DEF CallsBefore, Base
<1>4. CASE StepCalls(s) = 5
  BY <1>1, <1>2, <1>4 DEF CallsBefore, Base
<1>. QED
  BY <1>1, <1>2, <1>3, <1>4

\* The calls of the whole program in sequence x.
ProgramCalls(s, x) ==
  /\ x \in Seq(Calls)
  /\ Len(x) = Base(s) + (3 * Asked(s)) + 1
  /\ StartUpCalls(s, x)
  /\ \A n \in 1 .. s.timesteps : IterationCalls(s, x, CallsBefore(s, n), n)
  /\ \A j \in 0 .. Asked(s) - 1 : Triple(s, x, Base(s) + (3 * j))
  /\ x[Len(x)] = Entry("bcast", "command", CHEM_BREAK_MAIN_LOOP)

LEMMA ProgramAt ==
  ASSUME NEW s \in Options
  PROVE  ProgramCalls(s, Program(s))
<1>. DEFINE a == StartUp(s)
            b == Iterations(s)
            c == Profiling(s)
            x == a \o b
            y == x \o c
            e == Entry("bcast", "command", CHEM_BREAK_MAIN_LOOP)
            z == y \o <<e>>
            T == s.timesteps
            l == StepCalls(s)
            k == Asked(s)
<1>1. Program(s) = z
  BY CallIsEntry DEF Program, MasterLoopBreak
<1>2. a \in Seq(Calls) /\ Len(a) = Off(s) /\ StartUpCalls(s, a)
  BY StartUpAt
<1>3. /\ b \in Seq(Calls) /\ Len(b) = T * l
      /\ \A n \in 1 .. T : \A i \in 1 .. l : b[((n - 1) * l) + i] = Iteration(s, n)[i]
  BY IterationsAt
<1>4. c \in Seq(Calls) /\ Len(c) = 3 * k /\ (\A j \in 0 .. k - 1 : Triple(s, c, 3 * j))
      /\ k \in Nat
  BY ProfilingAt DEF Triples
<1>5. e \in Calls
  BY EntryType DEF CHEM_BREAK_MAIN_LOOP
<1>6. T \in Nat /\ l \in {3, 5} /\ Off(s) \in Nat /\ Base(s) \in Nat /\ Base(s) = Off(s) + T * l
  BY BeforeNext DEF StepCalls, Options, Base
<1>. HIDE DEF a, b, c, e, T, l, k
<1>7. /\ x \in Seq(Calls) /\ Len(x) = Base(s)
      /\ \A p \in 1 .. Off(s) : x[p] = a[p]
      /\ \A p \in 1 .. T * l : x[Off(s) + p] = b[p]
  <2>1. /\ x \in Seq(Calls) /\ Len(x) = Len(a) + Len(b)
        /\ \A p \in 1 .. Len(a) : x[p] = a[p]
        /\ \A p \in 1 .. Len(b) : x[Len(a) + p] = b[p]
    BY <1>2, <1>3, ConcatAt
  <2>. HIDE DEF x
  <2>. QED
    BY <2>1, <1>2, <1>3, <1>6
<1>. HIDE DEF x
<1>8. /\ y \in Seq(Calls) /\ Len(y) = Base(s) + 3 * k
      /\ \A p \in 1 .. Base(s) : y[p] = x[p]
      /\ \A p \in 1 .. 3 * k : y[Base(s) + p] = c[p]
  <2>1. /\ y \in Seq(Calls) /\ Len(y) = Len(x) + Len(c)
        /\ \A p \in 1 .. Len(x) : y[p] = x[p]
        /\ \A p \in 1 .. Len(c) : y[Len(x) + p] = c[p]
    BY <1>7, <1>4, ConcatAt
  <2>. HIDE DEF y
  <2>. QED
    BY <2>1, <1>7, <1>4
<1>. HIDE DEF y
<1>9. /\ z \in Seq(Calls) /\ Len(z) = Base(s) + 3 * k + 1
      /\ \A p \in 1 .. Base(s) + 3 * k : z[p] = y[p]
      /\ z[Len(z)] = e
  <2>1. /\ z \in Seq(Calls) /\ Len(z) = Len(y) + 1
        /\ \A p \in 1 .. Len(y) : z[p] = y[p]
        /\ z[Len(y) + 1] = e
    BY <1>8, <1>5, AppendOne
  <2>. HIDE DEF z
  <2>. QED
    BY <2>1, <1>8
<1>. HIDE DEF z
<1>10. \A p \in 1 .. Off(s) : z[p] = a[p]
  <2>1. Off(s) <= Base(s)
    BY <1>6
  <2>. QED
    BY <2>1, <1>4, <1>6, <1>7, <1>8, <1>9, SMTT(30)
<1>11. StartUpCalls(s, z)
  <2>1. /\ 1 \in 1 .. Off(s) /\ 2 \in 1 .. Off(s)
        /\ \A i \in 1 .. NSpecies : 2 * i + 1 \in 1 .. Off(s) /\ 2 * i + 2 \in 1 .. Off(s)
        /\ 2 * NSpecies + 3 \in 1 .. Off(s) /\ 2 * NSpecies + 4 \in 1 .. Off(s)
        /\ Shared(s) => 2 * NSpecies + 5 \in 1 .. Off(s)
        /\ Off(s) - 1 \in 1 .. Off(s) /\ Off(s) \in 1 .. Off(s)
    BY BeforeNext, CommandsAssumption, SMTT(30) DEF CommandsAssumption
  <2>2. \A i \in 1 .. NSpecies : z[2 * i + 1] = a[2 * i + 1] /\ z[2 * i + 2] = a[2 * i + 2]
    BY <2>1, <1>10
  <2>. QED
    BY <2>1, <2>2, <1>2, <1>10 DEF StartUpCalls
<1>12. ASSUME NEW n \in 1 .. T
       PROVE  IterationCalls(s, z, CallsBefore(s, n), n)
  <2>. DEFINE o == CallsBefore(s, n)
              it == Iteration(s, n)
  <2>1. n \in Nat /\ n - 1 \in Nat
    BY <1>6
  <2>2. IterationCalls(s, it, 0, n)
    BY <2>1, IterationAt
  <2>3. ASSUME NEW i \in 1 .. l PROVE z[o + i] = it[i]
    <3>. DEFINE p == ((n - 1) * l) + i
    <3>1. p \in 1 .. T * l /\ o \in Int /\ o + i = Off(s) + p
      <4>1. CASE l = 3
        BY <4>1, <1>6 DEF CallsBefore, l
      <4>2. CASE l = 5
        BY <4>2, <1>6 DEF CallsBefore, l
      <4>. QED
        BY <4>1, <4>2, <1>6
    <3>2. b[p] = it[i]
      BY <1>3
    <3>. HIDE DEF p, o, it
    <3>3. x[Off(s) + p] = b[p]
      BY <3>1, <1>7
    <3>4. Off(s) + p \in 1 .. Base(s)
      BY <3>1, <1>6
    <3>5. y[Off(s) + p] = x[Off(s) + p] /\ z[Off(s) + p] = y[Off(s) + p]
      BY <3>4, <1>4, <1>6, <1>8, <1>9
    <3>. QED
      BY <3>1, <3>2, <3>3, <3>5
  <2>4. ValidityCalls(s) \in Nat /\ ValidityCalls(s) + 3 = l /\ (s.ai => l = 5)
    BY DEF ValidityCalls, l, StepCalls
  <2>. DEFINE v == ValidityCalls(s)
  <2>5. /\ v + 1 \in 1 .. l /\ v + 2 \in 1 .. l /\ v + 3 \in 1 .. l
        /\ s.ai => 1 \in 1 .. l /\ 2 \in 1 .. l
    BY <2>4
  <2>6. o \in Int
    BY <2>1, BeforeNext
  <2>. HIDE DEF o, it
  <2>7. /\ z[o + (v + 1)] = it[v + 1] /\ z[o + (v + 2)] = it[v + 2] /\ z[o + (v + 3)] = it[v + 3]
        /\ s.ai => z[o + 1] = it[1] /\ z[o + 2] = it[2]
    BY <2>3, <2>5
  <2>8. o + (v + 1) = o + v + 1 /\ o + (v + 2) = o + v + 2 /\ o + (v + 3) = o + v + 3
        /\ 0 + v + 1 = v + 1 /\ 0 + v + 2 = v + 2 /\ 0 + v + 3 = v + 3 /\ 0 + 1 = 1 /\ 0 + 2 = 2
    BY <2>4, <2>6
  <2>9. IterationCalls(s, z, o, n)
    BY <2>2, <2>7, <2>8 DEF IterationCalls
  <2>. QED
    BY <2>9 DEF o
<1>13. ASSUME NEW j \in 0 .. k - 1
       PROVE  Triple(s, z, Base(s) + (3 * j))
  <2>1. Triple(s, c, 3 * j)
    BY <1>4
  <2>2. 3 * j + 1 \in 1 .. 3 * k /\ 3 * j + 2 \in 1 .. 3 * k /\ 3 * j + 3 \in 1 .. 3 * k
    BY <1>4
  <2>3. \A p \in 1 .. 3 * k : z[Base(s) + p] = c[p]
    BY <1>4, <1>6, <1>8, <1>9, SMTT(30)
  <2>4. /\ z[Base(s) + (3 * j + 1)] = c[3 * j + 1] /\ z[Base(s) + (3 * j + 2)] = c[3 * j + 2]
        /\ z[Base(s) + (3 * j + 3)] = c[3 * j + 3]
    BY <2>2, <2>3
  <2>5. /\ Base(s) + (3 * j + 1) = Base(s) + (3 * j) + 1
        /\ Base(s) + (3 * j + 2) = Base(s) + (3 * j) + 2
        /\ Base(s) + (3 * j + 3) = Base(s) + (3 * j) + 3
    BY <1>6, <1>4
  <2>. QED
    BY <2>1, <2>4, <2>5 DEF Triple
<1>14. ProgramCalls(s, z)
  BY <1>9, <1>11, <1>12, <1>13 DEF ProgramCalls, T, k, e
<1>. QED
  BY <1>1, <1>14

----------------------------------------------------------------------------
(* Where a worker is                                                       *)

T == setup.timesteps
V == ValidityCalls(setup)
End == Base(setup)

\* The calls behind which a worker is after n steps.
After(n) == CallsBefore(setup, n + 1)

Pcs == CallsOfWorker \cup
  {"loop", "post", "reduce", "reduced", "send", "postsim", "stopped"}

Types ==
  /\ setup \in Setups
  /\ program = Program(setup)
  /\ mpos \in 1 .. Len(program) + 1
  /\ wpc \in [Worker -> Pcs]
  /\ at \in [Worker -> 1 .. Len(program) + 1]
  /\ names \in [Worker -> 0 .. NSpecies]
  /\ asked \in [Worker -> Timings \cup Metrics]
  /\ resized \in [Worker -> BOOLEAN]
  /\ validity \in [Worker -> Nat]
  /\ iteration \in [Worker -> 0 .. T]

\* Call i of the next step is the next collective call of worker w.
InStep(w, i) == iteration[w] < T /\ at[w] = After(iteration[w]) + i

\* So is call i of what asks for a timing or metric.
InTriple(w, i) ==
  /\ iteration[w] = T
  /\ \E j \in 0 .. Asked(setup) - 1 : at[w] = End + (3 * j) + i

StartUpPlace(w) ==
  /\ wpc[w] = "n_elements" => at[w] = 2
  /\ wpc[w] \in {"size", "name"} => names[w] > 0
  /\ wpc[w] = "size" => at[w] = (2 * (NSpecies - names[w])) + 3
  /\ wpc[w] = "name" => at[w] = (2 * (NSpecies - names[w])) + 4
  /\ wpc[w] = "base_totals" => at[w] = (2 * NSpecies) + 3
  /\ wpc[w] = "has_id" => at[w] = (2 * NSpecies) + 4
  /\ wpc[w] = "split" => at[w] = (2 * NSpecies) + 5 /\ Shared(setup)
  /\ wpc[w] = "prop_count" => at[w] = Off(setup)
  /\ wpc[w] \in {"n_elements", "size", "name", "base_totals", "has_id", "split",
                 "prop_count"} => iteration[w] = 0

\* Where worker w is in the program, from what it does and the steps it has done.
Place(w) ==
  /\ StartUpPlace(w)
  /\ wpc[w] = "barrier" =>
       \/ at[w] = 1 /\ iteration[w] = 0
       \/ InStep(w, V + 2) /\ (setup.ai => validity[w] = iteration[w] + 1)
  /\ wpc[w] = "command" =>
       \/ at[w] = Off(setup) - 1 /\ iteration[w] = 0
       \/ InStep(w, 1)
       \/ InStep(w, 3) /\ setup.ai /\ validity[w] = iteration[w] + 1
       \/ InTriple(w, 1)
       \/ at[w] = Len(program) /\ iteration[w] = T
  /\ wpc[w] = "validity" => InStep(w, 2) /\ setup.ai
  /\ wpc[w] \in {"loop", "post"} =>
       /\ iteration[w] > 0
       /\ at[w] = After(iteration[w]) + 1
       /\ setup.ai => validity[w] = iteration[w]
  /\ wpc[w] = "type" => InTriple(w, 2)
  /\ wpc[w] = "gather" =>
       /\ InTriple(w, 3)
       /\ asked[w] \in TimingsOf(setup)
       /\ program[at[w]] = Entry("gather", "gather", asked[w])
  /\ wpc[w] \in {"reduce", "reduced", "send"} =>
       /\ InTriple(w, 4)
       /\ asked[w] \in StoredOf(setup)
       /\ program[at[w] - 1] = Entry("probe", "probe", asked[w])
  /\ wpc[w] \in {"reduced", "send"} => w = Root
  /\ wpc[w] \in {"postsim", "stopped"} =>
       at[w] = Len(program) + 1 /\ iteration[w] = T
  /\ at[w] > Off(setup) => resized[w] = setup.ai

Places == \A w \in Worker : Place(w)
----------------------------------------------------------------------------
(* The calls at the places of a worker                                     *)

LEMMA Layout ==
  ASSUME Types
  PROVE  /\ setup \in Options
         /\ ProgramCalls(setup, program)
         /\ T \in Nat /\ V \in {0, 2} /\ Asked(setup) \in Nat /\ NSpecies \in Nat
         /\ setup.ai \in BOOLEAN /\ (setup.ai <=> V = 2) /\ V + 3 = StepCalls(setup)
         /\ Off(setup) \in Nat /\ End \in Nat /\ Off(setup) <= End
         /\ Off(setup) = 2 * NSpecies + (IF Shared(setup) THEN 7 ELSE 6)
         /\ Len(program) = End + (3 * Asked(setup)) + 1
         /\ After(0) = Off(setup) /\ After(T) = End
         /\ \A n \in 0 .. T : After(n) \in Nat /\ Off(setup) <= After(n) /\ After(n) <= End
         /\ \A n \in 0 .. T - 1 : After(n + 1) = After(n) + V + 3
         /\ \A m, n \in 0 .. T : m < n => After(m) + V + 3 <= After(n)
<1>1. setup \in Options
  BY CommandsAssumption DEF Types, CommandsAssumption, Options
<1>2. ProgramCalls(setup, program)
  BY <1>1, ProgramAt DEF Types
<1>3. /\ T \in Nat /\ V \in {0, 2} /\ Asked(setup) \in Nat /\ NSpecies \in Nat
      /\ setup.ai \in BOOLEAN /\ (setup.ai <=> V = 2) /\ V + 3 = StepCalls(setup)
  BY <1>1, ProfilingAt, CommandsAssumption
     DEF Options, T, V, ValidityCalls, StepCalls, CommandsAssumption
<1>4. /\ Off(setup) \in Nat /\ End \in Nat /\ After(0) = Off(setup) /\ After(T) = End
      /\ Off(setup) = 2 * NSpecies + (IF Shared(setup) THEN 7 ELSE 6)
  <2>1. 0 + 1 = 1
    OBVIOUS
  <2>. QED
    BY <1>1, <2>1, BeforeNext DEF After, End, T, Off
<1>5. /\ \A n \in 0 .. T - 1 : After(n + 1) = After(n) + V + 3
      /\ \A n \in 0 .. T : After(n) \in Int
      /\ \A m, n \in 0 .. T : m < n => After(m) + V + 3 <= After(n)
  <2>1. \A n \in 0 .. T : n + 1 \in Nat
    BY <1>3
  <2>2. \A n \in 0 .. T : After(n) \in Int
    BY <1>1, <2>1, BeforeNext DEF After
  <2>3. \A n \in 0 .. T - 1 : After(n + 1) = After(n) + StepCalls(setup)
    BY <1>1, <1>3, <2>1, BeforeNext DEF After
  <2>4. \A m, n \in 0 .. T : m < n => After(m) + StepCalls(setup) <= After(n)
    <3>. TAKE m, n \in 0 .. T
    <3>1. m < n => m + 1 < n + 1
      BY <1>3
    <3>. QED
      BY <1>1, <2>1, <3>1, BeforeNext DEF After
  <2>. QED
    BY <2>2, <2>3, <2>4, <1>3
<1>6. \A n \in 0 .. T : After(n) \in Nat /\ Off(setup) <= After(n) /\ After(n) <= End
  <2>. TAKE n \in 0 .. T
  <2>1. n = 0 \/ After(0) + V + 3 <= After(n)
    BY <1>3, <1>5
  <2>2. n = T \/ After(n) + V + 3 <= After(T)
    BY <1>3, <1>5
  <2>. QED
    BY <1>3, <1>4, <1>5, <2>1, <2>2
<1>7. Off(setup) <= End
  BY <1>3, <1>4, <1>6
<1>8. Len(program) = End + (3 * Asked(setup)) + 1
  BY <1>2 DEF ProgramCalls, End
<1>. QED
  BY <1>1, <1>2, <1>3, <1>4, <1>5, <1>6, <1>7, <1>8

(* The numbers of the layout alone, for the leaves that only do arithmetic.   *)
LEMMA Sizes ==
  ASSUME Types
  PROVE  /\ T \in Nat /\ V \in {0, 2} /\ Asked(setup) \in Nat /\ NSpecies \in Nat
         /\ setup.ai \in BOOLEAN /\ (setup.ai <=> V = 2)
         /\ Off(setup) \in Nat /\ End \in Nat /\ Off(setup) <= End
         /\ Off(setup) = 2 * NSpecies + (IF Shared(setup) THEN 7 ELSE 6)
         /\ Len(program) = End + (3 * Asked(setup)) + 1
  BY Layout

\* The calls of a step, each in the program.
LEMMA StepLayout ==
  ASSUME Types, NEW n \in 0 .. T - 1
  PROVE  /\ After(n) \in Nat /\ V \in {0, 2} /\ (setup.ai <=> V = 2)
         /\ After(n + 1) = After(n) + V + 3
         /\ After(n) + V + 3 <= End
         /\ After(n) + V + 3 <= Len(program)
<1>1. n \in 0 .. T /\ n + 1 \in 0 .. T
  BY Sizes, SMTT(30)
<1>2. /\ After(n) \in Nat /\ V \in {0, 2} /\ (setup.ai <=> V = 2)
      /\ After(n + 1) = After(n) + V + 3 /\ After(n + 1) <= End
  BY <1>1, Layout
<1>3. End \in Nat /\ Asked(setup) \in Nat /\ Len(program) = End + (3 * Asked(setup)) + 1
  BY Sizes
<1>4. End <= Len(program)
  BY <1>3
<1>. QED
  BY <1>2, <1>3, <1>4

LEMMA TripleStart ==
  ASSUME Types, NEW j \in 0 .. Asked(setup)
  PROVE  program[End + (3 * j) + 1] =
           Entry("bcast", "command",
                 IF j < Asked(setup) THEN CHEM_PERF ELSE CHEM_BREAK_MAIN_LOOP)
<1>. USE Layout
<1>1. CASE j < Asked(setup)
  <2>1. Triple(setup, program, End + (3 * j))
    BY <1>1 DEF ProgramCalls, End
  <2>. QED
    BY <1>1, <2>1 DEF Triple
<1>2. CASE j = Asked(setup)
  <2>1. End + (3 * j) + 1 = Len(program)
    BY <1>2
  <2>. QED
    BY <1>2, <2>1, SMTT(30) DEF ProgramCalls
<1>. QED
  BY <1>1, <1>2

LEMMA StepStart ==
  ASSUME Types, NEW n \in 0 .. T
  PROVE  \E c \in {CHEM_AI_BCAST_VALIDITY, CHEM_WORK_LOOP, CHEM_PERF, CHEM_BREAK_MAIN_LOOP} :
           program[After(n) + 1] = Entry("bcast", "command", c)
<1>1. CASE n < T
  <2>1. IterationCalls(setup, program, After(n), n + 1)
    BY <1>1, Layout DEF ProgramCalls, After, T
  <2>2. After(n) \in Nat
    BY Layout
  <2>3. CASE setup.ai
    BY <2>1, <2>3 DEF IterationCalls
  <2>4. CASE ~setup.ai
    <3>1. After(n) + 0 + 1 = After(n) + 1
      BY <2>2
    <3>. QED
      BY <2>1, <2>4, <3>1 DEF IterationCalls, ValidityCalls
  <2>. QED
    BY <2>3, <2>4
<1>2. CASE n = T
  <2>1. After(n) + 1 = End + (3 * 0) + 1 /\ 0 \in 0 .. Asked(setup)
    BY <1>2, Layout
  <2>. QED
    BY <2>1, TripleStart
<1>. QED
  BY <1>1, <1>2, Layout

LEMMA CollectiveNext ==
  ASSUME Types, NEW p \in 1 .. Len(program)
  PROVE  /\ p < Len(program) /\ program[p + 1].op \in {"loop", "probe"} =>
              CollectiveAfter(p) = p + 2
         /\ p = Len(program) \/ program[p + 1].op \in {"bcast", "barrier", "split", "gather"} =>
              CollectiveAfter(p) = p + 1
  BY DEF CollectiveAfter, Collective

\* The calls of the start-up, and what follows each of them.
LEMMA StartUpPlaces ==
  ASSUME Types
  PROVE  /\ program[1] = Entry("barrier", "barrier", 0) /\ CollectiveAfter(1) = 2
         /\ program[2] = Entry("bcast", "n_elements", NSpecies) /\ CollectiveAfter(2) = 3
         /\ \A k \in 1 .. NSpecies :
              /\ program[(2 * k) + 1] = Entry("bcast", "size", 1)
              /\ CollectiveAfter((2 * k) + 1) = (2 * k) + 2
              /\ program[(2 * k) + 2] = Entry("bcast", "name", 1)
              /\ CollectiveAfter((2 * k) + 2) = (2 * k) + 3
         /\ program[(2 * NSpecies) + 3] = Entry("bcast", "base_totals", 0)
         /\ CollectiveAfter((2 * NSpecies) + 3) = (2 * NSpecies) + 4
         /\ program[(2 * NSpecies) + 4] = Entry("bcast", "has_id", 0)
         /\ CollectiveAfter((2 * NSpecies) + 4) = (2 * NSpecies) + 5
         /\ Shared(setup) =>
              /\ program[(2 * NSpecies) + 5] = Entry("split", "split", 0)
              /\ CollectiveAfter((2 * NSpecies) + 5) = (2 * NSpecies) + 6
         /\ program[Off(setup) - 1] = Entry("bcast", "command", CHEM_FIELD_INIT)
         /\ CollectiveAfter(Off(setup) - 1) = Off(setup)
         /\ program[Off(setup)] = Entry("bcast", "prop_count", NSpecies)
         /\ CollectiveAfter(Off(setup)) = Off(setup) + 1
<1>. DEFINE N == NSpecies
            o == Off(setup)
            S == {"bcast", "barrier", "split", "gather"}
            C(p) == program[p].op \in S
<1>1. /\ N \in Nat /\ o \in Nat /\ o <= Len(program) - 1 /\ o >= (2 * N) + 6
      /\ o = 2 * N + (IF Shared(setup) THEN 7 ELSE 6)
  BY Sizes, SMTT(30)
<1>2. StartUpCalls(setup, program)
  BY Layout DEF ProgramCalls
<1>3. \A p \in 1 .. o : C(p + 1) => CollectiveAfter(p) = p + 1
  BY <1>1, CollectiveNext
<1>4. \A k \in 1 .. N : C((2 * k) + 1) /\ C((2 * k) + 2)
  BY <1>2 DEF StartUpCalls, Entry
<1>5. C((2 * N) + 3) /\ C((2 * N) + 4) /\ (Shared(setup) => C((2 * N) + 5))
      /\ C(o - 1) /\ C(o) /\ C(2)
  BY <1>2 DEF StartUpCalls, Entry
<1>6. C(o + 1)
  <2>1. 0 \in 0 .. T
    BY Layout
  <2>2. PICK c : program[After(0) + 1] = Entry("bcast", "command", c)
    BY <2>1, StepStart
  <2>. QED
    BY <2>2, Layout DEF Entry
<1>. HIDE DEF C
<1>7. CollectiveAfter(1) = 2
  BY <1>1, <1>3, <1>5
<1>8. CollectiveAfter(2) = 3
  <2>1. C(3)
    <3>1. CASE N = 0
      BY <3>1, <1>5
    <3>2. CASE N # 0
      <4>1. 1 \in 1 .. N /\ (2 * 1) + 1 = 3
        BY <3>2, <1>1
      <4>. QED
        BY <4>1, <1>4
    <3>. QED
      BY <3>1, <3>2
  <2>. QED
    BY <2>1, <1>1, <1>3
<1>9. ASSUME NEW k \in 1 .. N
      PROVE  /\ CollectiveAfter((2 * k) + 1) = (2 * k) + 2
             /\ CollectiveAfter((2 * k) + 2) = (2 * k) + 3
  <2>1. /\ (2 * k) + 1 \in 1 .. o /\ (2 * k) + 2 \in 1 .. o
        /\ ((2 * k) + 1) + 1 = (2 * k) + 2 /\ ((2 * k) + 2) + 1 = (2 * k) + 3
    BY <1>1
  <2>2. C((2 * k) + 3)
    <3>1. CASE k = N
      BY <3>1, <1>5
    <3>2. CASE k # N
      <4>1. k + 1 \in 1 .. N /\ (2 * (k + 1)) + 1 = (2 * k) + 3
        BY <3>2, <1>1
      <4>. QED
        BY <4>1, <1>4
    <3>. QED
      BY <3>1, <3>2
  <2>. QED
    BY <2>1, <2>2, <1>3, <1>4
<1>10. CollectiveAfter((2 * N) + 3) = (2 * N) + 4
  <2>1. (2 * N) + 3 \in 1 .. o /\ ((2 * N) + 3) + 1 = (2 * N) + 4
    BY <1>1
  <2>. QED
    BY <2>1, <1>3, <1>5
<1>11. CollectiveAfter((2 * N) + 4) = (2 * N) + 5
  <2>1. (2 * N) + 4 \in 1 .. o /\ ((2 * N) + 4) + 1 = (2 * N) + 5
        /\ (~Shared(setup) => o - 1 = (2 * N) + 5)
    BY <1>1
  <2>. QED
    BY <2>1, <1>3, <1>5
<1>12. Shared(setup) => CollectiveAfter((2 * N) + 5) = (2 * N) + 6
  <2>1. (2 * N) + 5 \in 1 .. o /\ ((2 * N) + 5) + 1 = (2 * N) + 6
        /\ (Shared(setup) => o - 1 = (2 * N) + 6)
    BY <1>1
  <2>. QED
    BY <2>1, <1>3, <1>5
<1>13. CollectiveAfter(o - 1) = o
  <2>1. o - 1 \in 1 .. o /\ (o - 1) + 1 = o
    BY <1>1
  <2>. QED
    BY <2>1, <1>3, <1>5
<1>14. CollectiveAfter(o) = o + 1
  BY <1>1, <1>3, <1>6
<1>. QED
  BY <1>2, <1>7, <1>8, <1>9, <1>10, <1>11, <1>12, <1>13, <1>14 DEF StartUpCalls

\* The calls of a step, and what follows each of them.
LEMMA StepPlaces ==
  ASSUME Types, NEW n \in 0 .. T - 1
  PROVE  /\ setup.ai =>
              /\ program[After(n) + 1] = Entry("bcast", "command", CHEM_AI_BCAST_VALIDITY)
              /\ CollectiveAfter(After(n) + 1) = After(n) + 2
              /\ program[After(n) + 2] = Entry("bcast", "validity", n + 1)
              /\ CollectiveAfter(After(n) + 2) = After(n) + 3
         /\ program[After(n) + V + 1] = Entry("bcast", "command", CHEM_WORK_LOOP)
         /\ CollectiveAfter(After(n) + V + 1) = After(n) + V + 2
         /\ program[After(n) + V + 2] = Entry("barrier", "barrier", 0)
         /\ CollectiveAfter(After(n) + V + 2) = After(n + 1) + 1
         /\ program[After(n + 1)] = Entry("loop", "loop", n + 1)
<1>. DEFINE o == After(n)
<1>1. IterationCalls(setup, program, o, n + 1)
  <2>1. n + 1 \in 1 .. T /\ ProgramCalls(setup, program)
    BY Layout
  <2>. QED
    BY <2>1 DEF ProgramCalls, After, T
<1>2. /\ o \in Nat /\ o + V + 3 <= Len(program) - 1 /\ After(n + 1) = o + V + 3 /\ V \in {0, 2}
      /\ (setup.ai <=> V = 2)
  <2>1. n \in 0 .. T /\ n + 1 \in 0 .. T
    BY Sizes, SMTT(30)
  <2>. QED
    BY <2>1, Layout, SMTT(30)
<1>. HIDE DEF o
<1>3. /\ setup.ai =>
           /\ program[o + 1] = Entry("bcast", "command", CHEM_AI_BCAST_VALIDITY)
           /\ program[o + 2] = Entry("bcast", "validity", n + 1)
      /\ program[o + V + 1] = Entry("bcast", "command", CHEM_WORK_LOOP)
      /\ program[o + V + 2] = Entry("barrier", "barrier", 0)
      /\ program[o + V + 3] = Entry("loop", "loop", n + 1)
  BY <1>1 DEF IterationCalls, V
<1>4. setup.ai => CollectiveAfter(o + 1) = o + 2
  <2>1. o + 1 \in 1 .. Len(program) /\ (o + 1) + 1 = o + 2
    BY <1>2
  <2>. QED
    BY <1>3, <2>1, CollectiveNext DEF Entry
<1>5. setup.ai => CollectiveAfter(o + 2) = o + 3
  <2>1. o + 2 \in 1 .. Len(program) /\ (setup.ai => (o + 2) + 1 = o + V + 1) /\ (o + 2) + 1 = o + 3
    BY <1>2
  <2>. QED
    BY <1>3, <2>1, CollectiveNext DEF Entry
<1>6. CollectiveAfter(o + V + 1) = o + V + 2
  <2>1. o + V + 1 \in 1 .. Len(program) /\ (o + V + 1) + 1 = o + V + 2
    BY <1>2
  <2>. QED
    BY <1>3, <2>1, CollectiveNext DEF Entry
<1>7. CollectiveAfter(o + V + 2) = o + V + 4
  <2>1. /\ o + V + 2 \in 1 .. Len(program) /\ (o + V + 2) + 1 = o + V + 3
        /\ (o + V + 2) + 2 = o + V + 4 /\ o + V + 2 < Len(program)
    BY <1>2
  <2>. QED
    BY <1>3, <2>1, CollectiveNext DEF Entry
<1>8. o + V + 4 = After(n + 1) + 1
  BY <1>2
<1>. QED
  BY <1>2, <1>3, <1>4, <1>5, <1>6, <1>7, <1>8 DEF o

\* The calls that ask for a timing or a metric, and what follows each of them.
LEMMA TriplePlaces ==
  ASSUME Types, NEW j \in 0 .. Asked(setup) - 1
  PROVE  /\ program[End + (3 * j) + 1] = Entry("bcast", "command", CHEM_PERF)
         /\ CollectiveAfter(End + (3 * j) + 1) = End + (3 * j) + 2
         /\ \E t \in TimingsOf(setup) \cup StoredOf(setup) :
              /\ program[End + (3 * j) + 2] = Entry("bcast", "type", t)
              /\ t \in StoredOf(setup) =>
                   /\ program[End + (3 * j) + 3] = Entry("probe", "probe", t)
                   /\ CollectiveAfter(End + (3 * j) + 2) = End + (3 * j) + 4
              /\ t \notin StoredOf(setup) =>
                   /\ program[End + (3 * j) + 3] = Entry("gather", "gather", t)
                   /\ CollectiveAfter(End + (3 * j) + 2) = End + (3 * j) + 3
                   /\ CollectiveAfter(End + (3 * j) + 3) = End + (3 * j) + 4
<1>. DEFINE b == End + (3 * j)
<1>1. Triple(setup, program, b)
  BY Layout DEF ProgramCalls, End
<1>2. /\ b \in Nat /\ b + 3 <= Len(program) - 1 /\ j + 1 \in 0 .. Asked(setup)
      /\ End + (3 * (j + 1)) + 1 = b + 4
  <2>1. /\ End \in Nat /\ Asked(setup) \in Nat
        /\ Len(program) = End + (3 * Asked(setup)) + 1
    BY Layout
  <2>. QED
    BY <2>1
<1>3. PICK c : program[b + 4] = Entry("bcast", "command", c)
  BY <1>2, TripleStart
<1>. HIDE DEF b
<1>4. PICK t \in TimingsOf(setup) \cup StoredOf(setup) :
        /\ program[b + 1] = Entry("bcast", "command", CHEM_PERF)
        /\ program[b + 2] = Entry("bcast", "type", t)
        /\ program[b + 3] = IF t \in StoredOf(setup) THEN Entry("probe", "probe", t)
                            ELSE Entry("gather", "gather", t)
  BY <1>1 DEF Triple
<1>5. /\ b + 1 \in 1 .. Len(program) /\ b + 2 \in 1 .. Len(program) /\ b + 3 \in 1 .. Len(program)
      /\ (b + 1) + 1 = b + 2 /\ (b + 2) + 1 = b + 3 /\ (b + 2) + 2 = b + 4 /\ (b + 3) + 1 = b + 4
      /\ b + 2 < Len(program)
  BY <1>2
<1>6. CollectiveAfter(b + 1) = b + 2
  BY <1>4, <1>5, CollectiveNext DEF Entry
<1>7. t \in StoredOf(setup) => CollectiveAfter(b + 2) = b + 4
  BY <1>4, <1>5, CollectiveNext DEF Entry
<1>8. t \notin StoredOf(setup) => CollectiveAfter(b + 2) = b + 3
  BY <1>4, <1>5, CollectiveNext DEF Entry
<1>9. CollectiveAfter(b + 3) = b + 4
  BY <1>3, <1>5, CollectiveNext DEF Entry
<1>10. \E u \in TimingsOf(setup) \cup StoredOf(setup) :
         /\ program[b + 2] = Entry("bcast", "type", u)
         /\ u \in StoredOf(setup) =>
              /\ program[b + 3] = Entry("probe", "probe", u)
              /\ CollectiveAfter(b + 2) = b + 4
         /\ u \notin StoredOf(setup) =>
              /\ program[b + 3] = Entry("gather", "gather", u)
              /\ CollectiveAfter(b + 2) = b + 3
              /\ CollectiveAfter(b + 3) = b + 4
  <2>. WITNESS t \in TimingsOf(setup) \cup StoredOf(setup)
  <2>. QED
    BY <1>4, <1>7, <1>8, <1>9
<1>. QED
  BY <1>4, <1>6, <1>10 DEF b

LEMMA LastPlace ==
  ASSUME Types
  PROVE  /\ Len(program) \in 1 .. Len(program)
         /\ program[Len(program)] = Entry("bcast", "command", CHEM_BREAK_MAIN_LOOP)
         /\ CollectiveAfter(Len(program)) = Len(program) + 1
<1>1. Len(program) \in 1 .. Len(program)
  BY Layout
<1>. QED
  BY <1>1, Layout, CollectiveNext DEF ProgramCalls

----------------------------------------------------------------------------
(* Every worker stays at a place of the program                            *)

\* What is said of worker u depends on nothing of the other workers.
LEMMA PlaceSame ==
  ASSUME NEW u \in Worker, Place(u), UNCHANGED <<setup, program>>,
         wpc'[u] = wpc[u], at'[u] = at[u], names'[u] = names[u], asked'[u] = asked[u],
         resized'[u] = resized[u], validity'[u] = validity[u], iteration'[u] = iteration[u]
  PROVE  Place(u)'
  BY DEF Place, StartUpPlace, InStep, InTriple, T, V, End, After

LEMMA OneWorker ==
  ASSUME Places, NEW w \in Worker, UNCHANGED <<setup, program>>,
         \A u \in Worker \ {w} :
           /\ wpc'[u] = wpc[u] /\ at'[u] = at[u] /\ names'[u] = names[u]
           /\ asked'[u] = asked[u] /\ resized'[u] = resized[u]
           /\ validity'[u] = validity[u] /\ iteration'[u] = iteration[u],
         Place(w)'
  PROVE  Places'
<1>1. ASSUME NEW u \in Worker PROVE Place(u)'
  <2>1. CASE u = w
    BY <2>1
  <2>2. CASE u # w
    BY <2>2, PlaceSame DEF Places
  <2>. QED
    BY <2>1, <2>2
<1>. QED
  BY <1>1 DEF Places, Worker

LEMMA ReceivesAt ==
  ASSUME Types, NEW w \in Worker, NEW what, Receives(w, what)
  PROVE  /\ at[w] \in 1 .. Len(program)
         /\ CollectiveAfter(at[w]) \in 1 .. Len(program) + 1
         /\ at' \in [Worker -> 1 .. Len(program) + 1]
         /\ at'[w] = CollectiveAfter(at[w])
         /\ \A u \in Worker \ {w} : at'[u] = at[u]
<1>1. Len(program) \in Nat
  BY Layout
<1>2. at[w] \in 1 .. Len(program)
  BY <1>1 DEF Types, Receives
<1>3. CollectiveAfter(at[w]) \in 1 .. Len(program) + 1
  BY <1>1, <1>2 DEF CollectiveAfter
<1>. QED
  BY <1>2, <1>3 DEF Types, Receives

LEMMA PcSet ==
  /\ {"loop", "post", "reduce", "reduced", "send", "postsim", "stopped", "barrier",
      "n_elements", "size", "name", "base_totals", "has_id", "split", "command",
      "prop_count", "validity", "type", "gather"} \subseteq Pcs
  BY DEF Pcs, CallsOfWorker

LEMMA NameIndex ==
  ASSUME NEW N \in Nat, NEW n \in 0 .. N, n > 0
  PROVE  /\ N - n + 1 \in 1 .. N
         /\ (2 * (N - n)) + 3 = (2 * (N - n + 1)) + 1
         /\ (2 * (N - n)) + 4 = (2 * (N - n + 1)) + 2
         /\ (2 * (N - (n - 1))) + 3 = (2 * (N - n + 1)) + 3
         /\ n - 1 \in 0 .. N
         /\ n = 1 => (2 * (N - n + 1)) + 3 = (2 * N) + 3
         /\ n # 1 => n - 1 > 0
  OBVIOUS

LEMMA ReadStartUpPlaces ==
  ASSUME Types, Places, NEW w \in Worker, ReadStartUp(w)
  PROVE  Types' /\ Places'
<1>. DEFINE N == NSpecies
            n == names[w]
<1>1. /\ UNCHANGED <<setup, program, mpos, asked, resized, validity, iteration>>
      /\ Place(w)
      /\ N \in Nat /\ Off(setup) = 2 * N + (IF Shared(setup) THEN 7 ELSE 6)
      /\ n \in 0 .. N
      /\ names \in [Worker -> 0 .. N] /\ wpc \in [Worker -> Pcs]
  BY Layout DEF ReadStartUp, Places, Types
<1>. DEFINE To(pc, num, p) ==
       /\ wpc' = [wpc EXCEPT ![w] = pc]
       /\ names' = [names EXCEPT ![w] = num]
       /\ num \in 0 .. N
       /\ at' \in [Worker -> 1 .. Len(program) + 1]
       /\ \A u \in Worker \ {w} : at'[u] = at[u]
       /\ at'[w] = p
       /\ iteration[w] = 0
<1>2. ASSUME NEW pc \in Pcs, NEW num, NEW p, To(pc, num, p),
             \/ pc = "size" /\ num > 0 /\ p = (2 * (N - num)) + 3
             \/ pc = "name" /\ num > 0 /\ p = (2 * (N - num)) + 4
             \/ pc = "base_totals" /\ p = (2 * N) + 3
             \/ pc = "has_id" /\ p = (2 * N) + 4
             \/ pc = "split" /\ p = (2 * N) + 5 /\ Shared(setup)
             \/ pc = "command" /\ p = Off(setup) - 1
      PROVE  Types' /\ Places'
  <2>1. Types'
    BY <1>1, <1>2 DEF Types, T
  <2>2. /\ wpc'[w] = pc /\ names'[w] = num /\ at'[w] = p /\ iteration'[w] = 0
        /\ \A u \in Worker \ {w} : wpc'[u] = wpc[u] /\ names'[u] = names[u] /\ at'[u] = at[u]
    BY <1>1, <1>2
  <2>3. p <= Off(setup) /\ p \in Int
    BY <1>1, <1>2, SMTT(30)
  <2>4. Place(w)'
    BY <1>1, <1>2, <2>2, <2>3 DEF Place, StartUpPlace
  <2>. QED
    BY <1>1, <2>1, <2>2, <2>4, OneWorker
<1>. USE StartUpPlaces, ReceivesAt, PcSet
<1>3. CASE Receives(w, "n_elements") /\ names' = [names EXCEPT ![w] = Value(w)]
           /\ GoesTo(w, IF Value(w) = 0 THEN "base_totals" ELSE "size")
  <2>1. at[w] = 2 /\ wpc[w] = "n_elements" /\ iteration[w] = 0
    BY <1>1, <1>3 DEF Receives, Place, StartUpPlace
  <2>2. Value(w) = N /\ CollectiveAfter(at[w]) = 3
    BY <2>1 DEF Value, Entry
  <2>3. CASE N = 0
    <3>1. To("base_totals", N, 3)
      BY <1>1, <1>3, <2>1, <2>2, <2>3 DEF GoesTo
    <3>. HIDE DEF To
    <3>2. 3 = (2 * N) + 3
      BY <2>3
    <3>. QED
      BY <1>2, <3>1, <3>2
  <2>4. CASE N # 0
    <3>1. To("size", N, 3)
      BY <1>1, <1>3, <2>1, <2>2, <2>4, SMTT(30) DEF GoesTo
    <3>. HIDE DEF To
    <3>2. 3 = (2 * (N - N)) + 3 /\ N > 0
      BY <1>1, <2>4
    <3>. QED
      BY <1>2, <3>1, <3>2
  <2>. QED
    BY <2>3, <2>4
<1>4. CASE Receives(w, "size") /\ GoesTo(w, "name") /\ UNCHANGED names
  <2>1. at[w] = (2 * (N - n)) + 3 /\ n > 0 /\ iteration[w] = 0
    BY <1>1, <1>4 DEF Receives, Place, StartUpPlace
  <2>. DEFINE k == N - n + 1
  <2>2. k \in 1 .. N /\ at[w] = (2 * k) + 1 /\ (2 * k) + 2 = (2 * (N - n)) + 4
    BY <1>1, <2>1, NameIndex, Zenon
  <2>. HIDE DEF k
  <2>3. CollectiveAfter(at[w]) = (2 * k) + 2
    BY <2>2
  <2>4. To("name", n, (2 * k) + 2)
    BY <1>1, <1>4, <2>1, <2>3 DEF GoesTo
  <2>. HIDE DEF To
  <2>. QED
    BY <1>2, <2>1, <2>2, <2>4
<1>5. CASE Receives(w, "name") /\ names' = [names EXCEPT ![w] = @ - 1]
           /\ GoesTo(w, IF names[w] = 1 THEN "base_totals" ELSE "size")
  <2>1. at[w] = (2 * (N - n)) + 4 /\ n > 0 /\ iteration[w] = 0
    BY <1>1, <1>5 DEF Receives, Place, StartUpPlace
  <2>. DEFINE k == N - n + 1
  <2>2. /\ k \in 1 .. N /\ at[w] = (2 * k) + 2 /\ (2 * k) + 3 = (2 * (N - (n - 1))) + 3
        /\ n - 1 \in 0 .. N /\ (n = 1 => (2 * k) + 3 = (2 * N) + 3) /\ (n # 1 => n - 1 > 0)
    BY <1>1, <2>1, NameIndex, Zenon
  <2>. HIDE DEF k
  <2>3. CollectiveAfter(at[w]) = (2 * k) + 3
    BY <2>2
  <2>4. CASE n = 1
    <3>1. To("base_totals", n - 1, (2 * k) + 3)
      BY <1>1, <1>5, <2>1, <2>2, <2>3, <2>4 DEF GoesTo
    <3>. HIDE DEF To
    <3>. QED
      BY <1>2, <2>2, <2>4, <3>1
  <2>5. CASE n # 1
    <3>1. To("size", n - 1, (2 * k) + 3)
      BY <1>1, <1>5, <2>1, <2>2, <2>3, <2>5 DEF GoesTo
    <3>. HIDE DEF To
    <3>. QED
      BY <1>2, <2>2, <2>5, <3>1
  <2>. QED
    BY <2>4, <2>5
<1>6. CASE Receives(w, "base_totals") /\ GoesTo(w, "has_id") /\ UNCHANGED names
  <2>1. at[w] = (2 * N) + 3 /\ iteration[w] = 0
    BY <1>1, <1>6 DEF Receives, Place, StartUpPlace
  <2>2. CollectiveAfter(at[w]) = (2 * N) + 4
    BY <2>1
  <2>3. To("has_id", n, (2 * N) + 4)
    BY <1>1, <1>6, <2>1, <2>2 DEF GoesTo
  <2>. HIDE DEF To
  <2>. QED
    BY <1>2, <2>3
<1>7. CASE Receives(w, "has_id") /\ UNCHANGED names
           /\ GoesTo(w, IF setup.dht \/ setup.interp THEN "split" ELSE "command")
  <2>1. at[w] = (2 * N) + 4 /\ iteration[w] = 0
    BY <1>1, <1>7 DEF Receives, Place, StartUpPlace
  <2>2. CollectiveAfter(at[w]) = (2 * N) + 5
    BY <2>1
  <2>3. CASE Shared(setup)
    <3>1. To("split", n, (2 * N) + 5)
      BY <1>1, <1>7, <2>1, <2>2, <2>3 DEF GoesTo, Shared
    <3>. HIDE DEF To
    <3>. QED
      BY <1>2, <2>3, <3>1
  <2>4. CASE ~Shared(setup)
    <3>1. To("command", n, (2 * N) + 5)
      BY <1>1, <1>7, <2>1, <2>2, <2>4 DEF GoesTo, Shared
    <3>2. (2 * N) + 5 = Off(setup) - 1
      BY <1>1, <2>4
    <3>. HIDE DEF To
    <3>. QED
      BY <1>2, <3>1, <3>2
  <2>. QED
    BY <2>3, <2>4
<1>. QED
  BY <1>3, <1>4, <1>5, <1>6, <1>7 DEF ReadStartUp

LEMMA ReadCommandPlaces ==
  ASSUME Types, Places, NEW w \in Worker, ReadCommand(w)
  PROVE  Types' /\ Places'
<1>. DEFINE m == iteration[w]
            a == at[w]
            K == Asked(setup)
            L == Len(program)
<1>1. /\ UNCHANGED <<setup, program, mpos, names, asked, resized, validity, iteration>>
      /\ Place(w) /\ wpc[w] = "command" /\ Receives(w, "command")
      /\ wpc' = [wpc EXCEPT ![w] = Handler(Value(w))]
      /\ wpc \in [Worker -> Pcs] /\ m \in 0 .. T
  BY DEF ReadCommand, Places, Types, GoesTo, Receives
<1>2. /\ a \in 1 .. L /\ at' \in [Worker -> 1 .. L + 1] /\ at'[w] = CollectiveAfter(a)
      /\ \A u \in Worker \ {w} : at'[u] = at[u]
  BY <1>1, ReceivesAt
<1>3. /\ T \in Nat /\ V \in {0, 2} /\ K \in Nat /\ (setup.ai <=> V = 2)
      /\ Off(setup) \in Nat /\ End \in Nat /\ Off(setup) <= End /\ L = End + (3 * K) + 1
      /\ After(m) \in Nat /\ Off(setup) <= After(m)
  BY <1>1, Layout
<1>4. ASSUME NEW pc \in Pcs, Handler(Value(w)) = pc, CollectiveAfter(a) > Off(setup) => a > Off(setup),
             \/ pc = "prop_count" /\ CollectiveAfter(a) = Off(setup) /\ m = 0
             \/ pc = "validity" /\ m < T /\ CollectiveAfter(a) = After(m) + 2 /\ setup.ai
             \/ /\ pc = "barrier" /\ m < T /\ CollectiveAfter(a) = After(m) + V + 2
                /\ setup.ai => validity[w] = m + 1
             \/ /\ pc = "type" /\ m = T
                /\ \E j \in 0 .. K - 1 : CollectiveAfter(a) = End + (3 * j) + 2
             \/ pc = "postsim" /\ m = T /\ CollectiveAfter(a) = L + 1
      PROVE  Types' /\ Places'
  <2>1. Types'
    BY <1>1, <1>2, <1>4 DEF Types, T
  <2>2. /\ wpc'[w] = pc
        /\ \A u \in Worker \ {w} : wpc'[u] = wpc[u]
    BY <1>1, <1>4
  <2>3. CollectiveAfter(a) > Off(setup) => resized[w] = setup.ai
    BY <1>1, <1>4 DEF Place
  <2>4. /\ pc = "validity" => InStep(w, 2)'
        /\ pc = "barrier" => InStep(w, V + 2)'
    <3>1. /\ pc = "validity" => iteration'[w] < T /\ at'[w] = After(iteration'[w]) + 2
          /\ pc = "barrier" => iteration'[w] < T /\ at'[w] = After(iteration'[w]) + (V + 2)
      <4>1. After(m) + V + 2 = After(m) + (V + 2)
        BY <1>3
      <4>. QED
        BY <1>1, <1>2, <1>4, <4>1
    <3>. QED
      BY <3>1, <1>1 DEF InStep, T, V, After
  <2>5. pc = "type" => InTriple(w, 2)'
    BY <1>1, <1>2, <1>4 DEF InTriple, T, End
  <2>6. /\ pc = "prop_count" => at'[w] = Off(setup') /\ iteration'[w] = 0
        /\ pc = "postsim" => at'[w] = Len(program') + 1 /\ iteration'[w] = T'
        /\ pc = "validity" => setup'.ai
        /\ pc = "barrier" => (setup'.ai => validity'[w] = iteration'[w] + 1)
        /\ at'[w] > Off(setup') => resized'[w] = setup'.ai
    BY <1>1, <1>2, <1>4, <2>3 DEF T
  <2>7. Place(w)'
    BY <2>2, <2>4, <2>5, <2>6, <1>4 DEF Place, StartUpPlace
  <2>. QED
    BY <1>1, <1>2, <2>1, <2>2, <2>7, OneWorker
<1>. USE PcSet DEF Handler, Value, Entry, CHEM_FIELD_INIT, CHEM_WORK_LOOP, CHEM_PERF,
     CHEM_BREAK_MAIN_LOOP, CHEM_AI_BCAST_VALIDITY
<1>5. CASE a = Off(setup) - 1 /\ m = 0
  <2>1. program[a] = Entry("bcast", "command", CHEM_FIELD_INIT) /\ CollectiveAfter(a) = Off(setup)
    BY <1>5, StartUpPlaces
  <2>2. Handler(Value(w)) = "prop_count"
    BY <2>1
  <2>. QED
    BY <1>4, <1>5, <2>1, <2>2, <1>3
<1>6. CASE InStep(w, 1) /\ setup.ai
  <2>1. m \in 0 .. T - 1 /\ a = After(m) + 1
    BY <1>1, <1>3, <1>6 DEF InStep
  <2>2. program[a] = Entry("bcast", "command", CHEM_AI_BCAST_VALIDITY)
        /\ CollectiveAfter(a) = After(m) + 2
    BY <1>6, <2>1, StepPlaces
  <2>3. Handler(Value(w)) = "validity"
    BY <2>2
  <2>4. a > Off(setup) /\ m < T
    BY <1>3, <2>1
  <2>. QED
    BY <1>4, <1>6, <2>2, <2>3, <2>4
<1>7. CASE \/ InStep(w, 1) /\ ~setup.ai
           \/ InStep(w, 3) /\ setup.ai /\ validity[w] = m + 1
  <2>1. m \in 0 .. T - 1 /\ a = After(m) + V + 1 /\ (setup.ai => validity[w] = m + 1)
    BY <1>1, <1>3, <1>7, SMTT(30) DEF InStep
  <2>2. program[a] = Entry("bcast", "command", CHEM_WORK_LOOP)
        /\ CollectiveAfter(a) = After(m) + V + 2
    BY <2>1, StepPlaces
  <2>3. Handler(Value(w)) = "barrier"
    BY <2>2
  <2>4. a > Off(setup) /\ m < T
    BY <1>3, <2>1, SMTT(30)
  <2>. QED
    BY <1>4, <2>1, <2>2, <2>3, <2>4
<1>8. CASE InTriple(w, 1)
  <2>1. PICK j \in 0 .. K - 1 : a = End + (3 * j) + 1
    BY <1>8 DEF InTriple
  <2>2. program[a] = Entry("bcast", "command", CHEM_PERF)
        /\ CollectiveAfter(a) = End + (3 * j) + 2
    BY <2>1, TriplePlaces
  <2>3. Handler(Value(w)) = "type"
    BY <2>2
  <2>4. a > Off(setup) /\ m = T
    <3>1. m = T
      BY <1>8 DEF InTriple
    <3>2. j \in Nat /\ Off(setup) \in Nat /\ End \in Nat /\ Off(setup) <= End
      BY <1>3
    <3>3. a > Off(setup)
      BY <2>1, <3>2
    <3>. QED
      BY <3>1, <3>3
  <2>. QED
    BY <1>4, <2>2, <2>3, <2>4
<1>9. CASE a = L /\ m = T
  <2>1. program[a] = Entry("bcast", "command", CHEM_BREAK_MAIN_LOOP)
        /\ CollectiveAfter(a) = L + 1
    BY <1>9, LastPlace
  <2>2. Handler(Value(w)) = "postsim"
    BY <2>1
  <2>3. a > Off(setup)
    BY <1>3, <1>9
  <2>. QED
    BY <1>4, <1>9, <2>1, <2>2, <2>3
<1>. QED
  BY <1>1, <1>5, <1>6, <1>7, <1>8, <1>9 DEF Place

LEMMA FieldInitPlaces ==
  ASSUME Types, Places, NEW w \in Worker, FieldInit(w)
  PROVE  Types' /\ Places'
<1>1. /\ UNCHANGED <<setup, program, mpos, names, asked, validity, iteration>>
      /\ Place(w) /\ wpc[w] = "prop_count" /\ Receives(w, "prop_count")
      /\ wpc' = [wpc EXCEPT ![w] = "command"]
      /\ resized' = [resized EXCEPT ![w] = setup.ai]
      /\ wpc \in [Worker -> Pcs] /\ resized \in [Worker -> BOOLEAN]
  BY DEF FieldInit, Places, Types, GoesTo, Receives
<1>2. /\ at' \in [Worker -> 1 .. Len(program) + 1] /\ at'[w] = CollectiveAfter(at[w])
      /\ \A u \in Worker \ {w} : at'[u] = at[u]
  BY <1>1, ReceivesAt
<1>3. at[w] = Off(setup) /\ iteration[w] = 0
  BY <1>1 DEF Place, StartUpPlace
<1>4. at'[w] = Off(setup) + 1
  BY <1>2, <1>3, StartUpPlaces
<1>5. setup.ai \in BOOLEAN
  BY Layout
<1>6. Types'
  BY <1>1, <1>2, <1>5, PcSet DEF Types, T
<1>7. \/ InStep(w, 1)'
      \/ InTriple(w, 1)'
      \/ (at[w] = Len(program) /\ iteration[w] = T)'
  <2>1. /\ After(0) = Off(setup) /\ T \in Nat /\ After(T) = End /\ Asked(setup) \in Nat
        /\ Len(program) = End + (3 * Asked(setup)) + 1 /\ End \in Nat
    BY Layout
  <2>2. CASE T > 0
    <3>1. iteration'[w] < T /\ at'[w] = After(iteration'[w]) + 1
      BY <1>1, <1>3, <1>4, <2>1, <2>2
    <3>. QED
      BY <3>1, <1>1 DEF InStep, T, After
  <2>3. CASE T = 0 /\ Asked(setup) > 0
    <3>1. 0 \in 0 .. Asked(setup) - 1 /\ at'[w] = End + (3 * 0) + 1 /\ iteration'[w] = T
      BY <1>1, <1>3, <1>4, <2>1, <2>3
    <3>. QED
      BY <3>1, <1>1 DEF InTriple, T, End
  <2>4. CASE T = 0 /\ Asked(setup) = 0
    <3>1. at'[w] = Len(program) /\ iteration'[w] = T
      BY <1>1, <1>3, <1>4, <2>1, <2>4
    <3>. QED
      BY <3>1, <1>1 DEF T
  <2>. QED
    BY <2>1, <2>2, <2>3, <2>4
<1>8. /\ wpc'[w] = "command" /\ resized'[w] = setup.ai
      /\ \A u \in Worker \ {w} : wpc'[u] = wpc[u] /\ resized'[u] = resized[u]
  BY <1>1
<1>9. Place(w)'
  BY <1>1, <1>7, <1>8 DEF Place, StartUpPlace
<1>. QED
  BY <1>1, <1>2, <1>6, <1>8, <1>9, OneWorker

LEMMA ReadValidityPlaces ==
  ASSUME Types, Places, NEW w \in Worker, ReadValidity(w)
  PROVE  Types' /\ Places'
<1>. DEFINE m == iteration[w]
<1>1. /\ UNCHANGED <<setup, program, mpos, names, asked, resized, iteration>>
      /\ Place(w) /\ wpc[w] = "validity" /\ Receives(w, "validity")
      /\ wpc' = [wpc EXCEPT ![w] = "command"]
      /\ validity' = [validity EXCEPT ![w] = Value(w)]
      /\ wpc \in [Worker -> Pcs] /\ validity \in [Worker -> Nat] /\ m \in 0 .. T
  BY DEF ReadValidity, Places, Types, GoesTo, Receives
<1>2. /\ at' \in [Worker -> 1 .. Len(program) + 1] /\ at'[w] = CollectiveAfter(at[w])
      /\ \A u \in Worker \ {w} : at'[u] = at[u]
  BY <1>1, ReceivesAt
<1>3. m \in 0 .. T - 1 /\ m < T /\ at[w] = After(m) + 2 /\ setup.ai /\ After(m) \in Nat
      /\ Off(setup) <= After(m) /\ Off(setup) \in Nat
  BY <1>1, Layout, SMTT(30) DEF Place, InStep
<1>4. Value(w) = m + 1 /\ CollectiveAfter(at[w]) = After(m) + 3
  <2>1. program[at[w]] = Entry("bcast", "validity", m + 1)
    BY <1>3, StepPlaces
  <2>2. CollectiveAfter(at[w]) = After(m) + 3
    BY <1>3, StepPlaces
  <2>. QED
    BY <2>1, <2>2 DEF Value, Entry
<1>5. Types'
  <2>1. m + 1 \in Nat
    BY <1>3
  <2>2. validity' \in [Worker -> Nat]
    BY <2>1, <1>1, <1>4
  <2>. QED
    BY <2>2, <1>1, <1>2, PcSet DEF Types, T
<1>6. /\ wpc'[w] = "command" /\ validity'[w] = m + 1
      /\ \A u \in Worker \ {w} : wpc'[u] = wpc[u] /\ validity'[u] = validity[u]
  BY <1>1, <1>4
<1>7. InStep(w, 3)' /\ resized[w] = setup.ai
  <2>1. iteration'[w] < T /\ at'[w] = After(iteration'[w]) + 3
    BY <1>1, <1>2, <1>3, <1>4
  <2>2. at[w] > Off(setup)
    BY <1>3
  <2>. QED
    BY <2>1, <2>2, <1>1 DEF Place, InStep, After, T
<1>8. Place(w)'
  BY <1>1, <1>3, <1>6, <1>7 DEF Place, StartUpPlace
<1>. QED
  BY <1>1, <1>2, <1>5, <1>6, <1>8, OneWorker

\* After a timing or metric comes the next one, or the end of the program.
LEMMA AfterTriple ==
  ASSUME Types, NEW j \in 0 .. Asked(setup) - 1
  PROVE  \/ \E i \in 0 .. Asked(setup) - 1 : End + (3 * j) + 4 = End + (3 * i) + 1
         \/ End + (3 * j) + 4 = Len(program)
<1>1. /\ End \in Nat /\ Asked(setup) \in Nat
      /\ Len(program) = End + (3 * Asked(setup)) + 1
  BY Layout
<1>2. CASE j = Asked(setup) - 1
  BY <1>1, <1>2, SMTT(30)
<1>3. CASE j # Asked(setup) - 1
  <2>1. j + 1 \in 0 .. Asked(setup) - 1 /\ End + (3 * j) + 4 = End + (3 * (j + 1)) + 1
    BY <1>1, <1>3
  <2>. QED
    BY <2>1
<1>. QED
  BY <1>2, <1>3

\* After a step comes the next one, or the profile.
LEMMA AfterStep ==
  ASSUME Types, NEW n \in 0 .. T
  PROVE  \/ n < T
         \/ /\ n = T
            /\ \/ \E i \in 0 .. Asked(setup) - 1 : After(n) + 1 = End + (3 * i) + 1
               \/ After(n) + 1 = Len(program)
<1>1. /\ End \in Nat /\ Asked(setup) \in Nat /\ T \in Nat /\ After(T) = End
      /\ Len(program) = End + (3 * Asked(setup)) + 1
  BY Layout
<1>2. CASE n < T
  BY <1>2
<1>3. CASE n = T /\ Asked(setup) = 0
  BY <1>1, <1>3
<1>4. CASE n = T /\ Asked(setup) > 0
  <2>1. 0 \in 0 .. Asked(setup) - 1 /\ After(n) + 1 = End + (3 * 0) + 1
    BY <1>1, <1>4
  <2>. QED
    BY <1>4, <2>1
<1>. QED
  BY <1>1, <1>2, <1>3, <1>4

LEMMA TypeSets ==
  /\ \A t \in TimingsOf(setup) : t \in Timings /\ IsTiming(t)
  /\ \A t \in StoredOf(setup) : t \in Metrics /\ ~IsTiming(t) /\ t \in Nat
  BY DEF TimingsOf, StoredOf, Timings, Metrics, IsTiming, WORKER_PHREEQC, WORKER_IDLE,
     WORKER_IP_FC, WORKER_DHT_HITS, WORKER_DHT_EVICTIONS, WORKER_PHT_CACHE_HITS,
     WORKER_IP_CALLS

LEMMA ReadTypePlaces ==
  ASSUME Types, Places, NEW w \in Worker, ReadType(w)
  PROVE  Types' /\ Places'
<1>1. /\ UNCHANGED <<setup, program, mpos, names, resized, validity, iteration>>
      /\ Place(w) /\ wpc[w] = "type" /\ Receives(w, "type")
      /\ wpc' = [wpc EXCEPT ![w] = IF IsTiming(Value(w)) THEN "gather" ELSE "reduce"]
      /\ asked' = [asked EXCEPT ![w] = Value(w)]
      /\ wpc \in [Worker -> Pcs] /\ asked \in [Worker -> Timings \cup Metrics]
  BY DEF ReadType, Places, Types, GoesTo, Receives
<1>2. /\ at' \in [Worker -> 1 .. Len(program) + 1] /\ at'[w] = CollectiveAfter(at[w])
      /\ \A u \in Worker \ {w} : at'[u] = at[u]
  BY <1>1, ReceivesAt
<1>3. PICK j \in 0 .. Asked(setup) - 1 : at[w] = End + (3 * j) + 2
  BY <1>1 DEF Place, InTriple
<1>4. iteration[w] = T /\ resized[w] = setup.ai
  <2>1. at[w] > Off(setup)
    BY <1>3, Sizes, SMTT(30)
  <2>. QED
    BY <2>1, <1>1 DEF Place, InTriple
<1>5. PICK t \in TimingsOf(setup) \cup StoredOf(setup) :
        /\ program[at[w]] = Entry("bcast", "type", t)
        /\ t \in StoredOf(setup) =>
             /\ program[End + (3 * j) + 3] = Entry("probe", "probe", t)
             /\ CollectiveAfter(at[w]) = End + (3 * j) + 4
        /\ t \notin StoredOf(setup) =>
             /\ program[End + (3 * j) + 3] = Entry("gather", "gather", t)
             /\ CollectiveAfter(at[w]) = End + (3 * j) + 3
             /\ CollectiveAfter(End + (3 * j) + 3) = End + (3 * j) + 4
  BY <1>3, TriplePlaces
<1>6. Value(w) = t /\ t \in Timings \cup Metrics
  BY <1>5, TypeSets DEF Value, Entry
<1>7. Types'
  BY <1>1, <1>2, <1>6, PcSet DEF Types, T
<1>8. /\ asked'[w] = t /\ wpc'[w] = IF t \in StoredOf(setup) THEN "reduce" ELSE "gather"
      /\ \A u \in Worker \ {w} : wpc'[u] = wpc[u] /\ asked'[u] = asked[u]
  BY <1>1, <1>5, <1>6, TypeSets
<1>9. CASE t \in StoredOf(setup)
  <2>1. at'[w] = End + (3 * j) + 4 /\ at'[w] - 1 = End + (3 * j) + 3
    BY <1>2, <1>5, <1>9, Sizes, SMTT(30)
  <2>2. program[at'[w] - 1] = Entry("probe", "probe", t)
    BY <1>5, <1>9, <2>1
  <2>3. InTriple(w, 4)'
    BY <1>1, <1>4, <2>1 DEF InTriple, T, End
  <2>4. Place(w)'
    BY <1>1, <1>4, <1>8, <1>9, <2>2, <2>3 DEF Place, StartUpPlace
  <2>. QED
    BY <1>1, <1>2, <1>7, <1>8, <2>4, OneWorker
<1>10. CASE t \notin StoredOf(setup)
  <2>1. at'[w] = End + (3 * j) + 3
    BY <1>2, <1>5, <1>10
  <2>2. program[at'[w]] = Entry("gather", "gather", t) /\ t \in TimingsOf(setup)
    BY <1>5, <1>10, <2>1
  <2>3. InTriple(w, 3)'
    BY <1>1, <1>4, <2>1 DEF InTriple, T, End
  <2>4. Place(w)'
    BY <1>1, <1>4, <1>8, <1>10, <2>2, <2>3 DEF Place, StartUpPlace
  <2>. QED
    BY <1>1, <1>2, <1>7, <1>8, <2>4, OneWorker
<1>. QED
  BY <1>9, <1>10

LEMMA PerfToMasterPlaces ==
  ASSUME Types, Places, NEW w \in Worker, PerfToMaster(w)
  PROVE  Types' /\ Places'
<1>1. /\ UNCHANGED <<setup, program, mpos, names, asked, resized, validity, iteration>>
      /\ Place(w) /\ wpc[w] = "gather" /\ asked[w] \in TimingsOf(setup)
      /\ wpc \in [Worker -> Pcs] /\ at \in [Worker -> 1 .. Len(program) + 1]
      /\ iteration[w] = T
  BY DEF PerfToMaster, Places, Types, Place, InTriple
<1>2. /\ at' = [at EXCEPT ![w] = CollectiveAfter(@)]
      /\ wpc' = [wpc EXCEPT ![w] = "command"]
  BY <1>1, TypeSets DEF PerfToMaster, GoesTo
<1>3. PICK j \in 0 .. Asked(setup) - 1 : at[w] = End + (3 * j) + 3
  BY <1>1 DEF Place, InTriple
<1>4. CollectiveAfter(at[w]) = End + (3 * j) + 4
  <2>1. program[at[w]] = Entry("gather", "gather", asked[w])
    BY <1>1 DEF Place
  <2>2. PICK t \in TimingsOf(setup) \cup StoredOf(setup) :
          /\ t \in StoredOf(setup) => program[at[w]] = Entry("probe", "probe", t)
          /\ t \notin StoredOf(setup) => CollectiveAfter(at[w]) = End + (3 * j) + 4
    BY <1>3, TriplePlaces
  <2>. QED
    BY <2>1, <2>2 DEF Entry
<1>5. at'[w] = End + (3 * j) + 4 /\ at'[w] \in 1 .. Len(program) + 1
      /\ resized[w] = setup.ai
  <2>1. /\ End \in Nat /\ Asked(setup) \in Nat /\ Off(setup) \in Nat /\ Off(setup) <= End
        /\ Len(program) = End + (3 * Asked(setup)) + 1
    BY Layout
  <2>2. at'[w] = End + (3 * j) + 4
    BY <1>1, <1>2, <1>4
  <2>3. at[w] > Off(setup)
    BY <2>1, <1>3
  <2>. QED
    BY <2>1, <2>2, <2>3, <1>1 DEF Place
<1>6. Types'
  BY <1>1, <1>2, <1>4, <1>5, PcSet DEF Types, T
<1>7. /\ wpc'[w] = "command"
      /\ \A u \in Worker \ {w} : wpc'[u] = wpc[u] /\ at'[u] = at[u]
  BY <1>1, <1>2
<1>8. \/ InTriple(w, 1)'
      \/ (at[w] = Len(program) /\ iteration[w] = T)'
  BY <1>1, <1>5, AfterTriple DEF InTriple, T, End
<1>9. Place(w)'
  BY <1>1, <1>5, <1>7, <1>8 DEF Place, StartUpPlace
<1>. QED
  BY <1>1, <1>6, <1>7, <1>9, OneWorker

\* The steps of the root and the other workers in a reduction move no worker.
LEMMA ReductionPlaces ==
  ASSUME Types, Places, NEW w \in Worker, MetricsToMaster(w) \/ (w = Root /\ (SendSums \/ SumsSent))
  PROVE  Types' /\ Places'
<1>. DEFINE pc == IF MetricsToMaster(w) THEN (IF w = Root THEN "reduced" ELSE "command")
                  ELSE IF SendSums THEN "send" ELSE "command"
<1>1. /\ UNCHANGED <<setup, program, mpos, at, names, asked, resized, validity, iteration>>
      /\ Place(w) /\ wpc[w] \in {"reduce", "reduced", "send"}
      /\ wpc' = [wpc EXCEPT ![w] = pc]
      /\ wpc \in [Worker -> Pcs]
  BY DEF MetricsToMaster, SendSums, SumsSent, Places, Types, GoesTo
<1>2. (pc \in {"reduced", "send"} /\ w = Root) \/ (pc = "command")
  OBVIOUS
<1>. HIDE DEF pc
<1>3. Types'
  BY <1>1, <1>2, PcSet DEF Types, T
<1>4. wpc'[w] = pc /\ \A u \in Worker \ {w} : wpc'[u] = wpc[u]
  BY <1>1
<1>5. PICK j \in 0 .. Asked(setup) - 1 : at[w] = End + (3 * j) + 4
  BY <1>1 DEF Place, InTriple
<1>6. iteration[w] = T
  BY <1>1 DEF Place, InTriple
<1>7. CASE pc \in {"reduced", "send"} /\ w = Root
  <2>1. InTriple(w, 4)'
    BY <1>1, <1>5, <1>6 DEF InTriple, T, End
  <2>. QED
    BY <1>1, <1>3, <1>4, <1>7, <2>1, OneWorker DEF Place, StartUpPlace
<1>8. CASE pc = "command"
  <2>1. \/ InTriple(w, 1)'
        \/ (at[w] = Len(program) /\ iteration[w] = T)'
    BY <1>1, <1>5, <1>6, AfterTriple DEF InTriple, T, End
  <2>2. Place(w)'
    BY <1>1, <1>4, <1>8, <2>1 DEF Place, StartUpPlace
  <2>. QED
    BY <1>1, <1>3, <1>4, <2>2, OneWorker
<1>. QED
  BY <1>2, <1>7, <1>8

LEMMA EndLoopPlaces ==
  ASSUME Types, Places, NEW w \in Worker, EndLoop(w)
  PROVE  Types' /\ Places'
<1>1. /\ UNCHANGED <<setup, program, mpos, at, names, asked, resized, validity, iteration>>
      /\ Place(w) /\ wpc[w] = "loop" /\ wpc' = [wpc EXCEPT ![w] = "post"]
      /\ wpc \in [Worker -> Pcs]
  BY DEF EndLoop, Places, Types, GoesTo
<1>2. Types'
  BY <1>1, PcSet DEF Types, T
<1>3. wpc'[w] = "post" /\ \A u \in Worker \ {w} : wpc'[u] = wpc[u]
  BY <1>1
<1>4. Place(w)'
  BY <1>1, <1>3 DEF Place, StartUpPlace, After
<1>. QED
  BY <1>1, <1>2, <1>3, <1>4, OneWorker

LEMMA PostIterPlaces ==
  ASSUME Types, Places, NEW W \in SUBSET Worker, PostIter(W)
  PROVE  Types' /\ Places'
<1>1. /\ UNCHANGED <<setup, program, mpos, at, names, asked, resized, validity, iteration>>
      /\ \A w \in W : wpc[w] = "post"
      /\ wpc' = [w \in Worker |-> IF w \in W THEN "command" ELSE wpc[w]]
      /\ wpc \in [Worker -> Pcs]
  BY DEF PostIter, Types
<1>2. Types'
  BY <1>1, PcSet DEF Types, T
<1>3. ASSUME NEW w \in Worker PROVE Place(w)'
  <2>1. CASE w \notin W
    BY <1>1, <2>1, PlaceSame DEF Places
  <2>2. CASE w \in W
    <3>1. /\ wpc[w] = "post" /\ wpc'[w] = "command" /\ Place(w)
          /\ iteration[w] \in 0 .. T /\ at[w] = After(iteration[w]) + 1
      BY <1>1, <2>2 DEF Places, Place, Types
    <3>2. \/ InStep(w, 1)'
          \/ InTriple(w, 1)'
          \/ (at[w] = Len(program) /\ iteration[w] = T)'
      BY <1>1, <3>1, AfterStep DEF InStep, InTriple, T, End, After
    <3>. QED
      BY <1>1, <3>1, <3>2 DEF Place, StartUpPlace
  <2>. QED
    BY <2>1, <2>2
<1>. QED
  BY <1>2, <1>3 DEF Places, Worker

LEMMA PostSimPlaces ==
  ASSUME Types, Places, NEW W \in SUBSET Worker, PostSim(W)
  PROVE  Types' /\ Places'
<1>1. /\ UNCHANGED <<setup, program, mpos, at, names, asked, resized, validity, iteration>>
      /\ \A w \in W : wpc[w] = "postsim"
      /\ wpc' = [w \in Worker |-> IF w \in W THEN "stopped" ELSE wpc[w]]
      /\ wpc \in [Worker -> Pcs]
  BY DEF PostSim, Types
<1>2. Types'
  BY <1>1, PcSet DEF Types, T
<1>3. ASSUME NEW w \in Worker PROVE Place(w)'
  <2>1. CASE w \notin W
    BY <1>1, <2>1, PlaceSame DEF Places
  <2>2. CASE w \in W
    BY <1>1, <2>2 DEF Places, Place, StartUpPlace, T
  <2>. QED
    BY <2>1, <2>2
<1>. QED
  BY <1>2, <1>3 DEF Places, Worker

LEMMA BarrierPlaces ==
  ASSUME Types, Places, Barrier
  PROVE  Types' /\ Places'
<1>1. /\ UNCHANGED <<setup, program, names, asked, resized, validity>>
      /\ Running /\ mpos' = mpos + 1
      /\ \A w \in Worker : wpc[w] = "barrier"
      /\ at' = [w \in Worker |-> CollectiveAfter(at[w])]
      /\ wpc' = [w \in Worker |-> IF at[w] = 1 THEN "n_elements" ELSE "loop"]
      /\ iteration' = [w \in Worker |-> IF at[w] = 1 THEN 0 ELSE iteration[w] + 1]
  BY DEF Barrier
<1>2. T \in Nat /\ Len(program) \in Nat /\ Len(program) >= 2 /\ Off(setup) \in Nat /\ Off(setup) >= 2
  BY Layout, SMTT(30)
<1>3. ASSUME NEW w \in Worker
      PROVE  /\ wpc'[w] \in Pcs /\ at'[w] \in 1 .. Len(program) + 1 /\ iteration'[w] \in 0 .. T
             /\ Place(w)'
  <2>. DEFINE m == iteration[w]
  <2>1. /\ Place(w) /\ wpc[w] = "barrier" /\ m \in 0 .. T
    BY <1>1 DEF Places, Types
  <2>2. CASE at[w] = 1
    <3>1. at'[w] = 2 /\ wpc'[w] = "n_elements" /\ iteration'[w] = 0
      BY <1>1, <2>2, StartUpPlaces
    <3>2. Place(w)'
      BY <1>1, <1>2, <3>1 DEF Place, StartUpPlace
    <3>. QED
      BY <1>2, <3>1, <3>2, PcSet
  <2>3. CASE InStep(w, V + 2) /\ (setup.ai => validity[w] = m + 1)
    <3>1. m \in 0 .. T - 1 /\ at[w] = After(m) + (V + 2) /\ m < T
      BY <1>2, <2>1, <2>3 DEF InStep
    <3>2. m \in 0 .. T /\ m + 1 \in 0 .. T
      BY <1>2, <3>1
    <3>3. /\ V \in {0, 2} /\ After(m) \in Nat /\ Off(setup) <= After(m)
          /\ After(m + 1) \in Nat /\ After(m + 1) <= End /\ Off(setup) <= After(m + 1)
          /\ End \in Nat /\ End < Len(program)
      <4>1. \A n \in 0 .. T : After(n) \in Nat /\ Off(setup) <= After(n) /\ After(n) <= End
        BY Layout
      <4>2. /\ V \in {0, 2} /\ End \in Nat /\ Asked(setup) \in Nat
            /\ Len(program) = End + (3 * Asked(setup)) + 1
        BY Layout
      <4>. QED
        BY <3>2, <4>1, <4>2
    <3>4. at[w] = After(m) + V + 2 /\ at[w] # 1 /\ at[w] > Off(setup)
      BY <1>2, <3>1, <3>3
    <3>5. /\ at'[w] = After(m + 1) + 1 /\ wpc'[w] = "loop" /\ iteration'[w] = m + 1
      BY <1>1, <3>1, <3>4, StepPlaces
    <3>6. /\ iteration'[w] > 0 /\ at'[w] = After(iteration'[w]) + 1 /\ iteration'[w] \in 0 .. T
          /\ at'[w] \in 1 .. Len(program) + 1
      BY <1>2, <3>1, <3>3, <3>5, SMTT(30)
    <3>7. (at[w] = After(iteration[w]) + 1)'
      BY <1>1, <3>6 DEF After
    <3>8. resized[w] = setup.ai /\ (setup.ai => validity[w] = iteration'[w])
      BY <2>1, <2>3, <3>4, <3>5 DEF Place
    <3>9. Place(w)'
      BY <1>1, <3>5, <3>6, <3>7, <3>8 DEF Place, StartUpPlace
    <3>. QED
      BY <3>5, <3>6, <3>9, PcSet
  <2>. QED
    BY <2>1, <2>2, <2>3 DEF Place
<1>4. mpos' \in 1 .. Len(program) + 1
  BY <1>1, <1>2 DEF Types, Running
<1>5. Types'
  <2>1. /\ wpc' \in [Worker -> Pcs] /\ at' \in [Worker -> 1 .. Len(program) + 1]
        /\ iteration' \in [Worker -> 0 .. T]
    BY <1>1, <1>3
  <2>. QED
    BY <1>1, <1>4, <2>1 DEF Types, T
<1>. QED
  BY <1>3, <1>5 DEF Places, Worker

LEMMA SplitPlaces ==
  ASSUME Types, Places, Split
  PROVE  Types' /\ Places'
<1>1. /\ UNCHANGED <<setup, program, names, asked, resized, validity, iteration>>
      /\ Running /\ mpos' = mpos + 1
      /\ \A w \in Worker : wpc[w] = "split"
      /\ at' = [w \in Worker |-> CollectiveAfter(at[w])]
      /\ wpc' = [w \in Worker |-> "command"]
  BY DEF Split
<1>2. /\ Len(program) \in Nat /\ Off(setup) \in Nat /\ Off(setup) <= Len(program) /\ Off(setup) >= 2
      /\ Off(setup) = 2 * NSpecies + (IF Shared(setup) THEN 7 ELSE 6) /\ NSpecies \in Nat
  BY Layout, SMTT(30)
<1>3. ASSUME NEW w \in Worker
      PROVE  at'[w] = Off(setup) - 1 /\ wpc'[w] = "command" /\ Place(w)'
  <2>1. at[w] = (2 * NSpecies) + 5 /\ Shared(setup) /\ iteration[w] = 0
    BY <1>1 DEF Places, Place, StartUpPlace
  <2>2. at'[w] = (2 * NSpecies) + 6
    BY <1>1, <2>1, StartUpPlaces
  <2>3. at'[w] = Off(setup) - 1 /\ wpc'[w] = "command" /\ ~(at'[w] > Off(setup))
    BY <1>1, <1>2, <2>1, <2>2
  <2>4. Place(w)'
    BY <1>1, <2>1, <2>3 DEF Place, StartUpPlace
  <2>. QED
    BY <2>3, <2>4
<1>4. mpos' \in 1 .. Len(program) + 1
  BY <1>1, <1>2 DEF Types, Running
<1>5. Types'
  <2>1. Off(setup) - 1 \in 1 .. Len(program) + 1
    BY <1>2
  <2>2. /\ wpc' \in [Worker -> Pcs] /\ at' \in [Worker -> 1 .. Len(program) + 1]
    BY <1>1, <1>3, <2>1, PcSet
  <2>. QED
    BY <1>1, <1>4, <2>2 DEF Types, T
<1>. QED
  BY <1>3, <1>5 DEF Places, Worker

LEMMA MasterPlaces ==
  ASSUME Types, Places, MasterStep
  PROVE  Types' /\ Places'
<1>1. /\ UNCHANGED <<setup, program, wpc, at, names, asked, resized, validity, iteration>>
      /\ Running /\ mpos' = mpos + 1
  BY DEF MasterStep, MasterBcast, MasterGather, MasterLoop, MasterProbe
<1>2. Len(program) \in Nat
  BY Layout
<1>3. mpos' \in 1 .. Len(program) + 1
  BY <1>1, <1>2 DEF Types, Running
<1>4. Types'
  BY <1>1, <1>3 DEF Types, T
<1>5. \A w \in Worker : Place(w)'
  BY <1>1, PlaceSame DEF Places
<1>. QED
  BY <1>4, <1>5 DEF Places, Worker

LEMMA InitPlaces == Init => Types /\ Places
<1>. SUFFICES ASSUME Init PROVE Types /\ Places
  OBVIOUS
<1>1. setup \in Options /\ setup \in Setups /\ program = Program(setup)
  BY CommandsAssumption DEF Init, CommandsAssumption, Options
<1>2. Len(program) \in Nat /\ Len(program) >= 1 /\ Off(setup) \in Nat /\ Off(setup) >= 2
  <2>1. Base(setup) \in Nat /\ Off(setup) \in Nat /\ Off(setup) >= 6
    BY <1>1, BeforeNext
  <2>2. Asked(setup) \in Nat
    BY <1>1, ProfilingAt
  <2>3. Len(program) = Base(setup) + (3 * Asked(setup)) + 1
    BY <1>1, ProgramAt DEF ProgramCalls
  <2>. QED
    BY <2>1, <2>2, <2>3
<1>3. T \in Nat /\ NSpecies \in Nat /\ 0 \in Timings \cup Metrics
  BY <1>1, CommandsAssumption DEF Options, T, CommandsAssumption, Timings, WORKER_PHREEQC, WORKER_IP_FC
<1>4. Types
  BY <1>1, <1>2, <1>3, PcSet DEF Init, Types
<1>5. ASSUME NEW w \in Worker PROVE Place(w)
  <2>1. wpc[w] = "barrier" /\ at[w] = 1 /\ iteration[w] = 0 /\ ~(at[w] > Off(setup))
    BY <1>2 DEF Init
  <2>. QED
    BY <2>1 DEF Place, StartUpPlace
<1>. QED
  BY <1>4, <1>5 DEF Places

LEMMA NextPlaces ==
  ASSUME Types, Places, [Next]_vars
  PROVE  Types' /\ Places'
<1>1. CASE MasterStep
  BY <1>1, MasterPlaces
<1>2. ASSUME NEW w \in Worker, WorkerStep(w)
      PROVE  Types' /\ Places'
  BY <1>2, ReadStartUpPlaces, ReadCommandPlaces, FieldInitPlaces, ReadValidityPlaces,
     EndLoopPlaces, ReadTypePlaces, PerfToMasterPlaces, ReductionPlaces DEF WorkerStep
<1>3. CASE UNCHANGED <<setup, program, mpos, wpc, at, names, asked, resized, validity, iteration>>
  <2>1. \A w \in Worker : Place(w)'
    BY <1>3, PlaceSame DEF Places
  <2>2. Types'
    BY <1>3 DEF Types, T
  <2>. QED
    BY <2>1, <2>2 DEF Places, Worker
<1>4. ASSUME NEW w \in Worker, NEW t \in Metrics, Count(w, t)
      PROVE  Types' /\ Places'
  BY <1>3, <1>4 DEF Count
<1>5. CASE IterationEnd
  <2>1. PICK W \in SUBSET Worker : PostIter(W)
    BY <1>5 DEF IterationEnd
  <2>. QED
    BY <2>1, PostIterPlaces
<1>6. CASE SimulationEnd
  <2>1. PICK W \in SUBSET Worker : PostSim(W)
    BY <1>6 DEF SimulationEnd
  <2>. QED
    BY <2>1, PostSimPlaces
<1>7. CASE SendSums \/ SumsSent
  <2>1. Root \in Worker
    BY CommandsAssumption DEF CommandsAssumption, Root, Worker
  <2>. QED
    BY <1>7, <2>1, ReductionPlaces
<1>8. CASE Stopped \/ UNCHANGED vars
  BY <1>3, <1>8 DEF Stopped, vars
<1>. QED
  BY <1>1, <1>2, <1>4, <1>5, <1>6, <1>7, <1>8, BarrierPlaces, SplitPlaces DEF Next, Together

\* The next call of a worker is the one it waits for.
LEMMA PlaceCall ==
  ASSUME Types, Places, NEW w \in Worker
  PROVE  /\ wpc[w] \in CallsOfWorker =>
              /\ at[w] \in 1 .. Len(program)
              /\ program[at[w]].what = wpc[w]
              /\ program[at[w]].op = IF wpc[w] \in {"barrier", "split", "gather"} THEN wpc[w]
                                     ELSE "bcast"
         /\ wpc[w] \in {"loop", "post", "reduce", "reduced", "send"} =>
              at[w] \in 1 .. Len(program) /\ program[at[w]].op = "bcast"
         /\ wpc[w] \in {"postsim", "stopped"} => at[w] = Len(program) + 1
<1>. DEFINE a == at[w]
            m == iteration[w]
            N == NSpecies
            L == Len(program)
            K == Asked(setup)
            Is(op, what) == a \in 1 .. L /\ \E value : program[a] = Entry(op, what, value)
<1>1. /\ Place(w) /\ a \in 1 .. L + 1 /\ wpc[w] \in Pcs /\ m \in 0 .. T /\ names[w] \in 0 .. N
  BY DEF Places, Types
<1>2. /\ T \in Nat /\ V \in {0, 2} /\ (setup.ai <=> V = 2) /\ N \in Nat /\ K \in Nat
      /\ Off(setup) \in Nat /\ End \in Nat /\ Off(setup) <= End
      /\ Off(setup) = 2 * N + (IF Shared(setup) THEN 7 ELSE 6)
      /\ L = End + (3 * K) + 1
      /\ After(m) \in Nat /\ After(m) <= End
  BY <1>1, Layout
<1>2a. L \in Nat /\ End \in Nat /\ End < L /\ After(m) \in Nat /\ N \in Nat /\ (2 * N) + 6 <= L
  BY <1>2
<1>3. ASSUME a <= L PROVE a \in 1 .. L
  BY <1>1, <1>2, <1>3
<1>4. ASSUME m < T
      PROVE  m \in 0 .. T - 1 /\ After(m) + V + 3 <= End
  <2>1. m \in 0 .. T - 1 /\ m + 1 \in 0 .. T
    BY <1>1, <1>2, <1>4, SMTT(30)
  <2>2. After(m + 1) = After(m) + V + 3 /\ After(m + 1) <= End
    BY <2>1, Layout
  <2>. QED
    BY <2>1, <2>2
<1>. HIDE DEF Is
<1>5. \A op, what : Is(op, what) => /\ a \in 1 .. L /\ program[a].op = op /\ program[a].what = what
  BY DEF Is, Entry
<1>6. \A op, what, value : a \in 1 .. L /\ program[a] = Entry(op, what, value) => Is(op, what)
  BY DEF Is
<1>. HIDE DEF Is
<1>7. wpc[w] = "barrier" => Is("barrier", "barrier")
  <2>1. CASE a = 1
    BY <2>1, <1>2, <1>3, <1>6, StartUpPlaces, SMTT(30)
  <2>2. CASE InStep(w, V + 2)
    <3>1. m < T /\ a = After(m) + (V + 2)
      BY <2>2 DEF InStep
    <3>2. After(m) + V + 3 <= End /\ m \in 0 .. T - 1
      BY <1>4, <3>1
    <3>3. a = After(m) + V + 2
      BY <1>2, <3>1
    <3>4. a <= L
      BY <1>2, <3>2, <3>3
    <3>. QED
      BY <1>3, <1>6, <3>2, <3>3, <3>4, StepPlaces
  <2>. QED
    BY <1>1, <2>1, <2>2 DEF Place
<1>8. /\ wpc[w] = "n_elements" => Is("bcast", "n_elements")
      /\ wpc[w] = "base_totals" => Is("bcast", "base_totals")
      /\ wpc[w] = "has_id" => Is("bcast", "has_id")
      /\ wpc[w] = "split" => Is("split", "split")
      /\ wpc[w] = "prop_count" => Is("bcast", "prop_count")
  <2>1. /\ 2 \in 1 .. L /\ (2 * N) + 3 \in 1 .. L /\ (2 * N) + 4 \in 1 .. L
        /\ (2 * N) + 5 \in 1 .. L /\ Off(setup) \in 1 .. L
    BY <1>2
  <2>2. /\ wpc[w] = "n_elements" => a = 2
        /\ wpc[w] = "base_totals" => a = (2 * N) + 3
        /\ wpc[w] = "has_id" => a = (2 * N) + 4
        /\ wpc[w] = "split" => a = (2 * N) + 5 /\ Shared(setup)
        /\ wpc[w] = "prop_count" => a = Off(setup)
    BY <1>1 DEF Place, StartUpPlace
  <2>. HIDE DEF N
  <2>a. /\ program[2] = Entry("bcast", "n_elements", NSpecies)
        /\ program[(2 * N) + 3] = Entry("bcast", "base_totals", 0)
        /\ program[(2 * N) + 4] = Entry("bcast", "has_id", 0)
        /\ Shared(setup) => program[(2 * N) + 5] = Entry("split", "split", 0)
        /\ program[Off(setup)] = Entry("bcast", "prop_count", NSpecies)
    BY StartUpPlaces DEF N
  <2>3. wpc[w] = "n_elements" => Is("bcast", "n_elements")
    BY <1>6, <2>1, <2>2, <2>a
  <2>4. wpc[w] = "base_totals" => Is("bcast", "base_totals")
    BY <1>6, <2>1, <2>2, <2>a
  <2>5. wpc[w] = "has_id" => Is("bcast", "has_id")
    BY <1>6, <2>1, <2>2, <2>a
  <2>6. wpc[w] = "split" => Is("split", "split")
    BY <1>6, <2>1, <2>2, <2>a
  <2>7. wpc[w] = "prop_count" => Is("bcast", "prop_count")
    BY <1>6, <2>1, <2>2, <2>a
  <2>. QED
    BY <2>3, <2>4, <2>5, <2>6, <2>7
<1>9. /\ wpc[w] = "size" => Is("bcast", "size")
      /\ wpc[w] = "name" => Is("bcast", "name")
  <2>. SUFFICES ASSUME wpc[w] \in {"size", "name"}
                PROVE  /\ wpc[w] = "size" => Is("bcast", "size")
                       /\ wpc[w] = "name" => Is("bcast", "name")
    OBVIOUS
  <2>. DEFINE k == N - names[w] + 1
  <2>1. /\ k \in 1 .. N
        /\ (2 * (N - names[w])) + 3 = (2 * k) + 1
        /\ (2 * (N - names[w])) + 4 = (2 * k) + 2
    <3>1. names[w] > 0
      BY <1>1 DEF Place, StartUpPlace
    <3>. QED
      BY <1>1, <1>2, <3>1, NameIndex
  <2>2. /\ wpc[w] = "size" => a = (2 * k) + 1
        /\ wpc[w] = "name" => a = (2 * k) + 2
    BY <1>1, <2>1 DEF Place, StartUpPlace
  <2>. HIDE DEF k
  <2>3. (2 * k) + 1 <= L /\ (2 * k) + 2 <= L
    <3>1. k \in Int /\ k <= N
      BY <1>2a, <2>1
    <3>. QED
      BY <1>2a, <3>1
  <2>. QED
    BY <1>3, <1>6, <2>1, <2>2, <2>3, StartUpPlaces, SMTT(30)
<1>10. wpc[w] = "command" => Is("bcast", "command")
  <2>1. CASE a = Off(setup) - 1
    <3>1. a <= L
      BY <1>2, <2>1
    <3>. QED
      BY <1>3, <1>6, <2>1, <3>1, StartUpPlaces
  <2>2. CASE InStep(w, 1)
    <3>1. m < T /\ a = After(m) + 1
      BY <2>2 DEF InStep
    <3>2. a <= L
      BY <1>2, <1>4, <3>1
    <3>. QED
      BY <1>1, <1>3, <1>6, <3>1, <3>2, StepStart
  <2>3. CASE InStep(w, 3) /\ setup.ai
    <3>1. m < T /\ a = After(m) + 3
      BY <2>3 DEF InStep
    <3>2. a = After(m) + V + 1 /\ a <= L
      <4>1. V = 2 /\ After(m) + V + 3 <= End
        BY <1>2, <1>4, <2>3, <3>1
      <4>. QED
        BY <1>2a, <3>1, <4>1
    <3>. QED
      BY <1>3, <1>4, <1>6, <3>1, <3>2, StepPlaces
  <2>4. CASE InTriple(w, 1)
    <3>1. PICK j \in 0 .. K - 1 : a = End + (3 * j) + 1
      BY <2>4 DEF InTriple
    <3>2. a <= L
      BY <1>2, <3>1
    <3>. QED
      BY <1>3, <1>6, <3>1, <3>2, TriplePlaces
  <2>5. CASE a = L
    BY <1>6, <2>5, LastPlace
  <2>. QED
    BY <1>1, <2>1, <2>2, <2>3, <2>4, <2>5 DEF Place
<1>11. wpc[w] = "validity" => Is("bcast", "validity")
  <2>. SUFFICES ASSUME wpc[w] = "validity" PROVE Is("bcast", "validity")
    OBVIOUS
  <2>1. m < T /\ a = After(m) + 2 /\ setup.ai
    BY <1>1 DEF Place, InStep
  <2>2. a <= L
    BY <1>2, <1>4, <2>1
  <2>. QED
    BY <1>3, <1>4, <1>6, <2>1, <2>2, StepPlaces
<1>12. wpc[w] = "type" => Is("bcast", "type")
  <2>. SUFFICES ASSUME wpc[w] = "type" PROVE Is("bcast", "type")
    OBVIOUS
  <2>1. PICK j \in 0 .. K - 1 : a = End + (3 * j) + 2
    BY <1>1 DEF Place, InTriple
  <2>2. a <= L
    BY <1>2, <2>1
  <2>3. PICK t : program[a] = Entry("bcast", "type", t)
    BY <2>1, TriplePlaces
  <2>. QED
    BY <1>3, <1>6, <2>2, <2>3
<1>13. wpc[w] = "gather" => Is("gather", "gather")
  <2>. SUFFICES ASSUME wpc[w] = "gather" PROVE Is("gather", "gather")
    OBVIOUS
  <2>1. PICK j \in 0 .. K - 1 : a = End + (3 * j) + 3
    BY <1>1 DEF Place, InTriple
  <2>2. a <= L
    BY <1>2, <2>1
  <2>. QED
    BY <1>1, <1>3, <1>6, <2>2 DEF Place
<1>14. ASSUME wpc[w] \in {"loop", "post", "reduce", "reduced", "send"}
       PROVE  a \in 1 .. L /\ program[a].op = "bcast"
  <2>1. CASE wpc[w] \in {"loop", "post"}
    <3>1. a = After(m) + 1
      BY <1>1, <2>1 DEF Place
    <3>2. a <= L
      BY <1>1, <1>2, <3>1
    <3>. QED
      BY <1>1, <1>3, <3>1, <3>2, StepStart DEF Entry
  <2>2. CASE wpc[w] \in {"reduce", "reduced", "send"}
    <3>1. PICK j \in 0 .. K - 1 : a = End + (3 * j) + 4
      BY <1>1, <2>2 DEF Place, InTriple
    <3>2. j + 1 \in 0 .. K /\ End + (3 * (j + 1)) + 1 = a /\ a <= L
      BY <1>2, <3>1, SMTT(30)
    <3>3. PICK c : program[End + (3 * (j + 1)) + 1] = Entry("bcast", "command", c)
      BY <3>2, TripleStart
    <3>. QED
      BY <1>3, <3>2, <3>3 DEF Entry
  <2>. QED
    BY <1>14, <2>1, <2>2
<1>15. wpc[w] \in {"postsim", "stopped"} => a = L + 1
  BY <1>1 DEF Place
<1>. QED
  BY <1>5, <1>7, <1>8, <1>9, <1>10, <1>11, <1>12, <1>13, <1>14, <1>15 DEF CallsOfWorker

\* Every worker is at a place of the program.
THEOREM PlacesInvariant == Spec => [](Types /\ Places)
<1>1. Types /\ Places /\ [Next]_vars => (Types /\ Places)'
  BY NextPlaces
<1>. QED
  BY <1>1, InitPlaces, PTL DEF Spec

\* Every worker is in the collective call that the master makes or has made at
\* the same place of its own series of calls, whatever the options, the number of
\* steps, of species and of workers are: no value is taken for another one, and
\* WorkerLoop and WorkerPerfToMaster throw for no unknown tag.
THEOREM CallsMatch == Spec => []CollectivesMatch
<1>1. Types /\ Places => CollectivesMatch
  <2>. SUFFICES ASSUME Types, Places PROVE CollectivesMatch
    OBVIOUS
  <2>1. ASSUME NEW w \in Worker PROVE wpc[w] # "error"
    BY DEF Types, Pcs, CallsOfWorker
  <2>2. ASSUME NEW w \in Worker, wpc[w] \in CallsOfWorker
        PROVE  at[w] <= Len(program) /\ program[at[w]].what = wpc[w]
    <3>1. at[w] \in 1 .. Len(program) /\ program[at[w]].what = wpc[w]
      BY <2>2, PlaceCall
    <3>. QED
      BY <3>1
  <2>. QED
    BY <2>1, <2>2 DEF CollectivesMatch
<1>. QED
  BY <1>1, PlacesInvariant, PTL

\* A worker in the loop of a step has the validity vector of that step, and has
\* made room for it before it came, for any number of steps and workers.
THEOREM ValidityFresh == Spec => []FreshValidity
<1>1. Types /\ Places => FreshValidity
  <2>. SUFFICES ASSUME Types, Places, setup.ai, NEW w \in Worker
                PROVE  /\ wpc[w] = "validity" => resized[w]
                       /\ wpc[w] = "loop" => validity[w] = iteration[w]
    BY DEF FreshValidity
  <2>1. Place(w) /\ iteration[w] \in 0 .. T
    BY DEF Places, Types
  <2>2. wpc[w] = "validity" => at[w] > Off(setup)
    <3>1. wpc[w] = "validity" => at[w] = After(iteration[w]) + 2
      BY <2>1 DEF Place, InStep
    <3>2. After(iteration[w]) \in Nat /\ Off(setup) <= After(iteration[w]) /\ Off(setup) \in Nat
      BY <2>1, Layout
    <3>. QED
      BY <3>1, <3>2
  <2>. QED
    BY <2>1, <2>2 DEF Place
<1>. QED
  BY <1>1, PlacesInvariant, PTL

\* No worker is asked for the timings or counters of a table it does not have.
THEOREM OnlyAskedExists == Spec => []AskedExists
<1>1. Types /\ Places => AskedExists
  <2>. SUFFICES ASSUME Types, Places, NEW w \in Worker
                PROVE  /\ wpc[w] = "gather" /\ asked[w] \in WORKER_IP_WRITE .. WORKER_IP_FC =>
                            setup.interp
                       /\ wpc[w] = "reduce" => setup.dht \/ setup.interp
                       /\ wpc[w] = "reduce" /\ asked[w] = WORKER_PHT_CACHE_HITS => setup.interp
    BY DEF AskedExists
  <2>1. Place(w)
    BY DEF Places
  <2>2. wpc[w] = "gather" => asked[w] \in TimingsOf(setup)
    BY <2>1 DEF Place
  <2>3. wpc[w] = "reduce" => asked[w] \in StoredOf(setup)
    BY <2>1 DEF Place
  <2>. QED
    BY <2>2, <2>3 DEF TimingsOf, StoredOf, WORKER_PHREEQC, WORKER_IDLE, WORKER_IP_WRITE,
       WORKER_IP_FC, WORKER_DHT_HITS, WORKER_DHT_EVICTIONS, WORKER_PHT_CACHE_HITS,
       WORKER_IP_CALLS
<1>. QED
  BY <1>1, PlacesInvariant, PTL
----------------------------------------------------------------------------
(* Master and workers                                                      *)

\* A worker is at most one call ahead of the master, and then in one that the
\* master waits in; nobody leaves a call behind that is not a broadcast, unless
\* all workers are past it.
Synchronous ==
  /\ \A w \in Worker :
       /\ \/ at[w] <= mpos
          \/ Running /\ at[w] = mpos + 1 /\ Current.op \in {"gather", "loop", "probe"}
       /\ ended[w] <=> wpc[w] = "loop" /\ at[w] <= mpos
       /\ Running /\ Current.op = "loop" /\ at[w] = mpos + 1 => wpc[w] = "loop"
  /\ \A q \in 1 .. mpos - 1 :
       program[q].op # "bcast" => \A w \in Worker : at[w] > q

\* The master waits for a metric; worker w has contributed to it; the root has
\* got the sums.
Probing == Running /\ Current.op = "probe"

Contributed(w) == Probing /\ at[w] = mpos + 1 /\ wpc[w] # "reduce"

Summed == Probing /\ at[Root] = mpos + 1 /\ wpc[Root] \notin {"reduce", "reduced"}

Reductions ==
  /\ \A w \in Worker :
       /\ reduce[w] = IF Contributed(w) /\ ~Summed
                      THEN <<series[w][Current.value]>> ELSE <<>>
       /\ Summed => Contributed(w)
       /\ wpc[w] \in {"reduce", "reduced"} => Probing /\ at[w] = mpos + 1
  /\ mail = IF Summed
            THEN <<[tag |-> Current.value, sums |-> happened[Current.value]]>>
            ELSE <<>>
----------------------------------------------------------------------------
(* Counting                                                                *)

InLoop(w) == wpc[w] \in {"loop", "post"}

\* What worker w has counted of t in step n.
Share(w, t, n) ==
  IF n \in DOMAIN series[w][t] THEN series[w][t][n]
  ELSE IF n = iteration[w] /\ InLoop(w) THEN counter[w][t] ELSE 0

Counts ==
  /\ counter \in [Worker -> [Metrics -> Nat]]
  /\ series \in [Worker -> [Metrics -> Seq(Nat)]]
  /\ happened \in [Metrics -> [1 .. T -> Nat]]
  /\ \A w \in Worker : \A t \in Metrics :
       /\ t \in Stored => Len(series[w][t]) = IF InLoop(w) THEN iteration[w] - 1
                                              ELSE iteration[w]
       /\ t \notin Stored => series[w][t] = <<>>
       /\ t \in Stored /\ ~InLoop(w) => counter[w][t] = 0
  /\ \A t \in Stored : \A n \in 1 .. T :
       happened[t][n] = SumFunction([w \in Worker |-> Share(w, t, n)])

Results ==
  /\ DOMAIN result \subseteq Stored
  /\ \A t \in DOMAIN result : result[t] = happened[t]
  /\ DOMAIN result # {} => \A w \in Worker : at[w] > End + 1
----------------------------------------------------------------------------
(* Functions of the workers                                                *)

Shapes ==
  /\ ended \in [Worker -> BOOLEAN]
  /\ reduce = [w \in Worker |-> reduce[w]]

LEMMA NextShapes ==
  ASSUME Shapes, [Next]_vars
  PROVE  Shapes'
<1>1. CASE UNCHANGED <<ended, reduce>>
  BY <1>1 DEF Shapes
<1>2. CASE MasterLoop \/ \E w \in Worker : EndLoop(w)
  BY <1>2 DEF MasterLoop, EndLoop, Shapes
<1>3. CASE SendSums \/ \E w \in Worker : MetricsToMaster(w)
  <2>1. ended' = ended
    BY <1>3 DEF SendSums, MetricsToMaster
  <2>2. DOMAIN reduce = Worker
    BY DEF Shapes
  <2>3. reduce' = [w \in Worker |-> reduce'[w]]
    <3>1. CASE SendSums
      BY <3>1 DEF SendSums
    <3>2. CASE \E w \in Worker : MetricsToMaster(w)
      BY <2>2, <3>2 DEF MetricsToMaster
    <3>. QED
      BY <1>3, <3>1, <3>2
  <2>. QED
    BY <2>1, <2>3 DEF Shapes
<1>4. CASE UNCHANGED vars \/ Stopped
  BY <1>1, <1>4 DEF vars, Stopped
<1>5. CASE MasterStep
  BY <1>1, <1>2, <1>5 DEF MasterStep, MasterBcast, MasterGather, MasterProbe
<1>6. ASSUME NEW w \in Worker, WorkerStep(w) \/ \E t \in Metrics : Count(w, t)
      PROVE  Shapes'
  BY <1>1, <1>2, <1>3, <1>6
     DEF WorkerStep, ReadStartUp, ReadCommand, FieldInit, ReadValidity, ReadType, PerfToMaster, Count
<1>7. CASE Together \/ SumsSent
  BY <1>1, <1>3, <1>7
     DEF Together, Barrier, Split, IterationEnd, PostIter, SimulationEnd, PostSim, SumsSent
<1>. QED
  BY <1>4, <1>5, <1>6, <1>7 DEF Next
----------------------------------------------------------------------------
(* Which call is behind which                                              *)

LEMMA StartUpParts ==
  ASSUME Types, NEW p \in 1 .. Off(setup)
  PROVE  \/ p = 1 \/ p = 2
         \/ \E k \in 1 .. NSpecies : p = (2 * k) + 1 \/ p = (2 * k) + 2
         \/ p = (2 * NSpecies) + 3 \/ p = (2 * NSpecies) + 4
         \/ Shared(setup) /\ p = (2 * NSpecies) + 5
         \/ p = Off(setup) - 1 \/ p = Off(setup)
<1>1. NSpecies \in Nat /\ Off(setup) = 2 * NSpecies + (IF Shared(setup) THEN 7 ELSE 6)
  BY Layout
<1>2. ASSUME p >= 3, p <= (2 * NSpecies) + 2
      PROVE  \E k \in 1 .. NSpecies : p = (2 * k) + 1 \/ p = (2 * k) + 2
  <2>. DEFINE k == (p - 1) \div 2
  <2>1. k \in 1 .. NSpecies /\ (p = (2 * k) + 1 \/ p = (2 * k) + 2)
    BY <1>1, <1>2
  <2>. QED
    BY <2>1
<1>. QED
  BY <1>1, <1>2

LEMMA ProgramParts ==
  ASSUME Types, NEW p \in 1 .. Len(program)
  PROVE  \/ p \in 1 .. Off(setup)
         \/ \E n \in 0 .. T - 1, i \in 1 .. V + 3 : p = After(n) + i
         \/ \E j \in 0 .. Asked(setup) - 1, i \in 1 .. 3 : p = End + (3 * j) + i
         \/ p = Len(program)
<1>. DEFINE l == StepCalls(setup)
            o == Off(setup)
            K == Asked(setup)
<1>1. /\ T \in Nat /\ V \in {0, 2} /\ l = V + 3 /\ o \in Nat /\ K \in Nat /\ End \in Nat
      /\ Len(program) = End + (3 * K) + 1
  BY Layout
<1>2. /\ End = o + (T * l)
      /\ \A n \in 0 .. T : After(n) = o + (n * l)
  BY <1>1 DEF End, Base, After, CallsBefore, T
<1>. HIDE DEF l, o, K
<1>3. ASSUME p > o, p <= End
      PROVE  \E n \in 0 .. T - 1, i \in 1 .. V + 3 : p = After(n) + i
  <2>. DEFINE q == p - o
              n == (q - 1) \div l
              i == ((q - 1) % l) + 1
  <2>1. q \in 1 .. T * l
    BY <1>1, <1>2, <1>3
  <2>2. n \in 0 .. T - 1 /\ i \in 1 .. l /\ q = (n * l) + i
    <3>. HIDE DEF q
    <3>1. CASE l = 3
      BY <1>1, <2>1, <3>1
    <3>2. CASE l = 5
      BY <1>1, <2>1, <3>2
    <3>. QED
      BY <1>1, <3>1, <3>2
  <2>. HIDE DEF n, i
  <2>3. n \in 0 .. T /\ n * l \in Int /\ p = (o + (n * l)) + i
    BY <1>1, <2>2
  <2>4. p = After(n) + i
    BY <1>2, <2>3
  <2>. QED
    BY <1>1, <2>2, <2>4
<1>4. ASSUME p > End, p # Len(program)
      PROVE  \E j \in 0 .. K - 1, i \in 1 .. 3 : p = End + (3 * j) + i
  <2>. DEFINE j == ((p - End) - 1) \div 3
              i == (((p - End) - 1) % 3) + 1
  <2>1. j \in 0 .. K - 1 /\ i \in 1 .. 3 /\ p = End + (3 * j) + i
    BY <1>1, <1>4
  <2>. HIDE DEF j, i
  <2>. QED
    BY <2>1
<1>5. p \in Int /\ (p <= o => p \in 1 .. o)
  BY <1>1
<1>. QED
  BY <1>1, <1>3, <1>4, <1>5 DEF K, o

\* A loop is behind a barrier, what is asked for behind its type, and every other
\* call that is not a broadcast is the first one or behind a broadcast.
LEMMA CallBehind ==
  ASSUME Types, NEW p \in 1 .. Len(program)
  PROVE  /\ program[p].op \in Ops
         /\ program[p].op = "loop" => p - 1 \in 1 .. Len(program) /\ program[p - 1].op = "barrier"
         /\ program[p].op \in {"barrier", "split"} => p = 1 \/ program[p - 1].op = "bcast"
         /\ program[p].op \in {"gather", "probe"} =>
              /\ p - 1 \in 1 .. Len(program) /\ program[p - 1].op = "bcast"
              /\ program[p - 1].what = "type"
              /\ p > End + 1 /\ p < Len(program)
<1>. DEFINE Goal ==
       /\ program[p].op = "loop" => p - 1 \in 1 .. Len(program) /\ program[p - 1].op = "barrier"
       /\ program[p].op \in {"barrier", "split"} => p = 1 \/ program[p - 1].op = "bcast"
       /\ program[p].op \in {"gather", "probe"} =>
            /\ p - 1 \in 1 .. Len(program) /\ program[p - 1].op = "bcast"
            /\ program[p - 1].what = "type"
            /\ p > End + 1 /\ p < Len(program)
<1>1. program[p].op \in Ops
  <2>1. program \in Seq(Calls)
    BY Layout DEF ProgramCalls
  <2>2. program[p] \in Calls
    BY <2>1, CallOf
  <2>. QED
    BY <2>2 DEF Calls
<1>. SUFFICES Goal
  BY <1>1
<1>2. ASSUME program[p].op = "bcast"
      PROVE  Goal
  BY <1>2
<1>2a. ASSUME program[p].op \in {"barrier", "split"}, p = 1 \/ program[p - 1].op = "bcast"
       PROVE  Goal
  BY <1>2a
<1>. HIDE DEF Goal
<1>3. CASE p \in 1 .. Off(setup)
  <2>. DEFINE O(q) == program[q].op = "bcast"
  <2>1. /\ O(2) /\ \A k \in 1 .. NSpecies : O((2 * k) + 1) /\ O((2 * k) + 2)
        /\ O((2 * NSpecies) + 3) /\ O((2 * NSpecies) + 4)
        /\ O(Off(setup) - 1) /\ O(Off(setup))
    BY StartUpPlaces, SMTT(30) DEF Entry
  <2>. HIDE DEF O
  <2>2. CASE p = 1
    BY <1>2a, <2>2, StartUpPlaces DEF Entry
  <2>3. CASE Shared(setup) /\ p = (2 * NSpecies) + 5
    <3>1. p - 1 = (2 * NSpecies) + 4
      BY <2>3, Sizes, SMTT(30)
    <3>2. program[p].op = "split"
      BY <2>3, StartUpPlaces DEF Entry
    <3>. QED
      BY <1>2a, <2>1, <3>1, <3>2 DEF O
  <2>4. CASE O(p)
    BY <1>2, <2>4 DEF O
  <2>. QED
    BY <1>3, <2>1, <2>2, <2>3, <2>4, StartUpParts
<1>4. ASSUME NEW n \in 0 .. T - 1, NEW i \in 1 .. V + 3, p = After(n) + i
      PROVE  Goal
  <2>1. /\ V \in {0, 2} /\ (setup.ai <=> V = 2) /\ After(n) \in Nat /\ After(n + 1) = After(n) + V + 3
        /\ After(n) + V + 3 <= Len(program)
    BY StepLayout
  <2>2. CASE i <= V
    <3>1. setup.ai /\ (p = After(n) + 1 \/ p = After(n) + 2)
      BY <1>4, <2>1, <2>2
    <3>2. /\ program[After(n) + 1] = Entry("bcast", "command", CHEM_AI_BCAST_VALIDITY)
          /\ program[After(n) + 2] = Entry("bcast", "validity", n + 1)
      BY <3>1, StepPlaces
    <3>. QED
      BY <1>2, <3>1, <3>2 DEF Entry
  <2>3. CASE i = V + 1 \/ i = V + 2
    <3>1. p = After(n) + V + 1 \/ (p = After(n) + V + 2 /\ p - 1 = After(n) + V + 1)
      BY <1>4, <2>1, <2>3, SMTT(30)
    <3>2. /\ program[After(n) + V + 1] = Entry("bcast", "command", CHEM_WORK_LOOP)
          /\ program[After(n) + V + 2] = Entry("barrier", "barrier", 0)
      BY StepPlaces
    <3>. QED
      BY <1>2, <1>2a, <3>1, <3>2 DEF Entry
  <2>4. CASE i = V + 3
    <3>1. p = After(n + 1) /\ p - 1 = After(n) + V + 2 /\ p - 1 \in 1 .. Len(program)
      BY <1>4, <2>1, <2>4, SMTT(30)
    <3>2. /\ program[After(n + 1)] = Entry("loop", "loop", n + 1)
          /\ program[After(n) + V + 2] = Entry("barrier", "barrier", 0)
      BY StepPlaces
    <3>. QED
      BY <3>1, <3>2 DEF Goal, Entry
  <2>. QED
    BY <2>1, <2>2, <2>3, <2>4
<1>5. ASSUME NEW j \in 0 .. Asked(setup) - 1, NEW i \in 1 .. 3, p = End + (3 * j) + i
      PROVE  Goal
  <2>. DEFINE b == End + (3 * j)
  <2>0. /\ program[b + 1].op = "bcast" /\ program[b + 2].op = "bcast"
        /\ program[b + 2].what = "type" /\ program[b + 3].op \in {"probe", "gather"}
    <3>1. program[b + 1].op = "bcast"
      BY TriplePlaces DEF Entry
    <3>2. PICK t \in TimingsOf(setup) \cup StoredOf(setup) :
            /\ program[b + 2] = Entry("bcast", "type", t)
            /\ \/ program[b + 3] = Entry("probe", "probe", t)
               \/ program[b + 3] = Entry("gather", "gather", t)
      BY TriplePlaces
    <3>. QED
      BY <3>1, <3>2 DEF Entry
  <2>1. CASE i = 1
    BY <1>2, <1>5, <2>0, <2>1
  <2>2. CASE i = 2
    BY <1>2, <1>5, <2>0, <2>2
  <2>3. CASE i = 3
    <3>1. /\ p - 1 = End + (3 * j) + 2 /\ p - 1 \in 1 .. Len(program)
          /\ p > End + 1 /\ p < Len(program)
      <4>1. End \in Nat /\ Asked(setup) \in Nat /\ Len(program) = End + (3 * Asked(setup)) + 1
        BY Layout
      <4>. QED
        BY <4>1, <1>5, <2>3
    <3>2. program[p - 1].op = "bcast" /\ program[p - 1].what = "type"
      BY <2>0, <3>1
    <3>3. program[p].op \in {"gather", "probe"}
      BY <1>5, <2>0, <2>3
    <3>. QED
      BY <3>1, <3>2, <3>3 DEF Goal
  <2>. QED
    BY <2>1, <2>2, <2>3
<1>6. CASE p = Len(program)
  BY <1>2, <1>6, LastPlace DEF Entry
<1>. QED
  BY <1>3, <1>4, <1>5, <1>6, ProgramParts

\* What follows a collective call.
LEMMA CallAfter ==
  ASSUME Types, NEW p \in 1 .. Len(program)
  PROVE  \/ CollectiveAfter(p) = p + 1
         \/ /\ CollectiveAfter(p) = p + 2 /\ p + 1 \in 1 .. Len(program)
            /\ program[p + 1].op \in {"loop", "probe"}
<1>1. Len(program) \in Nat
  BY Layout
<1>2. CASE p < Len(program) /\ ~Collective(program[p + 1])
  <2>1. p + 1 \in 1 .. Len(program) /\ CollectiveAfter(p) = p + 2
    BY <1>1, <1>2 DEF CollectiveAfter
  <2>2. program[p + 1].op \in Ops
    BY <2>1, CallBehind
  <2>. QED
    BY <1>2, <2>1, <2>2 DEF Collective, Ops
<1>3. CASE ~(p < Len(program) /\ ~Collective(program[p + 1]))
  BY <1>3 DEF CollectiveAfter
<1>. QED
  BY <1>2, <1>3

\* What is next to the place of a worker.
LEMMA PlaceBehind ==
  ASSUME Types, Places, NEW w \in Worker
  PROVE  /\ wpc[w] \in {"loop", "post"} =>
              /\ at[w] - 1 \in 1 .. Len(program) /\ program[at[w] - 1].op = "loop"
              /\ at[w] <= End + 1
         /\ wpc[w] = "barrier" =>
              \/ at[w] = 1 /\ CollectiveAfter(at[w]) = at[w] + 1
              \/ /\ at[w] # 1 /\ CollectiveAfter(at[w]) = at[w] + 2
                 /\ at[w] + 1 \in 1 .. Len(program) /\ program[at[w] + 1].op = "loop"
         /\ wpc[w] \in {"split", "gather"} => CollectiveAfter(at[w]) = at[w] + 1
         /\ wpc[w] \in {"reduce", "reduced", "send"} =>
              /\ at[w] - 1 \in 1 .. Len(program)
              /\ program[at[w] - 1] = Entry("probe", "probe", asked[w])
              /\ asked[w] \in StoredOf(setup) /\ iteration[w] = T
<1>. DEFINE a == at[w]
            m == iteration[w]
            L == Len(program)
<1>1. Place(w) /\ a \in 1 .. L + 1 /\ m \in 0 .. T
  BY DEF Places, Types
<1>2. /\ T \in Nat /\ V \in {0, 2} /\ Asked(setup) \in Nat /\ End \in Nat
      /\ L = End + (3 * Asked(setup)) + 1
      /\ \A n \in 0 .. T : After(n) \in Nat /\ After(n) <= End
      /\ \A n \in 0 .. T - 1 : After(n + 1) = After(n) + V + 3
  BY Layout
<1>0. T \in Nat /\ m \in 0 .. T
  BY <1>1, <1>2
<1>3. ASSUME wpc[w] \in {"loop", "post"}
      PROVE  a - 1 \in 1 .. L /\ program[a - 1].op = "loop" /\ a <= End + 1
  <2>1. m > 0 /\ a = After(m) + 1
    BY <1>1, <1>3 DEF Place
  <2>2. m - 1 \in 0 .. T - 1 /\ m - 1 \in 0 .. T /\ (m - 1) + 1 = m
    BY <1>0, <2>1
  <2>3. After(m) = After(m - 1) + V + 3
    BY <1>2, <2>2
  <2>4. After(m - 1) \in Nat /\ After(m) \in Nat /\ After(m) <= End
    BY <1>1, <1>2, <2>2
  <2>5. program[After(m)] = Entry("loop", "loop", (m - 1) + 1)
    <3>1. program[After((m - 1) + 1)] = Entry("loop", "loop", (m - 1) + 1)
      BY <2>2, StepPlaces
    <3>. QED
      BY <2>2, <3>1
  <2>6. a - 1 = After(m) /\ a - 1 \in 1 .. L /\ a <= End + 1
    BY <1>2, <2>1, <2>3, <2>4, SMTT(30)
  <2>. QED
    BY <2>5, <2>6 DEF Entry
<1>4. ASSUME wpc[w] = "barrier"
      PROVE  \/ a = 1 /\ CollectiveAfter(a) = a + 1
             \/ /\ a # 1 /\ CollectiveAfter(a) = a + 2
                /\ a + 1 \in 1 .. L /\ program[a + 1].op = "loop"
  <2>1. CASE a = 1
    BY <2>1, StartUpPlaces
  <2>2. CASE InStep(w, V + 2)
    <3>1. m < T /\ a = After(m) + (V + 2)
      BY <2>2 DEF InStep
    <3>2. m \in 0 .. T - 1 /\ m + 1 \in 0 .. T
      BY <1>0, <3>1
    <3>3. /\ After(m) \in Nat /\ After(m + 1) = After(m) + V + 3 /\ After(m + 1) <= End
      BY <1>1, <1>2, <3>2
    <3>4. /\ CollectiveAfter(After(m) + V + 2) = After(m + 1) + 1
          /\ program[After(m + 1)] = Entry("loop", "loop", m + 1)
      BY <3>2, StepPlaces
    <3>5. /\ a = After(m) + V + 2 /\ a # 1 /\ a + 1 = After(m + 1) /\ a + 1 \in 1 .. L
          /\ After(m + 1) + 1 = a + 2
      BY <1>2, <3>1, <3>3, SMTT(30)
    <3>. QED
      BY <3>4, <3>5 DEF Entry
  <2>. QED
    BY <1>1, <1>4, <2>1, <2>2 DEF Place
<1>5. wpc[w] = "split" => CollectiveAfter(a) = a + 1
  <2>. SUFFICES ASSUME wpc[w] = "split" PROVE CollectiveAfter(a) = a + 1
    OBVIOUS
  <2>1. a = (2 * NSpecies) + 5 /\ Shared(setup) /\ NSpecies \in Nat
    BY <1>1, Layout DEF Place, StartUpPlace
  <2>2. CollectiveAfter((2 * NSpecies) + 5) = (2 * NSpecies) + 6
    BY <2>1, StartUpPlaces
  <2>. QED
    BY <2>1, <2>2
<1>6. wpc[w] = "gather" => CollectiveAfter(a) = a + 1
  <2>. SUFFICES ASSUME wpc[w] = "gather" PROVE CollectiveAfter(a) = a + 1
    OBVIOUS
  <2>1. a \in 1 .. L
    BY PlaceCall DEF CallsOfWorker
  <2>2. PICK j \in 0 .. Asked(setup) - 1 : a = End + (3 * j) + 3
    BY <1>1 DEF Place, InTriple
  <2>3. a + 1 = End + (3 * (j + 1)) + 1 /\ j + 1 \in 0 .. Asked(setup) /\ a + 1 <= L
    BY <1>2, <2>2
  <2>4. PICK c : program[a + 1] = Entry("bcast", "command", c)
    BY <2>3, TripleStart
  <2>5. program[a + 1].op = "bcast"
    BY <2>4 DEF Entry
  <2>. QED
    BY <2>1, <2>5, CallAfter
<1>7. ASSUME wpc[w] \in {"reduce", "reduced", "send"}
      PROVE  /\ a - 1 \in 1 .. L /\ program[a - 1] = Entry("probe", "probe", asked[w])
             /\ asked[w] \in StoredOf(setup) /\ m = T
  <2>1. /\ program[a - 1] = Entry("probe", "probe", asked[w])
        /\ asked[w] \in StoredOf(setup) /\ m = T
    BY <1>1, <1>7 DEF Place, InTriple
  <2>2. PICK j \in 0 .. Asked(setup) - 1 : a = End + (3 * j) + 4
    BY <1>1, <1>7 DEF Place, InTriple
  <2>3. a - 1 \in 1 .. L
    BY <1>2, <2>2
  <2>. QED
    BY <2>1, <2>3
<1>. QED
  BY <1>3, <1>4, <1>5, <1>6, <1>7
----------------------------------------------------------------------------
(* Master and workers stay together                                        *)

LEMMA Positions ==
  ASSUME Types
  PROVE  /\ mpos \in Nat /\ mpos >= 1 /\ Len(program) \in Nat /\ mpos <= Len(program) + 1
         /\ \A w \in Worker : at[w] \in Nat /\ at[w] >= 1 /\ at[w] <= Len(program) + 1
<1>1. Len(program) \in Nat
  BY Layout
<1>. QED
  BY <1>1 DEF Types

\* Workers move on while the master stays where it is.
LEMMA WorkersMove ==
  ASSUME Types, Synchronous, UNCHANGED <<setup, program, mpos>>,
         \A u \in Worker :
           \/ /\ at'[u] = at[u]
              /\ ended'[u] <=> wpc'[u] = "loop" /\ at[u] <= mpos
              /\ wpc[u] = "loop" => wpc'[u] = "loop" \/ at[u] <= mpos
           \/ /\ at'[u] > at[u] /\ at'[u] \in Int /\ ~ended'[u] /\ wpc'[u] # "loop"
              /\ \/ at'[u] <= mpos
                 \/ Running /\ at'[u] = mpos + 1 /\ Current.op \in {"gather", "probe"}
  PROVE  Synchronous'
<1>1. ASSUME NEW u \in Worker
      PROVE  /\ \/ at'[u] <= mpos
                \/ Running /\ at'[u] = mpos + 1 /\ Current.op \in {"gather", "loop", "probe"}
             /\ ended'[u] <=> wpc'[u] = "loop" /\ at'[u] <= mpos
             /\ Running /\ Current.op = "loop" /\ at'[u] = mpos + 1 => wpc'[u] = "loop"
             /\ at'[u] >= at[u] /\ at'[u] \in Int
  <2>1. at[u] \in Nat /\ mpos \in Nat
    BY Positions
  <2>2. /\ \/ at[u] <= mpos
           \/ Running /\ at[u] = mpos + 1 /\ Current.op \in {"gather", "loop", "probe"}
        /\ Running /\ Current.op = "loop" /\ at[u] = mpos + 1 => wpc[u] = "loop"
    BY DEF Synchronous
  <2>3. CASE at'[u] = at[u]
    <3>1. /\ ended'[u] <=> wpc'[u] = "loop" /\ at[u] <= mpos
          /\ wpc[u] = "loop" => wpc'[u] = "loop" \/ at[u] <= mpos
      BY <2>1, <2>3
    <3>. QED
      BY <2>1, <2>2, <2>3, <3>1
  <2>4. CASE at'[u] # at[u]
    <3>1. /\ at'[u] > at[u] /\ at'[u] \in Int /\ ~ended'[u] /\ wpc'[u] # "loop"
          /\ \/ at'[u] <= mpos
             \/ Running /\ at'[u] = mpos + 1 /\ Current.op \in {"gather", "probe"}
      BY <2>4
    <3>. QED
      BY <2>1, <3>1
  <2>. QED
    BY <2>3, <2>4
<1>2. ASSUME NEW q \in 1 .. mpos - 1, program[q].op # "bcast", NEW u \in Worker
      PROVE  at'[u] > q
  <2>1. at[u] > q
    BY <1>2 DEF Synchronous
  <2>2. at[u] \in Nat /\ q \in Int /\ mpos \in Nat
    BY Positions
  <2>. QED
    BY <1>1, <2>1, <2>2
<1>. QED
  BY <1>1, <1>2 DEF Synchronous, Running, Current, Worker

\* The master goes on, which all workers have done in a call that is not a
\* broadcast.
LEMMA MasterMoves ==
  ASSUME Types, Synchronous, UNCHANGED <<setup, program>>, mpos' = mpos + 1, Running,
         Current.op # "bcast" => \A u \in Worker : at'[u] > mpos,
         \A u \in Worker :
           /\ at'[u] \in Int /\ at'[u] >= at[u]
           /\ ended'[u] <=> wpc'[u] = "loop" /\ at'[u] <= mpos + 1
           /\ \/ at'[u] <= mpos + 1
              \/ /\ mpos + 1 <= Len(program) /\ at'[u] = mpos + 2 /\ wpc'[u] = "loop"
                 /\ program[mpos + 1].op = "loop"
  PROVE  Synchronous'
<1>1. mpos \in Nat /\ mpos >= 1 /\ Len(program) \in Nat /\ mpos <= Len(program)
  BY Positions DEF Running
<1>2. ASSUME NEW q \in 1 .. mpos, program[q].op # "bcast", NEW u \in Worker
      PROVE  at'[u] > q
  <2>1. CASE q = mpos
    BY <1>1, <1>2, <2>1 DEF Current
  <2>2. CASE q # mpos
    <3>1. q \in 1 .. mpos - 1
      BY <1>1, <2>2
    <3>2. at[u] > q
      BY <1>2, <3>1 DEF Synchronous
    <3>3. at[u] \in Nat /\ q \in Int
      BY <1>1, Positions
    <3>. QED
      BY <3>2, <3>3
  <2>. QED
    BY <2>1, <2>2
<1>3. ASSUME NEW u \in Worker
      PROVE  /\ \/ at'[u] <= mpos'
                \/ Running' /\ at'[u] = mpos' + 1 /\ Current'.op \in {"gather", "loop", "probe"}
             /\ ended'[u] <=> wpc'[u] = "loop" /\ at'[u] <= mpos'
             /\ Running' /\ Current'.op = "loop" /\ at'[u] = mpos' + 1 => wpc'[u] = "loop"
  <2>1. (mpos + 1) + 1 = mpos + 2 /\ ~(mpos + 2 <= mpos + 1)
    BY <1>1
  <2>2. Running' <=> mpos + 1 <= Len(program)
    BY DEF Running
  <2>3. Current' = program[mpos + 1]
    BY DEF Current
  <2>. QED
    BY <1>1, <2>1, <2>2, <2>3
<1>4. 1 .. mpos' - 1 = 1 .. mpos
  BY <1>1
<1>. QED
  BY <1>2, <1>3, <1>4 DEF Synchronous, Worker

\* A worker in a call that is not a broadcast, and not ahead, is where the master is.
LEMMA NotLeft ==
  ASSUME Types, Places, Synchronous, NEW w \in Worker, wpc[w] \in {"barrier", "split", "gather"}
  PROVE  Running /\ at[w] = mpos /\ Current.op = wpc[w]
<1>1. at[w] \in 1 .. Len(program) /\ program[at[w]].op = wpc[w]
  BY PlaceCall DEF CallsOfWorker
<1>2. mpos \in Nat /\ Len(program) \in Nat
  BY Positions
<1>3. ~(at[w] < mpos)
  <2>. SUFFICES ASSUME at[w] < mpos PROVE FALSE
    OBVIOUS
  <2>1. at[w] \in 1 .. mpos - 1
    BY <1>1, <1>2
  <2>2. at[w] > at[w]
    BY <1>1, <2>1 DEF Synchronous
  <2>. QED
    BY <1>1, <2>2
<1>4. ~(Running /\ at[w] = mpos + 1 /\ Current.op \in {"gather", "loop", "probe"})
  <2>. SUFFICES ASSUME Running, at[w] = mpos + 1, Current.op \in {"gather", "loop", "probe"}
                PROVE FALSE
    OBVIOUS
  <2>1. at[w] - 1 = mpos
    BY <1>2
  <2>2. at[w] # 1 /\ program[at[w] - 1].op # "bcast"
    BY <1>2, <2>1, Positions DEF Current
  <2>. QED
    BY <1>1, <2>2, CallBehind
<1>5. at[w] = mpos
  <2>1. at[w] <= mpos
    BY <1>4 DEF Synchronous
  <2>. QED
    BY <1>1, <1>2, <1>3, <2>1
<1>. QED
  BY <1>1, <1>2, <1>5 DEF Running, Current

\* A worker is not in the loop in front of a call that is not a loop.
LEMMA InLoopBehind ==
  ASSUME Types, Places, NEW w \in Worker, Running, Current.op # "loop", at[w] = mpos + 1
  PROVE  wpc[w] \notin {"loop", "post"}
<1>1. at[w] - 1 = mpos
  BY Positions
<1>. QED
  BY <1>1, PlaceBehind DEF Current

LEMMA MasterSync ==
  ASSUME Types, Places, Synchronous, Reductions, MasterStep
  PROVE  Synchronous'
<1>1. /\ Running /\ mpos' = mpos + 1
      /\ UNCHANGED <<setup, program, wpc, at>>
      /\ ~MasterLoop => UNCHANGED ended
      /\ MasterLoop => ended' = [w \in Worker |-> TRUE]
  BY DEF MasterStep, MasterBcast, MasterGather, MasterLoop, MasterProbe
<1>2. mpos \in Nat /\ \A u \in Worker : at[u] \in Nat
  BY Positions
<1>3. mpos \in 1 .. Len(program)
  BY <1>1, Positions DEF Running
<1>4. ASSUME NEW u \in Worker, Current.op # "bcast"
      PROVE  at[u] = mpos + 1
  <2>1. CASE MasterGather
    BY <1>2, <2>1 DEF MasterGather, Synchronous
  <2>2. CASE MasterLoop
    <3>1. mpos - 1 \in 1 .. Len(program) /\ program[mpos - 1].op = "barrier"
      BY <1>3, <2>2, CallBehind DEF MasterLoop, Current
    <3>2. mpos - 1 \in 1 .. mpos - 1
      BY <1>2, <3>1
    <3>3. at[u] > mpos - 1
      BY <3>1, <3>2 DEF Synchronous
    <3>4. at[u] # mpos
      <4>. SUFFICES ASSUME at[u] = mpos PROVE FALSE
        OBVIOUS
      <4>1. program[at[u]].op = "loop" /\ at[u] # Len(program) + 1
        BY <1>3, <2>2, Layout DEF MasterLoop, Current
      <4>2. wpc[u] \in Pcs
        BY DEF Types
      <4>. QED
        BY <4>1, <4>2, PlaceCall DEF Pcs
    <3>. QED
      BY <1>2, <3>3, <3>4 DEF Synchronous
  <2>3. CASE MasterProbe
    BY <2>3 DEF MasterProbe, Reductions, Contributed
  <2>4. ~MasterBcast
    BY <1>4 DEF MasterBcast
  <2>. QED
    BY <2>1, <2>2, <2>3, <2>4 DEF MasterStep
<1>5. ASSUME NEW u \in Worker
      PROVE  /\ at[u] <= mpos + 1
             /\ ended'[u] <=> wpc[u] = "loop" /\ at[u] <= mpos + 1
  <2>1. at[u] <= mpos + 1
    BY <1>2 DEF Synchronous
  <2>2. ended[u] <=> wpc[u] = "loop" /\ at[u] <= mpos
    BY DEF Synchronous
  <2>3. CASE Current.op = "bcast"
    <3>1. at[u] <= mpos /\ ~MasterLoop
      BY <1>2, <2>3 DEF Synchronous, MasterLoop
    <3>. QED
      BY <1>1, <2>1, <2>2, <3>1
  <2>4. CASE MasterLoop
    <3>1. wpc[u] = "loop" /\ at[u] = mpos + 1
      BY <1>1, <1>4, <2>4 DEF Synchronous, MasterLoop
    <3>. QED
      BY <1>1, <2>1, <2>4, <3>1
  <2>5. CASE Current.op # "bcast" /\ ~MasterLoop
    <3>1. Current.op # "loop"
      BY <2>5 DEF MasterStep, MasterBcast, MasterGather, MasterProbe
    <3>2. wpc[u] # "loop" /\ at[u] = mpos + 1
      BY <1>1, <1>4, <2>5, <3>1, InLoopBehind
    <3>. QED
      BY <1>1, <2>1, <2>2, <2>5, <3>2
  <2>. QED
    BY <2>3, <2>4, <2>5
<1>6. Current.op # "bcast" => \A u \in Worker : at'[u] > mpos
  BY <1>1, <1>2, <1>4
<1>7. \A u \in Worker : at'[u] \in Int /\ at'[u] >= at[u]
  BY <1>1, <1>2
<1>. QED
  BY <1>1, <1>5, <1>6, <1>7, MasterMoves

LEMMA TogetherSync ==
  ASSUME Types, Places, Synchronous, Barrier \/ Split
  PROVE  /\ Synchronous'
         /\ \A u \in Worker :
              /\ at[u] = mpos
              /\ at'[u] = mpos' \/ (Running' /\ Current'.op = "loop" /\ at'[u] = mpos' + 1)
<1>1. /\ Running /\ mpos' = mpos + 1 /\ Current.op # "bcast"
      /\ UNCHANGED <<setup, program, ended>>
      /\ at' = [w \in Worker |-> CollectiveAfter(at[w])]
  BY DEF Barrier, Split
<1>2. mpos \in Nat /\ mpos >= 1
  BY Positions
<1>3. ASSUME NEW u \in Worker
      PROVE  /\ at[u] = mpos /\ ~ended[u]
             /\ \/ at'[u] = mpos + 1 /\ wpc'[u] # "loop"
                \/ /\ at'[u] = mpos + 2 /\ wpc'[u] = "loop" /\ mpos + 1 \in 1 .. Len(program)
                   /\ program[mpos + 1].op = "loop"
  <2>1. wpc[u] \in {"barrier", "split"}
    BY DEF Barrier, Split
  <2>2. at[u] = mpos /\ ~ended[u]
    BY <2>1, NotLeft DEF Synchronous
  <2>3. CASE Barrier
    <3>1. wpc[u] = "barrier" /\ wpc'[u] = IF mpos = 1 THEN "n_elements" ELSE "loop"
      BY <2>2, <2>3 DEF Barrier
    <3>. QED
      BY <1>1, <2>2, <3>1, PlaceBehind
  <2>4. CASE Split
    <3>1. wpc[u] = "split" /\ wpc'[u] = "command"
      BY <2>4 DEF Split
    <3>. QED
      BY <1>1, <2>2, <3>1, PlaceBehind
  <2>. QED
    BY <2>3, <2>4
<1>4. ASSUME NEW u \in Worker
      PROVE  /\ at'[u] \in Int /\ at'[u] >= at[u] /\ at'[u] > mpos
             /\ ended'[u] <=> wpc'[u] = "loop" /\ at'[u] <= mpos + 1
             /\ \/ at'[u] <= mpos + 1
                \/ /\ mpos + 1 <= Len(program) /\ at'[u] = mpos + 2 /\ wpc'[u] = "loop"
                   /\ program[mpos + 1].op = "loop"
  <2>1. ~ended'[u]
    BY <1>1, <1>3
  <2>2. Len(program) \in Nat
    BY Positions
  <2>. QED
    BY <1>2, <1>3, <2>1, <2>2
<1>5. Synchronous'
  BY <1>1, <1>4, MasterMoves
<1>6. ASSUME NEW u \in Worker
      PROVE  at'[u] = mpos' \/ (Running' /\ Current'.op = "loop" /\ at'[u] = mpos' + 1)
  <2>1. CASE at'[u] = mpos + 1
    BY <1>1, <2>1
  <2>2. CASE at'[u] = mpos + 2 /\ mpos + 1 \in 1 .. Len(program) /\ program[mpos + 1].op = "loop"
    <3>1. at'[u] = mpos' + 1 /\ mpos' <= Len(program)
      BY <1>1, <1>2, <2>2, Positions
    <3>. QED
      BY <1>1, <2>2, <3>1 DEF Running, Current
  <2>. QED
    BY <1>3, <2>1, <2>2
<1>. QED
  BY <1>3, <1>5, <1>6

\* A worker receives a broadcast.  Only the type of a metric brings it in front of
\* the master.
LEMMA ReceiveSync ==
  ASSUME Types, Places, Synchronous, NEW w \in Worker, NEW what \in CallsOfWorker,
         what \notin {"barrier", "split", "gather"}, Receives(w, what),
         NEW pc, pc # "loop", GoesTo(w, pc), UNCHANGED <<setup, program, mpos, ended>>
  PROVE  /\ Synchronous'
         /\ at'[w] > at[w] /\ at[w] < mpos
         /\ \/ at'[w] <= mpos
            \/ Probing /\ at'[w] = mpos + 1 /\ what = "type"
<1>1. /\ at[w] \in 1 .. Len(program) /\ program[at[w]].op = "bcast" /\ program[at[w]].what = what
      /\ wpc[w] = what /\ at[w] < mpos
  BY PlaceCall DEF Receives
<1>2. /\ mpos \in Nat /\ Len(program) \in Nat /\ mpos <= Len(program) + 1
  BY Positions
<1>3. at'[w] = CollectiveAfter(at[w]) /\ \A u \in Worker \ {w} : at'[u] = at[u]
  BY ReceivesAt
<1>4. \/ at'[w] <= mpos
      \/ Probing /\ at'[w] = mpos + 1 /\ what = "type"
  <2>1. CASE at'[w] = at[w] + 1
    BY <1>1, <1>2, <2>1
  <2>2. CASE /\ at'[w] = at[w] + 2 /\ at[w] + 1 \in 1 .. Len(program)
             /\ program[at[w] + 1].op \in {"loop", "probe"}
    <3>1. (at[w] + 1) - 1 = at[w]
      BY <1>1, <1>2
    <3>2. program[at[w] + 1].op = "probe" /\ what = "type"
      BY <1>1, <2>2, <3>1, CallBehind
    <3>3. CASE at[w] + 1 = mpos
      <4>1. Running /\ Current.op = "probe" /\ at'[w] = mpos + 1
        BY <1>1, <1>2, <2>2, <3>2, <3>3 DEF Running, Current
      <4>. QED
        BY <3>2, <4>1 DEF Probing
    <3>4. CASE at[w] + 1 # mpos
      BY <1>1, <1>2, <2>2, <3>4
    <3>. QED
      BY <3>3, <3>4
  <2>. QED
    BY <1>1, <1>3, <2>1, <2>2, CallAfter
<1>5. at'[w] > at[w] /\ at'[w] \in Int
  BY <1>1, <1>3, CallAfter
<1>6. wpc'[w] = pc /\ \A u \in Worker \ {w} : wpc'[u] = wpc[u]
  BY DEF GoesTo, Types
<1>7. ASSUME NEW u \in Worker
      PROVE  \/ /\ at'[u] = at[u]
                /\ ended'[u] <=> wpc'[u] = "loop" /\ at[u] <= mpos
                /\ wpc[u] = "loop" => wpc'[u] = "loop" \/ at[u] <= mpos
             \/ /\ at'[u] > at[u] /\ at'[u] \in Int /\ ~ended'[u] /\ wpc'[u] # "loop"
                /\ \/ at'[u] <= mpos
                   \/ Running /\ at'[u] = mpos + 1 /\ Current.op \in {"gather", "probe"}
  <2>1. ended[u] <=> wpc[u] = "loop" /\ at[u] <= mpos
    BY DEF Synchronous
  <2>2. CASE u = w
    <3>1. ~ended'[u] /\ wpc'[u] # "loop"
      BY <1>1, <1>6, <2>1, <2>2 DEF CallsOfWorker
    <3>. QED
      BY <1>4, <1>5, <2>2, <3>1 DEF Probing
  <2>3. CASE u # w
    BY <1>3, <1>6, <2>1, <2>3
  <2>. QED
    BY <2>2, <2>3
<1>8. Synchronous'
  BY <1>7, WorkersMove
<1>. QED
  BY <1>1, <1>4, <1>5, <1>8

LEMMA StaySync ==
  ASSUME Types, Synchronous, UNCHANGED <<setup, program, mpos, at>>,
         \A u \in Worker :
           \/ ended'[u] = ended[u] /\ wpc'[u] = wpc[u]
           \/ ended'[u] = ended[u] /\ wpc[u] # "loop" /\ wpc'[u] # "loop"
           \/ ended[u] /\ ~ended'[u] /\ wpc'[u] # "loop"
  PROVE  Synchronous'
<1>1. ASSUME NEW u \in Worker
      PROVE  /\ at'[u] = at[u]
             /\ ended'[u] <=> wpc'[u] = "loop" /\ at[u] <= mpos
             /\ wpc[u] = "loop" => wpc'[u] = "loop" \/ at[u] <= mpos
  <2>1. ended[u] <=> wpc[u] = "loop" /\ at[u] <= mpos
    BY DEF Synchronous
  <2>. QED
    BY <2>1
<1>. QED
  BY <1>1, WorkersMove

LEMMA GatherSync ==
  ASSUME Types, Places, Synchronous, NEW w \in Worker, PerfToMaster(w)
  PROVE  /\ Synchronous'
         /\ Running /\ Current.op = "gather" /\ at'[w] > at[w]
         /\ \A u \in Worker \ {w} : at'[u] = at[u] /\ wpc'[u] = wpc[u]
         /\ wpc'[w] = "command"
<1>1. Running /\ at[w] = mpos /\ Current.op = "gather" /\ wpc[w] = "gather"
  BY NotLeft DEF PerfToMaster
<1>2. asked[w] \in Timings
  BY <1>1 DEF Places, Place, TimingsOf, Timings, WORKER_PHREEQC, WORKER_IDLE, WORKER_IP_FC
<1>3. mpos \in Nat
  BY Positions
<1>4. /\ at'[w] = mpos + 1 /\ \A u \in Worker \ {w} : at'[u] = at[u]
      /\ wpc'[w] = "command" /\ \A u \in Worker \ {w} : wpc'[u] = wpc[u]
      /\ UNCHANGED <<setup, program, mpos, ended>>
  BY <1>1, <1>2, PlaceBehind DEF PerfToMaster, GoesTo, Types
<1>5. ASSUME NEW u \in Worker
      PROVE  \/ /\ at'[u] = at[u]
                /\ ended'[u] <=> wpc'[u] = "loop" /\ at[u] <= mpos
                /\ wpc[u] = "loop" => wpc'[u] = "loop" \/ at[u] <= mpos
             \/ /\ at'[u] > at[u] /\ at'[u] \in Int /\ ~ended'[u] /\ wpc'[u] # "loop"
                /\ \/ at'[u] <= mpos
                   \/ Running /\ at'[u] = mpos + 1 /\ Current.op \in {"gather", "probe"}
  <2>1. ended[u] <=> wpc[u] = "loop" /\ at[u] <= mpos
    BY DEF Synchronous
  <2>2. CASE u = w
    BY <1>1, <1>3, <1>4, <2>1, <2>2
  <2>3. CASE u # w
    BY <1>4, <2>1, <2>3
  <2>. QED
    BY <2>2, <2>3
<1>. QED
  BY <1>1, <1>3, <1>4, <1>5, WorkersMove
----------------------------------------------------------------------------
(* The reductions                                                          *)

LEMMA RootIsWorker == Root \in Worker
  BY CommandsAssumption DEF CommandsAssumption, Root, Worker

\* A step that leaves the reduction under way as it is.
LEMMA ReductionsKept ==
  ASSUME Reductions, UNCHANGED <<program, mpos, reduce, mail>>,
         Summed' <=> Summed,
         Summed => happened' = happened,
         \A u \in Worker :
           /\ Contributed(u)' <=> Contributed(u)
           /\ Contributed(u) => series'[u] = series[u]
           /\ wpc'[u] \in {"reduce", "reduced"} => Probing /\ at'[u] = mpos + 1
  PROVE  Reductions'
<1>1. Current' = Current /\ (Probing' <=> Probing) /\ mpos' = mpos
  BY DEF Current, Probing, Running
<1>2. ASSUME NEW u \in Worker
      PROVE  /\ reduce'[u] = IF Contributed(u)' /\ ~Summed'
                             THEN <<series'[u][Current'.value]>> ELSE <<>>
             /\ Summed' => Contributed(u)'
             /\ wpc'[u] \in {"reduce", "reduced"} => Probing' /\ at'[u] = mpos' + 1
  BY <1>1 DEF Reductions
<1>3. mail' = IF Summed'
              THEN <<[tag |-> Current'.value, sums |-> happened'[Current'.value]]>>
              ELSE <<>>
  BY <1>1 DEF Reductions
<1>. QED
  BY <1>2, <1>3 DEF Reductions, Worker

\* No reduction is under way.
LEMMA ReductionsNone ==
  ASSUME mail' = <<>>,
         \A u \in Worker :
           /\ reduce'[u] = <<>>
           /\ ~(Probing' /\ at'[u] = mpos' + 1)
           /\ wpc'[u] \notin {"reduce", "reduced"}
  PROVE  Reductions'
<1>1. \A u \in Worker : ~Contributed(u)'
  BY DEF Contributed
<1>2. ~Summed'
  BY RootIsWorker DEF Summed
<1>. QED
  BY <1>1, <1>2 DEF Reductions, Worker

LEMMA MasterReductions ==
  ASSUME Types, Places, Synchronous, Reductions, MasterStep
  PROVE  Reductions'
<1>1. /\ mpos' = mpos + 1
      /\ UNCHANGED <<setup, program, wpc, at, reduce>>
      /\ ~MasterProbe => mail' = mail /\ ~Probing
      /\ MasterProbe => mail # <<>> /\ mail' = Tail(mail)
  BY DEF MasterStep, MasterBcast, MasterGather, MasterLoop, MasterProbe, Probing
<1>2. ASSUME NEW u \in Worker
      PROVE  ~(Probing' /\ at'[u] = mpos' + 1)
  <2>1. mpos \in Nat /\ at[u] \in Nat
    BY Positions
  <2>2. at[u] <= mpos + 1
    BY <2>1 DEF Synchronous
  <2>. QED
    BY <1>1, <2>1, <2>2
<1>3. CASE ~MasterProbe
  BY <1>1, <1>2, <1>3, ReductionsNone DEF Reductions, Contributed, Summed
<1>4. CASE MasterProbe
  <2>1. Summed
    BY <1>1, <1>4 DEF Reductions
  <2>2. mail' = <<>>
    BY <1>1, <1>4, <2>1 DEF Reductions
  <2>3. ASSUME NEW u \in Worker
        PROVE  reduce[u] = <<>> /\ wpc[u] \notin {"reduce", "reduced"}
    <3>1. reduce[u] = <<>> /\ Contributed(u)
      BY <2>1 DEF Reductions
    <3>2. wpc[u] = "reduced" => u = Root
      BY DEF Places, Place
    <3>. QED
      BY <2>1, <3>1, <3>2 DEF Contributed, Summed
  <2>. QED
    BY <1>1, <1>2, <2>2, <2>3, ReductionsNone
<1>. QED
  BY <1>3, <1>4

LEMMA TogetherReductions ==
  ASSUME Types, Places, Synchronous, Reductions, Barrier \/ Split
  PROVE  Reductions'
<1>1. /\ UNCHANGED <<reduce, mail>> /\ ~Probing
      /\ \A u \in Worker : wpc'[u] \in {"n_elements", "loop", "command"}
  BY DEF Barrier, Split, Probing
<1>2. ASSUME NEW u \in Worker
      PROVE  ~(Probing' /\ at'[u] = mpos' + 1)
  <2>1. at'[u] = mpos' \/ (Running' /\ Current'.op = "loop" /\ at'[u] = mpos' + 1)
    BY TogetherSync
  <2>2. mpos' # mpos' + 1
    BY Positions DEF Barrier, Split
  <2>. QED
    BY <2>1, <2>2 DEF Probing
<1>. QED
  BY <1>1, <1>2, ReductionsNone DEF Reductions, Contributed, Summed

LEMMA ReceiveReductions ==
  ASSUME Types, Places, Synchronous, Reductions, Places', NEW w \in Worker, NEW what \in CallsOfWorker,
         what \notin {"barrier", "split", "gather"}, Receives(w, what),
         NEW pc, pc \notin {"loop", "reduced"}, what # "type" => pc # "reduce",
         what = "type" => pc \in {"gather", "reduce"},
         GoesTo(w, pc), UNCHANGED <<setup, program, mpos, ended, reduce, mail, series, happened>>
  PROVE  Synchronous' /\ Reductions'
<1>1. /\ Synchronous' /\ at'[w] > at[w] /\ at[w] < mpos
      /\ \/ at'[w] <= mpos
         \/ Probing /\ at'[w] = mpos + 1 /\ what = "type"
  BY ReceiveSync
<1>2. /\ wpc'[w] = pc /\ wpc[w] = what
      /\ \A u \in Worker \ {w} : wpc'[u] = wpc[u] /\ at'[u] = at[u]
      /\ at' \in [Worker -> 1 .. Len(program) + 1]
  BY ReceivesAt DEF GoesTo, Types, Receives
<1>3. mpos \in Nat /\ at[w] \in Nat /\ Len(program) \in Nat
  BY Positions
<1>4. at'[w] \in Nat
  BY <1>2, <1>3
<1>5. Probing' <=> Probing
  BY DEF Probing, Running, Current
<1>6. pc = "reduce" => Probing /\ at'[w] = mpos + 1
  <2>. SUFFICES ASSUME pc = "reduce", at'[w] <= mpos PROVE FALSE
    BY <1>1
  <2>1. program[at'[w] - 1] = Entry("probe", "probe", asked'[w])
    BY <1>2 DEF Places, Place
  <2>2. at'[w] - 1 \in 1 .. mpos - 1
    BY <1>1, <1>3, <1>4, Positions
  <2>3. at[w] > at'[w] - 1
    BY <2>1, <2>2 DEF Synchronous, Entry
  <2>. QED
    BY <1>1, <1>3, <1>4, <2>3
<1>7. Probing /\ at'[w] = mpos + 1 => pc = "reduce"
  <2>. SUFFICES ASSUME Probing, at'[w] = mpos + 1, pc = "gather" PROVE FALSE
    BY <1>1, <1>3
  <2>1. program[at'[w]] = Entry("gather", "gather", asked'[w])
    BY <1>2 DEF Places, Place
  <2>2. at'[w] \in 1 .. Len(program) /\ at'[w] - 1 = mpos
    BY <1>3, Positions, CallBehind DEF Probing, Current, Running
  <2>3. program[mpos].op = "bcast"
    BY <2>1, <2>2, CallBehind DEF Entry
  <2>. QED
    BY <2>3 DEF Probing, Current
<1>8. ~Contributed(w) /\ ~Contributed(w)'
  BY <1>1, <1>2, <1>3, <1>5, <1>7 DEF Contributed
<1>9. \A u \in Worker \ {w} : Contributed(u)' <=> Contributed(u)
  BY <1>2, <1>5 DEF Contributed
<1>10. Summed' <=> Summed
  <2>1. CASE w = Root
    <3>1. ~Summed
      BY <1>8, <2>1 DEF Reductions
    <3>2. ~Summed'
      BY <1>2, <1>5, <1>7, <2>1 DEF Summed
    <3>. QED
      BY <3>1, <3>2
  <2>2. CASE w # Root
    BY <1>2, <1>5, <2>2, RootIsWorker DEF Summed
  <2>. QED
    BY <2>1, <2>2
<1>11. ASSUME NEW u \in Worker
       PROVE  wpc'[u] \in {"reduce", "reduced"} => Probing /\ at'[u] = mpos + 1
  BY <1>2, <1>6 DEF Reductions
<1>12. Reductions'
  BY <1>8, <1>9, <1>10, <1>11, ReductionsKept
<1>. QED
  BY <1>1, <1>12

LEMMA GatherReductions ==
  ASSUME Types, Places, Synchronous, Reductions, NEW w \in Worker, PerfToMaster(w)
  PROVE  Reductions'
<1>1. /\ ~Probing /\ UNCHANGED <<program, mpos, reduce, mail>>
      /\ wpc'[w] = "command" /\ \A u \in Worker \ {w} : wpc'[u] = wpc[u]
  BY GatherSync DEF Probing, PerfToMaster
<1>2. ~Probing'
  BY <1>1 DEF Probing, Running, Current
<1>3. \A u \in Worker : wpc'[u] \notin {"reduce", "reduced"}
  BY <1>1 DEF Reductions
<1>. QED
  BY <1>1, <1>2, <1>3, ReductionsNone DEF Reductions, Contributed, Summed

\* Workers that are in no reduction do something else.
LEMMA StayReductions ==
  ASSUME Reductions, UNCHANGED <<setup, program, mpos, at, reduce, mail>>,
         Summed => happened' = happened,
         \A u \in Worker :
           /\ Contributed(u) => series'[u] = series[u]
           /\ \/ wpc'[u] = wpc[u]
              \/ wpc[u] \notin {"reduce", "reduced"} /\ wpc'[u] \notin {"reduce", "reduced"}
  PROVE  Reductions'
<1>1. Probing' <=> Probing
  BY DEF Probing, Running, Current
<1>2. Summed' <=> Summed
  BY <1>1, RootIsWorker DEF Summed
<1>3. \A u \in Worker : Contributed(u)' <=> Contributed(u)
  BY <1>1 DEF Contributed
<1>4. \A u \in Worker : wpc'[u] \in {"reduce", "reduced"} => Probing /\ at'[u] = mpos + 1
  BY DEF Reductions
<1>. QED
  BY <1>2, <1>3, <1>4, ReductionsKept

\* A worker in the loop has contributed to nothing, and nothing has been summed.
LEMMA InLoopReductions ==
  ASSUME Types, Places, Reductions, NEW w \in Worker, InLoop(w)
  PROVE  ~Contributed(w) /\ ~Summed
<1>1. ~Contributed(w)
  BY InLoopBehind DEF InLoop, Contributed, Probing
<1>. QED
  BY <1>1 DEF Reductions

LEMMA ContributeReductions ==
  ASSUME Types, Places, Shapes, Synchronous, Reductions, NEW w \in Worker, MetricsToMaster(w)
  PROVE  Synchronous' /\ Reductions'
<1>1. /\ UNCHANGED <<setup, program, mpos, at, ended, series, mail, happened>>
      /\ wpc[w] = "reduce" /\ wpc'[w] = IF w = Root THEN "reduced" ELSE "command"
      /\ \A u \in Worker \ {w} : wpc'[u] = wpc[u]
  BY DEF MetricsToMaster, GoesTo, Types
<1>2. Synchronous'
  <2>1. ASSUME NEW u \in Worker
        PROVE  \/ wpc'[u] = wpc[u]
               \/ wpc[u] # "loop" /\ wpc'[u] # "loop"
    BY <1>1
  <2>. QED
    BY <1>1, <2>1, StaySync
<1>3. Probing /\ at[w] = mpos + 1
  BY <1>1 DEF Reductions
<1>4. Probing' /\ Current' = Current /\ mpos' = mpos
  BY <1>1, <1>3 DEF Probing, Running, Current
<1>5. ~Contributed(w) /\ Contributed(w)' /\ (\A u \in Worker \ {w} : Contributed(u)' <=> Contributed(u))
  BY <1>1, <1>3, <1>4 DEF Contributed
<1>6. ~Summed /\ ~Summed'
  <2>1. ~Summed
    BY <1>5 DEF Reductions
  <2>2. CASE w = Root
    BY <1>1, <2>1, <2>2 DEF Summed
  <2>3. CASE w # Root
    BY <1>1, <1>3, <1>4, <2>1, <2>3, RootIsWorker DEF Summed
  <2>. QED
    BY <2>1, <2>2, <2>3
<1>7. asked[w] = Current.value
  <2>1. program[at[w] - 1] = Entry("probe", "probe", asked[w])
    BY <1>1, PlaceBehind
  <2>2. at[w] - 1 = mpos
    BY <1>3, Positions
  <2>. QED
    BY <2>1, <2>2 DEF Entry, Current
<1>8. /\ reduce'[w] = <<series[w][Current.value]>>
      /\ \A u \in Worker \ {w} : reduce'[u] = reduce[u]
  <2>1. reduce' = [reduce EXCEPT ![w] = Append(reduce[w], series[w][asked[w]])]
    BY DEF MetricsToMaster
  <2>2. reduce[w] = <<>>
    BY <1>5 DEF Reductions
  <2>3. DOMAIN reduce = Worker
    BY DEF Shapes
  <2>. QED
    BY <1>7, <2>1, <2>2, <2>3
<1>9. ASSUME NEW u \in Worker
      PROVE  /\ reduce'[u] = IF Contributed(u)' /\ ~Summed'
                             THEN <<series'[u][Current'.value]>> ELSE <<>>
             /\ Summed' => Contributed(u)'
             /\ wpc'[u] \in {"reduce", "reduced"} => Probing' /\ at'[u] = mpos' + 1
  <2>1. CASE u = w
    BY <1>1, <1>3, <1>4, <1>5, <1>6, <1>8, <2>1
  <2>2. CASE u # w
    BY <1>1, <1>4, <1>5, <1>6, <1>8, <2>2 DEF Reductions
  <2>. QED
    BY <2>1, <2>2
<1>10. mail' = <<>>
  BY <1>1, <1>6 DEF Reductions
<1>. QED
  BY <1>2, <1>6, <1>9, <1>10 DEF Reductions, Worker

\* A worker that has been asked for something has done all steps.
LEMMA LateIteration ==
  ASSUME Types, Places, NEW w \in Worker, at[w] > End + 1
  PROVE  iteration[w] = T /\ ~InLoop(w)
<1>. DEFINE a == at[w]
            m == iteration[w]
<1>1. Place(w) /\ wpc[w] \in Pcs /\ m \in 0 .. T /\ a \in Nat
  BY Positions DEF Places, Types
<1>2. ~InLoop(w)
  BY PlaceBehind, Layout, <1>1, SMTT(30) DEF InLoop
<1>3. T \in Nat
  BY Layout
<1>4. /\ V \in {0, 2} /\ (setup.ai <=> V = 2) /\ End \in Nat /\ NSpecies \in Nat
      /\ Off(setup) = 2 * NSpecies + (IF Shared(setup) THEN 7 ELSE 6) /\ Off(setup) <= End
  BY Layout
<1>5. ASSUME m < T PROVE After(m) \in Nat /\ After(m) + V + 3 <= End
  <2>1. m \in 0 .. T - 1 /\ m \in 0 .. T /\ m + 1 \in 0 .. T
    BY <1>1, <1>3, <1>5
  <2>. QED
    BY <2>1, Layout
<1>6. \A i \in {1, 2, 3} : InStep(w, i) => i = 3 /\ ~setup.ai
  <2>. SUFFICES ASSUME NEW i \in {1, 2, 3}, InStep(w, i)
                PROVE  FALSE
    OBVIOUS
  <2>1. m < T /\ a = After(m) + i
    BY DEF InStep
  <2>2. After(m) \in Nat /\ After(m) + V + 3 <= End
    BY <1>5, <2>1
  <2>. QED
    BY <1>4, <2>1, <2>2
<1>7. ~InStep(w, V + 2)
  <2>. SUFFICES ASSUME InStep(w, V + 2) PROVE FALSE
    OBVIOUS
  <2>1. m < T /\ a = After(m) + (V + 2)
    BY DEF InStep
  <2>2. After(m) \in Nat /\ After(m) + V + 3 <= End
    BY <1>5, <2>1
  <2>. QED
    BY <1>4, <2>1, <2>2
<1>8. /\ a # 1 /\ a # Off(setup) - 1
      /\ wpc[w] \notin {"n_elements", "size", "name", "base_totals", "has_id", "split", "prop_count"}
  <2>1. a > Off(setup) + 1 /\ Off(setup) >= (2 * NSpecies) + 6 /\ NSpecies \in Nat
    BY <1>1, <1>4
  <2>2. names[w] \in 0 .. NSpecies
    BY DEF Types
  <2>3. wpc[w] = "split" => Off(setup) = 2 * NSpecies + 7
    BY <1>1, <1>4 DEF Place, StartUpPlace
  <2>. QED
    BY <1>1, <1>4, <2>1, <2>2, <2>3, SMTT(30) DEF Place, StartUpPlace
<1>9. m = T
  <2>1. CASE wpc[w] \in {"barrier", "command", "validity"}
    <3>1. wpc[w] # "barrier" /\ wpc[w] # "validity"
      BY <1>1, <1>6, <1>7, <1>8 DEF Place
    <3>. QED
      BY <1>1, <1>6, <1>8, <2>1, <3>1 DEF Place, InTriple
  <2>2. CASE wpc[w] \in {"type", "gather", "reduce", "reduced", "send", "postsim", "stopped"}
    BY <1>1, <2>2 DEF Place, InTriple
  <2>. QED
    BY <1>1, <1>2, <1>8, <2>1, <2>2 DEF Pcs, CallsOfWorker, InLoop
<1>. QED
  BY <1>2, <1>9
----------------------------------------------------------------------------
(* Counting                                                                *)

LEMMA WorkersFinite == IsFiniteSet(Worker)
  BY FS_Interval, CommandsAssumption DEF CommandsAssumption, Worker

LEMMA StoredMetrics == Stored = StoredOf(setup) /\ Stored \subseteq Metrics
  BY DEF Stored, StoredOf, Metrics, WORKER_DHT_HITS, WORKER_DHT_EVICTIONS,
     WORKER_PHT_CACHE_HITS, WORKER_IP_CALLS

LEMMA ShareIsNat ==
  ASSUME Counts, NEW w \in Worker, NEW t \in Metrics, NEW n \in Nat
  PROVE  Share(w, t, n) \in Nat
<1>1. series[w][t] \in Seq(Nat) /\ counter[w][t] \in Nat
  BY DEF Counts
<1>2. CASE n \in DOMAIN series[w][t]
  <2>1. series[w][t][n] \in Nat
    BY <1>1, <1>2
  <2>. QED
    BY <1>2, <2>1 DEF Share
<1>3. CASE n \notin DOMAIN series[w][t]
  BY <1>1, <1>3 DEF Share
<1>. QED
  BY <1>2, <1>3

\* The events of a step move between a counter and its series, and none is lost.
LEMMA SharesKept ==
  ASSUME Types, Counts, UNCHANGED <<setup, happened>>,
         counter' \in [Worker -> [Metrics -> Nat]],
         series' \in [Worker -> [Metrics -> Seq(Nat)]],
         \A u \in Worker : \A t \in Metrics :
           /\ t \in Stored => Len(series'[u][t]) = IF InLoop(u)' THEN iteration'[u] - 1
                                                   ELSE iteration'[u]
           /\ t \notin Stored => series'[u][t] = <<>>
           /\ t \in Stored /\ ~InLoop(u)' => counter'[u][t] = 0
           /\ t \in Stored => \A n \in 1 .. T : Share(u, t, n)' = Share(u, t, n)
  PROVE  Counts'
<1>1. Stored' = Stored /\ T' = T
  BY DEF Stored, T
<1>2. ASSUME NEW t \in Stored, NEW n \in 1 .. T
      PROVE  happened'[t][n] = SumFunction([w \in Worker |-> Share(w, t, n)'])
  <2>1. [w \in Worker |-> Share(w, t, n)'] = [w \in Worker |-> Share(w, t, n)]
    BY StoredMetrics
  <2>2. happened[t][n] = SumFunction([w \in Worker |-> Share(w, t, n)])
    BY DEF Counts
  <2>. QED
    BY <2>1, <2>2
<1>3. happened' \in [Metrics -> [1 .. T' -> Nat]]
  BY <1>1 DEF Counts
<1>4. ASSUME NEW u \in Worker, NEW t \in Metrics
      PROVE  /\ t \in Stored => Len(series'[u][t]) = IF InLoop(u)' THEN iteration'[u] - 1
                                                     ELSE iteration'[u]
             /\ t \notin Stored => series'[u][t] = <<>>
             /\ t \in Stored /\ ~InLoop(u)' => counter'[u][t] = 0
  OBVIOUS
<1>. HIDE DEF Stored
<1>5. counter' \in [Worker -> [Metrics -> Nat]] /\ series' \in [Worker -> [Metrics -> Seq(Nat)]]
  OBVIOUS
<1>. QED
  BY ONLY <1>1, <1>2, <1>3, <1>4, <1>5 DEF Counts, Worker

LEMMA StayCounts ==
  ASSUME Types, Counts, UNCHANGED <<setup, counter, series, happened>>,
         \A u \in Worker : iteration'[u] = iteration[u] /\ (InLoop(u)' <=> InLoop(u))
  PROVE  Counts'
<1>1. \A u \in Worker : \A t \in Metrics : \A n \in 1 .. T : Share(u, t, n)' = Share(u, t, n)
  BY DEF Share
<1>2. counter' \in [Worker -> [Metrics -> Nat]] /\ series' \in [Worker -> [Metrics -> Seq(Nat)]]
  BY DEF Counts
<1>3. ASSUME NEW u \in Worker, NEW t \in Metrics
      PROVE  /\ t \in Stored => Len(series'[u][t]) = IF InLoop(u)' THEN iteration'[u] - 1
                                                     ELSE iteration'[u]
             /\ t \notin Stored => series'[u][t] = <<>>
             /\ t \in Stored /\ ~InLoop(u)' => counter'[u][t] = 0
  BY DEF Counts
<1>. QED
  BY <1>1, <1>2, <1>3, SharesKept

LEMMA BarrierCounts ==
  ASSUME Types, Places, Counts, Barrier
  PROVE  Counts'
<1>1. /\ UNCHANGED <<setup, counter, series, happened>>
      /\ \A u \in Worker : wpc[u] = "barrier"
      /\ wpc' = [w \in Worker |-> IF at[w] = 1 THEN "n_elements" ELSE "loop"]
      /\ iteration' = [w \in Worker |-> IF at[w] = 1 THEN 0 ELSE iteration[w] + 1]
  BY DEF Barrier
<1>2. ASSUME NEW u \in Worker
      PROVE  /\ ~InLoop(u) /\ iteration[u] \in Nat
             /\ \/ ~InLoop(u)' /\ iteration'[u] = iteration[u]
                \/ InLoop(u)' /\ iteration'[u] = iteration[u] + 1
  <2>1. Place(u) /\ wpc[u] = "barrier" /\ iteration[u] \in 0 .. T /\ T \in Nat
    BY <1>1, Layout DEF Places, Types
  <2>2. at[u] = 1 => iteration[u] = 0
    <3>. SUFFICES ASSUME InStep(u, V + 2), at[u] = 1 PROVE FALSE
      BY <2>1 DEF Place
    <3>1. at[u] = After(iteration[u]) + (V + 2)
      BY DEF InStep
    <3>2. After(iteration[u]) \in Nat /\ V \in {0, 2}
      BY <2>1, Layout
    <3>. QED
      BY <3>1, <3>2
  <2>3. CASE at[u] = 1
    BY <1>1, <2>1, <2>2, <2>3 DEF InLoop
  <2>4. CASE at[u] # 1
    BY <1>1, <2>1, <2>4 DEF InLoop
  <2>. QED
    BY <2>3, <2>4
<1>3. ASSUME NEW u \in Worker, NEW t \in Metrics
      PROVE  /\ t \in Stored => Len(series'[u][t]) = IF InLoop(u)' THEN iteration'[u] - 1
                                                     ELSE iteration'[u]
             /\ t \notin Stored => series'[u][t] = <<>>
             /\ t \in Stored /\ ~InLoop(u)' => counter'[u][t] = 0
             /\ t \in Stored => \A n \in 1 .. T : Share(u, t, n)' = Share(u, t, n)
  <2>1. /\ t \in Stored => Len(series[u][t]) = iteration[u] /\ counter[u][t] = 0
        /\ t \notin Stored => series[u][t] = <<>>
    BY <1>2 DEF Counts
  <2>2. ASSUME t \in Stored, NEW n \in 1 .. T
        PROVE  Share(u, t, n)' = Share(u, t, n)
    BY <1>1, <1>2, <2>1, <2>2 DEF Share
  <2>. QED
    BY <1>1, <1>2, <2>1, <2>2
<1>4. counter' \in [Worker -> [Metrics -> Nat]] /\ series' \in [Worker -> [Metrics -> Seq(Nat)]]
  BY <1>1 DEF Counts
<1>. QED
  BY <1>1, <1>3, <1>4, SharesKept

LEMMA PostIterCounts ==
  ASSUME Types, Places, Counts, NEW W \in SUBSET Worker, PostIter(W)
  PROVE  Counts'
<1>1. /\ UNCHANGED <<setup, happened, iteration>>
      /\ \A u \in W : wpc[u] = "post"
      /\ series' = [w \in Worker |-> [t \in Metrics |->
                      IF w \in W /\ t \in Stored
                      THEN Append(series[w][t], counter[w][t])
                      ELSE series[w][t]]]
      /\ counter' = [w \in Worker |-> [t \in Metrics |->
                       IF w \in W THEN Reset(w, t) ELSE counter[w][t]]]
      /\ wpc' = [w \in Worker |-> IF w \in W THEN "command" ELSE wpc[w]]
  BY DEF PostIter
<1>2. ASSUME NEW u \in Worker, NEW t \in Metrics
      PROVE  /\ counter'[u][t] \in Nat /\ series'[u][t] \in Seq(Nat)
             /\ t \in Stored => Len(series'[u][t]) = IF InLoop(u)' THEN iteration'[u] - 1
                                                     ELSE iteration'[u]
             /\ t \notin Stored => series'[u][t] = <<>>
             /\ t \in Stored /\ ~InLoop(u)' => counter'[u][t] = 0
             /\ t \in Stored => \A n \in 1 .. T : Share(u, t, n)' = Share(u, t, n)
  <2>1. /\ series[u][t] \in Seq(Nat) /\ counter[u][t] \in Nat
        /\ t \in Stored => Len(series[u][t]) = IF InLoop(u) THEN iteration[u] - 1 ELSE iteration[u]
        /\ t \notin Stored => series[u][t] = <<>>
        /\ t \in Stored /\ ~InLoop(u) => counter[u][t] = 0
    BY DEF Counts
  <2>2. iteration'[u] = iteration[u] /\ iteration[u] \in Nat
    BY <1>1, Layout DEF Types
  <2>3. CASE u \notin W \/ t \notin Stored
    <3>1. /\ series'[u][t] = series[u][t]
          /\ t \in Stored => counter'[u][t] = counter[u][t] /\ wpc'[u] = wpc[u]
          /\ counter'[u][t] \in Nat
      BY <1>1, <2>1, <2>3 DEF Reset
    <3>2. t \in Stored => (InLoop(u)' <=> InLoop(u))
      BY <3>1 DEF InLoop
    <3>. QED
      BY <2>1, <2>2, <3>1, <3>2 DEF Share
  <2>4. CASE u \in W /\ t \in Stored
    <3>. DEFINE x == series[u][t]
                c == counter[u][t]
                m == iteration[u]
    <3>1. /\ InLoop(u) /\ ~InLoop(u)'
          /\ series'[u][t] = Append(x, c) /\ counter'[u][t] = 0
      BY <1>1, <2>4 DEF InLoop, Reset
    <3>2. x \in Seq(Nat) /\ c \in Nat /\ Len(x) = m - 1 /\ m \in Nat
      BY <2>1, <2>2, <2>4, <3>1
    <3>3. /\ Append(x, c) \in Seq(Nat) /\ Len(Append(x, c)) = m
          /\ DOMAIN x = 1 .. m - 1 /\ DOMAIN Append(x, c) = 1 .. m
          /\ \A n \in 1 .. m - 1 : Append(x, c)[n] = x[n]
          /\ m > 0 => Append(x, c)[m] = c
      <4>. HIDE DEF x, c, m
      <4>. QED
        BY <3>2
    <3>4. ASSUME NEW n \in 1 .. T
          PROVE  Share(u, t, n)' = Share(u, t, n)
      <4>1. Share(u, t, n)' = IF n \in 1 .. m THEN Append(x, c)[n] ELSE 0
        BY <3>1, <3>3 DEF Share
      <4>2. Share(u, t, n) = IF n \in 1 .. m - 1 THEN x[n] ELSE IF n = m THEN c ELSE 0
        BY <3>1, <3>3 DEF Share
      <4>. HIDE DEF x, c, m
      <4>. QED
        BY <3>2, <3>3, <4>1, <4>2
    <3>. QED
      BY <2>2, <2>4, <3>1, <3>3, <3>4
  <2>. QED
    BY <2>3, <2>4
<1>3. counter' \in [Worker -> [Metrics -> Nat]] /\ series' \in [Worker -> [Metrics -> Seq(Nat)]]
  BY <1>1, <1>2
<1>. QED
  BY <1>1, <1>2, <1>3, SharesKept

LEMMA EventCounts ==
  ASSUME Types, Places, Counts, NEW w \in Worker, NEW t \in Metrics, Count(w, t)
  PROVE  Counts'
<1>. DEFINE m == iteration[w]
<1>1. /\ UNCHANGED <<setup, series, iteration, wpc>> /\ wpc[w] = "loop" /\ InLoop(w)
      /\ counter' = [counter EXCEPT ![w][t] = @ + 1]
      /\ happened' = [happened EXCEPT ![t][m] = @ + 1]
  BY DEF Count, InLoop
<1>2. m \in 1 .. T
  <2>1. m > 0 /\ m \in 0 .. T /\ T \in Nat
    BY <1>1, Layout DEF Places, Place, Types
  <2>. QED
    BY <2>1
<1>3. /\ counter \in [Worker -> [Metrics -> Nat]] /\ happened \in [Metrics -> [1 .. T -> Nat]]
      /\ series \in [Worker -> [Metrics -> Seq(Nat)]]
  BY DEF Counts
<1>4. /\ counter' \in [Worker -> [Metrics -> Nat]] /\ happened' \in [Metrics -> [1 .. T -> Nat]]
      /\ counter'[w][t] = counter[w][t] + 1
      /\ \A u \in Worker, v \in Metrics : u # w \/ v # t => counter'[u][v] = counter[u][v]
      /\ happened'[t][m] = happened[t][m] + 1
      /\ \A v \in Metrics, n \in 1 .. T : v # t \/ n # m => happened'[v][n] = happened[v][n]
  <2>. DEFINE c == [counter[w] EXCEPT ![t] = counter[w][t] + 1]
              e == [happened[t] EXCEPT ![m] = happened[t][m] + 1]
  <2>1. counter' = [counter EXCEPT ![w] = c] /\ happened' = [happened EXCEPT ![t] = e]
    BY <1>1
  <2>2. /\ c \in [Metrics -> Nat] /\ c[t] = counter[w][t] + 1
        /\ \A v \in Metrics : v # t => c[v] = counter[w][v]
    BY <1>3
  <2>3. /\ e \in [1 .. T -> Nat] /\ e[m] = happened[t][m] + 1
        /\ \A n \in 1 .. T : n # m => e[n] = happened[t][n]
    <3>. DEFINE D == 1 .. T
                x == happened[t]
    <3>1. x \in [D -> Nat] /\ m \in D
      BY <1>2, <1>3
    <3>2. e = [x EXCEPT ![m] = x[m] + 1]
      OBVIOUS
    <3>. HIDE DEF D, x, e, m
    <3>3. e \in [D -> Nat] /\ e[m] = x[m] + 1 /\ \A n \in D : n # m => e[n] = x[n]
      BY <3>1, <3>2
    <3>. QED
      BY <3>3 DEF D, x
  <2>. HIDE DEF c, e
  <2>4. /\ counter' \in [Worker -> [Metrics -> Nat]] /\ counter'[w] = c
        /\ \A u \in Worker : u # w => counter'[u] = counter[u]
    BY <1>3, <2>1, <2>2
  <2>5. /\ happened' \in [Metrics -> [1 .. T -> Nat]] /\ happened'[t] = e
        /\ \A v \in Metrics : v # t => happened'[v] = happened[v]
    BY <1>3, <2>1, <2>3
  <2>. QED
    BY <2>2, <2>3, <2>4, <2>5
<1>5. T' = T /\ Stored' = Stored /\ \A u \in Worker : InLoop(u)' <=> InLoop(u)
  BY <1>1 DEF T, Stored, InLoop
<1>6. ASSUME NEW v \in Stored, NEW n \in 1 .. T
      PROVE  happened'[v][n] = SumFunction([u \in Worker |-> Share(u, v, n)'])
  <2>. DEFINE f == [u \in Worker |-> Share(u, v, n)]
              h == [u \in Worker |-> Share(u, v, n)']
  <2>1. v \in Metrics /\ n \in Nat
    BY StoredMetrics
  <2>2. happened[v][n] = SumFunction(f)
    BY DEF Counts
  <2>3. \A u \in Worker : u # w => Share(u, v, n)' = Share(u, v, n)
    BY <1>1, <1>4, <1>5, <2>1 DEF Share
  <2>4. CASE v # t \/ n # m
    <3>1. Share(w, v, n)' = Share(w, v, n)
      BY <1>1, <1>4, <1>5, <2>1, <2>4 DEF Share
    <3>2. h = f
      BY <2>3, <3>1
    <3>. QED
      BY <1>4, <2>1, <2>2, <2>4, <3>2
  <2>5. CASE v = t /\ n = m
    <3>1. Len(series[w][t]) = m - 1 /\ series[w][t] \in Seq(Nat)
      BY <1>1, <2>5 DEF Counts
    <3>2. m \notin DOMAIN series[w][t]
      BY <1>2, <3>1
    <3>3. Share(w, v, n)' = counter[w][t] + 1 /\ Share(w, v, n) = counter[w][t]
      BY <1>1, <1>4, <1>5, <2>5, <3>2 DEF Share
    <3>4. f \in [Worker -> Nat]
      BY <2>1, ShareIsNat
    <3>5. h \in [Worker -> Nat]
      <4>1. \A u \in Worker : Share(u, v, n)' \in Nat
        <5>. TAKE u \in Worker
        <5>1. CASE u = w
          BY <1>3, <3>3, <5>1
        <5>2. CASE u # w
          BY <2>1, <2>3, <5>2, ShareIsNat
        <5>. QED
          BY <5>1, <5>2
      <4>. QED
        BY <4>1
    <3>6. h[w] = f[w] + 1 /\ \A u \in Worker \ {w} : h[u] = f[u]
      BY <2>3, <3>3
    <3>. HIDE DEF f, h
    <3>7. SumFunction(h) = SumFunction(f) + 1
      BY <3>4, <3>5, <3>6, WorkersFinite, SumOfOneMore
    <3>. QED
      BY <1>4, <2>2, <2>5, <3>7 DEF h
  <2>. QED
    BY <2>4, <2>5
<1>7. ASSUME NEW u \in Worker, NEW v \in Metrics
      PROVE  /\ v \in Stored => Len(series'[u][v]) = IF InLoop(u)' THEN iteration'[u] - 1
                                                     ELSE iteration'[u]
             /\ v \notin Stored => series'[u][v] = <<>>
             /\ v \in Stored /\ ~InLoop(u)' => counter'[u][v] = 0
  <2>1. series'[u][v] = series[u][v] /\ iteration'[u] = iteration[u] /\ (InLoop(u)' <=> InLoop(u))
    BY <1>1, <1>5
  <2>2. ~InLoop(u)' => counter'[u][v] = counter[u][v]
    BY <1>1, <1>4, <1>5
  <2>. QED
    BY <2>1, <2>2 DEF Counts
<1>. HIDE DEF Stored
<1>. QED
  BY <1>1, <1>3, <1>4, <1>5, <1>6, <1>7 DEF Counts, Worker
----------------------------------------------------------------------------
(* The sums, and what the master gets                                      *)

\* The sums that the root sends are the events of each step.
LEMMA SumsAreEvents ==
  ASSUME Types, Places, Shapes, Synchronous, Reductions, Counts, SendSums
  PROVE  /\ Probing /\ ~Summed
         /\ \A u \in Worker : Contributed(u)
         /\ asked[Root] = Current.value
         /\ [n \in DOMAIN Head(reduce[Root]) |-> SumOverWorkers(n)] = happened[Current.value]
<1>. DEFINE v == Current.value
<1>1. wpc[Root] = "reduced" /\ \A u \in Worker : reduce[u] # <<>>
  BY DEF SendSums
<1>2. Probing /\ at[Root] = mpos + 1 /\ ~Summed
  BY <1>1, RootIsWorker DEF Reductions, Summed
<1>3. \A u \in Worker : Contributed(u) /\ reduce[u] = <<series[u][v]>>
  BY <1>1 DEF Reductions
<1>4. v \in Stored /\ asked[Root] = v
  <2>1. /\ program[at[Root] - 1] = Entry("probe", "probe", asked[Root])
        /\ asked[Root] \in StoredOf(setup)
    BY <1>1, RootIsWorker, PlaceBehind
  <2>2. at[Root] - 1 = mpos
    BY <1>2, Positions
  <2>. QED
    BY <2>1, <2>2, StoredMetrics DEF Entry, Current
<1>5. v \in Metrics
  BY <1>4, StoredMetrics
<1>6. ASSUME NEW u \in Worker
      PROVE  /\ iteration[u] = T /\ ~InLoop(u)
             /\ DOMAIN series[u][v] = 1 .. T
             /\ \A n \in 1 .. T : Share(u, v, n) = series[u][v][n]
  <2>1. at[u] = mpos + 1 /\ Probing
    BY <1>3 DEF Contributed
  <2>2. mpos \in 1 .. Len(program) /\ program[mpos].op = "probe" /\ mpos \in Nat
    BY <2>1, Positions DEF Probing, Running, Current
  <2>3. at[u] > End + 1
    <3>1. mpos > End + 1 /\ End \in Nat
      BY <2>2, CallBehind, Layout
    <3>. QED
      BY <2>1, <2>2, <3>1
  <2>4. iteration[u] = T /\ ~InLoop(u)
    BY <2>3, LateIteration
  <2>5. series[u][v] \in Seq(Nat) /\ Len(series[u][v]) = T
    BY <1>4, <1>5, <2>4 DEF Counts
  <2>6. DOMAIN series[u][v] = 1 .. T
    BY <2>5
  <2>. QED
    BY <2>4, <2>6 DEF Share
<1>7. \A u \in Worker : Head(reduce[u]) = series[u][v]
  BY <1>3
<1>8. ASSUME NEW n \in 1 .. T
      PROVE  SumOverWorkers(n) = happened[v][n]
  <2>1. [w \in Worker |-> Head(reduce[w])[n]] = [w \in Worker |-> Share(w, v, n)]
    BY <1>6, <1>7
  <2>2. happened[v][n] = SumFunction([w \in Worker |-> Share(w, v, n)])
    BY <1>4 DEF Counts
  <2>. QED
    BY <2>1, <2>2 DEF SumOverWorkers
<1>9. happened[v] \in [1 .. T -> Nat] /\ DOMAIN Head(reduce[Root]) = 1 .. T
  BY <1>5, <1>6, <1>7, RootIsWorker DEF Counts
<1>10. [n \in DOMAIN Head(reduce[Root]) |-> SumOverWorkers(n)] = happened[v]
  <2>. DEFINE D == DOMAIN Head(reduce[Root])
              f == [n \in D |-> SumOverWorkers(n)]
              h == happened[v]
  <2>1. D = 1 .. T /\ DOMAIN h = D /\ h = [n \in DOMAIN h |-> h[n]]
    BY <1>9
  <2>2. \A n \in D : f[n] = h[n]
    BY <1>8, <2>1
  <2>3. f = [n \in D |-> f[n]]
    OBVIOUS
  <2>. HIDE DEF D, f, h
  <2>4. f = h
    BY <2>1, <2>2, <2>3
  <2>. QED
    BY <2>4 DEF f, h, D
<1>. QED
  BY <1>2, <1>3, <1>4, <1>10

LEMMA SendReductions ==
  ASSUME Types, Places, Shapes, Synchronous, Reductions, Counts, SendSums
  PROVE  Synchronous' /\ Reductions'
<1>1. /\ UNCHANGED <<setup, program, mpos, at, ended, series, happened>>
      /\ wpc[Root] = "reduced" /\ wpc'[Root] = "send"
      /\ \A u \in Worker \ {Root} : wpc'[u] = wpc[u]
      /\ reduce' = [w \in Worker |-> Tail(reduce[w])]
      /\ mail' = Append(mail, [tag |-> asked[Root],
                             sums |-> [n \in DOMAIN Head(reduce[Root]) |-> SumOverWorkers(n)]])
  BY RootIsWorker DEF SendSums, GoesTo, Types
<1>2. Synchronous'
  <2>1. ASSUME NEW u \in Worker
        PROVE  \/ wpc'[u] = wpc[u]
               \/ wpc[u] # "loop" /\ wpc'[u] # "loop"
    BY <1>1
  <2>. QED
    BY <1>1, <2>1, StaySync
<1>3. /\ Probing /\ ~Summed /\ mail = <<>> /\ asked[Root] = Current.value
      /\ \A u \in Worker : Contributed(u) /\ reduce[u] = <<series[u][Current.value]>>
      /\ [n \in DOMAIN Head(reduce[Root]) |-> SumOverWorkers(n)] = happened[Current.value]
  BY SumsAreEvents DEF Reductions
<1>4. Probing' /\ Current' = Current /\ mpos' = mpos
  BY <1>1, <1>3 DEF Probing, Running, Current
<1>5. \A u \in Worker : Contributed(u)' /\ wpc'[u] \notin {"reduce", "reduced"}
  <2>1. \A u \in Worker \ {Root} : wpc[u] \notin {"reduce", "reduced"}
    BY <1>3 DEF Contributed, Places, Place
  <2>. QED
    BY <1>1, <1>3, <1>4, <2>1 DEF Contributed
<1>6. Summed'
  BY <1>5, RootIsWorker DEF Summed, Contributed
<1>7. \A u \in Worker : reduce'[u] = <<>>
  <2>1. \A x : Tail(<<x>>) = <<>>
    OBVIOUS
  <2>2. \A u \in Worker : reduce[u] = <<series[u][Current.value]>>
    BY <1>3
  <2>. QED
    BY <1>1, <2>1, <2>2
<1>8. mail' = <<[tag |-> Current'.value, sums |-> happened'[Current'.value]]>>
  BY <1>1, <1>3, <1>4
<1>. QED
  BY <1>2, <1>5, <1>6, <1>7, <1>8 DEF Reductions, Worker

LEMMA AtGrows ==
  ASSUME Types, [Next]_vars
  PROVE  \A u \in Worker : at[u] \in Nat /\ at'[u] >= at[u] /\ at'[u] \in Int
<1>1. \A u \in Worker : at[u] \in Nat /\ CollectiveAfter(at[u]) >= at[u] /\ CollectiveAfter(at[u]) \in Int
  BY Positions DEF CollectiveAfter
<1>2. CASE UNCHANGED at
  BY <1>1, <1>2
<1>3. ASSUME NEW w \in Worker, at' = [at EXCEPT ![w] = CollectiveAfter(@)]
      PROVE  \A u \in Worker : at[u] \in Nat /\ at'[u] >= at[u] /\ at'[u] \in Int
  BY <1>1, <1>3 DEF Types
<1>4. CASE Barrier \/ Split
  BY <1>1, <1>4 DEF Barrier, Split
<1>5. CASE MasterStep
  BY <1>2, <1>5 DEF MasterStep, MasterBcast, MasterGather, MasterLoop, MasterProbe
<1>6. ASSUME NEW w \in Worker, WorkerStep(w) \/ \E t \in Metrics : Count(w, t)
      PROVE  \A u \in Worker : at[u] \in Nat /\ at'[u] >= at[u] /\ at'[u] \in Int
  BY <1>2, <1>3, <1>6
     DEF WorkerStep, Receives, ReadStartUp, ReadCommand, FieldInit, ReadValidity, EndLoop,
         ReadType, PerfToMaster, MetricsToMaster, Count
<1>7. CASE IterationEnd \/ SimulationEnd \/ SendSums \/ SumsSent \/ Stopped \/ UNCHANGED vars
  BY <1>2, <1>7 DEF IterationEnd, PostIter, SimulationEnd, PostSim, SendSums, SumsSent, Stopped, vars
<1>. QED
  BY <1>4, <1>5, <1>6, <1>7 DEF Next, Together

LEMMA ResultsKept ==
  ASSUME Types, Results, [Next]_vars, UNCHANGED <<setup, result, happened>>
  PROVE  Results'
<1>1. End' = End /\ Stored' = Stored /\ End \in Nat
  BY Layout DEF End, Stored
<1>2. ASSUME NEW u \in Worker, at[u] > End + 1 PROVE at'[u] > End + 1
  BY <1>1, <1>2, AtGrows
<1>. QED
  BY <1>1, <1>2 DEF Results, Worker

LEMMA ProbeResults ==
  ASSUME Types, Places, Reductions, Results, MasterProbe
  PROVE  Results'
<1>. DEFINE v == Current.value
<1>1. /\ UNCHANGED <<setup, at, happened>> /\ mail # <<>> /\ Running
      /\ result' = [t \in DOMAIN result \cup {v} |->
                      IF t = v THEN Head(mail).sums ELSE result[t]]
  BY DEF MasterProbe
<1>2. End' = End /\ Stored' = Stored
  BY <1>1 DEF End, Stored
<1>3. Summed /\ Head(mail).sums = happened[v]
  BY <1>1 DEF Reductions
<1>4. \A u \in Worker : at[u] = mpos + 1
  BY <1>3 DEF Reductions, Contributed
<1>5. mpos > End + 1 /\ mpos \in Nat /\ End \in Nat
  <2>1. mpos \in 1 .. Len(program) /\ program[mpos].op = "probe"
    BY <1>1, Positions DEF MasterProbe, Running, Current
  <2>. QED
    BY <2>1, CallBehind, Layout, SMTT(30)
<1>6. v \in Stored
  <2>1. mpos \in 1 .. Len(program) /\ program[mpos] = Current /\ Current.op = "probe"
    BY <1>1, Positions DEF MasterProbe, Running, Current
  <2>2. PICK j \in 0 .. Asked(setup) - 1, i \in 1 .. 3 : mpos = End + (3 * j) + i
    <3>1. mpos \notin 1 .. Off(setup)
      BY <1>5, Layout
    <3>2. \A n \in 0 .. T - 1, i \in 1 .. V + 3 : mpos # After(n) + i
      <4>. TAKE n \in 0 .. T - 1, i \in 1 .. V + 3
      <4>1. n \in 0 .. T /\ n + 1 \in 0 .. T
        BY Sizes, SMTT(30)
      <4>2. /\ After(n) \in Nat /\ After(n + 1) = After(n) + V + 3 /\ After(n + 1) <= End
            /\ V \in {0, 2}
        BY <4>1, Layout
      <4>. QED
        BY <1>5, <4>2
    <3>3. mpos # Len(program)
      BY <2>1, LastPlace DEF Entry
    <3>. QED
      BY <2>1, <3>1, <3>2, <3>3, ProgramParts
  <2>. DEFINE b == End + (3 * j)
  <2>3. /\ program[b + 1] = Entry("bcast", "command", CHEM_PERF)
        /\ \E t \in TimingsOf(setup) \cup StoredOf(setup) :
             /\ program[b + 2] = Entry("bcast", "type", t)
             /\ t \in StoredOf(setup) => program[b + 3] = Entry("probe", "probe", t)
             /\ t \notin StoredOf(setup) => program[b + 3] = Entry("gather", "gather", t)
    BY TriplePlaces
  <2>4. mpos = b + 1 \/ mpos = b + 2 \/ mpos = b + 3
    BY <2>2
  <2>. HIDE DEF b
  <2>5. \E t \in StoredOf(setup) : Current = Entry("probe", "probe", t)
    BY <2>1, <2>3, <2>4 DEF Entry
  <2>. QED
    BY <2>5, StoredMetrics DEF Entry
<1>7. \A u \in Worker : at'[u] > End + 1
  BY <1>1, <1>4, <1>5
<1>8. \A t \in DOMAIN result' : t \in Stored /\ result'[t] = happened[t]
  BY <1>1, <1>3, <1>6 DEF Results
<1>. QED
  BY <1>1, <1>2, <1>7, <1>8 DEF Results, Worker

\* Nothing is counted any more once the master has got a metric.
LEMMA EventResults ==
  ASSUME Types, Places, Results, NEW w \in Worker, NEW t \in Metrics, Count(w, t)
  PROVE  Results'
<1>1. wpc[w] = "loop" /\ UNCHANGED <<setup, result, at>>
  BY DEF Count
<1>2. at[w] <= End + 1 /\ at[w] \in Nat /\ End \in Nat
  BY <1>1, PlaceBehind, Positions, Layout
<1>3. DOMAIN result = {}
  BY <1>2 DEF Results
<1>. QED
  BY <1>1, <1>3 DEF Results
----------------------------------------------------------------------------
(* The invariant                                                           *)

IInv ==
  /\ Types /\ Places /\ Shapes
  /\ Synchronous /\ Reductions
  /\ Counts /\ Results

LEMMA InitInv == Init => IInv
<1>. SUFFICES ASSUME Init PROVE IInv
  OBVIOUS
<1>1. Types /\ Places
  BY InitPlaces
<1>2. /\ mpos = 1 /\ mail = <<>> /\ DOMAIN result = {}
      /\ \A w \in Worker :
           /\ wpc[w] = "barrier" /\ at[w] = 1 /\ iteration[w] = 0 /\ ~ended[w]
           /\ reduce[w] = <<>>
           /\ \A t \in Metrics : counter[w][t] = 0 /\ series[w][t] = <<>>
      /\ \A t \in Metrics : \A n \in 1 .. T : happened[t][n] = 0
  BY DEF Init, T
<1>3. T \in Nat
  BY <1>1, Layout
<1>4. Shapes
  BY DEF Init, Shapes
<1>5. Synchronous
  <2>1. 1 .. mpos - 1 = {}
    BY <1>2
  <2>2. 1 <= mpos /\ 1 # mpos + 1
    BY <1>2
  <2>. QED
    BY <1>2, <2>1, <2>2 DEF Synchronous
<1>6. Reductions
  <2>1. 1 # mpos + 1
    BY <1>2
  <2>2. \A w \in Worker : ~Contributed(w)
    BY <1>2, <2>1 DEF Contributed
  <2>3. ~Summed
    BY <1>2, <2>1, RootIsWorker DEF Summed
  <2>. QED
    BY <1>2, <2>2, <2>3 DEF Reductions
<1>7. Counts
  <2>1. counter \in [Worker -> [Metrics -> Nat]] /\ series \in [Worker -> [Metrics -> Seq(Nat)]]
    BY DEF Init
  <2>2. happened \in [Metrics -> [1 .. T -> Nat]]
    BY DEF Init, T
  <2>3. ASSUME NEW t \in Stored, NEW n \in 1 .. T
        PROVE  happened[t][n] = SumFunction([w \in Worker |-> Share(w, t, n)])
    <3>1. t \in Metrics
      BY StoredMetrics
    <3>2. \A w \in Worker : Share(w, t, n) = 0
      BY <1>2, <3>1 DEF Share, InLoop
    <3>. DEFINE f == [w \in Worker |-> Share(w, t, n)]
    <3>3. DOMAIN f = Worker /\ \A w \in DOMAIN f : f[w] = 0
      BY <3>2
    <3>. HIDE DEF f
    <3>4. SumFunction(f) = 0
      BY <3>3, WorkersFinite, SumOfZeros
    <3>. QED
      BY <1>2, <3>1, <3>4 DEF f
  <2>4. ASSUME NEW w \in Worker, NEW t \in Metrics
        PROVE  ~InLoop(w) /\ Len(series[w][t]) = iteration[w] /\ series[w][t] = <<>> /\ counter[w][t] = 0
    BY <1>2 DEF InLoop
  <2>. QED
    BY <2>1, <2>2, <2>3, <2>4 DEF Counts
<1>8. Results
  BY <1>2 DEF Results
<1>. QED
  BY <1>1, <1>4, <1>5, <1>6, <1>7, <1>8 DEF IInv

LEMMA NextReceives ==
  ASSUME Types, NEW w \in Worker,
         ReadStartUp(w) \/ ReadCommand(w) \/ FieldInit(w) \/ ReadValidity(w) \/ ReadType(w)
  PROVE  \E what \in CallsOfWorker \ {"barrier", "split", "gather"} :
           \E pc \in {"n_elements", "size", "name", "base_totals", "has_id", "split", "command",
                     "prop_count", "validity", "barrier", "type", "postsim", "error",
                     "gather", "reduce"} :
             /\ Receives(w, what) /\ GoesTo(w, pc)
             /\ what # "type" => pc # "reduce"
             /\ what = "type" => pc \in {"gather", "reduce"}
             /\ UNCHANGED <<setup, program, mpos, iteration, ended, counter, series, reduce, mail,
                            result, happened>>
<1>1. CASE ReadStartUp(w)
  BY <1>1 DEF ReadStartUp, CallsOfWorker
<1>2. CASE ReadCommand(w)
  BY <1>2 DEF ReadCommand, Handler, CallsOfWorker
<1>3. CASE FieldInit(w) \/ ReadValidity(w)
  BY <1>3 DEF FieldInit, ReadValidity, CallsOfWorker
<1>4. CASE ReadType(w)
  BY <1>4 DEF ReadType, CallsOfWorker
<1>. QED
  BY <1>1, <1>2, <1>3, <1>4

LEMMA NextInv ==
  ASSUME IInv, [Next]_vars
  PROVE  IInv'
<1>. USE DEF IInv
<1>1. Types' /\ Places' /\ Shapes'
  BY NextPlaces, NextShapes
<1>. SUFFICES Synchronous' /\ Reductions' /\ Counts' /\ Results'
  BY <1>1
<1>2. ASSUME UNCHANGED <<setup, counter, series, happened, iteration, wpc>>
      PROVE  Counts'
  BY <1>2, StayCounts DEF InLoop
<1>3. CASE MasterStep
  <2>1. Synchronous' /\ Reductions'
    BY <1>3, MasterSync, MasterReductions
  <2>2. Counts'
    BY <1>2, <1>3 DEF MasterStep, MasterBcast, MasterGather, MasterLoop, MasterProbe
  <2>3. CASE MasterProbe
    BY <2>1, <2>2, <2>3, ProbeResults
  <2>4. CASE ~MasterProbe
    <3>1. UNCHANGED <<setup, result, happened>>
      BY <1>3, <2>4 DEF MasterStep, MasterBcast, MasterGather, MasterLoop
    <3>. QED
      BY <2>1, <2>2, <3>1, ResultsKept
  <2>. QED
    BY <2>3, <2>4
<1>4. CASE Barrier \/ Split
  <2>1. Synchronous' /\ Reductions' /\ Results'
    BY <1>4, TogetherSync, TogetherReductions, ResultsKept DEF Barrier, Split
  <2>2. CASE Split
    <3>1. UNCHANGED <<setup, counter, series, happened, iteration>>
      BY <2>2 DEF Split
    <3>2. \A u \in Worker : ~InLoop(u) /\ ~InLoop(u)'
      BY <2>2 DEF Split, InLoop
    <3>. QED
      BY <2>1, <3>1, <3>2, StayCounts
  <2>. QED
    BY <1>4, <2>1, <2>2, BarrierCounts
<1>5. ASSUME NEW w \in Worker,
             ReadStartUp(w) \/ ReadCommand(w) \/ FieldInit(w) \/ ReadValidity(w) \/ ReadType(w)
      PROVE  Synchronous' /\ Reductions' /\ Counts' /\ Results'
  <2>1. PICK what \in CallsOfWorker \ {"barrier", "split", "gather"},
             pc \in {"n_elements", "size", "name", "base_totals", "has_id", "split", "command",
                    "prop_count", "validity", "barrier", "type", "postsim", "error",
                    "gather", "reduce"} :
               /\ Receives(w, what) /\ GoesTo(w, pc)
               /\ what # "type" => pc # "reduce"
               /\ what = "type" => pc \in {"gather", "reduce"}
               /\ UNCHANGED <<setup, program, mpos, iteration, ended, counter, series, reduce, mail,
                              result, happened>>
    BY <1>5, NextReceives
  <2>2. Synchronous' /\ Reductions'
    BY <1>1, <2>1, ReceiveReductions
  <2>3. \A u \in Worker : InLoop(u)' <=> InLoop(u)
    BY <2>1 DEF InLoop, Receives, GoesTo, CallsOfWorker, Types
  <2>4. Counts'
    BY <2>1, <2>3, StayCounts
  <2>5. Results'
    BY <2>1, ResultsKept
  <2>. QED
    BY <2>2, <2>4, <2>5
<1>6. ASSUME NEW w \in Worker, EndLoop(w)
      PROVE  Synchronous' /\ Reductions' /\ Counts' /\ Results'
  <2>1. /\ UNCHANGED <<setup, program, mpos, at, iteration, counter, series, reduce, mail, result,
                       happened>>
        /\ wpc[w] = "loop" /\ wpc'[w] = "post" /\ ended[w] /\ ~ended'[w]
        /\ \A u \in Worker \ {w} : wpc'[u] = wpc[u] /\ ended'[u] = ended[u]
    BY <1>6 DEF EndLoop, GoesTo, Types, Shapes
  <2>2. Synchronous'
    BY <2>1, StaySync
  <2>3. Reductions'
    BY <2>1, StayReductions
  <2>4. Counts'
    BY <2>1, StayCounts DEF InLoop
  <2>5. Results'
    BY <2>1, ResultsKept
  <2>. QED
    BY <2>2, <2>3, <2>4, <2>5
<1>7. ASSUME NEW w \in Worker, PerfToMaster(w)
      PROVE  Synchronous' /\ Reductions' /\ Counts' /\ Results'
  <2>1. Synchronous' /\ Reductions'
    BY <1>7, GatherSync, GatherReductions
  <2>2. /\ UNCHANGED <<setup, counter, series, happened, iteration, result>>
        /\ wpc[w] = "gather" /\ wpc'[w] = "command"
        /\ \A u \in Worker \ {w} : wpc'[u] = wpc[u]
    BY <1>7, GatherSync DEF PerfToMaster
  <2>3. Counts'
    BY <2>2, StayCounts DEF InLoop
  <2>4. Results'
    BY <2>2, ResultsKept
  <2>. QED
    BY <2>1, <2>3, <2>4
<1>8. ASSUME NEW w \in Worker, MetricsToMaster(w)
      PROVE  Synchronous' /\ Reductions' /\ Counts' /\ Results'
  <2>1. Synchronous' /\ Reductions'
    BY <1>8, ContributeReductions
  <2>2. /\ UNCHANGED <<setup, counter, series, happened, iteration, result>>
        /\ wpc[w] = "reduce" /\ wpc'[w] \in {"reduced", "command"}
        /\ \A u \in Worker \ {w} : wpc'[u] = wpc[u]
    BY <1>8 DEF MetricsToMaster, GoesTo, Types
  <2>3. Counts'
    BY <2>2, StayCounts DEF InLoop
  <2>4. Results'
    BY <2>2, ResultsKept
  <2>. QED
    BY <2>1, <2>3, <2>4
<1>9. CASE SendSums
  <2>1. Synchronous' /\ Reductions'
    BY <1>9, SendReductions
  <2>2. /\ UNCHANGED <<setup, counter, series, happened, iteration, result>>
        /\ wpc[Root] = "reduced" /\ wpc'[Root] = "send"
        /\ \A u \in Worker \ {Root} : wpc'[u] = wpc[u]
    BY <1>9, RootIsWorker DEF SendSums, GoesTo, Types
  <2>3. Counts'
    BY <2>2, StayCounts DEF InLoop
  <2>4. Results'
    BY <2>2, ResultsKept
  <2>. QED
    BY <2>1, <2>3, <2>4
<1>10. ASSUME UNCHANGED <<setup, program, mpos, at, ended, reduce, mail, happened, iteration, result,
                         counter, series>>,
              \A u \in Worker : \/ wpc'[u] = wpc[u]
                               \/ (wpc[u] = "send" /\ wpc'[u] = "command")
                               \/ (wpc[u] = "postsim" /\ wpc'[u] = "stopped")
       PROVE  Synchronous' /\ Reductions' /\ Counts' /\ Results'
  <2>1. Synchronous'
    BY <1>10, StaySync
  <2>2. Reductions'
    BY <1>10, StayReductions
  <2>3. Counts'
    BY <1>10, StayCounts DEF InLoop
  <2>4. Results'
    BY <1>10, ResultsKept
  <2>. QED
    BY <2>1, <2>2, <2>3, <2>4
<1>11. CASE SumsSent
  <2>1. /\ UNCHANGED <<setup, program, mpos, at, ended, reduce, mail, happened, iteration, result,
                        counter, series>>
        /\ wpc[Root] = "send" /\ wpc' = [wpc EXCEPT ![Root] = "command"]
    BY <1>11 DEF SumsSent, GoesTo
  <2>2. ASSUME NEW u \in Worker
        PROVE  \/ wpc'[u] = wpc[u]
               \/ (wpc[u] = "send" /\ wpc'[u] = "command")
               \/ (wpc[u] = "postsim" /\ wpc'[u] = "stopped")
    BY <2>1, RootIsWorker DEF Types
  <2>. QED
    BY <1>10, <2>1, <2>2
<1>12. CASE SimulationEnd
  <2>1. PICK W \in SUBSET Worker : PostSim(W)
    BY <1>12 DEF SimulationEnd
  <2>2. /\ UNCHANGED <<setup, program, mpos, at, ended, reduce, mail, happened, iteration, result,
                        counter, series>>
        /\ \A w \in W : wpc[w] = "postsim"
        /\ wpc' = [w \in Worker |-> IF w \in W THEN "stopped" ELSE wpc[w]]
    BY <2>1 DEF PostSim
  <2>3. ASSUME NEW u \in Worker
        PROVE  \/ wpc'[u] = wpc[u]
               \/ (wpc[u] = "send" /\ wpc'[u] = "command")
               \/ (wpc[u] = "postsim" /\ wpc'[u] = "stopped")
    BY <2>2
  <2>. QED
    BY <1>10, <2>2, <2>3
<1>13. CASE IterationEnd
  <2>1. PICK W \in SUBSET Worker : PostIter(W)
    BY <1>13 DEF IterationEnd
  <2>2. /\ UNCHANGED <<setup, program, mpos, at, iteration, ended, reduce, mail, result, happened>>
        /\ \A u \in Worker : IF u \in W THEN wpc[u] = "post" /\ wpc'[u] = "command"
                             ELSE wpc'[u] = wpc[u]
    BY <2>1 DEF PostIter
  <2>3. Synchronous'
    BY <2>2, StaySync
  <2>4. ASSUME NEW u \in Worker, Contributed(u)
        PROVE  series'[u] = series[u]
    <3>1. u \notin W
      BY <2>2, <2>4, InLoopReductions DEF InLoop
    <3>2. series'[u] = [t \in Metrics |-> series[u][t]]
      BY <2>1, <3>1 DEF PostIter
    <3>3. series[u] \in [Metrics -> Seq(Nat)]
      BY DEF Counts
    <3>. QED
      BY <3>2, <3>3
  <2>5. Reductions'
    BY <2>2, <2>4, StayReductions
  <2>6. Counts' /\ Results'
    BY <2>1, <2>2, PostIterCounts, ResultsKept
  <2>. QED
    BY <2>3, <2>5, <2>6
<1>14. ASSUME NEW w \in Worker, NEW t \in Metrics, Count(w, t)
       PROVE  Synchronous' /\ Reductions' /\ Counts' /\ Results'
  <2>1. /\ UNCHANGED <<setup, program, mpos, at, wpc, ended, series, reduce, mail>> /\ InLoop(w)
    BY <1>14 DEF Count, InLoop
  <2>2. Synchronous'
    BY <2>1, StaySync
  <2>3. Reductions'
    BY <2>1, InLoopReductions, StayReductions
  <2>. QED
    BY <1>14, <2>2, <2>3, EventCounts, EventResults
<1>15. CASE Stopped \/ UNCHANGED vars
  <2>1. /\ UNCHANGED <<setup, program, mpos, at, ended, reduce, mail, happened, iteration, result,
                        counter, series>>
        /\ UNCHANGED wpc
    BY <1>15 DEF Stopped, vars
  <2>. QED
    BY <1>10, <2>1
<1>. QED
  BY <1>3, <1>4, <1>5, <1>6, <1>7, <1>8, <1>9, <1>11, <1>12, <1>13, <1>14, <1>15
     DEF Next, WorkerStep, Together

\* The workers, the master, the reductions and the counts are as the invariant
\* has them.
THEOREM Invariant == Spec => []IInv
<1>1. IInv /\ [Next]_vars => IInv'
  BY NextInv
<1>. QED
  BY <1>1, InitInv, PTL DEF Spec

\* What printStatistics writes for a metric is, for each iteration, the number of
\* events of that iteration on all workers, however the workers' counting, the
\* resets of the counters and the reductions interleave.
THEOREM MetricsAreExact == Spec => []MetricsExact
<1>1. IInv => MetricsExact
  BY DEF IInv, Results, MetricsExact
<1>. QED
  BY <1>1, Invariant, PTL

\* The variables keep their types: a worker has at most as many entries in a
\* series as iterations, and at most one contribution and one message are under
\* way.
THEOREM TypesKept == Spec => []TypeOK
<1>1. IInv => TypeOK
  <2>. SUFFICES ASSUME IInv PROVE TypeOK
    OBVIOUS
  <2>1. Types /\ Places /\ Counts /\ Results /\ Reductions
    BY DEF IInv
  <2>2. ASSUME NEW w \in Worker
        PROVE  /\ at[w] \in 1 .. Len(program) + 1 /\ names[w] \in 0 .. NSpecies
               /\ asked[w] \in Timings \cup Metrics /\ iteration[w] \in 0 .. setup.timesteps
               /\ \A t \in Metrics : Len(series[w][t]) <= iteration[w]
               /\ Len(reduce[w]) <= 1
    <3>1. /\ at[w] \in 1 .. Len(program) + 1 /\ names[w] \in 0 .. NSpecies
          /\ asked[w] \in Timings \cup Metrics /\ iteration[w] \in 0 .. setup.timesteps
          /\ iteration[w] \in Nat
      BY <2>1, Layout DEF Types, T
    <3>2. ASSUME NEW t \in Metrics PROVE Len(series[w][t]) <= iteration[w]
      <4>1. Len(<<>>) = 0
        OBVIOUS
      <4>2. /\ t \in Stored => Len(series[w][t]) = IF InLoop(w) THEN iteration[w] - 1 ELSE iteration[w]
            /\ t \notin Stored => series[w][t] = <<>>
        BY <2>1 DEF Counts
      <4>. QED
        BY <3>1, <4>1, <4>2
    <3>3. Len(reduce[w]) <= 1
      <4>. DEFINE S == series[w][Current.value]
      <4>1. reduce[w] = <<>> \/ reduce[w] = <<S>>
        BY <2>1 DEF Reductions
      <4>2. Len(<<S>>) = 1 /\ Len(<<>>) = 0
        OBVIOUS
      <4>. HIDE DEF S
      <4>3. CASE reduce[w] = <<>>
        BY <4>2, <4>3
      <4>4. CASE reduce[w] = <<S>>
        <5>1. Len(reduce[w]) = 1
          BY <4>2, <4>4
        <5>. QED
          BY <5>1
      <4>. QED
        BY <4>1, <4>3, <4>4
    <3>. QED
      BY <3>1, <3>2, <3>3
  <2>3. Len(mail) <= 1
    BY <2>1 DEF Reductions
  <2>4. DOMAIN result \subseteq Metrics
    BY <2>1, StoredMetrics DEF Results
  <2>. QED
    BY <2>1, <2>2, <2>3, <2>4 DEF TypeOK, Types
<1>. QED
  BY <1>1, Invariant, PTL
=============================================================================
