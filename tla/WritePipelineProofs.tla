-------------------------- MODULE WritePipelineProofs --------------------------
(***************************************************************************)
(* WritePipeline for any number of nodes, domains and writes, any number   *)
(* of threads at a time and any faults: its types, and the safety          *)
(* properties the runs check.                                              *)
(***************************************************************************)
EXTENDS WritePipeline, FiniteSetTheorems, TLAPS

\* The writes whose thread has begun.
Started == {w \in Write : pc[w] # "idle"}

\* A counter never passes the number of writes begun, so it stays in Num.
Counted ==
  /\ \A n \in Node : currLogNum[n] <= Cardinality(Started)
  /\ \A w \in Write : num[w] <= Cardinality(Started)

\* What a thread has in hand at each of its steps.
InHand ==
  \A w \in Write :
    /\ pc[w] = "number" => currLogNum[entry[w]] # 0
    /\ pc[w] = "log" => num[w] # 0
    /\ pc[w] \in {"log", "commit"} => num[w] \in DOMAIN logs[entry[w]]
    /\ pc[w] \in {"read", "truncate", "write"} => update[w] \in Write

Inv == TypeOK /\ Counted /\ InHand

-------------------------------------------------------------------------------
(* The operators the pipeline is built from.                               *)

LEMMA PutPartial ==
  ASSUME NEW S, NEW T, NEW f, Partial(f, S, T), NEW k \in S, NEW v \in T
  PROVE  Partial(Put(f, k, v), S, T)
BY DEF Partial, Put

LEMMA EmptyPartial == ASSUME NEW S, NEW T PROVE Partial(Empty, S, T)
BY DEF Partial, Empty

\* Starting one more write makes room for one more number.
LEMMA StartedGrows ==
  ASSUME TypeOK, NEW w \in Write, pc[w] = "idle",
         NEW p, p # "idle", pc' = [pc EXCEPT ![w] = p]
  PROVE  /\ Cardinality(Started) \in Nat
         /\ Cardinality(Started)' = Cardinality(Started) + 1
         /\ Cardinality(Started)' <= Cardinality(Write)
<1>1. Started' = Started \cup {w} /\ w \notin Started /\ Started' \subseteq Write
  BY DEF TypeOK, Started
<1>2. IsFiniteSet(Started) /\ IsFiniteSet(Started')
  BY <1>1, FS_Subset, PipelineAssumption DEF Started
<1> QED
  BY <1>1, <1>2, FS_Subset, FS_AddElement, FS_CardinalityType, PipelineAssumption

\* A step of a thread that has begun, or of no thread, leaves the count alone.
LEMMA StartedStays ==
  ASSUME TypeOK, Started' = Started
  PROVE  /\ Cardinality(Started) \in Nat
         /\ Cardinality(Started)' = Cardinality(Started)
         /\ Cardinality(Started) <= Cardinality(Write)
<1>1. Started \subseteq Write
  BY DEF Started
<1> QED
  BY <1>1, FS_Subset, FS_CardinalityType, PipelineAssumption

\* The counters are numbers.
LEMMA CountersType ==
  ASSUME TypeOK
  PROVE  /\ \A n \in Node : currLogNum[n] \in Nat
         /\ \A w \in Write : num[w] \in Nat
<1>1. Num \cup {0} \subseteq Nat
  BY DEF Num
<1> QED BY <1>1 DEF TypeOK

LEMMA WriteCount == Cardinality(Write) \in Nat
BY FS_CardinalityType, PipelineAssumption

-------------------------------------------------------------------------------
(* Types.                                                                  *)

LEMMA InitInv == Init => Inv
<1> SUFFICES ASSUME Init PROVE Inv
  OBVIOUS
<1>0. Started = {}
  BY DEF Init, Started
<1>1. Cardinality(Started) = 0
  BY <1>0, FS_EmptySet
<1>2. Partial(file, Domain, Value \ {NA})
  BY PipelineAssumption DEF Init, Partial, Value
<1>3. \A S, T : Partial(Empty, S, T)
  BY EmptyPartial
<1>4. records \in [Node -> [Domain -> Value]]
  BY <1>2 DEF Init, Loaded, Partial, Value
<1>5. TypeOK
  BY <1>2, <1>3, <1>4, PipelineAssumption, WriteCount DEF Init, TypeOK, Num, Value
<1> QED
  BY <1>1, <1>5 DEF Init, Inv, Counted, InHand

\* The increment stays in Num: no node has counted more writes than have begun.
LEMMA IncrementInv ==
  ASSUME Inv, NEW w \in Write, pc[w] = "idle", Increment(w),
         UNCHANGED <<entry, logs, num, update>>
  PROVE  currLogNum' \in [Node -> Num \cup {0}] /\ Counted' /\ InHand'
<1>1. /\ Cardinality(Started) \in Nat
      /\ Cardinality(Started)' = Cardinality(Started) + 1
      /\ Cardinality(Started)' <= Cardinality(Write)
  BY StartedGrows DEF Inv, Increment
<1>2. entry[w] \in Node
  BY DEF Inv, TypeOK
<1>3. \A n \in Node : currLogNum'[n] \in Nat /\ currLogNum'[n] <= Cardinality(Started)'
  <2>1. \A n \in Node : currLogNum'[n] = currLogNum[n] \/ currLogNum'[n] = currLogNum[n] + 1
    BY <1>2 DEF Inv, Increment, TypeOK
  <2>2. \A n \in Node : currLogNum[n] \in Nat /\ currLogNum[n] <= Cardinality(Started)
    BY CountersType DEF Inv, Counted
  <2> HIDE DEF Started
  <2> QED BY <1>1, <2>1, <2>2
<1>4. currLogNum' \in [Node -> Num \cup {0}]
  BY <1>1, <1>3, WriteCount DEF Inv, Increment, TypeOK, Num
<1>5. Counted'
  <2>1. \A v \in Write : num'[v] \in Nat /\ num'[v] <= Cardinality(Started)
    BY CountersType DEF Inv, Counted
  <2>2. \A v \in Write : num'[v] <= Cardinality(Started)'
    <3> HIDE DEF Started
    <3> QED BY <1>1, <2>1
  <2> QED BY <1>3, <2>2 DEF Counted
<1>6. InHand'
  BY <1>2 DEF Inv, InHand, TypeOK, Increment, Num
<1> QED BY <1>4, <1>5, <1>6

LEMMA writeHandler1Inv == ASSUME Inv, NEW w \in Write, writeHandler1(w) PROVE Inv'
<1>1. currLogNum' \in [Node -> Num \cup {0}] /\ Counted' /\ InHand'
  BY IncrementInv DEF writeHandler1, Start
<1>2. /\ UNCHANGED <<entry, logs, logAck, records, num, lines, update, file, msgs, quorum,
                      last, sole, torn, faults>>
      /\ bound' = bound \cup {entry[w]} /\ pc' = [pc EXCEPT ![w] = "number"]
      /\ overlap' = (overlap \/ \E v \in Write : Running(v))
  BY DEF writeHandler1, Start, Increment
<1>3. bound' \in SUBSET Node
  BY <1>2 DEF Inv, TypeOK
<1>4. overlap' \in BOOLEAN
  BY <1>2 DEF Inv, TypeOK
<1>5. pc' \in [Write -> {"idle", "number", "log", "commit", "read", "truncate", "write",
                        "done", "failed", "nxdomain", "killed"}]
  BY <1>2 DEF Inv, TypeOK
<1>6. TypeOK'
  BY <1>1, <1>2, <1>3, <1>4, <1>5 DEF Inv, TypeOK
<1> QED BY <1>1, <1>6 DEF Inv

\* A thread that begins and ends at once.
LEMMA GivenUpInv ==
  ASSUME Inv, NEW w \in Write, pc[w] = "idle", NEW p \in {"failed", "nxdomain"},
         pc' = [pc EXCEPT ![w] = p], UNCHANGED <<entry, currLogNum, logs, num, update>>
  PROVE  Counted' /\ InHand'
<1>1. /\ Cardinality(Started) \in Nat
      /\ Cardinality(Started)' = Cardinality(Started) + 1
  BY StartedGrows DEF Inv
<1>2. \A i \in Nat : i <= Cardinality(Started) => i <= Cardinality(Started)'
  BY <1>1
<1>3. Counted'
  BY <1>2, CountersType DEF Inv, Counted
<1>4. InHand'
  BY DEF Inv, InHand, TypeOK
<1> QED BY <1>3, <1>4

LEMMA newRecordInv == ASSUME Inv, NEW w \in Write, newRecord(w) PROVE Inv'
<1>1. CASE Increment(w)
  <2>1. currLogNum' \in [Node -> Num \cup {0}] /\ Counted' /\ InHand'
    BY <1>1, IncrementInv DEF newRecord, Start
  <2>2. TypeOK'
    BY <1>1, <2>1 DEF Inv, TypeOK, newRecord, Start, Increment
  <2> QED BY <2>1, <2>2 DEF Inv
<1>2. CASE pc' = [pc EXCEPT ![w] = "failed"] /\ UNCHANGED currLogNum
  <2>1. Counted' /\ InHand'
    BY <1>2, GivenUpInv DEF newRecord, Start
  <2>2. TypeOK'
    BY <1>2 DEF Inv, TypeOK, newRecord, Start
  <2> QED BY <2>1, <2>2 DEF Inv
<1> QED BY <1>1, <1>2 DEF newRecord

LEMMA UnresolvableInv == ASSUME Inv, NEW w \in Write, Unresolvable(w) PROVE Inv'
<1>1. Counted' /\ InHand'
  BY GivenUpInv DEF Unresolvable, Start, nodeVars
<1>2. TypeOK'
  BY DEF Inv, TypeOK, Unresolvable, Start, nodeVars
<1> QED BY <1>1, <1>2 DEF Inv

LEMMA TakeNumberInv == ASSUME Inv, NEW w \in Write, TakeNumber(w) PROVE Inv'
<1> DEFINE n == entry[w]
           k == currLogNum[n]
<1>1. n \in Node /\ k \in Num
  BY DEF Inv, TypeOK, InHand, TakeNumber
<1>2. /\ logs' = [logs EXCEPT ![n] = Put(logs[n], k, w)]
      /\ Partial(Put(logs[n], k, w), Num, Write)
      /\ DOMAIN Put(logs[n], k, w) = DOMAIN logs[n] \cup {k}
  <2>1. logs' = [logs EXCEPT ![n] = Put(logs[n], k, w)]
    BY DEF TakeNumber, Logged
  <2>2. Partial(logs[n], Num, Write)
    BY <1>1 DEF Inv, TypeOK
  <2>3. Partial(Put(logs[n], k, w), Num, Write)
    BY <1>1, <2>2, PutPartial
  <2>4. DOMAIN Put(logs[n], k, w) = DOMAIN logs[n] \cup {k}
    BY DEF Put
  <2> QED BY <2>1, <2>3, <2>4
<1>3. TypeOK'
  BY <1>1, <1>2 DEF Inv, TypeOK, TakeNumber, history
<1>4. Started' = Started
  BY DEF Inv, TypeOK, TakeNumber, Started
<1>5. Counted'
  BY <1>1, <1>4, StartedStays DEF Inv, TypeOK, Counted, TakeNumber
<1>6. InHand'
  BY <1>1, <1>2 DEF Inv, TypeOK, InHand, TakeNumber, Num
<1> QED BY <1>3, <1>5, <1>6 DEF Inv

LEMMA sendLogInv == ASSUME Inv, NEW w \in Write, sendLog(w) PROVE Inv'
<1>1. entry[w] \in Node /\ num[w] \in Num
  BY DEF Inv, TypeOK, InHand, sendLog
<1>2. msgs' \subseteq Entry \cup Ack
  BY <1>1 DEF Inv, TypeOK, sendLog, Entry
<1>3. TypeOK'
  BY <1>1, <1>2 DEF Inv, TypeOK, sendLog, history
<1>4. Started' = Started
  BY DEF Inv, TypeOK, sendLog, Started
<1>5. Counted'
  BY <1>1, <1>4, StartedStays DEF Inv, TypeOK, Counted, sendLog
<1>6. InHand'
  BY <1>1 DEF Inv, TypeOK, InHand, sendLog, Num
<1> QED BY <1>3, <1>5, <1>6 DEF Inv

\* The steps of commitHandler touch no counter and no log.
LEMMA CommitStep ==
  ASSUME Inv, NEW w \in Write, pc[w] \in {"commit", "read", "truncate", "write"},
         NEW p \in {"read", "truncate", "write", "done"}, pc' = [pc EXCEPT ![w] = p],
         p # "done" => update'[w] \in Write,
         \A v \in Write : v # w => update'[v] = update[v],
         UNCHANGED <<entry, currLogNum, logs, num>>
  PROVE  Counted' /\ InHand'
<1>1. Started' = Started
  BY DEF Inv, TypeOK, Started
<1>2. Counted'
  BY <1>1, StartedStays DEF Inv, TypeOK, Counted
<1>3. InHand'
  BY DEF Inv, TypeOK, InHand
<1> QED BY <1>2, <1>3

LEMMA JumblePartial == Partial(Jumble, Domain, Value \ {NA})
BY PipelineAssumption DEF Partial, Jumble, Value

LEMMA OpenFileInv == ASSUME Inv, NEW w \in Write, OpenFile(w) PROVE Inv'
<1>1. logs[entry[w]][num[w]] \in Write
  BY DEF Inv, TypeOK, InHand, OpenFile, Partial
<1>2. TypeOK'
  BY <1>1 DEF Inv, TypeOK, OpenFile, nodeVars
<1>3. Counted' /\ InHand'
  BY <1>1, CommitStep DEF OpenFile, nodeVars, Inv, TypeOK
<1> QED BY <1>2, <1>3 DEF Inv

LEMMA ReadFileInv == ASSUME Inv, NEW w \in Write, ReadFile(w) PROVE Inv'
<1>1. update[w] \in Write /\ DomainOf[update[w]] \in Domain
  BY PipelineAssumption DEF Inv, InHand, ReadFile
<1>2. Partial(Put(file, DomainOf[update[w]], update[w]), Domain, Value \ {NA})
  BY <1>1, PutPartial, PipelineAssumption DEF Inv, TypeOK, Value
<1>3. \A v \in Write : Partial(lines'[v], Domain, Value \ {NA})
  BY <1>2, JumblePartial DEF Inv, TypeOK, ReadFile, Edited
<1>4. DOMAIN lines' = Write /\ torn' \in BOOLEAN
  BY DEF Inv, TypeOK, ReadFile
<1>5. TypeOK'
  BY <1>3, <1>4 DEF Inv, TypeOK, ReadFile, nodeVars
<1>6. Counted' /\ InHand'
  BY <1>1, CommitStep DEF ReadFile, nodeVars
<1> QED BY <1>5, <1>6 DEF Inv

LEMMA TruncateInv == ASSUME Inv, NEW w \in Write, Truncate(w) PROVE Inv'
<1>1. TypeOK'
  BY JumblePartial DEF Inv, TypeOK, Truncate, nodeVars
<1>2. update[w] \in Write
  BY DEF Inv, InHand, Truncate
<1>3. Counted' /\ InHand'
  BY <1>2, CommitStep DEF Truncate, nodeVars
<1> QED BY <1>1, <1>3 DEF Inv

LEMMA WriteBackInv == ASSUME Inv, NEW w \in Write, WriteBack(w) PROVE Inv'
<1>1. update[w] \in Write /\ entry[w] \in Node
  BY DEF Inv, TypeOK, InHand, WriteBack
<1>2. Partial(file', Domain, Value \ {NA})
  BY JumblePartial DEF Inv, TypeOK, WriteBack
<1>3. \A v \in Write : Partial(lines'[v], Domain, Value \ {NA})
  BY EmptyPartial DEF Inv, TypeOK, WriteBack
<1>4. records' \in [Node -> [Domain -> Value]]
  BY <1>1, PipelineAssumption DEF Inv, TypeOK, WriteBack, Value
<1>5. last' \in [Domain -> Value \ {Torn}]
  BY PipelineAssumption DEF Inv, TypeOK, WriteBack, Value
<1>6. DOMAIN lines' = Write /\ torn' \in BOOLEAN
  BY DEF Inv, TypeOK, WriteBack
<1>7. TypeOK'
  BY <1>2, <1>3, <1>4, <1>5, <1>6 DEF Inv, TypeOK, WriteBack
<1>8. Counted' /\ InHand'
  BY <1>1, CommitStep DEF WriteBack
<1> QED BY <1>7, <1>8 DEF Inv

LEMMA writeHandler2Inv == ASSUME Inv, NEW m \in msgs, writeHandler2(m) PROVE Inv'
<1> DEFINE n == m.dst
<1>1. m \in Entry /\ n \in Node /\ m.num \in Num /\ m.write \in Write
  BY DEF Inv, TypeOK, writeHandler2, Entry, Ack
<1>2. Partial(logs[n], Num, Write)
  BY <1>1 DEF Inv, TypeOK
<1>3. Partial(Put(logs[n], m.num, m.write), Num, Write)
  BY <1>1, <1>2, PutPartial
<1>4. /\ DOMAIN Put(logs[n], m.num, m.write) = DOMAIN logs[n] \cup {m.num}
      /\ logs' = [logs EXCEPT ![n] = Put(logs[n], m.num, m.write)]
  BY DEF Put, writeHandler2, Logged
<1>5. records' \in [Node -> [Domain -> Value]]
  BY <1>1, PipelineAssumption DEF Inv, TypeOK, writeHandler2, Kept, Value
<1>6. msgs' \subseteq Entry \cup Ack
  BY <1>1, PipelineAssumption DEF Inv, TypeOK, writeHandler2, sendAck, Ack
<1>7. TypeOK'
  BY <1>1, <1>3, <1>4, <1>5, <1>6
     DEF Inv, TypeOK, writeHandler2, threadVars, history
<1>8. Counted'
  BY DEF Inv, Counted, Started, writeHandler2, threadVars
<1>9. InHand'
  BY <1>1, <1>4 DEF Inv, TypeOK, InHand, writeHandler2, threadVars
<1> QED BY <1>7, <1>8, <1>9 DEF Inv

LEMMA ackHandlerInv == ASSUME Inv, NEW m \in msgs, ackHandler(m) PROVE Inv'
<1> DEFINE n == m.dst
<1>1. n \in Node /\ m.num \in Num
  BY DEF Inv, TypeOK, ackHandler, Entry, Ack
<1>2. logAck' \in [Node -> [Num -> Nat]]
  BY <1>1 DEF Inv, TypeOK, ackHandler
<1>3. quorum' \subseteq Write
  BY DEF Inv, TypeOK, ackHandler
<1>4. TypeOK'
  BY <1>1, <1>2, <1>3 DEF Inv, TypeOK, ackHandler, threadVars, history
<1>5. Counted' /\ InHand'
  BY DEF Inv, Counted, InHand, Started, ackHandler, threadVars
<1> QED BY <1>4, <1>5 DEF Inv

LEMMA LoseInv == ASSUME Inv, NEW m \in msgs, Lose(m) PROVE Inv'
<1>1. TypeOK'
  BY DEF Inv, TypeOK, Lose, Fault, nodeVars, threadVars, history
<1>2. Counted' /\ InHand'
  BY DEF Inv, Counted, InHand, Started, Lose, nodeVars, threadVars
<1> QED BY <1>1, <1>2 DEF Inv

LEMMA DiskInv == ASSUME Inv, NEW w \in Write, DiskError(w) \/ DiskFull(w) PROVE Inv'
<1>1. TypeOK'
  BY DEF Inv, TypeOK, DiskError, DiskFull, Fault, nodeVars
<1>2. Counted' /\ InHand'
  BY CommitStep DEF DiskError, DiskFull, Rewriting, nodeVars
<1> QED BY <1>1, <1>2 DEF Inv

\* What a node loads again is of the right type.
LEMMA LoadedType == ASSUME TypeOK, NEW n \in Node PROVE Loaded(n, file) \in [Domain -> Value]
<1>1. \A d \in DOMAIN file : file[d] \in Value
  BY DEF TypeOK, Partial
<1> QED BY <1>1 DEF Loaded, Value

LEMMA CrashInv == ASSUME Inv, NEW n \in Node, Crash(n) PROVE Inv'
<1>1. /\ Loaded(n, file) \in [Domain -> Value]
      /\ Partial(Empty, Num, Write)
  BY LoadedType, EmptyPartial DEF Inv
<1>2. /\ records' \in [Node -> [Domain -> Value]]
      /\ DOMAIN logs' = Node /\ \A m \in Node : Partial(logs[m], Num, Write)'
  BY <1>1 DEF Inv, TypeOK, Crash
<1>3. /\ currLogNum' \in [Node -> Num \cup {0}]
      /\ logAck' \in [Node -> [Num -> Nat]]
      /\ msgs' \subseteq Entry \cup Ack
      /\ faults' \subseteq FaultKinds
  BY DEF Inv, TypeOK, Crash, Fault
<1>4. pc' \in [Write -> {"idle", "number", "log", "commit", "read", "truncate", "write",
                         "done", "failed", "nxdomain", "killed"}]
  BY DEF Inv, TypeOK, Crash
<1>5. TypeOK'
  BY <1>2, <1>3, <1>4 DEF Inv, TypeOK, Crash, history
<1>6. Started' = Started
  BY DEF Inv, TypeOK, Crash, Started, Running
<1>7. Counted'
  <2>1. Cardinality(Started) \in Nat /\ Cardinality(Started)' = Cardinality(Started)
    BY <1>6, StartedStays DEF Inv
  <2>2. \A m \in Node : currLogNum'[m] = currLogNum[m] \/ currLogNum'[m] = 0
    BY DEF Inv, TypeOK, Crash
  <2> QED BY <2>1, <2>2 DEF Inv, Counted, Crash
<1>8. InHand'
  BY DEF Inv, TypeOK, InHand, Crash, Running
<1> QED BY <1>5, <1>7, <1>8 DEF Inv

LEMMA StepInv == Inv /\ [Next]_vars => Inv'
<1> SUFFICES ASSUME Inv, [Next]_vars PROVE Inv'
  OBVIOUS
<1>1. ASSUME NEW w \in Write, Thread(w) PROVE Inv'
  BY <1>1, writeHandler1Inv, newRecordInv, UnresolvableInv, TakeNumberInv, sendLogInv,
     OpenFileInv, ReadFileInv, TruncateInv, WriteBackInv DEF Thread
<1>2. CASE Deliver
  BY <1>2, writeHandler2Inv, ackHandlerInv DEF Deliver
<1>3. CASE UNCHANGED vars
  BY <1>3 DEF vars, nodeVars, threadVars, history, Inv, TypeOK, Counted, InHand, Started
<1> QED
  BY <1>1, <1>2, <1>3, DiskInv, LoseInv, CrashInv DEF Next

\* The pipeline keeps its types: whatever races for a number or the file, loses
\* a message or restarts, a node never counts further than there are writes, a
\* number taken is found again in the log, and what commitHandler looks up is a
\* write.
THEOREM TypeCorrect == Spec => []TypeOK
<1>1. Inv => TypeOK
  BY DEF Inv
<1> QED BY <1>1, InitInv, StepInv, PTL DEF Spec

-------------------------------------------------------------------------------
(* Where values come from.                                                 *)

\* What may be found for a domain: a write of it that has begun, or Old.
Legal(d) == {w \in Write : pc[w] # "idle" /\ DomainOf[w] = d}
              \cup (IF d \in Listed THEN {Old} ELSE {})

Restarted(n) == (IF n = Leader THEN "reset" ELSE "crash") \in faults

\* A thread that is alone with the file: while it reads it, nobody rewrites it,
\* and while it rewrites it, nobody else does.
Alone ==
  /\ \A w \in sole : pc[w] \in {"read", "write"}
  /\ \A w \in sole : pc[w] = "read" => \A v \in Write : ~Rewriting(v)
  /\ \A w \in sole : Rewriting(w) => \A v \in Write : Rewriting(v) => v = w

\* Logs and messages, and the records of a node that has not loaded a torn file,
\* hold only what may be found there.
Copied ==
  /\ \A n \in Node : \A d \in Domain :
       records[n][d] \in Legal(d) \cup {NA} \/ (torn /\ n = Owner /\ Restarted(n))
  /\ \A n \in Node : \A k \in DOMAIN logs[n] : logs[n][k] \in Started
  /\ \A m \in msgs : m.type = 2 => m.write \in Started
  /\ \A w \in Write : update[w] \in Started \cup {NA}

\* So do the file, when nobody rewrites it, and the lines of the threads.
Whole ==
  ~torn => /\ (\A w \in Write : ~Rewriting(w)) => \A d \in DOMAIN file : file[d] \in Legal(d)
           /\ \A w \in Write : \A d \in DOMAIN lines[w] : lines[w][d] \in Legal(d)

Provenance == Alone /\ Copied /\ Whole

\* A thread never becomes idle again, so what was legal stays legal.
LEMMA LegalGrows ==
  ASSUME Inv, [Next]_vars
  PROVE  /\ \A w \in Write : pc[w] # "idle" => pc'[w] # "idle"
         /\ Started \subseteq Started'
         /\ \A d : Legal(d) \subseteq Legal(d)'
         /\ faults \subseteq faults' /\ (torn => torn')
<1>1. \A w \in Write : pc[w] # "idle" => pc'[w] # "idle"
  <2>1. ASSUME NEW v \in Write, Thread(v) \/ DiskError(v) \/ DiskFull(v)
        PROVE  \A w \in Write : pc[w] # "idle" => pc'[w] # "idle"
    BY <2>1 DEF Inv, TypeOK, Thread, writeHandler1, newRecord, Unresolvable, Increment, Start,
                TakeNumber, sendLog, OpenFile, ReadFile, Truncate, WriteBack, DiskError, DiskFull
  <2>2. CASE \E n \in Node : Crash(n)
    BY <2>2 DEF Inv, TypeOK, Crash
  <2>3. CASE Deliver \/ (\E m \in msgs : Lose(m)) \/ UNCHANGED vars
    BY <2>3 DEF Deliver, writeHandler2, ackHandler, Lose, vars, threadVars
  <2> QED BY <2>1, <2>2, <2>3 DEF Next
<1>2. faults \subseteq faults' /\ (torn => torn')
  BY DEF Inv, TypeOK, Next, Thread, Deliver, writeHandler1, newRecord, Unresolvable,
         TakeNumber, sendLog, OpenFile, ReadFile, Truncate, WriteBack, DiskError, DiskFull,
         writeHandler2, ackHandler, Lose, Crash, Fault, vars, history
<1> QED BY <1>1, <1>2 DEF Started, Legal

\* A started write is legal for its own domain.
LEMMA StartedLegal ==
  ASSUME NEW w \in Started
  PROVE  w \in Write /\ DomainOf[w] \in Domain /\ w \in Legal(DomainOf[w])
BY PipelineAssumption DEF Started, Legal

\* Steps that copy nothing from one place to another.
LEMMA NothingCopied ==
  ASSUME Copied, Started \subseteq Started', \A d : Legal(d) \subseteq Legal(d)',
         faults \subseteq faults', torn => torn', UNCHANGED <<records, logs, update>>,
         \A m \in msgs' : m.type = 2 => m \in msgs
  PROVE  Copied'
BY DEF Copied, Restarted

\* Steps that leave the file and its readers and writers alone.
LEMMA FileUntouched ==
  ASSUME Inv, Alone, Whole, \A d : Legal(d) \subseteq Legal(d)', UNCHANGED <<file, sole, torn>>,
         lines' = lines,
         \A w \in Write : pc[w] \in {"read", "write"} \/ pc'[w] \in {"read", "write"}
                           => pc'[w] = pc[w]
  PROVE  Alone' /\ Whole'
BY DEF Inv, TypeOK, Alone, Whole, Rewriting

LEMMA StepAlone == Inv /\ Alone /\ Copied /\ Whole /\ [Next]_vars => Alone' /\ Whole'
<1> SUFFICES ASSUME Inv, Alone, Copied, Whole, [Next]_vars PROVE Alone' /\ Whole'
  OBVIOUS
<1>0. \A d : Legal(d) \subseteq Legal(d)'
  BY LegalGrows
<1>1. ASSUME NEW w \in Write, writeHandler1(w) \/ newRecord(w) \/ Unresolvable(w)
                              \/ TakeNumber(w) \/ sendLog(w)
      PROVE  Alone' /\ Whole'
  BY <1>0, <1>1, FileUntouched DEF Inv, TypeOK, writeHandler1, newRecord, Unresolvable, Start,
       Increment, TakeNumber, sendLog, history
<1>2. ASSUME NEW w \in Write, OpenFile(w) PROVE Alone' /\ Whole'
  <2>1. \A v \in Write : pc'[v] = IF v = w THEN "read" ELSE pc[v]
    BY <1>2 DEF Inv, TypeOK, OpenFile
  <2>2. /\ w \notin sole /\ sole' \subseteq sole \cup {w} /\ sole \subseteq Write
        /\ w \in sole' => \A v \in Write : ~Rewriting(v)
    BY <1>2 DEF Inv, TypeOK, Alone, OpenFile
  <2>3. Alone'
    BY <2>1, <2>2 DEF Alone, Rewriting
  <2>4. Whole'
    BY <1>0, <1>2, <2>1 DEF Whole, Rewriting, OpenFile
  <2> QED BY <2>3, <2>4
<1>3. ASSUME NEW w \in Write, ReadFile(w) PROVE Alone' /\ Whole'
  <2> DEFINE u == update[w]
  <2>1. \A v \in Write : pc'[v] = IF v = w THEN "truncate" ELSE pc[v]
    BY <1>3 DEF Inv, TypeOK, ReadFile
  <2>2. Alone'
    BY <1>3, <2>1 DEF Inv, TypeOK, Alone, Rewriting, ReadFile
  <2>3. ASSUME ~torn' PROVE \A d \in DOMAIN Edited(u) : Edited(u)[d] \in Legal(d)
    <3>1. /\ w \in sole /\ ~torn /\ (\A v \in Write : ~Rewriting(v))
          /\ u \in Write /\ pc[w] = "read"
      BY <1>3, <2>3 DEF Alone, ReadFile, Inv, InHand
    <3>2. \A d \in DOMAIN file : file[d] \in Legal(d)
      BY <3>1 DEF Whole
    <3>3. u \in Legal(DomainOf[u]) \/ pc[u] = "idle"
      BY <3>1 DEF Legal
    <3>4. pc[u] # "idle" => file # Jumble
      <4>1. DomainOf[u] \in Domain /\ Torn \notin Legal(DomainOf[u])
        BY <3>1, PipelineAssumption DEF Legal
      <4> QED BY <3>2, <4>1 DEF Jumble
    <3>5. pc[u] # "idle"
      BY <3>1, PipelineAssumption DEF Copied, Started
    <3> QED BY <3>2, <3>3, <3>4, <3>5 DEF Edited, Put
  <2>4. Whole'
    <3> SUFFICES ASSUME ~torn' PROVE Whole'
      BY DEF Whole
    <3>1. ~torn /\ w \in sole
      BY <1>3 DEF ReadFile
    <3>2. \A v \in Write : lines'[v] = IF v = w THEN Edited(u) ELSE lines[v]
      BY <1>3, <3>1 DEF Inv, TypeOK, ReadFile
    <3> QED BY <1>0, <1>3, <2>1, <2>3, <3>1, <3>2 DEF Whole, Rewriting, ReadFile
  <2> QED BY <2>2, <2>4
<1>4. ASSUME NEW w \in Write, Truncate(w) PROVE Alone' /\ Whole'
  <2>1. \A v \in Write : pc'[v] = IF v = w THEN "write" ELSE pc[v]
    BY <1>4 DEF Inv, TypeOK, Truncate
  <2>2. Alone'
    BY <1>4, <2>1 DEF Inv, TypeOK, Alone, Rewriting, Truncate
  <2>3. Whole'
    BY <1>0, <1>4, <2>1 DEF Whole, Rewriting, Truncate
  <2> QED BY <2>2, <2>3
<1>5. ASSUME NEW w \in Write, WriteBack(w) PROVE Alone' /\ Whole'
  <2>1. \A v \in Write : pc'[v] = IF v = w THEN "done" ELSE pc[v]
    BY <1>5 DEF Inv, TypeOK, WriteBack
  <2>2. Alone'
    <3>1. sole' = sole \ {w} /\ sole \subseteq Write
      BY <1>5 DEF Inv, TypeOK, WriteBack
    <3> QED BY <2>1, <3>1 DEF Alone, Rewriting
  <2>3. \A v \in Write : lines'[v] = IF v = w THEN Empty ELSE lines[v]
    BY <1>5 DEF Inv, TypeOK, WriteBack
  <2>4. Whole'
    <3> SUFFICES ASSUME ~torn' PROVE Whole'
      BY DEF Whole
    <3>1. ~torn /\ file' = lines[w]
      BY <1>5 DEF WriteBack
    <3>2. \A v \in Write : \A d \in DOMAIN lines[v] : lines[v][d] \in Legal(d)'
      BY <1>0, <3>1 DEF Whole
    <3>3. DOMAIN Empty = {}
      BY DEF Empty
    <3> QED BY <2>3, <3>1, <3>2, <3>3 DEF Whole
  <2> QED BY <2>2, <2>4
<1>6. ASSUME NEW w \in Write, DiskError(w) \/ DiskFull(w) PROVE Alone' /\ Whole'
  <2>1. \A v \in Write : pc'[v] = IF v = w THEN "done" ELSE pc[v]
    BY <1>6 DEF Inv, TypeOK, DiskError, DiskFull
  <2>2. Alone'
    BY <1>6, <2>1 DEF Inv, TypeOK, Alone, Rewriting, DiskError, DiskFull
  <2>3. Whole'
    BY <1>0, <1>6, <2>1 DEF Whole, Rewriting, DiskError, DiskFull
  <2> QED BY <2>2, <2>3
<1>7. ASSUME NEW m \in msgs, writeHandler2(m) \/ ackHandler(m) \/ Lose(m)
      PROVE  Alone' /\ Whole'
  BY <1>0, <1>7, FileUntouched DEF writeHandler2, ackHandler, Lose, threadVars, history
<1>8. ASSUME NEW n \in Node, Crash(n) PROVE Alone' /\ Whole'
  <2>1. \A v \in Write : pc'[v] = pc[v] \/ (Running(v) /\ entry[v] = n /\ pc'[v] = "killed")
    BY <1>8 DEF Inv, TypeOK, Crash
  <2>2. Alone'
    BY <1>8, <2>1 DEF Inv, TypeOK, Alone, Rewriting, Crash
  <2>3. Whole'
    BY <1>0, <1>8, <2>1 DEF Whole, Rewriting, Crash
  <2> QED BY <2>2, <2>3
<1>9. CASE UNCHANGED vars
  BY <1>0, <1>9, FileUntouched DEF vars, threadVars, history
<1> QED
  BY <1>1, <1>2, <1>3, <1>4, <1>5, <1>6, <1>7, <1>8, <1>9 DEF Next, Thread, Deliver

LEMMA StepCopied == Inv /\ Provenance /\ [Next]_vars => Copied'
<1> SUFFICES ASSUME Inv, Alone, Copied, Whole, [Next]_vars PROVE Copied'
  BY DEF Provenance
<1>0. /\ Started \subseteq Started' /\ \A d : Legal(d) \subseteq Legal(d)'
      /\ faults \subseteq faults' /\ (torn => torn')
  BY LegalGrows
<1>1. ASSUME NEW w \in Write, writeHandler1(w) \/ newRecord(w) \/ Unresolvable(w)
                              \/ ReadFile(w) \/ Truncate(w) \/ DiskError(w) \/ DiskFull(w)
      PROVE  Copied'
  BY <1>0, <1>1, NothingCopied
     DEF writeHandler1, newRecord, Unresolvable, ReadFile, Truncate, DiskError, DiskFull, nodeVars
<1>2. ASSUME NEW w \in Write, TakeNumber(w) PROVE Copied'
  <2>1. w \in Started' /\ entry[w] \in Node
    BY <1>0, <1>2 DEF Inv, TypeOK, TakeNumber, Started
  <2>2. \A n \in Node : \A k \in DOMAIN logs'[n] : logs'[n][k] \in Started'
    BY <1>0, <1>2, <2>1 DEF Inv, TypeOK, Copied, TakeNumber, Logged, Put
  <2> QED BY <1>0, <1>2, <2>2 DEF Copied, Restarted, TakeNumber
<1>3. ASSUME NEW w \in Write, sendLog(w) PROVE Copied'
  <2>1. w \in Started'
    BY <1>0, <1>3 DEF sendLog, Started
  <2>2. \A m \in msgs' : m.type = 2 => m.write \in Started'
    BY <1>0, <1>3, <2>1 DEF Copied, sendLog
  <2> QED BY <1>0, <1>3, <2>2 DEF Copied, Restarted, sendLog
<1>4. ASSUME NEW w \in Write, OpenFile(w) PROVE Copied'
  <2>1. logs[entry[w]][num[w]] \in Started
    BY <1>4 DEF Inv, InHand, TypeOK, Copied, OpenFile
  <2>2. \A v \in Write : update'[v] \in Started' \cup {NA}
    BY <1>0, <1>4, <2>1 DEF Inv, TypeOK, Copied, OpenFile
  <2> QED BY <1>0, <1>4, <2>2 DEF Copied, Restarted, OpenFile, nodeVars
<1>5. ASSUME NEW w \in Write, WriteBack(w) PROVE Copied'
  <2>1. update[w] \in Started /\ entry[w] \in Node
    BY <1>5, PipelineAssumption DEF Inv, InHand, TypeOK, Copied, WriteBack
  <2>2. \A n \in Node : \A d \in Domain :
          records'[n][d] \in Legal(d)' \cup {NA} \/ records'[n][d] = records[n][d]
    BY <1>0, <1>5, <2>1, StartedLegal DEF Inv, TypeOK, WriteBack
  <2> QED BY <1>0, <1>5, <2>2 DEF Copied, Restarted, WriteBack
<1>6. ASSUME NEW m \in msgs, writeHandler2(m) PROVE Copied'
  <2>1. m.write \in Started /\ m.dst \in Node
    BY <1>6 DEF Inv, TypeOK, Copied, writeHandler2, Entry, Ack
  <2>2. \A n \in Node : \A k \in DOMAIN logs'[n] : logs'[n][k] \in Started'
    BY <1>0, <1>6, <2>1 DEF Inv, TypeOK, Copied, writeHandler2, Logged, Put
  <2>3. \A n \in Node : \A d \in Domain :
          records'[n][d] \in Legal(d)' \cup {NA} \/ records'[n][d] = records[n][d]
    BY <1>0, <1>6, <2>1, StartedLegal DEF Inv, TypeOK, writeHandler2, Kept
  <2>4. \A x \in msgs' : x.type = 2 => x.write \in Started'
    BY <1>0, <1>6 DEF Copied, writeHandler2, sendAck
  <2> QED BY <1>0, <1>6, <2>2, <2>3, <2>4 DEF Copied, Restarted, writeHandler2, threadVars, history
<1>7. ASSUME NEW m \in msgs, ackHandler(m) \/ Lose(m) PROVE Copied'
  BY <1>0, <1>7, NothingCopied DEF ackHandler, Lose, threadVars, nodeVars
<1>8. ASSUME NEW n \in Node, Crash(n) PROVE Copied'
  <2>1. ASSUME NEW d \in Domain
        PROVE  records'[n][d] \in Legal(d)' \cup {NA} \/ (torn' /\ n = Owner /\ Restarted(n)')
    <3>1. records'[n][d] = IF n = Owner /\ d \in DOMAIN file THEN file[d] ELSE NA
      BY <1>8 DEF Inv, TypeOK, Crash, Loaded
    <3>2. Restarted(n)'
      BY <1>8 DEF Crash, Fault, Restarted
    <3>3. torn' \/ (~torn /\ \A w \in Write : ~Rewriting(w))
      BY <1>8 DEF Crash
    <3> QED BY <1>0, <3>1, <3>2, <3>3 DEF Whole
  <2>2. \A x \in Node : x # n => records'[x] = records[x]
    BY <1>8 DEF Inv, TypeOK, Crash
  <2>3. \A x \in Node : \A d \in Domain :
          records'[x][d] \in Legal(d)' \cup {NA} \/ (torn' /\ x = Owner /\ Restarted(x)')
    BY <1>0, <2>1, <2>2 DEF Copied, Restarted
  <2>4. \A x \in Node : \A k \in DOMAIN logs'[x] : logs'[x][k] \in Started'
    BY <1>0, <1>8 DEF Inv, TypeOK, Copied, Crash, Empty
  <2>5. msgs' \subseteq msgs
    BY <1>8 DEF Crash
  <2> QED BY <1>0, <1>8, <2>3, <2>4, <2>5 DEF Copied, Crash
<1>9. CASE UNCHANGED vars
  BY <1>0, <1>9, NothingCopied DEF vars, nodeVars, threadVars
<1> QED
  BY <1>1, <1>2, <1>3, <1>4, <1>5, <1>6, <1>7, <1>8, <1>9 DEF Next, Thread, Deliver

\* Through every log, message and restart a value stays with the domain of its
\* write.  A never-written one gets into the shard file only where rewrites and
\* readers of it met or a rewrite was cut short, and from there into the records
\* of no node but the owner of the shard when it starts again.
THEOREM ValuesAreWritten == Spec => []OnlyWrittenValues
<1>1. Init => Provenance
  BY DEF Init, Provenance, Alone, Copied, Whole, Legal, Loaded, Empty
<1>2. Provenance => OnlyWrittenValues
  BY DEF Provenance, Copied, Whole, Legal, Restarted, OnlyWrittenValues
<1>3. Inv /\ Provenance /\ [Next]_vars => Provenance'
  BY StepAlone, StepCopied DEF Provenance
<1> QED BY <1>1, <1>2, <1>3, InitInv, StepInv, PTL DEF Spec

-------------------------------------------------------------------------------
(* Log numbers while the writes come to the leader one at a time.          *)

\* At most one thread is running; a write has a number from TakeNumber on, no
\* two have the same, and the leader's counter is at the last one given.
Numbered ==
  /\ \A u, v \in Write : Running(u) /\ Running(v) => u = v
  /\ \A w \in Write : pc[w] \in {"idle", "number"} => num[w] = 0
  /\ \A u, v \in Write : num[u] = num[v] /\ num[u] # 0 => u = v
  /\ \A u \in Write : num[u] <= currLogNum[Leader]
  /\ \A u, w \in Write : pc[w] = "number" => num[u] < currLogNum[Leader]
  /\ \A w \in Write : pc[w] = "log" => num[w] = currLogNum[Leader]

\* A write is logged and sent only under its own number.
UnderItsNumber ==
  /\ \A n \in Node : \A k \in DOMAIN logs[n] : num[logs[n][k]] = k
  /\ \A m \in msgs : m.type = 2 => num[m.write] = m.num

Numbering == Orderly => Numbered /\ UnderItsNumber

\* Two updates under one number are the same.
LEMMA SameNumber ==
  ASSUME Inv, Numbering, Orderly, NEW u \in Write, NEW v \in Write,
         num[u] = num[v], num[u] \in Num
  PROVE  u = v
BY DEF Numbering, Numbered, Num

\* What was orderly after a step was orderly before it.
LEMMA OrderlyBefore ==
  ASSUME Inv, [Next]_vars, Orderly'
  PROVE  Orderly /\ \A w \in Write : entry[w] = Leader /\ entry'[w] = Leader
<1>1. entry' = entry /\ (overlap => overlap') /\ faults \subseteq faults'
  BY DEF Inv, TypeOK, Next, Thread, Deliver, writeHandler1, newRecord, Unresolvable, Start,
         TakeNumber, sendLog, OpenFile, ReadFile, Truncate, WriteBack, DiskError, DiskFull, writeHandler2,
         ackHandler, Lose, Crash, Fault, vars, history
<1> QED BY <1>1 DEF Orderly, AtLeader

\* The first number a thread is given while no other is running.
LEMMA StartNumbering ==
  ASSUME Inv, Numbering, Orderly, NEW w \in Write, Start(w), ~overlap',
         entry[w] = Leader, UNCHANGED <<num, logs, msgs>>,
         \/ Increment(w)
         \/ pc' = [pc EXCEPT ![w] = "failed"] /\ UNCHANGED currLogNum
         \/ pc' = [pc EXCEPT ![w] = "nxdomain"] /\ UNCHANGED currLogNum
  PROVE  Numbered' /\ UnderItsNumber'
<1>1. \A v \in Write : ~Running(v)
  BY DEF Start, Inv, TypeOK
<1>2. \A u \in Write : num[u] \in Nat /\ currLogNum[Leader] \in Nat
                       /\ num[u] <= currLogNum[Leader]
  BY CountersType, PipelineAssumption DEF Inv, Numbering, Numbered
<1>3. num[w] = 0
  BY DEF Numbering, Numbered, Start
<1>4. CASE Increment(w)
  <2>1. currLogNum'[Leader] = currLogNum[Leader] + 1
    BY <1>4, PipelineAssumption DEF Inv, TypeOK, Increment
  <2>2. \A v \in Write : IF v = w THEN pc'[v] = "number" ELSE pc'[v] = pc[v]
    BY <1>4 DEF Inv, TypeOK, Increment
  <2> QED BY <1>1, <1>2, <1>3, <2>1, <2>2
          DEF Numbering, Numbered, UnderItsNumber, Running
<1>5. CASE UNCHANGED currLogNum /\ \E p \in {"failed", "nxdomain"} : pc' = [pc EXCEPT ![w] = p]
  <2>1. \A v \in Write : IF v = w THEN pc'[v] \in {"failed", "nxdomain"} ELSE pc'[v] = pc[v]
    BY <1>5 DEF Inv, TypeOK
  <2> QED BY <1>1, <1>2, <1>3, <1>5, <2>1
          DEF Numbering, Numbered, UnderItsNumber, Running
<1> QED BY <1>4, <1>5

LEMMA StepNumbering == Inv /\ Numbering /\ [Next]_vars => Numbering'
<1> SUFFICES ASSUME Inv, Numbering, [Next]_vars, Orderly'
             PROVE  Numbered' /\ UnderItsNumber'
  BY DEF Numbering
<1>0. Orderly /\ Numbered /\ UnderItsNumber /\ ~overlap'
      /\ \A w \in Write : entry[w] = Leader
  BY OrderlyBefore DEF Numbering, Orderly
<1>1. ASSUME NEW w \in Write, writeHandler1(w) \/ newRecord(w) \/ Unresolvable(w)
      PROVE  Numbered' /\ UnderItsNumber'
  BY <1>0, <1>1, StartNumbering DEF writeHandler1, newRecord, Unresolvable, nodeVars
<1>2. ASSUME NEW w \in Write, TakeNumber(w) PROVE Numbered' /\ UnderItsNumber'
  <2> DEFINE k == currLogNum[Leader]
  <2>1. k \in Num /\ k \in Nat /\ k # 0
    BY <1>0, <1>2, CountersType, PipelineAssumption DEF Inv, InHand, TypeOK, TakeNumber
  <2>2. /\ \A v \in Write : num'[v] = IF v = w THEN k ELSE num[v]
        /\ \A v \in Write : pc'[v] = IF v = w THEN "log" ELSE pc[v]
        /\ logs' = [logs EXCEPT ![Leader] = Put(logs[Leader], k, w)]
    BY <1>0, <1>2 DEF Inv, TypeOK, TakeNumber, Logged
  <2>3. num[w] = 0 /\ \A u \in Write : num[u] \in Nat /\ num[u] < k
    BY <1>0, <1>2, CountersType DEF Inv, Numbered, TakeNumber
  <2>4. Numbered'
    BY <1>0, <1>2, <2>1, <2>2, <2>3 DEF Numbered, Running, TakeNumber
  <2>5. \A n \in Node : \A i \in DOMAIN logs'[n] : num'[logs'[n][i]] = i
    <3>1. \A n \in Node : \A i \in DOMAIN logs[n] : logs[n][i] \in Write /\ i # 0
      BY DEF Inv, TypeOK, Partial, Num
    <3>2. \A n \in Node : \A i \in DOMAIN logs[n] : num'[logs[n][i]] = i
      BY <1>0, <2>2, <2>3, <3>1 DEF UnderItsNumber
    <3> QED BY <2>2, <3>2 DEF Inv, TypeOK, Put
  <2>6. \A m \in msgs' : m.type = 2 => num'[m.write] = m.num
    <3>1. \A m \in msgs : m.type = 2 => m.write \in Write /\ m.num # 0
      BY DEF Inv, TypeOK, Entry, Ack, Num
    <3> QED BY <1>0, <1>2, <2>2, <2>3, <3>1 DEF UnderItsNumber, TakeNumber
  <2> QED BY <2>4, <2>5, <2>6 DEF UnderItsNumber
<1>3. ASSUME NEW w \in Write, sendLog(w) PROVE Numbered' /\ UnderItsNumber'
  <2>1. currLogNum' = currLogNum
    BY <1>0, <1>3, PipelineAssumption DEF Inv, TypeOK, sendLog, Numbered
  <2>2. \A v \in Write : pc'[v] = IF v = w THEN "commit" ELSE pc[v]
    BY <1>3 DEF Inv, TypeOK, sendLog
  <2>3. Numbered'
    BY <1>0, <1>3, <2>1, <2>2 DEF Numbered, Running, sendLog
  <2> QED BY <1>0, <1>3, <2>3 DEF UnderItsNumber, sendLog
<1>4. ASSUME NEW w \in Write, OpenFile(w) \/ ReadFile(w) \/ Truncate(w) \/ WriteBack(w)
                              \/ DiskError(w) \/ DiskFull(w)
      PROVE  Numbered' /\ UnderItsNumber'
  <2>1. /\ Running(w) /\ pc[w] \notin {"number", "log"}
        /\ \A v \in Write : v # w => pc'[v] = pc[v]
        /\ pc'[w] \notin {"idle", "number", "log"}
        /\ UNCHANGED <<currLogNum, num, logs, msgs>>
    BY <1>4 DEF Inv, TypeOK, Running, Rewriting, OpenFile, ReadFile, Truncate, WriteBack,
                DiskError, DiskFull, nodeVars
  <2> QED BY <1>0, <2>1 DEF Numbered, UnderItsNumber, Running
<1>5. ASSUME NEW m \in msgs, writeHandler2(m) PROVE Numbered' /\ UnderItsNumber'
  <2>1. m.dst \in Node /\ num[m.write] = m.num
    BY <1>0, <1>5 DEF Inv, TypeOK, Entry, Ack, UnderItsNumber, writeHandler2
  <2>2. \A n \in Node : \A i \in DOMAIN logs'[n] : num[logs'[n][i]] = i
    BY <1>0, <1>5, <2>1 DEF Inv, TypeOK, UnderItsNumber, writeHandler2, Logged, Put
  <2>3. \A x \in msgs' : x.type = 2 => x \in msgs
    BY <1>5 DEF writeHandler2, sendAck
  <2> QED BY <1>0, <1>5, <2>2, <2>3
          DEF Numbered, UnderItsNumber, Running, writeHandler2, threadVars
<1>6. ASSUME NEW m \in msgs, ackHandler(m) \/ Lose(m) PROVE Numbered' /\ UnderItsNumber'
  BY <1>0, <1>6 DEF Numbered, UnderItsNumber, Running, ackHandler, Lose, nodeVars, threadVars
<1>7. ASSUME NEW n \in Node, Crash(n) PROVE Numbered' /\ UnderItsNumber'
  <2>1. n # Leader
    BY <1>0, <1>7 DEF Orderly, Crash, Fault
  <2>2. currLogNum'[Leader] = currLogNum[Leader] /\ num' = num
        /\ \A v \in Write : pc'[v] = pc[v]
    BY <1>0, <1>7, <2>1, PipelineAssumption DEF Inv, TypeOK, Crash
  <2>3. /\ \A x \in Node : \A i \in DOMAIN logs'[x] : num[logs'[x][i]] = i
        /\ msgs' \subseteq msgs
    BY <1>0, <1>7 DEF Inv, TypeOK, UnderItsNumber, Crash, Empty
  <2> QED BY <1>0, <2>2, <2>3 DEF Numbered, UnderItsNumber, Running
<1>8. CASE UNCHANGED vars
  BY <1>0, <1>8 DEF vars, nodeVars, threadVars, Numbered, UnderItsNumber, Running
<1> QED
  BY <1>1, <1>2, <1>3, <1>4, <1>5, <1>6, <1>7, <1>8 DEF Next, Thread, Deliver

LEMMA InitNumbering == Init => Numbering
BY PipelineAssumption DEF Init, Numbering, Numbered, UnderItsNumber, Running, Empty

\* Two nodes that hold an entry under the same number hold the same update, as
\* long as the writes come to the leader one at a time and it is not restarted:
\* sendLog's reset of currLogNum never sets it back, and a number is taken once.
THEOREM LogsMatch == Spec => []LogMatching
<1>1. Inv /\ Numbering => LogMatching
  <2> SUFFICES ASSUME Inv, Numbering, Orderly, NEW m \in Node, NEW n \in Node,
                      NEW k \in DOMAIN logs[m] \cap DOMAIN logs[n]
               PROVE  logs[m][k] = logs[n][k]
    BY DEF LogMatching
  <2>1. /\ logs[m][k] \in Write /\ logs[n][k] \in Write /\ k \in Num
    BY DEF Inv, TypeOK, Partial
  <2>2. num[logs[m][k]] = k /\ num[logs[n][k]] = k
    BY DEF Numbering, UnderItsNumber
  <2> QED BY <2>1, <2>2, SameNumber
<1> QED BY <1>1, InitInv, StepInv, InitNumbering, StepNumbering, PTL DEF Spec

-------------------------------------------------------------------------------
(* The shard file while the writes come to the leader one at a time.       *)

\* The file that lists what was finished last.
Finished == [d \in {d \in Domain : last[d] # NA} |-> last[d]]

\* No rewrite of a serial write has been cut short.
Undisturbed == Orderly /\ "full" \notin faults

\* What the thread will write back is that file with its own line changed.
InRewrite ==
  Undisturbed =>
    /\ (\A w \in Write : ~Rewriting(w)) => file = Finished
    /\ \A w \in Write : pc[w] \in {"read", "truncate", "write"} => update[w] = w
    /\ \A w \in Write : pc[w] \in {"read", "write"} => w \in sole
    /\ \A w \in Write : pc[w] \in {"truncate", "write"} => lines[w] = Put(Finished, DomainOf[w], w)

\* What commitHandler finds under a write's number is the write.
LEMMA FindsItself ==
  ASSUME Inv, Numbering, Orderly, NEW w \in Write, pc[w] = "commit", entry[w] = Leader
  PROVE  logs[entry[w]][num[w]] = w
<1> DEFINE u == logs[Leader][num[w]]
<1>1. num[w] \in DOMAIN logs[Leader] /\ num[w] \in Num /\ u \in Write
  BY PipelineAssumption DEF Inv, InHand, TypeOK, Partial
<1>2. num[u] = num[w]
  BY <1>1, PipelineAssumption DEF Numbering, UnderItsNumber
<1> QED BY <1>1, <1>2, SameNumber

\* Finishing a write replaces its line of the finished file.
LEMMA FinishedPut ==
  ASSUME TypeOK, NEW w \in Write, last' = [last EXCEPT ![DomainOf[w]] = w]
  PROVE  Finished' = Put(Finished, DomainOf[w], w)
<1> DEFINE S == {d \in Domain : last[d] # NA}
           T == {d \in Domain : last'[d] # NA}
<1>1. DomainOf[w] \in Domain /\ w # NA
  BY PipelineAssumption
<1>2. \A d \in Domain : last'[d] = IF d = DomainOf[w] THEN w ELSE last[d]
  BY <1>1 DEF TypeOK
<1>3. T = S \cup {DomainOf[w]}
  BY <1>1, <1>2
<1>4. Finished' = [d \in T |-> last'[d]] /\ DOMAIN Finished = S
  BY DEF Finished
<1>5. Put(Finished, DomainOf[w], w)
        = [d \in S \cup {DomainOf[w]} |-> IF d = DomainOf[w] THEN w ELSE last[d]]
  BY <1>4 DEF Put, Finished
<1> QED BY <1>2, <1>3, <1>4, <1>5

\* The finished file is never the jumble of a rewrite.
LEMMA FinishedClear == ASSUME TypeOK, NEW w \in Write PROVE Finished # Jumble
<1>1. DomainOf[w] \in Domain /\ last[DomainOf[w]] # Torn
  BY PipelineAssumption DEF TypeOK
<1>2. DOMAIN Jumble = Domain /\ Jumble[DomainOf[w]] = Torn
  BY <1>1 DEF Jumble
<1>3. DomainOf[w] \in DOMAIN Finished => Finished[DomainOf[w]] = last[DomainOf[w]]
  BY DEF Finished
<1> QED BY <1>1, <1>2, <1>3

LEMMA StepInRewrite == Inv /\ Numbering /\ InRewrite /\ [Next]_vars => InRewrite'
<1> SUFFICES ASSUME Inv, Numbering, InRewrite, [Next]_vars, Undisturbed' PROVE InRewrite'
  BY DEF InRewrite
<1>0. Undisturbed /\ Orderly /\ \A w \in Write : entry[w] = Leader
  <2>1. faults \subseteq faults'
    BY LegalGrows
  <2> QED BY <2>1, OrderlyBefore DEF Undisturbed
<1>1. \A u, v \in Write : Running(u) /\ Running(v) => u = v
  BY <1>0 DEF Numbering, Numbered
<1> DEFINE Same    == UNCHANGED <<file, lines, update, last, sole>>
           Idle(v) == pc[v] \notin {"read", "truncate", "write"}
<1>2. ASSUME NEW w \in Write, Same, pc[w] \in {"idle", "number", "log"}, Idle(w)',
             \A v \in Write : v # w => pc'[v] = pc[v]
      PROVE  InRewrite'
  BY <1>0, <1>2 DEF InRewrite, Finished, Rewriting
\* A step of the only thread that runs concerns no other one.
<1>3. ASSUME NEW w \in Write, Running(w), \A v \in Write : v # w => pc'[v] = pc[v]
      PROVE  \A v \in Write : v # w => Idle(v) /\ Idle(v)' /\ ~Rewriting(v) /\ ~Rewriting(v)'
  BY <1>1, <1>3 DEF Running, Rewriting
<1>4. ASSUME NEW w \in Write, OpenFile(w) PROVE InRewrite'
  <2>1. pc[w] = "commit" /\ pc'[w] = "read" /\ \A v \in Write : v # w => pc'[v] = pc[v]
    BY <1>4 DEF Inv, TypeOK, OpenFile
  <2>2. \A v \in Write : v # w => Idle(v) /\ Idle(v)' /\ ~Rewriting(v) /\ ~Rewriting(v)'
    BY <1>3, <2>1 DEF Running
  <2>3. update'[w] = w
    BY <1>0, <1>4, FindsItself DEF Inv, TypeOK, OpenFile
  <2>4. \A v \in Write : ~Rewriting(v) /\ ~Rewriting(v)'
    BY <2>1, <2>2 DEF Rewriting
  <2>5. w \in sole' /\ file' = file /\ Finished' = Finished
    BY <1>4, <2>4 DEF OpenFile, Finished
  <2> QED BY <1>0, <2>1, <2>2, <2>3, <2>4, <2>5 DEF InRewrite
<1>5. ASSUME NEW w \in Write, ReadFile(w) PROVE InRewrite'
  <2>1. pc[w] = "read" /\ pc'[w] = "truncate" /\ \A v \in Write : v # w => pc'[v] = pc[v]
    BY <1>5 DEF Inv, TypeOK, ReadFile
  <2>2. \A v \in Write : v # w => Idle(v) /\ Idle(v)' /\ ~Rewriting(v) /\ ~Rewriting(v)'
    BY <1>3, <2>1 DEF Running
  <2>3. \A v \in Write : ~Rewriting(v) /\ ~Rewriting(v)'
    BY <2>1, <2>2 DEF Rewriting
  <2>4. file = Finished /\ update[w] = w /\ w \in sole
    BY <1>0, <2>1, <2>3 DEF InRewrite
  <2>5. lines'[w] = Put(Finished, DomainOf[w], w)
    BY <1>5, <2>4, FinishedClear DEF Inv, TypeOK, ReadFile, Edited
  <2>6. update' = update /\ file' = file /\ Finished' = Finished
    BY <1>5 DEF ReadFile, Finished
  <2> QED BY <2>1, <2>2, <2>3, <2>4, <2>5, <2>6 DEF InRewrite
<1>6. ASSUME NEW w \in Write, Truncate(w) PROVE InRewrite'
  <2>1. pc[w] = "truncate" /\ pc'[w] = "write" /\ \A v \in Write : v # w => pc'[v] = pc[v]
    BY <1>6 DEF Inv, TypeOK, Truncate
  <2>2. \A v \in Write : v # w => Idle(v) /\ Idle(v)' /\ ~Rewriting(v) /\ ~Rewriting(v)'
    BY <1>3, <2>1 DEF Running
  <2>3. (\A v \in Write : ~Rewriting(v)) /\ Rewriting(w)'
    BY <2>1, <2>2 DEF Rewriting
  <2>4. w \in sole' /\ UNCHANGED <<lines, update>> /\ Finished' = Finished
    BY <1>6, <2>3 DEF Truncate, Finished
  <2> QED BY <1>0, <2>1, <2>2, <2>3, <2>4 DEF InRewrite
<1>7. ASSUME NEW w \in Write, WriteBack(w) PROVE InRewrite'
  <2>1. pc[w] = "write" /\ pc'[w] = "done" /\ \A v \in Write : v # w => pc'[v] = pc[v]
    BY <1>7 DEF Inv, TypeOK, WriteBack
  <2>2. \A v \in Write : v # w => Idle(v) /\ Idle(v)' /\ ~Rewriting(v) /\ ~Rewriting(v)'
    BY <1>3, <2>1 DEF Running
  <2>3. \A v \in Write : Idle(v)'
    BY <2>1, <2>2
  <2>4. file' = Put(Finished, DomainOf[w], w)
    BY <1>0, <1>7, <2>1 DEF InRewrite, WriteBack
  <2>5. Finished' = Put(Finished, DomainOf[w], w)
    BY <1>7, FinishedPut DEF Inv, WriteBack
  <2> QED BY <2>3, <2>4, <2>5 DEF InRewrite
<1>8. ASSUME NEW w \in Write, DiskError(w) PROVE InRewrite'
  <2>1. /\ pc[w] \in {"commit", "read", "truncate"} /\ pc'[w] = "done"
        /\ \A v \in Write : v # w => pc'[v] = pc[v]
    BY <1>8 DEF Inv, TypeOK, DiskError
  <2>2. \A v \in Write : v # w => Idle(v) /\ Idle(v)' /\ ~Rewriting(v) /\ ~Rewriting(v)'
    BY <1>3, <2>1 DEF Running
  <2>3. (\A v \in Write : ~Rewriting(v)) /\ \A v \in Write : Idle(v)'
    BY <2>1, <2>2 DEF Rewriting
  <2>4. file' = file /\ Finished' = Finished
    BY <1>8 DEF DiskError, Finished
  <2> QED BY <1>0, <2>3, <2>4 DEF InRewrite
<1>9. ASSUME NEW w \in Write, DiskFull(w) PROVE InRewrite'
  BY <1>9 DEF DiskFull, Fault, Undisturbed
<1>10. CASE Same /\ \A w \in Write : pc'[w] = pc[w]
  BY <1>0, <1>10 DEF InRewrite, Finished, Rewriting
<1>11. ASSUME NEW n \in Node, Crash(n) PROVE InRewrite'
  <2>1. n # Leader
    BY <1>0, <1>11 DEF Undisturbed, Orderly, Crash, Fault
  <2>2. \A w \in Write : pc'[w] = pc[w]
    BY <1>0, <1>11, <2>1 DEF Inv, TypeOK, Crash
  <2>3. sole' = sole
    BY <1>0, <1>11, <2>1 DEF Inv, TypeOK, Crash
  <2> QED BY <1>10, <1>11, <2>2, <2>3 DEF Crash
<1>12. ASSUME NEW w \in Write, writeHandler1(w) \/ newRecord(w) \/ Unresolvable(w)
                              \/ TakeNumber(w) \/ sendLog(w)
      PROVE  InRewrite'
  BY <1>2, <1>12 DEF Inv, TypeOK, writeHandler1, newRecord, Unresolvable, Start, Increment,
                     TakeNumber, sendLog, history
<1>13. ASSUME NEW m \in msgs, writeHandler2(m) \/ ackHandler(m) \/ Lose(m) PROVE InRewrite'
  BY <1>10, <1>13 DEF writeHandler2, ackHandler, Lose, threadVars, history
<1>14. CASE UNCHANGED vars
  BY <1>10, <1>14 DEF vars, threadVars, history
<1> QED
  BY <1>4, <1>5, <1>6, <1>7, <1>8, <1>9, <1>11, <1>12, <1>13, <1>14 DEF Next, Thread, Deliver

\* One write at a time keeps the shard file current: whenever no thread is
\* inside its rewrite the file lists the write that finished last for every
\* domain and has lost none, whatever messages are lost, followers restarted or
\* files refused by the disk, as long as the disk has not failed in a rewrite.
THEOREM FileStaysCurrent == Spec => []SerialFileIsCurrent
<1>1. Init => InRewrite
  BY PipelineAssumption DEF Init, InRewrite, Finished
<1>2. InRewrite => SerialFileIsCurrent
  BY DEF InRewrite, Undisturbed, SerialFileIsCurrent, FileIsCurrent, Finished
<1> QED
  BY <1>1, <1>2, InitInv, StepInv, InitNumbering, StepNumbering, StepInRewrite, PTL DEF Spec

-------------------------------------------------------------------------------
(* Acknowledgements while, besides, no node is restarted.                  *)

AckOf(f, k) == [type |-> 3, src |-> f, dst |-> Leader, num |-> k]

\* The followers whose acknowledgement of k has left the network.
Heard(k) == {f \in Followers : k \in DOMAIN logs[f] /\ AckOf(f, k) \notin msgs}

\* The writes sendLog has sent.
Sent == {w \in Write : pc[w] \notin {"idle", "number", "log"}}

\* A follower logs a number once, after it was sent, and acknowledges it once.
Acknowledged ==
  /\ \A m \in msgs : m.type = 2 =>
       /\ m.src = Leader /\ m.dst \in Followers
       /\ m.num \notin DOMAIN logs[m.dst] /\ m.write \in Sent
  /\ \A m \in msgs : m.type = 3 =>
       m.dst = Leader /\ m.src \in Followers /\ m.num \in DOMAIN logs[m.src]
  /\ \A f \in Followers : \A k \in DOMAIN logs[f] : logs[f][k] \in Sent
  /\ \A k \in Num : logAck[Leader][k] <= Cardinality(Heard(k))

\* A write with a quorum is in every follower's log.
Replicated == \A w \in quorum : \A f \in Followers : \E k \in DOMAIN logs[f] : logs[f][k] = w

Acks == Orderly /\ "crash" \notin faults => Acknowledged /\ Replicated

LEMMA HeardFinite ==
  ASSUME NEW S, S \subseteq Followers
  PROVE  /\ IsFiniteSet(S) /\ Cardinality(S) \in Nat /\ Cardinality(S) <= followerCount
         /\ Cardinality(S) >= followerCount => S = Followers
<1>1. IsFiniteSet(Followers) /\ Cardinality(Followers) = followerCount
  BY FS_RemoveElement, FS_CardinalityType, PipelineAssumption DEF Followers, followerCount
<1>2. followerCount \in Nat
  BY <1>1, FS_CardinalityType
<1> QED BY <1>1, <1>2, FS_Subset, FS_CardinalityType

\* The count is unaffected by steps that leave every follower heard heard.
LEMMA CountStays ==
  ASSUME NEW k \in Num, logAck'[Leader][k] = logAck[Leader][k], logAck[Leader][k] \in Nat,
         logAck[Leader][k] <= Cardinality(Heard(k)), Heard(k) \subseteq Heard(k)'
  PROVE  logAck'[Leader][k] <= Cardinality(Heard(k)')
<1>1. Heard(k) \subseteq Followers /\ Heard(k)' \subseteq Followers
  BY DEF Heard
<1>2. /\ IsFiniteSet(Heard(k)') /\ Cardinality(Heard(k)) \in Nat
      /\ Cardinality(Heard(k)') \in Nat
  BY <1>1, HeardFinite
<1>3. Cardinality(Heard(k)) <= Cardinality(Heard(k)')
  BY <1>2, FS_Subset
<1> QED BY <1>2, <1>3

\* A follower handles the type-2 message of a number.
LEMMA FollowerLogs ==
  ASSUME Inv, Numbering, Orderly, Acknowledged, Replicated, NEW m \in msgs, writeHandler2(m)
  PROVE  Acknowledged' /\ Replicated'
<1> DEFINE f == m.dst
           k == m.num
<1>1. /\ m.type = 2 /\ f \in Followers /\ f \in Node /\ f # Leader /\ k \in Num
      /\ k \notin DOMAIN logs[f] /\ m.write \in Sent /\ m.write \in Write /\ m.src = Leader
  BY DEF Inv, TypeOK, Entry, Ack, Acknowledged, writeHandler2, Followers
<1>2. /\ msgs' = (msgs \ {m}) \cup {AckOf(f, k)}
      /\ logs' = [logs EXCEPT ![f] = Put(logs[f], k, m.write)]
      /\ logAck' = logAck /\ quorum' = quorum /\ pc' = pc
  BY <1>1 DEF writeHandler2, sendAck, Logged, AckOf, threadVars
<1>3. /\ \A n \in Node : n # f => logs'[n] = logs[n]
      /\ DOMAIN logs'[f] = DOMAIN logs[f] \cup {k}
      /\ \A i \in DOMAIN logs'[f] : logs'[f][i] = IF i = k THEN m.write ELSE logs[f][i]
  BY <1>1, <1>2 DEF Inv, TypeOK, Put
<1>4. ASSUME NEW x \in msgs', x.type = 2
      PROVE  /\ x.src = Leader /\ x.dst \in Followers
             /\ x.num \notin DOMAIN logs'[x.dst] /\ x.write \in Sent'
  <2>1. x \in msgs /\ x # m /\ x \in Entry /\ m \in Entry
    BY <1>1, <1>2, <1>4 DEF AckOf, Inv, TypeOK, Ack
  <2>2. /\ x.src = Leader /\ x.dst \in Followers /\ x.dst \in Node
        /\ x.num \notin DOMAIN logs[x.dst] /\ x.write \in Sent'
    BY <1>2, <1>4, <2>1 DEF Acknowledged, Sent, Followers
  <2>3. ASSUME x.dst = f, x.num = k PROVE FALSE
    <3>1. num[x.write] = k /\ num[m.write] = k /\ x.write \in Write
      BY <1>1, <1>4, <2>1, <2>3 DEF Numbering, UnderItsNumber, Entry
    <3>2. x.write = m.write
      BY <1>1, <3>1, SameNumber
    <3> QED BY <1>1, <2>1, <2>2, <2>3, <3>2 DEF Entry
  <2> QED BY <1>3, <2>2, <2>3
<1>5. ASSUME NEW x \in msgs', x.type = 3
      PROVE  x.dst = Leader /\ x.src \in Followers /\ x.num \in DOMAIN logs'[x.src]
  <2>1. CASE x = AckOf(f, k)
    BY <1>1, <1>3, <2>1 DEF AckOf
  <2>2. CASE x \in msgs
    BY <1>3, <1>5, <2>2 DEF Acknowledged, Followers
  <2> QED BY <1>2, <2>1, <2>2
<1>6. \A g \in Followers : \A i \in DOMAIN logs'[g] : logs'[g][i] \in Sent'
  BY <1>1, <1>2, <1>3 DEF Acknowledged, Sent, Followers
<1>7. ASSUME NEW i \in Num PROVE logAck'[Leader][i] <= Cardinality(Heard(i)')
  <2>1. \A g \in Followers : AckOf(g, i) = AckOf(f, k) => g = f /\ i = k
    BY DEF AckOf
  <2>2. Heard(i) \subseteq Heard(i)'
    BY <1>1, <1>2, <1>3, <2>1 DEF Heard, Followers, AckOf
  <2> QED BY <1>2, <2>2, CountStays, PipelineAssumption DEF Acknowledged, Inv, TypeOK
<1>8. Replicated'
  <2>1. ASSUME NEW w \in quorum, NEW g \in Followers
        PROVE  \E i \in DOMAIN logs'[g] : logs'[g][i] = w
    BY <1>1, <1>3 DEF Replicated, Followers
  <2> QED BY <1>2, <2>1 DEF Replicated
<1> QED BY <1>4, <1>5, <1>6, <1>7, <1>8 DEF Acknowledged

\* The leader counts an acknowledgement: once per follower that has the entry.
LEMMA LeaderCounts ==
  ASSUME Inv, Numbering, Orderly, Acknowledged, Replicated, NEW m \in msgs, ackHandler(m)
  PROVE  Acknowledged' /\ Replicated'
<1> DEFINE f == m.src
           k == m.num
           acks == logAck[Leader][k] + 1
<1>1. /\ m.dst = Leader /\ f \in Followers /\ k \in Num /\ k \in DOMAIN logs[f]
      /\ m = AckOf(f, k)
  BY DEF Inv, TypeOK, Entry, Ack, AckOf, Acknowledged, ackHandler
<1>2. /\ logs' = logs /\ pc' = pc /\ msgs' = msgs \ {m}
      /\ logAck' = [logAck EXCEPT ![Leader][k] = acks]
      /\ logAck[Leader][k] \in Nat /\ acks \in Nat
  BY <1>1, PipelineAssumption DEF ackHandler, threadVars, Inv, TypeOK
<1>3. \A g \in Followers, i \in Num : AckOf(g, i) = m <=> g = f /\ i = k
  BY <1>1 DEF AckOf
<1>4. /\ f \notin Heard(k) /\ Heard(k)' = Heard(k) \cup {f}
      /\ \A i \in Num : i # k => Heard(i)' = Heard(i)
  BY <1>1, <1>2, <1>3 DEF Heard, AckOf
<1>5. Cardinality(Heard(k)') = Cardinality(Heard(k)) + 1 /\ Cardinality(Heard(k)) \in Nat
  BY <1>4, HeardFinite, FS_AddElement DEF Heard
<1>6. acks <= Cardinality(Heard(k)')
  BY <1>1, <1>2, <1>5 DEF Acknowledged
<1>7. \A i \in Num : logAck'[Leader][i] <= Cardinality(Heard(i)')
  BY <1>1, <1>2, <1>4, <1>6, PipelineAssumption DEF Acknowledged, Inv, TypeOK
<1>8. Acknowledged'
  BY <1>2, <1>7 DEF Acknowledged, Sent
<1>9. ASSUME QuorumReached(acks), k \in DOMAIN logs[Leader], NEW g \in Followers
      PROVE  k \in DOMAIN logs[g] /\ logs[g][k] = logs[Leader][k]
  <2>1. Heard(k)' \subseteq Followers
    BY DEF Heard
  <2>2. followerCount \in Int /\ Cardinality(Heard(k)') \in Nat
    BY <2>1, HeardFinite, FS_CardinalityType, PipelineAssumption DEF followerCount
  <2>3. Heard(k)' = Followers
    BY <1>2, <1>6, <1>9, <2>1, <2>2, HeardFinite DEF QuorumReached
  <2>4. k \in DOMAIN logs[g] /\ g \in Node
    BY <1>2, <2>3 DEF Heard, Followers
  <2>5. /\ logs[g][k] \in Write /\ logs[Leader][k] \in Write
        /\ num[logs[g][k]] = k /\ num[logs[Leader][k]] = k
    BY <1>9, <2>4, PipelineAssumption DEF Inv, TypeOK, Partial, Numbering, UnderItsNumber
  <2> QED BY <1>1, <2>4, <2>5, SameNumber
<1>10. Replicated'
  <2>1. \A w \in quorum' : w \in quorum \/ /\ QuorumReached(acks)
                                           /\ k \in DOMAIN logs[Leader] /\ logs[Leader][k] = w
    BY <1>1 DEF ackHandler
  <2> QED BY <1>2, <1>9, <2>1 DEF Replicated
<1> QED BY <1>8, <1>10

LEMMA StepAcks == Inv /\ Numbering /\ Acks /\ [Next]_vars => Acks'
<1> SUFFICES ASSUME Inv, Numbering, Acks, [Next]_vars, Orderly', "crash" \notin faults'
             PROVE  Acknowledged' /\ Replicated'
  BY DEF Acks
<1>0. /\ Orderly /\ Acknowledged /\ Replicated /\ \A w \in Write : entry[w] = Leader
  <2>1. faults \subseteq faults'
    BY DEF Next, Thread, Deliver, writeHandler1, newRecord, Unresolvable,
           TakeNumber, sendLog, OpenFile, ReadFile, Truncate, WriteBack, DiskError, DiskFull, writeHandler2,
           ackHandler, Lose, Crash, Fault, vars
  <2> QED BY <2>1, OrderlyBefore DEF Acks
<1> DEFINE Quiet == UNCHANGED <<logs, msgs, logAck, quorum>> /\ Sent \subseteq Sent'
<1>1. CASE Quiet
  <2>1. \A k \in Num : Heard(k)' = Heard(k)
    BY <1>1 DEF Heard, AckOf
  <2> QED BY <1>0, <1>1, <2>1 DEF Acknowledged, Replicated
<1>2. ASSUME NEW w \in Write, writeHandler1(w) \/ newRecord(w) \/ Unresolvable(w)
                              \/ OpenFile(w) \/ ReadFile(w) \/ Truncate(w) \/ WriteBack(w)
                              \/ DiskError(w) \/ DiskFull(w)
      PROVE  Quiet
  BY <1>2 DEF Inv, TypeOK, Sent, writeHandler1, newRecord, Unresolvable, Start, Increment,
              OpenFile, ReadFile, Truncate, WriteBack, DiskError, DiskFull, nodeVars
<1>3. ASSUME NEW w \in Write, TakeNumber(w) PROVE Acknowledged' /\ Replicated'
  <2>1. Sent' = Sent /\ \A f \in Followers : logs'[f] = logs[f]
    BY <1>0, <1>3 DEF Inv, TypeOK, Sent, TakeNumber, Logged, Followers
  <2>2. \A k \in Num : Heard(k)' = Heard(k)
    BY <1>3, <2>1 DEF Heard, AckOf, TakeNumber
  <2> QED BY <1>0, <1>3, <2>1, <2>2 DEF Acknowledged, Replicated, TakeNumber
<1>4. ASSUME NEW w \in Write, sendLog(w) PROVE Acknowledged' /\ Replicated'
  <2>1. Sent' = Sent \cup {w} /\ w \notin Sent /\ UNCHANGED <<logs, logAck, quorum>>
    BY <1>4 DEF Inv, TypeOK, Sent, sendLog
  <2>2. /\ \A m \in msgs' \ msgs : /\ m.type = 2 /\ m.src = Leader /\ m.dst \in Followers
                                   /\ m.num = num[w] /\ m.write = w
        /\ msgs \subseteq msgs'
    BY <1>0, <1>4 DEF sendLog, Followers
  <2>3. ASSUME NEW f \in Followers PROVE num[w] \notin DOMAIN logs[f]
    <3>1. SUFFICES ASSUME num[w] \in DOMAIN logs[f] PROVE FALSE
      OBVIOUS
    <3>2. /\ logs[f][num[w]] \in Write /\ num[w] \in Num /\ f \in Node
          /\ logs[f][num[w]] \in Sent
      BY <1>0, <3>1 DEF Inv, TypeOK, Partial, Followers, Acknowledged
    <3>3. num[logs[f][num[w]]] = num[w]
      BY <1>0, <3>1, <3>2 DEF Numbering, UnderItsNumber
    <3>4. logs[f][num[w]] = w
      BY <1>0, <3>2, <3>3, SameNumber
    <3> QED BY <2>1, <3>2, <3>4
  <2>4. \A k \in Num : Heard(k)' = Heard(k)
    BY <2>1, <2>2 DEF Heard, AckOf
  <2> QED BY <1>0, <2>1, <2>2, <2>3, <2>4 DEF Acknowledged, Replicated
<1>5. ASSUME NEW m \in msgs, Lose(m) PROVE Acknowledged' /\ Replicated'
  <2>1. msgs' \subseteq msgs /\ UNCHANGED <<logs, logAck, quorum, pc>>
    BY <1>5 DEF Lose, nodeVars, threadVars
  <2>2. \A k \in Num : Heard(k) \subseteq Heard(k)'
    BY <2>1 DEF Heard, AckOf
  <2>3. \A k \in Num : logAck'[Leader][k] <= Cardinality(Heard(k)')
    BY <1>0, <2>1, <2>2, CountStays, PipelineAssumption DEF Acknowledged, Inv, TypeOK
  <2> QED BY <1>0, <2>1, <2>3 DEF Acknowledged, Replicated, Sent
<1>6. ASSUME NEW n \in Node, Crash(n) PROVE FALSE
  BY <1>6 DEF Crash, Fault, Orderly
<1>7. CASE UNCHANGED vars
  BY <1>1, <1>7 DEF vars, nodeVars, threadVars, Sent
<1> QED
  BY <1>0, <1>1, <1>2, <1>3, <1>4, <1>5, <1>6, <1>7, FollowerLogs, LeaderCounts
     DEF Next, Thread, Deliver

\* "Quorum reached" is printed only for an update that every follower has in its
\* log, as long as the writes come to the leader one at a time and no node is
\* restarted: ackHandler's counter never counts a follower twice for a number.
THEOREM QuorumIsReplicated == Spec => []QuorumMeansReplicated
<1>1. Init => Acks
  <2> SUFFICES ASSUME Init PROVE Acknowledged /\ Replicated
    BY DEF Acks
  <2>1. \A k \in Num : logAck[Leader][k] = 0 /\ Cardinality(Heard(k)) \in Nat
    BY HeardFinite, PipelineAssumption DEF Init, Heard
  <2> QED BY <2>1 DEF Init, Acknowledged, Replicated, Followers, Empty
<1>2. Acks => QuorumMeansReplicated
  BY DEF Acks, Replicated, QuorumMeansReplicated
<1> QED
  BY <1>1, <1>2, InitInv, StepInv, InitNumbering, StepNumbering, StepAcks, PTL DEF Spec

-------------------------------------------------------------------------------
(* The owner's records while nothing fails, threads racing as they like.   *)

\* The writes of a domain that sendLog has sent and nothing has stopped.
SentFor(d) ==
  {w \in Write : pc[w] \in {"commit", "read", "truncate", "write", "done"} /\ DomainOf[w] = d}

ToOwner(w) == [type |-> 2, src |-> Leader, dst |-> Owner, num |-> num[w], write |-> w]

\* A write that was sent is still on its way to the owner of the shard, or the
\* owner keeps it or another one sent for the domain.
OnItsWay ==
  /\ \A m \in msgs : m.type = 2 => m.write \in SentFor(DomainOf[m.write])
  /\ \A d \in Domain : \A w \in SentFor(d) :
       ToOwner(w) \in msgs \/ records[Owner][d] \in SentFor(d)

Serving == AtLeader /\ faults = {} /\ Owner # Leader => OnItsWay

LEMMA StepServing == Inv /\ Serving /\ [Next]_vars => Serving'
<1> SUFFICES ASSUME Inv, Serving, [Next]_vars, AtLeader', faults' = {}, Owner # Leader
             PROVE  OnItsWay'
  BY DEF Serving
<1>0. OnItsWay /\ \A w \in Write : entry[w] = Leader
  <2>1. entry' = entry /\ faults \subseteq faults'
    BY DEF Next, Thread, Deliver, writeHandler1, newRecord, Unresolvable,
           TakeNumber, sendLog, OpenFile, ReadFile, Truncate, WriteBack, DiskError, DiskFull, writeHandler2,
           ackHandler, Lose, Crash, Fault, vars
  <2> QED BY <2>1 DEF Serving, AtLeader
<1> DEFINE Same == \A d : SentFor(d)' = SentFor(d)
<1>1. CASE Same /\ UNCHANGED <<msgs, num>> /\ records'[Owner] = records[Owner]
  BY <1>0, <1>1 DEF OnItsWay, ToOwner
<1>2. ASSUME NEW w \in Write, writeHandler1(w) \/ newRecord(w) \/ Unresolvable(w)
                              \/ OpenFile(w) \/ ReadFile(w) \/ Truncate(w)
      PROVE  OnItsWay'
  BY <1>1, <1>2 DEF Inv, TypeOK, SentFor, writeHandler1, newRecord, Unresolvable, Start,
                    Increment, OpenFile, ReadFile, Truncate, nodeVars
<1>3. ASSUME NEW w \in Write, WriteBack(w) PROVE OnItsWay'
  <2>1. records'[Owner] = records[Owner]
    BY <1>0, <1>3, PipelineAssumption DEF Inv, TypeOK, WriteBack
  <2> QED BY <1>1, <1>3, <2>1 DEF Inv, TypeOK, SentFor, WriteBack
<1>4. ASSUME NEW w \in Write, TakeNumber(w) PROVE OnItsWay'
  <2>1. Same /\ \A d : \A v \in SentFor(d) : num'[v] = num[v]
    BY <1>4 DEF Inv, TypeOK, SentFor, TakeNumber
  <2> QED BY <1>0, <1>4, <2>1 DEF OnItsWay, ToOwner, TakeNumber
<1>5. ASSUME NEW w \in Write, sendLog(w) PROVE OnItsWay'
  <2>1. /\ \A d : SentFor(d)' = IF d = DomainOf[w] THEN SentFor(d) \cup {w} ELSE SentFor(d)
        /\ UNCHANGED <<num, records>>
    BY <1>5 DEF Inv, TypeOK, SentFor, sendLog
  <2>2. /\ msgs \subseteq msgs' /\ ToOwner(w) \in msgs'
        /\ \A m \in msgs' \ msgs : m.write = w
    BY <1>0, <1>5, PipelineAssumption DEF sendLog, ToOwner
  <2> QED BY <1>0, <2>1, <2>2 DEF OnItsWay, ToOwner
<1>6. ASSUME NEW m \in msgs, writeHandler2(m) PROVE OnItsWay'
  <2>1. Same /\ num' = num /\ \A x \in msgs' : x.type = 2 => x \in msgs
    BY <1>6 DEF SentFor, writeHandler2, threadVars, sendAck
  <2>2. /\ m.type = 2 /\ m \in Entry /\ m.write \in SentFor(DomainOf[m.write])
        /\ DomainOf[m.write] \in Domain
    BY <1>0, <1>6, PipelineAssumption
       DEF OnItsWay, writeHandler2, Inv, TypeOK, Entry, Ack
  <2>3. CASE m.dst = Owner
    <3>1. records'[Owner] = [records[Owner] EXCEPT ![DomainOf[m.write]] = m.write]
      BY <1>6, <2>2, <2>3, PipelineAssumption
         DEF writeHandler2, InShard, Kept, Inv, TypeOK
    <3>2. \A d \in Domain : records'[Owner][d] =
            IF d = DomainOf[m.write] THEN m.write ELSE records[Owner][d]
      BY <3>1, PipelineAssumption DEF Inv, TypeOK
    <3>3. \A d \in Domain : \A w \in SentFor(d) :
            ToOwner(w) = m => d = DomainOf[m.write]
      BY DEF ToOwner, SentFor
    <3>4. msgs \ {m} \subseteq msgs'
      BY <1>6 DEF writeHandler2
    <3> QED BY <1>0, <2>1, <2>2, <3>2, <3>3, <3>4 DEF OnItsWay, ToOwner
  <2>4. CASE m.dst # Owner
    <3>1. records' = records /\ msgs \ {m} \subseteq msgs'
      BY <1>6, <2>4 DEF writeHandler2, InShard
    <3>2. \A w : ToOwner(w) # m
      BY <2>4 DEF ToOwner
    <3> QED BY <1>0, <2>1, <3>1, <3>2 DEF OnItsWay, ToOwner
  <2> QED BY <2>3, <2>4
<1>7. ASSUME NEW m \in msgs, ackHandler(m) PROVE OnItsWay'
  <2>1. Same /\ UNCHANGED <<num, records>> /\ msgs' = msgs \ {m} /\ m.type = 3
    BY <1>7 DEF SentFor, ackHandler, threadVars
  <2>2. \A w : ToOwner(w) # m
    BY <2>1 DEF ToOwner
  <2> QED BY <1>0, <2>1, <2>2 DEF OnItsWay, ToOwner
<1>8. ASSUME NEW kind, Fault(kind) PROVE FALSE
  BY <1>8 DEF Fault
<1>9. CASE UNCHANGED vars
  BY <1>1, <1>9 DEF vars, threadVars, nodeVars, SentFor
<1> QED
  BY <1>2, <1>3, <1>4, <1>5, <1>6, <1>7, <1>8, <1>9
     DEF Next, Thread, Deliver, DiskError, DiskFull, Lose, Crash

\* Once everything sent has been handled, the owner of the shard, if it is a
\* follower, answers reads of a domain with one of the writes that finished for
\* it, however the leader's threads raced for log numbers and the file.
THEOREM OwnerServes == Spec => []OwnerServesAWrite
<1>1. Init => Serving
  BY DEF Init, Serving, OnItsWay, SentFor
<1>2. Serving => OwnerServesAWrite
  <2> SUFFICES ASSUME OnItsWay, AtRest, NEW d \in Domain, Done(d) # {}
               PROVE  records[Owner][d] \in Done(d)
    BY DEF OwnerServesAWrite, Serving
  <2>1. SentFor(d) = Done(d)
    BY DEF AtRest, Running, SentFor, Done
  <2> QED BY <2>1 DEF OnItsWay, AtRest
<1> QED BY <1>1, <1>2, InitInv, StepInv, StepServing, PTL DEF Spec

================================================================================
