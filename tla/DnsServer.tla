------------------------------- MODULE DnsServer -------------------------------
(***************************************************************************)
(* DnsServer.java for the queries of one client address: the UDP and TCP   *)
(* listeners, the two fixed pools of workers with their unbounded queues,  *)
(* and handleRequest, in which a worker first goes through RateLimiter     *)
(* (whose threads the workers are) and then through everything that ends   *)
(* in an answer: parser, ACL, CacheClient.resolve and response builder.    *)
(* resolve takes its time but ends (EveryQueryEnds of CacheLease).         *)
(*                                                                         *)
(* A TCP worker reads the query from the connection, without a timeout: a  *)
(* client that neither sends nor closes (a mute one) keeps its worker.     *)
(***************************************************************************)
EXTENDS RateLimiter

CONSTANTS
  UdpWorker,        \* the threads of udpWorkers
  TcpWorker,        \* the threads of tcpWorkers
  MaxUdp, MaxTcp    \* bounds: datagrams and connections received altogether

ASSUME PoolAssumption ==
  /\ UdpWorker \cup TcpWorker = Thread /\ UdpWorker \cap TcpWorker = {}
  /\ MaxUdp \in Nat /\ MaxTcp \in Nat

VARIABLES
  udpQueue,         \* datagrams submitted and not yet taken up
  tcpQueue,         \* connections submitted and not yet taken up
  received,         \* how many of each have come so far
  stage             \* what each worker is doing

poolVars == <<udpQueue, tcpQueue, received, stage>>

PoolTypeOK ==
  /\ TypeOK
  /\ udpQueue \in 0 .. MaxUdp /\ tcpQueue \in 0 .. MaxTcp
  /\ received \in (0 .. MaxUdp) \X (0 .. MaxTcp)
  /\ stage \in [Thread -> {"free", "mute", "limiting", "handling"}]
  /\ \A t \in Thread : pc[t] # "idle" => stage[t] = "limiting"

InitPools ==
  /\ Init
  /\ udpQueue = 0 /\ tcpQueue = 0
  /\ received = <<0, 0>>
  /\ stage = [t \in Thread |-> "free"]

-------------------------------------------------------------------------------
(* The listeners and the pools.                                            *)

\* receive() and submit.
runUdpServer ==
  /\ received[1] < MaxUdp
  /\ received' = [received EXCEPT ![1] = @ + 1]
  /\ udpQueue' = udpQueue + 1
  /\ UNCHANGED <<vars, tcpQueue, stage>>

\* accept() and submit.
runTcpServer ==
  /\ received[2] < MaxTcp
  /\ received' = [received EXCEPT ![2] = @ + 1]
  /\ tcpQueue' = tcpQueue + 1
  /\ UNCHANGED <<vars, udpQueue, stage>>

Goes(t, s) == stage' = [stage EXCEPT ![t] = s]

\* A free UDP worker begins handleRequest.
TakeDatagram(t) ==
  /\ t \in UdpWorker /\ stage[t] = "free" /\ udpQueue > 0
  /\ udpQueue' = udpQueue - 1
  /\ Goes(t, "limiting")
  /\ UNCHANGED <<vars, tcpQueue, received>>

\* A free TCP worker begins handleTcpClient: it gets the query, or finds the
\* connection closed or the length bad, or waits for a mute client.
TakeConnection(t) ==
  /\ t \in TcpWorker /\ stage[t] = "free" /\ tcpQueue > 0
  /\ tcpQueue' = tcpQueue - 1
  /\ \E s \in {"limiting", "free", "mute"} : Goes(t, s)
  /\ UNCHANGED <<vars, udpQueue, received>>

-------------------------------------------------------------------------------
(* handleRequest.                                                          *)

\* isRateLimited.  A query that is dropped gets no answer.
Limit(t) ==
  /\ stage[t] = "limiting"
  /\ \/ (Stamp(t) \/ Lookup(t)) /\ UNCHANGED stage
     \/ Admit(t) /\ Goes(t, "handling")
     \/ Drop(t) /\ Goes(t, "free")
  /\ UNCHANGED <<udpQueue, tcpQueue, received>>

\* Mutant: only the UDP pool gets its workers back.
AnswerUdp(t) ==
  /\ stage[t] = "handling" /\ t \in UdpWorker
  /\ Goes(t, "free")
  /\ UNCHANGED <<vars, udpQueue, tcpQueue, received>>

\* The rest of handleRequest; the answer, if there is one, is sent.
Answer(t) ==
  /\ stage[t] = "handling"
  /\ Goes(t, "free")
  /\ UNCHANGED <<vars, udpQueue, tcpQueue, received>>

handleRequest(t) == Limit(t) \/ Answer(t)

Work(t) == TakeDatagram(t) \/ TakeConnection(t) \/ handleRequest(t)

-------------------------------------------------------------------------------
NextPools ==
  \/ runUdpServer \/ runTcpServer
  \/ \E t \in Thread : Work(t)
  \/ (reset \/ Tick) /\ UNCHANGED poolVars

Spec == InitPools /\ [][NextPools]_<<vars, poolVars>>

\* The workers of the pools run; nothing else is counted on.
FairSpec == Spec /\ \A t \in Thread : WF_<<vars, poolVars>>(Work(t))

-------------------------------------------------------------------------------
Mute == {t \in TcpWorker : stage[t] = "mute"}

\* Whatever has been received is taken up and its worker comes free again: at
\* the UDP pool always, though every TCP worker may be held by a mute client; at
\* the TCP pool as long as not every worker is.
QueuesDrain ==
  /\ <>[](udpQueue = 0 /\ \A t \in UdpWorker : stage[t] = "free")
  /\ <>[](tcpQueue = 0 /\ \A t \in TcpWorker \ Mute : stage[t] = "free")
       \/ <>[](Mute = TcpWorker)
================================================================================
