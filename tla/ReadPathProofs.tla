---------------------------- MODULE ReadPathProofs ----------------------------
(***************************************************************************)
(* ReadPath for any number of nodes and any timeouts: how many threads one *)
(* read occupies, that live DNS is asked only about what no node in the    *)
(* table has, that the read finds what one of them has, and how long it    *)
(* takes.                                                                  *)
(***************************************************************************)
EXTENDS ReadPath, SequenceTheorems, FiniteSetTheorems, WellFoundedInduction, TLAPS

Early == {"lookup", "branch", "forward", "sendRead"}

Last == hops[Len(hops)]

Above(n) == {m \in Node : m > n}

\* Nobody has a leader below itself.
Upward == \A n \in Node : leaderIp[n] >= n

\* All but the last of the hops have passed the read on.
Behind == \A i \in 1 .. Len(hops) - 1 : hops[i].pc \in {"reply", "done"}

\* A hop runs on a node that answers, a leader does not ask itself, and only
\* sockets and newRecord are waited for.
Alive ==
  \A i \in DOMAIN hops :
    /\ hops[i].node \notin Faulty
    /\ hops[i].node \notin hops[i].left
    /\ hops[i].pc \in Early \cup {"ask"} => hops[i].wait = 0

\* Above the last hop there is room for a hop at every higher node, and one
\* more before a node forwards to itself.
Room ==
  /\ Len(hops) + Cardinality(Above(Last.node)) <= MaxHops
  /\ Last.pc = "forward" =>
       leaderIp[Last.node] # Last.node \/ ~Crowded

Inv == TypeOK /\ Upward /\ Behind /\ Alive /\ Room

\* Past its own lookup a hop's node has no record, only a leader asks peers and
\* live DNS, and if one of its peers could answer, one is still before it.
UnfoundAt(i) ==
  LET h == hops[i]
  IN  /\ h.pc \notin {"lookup", "done"} => h.node \notin holds
      /\ h.pc \in {"sendRead", "ask", "peer", "resolve"} => h.node \in leaders
      /\ h.pc \in {"ask", "peer"} /\ Reaches(h.node) => \E m \in h.left : m \in holds \ Faulty
      /\ h.pc = "resolve" => ~Reaches(h.node)

Unfound == changes = 0 => \A i \in DOMAIN hops : UnfoundAt(i)

\* The peers that hang can all time out before a forward does.
HungShort == Cardinality(hung) * PeerTimeout < ForwardTimeout

\* The time hop i may still take: a timeout for every hung peer it has yet to
\* ask.  While it has asked none no time has passed since the read began.
Rest(i) ==
  CASE hops[i].pc \in Early -> ForwardTimeout - 1
    [] hops[i].pc \in {"ask", "peer"} -> hops[i].wait
                                           + PeerTimeout * Cardinality(hung \cap hops[i].left)
    [] hops[i].pc \in {"resolve", "reply", "done"} -> 0

\* Every leader answers and reaches a record, and nothing has changed since the
\* read began.
GoodLeaders ==
  /\ changes = 0 /\ HungShort
  /\ \A n \in Node \ Faulty : leaderIp[n] \notin Faulty
  /\ \A n \in (leaders \cup promoting) \ Faulty : Reaches(n)

\* Who waits for a reply waits longer than the last hop takes, and every hop
\* that is done has the record.
Patient ==
  GoodLeaders =>
    /\ \A i \in DOMAIN hops : hops[i].pc = "done" => hops[i].ans = "record"
    /\ \A i \in 1 .. Len(hops) - 1 : hops[i].pc = "reply" => hops[i].wait > Rest(Len(hops))
    /\ Last.pc # "reply"

-------------------------------------------------------------------------------
(* What a step does to the hops.                                           *)

\* Hop i goes on and the others stay as they are.
Moves(i) ==
  /\ hops' \in Seq(Hop) /\ Len(hops') = Len(hops) /\ DOMAIN hops' = DOMAIN hops
  /\ hops'[i].node = hops[i].node
  /\ \A j \in DOMAIN hops : j # i => hops'[j] = hops[j]

Labels == {"lookup", "branch", "sendRead", "ask", "peer", "resolve", "forward", "reply", "done"}

\* The hops are a sequence with a first and a last element.
LEMMA HopsType ==
  ASSUME TypeOK
  PROVE  /\ Len(hops) \in Nat \ {0} /\ DOMAIN hops = 1 .. Len(hops)
         /\ 1 \in DOMAIN hops /\ Len(hops) \in DOMAIN hops
         /\ \A i \in DOMAIN hops :
              /\ hops[i] \in Hop
              /\ hops[i].node \in Node /\ hops[i].pc \in Labels
              /\ hops[i].left \in SUBSET Node /\ hops[i].wait \in Nat /\ hops[i].ans \in Reply
<1>1. hops \in Seq(Hop) /\ Len(hops) \in Nat \ {0} /\ DOMAIN hops = 1 .. Len(hops)
  BY ReadAssumption, LenProperties DEF TypeOK
<1>2. \A i \in DOMAIN hops : hops[i] \in Hop
  BY <1>1, ElementOfSeq
<1> QED BY <1>1, <1>2 DEF Hop, Labels

LEMMA HopBecomes ==
  ASSUME TypeOK, NEW i \in DOMAIN hops, NEW h \in Hop, h.node = hops[i].node,
         hops' = [hops EXCEPT ![i] = h]
  PROVE  Moves(i) /\ hops'[i] = h
<1>1. i \in 1 .. Len(hops) /\ hops \in Seq(Hop) /\ DOMAIN hops = 1 .. Len(hops)
  BY HopsType DEF TypeOK
<1>2. /\ hops' \in Seq(Hop) /\ Len(hops') = Len(hops)
      /\ \A j \in 1 .. Len(hops) : hops'[j] = IF j = i THEN h ELSE hops[j]
  BY <1>1, ExceptSeq
<1>3. DOMAIN hops' = DOMAIN hops
  OBVIOUS
<1> QED BY <1>1, <1>2, <1>3 DEF Moves

LEMMA GotoMoves ==
  ASSUME TypeOK, NEW i \in DOMAIN hops, NEW label \in Labels, NEW w \in Nat, Goto(i, label, w)
  PROVE  /\ Moves(i)
         /\ hops'[i].pc = label /\ hops'[i].wait = w
         /\ hops'[i].left = hops[i].left /\ hops'[i].ans = hops[i].ans
<1> DEFINE h == [hops[i] EXCEPT !.pc = label, !.wait = w]
<1>1. hops[i] \in Hop
  BY HopsType
<1>2. /\ h \in Hop /\ h.node = hops[i].node /\ h.pc = label /\ h.wait = w
      /\ h.left = hops[i].left /\ h.ans = hops[i].ans
  BY <1>1 DEF Hop, Labels
<1>3. hops' = [hops EXCEPT ![i] = h]
  BY DEF Goto
<1> HIDE DEF h
<1> QED BY <1>2, <1>3, HopBecomes

LEMMA FinishMoves ==
  ASSUME TypeOK, NEW i \in DOMAIN hops, NEW v \in Reply, Finish(i, v)
  PROVE  /\ Moves(i)
         /\ hops'[i].pc = "done" /\ hops'[i].ans = v
         /\ hops'[i].left = hops[i].left /\ hops'[i].wait = hops[i].wait
<1> DEFINE h == [hops[i] EXCEPT !.pc = "done", !.ans = v]
<1>1. hops[i] \in Hop
  BY HopsType
<1>2. /\ h \in Hop /\ h.node = hops[i].node /\ h.pc = "done" /\ h.ans = v
      /\ h.left = hops[i].left /\ h.wait = hops[i].wait
  BY <1>1 DEF Hop
<1>3. hops' = [hops EXCEPT ![i] = h]
  BY DEF Finish
<1> HIDE DEF h
<1> QED BY <1>2, <1>3, HopBecomes

\* Hop i goes from one label to another, with what it waits for then.
Jumps(i, from, to, w) ==
  /\ hops[i].pc = from /\ hops'[i].pc = to
  /\ hops'[i].left = hops[i].left /\ hops'[i].wait = w

\* A hop other than the one that passes the read on to a node that answers.
HopStep(i) ==
  LET n == hops[i].node
      record == n \in holds
  IN  \/ Jumps(i, "lookup", "done", hops[i].wait) /\ record /\ hops'[i].ans = "record"
      \/ Jumps(i, "lookup", "branch", 0) /\ ~record
      \/ Jumps(i, "branch", "sendRead", 0) /\ n \in leaders
      \/ /\ Jumps(i, "branch", "forward", 0)
         /\ leaderIp[n] # n \/ ~Crowded
      \/ /\ hops[i].pc = "sendRead" /\ hops'[i].pc = "ask"
         /\ hops'[i].left = nodes[n] \ {n} /\ hops'[i].wait = hops[i].wait
      \/ \E w \in 0 .. MaxResolve : Jumps(i, "sendRead", "resolve", w) /\ n \notin leaders
      \/ Jumps(i, "peer", "ask", 0) /\ hops[i].wait = 0
      \/ \E w \in 0 .. MaxResolve : Jumps(i, "ask", "resolve", w) /\ hops[i].left = {}
      \/ Jumps(i, "resolve", "done", hops[i].wait) /\ hops[i].wait = 0
      \/ Jumps(i, "forward", "done", hops[i].wait) /\ leaderIp[n] \in Faulty
      \/ Jumps(i, "forward", "reply", ForwardTimeout) /\ leaderIp[n] \in Faulty
      \/ Jumps(i, "reply", "done", hops[i].wait) /\ Answered(i) /\ hops'[i].ans = hops[i + 1].ans
      \/ Jumps(i, "reply", "done", hops[i].wait) /\ hops[i].wait = 0

\* Hop i has asked p.
Asks(i, p) ==
  /\ hops[i].pc = "ask" /\ p \in hops[i].left /\ hops'[i].left = hops[i].left \ {p}
  /\ \/ p \in hung /\ hops'[i].pc = "peer" /\ hops'[i].wait = PeerTimeout
     \/ /\ p \notin hung /\ hops'[i].pc = "done"
        /\ p \in holds /\ hops'[i].ans = "record"
     \/ /\ p \notin hung /\ hops'[i].pc = "ask" /\ hops'[i].wait = 0
        /\ p \notin holds \ Faulty

\* Hop i, the last one, passes the read on to the leader it knows.
Forwards(i) ==
  LET target == leaderIp[hops[i].node]
  IN  /\ i = Len(hops) /\ hops[i].pc = "forward" /\ target \notin Faulty
      /\ hops' \in Seq(Hop) /\ Len(hops') = Len(hops) + 1
      /\ DOMAIN hops' = 1 .. Len(hops) + 1
      /\ \A j \in DOMAIN hops : j # i => hops'[j] = hops[j]
      /\ hops'[i].node = hops[i].node /\ hops'[i].left = hops[i].left
      /\ hops'[i].pc = "reply" /\ hops'[i].wait = ForwardTimeout
      /\ hops'[Len(hops) + 1] = Arrived(target)

LEMMA AskMoves ==
  ASSUME Inv, NEW i \in DOMAIN hops, AskPeer(i)
  PROVE  Moves(i) /\ \E p \in Node : Asks(i, p)
<1>1. PICK p \in hops[i].left :
        LET left  == LeftAfter(hops[i].left, p)
            found == p \notin Faulty /\ local_lookup(p) # "N/A"
        IN  hops' = [hops EXCEPT ![i].left = left,
                                 ![i].pc   = IF p \in hung THEN "peer"
                                             ELSE IF found THEN "done" ELSE "ask",
                                 ![i].wait = IF p \in hung THEN PeerTimeout ELSE 0,
                                 ![i].ans  = IF found THEN local_lookup(p) ELSE "N/A"]
  BY DEF AskPeer
<1> DEFINE found == p \notin Faulty /\ local_lookup(p) # "N/A"
           left == hops[i].left \ {p}
           pc == IF p \in hung THEN "peer" ELSE IF found THEN "done" ELSE "ask"
           wait == IF p \in hung THEN PeerTimeout ELSE 0
           ans == IF found THEN local_lookup(p) ELSE "N/A"
           h == [hops[i] EXCEPT !.left = left, !.pc = pc, !.wait = wait, !.ans = ans]
<1>2. TypeOK /\ hops[i] \in Hop /\ p \in Node
  BY HopsType DEF Inv
<1>3. found => p \in holds /\ local_lookup(p) = "record"
  BY DEF local_lookup
<1>4. ~found => p \notin holds \ Faulty
  BY DEF local_lookup
<1>5. /\ left \in SUBSET Node /\ pc \in Labels /\ wait \in Nat /\ ans \in Reply
      /\ p \in hung => pc = "peer" /\ wait = PeerTimeout
      /\ p \notin hung /\ found => pc = "done" /\ ans = "record"
      /\ p \notin hung /\ ~found => pc = "ask" /\ wait = 0
  BY <1>2, <1>3, ReadAssumption DEF Hop, Labels, Reply
<1>6. hops' = [hops EXCEPT ![i] = h]
  BY <1>1 DEF LeftAfter
<1> HIDE DEF left, pc, wait, ans, found
<1>7. h \in Hop /\ h.node = hops[i].node /\ h.left = left /\ h.pc = pc /\ h.wait = wait /\ h.ans = ans
  BY <1>2, <1>5 DEF Hop, Labels
<1> HIDE DEF h
<1>8. Moves(i) /\ hops'[i] = h
  BY <1>2, <1>6, <1>7, HopBecomes
<1>9. Asks(i, p)
  <2>1. hops'[i].left = hops[i].left \ {p} /\ hops[i].pc = "ask"
    BY <1>7, <1>8 DEF left, AskPeer
  <2> QED BY <1>3, <1>4, <1>5, <1>7, <1>8, <2>1 DEF Asks
<1> QED BY <1>2, <1>8, <1>9

LEMMA SendReadMoves ==
  ASSUME Inv, NEW i \in DOMAIN hops, sendRead(i)
  PROVE  Moves(i) /\ HopStep(i)
<1>1. TypeOK /\ hops[i] \in Hop /\ nodes[hops[i].node] \in SUBSET Node
  BY HopsType DEF Inv, TypeOK
<1>2. CASE hops[i].node \in leaders
  <2> DEFINE h == [hops[i] EXCEPT !.pc = "ask", !.left = nodes[hops[i].node] \ {hops[i].node}]
  <2>1. /\ h \in Hop /\ h.node = hops[i].node /\ h.pc = "ask"
        /\ h.left = nodes[hops[i].node] \ {hops[i].node} /\ h.wait = hops[i].wait
    BY <1>1 DEF Hop
  <2>2. hops' = [hops EXCEPT ![i] = h]
    BY <1>2 DEF sendRead
  <2> HIDE DEF h
  <2>3. Moves(i) /\ hops'[i] = h
    BY <1>1, <2>1, <2>2, HopBecomes
  <2>4. hops[i].pc = "sendRead"
    BY DEF sendRead
  <2> QED BY <2>1, <2>3, <2>4 DEF HopStep
<1>3. CASE hops[i].node \notin leaders
  <2>1. PICK w \in 0 .. MaxResolve : Goto(i, "resolve", w)
    BY <1>3 DEF sendRead
  <2>2. w \in Nat
    BY ReadAssumption
  <2>3. Moves(i) /\ Jumps(i, "sendRead", "resolve", w)
    BY <1>1, <2>1, <2>2, GotoMoves DEF Labels, Jumps, sendRead
  <2> QED BY <1>3, <2>3 DEF HopStep
<1> QED BY <1>2, <1>3

LEMMA ForwardMoves ==
  ASSUME Inv, NEW i \in DOMAIN hops, forward_to_leader(i)
  PROVE  (Moves(i) /\ HopStep(i)) \/ Forwards(i)
<1> DEFINE target == leaderIp[hops[i].node]
           h == [hops[i] EXCEPT !.pc = "reply", !.wait = ForwardTimeout]
           s == [hops EXCEPT ![i] = h]
<1>1. TypeOK /\ hops[i] \in Hop /\ hops[i].node \in Node /\ target \in Node
  BY HopsType DEF Inv, TypeOK
<1>2. hops[i].pc = "forward"
  BY DEF forward_to_leader
<1>3. CASE target \in down /\ Finish(i, "N/A")
  <2>1. Moves(i) /\ Jumps(i, "forward", "done", hops[i].wait)
    BY <1>1, <1>2, <1>3, FinishMoves DEF Reply, Jumps
  <2> QED BY <1>3, <2>1 DEF HopStep, Faulty
<1>4. CASE target \in hung /\ Goto(i, "reply", ForwardTimeout)
  <2>1. Moves(i) /\ Jumps(i, "forward", "reply", ForwardTimeout)
    BY <1>1, <1>2, <1>4, GotoMoves, ReadAssumption DEF Labels, Jumps
  <2> QED BY <1>4, <2>1 DEF HopStep, Faulty
<1>5. ASSUME target \notin Faulty, hops' = s \o <<Arrived(target)>> PROVE Forwards(i)
  <2>1. i = Len(hops) /\ Len(hops) \in Nat \ {0} /\ hops \in Seq(Hop) /\ i \in 1 .. Len(hops)
        /\ DOMAIN hops = 1 .. Len(hops)
    BY <1>1, <1>2, HopsType DEF Inv, Behind, TypeOK
  <2>2. Arrived(target) \in Hop
    BY <1>1 DEF Arrived, Hop, Reply
  <2>3. h \in Hop /\ h.node = hops[i].node /\ h.left = hops[i].left /\ h.pc = "reply"
        /\ h.wait = ForwardTimeout
    BY <1>1, ReadAssumption DEF Hop
  <2> HIDE DEF h
  <2>4. /\ s \in Seq(Hop) /\ Len(s) = Len(hops)
        /\ \A j \in 1 .. Len(hops) : s[j] = IF j = i THEN h ELSE hops[j]
    BY <2>1, <2>3, ExceptSeq
  <2> HIDE DEF s
  <2> DEFINE a == <<Arrived(target)>>
  <2>5. a \in Seq(Hop) /\ Len(a) = 1 /\ a[1] = Arrived(target)
    BY <2>2
  <2> HIDE DEF a
  <2>6. /\ s \o a \in Seq(Hop) /\ Len(s \o a) = Len(hops) + 1
        /\ \A j \in 1 .. Len(hops) + 1 : (s \o a)[j] = IF j <= Len(hops) THEN s[j] ELSE a[j - Len(hops)]
    <3>1. /\ s \o a \in Seq(Hop) /\ Len(s \o a) = Len(s) + Len(a)
          /\ \A j \in 1 .. Len(s) + Len(a) : (s \o a)[j] = IF j <= Len(s) THEN s[j] ELSE a[j - Len(s)]
      <4>1. s \in Seq(Hop) /\ a \in Seq(Hop)
        BY <2>4, <2>5
      <4> QED BY <4>1, ConcatProperties
    <3> QED BY <2>4, <2>5, <3>1
  <2>7. hops' = s \o a
    BY <1>5 DEF a
  <2>8. DOMAIN hops' = 1 .. Len(hops) + 1
    BY <2>6, <2>7, LenProperties
  <2>9. hops'[Len(hops) + 1] = Arrived(target)
    BY <2>1, <2>5, <2>6, <2>7
  <2>10. \A j \in 1 .. Len(hops) : hops'[j] = IF j = i THEN h ELSE hops[j]
    BY <2>1, <2>4, <2>6, <2>7
  <2> QED BY <1>2, <1>5, <2>1, <2>3, <2>6, <2>7, <2>8, <2>9, <2>10 DEF Forwards
<1>6. hops' = [hops EXCEPT ![i].pc = "reply", ![i].wait = ForwardTimeout] \o <<Arrived(target)>>
      => hops' = s \o <<Arrived(target)>>
  OBVIOUS
<1> QED BY <1>3, <1>4, <1>5, <1>6 DEF forward_to_leader

LEMMA OneHop ==
  ASSUME Inv, NEW i \in DOMAIN hops, handle_read(i)
  PROVE  \/ Moves(i) /\ (HopStep(i) \/ \E p \in Node : Asks(i, p))
         \/ Forwards(i)
<1>1. TypeOK /\ hops[i] \in Hop /\ hops[i].ans \in Reply
  BY HopsType DEF Inv
<1>2. CASE Lookup(i)
  <2>1. CASE local_lookup(hops[i].node) # "N/A"
    <3>1. /\ hops[i].node \in holds
          /\ Finish(i, "record") /\ hops[i].pc = "lookup"
      BY <1>2, <2>1 DEF Lookup, local_lookup
    <3> QED BY <1>1, <3>1, FinishMoves DEF HopStep, Jumps, Reply
  <2>2. CASE local_lookup(hops[i].node) = "N/A"
    <3>1. /\ hops[i].node \notin holds
          /\ Goto(i, "branch", 0) /\ hops[i].pc = "lookup"
      BY <1>2, <2>2 DEF Lookup, local_lookup
    <3> QED BY <1>1, <3>1, GotoMoves DEF HopStep, Jumps, Labels
  <2> QED BY <2>1, <2>2
<1>3. CASE Branch(i)
  <2>1. CASE hops[i].node \in leaders
    <3>1. Goto(i, "sendRead", 0) /\ hops[i].pc = "branch"
      BY <1>3, <2>1 DEF Branch
    <3> QED BY <1>1, <2>1, <3>1, GotoMoves DEF HopStep, Jumps, Labels
  <2>2. CASE hops[i].node \notin leaders
    <3>1. /\ Goto(i, "forward", 0) /\ hops[i].pc = "branch"
          /\ leaderIp[hops[i].node] # hops[i].node \/ ~Crowded
      BY <1>3, <2>2 DEF Branch, AsksItself
    <3> QED BY <1>1, <3>1, GotoMoves DEF HopStep, Jumps, Labels
  <2> QED BY <2>1, <2>2
<1>4. CASE LeaderReplies(i)
  <2>1. hops[i + 1].ans \in Reply
    BY <1>1, <1>4, HopsType DEF LeaderReplies, Answered
  <2> QED BY <1>1, <1>4, <2>1, FinishMoves DEF LeaderReplies, HopStep, Jumps
<1>5. CASE ForwardFails(i)
  BY <1>1, <1>5, FinishMoves DEF ForwardFails, TimedOut, HopStep, Jumps, Reply
<1>6. CASE PeerTimesOut(i)
  BY <1>1, <1>6, GotoMoves DEF PeerTimesOut, HopStep, Jumps, Labels
<1>7. CASE AllAsked(i)
  <2>1. PICK w \in 0 .. MaxResolve : Goto(i, "resolve", w)
    BY <1>7 DEF AllAsked
  <2>2. w \in Nat
    BY ReadAssumption
  <2>3. Moves(i) /\ Jumps(i, "ask", "resolve", w) /\ hops[i].left = {}
    BY <1>1, <1>7, <2>1, <2>2, GotoMoves DEF Labels, Jumps, AllAsked
  <2> QED BY <2>3 DEF HopStep
<1>8. CASE newRecord(i)
  BY <1>1, <1>8, FinishMoves DEF newRecord, HopStep, Jumps, Reply
<1> QED BY <1>2, <1>3, <1>4, <1>5, <1>6, <1>7, <1>8, AskMoves, SendReadMoves, ForwardMoves
       DEF handle_read

-------------------------------------------------------------------------------
(* How many threads a read occupies.                                       *)

\* A higher node has fewer nodes above it, and every node has one less than
\* all of them.
LEMMA AboveShrinks ==
  ASSUME NEW n \in Node
  PROVE  /\ Cardinality(Node) \in Nat \ {0} /\ Cardinality(Above(n)) \in Nat
         /\ Cardinality(Above(n)) + 1 <= Cardinality(Node)
         /\ \A t \in Node : t > n => Cardinality(Above(t)) + 1 <= Cardinality(Above(n))
<1>1. IsFiniteSet(Node) /\ \A m \in Node : m \in Nat
  BY ReadAssumption
<1>2. \A t \in Node : IsFiniteSet(Above(t)) /\ Cardinality(Above(t)) \in Nat
  BY <1>1, FS_Subset, FS_CardinalityType DEF Above
<1>3. ASSUME NEW S \in SUBSET Node, NEW t \in S, Above(t) \subseteq S
      PROVE  Cardinality(Above(t)) + 1 <= Cardinality(S)
  <2>1. IsFiniteSet(S) /\ Cardinality(S) \in Nat
    BY <1>1, FS_Subset, FS_CardinalityType
  <2>2. Above(t) # S
    BY <1>1, <1>3 DEF Above
  <2>3. Cardinality(Above(t)) <= Cardinality(S) /\ Cardinality(S) # Cardinality(Above(t))
    BY <1>3, <2>1, <2>2, FS_Subset
  <2>4. Cardinality(Above(t)) \in Nat
    BY <1>2, <1>3
  <2> QED BY <2>1, <2>3, <2>4
<1>4. Cardinality(Above(n)) + 1 <= Cardinality(Node)
  BY <1>3 DEF Above
<1>5. ASSUME NEW t \in Node, t > n PROVE Cardinality(Above(t)) + 1 <= Cardinality(Above(n))
  <2>1. t \in Above(n) /\ Above(n) \in SUBSET Node
    BY <1>5 DEF Above
  <2>2. Above(t) \subseteq Above(n)
    BY <1>1, <1>5 DEF Above
  <2> QED BY <1>3, <2>1, <2>2
<1>6. Cardinality(Node) \in Nat
  BY <1>1, FS_CardinalityType
<1> QED BY <1>2, <1>4, <1>5, <1>6

LEMMA MaxElapsedType == MaxElapsed \in Nat
<1>1. Cardinality(Node) \in Nat /\ PeerTimeout \in Nat
  BY FS_CardinalityType, ReadAssumption
<1>2. Cardinality(Node) * PeerTimeout \in Nat
  BY <1>1
<1> QED BY <1>2, ReadAssumption DEF MaxElapsed

LEMMA InitInv == Init => Inv
<1> SUFFICES ASSUME Init PROVE Inv
  OBVIOUS
<1>1. PICK n \in Node \ Faulty : hops = <<Arrived(n)>>
  BY DEF Init
<1>2. Arrived(n) \in Hop
  BY <1>1 DEF Arrived, Hop, Reply
<1> DEFINE a == Arrived(n)
<1>3. a.node = n /\ a.pc = "lookup" /\ a.left = {} /\ a.wait = 0
  BY DEF Arrived
<1> HIDE DEF a
<1>4. hops \in Seq(Hop) /\ Len(hops) = 1 /\ DOMAIN hops = {1} /\ hops[1] = a
  BY <1>1, <1>2 DEF a
<1>5. MaxElapsed \in Nat
  BY MaxElapsedType
<1>6. 1 + Cardinality(Above(n)) <= MaxHops /\ 1 <= MaxHops
  BY AboveShrinks, ReadAssumption
<1>7. TypeOK
  <2>1. nodes \in [Node -> SUBSET Node] /\ holds \subseteq Node
    BY DEF Init
  <2> QED BY <1>4, <1>5, <1>6, <2>1, ReadAssumption DEF Init, TypeOK
<1>8. Upward /\ Behind
  BY <1>4 DEF Init, Views!Allowed, Upward, Behind
<1>9. Alive
  BY <1>1, <1>3, <1>4 DEF Alive
<1>10. Room
  BY <1>3, <1>4, <1>6 DEF Room, Last
<1> QED BY <1>7, <1>8, <1>9, <1>10 DEF Inv

\* A hop goes on.
LEMMA MoveInv ==
  ASSUME Inv, NEW i \in DOMAIN hops, Moves(i), UNCHANGED <<fixed, views, elapsed>>,
         HopStep(i) \/ \E p \in Node : Asks(i, p)
  PROVE  Inv'
<1>1. /\ TypeOK /\ hops[i].node \in Node /\ hops[i].node \notin Faulty
      /\ hops[i].node \notin hops[i].left
      /\ hops[i].pc \in Early \cup {"ask"} => hops[i].wait = 0
  BY HopsType DEF Inv, Alive
<1>2. Len(hops) \in Nat \ {0} /\ DOMAIN hops = 1 .. Len(hops)
  BY <1>1, HopsType
<1>3. TypeOK' /\ Upward'
  BY <1>1 DEF Inv, TypeOK, Upward, Moves, fixed, views
<1>4. i < Len(hops) => hops'[i].pc = "done"
  <2>1. i < Len(hops) => hops[i].pc \in {"reply", "done"}
    BY <1>2 DEF Inv, Behind
  <2> QED BY <2>1 DEF HopStep, Jumps, Asks
<1>5. Behind'
  BY <1>2, <1>4 DEF Inv, Behind, Moves
<1>6. hops'[i].node \notin hops'[i].left
  BY <1>1 DEF HopStep, Jumps, Asks, Moves
<1>7. hops'[i].pc \in Early \cup {"ask"} => hops'[i].wait = 0
  BY <1>1 DEF HopStep, Jumps, Asks, Early
<1>8. Alive'
  BY <1>1, <1>6, <1>7 DEF Inv, Alive, Moves, fixed, Faulty
<1>9. hops'[i].pc = "forward"
        => leaderIp[hops[i].node] # hops[i].node \/ ~Crowded
  BY DEF HopStep, Jumps, Asks
<1>10. Room'
  <2>1. Len(hops') = Len(hops) /\ Last'.node = Last.node
    BY <1>2 DEF Moves, Last
  <2>2. Last'.pc = "forward"
          => leaderIp[Last.node] # Last.node \/ ~Crowded
    BY <1>2, <1>9 DEF Moves, Last, Inv, Room
  <2> QED BY <2>1, <2>2 DEF Inv, Room, Above, Crowded, views
<1> QED BY <1>3, <1>5, <1>8, <1>10 DEF Inv

LEMMA ForwardInv ==
  ASSUME Inv, NEW i \in DOMAIN hops, Forwards(i), UNCHANGED <<fixed, views, elapsed>>
  PROVE  Inv'
<1> DEFINE n == hops[i].node
           target == leaderIp[n]
           L == Len(hops)
<1>1. /\ TypeOK /\ n \in Node /\ target \in Node /\ target >= n /\ i = L /\ Last = hops[i]
      /\ L \in Nat \ {0} /\ DOMAIN hops = 1 .. L /\ hops[i].pc = "forward"
  BY HopsType DEF Inv, TypeOK, Upward, Forwards, Last
<1>2. /\ hops'[L + 1] = Arrived(target) /\ Len(hops') = L + 1 /\ DOMAIN hops' = 1 .. L + 1
      /\ hops' \in Seq(Hop)
  BY DEF Forwards
<1>3. L + 1 + Cardinality(Above(target)) <= MaxHops
  <2>1. /\ L + Cardinality(Above(n)) <= MaxHops
        /\ target # n \/ ~(L + Cardinality(Node) > MaxHops)
    BY <1>1 DEF Inv, Room, Crowded
  <2>2. /\ Cardinality(Node) \in Nat /\ Cardinality(Above(n)) \in Nat
        /\ Cardinality(Above(target)) \in Nat /\ MaxHops \in Nat
        /\ Cardinality(Above(target)) + 1 <= Cardinality(Node)
        /\ target > n => Cardinality(Above(target)) + 1 <= Cardinality(Above(n))
    BY <1>1, AboveShrinks, ReadAssumption
  <2>3. target > n \/ target = n
    <3>1. target \in Nat /\ n \in Nat
      BY <1>1, ReadAssumption
    <3> QED BY <1>1, <3>1
  <2>4. CASE target > n
    BY <1>1, <2>1, <2>2, <2>4
  <2>5. CASE target = n
    BY <1>1, <2>1, <2>2, <2>5
  <2> QED BY <2>3, <2>4, <2>5
<1>4. L + 1 \in 1 .. MaxHops
  <2>1. Cardinality(Above(target)) \in Nat /\ MaxHops \in Nat
    BY <1>1, AboveShrinks, ReadAssumption
  <2> QED BY <1>1, <1>3, <2>1
<1>5. TypeOK' /\ Upward'
  BY <1>1, <1>2, <1>4 DEF Inv, TypeOK, Upward, fixed, views
<1>6. Behind'
  BY <1>1, <1>2 DEF Inv, Behind, Forwards
<1>7. /\ hops'[L + 1].node = target /\ hops'[L + 1].pc = "lookup"
      /\ hops'[L + 1].left = {} /\ hops'[L + 1].wait = 0
  BY <1>2 DEF Arrived
<1>8. Alive'
  <2> SUFFICES ASSUME NEW j \in 1 .. L + 1
               PROVE  /\ hops'[j].node \notin Faulty
                      /\ hops'[j].node \notin hops'[j].left
                      /\ hops'[j].pc \in Early \cup {"ask"} => hops'[j].wait = 0
    BY <1>2 DEF Alive, Faulty, fixed
  <2>1. CASE j = L + 1
    BY <1>7, <2>1 DEF Forwards
  <2>2. CASE j = i
    BY <1>1, <2>2 DEF Forwards, Early, Inv, Alive
  <2>3. CASE j # i /\ j # L + 1
    <3>1. j \in DOMAIN hops /\ hops'[j] = hops[j]
      BY <1>1, <2>3 DEF Forwards
    <3> QED BY <3>1 DEF Inv, Alive
  <2> QED BY <2>1, <2>2, <2>3
<1>9. Room'
  BY <1>2, <1>3, <1>7 DEF Room, Last, Above
<1> QED BY <1>5, <1>6, <1>8, <1>9 DEF Inv

\* Time passes.
LEMMA TickMoves ==
  ASSUME Inv, Tick
  PROVE  /\ hops' \in Seq(Hop) /\ Len(hops') = Len(hops) /\ DOMAIN hops' = DOMAIN hops
         /\ \A i \in DOMAIN hops :
              /\ hops'[i].node = hops[i].node /\ hops'[i].pc = hops[i].pc
              /\ hops'[i].left = hops[i].left /\ hops'[i].ans = hops[i].ans
              /\ hops'[i].wait = IF hops[i].wait = 0 THEN 0 ELSE hops[i].wait - 1
<1>1. /\ Len(hops) \in Nat /\ DOMAIN hops = 1 .. Len(hops)
      /\ \A i \in DOMAIN hops : hops[i] \in Hop /\ hops[i].wait \in Nat
  BY HopsType DEF Inv
<1>2. hops' = [i \in 1 .. Len(hops) |-> [hops[i] EXCEPT !.wait = IF @ = 0 THEN 0 ELSE @ - 1]]
  BY <1>1 DEF Tick
<1>3. ASSUME NEW i \in DOMAIN hops
      PROVE  /\ hops'[i].node = hops[i].node /\ hops'[i].pc = hops[i].pc
             /\ hops'[i].left = hops[i].left /\ hops'[i].ans = hops[i].ans
             /\ hops'[i].wait = IF hops[i].wait = 0 THEN 0 ELSE hops[i].wait - 1
             /\ hops'[i] \in Hop
  <2> DEFINE w == IF hops[i].wait = 0 THEN 0 ELSE hops[i].wait - 1
  <2>1. hops'[i] = [hops[i] EXCEPT !.wait = w]
    BY <1>1, <1>2
  <2>2. w \in Nat
    BY <1>1
  <2> HIDE DEF w
  <2>3. /\ hops'[i].node = hops[i].node /\ hops'[i].pc = hops[i].pc
        /\ hops'[i].left = hops[i].left /\ hops'[i].ans = hops[i].ans /\ hops'[i].wait = w
        /\ hops'[i] \in Hop
    BY <1>1, <2>1, <2>2 DEF Hop
  <2> QED BY <2>3 DEF w
<1>4. hops' \in [1 .. Len(hops) -> Hop]
  BY <1>1, <1>2, <1>3
<1>5. hops' \in Seq(Hop) /\ Len(hops') = Len(hops) /\ DOMAIN hops' = DOMAIN hops
  BY <1>1, <1>4
<1> QED BY <1>3, <1>5

LEMMA TickInv == ASSUME Inv, Tick PROVE Inv'
<1>1. UNCHANGED <<fixed, views>> /\ elapsed' \in 0 .. MaxElapsed
  BY MaxElapsedType DEF Tick, Inv, TypeOK
<1>2. Len(hops) \in DOMAIN hops /\ DOMAIN hops = 1 .. Len(hops) /\ Len(hops) \in Nat
  BY HopsType DEF Inv
<1>3. TypeOK' /\ Upward'
  BY <1>1, TickMoves DEF Inv, TypeOK, Upward, fixed, views
<1>4. Behind'
  BY <1>2, TickMoves DEF Inv, Behind
<1>5. Alive'
  BY <1>1, TickMoves DEF Inv, Alive, Faulty, fixed
<1>6. Room'
  BY <1>1, <1>2, TickMoves DEF Inv, Room, Last, Above, Crowded, views
<1> QED BY <1>3, <1>4, <1>5, <1>6 DEF Inv

LEMMA ViewsInv ==
  ASSUME Inv, NEW n \in Node, TakeLead(n) \/ NewLeader(n) \/ Beat(n)
  PROVE  Inv'
<1>1. /\ UNCHANGED <<fixed, hops, elapsed>> /\ changes' \in 0 .. MaxChanges
      /\ leaders' \subseteq Node /\ promoting' \subseteq Node
  <2>1. /\ MaxChanges \in Nat /\ changes \in 0 .. MaxChanges
        /\ leaders \subseteq Node /\ promoting \subseteq Node
    BY ReadAssumption DEF Inv, TypeOK
  <2> QED BY <2>1 DEF TakeLead, NewLeader, Beat, Views!TakeLead, Views!Follow, Views!Promote
\* Only a node that begins its promotion comes to point at itself.
<1>2. /\ leaderIp' \in [Node -> Node] /\ Upward'
      /\ Crowded => \A m \in Node : leaderIp[m] # m => leaderIp'[m] # m
  <2>1. leaderIp \in [Node -> Node] /\ \A m \in Node : m \in Nat
    BY ReadAssumption DEF Inv, TypeOK
  <2>2. CASE Views!TakeLead(n)
    BY <2>1, <2>2 DEF Views!TakeLead, Inv, Upward
  <2>3. CASE Views!Follow(n)
    <3>1. PICK h \in Node : h > n /\ leaderIp' = [leaderIp EXCEPT ![n] = h]
      BY <2>3 DEF Views!Follow
    <3>2. \A m \in Node : leaderIp'[m] = IF m = n THEN h ELSE leaderIp[m]
      BY <2>1, <3>1
    <3>3. h >= n /\ h # n
      BY <2>1, <3>1
    <3> QED BY <2>1, <3>1, <3>2, <3>3 DEF Inv, Upward
  <2>4. CASE Views!Promote(n) /\ ~Crowded
    <3>1. leaderIp' = [leaderIp EXCEPT ![n] = n]
      BY <2>4 DEF Views!Promote
    <3>2. \A m \in Node : leaderIp'[m] = IF m = n THEN n ELSE leaderIp[m]
      BY <2>1, <3>1
    <3>3. n >= n
      BY <2>1
    <3> QED BY <2>1, <2>4, <3>1, <3>2, <3>3 DEF Inv, Upward
  <2>5. CASE Beat(n)
    BY <2>1, <2>5 DEF Beat, Inv, Upward
  <2> QED BY <2>2, <2>3, <2>4, <2>5 DEF TakeLead, NewLeader
<1>3. TypeOK'
  <2>1. nodes \in [Node -> SUBSET Node] /\ holds \subseteq Node
    BY DEF Inv, TypeOK
  <2>2. holds' \subseteq Node
    BY <2>1 DEF TakeLead, NewLeader, Beat, Reshards
  <2>3. nodes' \in [Node -> SUBSET Node]
    <3>1. CASE NewLeader(n)
      <4>1. leaderIp'[n] \in Node
        BY <1>2
      <4> QED BY <2>1, <3>1, <4>1 DEF NewLeader
    <3>2. CASE Beat(n)
      BY <2>1, <3>2 DEF Beat
    <3> QED BY <2>1, <3>1, <3>2 DEF TakeLead
  <2> QED BY <1>1, <1>2, <2>2, <2>3 DEF Inv, TypeOK, fixed
<1>4. Behind' /\ Alive'
  BY <1>1 DEF Inv, Behind, Alive, Faulty, fixed
<1>5. Room'
  <2>1. Last' = Last /\ Last.node \in Node /\ Crowded' = Crowded
    BY <1>1, HopsType DEF Last, Inv, Crowded
  <2>2. CASE Crowded
    BY <1>1, <1>2, <2>1, <2>2 DEF Inv, Room, Above
  <2>3. CASE ~Crowded
    BY <1>1, <2>1, <2>3 DEF Inv, Room, Above
  <2> QED BY <2>2, <2>3
<1> QED BY <1>2, <1>3, <1>4, <1>5 DEF Inv

LEMMA StepInv == Inv /\ [Next]_vars => Inv'
<1> SUFFICES ASSUME Inv, [Next]_vars PROVE Inv'
  OBVIOUS
<1>1. ASSUME NEW i \in DOMAIN hops, handle_read(i) PROVE Inv'
  <2>1. UNCHANGED <<fixed, views, elapsed>>
    BY <1>1 DEF handle_read, Lookup, Branch, forward_to_leader, LeaderReplies, ForwardFails,
                sendRead, AskPeer, PeerTimesOut, AllAsked, newRecord
  <2> QED BY <1>1, <2>1, OneHop, MoveInv, ForwardInv
<1>2. CASE UNCHANGED vars
  BY <1>2 DEF vars, fixed, views, Inv, TypeOK, Upward, Behind, Alive, Faulty, Room, Last, Above,
              Crowded
<1> QED BY <1>1, <1>2, TickInv, ViewsInv DEF Next

\* A read occupies at most MaxHops threads, however many leaders it is passed
\* along and however often heartbeats replace them meanwhile: a follower passes
\* it to a higher address only, and a node forwards to itself only while it is
\* being promoted.
THEOREM TypeCorrect == Spec => []TypeOK
<1>1. Inv => TypeOK
  BY DEF Inv
<1> QED BY <1>1, InitInv, StepInv, PTL DEF Spec

-------------------------------------------------------------------------------
(* Live DNS is the last resort.                                            *)

\* The steps of a hop leave the rest of the state alone.
LEMMA HopLeaves ==
  ASSUME NEW i \in DOMAIN hops, handle_read(i)
  PROVE  UNCHANGED <<fixed, views, elapsed>>
BY DEF handle_read, Lookup, Branch, forward_to_leader, LeaderReplies, ForwardFails,
       sendRead, AskPeer, PeerTimesOut, AllAsked, newRecord

\* Whether a node reaches a record depends on tables, records and faults only.
LEMMA ReachesStays ==
  ASSUME UNCHANGED <<down, hung, nodes, holds>>
  PROVE  Faulty' = Faulty /\ \A n \in Node : Reaches(n)' <=> Reaches(n)
BY DEF Reaches, Faulty

LEMMA MoveUnfound ==
  ASSUME Inv, Unfound, changes = 0, NEW i \in DOMAIN hops, Moves(i),
         UNCHANGED <<fixed, views, elapsed>>, HopStep(i) \/ \E p \in Node : Asks(i, p)
  PROVE  UnfoundAt(i)'
<1> DEFINE n == hops[i].node
           left == hops[i].left
<1>1. /\ UNCHANGED <<down, hung, leaders, leaderIp, promoting, nodes, holds, changes>>
      /\ n \in Node /\ hops'[i].node = n
  BY HopsType DEF fixed, views, Moves, Inv
<1>2. Faulty' = Faulty /\ (Reaches(n)' <=> Reaches(n))
  BY <1>1, ReachesStays
<1>3. UnfoundAt(i)
  BY DEF Unfound
<1>4. /\ hops[i].pc \notin {"lookup", "done"} => n \notin holds
      /\ hops[i].pc \in {"sendRead", "ask", "peer", "resolve"} => n \in leaders
      /\ hops[i].pc \in {"ask", "peer"} /\ Reaches(n) => \E m \in left : m \in holds \ Faulty
  BY <1>3 DEF UnfoundAt
<1>5. Reaches(n) /\ n \notin holds => \E m \in nodes[n] \ {n} : m \in holds \ Faulty
  BY DEF Reaches
<1> SUFFICES /\ hops'[i].pc \notin {"lookup", "done"} => n \notin holds
             /\ hops'[i].pc \in {"sendRead", "ask", "peer", "resolve"} => n \in leaders
             /\ hops'[i].pc \in {"ask", "peer"} /\ Reaches(n)
                  => \E m \in hops'[i].left : m \in holds \ Faulty
             /\ hops'[i].pc = "resolve" => ~Reaches(n)
  BY <1>1, <1>2 DEF UnfoundAt
<1>6. CASE HopStep(i)
  <2>1. hops'[i].pc \notin {"lookup", "done"} => n \notin holds
    BY <1>4, <1>6 DEF HopStep, Jumps
  <2>2. hops'[i].pc \in {"sendRead", "ask", "peer", "resolve"} => n \in leaders
    BY <1>4, <1>6 DEF HopStep, Jumps
  <2>3. CASE hops[i].pc = "sendRead"
    <3>1. hops'[i].pc = "ask" /\ hops'[i].left = nodes[n] \ {n} /\ n \notin holds
      BY <1>4, <1>6, <2>3 DEF HopStep, Jumps
    <3> QED BY <1>4, <1>5, <2>2, <2>3, <3>1
  <2>4. CASE hops[i].pc = "peer"
    BY <1>4, <1>6, <2>1, <2>2, <2>4 DEF HopStep, Jumps
  <2>5. CASE hops[i].pc = "ask"
    <3>1. hops'[i].pc = "resolve" /\ left = {}
      BY <1>6, <2>5 DEF HopStep, Jumps
    <3> QED BY <1>4, <2>1, <2>2, <2>5, <3>1
  <2>6. CASE hops[i].pc \notin {"sendRead", "ask", "peer"}
    <3>1. hops'[i].pc \notin {"ask", "peer", "resolve"}
      BY <1>6, <2>6 DEF HopStep, Jumps
    <3> QED BY <2>1, <2>2, <3>1
  <2> QED BY <2>3, <2>4, <2>5, <2>6
<1>7. ASSUME NEW p \in Node, Asks(i, p)
      PROVE  /\ n \notin holds /\ n \in leaders /\ hops'[i].pc # "resolve"
             /\ hops'[i].pc \in {"ask", "peer"} /\ Reaches(n)
                  => \E m \in hops'[i].left : m \in holds \ Faulty
  <2>1. hops[i].pc = "ask" /\ n \notin holds /\ n \in leaders /\ hops'[i].left = left \ {p}
    BY <1>4, <1>7 DEF Asks
  <2>2. hops'[i].pc \in {"peer", "ask"} => p \notin holds \ Faulty
    BY <1>7 DEF Asks, Faulty
  <2>3. hops'[i].pc # "resolve"
    BY <1>7 DEF Asks
  <2> QED BY <1>4, <2>1, <2>2, <2>3
<1> QED BY <1>6, <1>7

LEMMA HopUnfound ==
  ASSUME Inv, Unfound, NEW i \in DOMAIN hops, handle_read(i)
  PROVE  Unfound'
<1>1. /\ UNCHANGED <<fixed, views, elapsed>>
      /\ UNCHANGED <<down, hung, leaders, leaderIp, promoting, nodes, holds, changes>>
  BY HopLeaves DEF fixed, views
<1> SUFFICES ASSUME changes = 0, NEW j \in DOMAIN hops' PROVE UnfoundAt(j)'
  BY <1>1 DEF Unfound
<1>2. \A k \in DOMAIN hops : UnfoundAt(k) /\ hops[k].node \in Node
  BY HopsType DEF Unfound, Inv
<1>3. Faulty' = Faulty /\ \A n \in Node : Reaches(n)' <=> Reaches(n)
  BY <1>1, ReachesStays
<1>4. ASSUME j \in DOMAIN hops, hops'[j] = hops[j] PROVE UnfoundAt(j)'
  BY <1>1, <1>2, <1>3, <1>4 DEF UnfoundAt
<1>5. CASE Moves(i) /\ (HopStep(i) \/ \E p \in Node : Asks(i, p))
  <2>1. CASE j = i
    BY <1>1, <1>5, <2>1, MoveUnfound
  <2>2. CASE j # i
    BY <1>4, <1>5, <2>2 DEF Moves
  <2> QED BY <2>1, <2>2
<1>6. CASE Forwards(i)
  <2>1. CASE j = Len(hops) + 1
    <3>1. hops'[j].pc = "lookup"
      BY <1>6, <2>1 DEF Forwards, Arrived
    <3> QED BY <3>1 DEF UnfoundAt
  <2>2. CASE j = i
    <3>1. hops'[i].pc = "reply" /\ hops'[i].node = hops[i].node /\ hops[i].pc = "forward"
      BY <1>6 DEF Forwards
    <3>2. hops[i].node \notin holds
      BY <1>2, <3>1 DEF UnfoundAt
    <3> QED BY <1>1, <2>2, <3>1, <3>2 DEF UnfoundAt
  <2>3. CASE j # i /\ j # Len(hops) + 1
    <3>1. j \in DOMAIN hops /\ hops'[j] = hops[j]
      BY <1>6, <2>3, HopsType DEF Forwards, Inv
    <3> QED BY <1>4, <3>1
  <2> QED BY <2>1, <2>2, <2>3
<1> QED BY <1>5, <1>6, OneHop

LEMMA StepUnfound == Inv /\ Unfound /\ [Next]_vars => Unfound'
<1> SUFFICES ASSUME Inv, Unfound, [Next]_vars PROVE Unfound'
  OBVIOUS
<1>1. CASE UNCHANGED vars
  BY <1>1 DEF vars, fixed, views, Unfound, UnfoundAt, Reaches, Faulty
<1>2. CASE Tick
  <2>1. UNCHANGED <<fixed, views>>
    BY <1>2 DEF Tick
  <2> QED BY <1>2, <2>1, TickMoves DEF Unfound, UnfoundAt, Reaches, Faulty, fixed, views
<1>3. ASSUME NEW n \in Node, TakeLead(n) PROVE Unfound'
  <2> SUFFICES ASSUME changes' = 0 PROVE Unfound'
    BY DEF Unfound
  <2>1. /\ UNCHANGED <<down, hung, nodes, holds, changes, hops>>
        /\ leaders \subseteq leaders'
    BY <1>3 DEF TakeLead, Views!TakeLead, fixed, Inv, TypeOK
  <2>2. Faulty' = Faulty /\ \A m \in Node : Reaches(m)' <=> Reaches(m)
    BY <2>1, ReachesStays
  <2>3. \A k \in DOMAIN hops : hops[k].node \in Node
    BY HopsType DEF Inv
  <2> QED BY <2>1, <2>2, <2>3 DEF Unfound, UnfoundAt
<1>4. ASSUME NEW n \in Node, NewLeader(n) \/ Beat(n) PROVE Unfound'
  <2>1. changes' # 0
    BY <1>4 DEF NewLeader, Beat, Inv, TypeOK
  <2> QED BY <2>1 DEF Unfound
<1> QED BY <1>1, <1>2, <1>3, <1>4, HopUnfound DEF Next

LEMMA InitUnfound == Init => Unfound
BY DEF Init, Unfound, UnfoundAt, Arrived

\* Whatever the tables lack, whatever hangs and whoever is being promoted, a node
\* asks live DNS only about a domain that neither it nor a node in its table that
\* answers has, unless leaders, tables or shards change during the read.
THEOREM ResolvesLast == Spec => []ResolvesOnlyUnfound
<1>1. Unfound => ResolvesOnlyUnfound
  BY DEF Unfound, UnfoundAt, ResolvesOnlyUnfound
<1> QED BY <1>1, InitInv, StepInv, InitUnfound, StepUnfound, PTL DEF Spec

-------------------------------------------------------------------------------
(* The record is found.                                                    *)

LEMMA Products ==
  ASSUME NEW a \in Nat, NEW b \in Nat, a <= b, NEW p \in Nat
  PROVE  /\ p * a \in Nat /\ p * b \in Nat /\ p * a <= p * b
         /\ p * (a + 1) = p * a + p
OBVIOUS

\* Subsets of the nodes, counted.
LEMMA Counts ==
  ASSUME NEW S \in SUBSET Node
  PROVE  /\ Cardinality(S) \in Nat
         /\ \A T \in SUBSET S : Cardinality(T) \in Nat /\ Cardinality(T) <= Cardinality(S)
         /\ \A x \in S : Cardinality(S \ {x}) + 1 = Cardinality(S)
<1>1. IsFiniteSet(S) /\ \A T \in SUBSET S : IsFiniteSet(T)
  BY ReadAssumption, FS_Subset
<1>2. Cardinality(S) \in Nat /\ \A T \in SUBSET S : Cardinality(T) \in Nat
  BY <1>1, FS_CardinalityType
<1>3. \A T \in SUBSET S : Cardinality(T) <= Cardinality(S)
  BY <1>1, FS_Subset
<1>4. \A x \in S : Cardinality(S \ {x}) = Cardinality(S) - 1
  BY <1>1, FS_RemoveElement
<1> QED BY <1>2, <1>3, <1>4

\* The timeouts of all hung peers fit into that of a forward.
LEMMA HungFit ==
  ASSUME Inv, HungShort, NEW S \in SUBSET Node
  PROVE  /\ Cardinality(hung \cap S) \in Nat
         /\ PeerTimeout * Cardinality(hung \cap S) \in Nat
         /\ PeerTimeout * Cardinality(hung \cap S) <= ForwardTimeout - 1
<1> DEFINE c == Cardinality(hung \cap S)
           d == Cardinality(hung)
<1>1. hung \in SUBSET Node /\ hung \cap S \in SUBSET hung
  BY DEF Inv, TypeOK
<1>2. c \in Nat /\ c <= d /\ d \in Nat /\ PeerTimeout \in Nat /\ ForwardTimeout \in Nat
  BY <1>1, Counts, ReadAssumption
<1>3. d * PeerTimeout < ForwardTimeout
  BY DEF HungShort
<1> HIDE DEF c, d
<1>4. PeerTimeout * c \in Nat /\ PeerTimeout * c <= PeerTimeout * d /\ PeerTimeout * d \in Nat
  BY <1>2, Products
<1>5. PeerTimeout * d < ForwardTimeout
  BY <1>2, <1>3
<1> QED BY <1>2, <1>4, <1>5 DEF c

\* The time a hop may still take, by where it is.
LEMMA RestIs ==
  ASSUME Inv, HungShort, NEW i \in DOMAIN hops
  PROVE  /\ hops[i].pc \in Early => Rest(i) = ForwardTimeout - 1
         /\ hops[i].pc \in {"ask", "peer"} =>
              Rest(i) = hops[i].wait + PeerTimeout * Cardinality(hung \cap hops[i].left)
         /\ hops[i].pc \in {"resolve", "reply", "done"} => Rest(i) = 0
         /\ Rest(i) \in Nat
<1>1. /\ hops[i].pc \in Early => Rest(i) = ForwardTimeout - 1
      /\ hops[i].pc \in {"ask", "peer"} =>
           Rest(i) = hops[i].wait + PeerTimeout * Cardinality(hung \cap hops[i].left)
      /\ hops[i].pc \in {"resolve", "reply", "done"} => Rest(i) = 0
  BY DEF Rest, Early
<1>2. hops[i].pc \in Labels /\ hops[i].wait \in Nat /\ ForwardTimeout - 1 \in Nat
  BY HopsType, ReadAssumption DEF Inv
<1>3. PeerTimeout * Cardinality(hung \cap hops[i].left) \in Nat
  BY HopsType, HungFit DEF Inv
<1>4. hops[i].pc \in Early \cup {"ask", "peer", "resolve", "reply", "done"}
  BY <1>2 DEF Labels, Early
<1> QED BY <1>1, <1>2, <1>3, <1>4

\* No step of a hop leaves it more to do, ends without the record or has it
\* wait for a leader that does not answer.
LEMMA RestShrinks ==
  ASSUME Inv, Inv', Unfound, Patient, GoodLeaders,
         NEW i \in DOMAIN hops, Moves(i), UNCHANGED <<fixed, views, elapsed>>,
         HopStep(i) \/ \E p \in Node : Asks(i, p)
  PROVE  /\ Rest(i)' <= Rest(i) /\ Rest(i) \in Int /\ Rest(i)' \in Int
         /\ hops'[i].pc # "reply"
         /\ hops'[i].pc = "done" => hops'[i].ans = "record"
<1> DEFINE n == hops[i].node
           left == hops[i].left
           wait == hops[i].wait
<1>1. /\ n \in Node /\ left \in SUBSET Node /\ wait \in Nat /\ n \notin Faulty /\ n \notin hung
      /\ i \in DOMAIN hops' /\ hung' = hung /\ nodes[n] \in SUBSET Node /\ HungShort
      /\ hops[i].pc \in Early \cup {"ask"} => wait = 0
      /\ ForwardTimeout \in Nat \ {0} /\ PeerTimeout \in Nat \ {0}
  BY HopsType, ReadAssumption DEF Inv, TypeOK, Alive, Faulty, Moves, fixed, GoodLeaders
<1>2. /\ hops[i].pc # "resolve" /\ leaderIp[n] \notin Faulty
      /\ hops[i].pc = "sendRead" => n \in leaders
      /\ hops[i].pc \in {"ask", "peer"} => left # {}
  <2>1. UnfoundAt(i) /\ (n \in leaders => Reaches(n))
    BY <1>1 DEF GoodLeaders, Unfound
  <2> QED BY <1>1, <2>1 DEF GoodLeaders, UnfoundAt
<1>3. /\ hops'[i].pc \in Early => Rest(i)' = ForwardTimeout - 1
      /\ hops'[i].pc \in {"ask", "peer"} =>
           Rest(i)' = hops'[i].wait + PeerTimeout * Cardinality(hung \cap hops'[i].left)
      /\ hops'[i].pc \in {"resolve", "done"} => Rest(i)' = 0
  BY <1>1 DEF Rest, Early
<1>4. /\ PeerTimeout * Cardinality(hung \cap left) \in Nat
      /\ Cardinality(hung \cap left) \in Nat
  BY <1>1, HungFit
<1>5. CASE hops[i].pc \in Early
  <2>1. Rest(i) = ForwardTimeout - 1
    BY <1>1, <1>5, RestIs
  <2>2. CASE hops'[i].pc = "ask"
    <3>1. hops'[i].left = nodes[n] \ {n} /\ hops'[i].wait = 0
      BY <1>1, <1>2, <1>5, <2>2 DEF HopStep, Jumps, Asks, Early
    <3>2. PeerTimeout * Cardinality(hung \cap (nodes[n] \ {n})) \in Nat
          /\ PeerTimeout * Cardinality(hung \cap (nodes[n] \ {n})) <= ForwardTimeout - 1
      BY <1>1, HungFit
    <3> QED BY <1>1, <1>3, <2>1, <2>2, <3>1, <3>2
  <2>3. CASE hops'[i].pc \in Early
    BY <1>1, <1>3, <2>1, <2>3 DEF Early
  <2>4. CASE hops'[i].pc = "done"
    <3>1. hops'[i].ans = "record"
      BY <1>2, <1>5, <2>4 DEF HopStep, Jumps, Asks, Early
    <3> QED BY <1>1, <1>3, <2>1, <2>4, <3>1
  <2>5. hops'[i].pc \in Early \cup {"ask", "done"}
    BY <1>2, <1>5 DEF HopStep, Jumps, Asks, Early
  <2> QED BY <2>2, <2>3, <2>4, <2>5
<1>6. CASE HopStep(i) /\ hops[i].pc \in {"ask", "peer"}
  <2>1. hops'[i].pc = "ask" /\ hops'[i].left = left /\ hops'[i].wait = 0 /\ wait = 0
    BY <1>2, <1>6 DEF HopStep, Jumps
  <2> QED BY <1>1, <1>3, <1>4, <1>6, <2>1, RestIs
<1>7. ASSUME NEW p \in Node, Asks(i, p)
      PROVE  /\ Rest(i)' <= Rest(i) /\ Rest(i) \in Int /\ Rest(i)' \in Int
             /\ hops'[i].pc # "reply"
             /\ hops'[i].pc = "done" => hops'[i].ans = "record"
  <2>1. /\ hops[i].pc = "ask" /\ wait = 0 /\ hops'[i].left = left \ {p} /\ p \in left
        /\ Rest(i) = PeerTimeout * Cardinality(hung \cap left)
    BY <1>1, <1>4, <1>7, RestIs DEF Asks
  <2>2. CASE p \in hung
    <3>1. hops'[i].pc = "peer" /\ hops'[i].wait = PeerTimeout
      BY <1>7, <2>2 DEF Asks
    <3>2. hung \cap (left \ {p}) = (hung \cap left) \ {p} /\ p \in hung \cap left
          /\ hung \cap left \in SUBSET Node
      BY <1>1, <2>1, <2>2
    <3> DEFINE c == Cardinality(hung \cap (left \ {p}))
    <3>3. c + 1 = Cardinality(hung \cap left) /\ c \in Nat
      BY <1>1, <3>2, Counts, HungFit
    <3> HIDE DEF c
    <3>4. PeerTimeout * (c + 1) = PeerTimeout * c + PeerTimeout /\ PeerTimeout * c \in Nat
      BY <1>1, <3>3, Products
    <3>5. Rest(i)' = PeerTimeout + PeerTimeout * c
      BY <1>3, <2>1, <3>1 DEF c
    <3>6. Rest(i) = PeerTimeout * (c + 1)
      BY <2>1, <3>3
    <3> QED BY <1>1, <3>1, <3>4, <3>5, <3>6
  <2>3. CASE p \notin hung /\ hops'[i].pc = "ask"
    <3>1. hung \cap (left \ {p}) = hung \cap left /\ hops'[i].wait = 0
      BY <1>7, <2>3 DEF Asks
    <3>2. Rest(i)' = 0 + PeerTimeout * Cardinality(hung \cap left)
      BY <1>3, <2>1, <2>3, <3>1
    <3> QED BY <1>4, <2>1, <2>3, <3>2
  <2>4. CASE p \notin hung /\ hops'[i].pc = "done"
    <3>1. hops'[i].ans = "record"
      BY <1>7, <2>4 DEF Asks
    <3> QED BY <1>3, <1>4, <2>1, <2>4, <3>1
  <2> QED BY <1>7, <2>2, <2>3, <2>4 DEF Asks
<1>8. CASE HopStep(i) /\ hops[i].pc = "reply"
  <2>1. Len(hops) \in Nat \ {0} /\ DOMAIN hops = 1 .. Len(hops) /\ i # Len(hops)
    BY <1>8, HopsType DEF Inv, Patient, Last
  <2>2. i + 1 \in DOMAIN hops /\ i \in 1 .. Len(hops) - 1 /\ Len(hops) \in DOMAIN hops
    BY <2>1
  <2>3. wait > Rest(Len(hops)) /\ Rest(Len(hops)) \in Nat
    BY <1>1, <1>8, <2>2, RestIs DEF Patient
  <2>4. hops'[i].pc = "done" /\ ((Answered(i) /\ hops'[i].ans = hops[i + 1].ans) \/ wait = 0)
    BY <1>8 DEF HopStep, Jumps
  <2>5. Answered(i) => hops[i + 1].ans = "record"
    BY <2>2 DEF Answered, Patient
  <2>6. wait # 0
    BY <1>1, <2>3
  <2>7. Rest(i) = 0 /\ Rest(i)' = 0
    BY <1>1, <1>3, <1>8, <2>4, RestIs
  <2> QED BY <2>4, <2>5, <2>6, <2>7
<1>9. HopStep(i) => hops[i].pc \in Early \cup {"ask", "peer", "reply"}
  BY <1>2 DEF HopStep, Jumps, Early
<1> QED BY <1>5, <1>6, <1>7, <1>8, <1>9

LEMMA HopPatient ==
  ASSUME Inv, Inv', Unfound, Patient, NEW i \in DOMAIN hops, handle_read(i)
  PROVE  Patient'
<1> DEFINE L == Len(hops)
<1>1. /\ UNCHANGED <<fixed, views, elapsed>>
      /\ UNCHANGED <<down, hung, leaders, leaderIp, promoting, nodes, holds, changes>>
  BY HopLeaves DEF fixed, views
<1> SUFFICES ASSUME GoodLeaders
             PROVE  /\ \A j \in DOMAIN hops' : hops'[j].pc = "done" => hops'[j].ans = "record"
                    /\ \A j \in 1 .. Len(hops') - 1 :
                         hops'[j].pc = "reply" => hops'[j].wait > Rest(Len(hops))'
                    /\ hops'[Len(hops')].pc # "reply"
  BY <1>1 DEF Patient, GoodLeaders, HungShort, Reaches, Faulty, Last
<1>2. /\ L \in Nat \ {0} /\ DOMAIN hops = 1 .. L /\ L \in DOMAIN hops
      /\ \A j \in DOMAIN hops : hops[j].wait \in Nat
      /\ Rest(L) \in Nat
  BY HopsType, RestIs DEF Inv, GoodLeaders
<1>3. /\ \A j \in DOMAIN hops : hops[j].pc = "done" => hops[j].ans = "record"
      /\ \A j \in 1 .. L - 1 : hops[j].pc = "reply" => hops[j].wait > Rest(L)
      /\ hops[L].pc # "reply"
  BY DEF Patient, Last
<1>4. CASE Moves(i) /\ (HopStep(i) \/ \E p \in Node : Asks(i, p))
  <2>1. /\ Rest(i)' <= Rest(i) /\ Rest(i) \in Int /\ Rest(i)' \in Int
        /\ hops'[i].pc # "reply"
        /\ hops'[i].pc = "done" => hops'[i].ans = "record"
    BY <1>1, <1>4, RestShrinks
  <2>2. /\ Len(hops') = L /\ DOMAIN hops' = DOMAIN hops
        /\ \A j \in DOMAIN hops : j # i => hops'[j] = hops[j]
    BY <1>4 DEF Moves
  <2>3. Rest(Len(hops))' <= Rest(L) /\ Rest(Len(hops))' \in Int
    <3>1. Rest(Len(hops))' = Rest(L)'
      BY <2>2
    <3>2. CASE i = L
      BY <2>1, <2>2, <3>2
    <3>3. CASE i # L
      <4>1. hops'[L] = hops[L]
        BY <1>2, <2>2, <3>3
      <4>2. Rest(Len(hops))' = Rest(L)
        BY <1>1, <2>2, <4>1 DEF Rest
      <4> QED BY <1>2, <4>2
    <3> QED BY <3>2, <3>3
  <2>4. ASSUME NEW j \in 1 .. L - 1, hops'[j].pc = "reply" PROVE hops'[j].wait > Rest(Len(hops))'
    <3>1. hops'[j] = hops[j] /\ j \in DOMAIN hops
      BY <1>2, <2>1, <2>2, <2>4
    <3>2. hops[j].wait > Rest(L) /\ hops[j].wait \in Nat
      BY <1>2, <1>3, <2>4, <3>1
    <3> QED BY <1>2, <2>3, <3>1, <3>2
  <2>5. hops'[L].pc # "reply"
    BY <1>2, <1>3, <2>1, <2>2
  <2>6. \A j \in DOMAIN hops' : hops'[j].pc = "done" => hops'[j].ans = "record"
    BY <1>3, <2>1, <2>2
  <2> QED BY <2>2, <2>4, <2>5, <2>6
<1>5. CASE Forwards(i)
  <2>1. /\ i = L /\ hops[L].pc = "forward" /\ Len(hops') = L + 1 /\ DOMAIN hops' = 1 .. L + 1
        /\ \A j \in DOMAIN hops : j # i => hops'[j] = hops[j]
        /\ hops'[L].pc = "reply" /\ hops'[L].wait = ForwardTimeout
        /\ hops'[L + 1].pc = "lookup"
    BY <1>5 DEF Forwards, Arrived
  <2>2. Rest(L) = ForwardTimeout - 1
    BY <1>2, <2>1, RestIs DEF Early, GoodLeaders
  <2>3. Rest(Len(hops))' = ForwardTimeout - 1 /\ ForwardTimeout \in Nat
    BY <2>1, ReadAssumption DEF Rest, Early
  <2>4. ASSUME NEW j \in 1 .. L, hops'[j].pc = "reply" PROVE hops'[j].wait > Rest(Len(hops))'
    <3>1. CASE j = L
      BY <2>1, <2>3, <3>1
    <3>2. CASE j # L
      <4>1. j \in 1 .. L - 1 /\ j \in DOMAIN hops /\ j # i
        <5>1. L \in Nat /\ DOMAIN hops = 1 .. L /\ i = L /\ j \in 1 .. L /\ j # L
          BY <1>2, <2>1, <2>4, <3>2
        <5> HIDE DEF L
        <5>2. j \in 1 .. L - 1
          BY <5>1
        <5> QED BY <5>1, <5>2
      <4>2. hops'[j] = hops[j]
        BY <2>1, <4>1
      <4> QED BY <1>3, <2>2, <2>3, <2>4, <4>1, <4>2
    <3> QED BY <3>1, <3>2
  <2>5. ASSUME NEW j \in DOMAIN hops', hops'[j].pc = "done" PROVE hops'[j].ans = "record"
    <3>1. j \in DOMAIN hops /\ j # i
      BY <1>2, <2>1, <2>5
    <3> QED BY <1>3, <2>1, <2>5, <3>1
  <2>6. Len(hops') - 1 = L
    BY <1>2, <2>1
  <2> QED BY <2>1, <2>4, <2>5, <2>6
<1> QED BY <1>4, <1>5, OneHop

\* Of the hops from i to j, of which j is done and the others wait or are done,
\* one is done right after one that waits: that one has its answer.
LessThan == {ss \in Nat \X Nat : ss[1] < ss[2]}

LEMMA SomeoneAnswered ==
  ASSUME Inv, NEW i \in DOMAIN hops, hops[i].pc = "reply", Last.pc = "done"
  PROVE  \E k \in DOMAIN hops : hops[k].pc = "reply" /\ Answered(k)
<1> DEFINE L == Len(hops)
           T == {j \in i .. L : hops[j].pc = "done"}
<1>1. L \in Nat /\ DOMAIN hops = 1 .. L /\ i \in Nat /\ i >= 1 /\ i <= L
  BY HopsType DEF Inv
<1>2. T \subseteq Nat /\ L \in T
  BY <1>1 DEF Last
<1>3. IsWellFoundedOn(LessThan, Nat)
  BY NatLessThanWellFounded DEF OpToRel, LessThan
<1>4. PICK t \in T : \A y \in T : ~(<<y, t>> \in LessThan)
  <2> HIDE DEF T
  <2> QED BY <1>2, <1>3, WFMin
<1>5. t \in i .. L /\ hops[t].pc = "done" /\ t # i
  BY <1>4
<1> DEFINE k == t - 1
<1>6. k \in i .. L /\ k \in 1 .. L - 1 /\ k + 1 = t /\ k < t /\ k \in Nat /\ t \in Nat
  BY <1>1, <1>5
<1>7. <<k, t>> \in LessThan
  BY <1>6 DEF LessThan
<1>8. k \notin T
  <2> HIDE DEF T, k
  <2> QED BY <1>4, <1>7
<1>9. hops[k].pc # "done"
  BY <1>6, <1>8
<1>10. hops[k].pc = "reply"
  BY <1>6, <1>9 DEF Inv, Behind
<1>11. Answered(k) /\ k \in DOMAIN hops
  <2>1. k < Len(hops) /\ k \in DOMAIN hops
    BY <1>1, <1>6
  <2> QED BY <1>5, <1>6, <2>1 DEF Answered
<1> QED BY <1>10, <1>11

LEMMA TickPatient ==
  ASSUME Inv, Unfound, Patient, Tick
  PROVE  Patient'
<1> DEFINE L == Len(hops)
<1>1. /\ UNCHANGED <<down, hung, leaders, leaderIp, promoting, nodes, holds, changes>>
      /\ Len(hops') = L /\ DOMAIN hops' = DOMAIN hops
      /\ \A i \in DOMAIN hops :
           /\ hops'[i].pc = hops[i].pc /\ hops'[i].left = hops[i].left /\ hops'[i].ans = hops[i].ans
           /\ hops'[i].wait = IF hops[i].wait = 0 THEN 0 ELSE hops[i].wait - 1
  BY TickMoves DEF Tick, fixed, views
<1> SUFFICES ASSUME GoodLeaders
             PROVE  /\ \A j \in DOMAIN hops : hops'[j].pc = "done" => hops'[j].ans = "record"
                    /\ \A j \in 1 .. L - 1 :
                         hops'[j].pc = "reply" => hops'[j].wait > Rest(Len(hops))'
                    /\ hops'[L].pc # "reply"
  BY <1>1 DEF Patient, GoodLeaders, HungShort, Reaches, Faulty, Last
<1>2. /\ L \in Nat \ {0} /\ DOMAIN hops = 1 .. L /\ L \in DOMAIN hops
      /\ \A j \in DOMAIN hops : hops[j].wait \in Nat /\ hops[j].pc \in Labels
  BY HopsType DEF Inv
<1>3. /\ \A j \in DOMAIN hops : hops[j].pc = "done" => hops[j].ans = "record"
      /\ \A j \in 1 .. L - 1 : hops[j].pc = "reply" => hops[j].wait > Rest(L)
      /\ hops[L].pc # "reply"
  BY DEF Patient, Last
<1>4. \A j \in DOMAIN hops : Blocked(j)
  BY DEF Tick
<1>5. hops[L].pc = "done" \/ (hops[L].pc = "peer" /\ hops[L].wait > 0)
  <2>1. UnfoundAt(L) /\ hops[L].node \notin Faulty
    BY <1>2 DEF GoodLeaders, Unfound, Inv, Alive
  <2>2. hops[L].pc # "resolve"
    BY <2>1 DEF GoodLeaders, UnfoundAt
  <2> QED BY <1>2, <1>3, <1>4, <2>2 DEF Blocked
<1>6. ASSUME NEW j \in 1 .. L - 1, hops'[j].pc = "reply" PROVE hops'[j].wait > Rest(Len(hops))'
  <2>1. j \in DOMAIN hops /\ hops[j].pc = "reply" /\ hops[j].wait > Rest(L)
    BY <1>1, <1>2, <1>3, <1>6
  <2>2. hops[L].pc = "peer" /\ hops[L].wait > 0
    <3>1. \A k \in DOMAIN hops : ~(hops[k].pc = "reply" /\ Answered(k))
      BY <1>4 DEF Blocked
    <3> QED BY <1>5, <2>1, <3>1, SomeoneAnswered DEF Last
  <2> DEFINE r == PeerTimeout * Cardinality(hung \cap hops[L].left)
  <2>3. Rest(L) = hops[L].wait + r /\ r \in Nat
    BY <1>2, <2>2, RestIs, HungFit, HopsType DEF Inv, GoodLeaders
  <2>4. Rest(Len(hops))' = hops'[L].wait + r
    BY <1>1, <1>2, <2>2 DEF Rest, Early
  <2> HIDE DEF r
  <2>5. hops'[L].wait = hops[L].wait - 1 /\ hops[L].wait \in Nat /\ hops[j].wait \in Nat
    BY <1>1, <1>2, <2>1, <2>2
  <2>6. hops[j].wait # 0
    BY <2>1, <2>2, <2>3, <2>5
  <2>7. hops'[j].wait = hops[j].wait - 1
    BY <1>1, <2>1, <2>6
  <2> QED BY <2>1, <2>3, <2>4, <2>5, <2>7
<1> QED BY <1>1, <1>2, <1>3, <1>6

LEMMA StepPatient == Inv /\ Inv' /\ Unfound /\ Patient /\ [Next]_vars => Patient'
<1> SUFFICES ASSUME Inv, Inv', Unfound, Patient, [Next]_vars PROVE Patient'
  OBVIOUS
<1>1. CASE UNCHANGED vars
  BY <1>1 DEF vars, fixed, views, Patient, GoodLeaders, HungShort, Reaches, Faulty, Last, Rest
<1>2. ASSUME NEW n \in Node, TakeLead(n) PROVE Patient'
  <2> SUFFICES ASSUME changes' = 0 PROVE Patient'
    BY DEF Patient, GoodLeaders
  <2>1. /\ UNCHANGED <<down, hung, leaderIp, nodes, holds, changes, hops>>
        /\ leaders' \cup promoting' = leaders \cup promoting
    BY <1>2 DEF TakeLead, Views!TakeLead, fixed, Inv, TypeOK
  <2>2. GoodLeaders' <=> GoodLeaders
    BY <2>1 DEF GoodLeaders, HungShort, Reaches, Faulty
  <2> QED BY <2>1, <2>2 DEF Patient, Last, Rest
<1>3. ASSUME NEW n \in Node, NewLeader(n) \/ Beat(n) PROVE Patient'
  <2>1. changes' # 0
    BY <1>3 DEF NewLeader, Beat, Inv, TypeOK
  <2> QED BY <2>1 DEF Patient, GoodLeaders
<1> QED BY <1>1, <1>2, <1>3, HopPatient, TickPatient DEF Next

\* If every leader answers and has a node with the record in its table, and the
\* peers that hang can all time out before a forward does, the client is told the
\* record, whichever node it asks and whoever is being promoted.
THEOREM RecordsAreFound == Spec => []FindsRecord
<1>1. Init => Patient
  BY DEF Init, Patient, Last, Arrived
<1>2. ASSUME Inv, Patient PROVE FindsRecord
  BY <1>2, HopsType DEF Inv, Patient, GoodLeaders, HungShort, FindsRecord
<1>3. Inv /\ Patient => FindsRecord
  BY <1>2
<1> QED BY <1>1, <1>3, InitInv, StepInv, InitUnfound, StepUnfound, StepPatient, PTL DEF Spec

-------------------------------------------------------------------------------
(* The read is answered in time.                                           *)

\* The peers a leader has asked so far when left are left, and the time their
\* timeouts and newRecord may have taken.
AskedOf(left) == Cardinality(Node) - 1 - Cardinality(left)

Longest == (Cardinality(Node) - 1) * PeerTimeout + MaxResolve

LEMMA AskedCounts ==
  ASSUME NEW n \in Node, NEW left \in SUBSET Node, n \notin left
  PROVE  /\ AskedOf(left) \in Nat
         /\ PeerTimeout * AskedOf(left) \in Nat /\ Longest \in Nat
         /\ PeerTimeout * AskedOf(left) + MaxResolve <= Longest
         /\ \A p \in left : /\ AskedOf(left \ {p}) = AskedOf(left) + 1
                            /\ PeerTimeout * AskedOf(left \ {p})
                                 = PeerTimeout * AskedOf(left) + PeerTimeout
<1> DEFINE N == Cardinality(Node)
<1>1. /\ N \in Nat /\ Cardinality(Node \ {n}) + 1 = N /\ Cardinality(Node \ {n}) \in Nat
      /\ left \in SUBSET (Node \ {n}) /\ Node \ {n} \in SUBSET Node
  BY Counts
<1>2. Cardinality(left) \in Nat /\ Cardinality(left) <= Cardinality(Node \ {n})
  BY <1>1, Counts
<1> DEFINE a == N - 1 - Cardinality(left)
<1>3. a \in Nat /\ N - 1 \in Nat /\ a <= N - 1 /\ AskedOf(left) = a
  BY <1>1, <1>2 DEF AskedOf
<1>5. PeerTimeout \in Nat /\ MaxResolve \in Nat
  BY ReadAssumption
<1> DEFINE b == N - 1
<1> HIDE DEF a, b
<1>6. PeerTimeout * a \in Nat /\ PeerTimeout * b \in Nat /\ PeerTimeout * a <= PeerTimeout * b
      /\ PeerTimeout * (a + 1) = PeerTimeout * a + PeerTimeout
  <2>1. b \in Nat /\ a <= b
    BY <1>3 DEF b
  <2> QED BY <1>3, <1>5, <2>1, Products
<1>7. Longest = PeerTimeout * b + MaxResolve
  <2>1. b \in Nat
    BY <1>3 DEF b
  <2>2. b * PeerTimeout = PeerTimeout * b
    BY <1>5, <2>1
  <2> QED BY <2>2 DEF Longest, b
<1>8. ASSUME NEW p \in left PROVE AskedOf(left \ {p}) = a + 1
  <2>1. Cardinality(left \ {p}) + 1 = Cardinality(left) /\ Cardinality(left \ {p}) \in Nat
    BY Counts
  <2> QED BY <1>1, <1>2, <2>1 DEF AskedOf, a
<1> QED BY <1>3, <1>5, <1>6, <1>7, <1>8

\* What the client has waited so far is what its own node has spent.
Spent ==
  LET h == hops[1]
  IN  /\ h.pc \in Early => elapsed = 0
      /\ h.pc = "reply" => elapsed + h.wait <= ForwardTimeout
      /\ h.pc = "ask" => elapsed <= PeerTimeout * AskedOf(h.left)
      /\ h.pc = "peer" => elapsed + h.wait <= PeerTimeout * AskedOf(h.left)
      /\ h.pc = "resolve" => elapsed + h.wait <= Longest
      /\ h.pc = "done" => elapsed <= ForwardTimeout \/ elapsed <= Longest
      /\ Len(hops) > 1 => elapsed <= ForwardTimeout

LEMMA FirstHop ==
  ASSUME Inv
  PROVE  /\ 1 \in DOMAIN hops /\ hops[1].node \in Node /\ hops[1].left \in SUBSET Node
         /\ hops[1].wait \in Nat /\ hops[1].node \notin hops[1].left /\ hops[1].pc \in Labels
         /\ elapsed \in Nat /\ ForwardTimeout \in Nat /\ PeerTimeout \in Nat /\ MaxResolve \in Nat
         /\ AskedOf(hops[1].left) \in Nat /\ PeerTimeout * AskedOf(hops[1].left) \in Nat
         /\ Longest \in Nat
         /\ Len(hops) > 1 => hops[1].pc \in {"reply", "done"}
<1>1. /\ 1 \in DOMAIN hops /\ hops[1].node \in Node /\ hops[1].left \in SUBSET Node
      /\ hops[1].wait \in Nat /\ hops[1].node \notin hops[1].left /\ hops[1].pc \in Labels
      /\ Len(hops) \in Nat
  BY HopsType DEF Inv, Alive
<1>2. elapsed \in Nat /\ ForwardTimeout \in Nat /\ PeerTimeout \in Nat /\ MaxResolve \in Nat
  BY ReadAssumption, MaxElapsedType DEF Inv, TypeOK
<1>3. Len(hops) > 1 => hops[1].pc \in {"reply", "done"}
  BY <1>1 DEF Inv, Behind
<1>4. /\ AskedOf(hops[1].left) \in Nat /\ PeerTimeout * AskedOf(hops[1].left) \in Nat
      /\ Longest \in Nat
  BY <1>1, AskedCounts
<1> QED BY <1>1, <1>2, <1>3, <1>4

\* The client's node goes on.
LEMMA FirstSpent ==
  ASSUME Inv, Spent, Moves(1), UNCHANGED <<fixed, views, elapsed>>,
         HopStep(1) \/ \E p \in Node : Asks(1, p)
  PROVE  Spent'
<1> DEFINE h == hops[1]
           g == hops'[1]
           n == h.node
<1>1. /\ elapsed' = elapsed /\ Len(hops') = Len(hops)
      /\ n \in Node /\ h.left \in SUBSET Node /\ n \notin h.left
      /\ elapsed \in Nat /\ ForwardTimeout \in Nat /\ PeerTimeout \in Nat /\ MaxResolve \in Nat
      /\ Longest \in Nat /\ h.wait \in Nat /\ nodes[n] \in SUBSET Node
  BY FirstHop DEF Moves, Inv, TypeOK
<1>2. Len(hops') > 1 => elapsed <= ForwardTimeout
  BY <1>1 DEF Spent
<1> SUFFICES /\ g.pc \in Early => elapsed = 0
             /\ g.pc = "reply" => elapsed + g.wait <= ForwardTimeout
             /\ g.pc = "ask" => elapsed <= PeerTimeout * AskedOf(g.left)
             /\ g.pc = "peer" => elapsed + g.wait <= PeerTimeout * AskedOf(g.left)
             /\ g.pc = "resolve" => elapsed + g.wait <= Longest
             /\ g.pc = "done" => elapsed <= ForwardTimeout \/ elapsed <= Longest
  BY <1>1, <1>2 DEF Spent, AskedOf, Longest
<1>3. CASE HopStep(1) /\ h.pc \in Early
  <2>1. elapsed = 0
    BY <1>3 DEF Spent
  <2>2. /\ g.pc = "reply" => g.wait = ForwardTimeout
        /\ g.pc = "ask" => g.left = nodes[n] \ {n}
        /\ g.pc = "resolve" => g.wait \in 0 .. MaxResolve
        /\ g.pc # "peer"
    BY <1>3 DEF HopStep, Jumps, Early
  <2>3. MaxResolve <= Longest /\ PeerTimeout * AskedOf(nodes[n] \ {n}) \in Nat
    <3>1. /\ PeerTimeout * AskedOf(h.left) + MaxResolve <= Longest
          /\ PeerTimeout * AskedOf(h.left) \in Nat
      BY <1>1, AskedCounts
    <3>2. PeerTimeout * AskedOf(nodes[n] \ {n}) \in Nat
      <4>1. nodes[n] \ {n} \in SUBSET Node /\ n \notin nodes[n] \ {n}
        BY <1>1
      <4> QED BY <1>1, <4>1, AskedCounts
    <3> DEFINE x == PeerTimeout * AskedOf(h.left)
    <3>3. x \in Nat /\ x + MaxResolve <= Longest
      BY <3>1
    <3> HIDE DEF x
    <3>4. MaxResolve <= Longest
      BY <1>1, <3>3
    <3> QED BY <3>2, <3>4
  <2>4. g.pc = "ask" => elapsed <= PeerTimeout * AskedOf(g.left)
    <3> DEFINE y == PeerTimeout * AskedOf(nodes[n] \ {n})
    <3>1. y \in Nat
      BY <2>3
    <3> HIDE DEF y
    <3>2. elapsed <= y
      BY <2>1, <3>1
    <3> QED BY <2>2, <3>2 DEF y
  <2>5. g.pc = "resolve" => elapsed + g.wait <= Longest
    BY <1>1, <2>1, <2>2, <2>3
  <2>6. g.pc = "reply" => elapsed + g.wait <= ForwardTimeout
    BY <1>1, <2>1, <2>2
  <2> QED BY <1>1, <2>1, <2>2, <2>4, <2>5, <2>6
<1>4. CASE HopStep(1) /\ h.pc = "ask"
  <2>1. g.pc = "resolve" /\ g.wait \in 0 .. MaxResolve
    BY <1>4 DEF HopStep, Jumps
  <2>2. PeerTimeout * AskedOf(h.left) + MaxResolve <= Longest /\ PeerTimeout * AskedOf(h.left) \in Nat
    BY <1>1, AskedCounts
  <2> QED BY <1>1, <1>4, <2>1, <2>2 DEF Spent, Early
<1>5. CASE HopStep(1) /\ h.pc \in {"peer", "resolve", "reply"}
  <2>1. CASE h.pc = "peer"
    <3>1. g.pc = "ask" /\ g.left = h.left /\ h.wait = 0
      BY <1>5, <2>1 DEF HopStep, Jumps
    <3>2. elapsed + h.wait <= PeerTimeout * AskedOf(h.left)
      BY <2>1 DEF Spent
    <3> QED BY <1>1, <3>1, <3>2 DEF Early
  <2>2. CASE h.pc = "resolve"
    <3>1. g.pc = "done" /\ h.wait = 0
      BY <1>5, <2>2 DEF HopStep, Jumps
    <3> QED BY <1>1, <2>2, <3>1 DEF Spent, Early
  <2>3. CASE h.pc = "reply"
    <3>1. g.pc = "done"
      BY <1>5, <2>3 DEF HopStep, Jumps
    <3> QED BY <1>1, <2>3, <3>1 DEF Spent, Early
  <2> QED BY <1>5, <2>1, <2>2, <2>3
<1>6. ASSUME NEW p \in Node, Asks(1, p)
      PROVE  /\ g.pc \in {"ask", "peer", "done"}
             /\ g.pc = "ask" => elapsed <= PeerTimeout * AskedOf(g.left)
             /\ g.pc = "peer" => elapsed + g.wait <= PeerTimeout * AskedOf(g.left)
             /\ g.pc = "done" => elapsed <= Longest
  <2>1. /\ h.pc = "ask" /\ p \in h.left /\ g.left = h.left \ {p}
        /\ g.pc \in {"ask", "peer", "done"}
        /\ g.pc = "peer" => g.wait = PeerTimeout
    BY <1>6 DEF Asks
  <2>2. elapsed <= PeerTimeout * AskedOf(h.left)
    BY <2>1 DEF Spent
  <2>3. /\ PeerTimeout * AskedOf(g.left) = PeerTimeout * AskedOf(h.left) + PeerTimeout
        /\ PeerTimeout * AskedOf(h.left) + MaxResolve <= Longest
        /\ PeerTimeout * AskedOf(h.left) \in Nat
    BY <1>1, <2>1, AskedCounts
  <2> DEFINE x == PeerTimeout * AskedOf(h.left)
             y == PeerTimeout * AskedOf(g.left)
  <2>4. y = x + PeerTimeout /\ x + MaxResolve <= Longest /\ x \in Nat /\ elapsed <= x
    BY <2>2, <2>3
  <2> HIDE DEF x, y
  <2>5. elapsed <= y /\ elapsed + PeerTimeout <= y /\ elapsed <= Longest
    BY <1>1, <2>4
  <2> QED BY <2>1, <2>5 DEF y
<1>7. HopStep(1) => h.pc \in Early \cup {"ask", "peer", "resolve", "reply"}
  BY DEF HopStep, Jumps, Early
<1> QED BY <1>3, <1>4, <1>5, <1>6, <1>7 DEF Early

LEMMA HopSpent ==
  ASSUME Inv, Spent, NEW i \in DOMAIN hops, handle_read(i)
  PROVE  Spent'
<1>1. UNCHANGED <<fixed, views, elapsed>>
  BY HopLeaves
<1>2. CASE Moves(i) /\ (HopStep(i) \/ \E p \in Node : Asks(i, p)) /\ i = 1
  BY <1>1, <1>2, FirstSpent
<1>3. CASE Moves(i) /\ i # 1
  <2>1. hops'[1] = hops[1] /\ Len(hops') = Len(hops)
    BY <1>3, FirstHop DEF Moves
  <2> QED BY <1>1, <2>1 DEF Spent, AskedOf, Longest
<1>4. CASE Forwards(i) /\ i = 1
  <2>1. elapsed = 0 /\ ForwardTimeout \in Nat
    BY <1>4, FirstHop DEF Forwards, Spent, Early
  <2>2. hops'[1].pc = "reply" /\ hops'[1].wait = ForwardTimeout
    BY <1>4 DEF Forwards
  <2> QED BY <1>1, <2>1, <2>2 DEF Spent, Early
<1>5. CASE Forwards(i) /\ i # 1
  <2>1. hops'[1] = hops[1] /\ i = Len(hops)
    BY <1>5, FirstHop DEF Forwards
  <2>2. Len(hops) > 1
    BY <1>5, <2>1, HopsType DEF Inv
  <2> QED BY <1>1, <2>1, <2>2 DEF Spent, AskedOf, Longest
<1> QED BY <1>2, <1>3, <1>4, <1>5, OneHop

LEMMA TickSpent == ASSUME Inv, Spent, Tick PROVE Spent'
<1> DEFINE h == hops[1]
           g == hops'[1]
<1>1. /\ 1 \in DOMAIN hops /\ h.wait \in Nat /\ elapsed \in Nat /\ h.pc \in Labels
      /\ ForwardTimeout \in Nat /\ Longest \in Nat /\ PeerTimeout * AskedOf(h.left) \in Nat
      /\ Len(hops) > 1 => h.pc \in {"reply", "done"}
  BY FirstHop
<1>2. /\ Len(hops') = Len(hops) /\ g.pc = h.pc /\ g.left = h.left
      /\ g.wait = IF h.wait = 0 THEN 0 ELSE h.wait - 1
  BY <1>1, TickMoves
<1>3. CASE h.pc = "done"
  <2>1. elapsed' = elapsed
    BY <1>3 DEF Tick
  <2> QED BY <1>2, <1>3, <2>1 DEF Spent, Longest, Early
<1>4. CASE h.pc # "done"
  <2>1. /\ h.pc \in {"peer", "resolve", "reply"} /\ h.wait > 0
    BY <1>1, <1>4 DEF Tick, Blocked, TimedOut
  <2>2. elapsed' <= elapsed + 1 /\ elapsed' \in Nat /\ g.wait = h.wait - 1
    BY <1>1, <1>2, <2>1 DEF Tick
  <2>3. elapsed' + g.wait <= elapsed + h.wait /\ g.wait \in Nat
    BY <1>1, <2>1, <2>2
  <2>4. CASE h.pc = "peer"
    <3>1. elapsed + h.wait <= PeerTimeout * AskedOf(h.left) /\ ~(Len(hops) > 1)
      BY <1>1, <2>4 DEF Spent
    <3>2. elapsed' + g.wait <= PeerTimeout * AskedOf(h.left)
      BY <1>1, <2>2, <2>3, <3>1
    <3> QED BY <1>2, <2>4, <3>1, <3>2 DEF Spent, AskedOf, Early
  <2>5. CASE h.pc = "resolve"
    <3>1. elapsed + h.wait <= Longest /\ ~(Len(hops) > 1)
      BY <1>1, <2>5 DEF Spent
    <3>2. elapsed' + g.wait <= Longest
      BY <1>1, <2>2, <2>3, <3>1
    <3> QED BY <1>2, <2>5, <3>1, <3>2 DEF Spent, Longest, Early
  <2>6. CASE h.pc = "reply"
    <3>1. elapsed + h.wait <= ForwardTimeout
      BY <2>6 DEF Spent
    <3>2. elapsed' + g.wait <= ForwardTimeout /\ elapsed' <= ForwardTimeout
      BY <1>1, <2>2, <2>3, <3>1
    <3> QED BY <1>2, <2>6, <3>2 DEF Spent, Early
  <2> QED BY <2>1, <2>4, <2>5, <2>6
<1> QED BY <1>3, <1>4

LEMMA StepSpent == Inv /\ Spent /\ [Next]_vars => Spent'
<1> SUFFICES ASSUME Inv, Spent, [Next]_vars PROVE Spent'
  OBVIOUS
<1>1. CASE (\E n \in Node : TakeLead(n) \/ NewLeader(n) \/ Beat(n)) \/ UNCHANGED vars
  BY <1>1 DEF TakeLead, NewLeader, Beat, vars, Spent, AskedOf, Longest
<1> QED BY <1>1, HopSpent, TickSpent DEF Next

\* Whatever the timeouts and however many nodes there are, a node that does not
\* lead replies within its own timeout and a leader within those of its peers
\* and newRecord, so no wait adds up along the leaders a read is passed to.
THEOREM ReadsAreTimely == Spec => []AnsweredInTime
<1>1. Init => Spent
  BY ReadAssumption DEF Init, Spent, Arrived, Early
<1>2. ASSUME Inv, Spent PROVE AnsweredInTime
  <2>1. /\ Len(hops) \in Nat \ {0} /\ hops[1].pc \in Labels /\ elapsed \in Nat
        /\ ForwardTimeout \in Nat /\ hops[1].wait \in Nat /\ Longest \in Nat
    BY <1>2, FirstHop, HopsType DEF Inv
  <2>2. PeerTimeout * AskedOf(hops[1].left) <= Longest /\ PeerTimeout * AskedOf(hops[1].left) \in Nat
    <3>1. /\ PeerTimeout * AskedOf(hops[1].left) + MaxResolve <= Longest
          /\ PeerTimeout * AskedOf(hops[1].left) \in Nat /\ MaxResolve \in Nat
      BY <1>2, FirstHop, AskedCounts
    <3> QED BY <2>1, <3>1
  <2>3. elapsed <= ForwardTimeout \/ elapsed <= Longest
    BY <1>2, <2>1, <2>2 DEF Spent, Labels, Early
  <2>4. Len(hops) > 1 => elapsed <= ForwardTimeout
    BY <1>2 DEF Spent
  <2>5. Len(hops) = 1 \/ Len(hops) > 1
    <3> DEFINE l == Len(hops)
    <3>1. l \in Nat \ {0}
      BY <2>1
    <3> HIDE DEF l
    <3>2. l = 1 \/ l > 1
      BY <3>1
    <3> QED BY <3>2 DEF l
  <2> QED BY <2>3, <2>4, <2>5 DEF AnsweredInTime, Longest
<1>3. Inv /\ Spent => AnsweredInTime
  BY <1>2
<1> QED BY <1>1, <1>3, InitInv, StepInv, StepSpent, PTL DEF Spec

================================================================================
