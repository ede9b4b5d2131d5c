-------------------------- MODULE RecordRefreshProofs --------------------------
(***************************************************************************)
(* RecordRefresh for any number of nodes, any alphabet and any listed      *)
(* domains: its types, that the Batch threads between them leave no record *)
(* unchecked, and when states.txt can be read.                             *)
(***************************************************************************)
EXTENDS RecordRefresh, FiniteSetTheorems, FunctionTheorems, TLAPS

-------------------------------------------------------------------------------
(* The slices of updateRecordSet cover the alphabet, for every alphabet    *)
(* and every cluster size.  Rank r owns the letters from Boundary(r - 1)   *)
(* up to Boundary(r); the first boundary is 0, the last TotalLetters.      *)

\* The end of rank k's slice, and the start of rank k + 1's.
Boundary(k, l) ==
  PerNode(l) * k + (IF k <= Remainder(l) THEN k ELSE Remainder(l))

\* Integer division: TotalLetters = PerNode * l + Remainder, 0 <= Remainder < l.
LEMMA DivMod ==
  ASSUME NEW l \in Nat \ {0}
  PROVE  /\ PerNode(l) \in Nat
         /\ Remainder(l) \in 0 .. l - 1
         /\ TotalLetters = PerNode(l) * l + Remainder(l)
BY TotalLettersAssumption DEF PerNode, Remainder

\* Multiplication by a natural number is monotone.
LEMMA MultMonotone ==
  ASSUME NEW p \in Nat, NEW a \in Int, NEW b \in Int, a <= b
  PROVE  p * a <= p * b
OBVIOUS

LEMMA MultSucc ==
  ASSUME NEW p \in Int, NEW a \in Int
  PROVE  /\ p * (a - 1) + p = p * a
         /\ p * (a + 1) = p * a + p
         /\ p * a \in Int
OBVIOUS

\* Quotient and remainder of a natural number.
LEMMA Quotient ==
  ASSUME NEW a \in Nat, NEW d \in Nat \ {0}
  PROVE  /\ a \div d \in Nat
         /\ d * (a \div d) <= a
         /\ a < d * (a \div d) + d
OBVIOUS

\* The slice of rank r in terms of the boundaries around it.
LEMMA SliceBoundaries ==
  ASSUME NEW l \in Nat \ {0}, NEW r \in 1 .. l
  PROVE  /\ SliceStart(r, l) = Boundary(r - 1, l)
         /\ SliceStart(r, l) + SliceSize(r, l) = Boundary(r, l)
<1>1. SliceStart(r, l) = Boundary(r - 1, l)
  BY DEF SliceStart, LongerBefore, Boundary
<1>2. PerNode(l) * (r - 1) + PerNode(l) = PerNode(l) * r
  BY DivMod, MultSucc
<1>3. SliceStart(r, l) + SliceSize(r, l) = Boundary(r, l)
  <2>1. /\ PerNode(l) * (r - 1) \in Int
        /\ PerNode(l) * r \in Int
        /\ PerNode(l) \in Nat
        /\ Remainder(l) \in Nat
    BY DivMod, MultSucc
  <2>2. LongerBefore(r, l) + (IF r <= Remainder(l) THEN 1 ELSE 0)
          = IF r <= Remainder(l) THEN r ELSE Remainder(l)
    BY <2>1 DEF LongerBefore
  <2>3. LongerBefore(r, l) \in Int
    BY <2>1 DEF LongerBefore
  <2> QED BY <1>2, <2>1, <2>2, <2>3 DEF SliceStart, SliceSize, Boundary
<1> QED BY <1>1, <1>3

\* Every letter of the alphabet is owned by some rank, whatever the alphabet
\* and the cluster size: updateRecordSet leaves no domain without a home.
THEOREM SlicesCover == \A l \in Nat \ {0} : Covers(l)
<1> SUFFICES ASSUME NEW l \in Nat \ {0}, NEW i \in Alphabet
             PROVE  \E r \in 1 .. l : i \in Slice(r, l)
  BY DEF Covers
<1> DEFINE p == PerNode(l)
           m == Remainder(l)
<1>1. /\ p \in Nat
      /\ m \in 0 .. l - 1
      /\ TotalLetters = p * l + m
      /\ i \in Nat
      /\ i < TotalLetters
  BY DivMod, TotalLettersAssumption DEF Alphabet
<1>2. SUFFICES \E k \in 0 .. l - 1 : Boundary(k, l) <= i /\ i < Boundary(k + 1, l)
  <2> PICK k \in 0 .. l - 1 : Boundary(k, l) <= i /\ i < Boundary(k + 1, l)
    BY <1>2
  <2>1. /\ k + 1 \in 1 .. l
        /\ (k + 1) - 1 = k
    OBVIOUS
  <2>2. i \in Slice(k + 1, l)
    BY <2>1, SliceBoundaries DEF Slice
  <2> QED BY <2>1, <2>2
<1> HIDE DEF p, m
<1>3. CASE i < (p + 1) * m
  <2> DEFINE q == i \div (p + 1)
  <2>0. p + 1 \in Nat \ {0} /\ i \in Nat
    BY <1>1
  <2>1. /\ q \in Nat
        /\ (p + 1) * q <= i
        /\ i < (p + 1) * q + (p + 1)
    BY <2>0, Quotient
  <2> HIDE DEF q
  <2>2. q < m
    BY <1>1, <1>3, <2>1, MultMonotone
  <2>3. (p + 1) * q = p * q + q /\ p * (q + 1) = p * q + p /\ p * q \in Int
    BY <1>1, <2>1
  <2>4. Boundary(q, l) = p * q + q /\ Boundary(q + 1, l) = p * (q + 1) + (q + 1)
    BY <1>1, <2>1, <2>2 DEF Boundary, p, m
  <2>5. q \in 0 .. l - 1
    BY <1>1, <2>1, <2>2
  <2>6. Boundary(q, l) <= i /\ i < Boundary(q + 1, l)
    BY <1>1, <2>1, <2>3, <2>4
  <2> QED BY <2>5, <2>6
<1>4. CASE ~(i < (p + 1) * m)
  <2>1. (p + 1) * m = p * m + m /\ p * m \in Int /\ p * l \in Int
    BY <1>1
  <2>2. i - m \in Nat /\ p * m <= i - m /\ i - m < p * l
    BY <1>1, <1>4, <2>1
  <2>3. p # 0
    BY <1>1, <2>2
  <2> DEFINE q == (i - m) \div p
  <2>4. /\ q \in Nat
        /\ p * q <= i - m
        /\ i - m < p * q + p
    BY <1>1, <2>2, <2>3, Quotient
  <2> HIDE DEF q
  <2>5. q < l
    BY <1>1, <2>2, <2>4, MultMonotone
  <2>6. m <= q
    <3> SUFFICES ASSUME q + 1 <= m PROVE FALSE
      BY <1>1, <2>4
    <3>1. p * (q + 1) <= p * m
      BY <1>1, <2>4, MultMonotone
    <3> QED BY <1>1, <2>1, <2>2, <2>4, <3>1, MultSucc
  <2>7. /\ Boundary(q, l) = p * q + m
        /\ Boundary(q + 1, l) = p * (q + 1) + m
    BY <1>1, <2>4, <2>6 DEF Boundary, p, m
  <2>8. q \in 0 .. l - 1
    BY <1>1, <2>4, <2>5
  <2>9. p * (q + 1) = p * q + p /\ p * q \in Int
    BY <1>1, <2>4, MultSucc
  <2>10. Boundary(q, l) <= i /\ i < Boundary(q + 1, l)
    BY <1>1, <2>2, <2>4, <2>7, <2>9
  <2> QED BY <2>8, <2>10
<1> QED BY <1>3, <1>4

-------------------------------------------------------------------------------
(* The invariant.                                                          *)

\* process.py has nothing in hand before it has read states.txt, so what it sends
\* goes to a node.
Idle ==
  target = None => todo[Process] = {} /\ open[Process] = None
                   /\ unread[Process] = {} /\ chunk[Process] = NoLines

\* Nothing is known of the lines of disturbed letters only.
FilesKnown == \A d \in Domain : file[d] = Torn => HeadOf[d] \in disturbed

\* Lines are to come from the file that is open, and each has an address there.
UnreadListed == \A s \in Scanner : \A d \in unread[s] : HeadOf[d] = open[s] /\ file[d] # None

\* A scanner closes a file when it has no line of it in hand.
OpenChunk == \A s \in Scanner : open[s] = None => chunk[s] = NoLines

Inv == TypeOK /\ Idle /\ FilesKnown /\ UnreadListed /\ OpenChunk

-------------------------------------------------------------------------------
(* Types.                                                                  *)

\* The two saves of States().
LEMMA SaveSteps ==
  /\ DOMAIN AfterOpen = {"records", "state"} /\ DOMAIN AfterWrite = {"recordsOpen", "stateOpen"}
  /\ AfterOpen["records"] = "recordsOpen" /\ AfterOpen["state"] = "stateOpen"
  /\ AfterWrite["recordsOpen"] = "state" /\ AfterWrite["stateOpen"] = "loaded"
BY DEF AfterOpen, AfterWrite

\* A slice is a part of the alphabet.
LEMMA SelfRecordsType == ASSUME NEW n \in Node PROVE selfRecords(n) \in SUBSET Alphabet
BY DEF selfRecords, RecordSet, Slice

\* Lines in hand are a function from domains to addresses.
LEMMA LinesIntro ==
  ASSUME NEW S \in SUBSET Domain, NEW f, f \in [S -> Address] PROVE f \in Lines
BY DEF Lines

LEMMA LinesElim ==
  ASSUME NEW f \in Lines PROVE DOMAIN f \subseteq Domain /\ f \in [DOMAIN f -> Address]
BY DEF Lines

LEMMA NoLinesType == NoLines \in Lines /\ DOMAIN NoLines = {}
<1>1. NoLines \in [{} -> Address] /\ DOMAIN NoLines = {}
  BY DEF NoLines
<1>2. {} \in SUBSET Domain
  OBVIOUS
<1> QED BY <1>1, <1>2, LinesIntro

\* A function without arguments is NoLines.
LEMMA EmptyLines == ASSUME NEW f \in Lines, DOMAIN f = {} PROVE f = NoLines
<1>1. f \in [{} -> Address]
  BY LinesElim
<1>2. f = [d \in {} |-> f[d]]
  BY <1>1
<1> QED BY <1>2 DEF NoLines

LEMMA ScannerFacts == Node \subseteq Scanner /\ Process \in Scanner
BY DEF Scanner

LEMMA EventType == Inv /\ Event => events' \in 0 .. MaxEvents
BY RefreshAssumption DEF Inv, TypeOK, Event

LEMMA InitInv == Init => Inv
<1> SUFFICES ASSUME Init PROVE Inv
  OBVIOUS
<1>1. 0 \in Address /\ 0 .. 1 \subseteq Address /\ 0 # Torn
  BY RefreshAssumption DEF Address
<1>2. boot \in [Node -> {"records", "recordsOpen", "state", "stateOpen", "loaded",
                          "batch", "serving"}]
  BY DEF Init
<1>3. statesTxt \in Node \cup {"absent", "empty", "garbled"}
  BY RefreshAssumption DEF Init
<1>4. chunk \in [Scanner -> Lines]
  BY NoLinesType DEF Init
<1>5. live \in [Domain -> Address] /\ file \in [Domain -> Address \cup {Torn, None}]
  BY <1>1 DEF Init
<1>6. events \in 0 .. MaxEvents
  BY RefreshAssumption DEF Init
<1>7. TypeOK
  BY <1>2, <1>3, <1>4, <1>5, <1>6 DEF Init, TypeOK
<1>8. FilesKnown
  BY <1>1, RefreshAssumption DEF Init, FilesKnown
<1> QED BY <1>7, <1>8, ScannerFacts DEF Init, Inv, Idle, UnreadListed, OpenChunk

\* What Disturb does to the files.
LEMMA DisturbFacts ==
  ASSUME Inv, NEW S \in SUBSET Alphabet, NEW f \in [Domain -> Address \cup {Torn, None}],
         \A d \in Domain : f[d] = Torn => HeadOf[d] \in disturbed,
         \A d \in Domain : f[d] = None => file[d] = None,
         Disturb(S, f)
  PROVE  /\ file' \in [Domain -> Address \cup {Torn, None}]
         /\ disturbed' \subseteq Alphabet /\ disturbed \subseteq disturbed'
         /\ FilesKnown'
         /\ \A d \in Domain : file[d] # None => file'[d] # None
<1>1. disturbed' = disturbed \cup S /\ disturbed \subseteq Alphabet
  BY DEF Disturb, Inv, TypeOK
<1>2. \A d \in Domain : file'[d] = IF HeadOf[d] \in disturbed' THEN Torn ELSE f[d]
  BY DEF Disturb
<1>3. file' \in [Domain -> Address \cup {Torn, None}]
  BY DEF Disturb
<1>4. FilesKnown'
  BY <1>1, <1>2 DEF FilesKnown
<1>5. \A d \in Domain : file[d] # None => file'[d] # None
  BY <1>2, RefreshAssumption
<1> QED BY <1>1, <1>3, <1>4, <1>5

\* The same for letters that are disturbed while their lines stay as they are.
LEMMA DisturbSame ==
  ASSUME Inv, NEW S \in SUBSET Alphabet, Disturb(S, file)
  PROVE  /\ file' \in [Domain -> Address \cup {Torn, None}]
         /\ disturbed' \subseteq Alphabet /\ disturbed \subseteq disturbed'
         /\ FilesKnown'
         /\ \A d \in Domain : file[d] # None => file'[d] # None
BY DisturbFacts DEF Inv, TypeOK, FilesKnown

\* A step of main() or a beat leaves the files alone, and of the scanners' state
\* changes at most what a Batch has to do.
LEMMA NodeStep ==
  ASSUME Inv,
         boot' \in [Node -> {"records", "recordsOpen", "state", "stateOpen", "loaded",
                             "batch", "serving"}],
         leaderIp' \in [Node -> Node],
         statesTxt' \in Node \cup {"absent", "empty", "garbled"},
         todo' \in [Scanner -> SUBSET Alphabet], todo'[Process] = todo[Process],
         trouble' \subseteq Trouble, events' \in 0 .. MaxEvents,
         UNCHANGED <<target, open, unread, chunk, asked, fileVars, live, spoiled>>
  PROVE  Inv'
<1>1. TypeOK'
  BY DEF Inv, TypeOK, fileVars
<1>2. Idle'
  BY DEF Inv, Idle
<1> QED BY <1>1, <1>2 DEF Inv, FilesKnown, UnreadListed, OpenChunk, fileVars

LEMMA mainInv ==
  ASSUME Inv, NEW n \in Node, main(n) \/ SaveFails(n) \/ Beat(n)
  PROVE  Inv'
<1>1. boot' \in [Node -> {"records", "recordsOpen", "state", "stateOpen", "loaded",
                          "batch", "serving"}]
  BY SaveSteps
     DEF Inv, TypeOK, main, OpenStates, WriteStates, Saving, StartBatch, StartServer, SaveFails,
         Beat
<1>2. statesTxt' \in Node \cup {"absent", "empty", "garbled"}
  BY DEF Inv, TypeOK, main, OpenStates, Emptied, WriteStates, StartBatch, StartServer, SaveFails,
         Beat
<1>3. trouble' \subseteq Trouble
  <2>1. trouble' = trouble \/ trouble' = trouble \cup {"overlap"} \/ trouble' = trouble \cup {"unsaved"}
    BY DEF main, OpenStates, WriteStates, StartBatch, StartServer, SaveFails, Beat
  <2> QED BY <2>1 DEF Inv, TypeOK, Trouble
<1>4. todo' \in [Scanner -> SUBSET Alphabet] /\ todo'[Process] = todo[Process]
  <2>1. todo' = todo \/ todo' = [todo EXCEPT ![n] = selfRecords(n)]
    BY DEF main, OpenStates, WriteStates, StartBatch, StartServer, SaveFails, Beat, scanVars
  <2> QED BY <2>1, SelfRecordsType, ScannerFacts, RefreshAssumption DEF Inv, TypeOK
<1>5. leaderIp' \in [Node -> Node]
  BY RefreshAssumption
     DEF Inv, TypeOK, main, OpenStates, WriteStates, StartBatch, StartServer, SaveFails, Beat
<1>6. UNCHANGED <<target, open, unread, chunk, asked, fileVars, live, spoiled>>
  BY DEF main, OpenStates, WriteStates, StartBatch, StartServer, SaveFails, Beat, scanVars
<1>7. events' \in 0 .. MaxEvents
  <2>1. events' = events \/ Event
    BY DEF main, OpenStates, WriteStates, StartBatch, StartServer, SaveFails, Beat
  <2> QED BY <2>1, EventType DEF Inv, TypeOK
<1> QED BY <1>1, <1>2, <1>3, <1>4, <1>5, <1>6, <1>7, NodeStep

LEMMA ReadStatesInv == ASSUME Inv, ReadStates PROVE Inv'
<1>1. statesTxt \in Node /\ selfRecords(statesTxt) \in SUBSET Alphabet /\ target' = statesTxt
  BY SelfRecordsType DEF ReadStates
<1>2. todo' \in [Scanner -> SUBSET Alphabet]
  BY <1>1 DEF ReadStates, Inv, TypeOK
<1>3. TypeOK'
  BY <1>1, <1>2 DEF Inv, TypeOK, ReadStates, nodeVars, fileVars
<1>4. Idle'
  BY <1>1, RefreshAssumption DEF Idle
<1> QED BY <1>3, <1>4 DEF Inv, FilesKnown, UnreadListed, OpenChunk, ReadStates, fileVars

\* The scanner of s is at work, so process.py knows its leader.
LEMMA LeaderType ==
  ASSUME Inv, NEW s \in Scanner, open[s] # None \/ chunk[s] # NoLines
  PROVE  Leader(s) \in Node
BY DEF Inv, TypeOK, Idle, Leader, Scanner

LEMMA OpenShardInv ==
  ASSUME Inv, NEW s \in Scanner, NEW h \in Alphabet, OpenShard(s, h)
  PROVE  Inv'
<1> DEFINE S == {HeadOf[m.dom] : m \in rewriting} \cap {h}
<1>1. S \in SUBSET Alphabet /\ Disturb(S, file)
  BY DEF OpenShard
<1> HIDE DEF S
<1>2. /\ file' \in [Domain -> Address \cup {Torn, None}]
      /\ disturbed' \subseteq Alphabet /\ FilesKnown'
      /\ \A d \in Domain : file[d] # None => file'[d] # None
  BY <1>1, DisturbSame
<1>3. /\ todo' \in [Scanner -> SUBSET Alphabet] /\ todo[s] # {}
      /\ todo' = [todo EXCEPT ![s] = @ \ {h}]
  BY DEF OpenShard, Inv, TypeOK
<1>4. LinesOf(h) \subseteq Domain
  BY DEF LinesOf
<1>5. open' \in [Scanner -> Alphabet \cup {None}] /\ unread' \in [Scanner -> SUBSET Domain]
  BY <1>4 DEF OpenShard, Inv, TypeOK
<1>6. /\ UNCHANGED <<boot, leaderIp, statesTxt, target, chunk, asked, writes, commits, rewriting>>
      /\ UNCHANGED <<live, spoiled, trouble, events>>
  BY DEF OpenShard, nodeVars
<1>7. TypeOK'
  BY <1>2, <1>3, <1>5, <1>6 DEF Inv, TypeOK
<1>8. Idle'
  <2>1. target = None => s # Process
    BY <1>3 DEF Inv, Idle
  <2>2. s # Process => open'[Process] = open[Process] /\ unread'[Process] = unread[Process]
                       /\ todo'[Process] = todo[Process]
    BY <1>3, ScannerFacts DEF OpenShard, Inv, TypeOK
  <2> QED BY <1>6, <2>1, <2>2 DEF Inv, Idle
<1>9. UnreadListed'
  <2> SUFFICES ASSUME NEW t \in Scanner, NEW d \in unread'[t]
               PROVE  HeadOf[d] = open'[t] /\ file'[d] # None
    BY DEF UnreadListed
  <2>1. d \in Domain
    BY <1>5
  <2>2. CASE t = s /\ LinesOf(h) # {}
    <3>1. open'[t] = h /\ unread'[t] = LinesOf(h)
      BY <2>2 DEF OpenShard, Inv, TypeOK
    <3> QED BY <1>2, <2>1, <3>1 DEF LinesOf
  <2>3. CASE ~(t = s /\ LinesOf(h) # {})
    <3>1. open'[t] = open[t] /\ unread'[t] = unread[t]
      BY <2>3 DEF OpenShard, Inv, TypeOK
    <3> QED BY <1>2, <2>1, <3>1 DEF Inv, UnreadListed
  <2> QED BY <2>2, <2>3
<1>10. OpenChunk'
  <2> SUFFICES ASSUME NEW t \in Scanner, open'[t] = None PROVE chunk[t] = NoLines
    BY <1>6 DEF OpenChunk
  <2>1. open[t] = None
    BY RefreshAssumption DEF OpenShard, Inv, TypeOK
  <2> QED BY <2>1 DEF Inv, OpenChunk
<1> QED BY <1>2, <1>7, <1>8, <1>9, <1>10 DEF Inv

\* A step with the open file: nothing is opened, and the lines to come are no more
\* than they were.
LEMMA ScanStep ==
  ASSUME Inv, NEW s \in Scanner, open[s] # None \/ chunk[s] # NoLines \/ todo[s] # {},
         todo' \in [Scanner -> SUBSET Alphabet],
         open' \in [Scanner -> Alphabet \cup {None}],
         unread' \in [Scanner -> SUBSET Domain],
         chunk' \in [Scanner -> Lines],
         \A t \in Scanner : t # s => /\ todo'[t] = todo[t] /\ open'[t] = open[t]
                                      /\ unread'[t] = unread[t] /\ chunk'[t] = chunk[t],
         open'[s] = open[s] \/ (open'[s] = None /\ unread'[s] = {} /\ chunk'[s] = NoLines),
         unread'[s] \subseteq unread[s],
         open'[s] = None => chunk'[s] = NoLines,
         writes' \subseteq Message, asked' \subseteq Domain, spoiled' \subseteq Domain,
         trouble' \subseteq Trouble, events' \in 0 .. MaxEvents,
         UNCHANGED <<nodeVars, target, file, commits, rewriting, disturbed, live>>
  PROVE  Inv'
<1>1. TypeOK'
  BY DEF Inv, TypeOK, nodeVars
<1>2. Idle'
  <2>1. target = None => s # Process
    BY DEF Inv, Idle
  <2> QED BY <2>1, ScannerFacts DEF Inv, Idle
<1>3. UnreadListed'
  BY DEF Inv, UnreadListed
<1>4. OpenChunk'
  BY DEF Inv, OpenChunk
<1> QED BY <1>1, <1>2, <1>3, <1>4 DEF Inv, FilesKnown

LEMMA ReadLinesInv == ASSUME Inv, NEW s \in Scanner, ReadLines(s) PROVE Inv'
<1>1. PICK S \in (SUBSET unread[s]) \ {{}} :
        /\ unread' = [unread EXCEPT ![s] = @ \ S]
        /\ chunk' = [chunk EXCEPT ![s] = [d \in S |-> file[d]]]
  BY DEF ReadLines
<1>2. PICK e \in S : TRUE
  BY <1>1
<1>3. S \subseteq Domain
  BY DEF Inv, TypeOK
<1>4. open[s] # None
  BY <1>2, <1>3, RefreshAssumption DEF Inv, UnreadListed
<1>5. \A d \in S : file[d] \in Address
  <2>1. \A d \in S : file[d] # None /\ HeadOf[d] \notin disturbed
    BY DEF Inv, UnreadListed, ReadLines
  <2>2. \A d \in S : file[d] # Torn
    BY <1>3, <2>1 DEF Inv, FilesKnown
  <2> QED BY <1>3, <2>1, <2>2 DEF Inv, TypeOK
<1>6. [d \in S |-> file[d]] \in Lines
  BY <1>3, <1>5, LinesIntro
<1>7. chunk' \in [Scanner -> Lines] /\ unread' \in [Scanner -> SUBSET Domain]
  BY <1>1, <1>6 DEF Inv, TypeOK
<1>8. unread'[s] \subseteq unread[s]
      /\ \A t \in Scanner : t # s => unread'[t] = unread[t] /\ chunk'[t] = chunk[t]
  BY <1>1 DEF Inv, TypeOK
<1>9. /\ UNCHANGED <<todo, open, asked, spoiled, trouble, events>>
      /\ UNCHANGED <<nodeVars, target, file, writes, commits, rewriting, disturbed, live>>
  BY DEF ReadLines, fileVars
<1>10. /\ todo \in [Scanner -> SUBSET Alphabet] /\ open \in [Scanner -> Alphabet \cup {None}]
       /\ writes \subseteq Message /\ asked \subseteq Domain /\ spoiled \subseteq Domain
       /\ trouble \subseteq Trouble /\ events \in 0 .. MaxEvents
  BY DEF Inv, TypeOK
<1> QED BY <1>4, <1>7, <1>8, <1>9, <1>10, ScanStep

LEMMA CloseShardInv == ASSUME Inv, NEW s \in Scanner, CloseShard(s) \/ Abort(s) PROVE Inv'
<1>1. open[s] # None \/ todo[s] # {}
  BY DEF CloseShard, Abort
<1>2. /\ todo' \in [Scanner -> SUBSET Alphabet] /\ open' \in [Scanner -> Alphabet \cup {None}]
      /\ unread' \in [Scanner -> SUBSET Domain]
  BY DEF CloseShard, Abort, Inv, TypeOK
<1>3. chunk' \in [Scanner -> Lines]
  BY NoLinesType DEF CloseShard, Abort, Inv, TypeOK
<1>4. \A t \in Scanner : t # s => /\ todo'[t] = todo[t] /\ open'[t] = open[t]
                                   /\ unread'[t] = unread[t] /\ chunk'[t] = chunk[t]
  BY DEF CloseShard, Abort, Inv, TypeOK
<1>5. open'[s] = None /\ unread'[s] = {} /\ chunk'[s] = NoLines
  BY DEF CloseShard, Abort, Inv, TypeOK
<1>6. trouble' \subseteq Trouble
  <2>1. trouble' = trouble \/ trouble' = trouble \cup {"unread"}
    BY DEF CloseShard, Abort
  <2> QED BY <2>1 DEF Inv, TypeOK, Trouble
<1>7. events' \in 0 .. MaxEvents
  BY EventType DEF CloseShard, Abort, Inv, TypeOK
<1>8. UNCHANGED <<asked, spoiled, writes, nodeVars, target, file, commits, rewriting, disturbed, live>>
  BY DEF CloseShard, Abort, fileVars
<1>9. writes \subseteq Message /\ asked \subseteq Domain /\ spoiled \subseteq Domain
  BY DEF Inv, TypeOK
<1> QED BY <1>1, <1>2, <1>3, <1>4, <1>5, <1>6, <1>7, <1>8, <1>9, ScanStep

\* What is left of the lines in hand when one is dealt with.
LEMMA DealtFacts ==
  ASSUME Inv, NEW s \in Scanner, NEW d \in DOMAIN chunk[s], Dealt(s, d)
  PROVE  /\ d \in Domain /\ chunk[s] # NoLines /\ open[s] # None
         /\ chunk' \in [Scanner -> Lines] /\ asked' \subseteq Domain
         /\ \A t \in Scanner : t # s => chunk'[t] = chunk[t]
         /\ asked' = asked \cup {d}
         /\ DOMAIN chunk'[s] = DOMAIN chunk[s] \ {d}
<1>1. chunk[s] \in Lines
  BY DEF Inv, TypeOK
<1>2. DOMAIN chunk[s] \subseteq Domain /\ chunk[s] \in [DOMAIN chunk[s] -> Address]
  BY <1>1, LinesElim
<1>3. chunk[s] # NoLines
  BY NoLinesType
<1>4. open[s] # None
  BY <1>3 DEF Inv, OpenChunk
<1> DEFINE S == DOMAIN chunk[s] \ {d}
           g == [e \in S |-> chunk[s][e]]
<1>5. S \in SUBSET Domain /\ g \in [S -> Address]
  BY <1>2
<1>6. g \in Lines
  BY <1>5, LinesIntro
<1>7. chunk' = [chunk EXCEPT ![s] = g] /\ asked' = asked \cup {d}
  BY DEF Dealt
<1>8. DOMAIN g = S
  OBVIOUS
<1> HIDE DEF g, S
<1>9. chunk' \in [Scanner -> Lines] /\ chunk'[s] = g /\ \A t \in Scanner : t # s => chunk'[t] = chunk[t]
  BY <1>6, <1>7 DEF Inv, TypeOK
<1>10. DOMAIN chunk'[s] = DOMAIN chunk[s] \ {d}
  BY <1>8, <1>9 DEF S
<1> QED BY <1>2, <1>3, <1>4, <1>7, <1>9, <1>10 DEF Inv, TypeOK

LEMMA CompareInv == ASSUME Inv, NEW s \in Scanner, Compare(s) \/ Unresolvable(s) PROVE Inv'
<1>1. PICK d \in DOMAIN chunk[s] :
        /\ Dealt(s, d)
        /\ writes' = writes \/ writes' = writes \cup {[at |-> Leader(s), dom |-> d, ip |-> live[d]]}
        /\ spoiled' = spoiled \/ spoiled' = spoiled \cup {d}
  BY DEF Compare, Unresolvable, fileVars
<1>2. /\ d \in Domain /\ chunk[s] # NoLines /\ open[s] # None
      /\ chunk' \in [Scanner -> Lines] /\ asked' \subseteq Domain
      /\ \A t \in Scanner : t # s => chunk'[t] = chunk[t]
  BY <1>1, DealtFacts
<1>3. Leader(s) \in Node /\ live[d] \in Address
  BY <1>2, LeaderType DEF Inv, TypeOK
<1>4. writes' \subseteq Message /\ spoiled' \subseteq Domain
  BY <1>1, <1>2, <1>3 DEF Inv, TypeOK, Message
<1>5. events' \in 0 .. MaxEvents
  BY EventType DEF Compare, Unresolvable, Inv, TypeOK
<1>6. /\ UNCHANGED <<todo, open, unread, trouble>>
      /\ UNCHANGED <<nodeVars, target, file, commits, rewriting, disturbed, live>>
  BY DEF Compare, Unresolvable, fileVars
<1>7. /\ todo \in [Scanner -> SUBSET Alphabet] /\ open \in [Scanner -> Alphabet \cup {None}]
      /\ unread \in [Scanner -> SUBSET Domain] /\ trouble \subseteq Trouble
  BY DEF Inv, TypeOK
<1> QED BY <1>2, <1>4, <1>5, <1>6, <1>7, ScanStep

\* A step of the write servers or of live DNS leaves nodes and scanners alone, and
\* takes no line from a file for good.
LEMMA FileStep ==
  ASSUME Inv, UNCHANGED <<nodeVars, scanVars, trouble>>,
         live' \in [Domain -> Address],
         file' \in [Domain -> Address \cup {Torn, None}],
         disturbed' \subseteq Alphabet, FilesKnown',
         \A d \in Domain : file[d] # None => file'[d] # None,
         writes' \subseteq Message, commits' \subseteq Message, rewriting' \subseteq Message,
         spoiled' \subseteq Domain, events' \in 0 .. MaxEvents
  PROVE  Inv'
<1>1. TypeOK'
  BY DEF Inv, TypeOK, nodeVars, scanVars
<1>2. UnreadListed'
  <2>1. \A s \in Scanner : unread[s] \subseteq Domain
    BY DEF Inv, TypeOK
  <2> QED BY <2>1 DEF Inv, UnreadListed, scanVars
<1> QED BY <1>1, <1>2 DEF Inv, Idle, OpenChunk, scanVars

\* A write is on its way.
LEMMA SendInv ==
  ASSUME Inv,
         \/ \E s \in Scanner : Misread(s)
         \/ \E n \in Node, d \in Fresh : newRecord(n, d)
  PROVE  Inv'
<1>1. writes' \subseteq Message
  <2>1. CASE \E s \in Scanner : Misread(s)
    <3>1. PICK s \in Scanner : Misread(s)
      BY <2>1
    <3>2. open[s] # None
      BY <3>1, RefreshAssumption DEF Misread, Inv, TypeOK
    <3>3. Leader(s) \in Node /\ \A d \in Domain : live[d] \in Address
      BY <3>2, LeaderType DEF Inv, TypeOK
    <3> QED BY <3>1, <3>3 DEF Misread, Message, Inv, TypeOK
  <2>2. CASE \E n \in Node, d \in Fresh : newRecord(n, d)
    BY <2>2 DEF newRecord, Message, Domain, Inv, TypeOK
  <2> QED BY <2>1, <2>2
<1>2. events' \in 0 .. MaxEvents
  BY EventType DEF Misread, newRecord
<1>3. UNCHANGED <<nodeVars, scanVars, trouble, live, file, disturbed, commits, rewriting, spoiled>>
  BY DEF Misread, newRecord
<1>4. /\ live \in [Domain -> Address] /\ file \in [Domain -> Address \cup {Torn, None}]
      /\ disturbed \subseteq Alphabet /\ FilesKnown /\ commits \subseteq Message
      /\ rewriting \subseteq Message /\ spoiled \subseteq Domain
  BY DEF Inv, TypeOK
<1>5. FilesKnown'
  BY <1>3, <1>4 DEF FilesKnown
<1> QED BY <1>1, <1>2, <1>3, <1>4, <1>5, FileStep

\* The letters of messages are letters.
LEMMA Heads == ASSUME NEW S \in SUBSET Message PROVE {HeadOf[m.dom] : m \in S} \subseteq Alphabet
BY RefreshAssumption DEF Message

\* What a commit does to the files.
LEMMA BeginFiles ==
  ASSUME Inv, NEW m \in Message, Begin(m)
  PROVE  /\ file' \in [Domain -> Address \cup {Torn, None}]
         /\ disturbed' \subseteq Alphabet /\ disturbed \subseteq disturbed' /\ FilesKnown'
         /\ \A d \in Domain : file[d] # None => file'[d] # None
<1>1. commits \subseteq Message /\ rewriting \subseteq Message /\ writes \subseteq Message
  BY DEF Inv, TypeOK
<1>2. Sharing(m) \subseteq Message /\ Numbering(m) \cup {m} \subseteq Message
  BY <1>1 DEF Sharing, Numbering
<1>3. PICK S \in SUBSET Alphabet : Disturb(S, file)
  <2> DEFINE A == {HeadOf[o.dom] : o \in Sharing(m)}
             B == {HeadOf[o.dom] : o \in Numbering(m) \cup {m}}
  <2>1. A \subseteq Alphabet /\ B \subseteq Alphabet
    BY <1>2, Heads
  <2>2. Disturb(A, file) \/ Disturb(B \cup A, file)
    BY DEF Begin
  <2> HIDE DEF A, B
  <2> QED BY <2>1, <2>2
<1> QED BY <1>3, DisturbSame

LEMMA BeginInv == ASSUME Inv, NEW m \in Message, Begin(m) PROVE Inv'
<1>1. commits \subseteq Message /\ rewriting \subseteq Message /\ writes \subseteq Message
  BY DEF Inv, TypeOK
<1>5. writes' \subseteq Message /\ commits' \subseteq Message
  BY <1>1 DEF Begin
<1>6. UNCHANGED <<nodeVars, scanVars, trouble, live, rewriting, spoiled, events>>
  BY DEF Begin
<1>7. live \in [Domain -> Address] /\ spoiled \subseteq Domain /\ events \in 0 .. MaxEvents
  BY DEF Inv, TypeOK
<1> QED BY <1>1, <1>5, <1>6, <1>7, BeginFiles, FileStep

LEMMA RewriteFiles ==
  ASSUME Inv, NEW m \in Message, Empty(m) \/ Finish(m) \/ CommitFails(m)
  PROVE  /\ file' \in [Domain -> Address \cup {Torn, None}]
         /\ disturbed' \subseteq Alphabet /\ disturbed \subseteq disturbed' /\ FilesKnown'
         /\ \A d \in Domain : file[d] # None => file'[d] # None
<1>0. m.dom \in Domain /\ m.ip \in Address /\ HeadOf[m.dom] \in Alphabet
  BY RefreshAssumption DEF Message
<1>1. CASE Finish(m)
  <2> DEFINE f == [file EXCEPT ![m.dom] = m.ip]
  <2>1. f \in [Domain -> Address \cup {Torn, None}] /\ Disturb({}, f)
    BY <1>0, <1>1 DEF Finish, Inv, TypeOK
  <2>2. \A d \in Domain : (f[d] = Torn => HeadOf[d] \in disturbed) /\ (f[d] = None => file[d] = None)
    BY <1>0, RefreshAssumption DEF Inv, TypeOK, FilesKnown
  <2> HIDE DEF f
  <2>3. {} \in SUBSET Alphabet
    OBVIOUS
  <2> QED BY <2>1, <2>2, <2>3, DisturbFacts
<1>2. CASE Empty(m) \/ CommitFails(m)
  <2>1. PICK S \in SUBSET Alphabet : Disturb(S, file)
    <3>1. {open[s] : s \in Scanner} \cap {HeadOf[m.dom]} \in SUBSET Alphabet
          /\ {} \in SUBSET Alphabet /\ {HeadOf[m.dom]} \in SUBSET Alphabet
      BY <1>0
    <3>2. \/ Disturb({open[s] : s \in Scanner} \cap {HeadOf[m.dom]}, file)
          \/ Disturb({}, file)
          \/ Disturb({HeadOf[m.dom]}, file)
      BY <1>2 DEF Empty, CommitFails
    <3> QED BY <3>1, <3>2
  <2> QED BY <2>1, DisturbSame
<1> QED BY <1>1, <1>2

LEMMA RewriteInv ==
  ASSUME Inv, NEW m \in Message, Empty(m) \/ Finish(m) \/ CommitFails(m)
  PROVE  Inv'
<1>1. commits \subseteq Message /\ rewriting \subseteq Message /\ writes \subseteq Message
  BY DEF Inv, TypeOK
<1>2. m.dom \in Domain
  BY DEF Message
<1>4. writes' \subseteq Message /\ commits' \subseteq Message /\ rewriting' \subseteq Message
  BY <1>1 DEF Empty, Finish, CommitFails
<1>5. UNCHANGED <<nodeVars, scanVars, trouble, live>>
  BY DEF Empty, Finish, CommitFails
<1>6. spoiled' \subseteq Domain
  BY <1>2 DEF Empty, Finish, CommitFails, Inv, TypeOK
<1>7. events' \in 0 .. MaxEvents
  BY EventType DEF Empty, Finish, CommitFails, Inv, TypeOK
<1>8. live \in [Domain -> Address]
  BY DEF Inv, TypeOK
<1> QED BY <1>4, <1>5, <1>6, <1>7, <1>8, RewriteFiles, FileStep

LEMMA ChangeInv == ASSUME Inv, NEW d \in Listed, Change(d) PROVE Inv'
<1>1. live' \in [Domain -> Address] /\ spoiled' \subseteq Domain
  BY RefreshAssumption DEF Change, Inv, TypeOK, Address, Domain
<1>2. events' \in 0 .. MaxEvents
  BY EventType DEF Change
<1>3. UNCHANGED <<nodeVars, scanVars, trouble, file, disturbed, writes, commits, rewriting>>
  BY DEF Change, fileVars
<1>4. /\ file \in [Domain -> Address \cup {Torn, None}]
      /\ disturbed \subseteq Alphabet /\ FilesKnown /\ commits \subseteq Message
      /\ rewriting \subseteq Message /\ writes \subseteq Message
  BY DEF Inv, TypeOK
<1>5. FilesKnown'
  BY <1>3, <1>4 DEF FilesKnown
<1> QED BY <1>1, <1>2, <1>3, <1>4, <1>5, FileStep

\* The kinds of step there are.
LEMMA Steps ==
  ASSUME Inv, Next
  PROVE  \/ \E n \in Node : main(n) \/ SaveFails(n) \/ Beat(n)
         \/ ReadStates
         \/ \E s \in Scanner, h \in Alphabet : OpenShard(s, h)
         \/ \E s \in Scanner : ReadLines(s)
         \/ \E s \in Scanner : CloseShard(s) \/ Abort(s)
         \/ \E s \in Scanner : Compare(s) \/ Unresolvable(s)
         \/ (\E s \in Scanner : Misread(s)) \/ (\E n \in Node, d \in Fresh : newRecord(n, d))
         \/ \E m \in Message : Begin(m)
         \/ \E m \in Message : Empty(m) \/ Finish(m) \/ CommitFails(m)
         \/ \E d \in Listed : Change(d)
<1>1. /\ \A s \in Scanner : todo[s] \subseteq Alphabet
      /\ writes \subseteq Message /\ commits \subseteq Message /\ rewriting \subseteq Message
  BY DEF Inv, TypeOK
<1>2. ASSUME NEW s \in Scanner, Scan(s)
      PROVE  (\E h \in Alphabet : OpenShard(s, h)) \/ ReadLines(s) \/ CloseShard(s) \/ Compare(s)
  BY <1>1, <1>2 DEF Scan
<1>3. ASSUME Commit PROVE \E m \in Message : Begin(m) \/ Empty(m) \/ Finish(m)
  BY <1>1, <1>3 DEF Commit
<1>4. CASE \E n \in Node : main(n) \/ SaveFails(n) \/ Beat(n) \/ \E d \in Fresh : newRecord(n, d)
  BY <1>4
<1>5. CASE \E s \in Scanner : Scan(s) \/ Abort(s) \/ Unresolvable(s) \/ Misread(s)
  BY <1>2, <1>5
<1>6. CASE \E m \in commits \cup rewriting : CommitFails(m)
  BY <1>1, <1>6
<1> QED BY <1>3, <1>4, <1>5, <1>6 DEF Next

LEMMA StepInv == Inv /\ [Next]_vars => Inv'
<1> SUFFICES ASSUME Inv, [Next]_vars PROVE Inv'
  OBVIOUS
<1>1. CASE UNCHANGED vars
  BY <1>1 DEF vars, nodeVars, scanVars, fileVars, Inv, TypeOK, Idle, FilesKnown, UnreadListed,
              OpenChunk
<1>2. CASE Next
  BY <1>2, Steps, mainInv, ReadStatesInv, OpenShardInv, ReadLinesInv, CloseShardInv, CompareInv,
     SendInv, BeginInv, RewriteInv, ChangeInv
<1> QED BY <1>1, <1>2

\* Every scanner sends its writes to a node of the cluster, process.py too, what a
\* scanner compares is an address, and what is in a shard file or on its way there
\* is an address, nothing or unknown.
THEOREM TypeCorrect == Spec => []TypeOK
<1>1. Inv => TypeOK
  BY DEF Inv
<1> QED BY <1>1, InitInv, StepInv, PTL DEF Spec

-------------------------------------------------------------------------------
(* Every record is checked.                                                *)

\* d is on the way through the scanner of n.
Pending(n, d) == HeadOf[d] \in todo[n] \/ d \in unread[n] \/ d \in DOMAIN chunk[n]

\* A Batch that has started keeps every record of its slice in hand until somebody
\* has asked about it, or its file is disturbed, or a Batch has met a file it
\* cannot read.  A record keeps its line.
Checked ==
  /\ \A d \in Listed : file[d] # None
  /\ "unread" \notin trouble =>
       \A n \in Node, d \in Listed :
         boot[n] \in {"batch", "serving"} /\ HeadOf[d] \in selfRecords(n)
           => d \in asked \/ HeadOf[d] \in disturbed \/ Pending(n, d)

\* No step takes anything back.
LEMMA CheckedStep ==
  ASSUME Checked,
         \A d \in Listed : file'[d] # None,
         \A n \in Node : boot'[n] \in {"batch", "serving"} => boot[n] \in {"batch", "serving"},
         asked \subseteq asked', disturbed \subseteq disturbed', trouble \subseteq trouble',
         \A n \in Node, d \in Listed :
           Pending(n, d) => Pending(n, d)' \/ d \in asked' \/ HeadOf[d] \in disturbed'
                                           \/ "unread" \in trouble'
  PROVE  Checked'
BY DEF Checked, selfRecords

\* A node starts its Batch with its whole slice, and whoever goes on serving
\* was already in that state.
LEMMA mainChecked ==
  ASSUME Inv, Checked, NEW n \in Node, main(n) \/ SaveFails(n) \/ Beat(n)
  PROVE  Checked'
<1>1. UNCHANGED <<asked, open, unread, chunk, file, disturbed>> /\ trouble \subseteq trouble'
  BY DEF main, OpenStates, WriteStates, StartBatch, StartServer, SaveFails, Beat, scanVars, fileVars
<1>2. CASE StartBatch(n)
  <2>1. boot' = [boot EXCEPT ![n] = "batch"] /\ todo' = [todo EXCEPT ![n] = selfRecords(n)]
    BY <1>2 DEF StartBatch
  <2>2. \A k \in Node : k # n => boot'[k] = boot[k] /\ todo'[k] = todo[k]
    BY <2>1, ScannerFacts DEF Inv, TypeOK
  <2>3. todo'[n] = selfRecords(n)
    BY <2>1, ScannerFacts DEF Inv, TypeOK
  <2> QED BY <1>1, <2>2, <2>3 DEF Checked, Pending, selfRecords
<1>3. CASE ~StartBatch(n)
  <2>1. todo' = todo
    BY <1>3 DEF main, OpenStates, WriteStates, StartServer, SaveFails, Beat, scanVars
  <2>2. \A k \in Node : boot'[k] \in {"batch", "serving"} => boot[k] \in {"batch", "serving"}
    BY <1>3, SaveSteps
       DEF main, OpenStates, WriteStates, Saving, StartServer, SaveFails, Beat, Inv, TypeOK
  <2> QED BY <1>1, <2>1, <2>2, CheckedStep DEF Checked, Pending
<1> QED BY <1>2, <1>3

LEMMA OpenShardChecked ==
  ASSUME Inv, Checked, NEW s \in Scanner, NEW h \in Alphabet, OpenShard(s, h)
  PROVE  Checked'
<1> DEFINE S == {HeadOf[m.dom] : m \in rewriting} \cap {h}
<1>1. S \in SUBSET Alphabet /\ Disturb(S, file)
  BY DEF OpenShard
<1> HIDE DEF S
<1>2. disturbed \subseteq disturbed' /\ \A d \in Domain : file[d] # None => file'[d] # None
  BY <1>1, DisturbSame
<1>3. UNCHANGED <<boot, asked, trouble, chunk>>
  BY DEF OpenShard, nodeVars
<1>4. ASSUME NEW n \in Node, NEW d \in Listed, Pending(n, d) PROVE Pending(n, d)'
  <2>1. d \in Domain /\ n \in Scanner /\ file[d] # None
    BY ScannerFacts DEF Domain, Checked
  <2>2. CASE n # s
    <3>1. todo'[n] = todo[n] /\ unread'[n] = unread[n]
      BY <2>1, <2>2 DEF OpenShard, Inv, TypeOK
    <3> QED BY <1>3, <1>4, <3>1 DEF Pending
  <2>3. CASE n = s /\ HeadOf[d] = h
    <3>1. d \in LinesOf(h)
      BY <2>1, <2>3 DEF LinesOf
    <3>2. unread'[n] = LinesOf(h)
      BY <2>1, <2>3, <3>1 DEF OpenShard, Inv, TypeOK
    <3> QED BY <3>1, <3>2 DEF Pending
  <2>4. CASE n = s /\ HeadOf[d] # h
    <3>1. todo'[n] = todo[n] \ {h} /\ open[n] = None
      BY <2>1, <2>4 DEF OpenShard, Inv, TypeOK
    <3>2. d \notin unread[n]
      BY <2>1, <3>1, RefreshAssumption DEF Inv, UnreadListed
    <3> QED BY <1>3, <1>4, <2>4, <3>1, <3>2 DEF Pending
  <2> QED BY <2>2, <2>3, <2>4
<1>5. \A d \in Listed : file'[d] # None
  BY <1>2 DEF Checked, Domain
<1> QED BY <1>2, <1>3, <1>4, <1>5, CheckedStep

LEMMA ReadLinesChecked == ASSUME Inv, Checked, NEW s \in Scanner, ReadLines(s) PROVE Checked'
<1>1. PICK S \in (SUBSET unread[s]) \ {{}} :
        /\ unread' = [unread EXCEPT ![s] = @ \ S]
        /\ chunk' = [chunk EXCEPT ![s] = [d \in S |-> file[d]]]
  BY DEF ReadLines
<1>2. UNCHANGED <<boot, todo, asked, trouble, file, disturbed>> /\ chunk[s] = NoLines
  BY DEF ReadLines, nodeVars, fileVars
<1>3. DOMAIN chunk'[s] = S /\ unread'[s] = unread[s] \ S
  BY <1>1 DEF Inv, TypeOK
<1>4. \A t \in Scanner : t # s => chunk'[t] = chunk[t] /\ unread'[t] = unread[t]
  BY <1>1 DEF Inv, TypeOK
<1>5. DOMAIN chunk[s] = {}
  BY <1>2, NoLinesType
<1>6. ASSUME NEW n \in Node, NEW d \in Listed, Pending(n, d) PROVE Pending(n, d)'
  <2>1. CASE n = s
    BY <1>2, <1>3, <1>5, <1>6, <2>1 DEF Pending
  <2>2. CASE n # s
    BY <1>2, <1>4, <1>6, <2>2, ScannerFacts DEF Pending
  <2> QED BY <2>1, <2>2
<1> QED BY <1>2, <1>6, CheckedStep DEF Checked

\* A Batch leaves a file before its end only if the file is disturbed or it cannot
\* go on at all.
LEMMA CloseShardChecked ==
  ASSUME Inv, Checked, NEW s \in Scanner, CloseShard(s) \/ Abort(s)
  PROVE  Checked'
<1>1. UNCHANGED <<boot, asked, file, disturbed>> /\ trouble \subseteq trouble'
  BY DEF CloseShard, Abort, nodeVars, fileVars
<1>2. \A t \in Scanner : t # s => /\ todo'[t] = todo[t] /\ unread'[t] = unread[t]
                                   /\ chunk'[t] = chunk[t]
  BY DEF CloseShard, Abort, Inv, TypeOK
<1>3. ASSUME NEW n \in Node, NEW d \in Listed, Pending(n, d)
      PROVE  Pending(n, d)' \/ d \in asked' \/ HeadOf[d] \in disturbed' \/ "unread" \in trouble'
  <2>1. n \in Scanner /\ n # Process
    BY ScannerFacts, RefreshAssumption
  <2>2. CASE n # s
    BY <1>2, <1>3, <2>1, <2>2 DEF Pending
  <2>3. CASE n = s /\ Abort(s)
    BY <2>1, <2>3 DEF Abort
  <2>4. CASE n = s /\ CloseShard(s)
    <3>1. /\ todo' = todo /\ chunk[n] = NoLines
          /\ unread[n] = {} \/ open[n] \in disturbed
      BY <2>4 DEF CloseShard
    <3>2. DOMAIN chunk[n] = {}
      BY <3>1, NoLinesType
    <3>3. d \in unread[n] => HeadOf[d] = open[n]
      BY <2>1 DEF Inv, UnreadListed
    <3> QED BY <1>1, <1>3, <3>1, <3>2, <3>3 DEF Pending
  <2> QED BY <2>2, <2>3, <2>4
<1> QED BY <1>1, <1>3, CheckedStep DEF Checked

LEMMA CompareChecked ==
  ASSUME Inv, Checked, NEW s \in Scanner, Compare(s) \/ Unresolvable(s)
  PROVE  Checked'
<1>1. PICK d \in DOMAIN chunk[s] : Dealt(s, d)
  BY DEF Compare, Unresolvable
<1>2. /\ \A t \in Scanner : t # s => chunk'[t] = chunk[t]
      /\ asked' = asked \cup {d}
      /\ DOMAIN chunk'[s] = DOMAIN chunk[s] \ {d}
  BY <1>1, DealtFacts
<1>3. UNCHANGED <<boot, todo, unread, trouble, file, disturbed>>
  BY DEF Compare, Unresolvable, nodeVars, fileVars
<1>4. ASSUME NEW n \in Node, NEW e \in Listed, Pending(n, e) PROVE Pending(n, e)' \/ e \in asked'
  BY <1>2, <1>3, <1>4, ScannerFacts DEF Pending
<1> QED BY <1>2, <1>3, <1>4, CheckedStep DEF Checked

\* The write servers take no line from a file and no letter out of disturbed.
LEMMA FileChecked ==
  ASSUME Inv, Checked, UNCHANGED <<nodeVars, scanVars, trouble>>, disturbed \subseteq disturbed',
         \A d \in Domain : file[d] # None => file'[d] # None
  PROVE  Checked'
<1>1. \A d \in Listed : file'[d] # None
  BY DEF Checked, Domain
<1>2. \A n \in Node, d \in Listed : Pending(n, d)' = Pending(n, d)
  BY DEF Pending, scanVars
<1> QED BY <1>1, <1>2, CheckedStep DEF nodeVars, scanVars

LEMMA StepChecked == Inv /\ Checked /\ [Next]_vars => Checked'
<1> SUFFICES ASSUME Inv, Checked, [Next]_vars PROVE Checked'
  OBVIOUS
<1>1. CASE UNCHANGED vars
  BY <1>1, FileChecked DEF vars, fileVars
<1>2. ASSUME ReadStates PROVE Checked'
  <2>1. UNCHANGED <<boot, unread, chunk, asked, file, disturbed, trouble>>
    BY <1>2 DEF ReadStates, nodeVars, fileVars
  <2>2. \A n \in Node : todo'[n] = todo[n]
    BY <1>2, RefreshAssumption, ScannerFacts DEF ReadStates, Inv, TypeOK
  <2>3. \A n \in Node, d \in Listed : Pending(n, d)' = Pending(n, d)
    BY <2>1, <2>2 DEF Pending
  <2> QED BY <2>1, <2>3, CheckedStep DEF Checked
<1>3. ASSUME \/ \E s \in Scanner : Misread(s)
             \/ \E n \in Node, d \in Fresh : newRecord(n, d)
             \/ \E d \in Listed : Change(d)
      PROVE  Checked'
  BY <1>3, FileChecked DEF Misread, newRecord, Change, fileVars
<1>4. ASSUME NEW m \in Message, Begin(m) PROVE Checked'
  BY <1>4, BeginFiles, FileChecked DEF Begin
<1>5. ASSUME NEW m \in Message, Empty(m) \/ Finish(m) \/ CommitFails(m) PROVE Checked'
  <2>1. UNCHANGED <<nodeVars, scanVars, trouble>>
    BY <1>5 DEF Empty, Finish, CommitFails
  <2> QED BY <1>5, <2>1, RewriteFiles, FileChecked
<1>6. CASE Next
  BY <1>2, <1>3, <1>4, <1>5, <1>6, Steps, mainChecked, OpenShardChecked, ReadLinesChecked,
     CloseShardChecked, CompareChecked
<1> QED BY <1>1, <1>6

\* Different ranks between 1 and the number of nodes leave no rank out.
LEMMA RanksTaken == ASSUME NEW r \in 1 .. Cardinality(Node) PROVE \E n \in Node : Rank[n] = r
<1> DEFINE N == Cardinality(Node)
<1>1. N \in Nat
  BY FS_CardinalityType, RefreshAssumption
<1>2. IsFiniteSet(1 .. N) /\ Cardinality(1 .. N) = N
  BY <1>1, FS_Interval
<1>3. Rank \in Injection(Node, 1 .. N)
  BY RefreshAssumption, Fun_IsInj
<1>4. Rank \in Surjection(Node, 1 .. N)
  BY <1>2, <1>3, FS_Injection
<1> QED BY <1>4 DEF Surjection

\* The letter of every record is in the slice of some node.
LEMMA SomebodyOwns == ASSUME NEW d \in Listed PROVE \E n \in Node : HeadOf[d] \in selfRecords(n)
<1> DEFINE N == Cardinality(Node)
<1>0. HeadOf[d] \in Alphabet
  BY RefreshAssumption DEF Domain
<1>1. N \in Nat \ {0}
  BY FS_CardinalityType, FS_EmptySet, RefreshAssumption
<1>2. CASE N = 1
  BY <1>0, <1>2, RefreshAssumption DEF selfRecords, RecordSet
<1>3. CASE N # 1
  <2>1. PICK r \in 1 .. N : HeadOf[d] \in Slice(r, N)
    BY <1>0, <1>1, SlicesCover DEF Covers
  <2>2. PICK n \in Node : Rank[n] = r
    BY <2>1, RanksTaken
  <2> QED BY <1>1, <1>3, <2>1, <2>2 DEF selfRecords, RecordSet
<1> QED BY <1>2, <1>3

\* The Batch threads between them leave no record out, for any number of nodes,
\* letters and records and any cut of the files into buffers, whatever the write
\* servers and process.py do: what is passed over was in a file that a commit
\* rewrote under a scanner or that two commits rewrote at once, or a Batch met a
\* file it could not read.
THEOREM RecordsAreChecked == Spec => []EveryRecordChecked
<1>1. Init => Checked
  BY RefreshAssumption DEF Init, Checked, Address, Domain
<1>2. ASSUME Inv, Checked, BatchesThrough, "unread" \notin trouble, NEW d \in Listed
      PROVE  d \in asked \/ HeadOf[d] \in disturbed
  <2>1. PICK n \in Node : HeadOf[d] \in selfRecords(n)
    BY SomebodyOwns
  <2>2. n \in Scanner /\ d \in Domain
    BY ScannerFacts DEF Domain
  <2>3. boot[n] = "serving" /\ todo[n] = {} /\ open[n] = None
    BY <1>2 DEF BatchesThrough
  <2>4. chunk[n] = NoLines
    BY <1>2, <2>2, <2>3 DEF Inv, OpenChunk
  <2>5. d \notin unread[n]
    BY <1>2, <2>2, <2>3, RefreshAssumption DEF Inv, UnreadListed
  <2>6. ~Pending(n, d)
    BY <2>3, <2>4, <2>5, NoLinesType DEF Pending
  <2> QED BY <1>2, <2>1, <2>3, <2>6 DEF Checked
<1>3. Inv /\ Checked => EveryRecordChecked
  BY <1>2 DEF EveryRecordChecked
<1> QED BY <1>1, <1>3, InitInv, StepInv, StepChecked, PTL DEF Spec

-------------------------------------------------------------------------------
(* states.txt.                                                             *)

\* While no two nodes were inside updateState at once and each could save, the one
\* that is there has an empty file before it.
OneSaves ==
  trouble \cap {"overlap", "unsaved"} = {} =>
    /\ \A m, n \in Node : Saving(m) /\ Saving(n) => m = n
    /\ \A n \in Node : Saving(n) => statesTxt = "empty"
    /\ (\E n \in Node : boot[n] # "records") /\ (\A n \in Node : ~Saving(n)) => statesTxt \in Node

LEMMA OpenOneSaves == ASSUME Inv, OneSaves, NEW n \in Node, OpenStates(n) PROVE OneSaves'
<1> SUFFICES ASSUME trouble' \cap {"overlap", "unsaved"} = {}
             PROVE  /\ \A k, m \in Node : Saving(k)' /\ Saving(m)' => k = m
                    /\ \A m \in Node : Saving(m)' => statesTxt' = "empty"
                    /\ \E m \in Node : Saving(m)'
  BY DEF OneSaves
<1>1. \A m \in Node : ~Saving(m)
  BY DEF OpenStates, Inv, TypeOK
<1>2. Saving(n)' /\ statesTxt' = "empty"
  BY SaveSteps DEF OpenStates, Emptied, Saving, Inv, TypeOK
<1>3. \A m \in Node : Saving(m)' => m = n
  BY <1>1 DEF OpenStates, Saving, Inv, TypeOK
<1> QED BY <1>2, <1>3

LEMMA WriteOneSaves == ASSUME Inv, OneSaves, NEW n \in Node, WriteStates(n) PROVE OneSaves'
<1> SUFFICES ASSUME trouble' \cap {"overlap", "unsaved"} = {}
             PROVE  (\A m \in Node : ~Saving(m)') /\ statesTxt' \in Node
  BY DEF OneSaves
<1>1. Saving(n) /\ trouble \cap {"overlap", "unsaved"} = {}
  BY DEF WriteStates
<1>2. statesTxt = "empty" /\ \A m \in Node : Saving(m) => m = n
  BY <1>1 DEF OneSaves
<1>3. ~Saving(n)'
  BY SaveSteps DEF WriteStates, Saving, Inv, TypeOK
<1>4. \A m \in Node : m # n => (Saving(m)' <=> Saving(m))
  BY DEF WriteStates, Saving, Inv, TypeOK
<1> QED BY <1>2, <1>3, <1>4 DEF WriteStates

\* No other step writes states.txt or takes a node into or out of updateState.
LEMMA OtherOneSaves ==
  ASSUME Inv, OneSaves, UNCHANGED statesTxt, trouble \subseteq trouble',
         boot' = boot \/ \E n \in Node : StartBatch(n) \/ StartServer(n)
  PROVE  OneSaves'
<1>1. \A m \in Node : Saving(m)' <=> Saving(m)
  BY SaveSteps DEF StartBatch, StartServer, Saving, Inv, TypeOK
<1>2. (\E m \in Node : boot'[m] # "records") => \E m \in Node : boot[m] # "records"
  BY DEF StartBatch, StartServer, Inv, TypeOK
<1> QED BY <1>1, <1>2 DEF OneSaves

LEMMA StepOneSaves == Inv /\ OneSaves /\ [Next]_vars => OneSaves'
<1> SUFFICES ASSUME Inv, OneSaves, [Next]_vars PROVE OneSaves'
  OBVIOUS
<1>1. ASSUME NEW n \in Node, StartBatch(n) \/ StartServer(n) \/ Beat(n) PROVE OneSaves'
  BY <1>1, OtherOneSaves DEF StartBatch, StartServer, Beat
<1>2. ASSUME NEW n \in Node, SaveFails(n) PROVE OneSaves'
  <2>1. "unsaved" \in trouble'
    BY <1>2 DEF SaveFails
  <2> QED BY <2>1 DEF OneSaves
<1>3. ASSUME UNCHANGED nodeVars, trouble \subseteq trouble' PROVE OneSaves'
  BY <1>3, OtherOneSaves DEF nodeVars
<1>4. ASSUME \/ ReadStates
             \/ \E s \in Scanner, h \in Alphabet : OpenShard(s, h)
             \/ \E s \in Scanner : ReadLines(s)
             \/ \E s \in Scanner : CloseShard(s) \/ Abort(s)
             \/ \E s \in Scanner : Compare(s) \/ Unresolvable(s)
             \/ (\E s \in Scanner : Misread(s)) \/ (\E n \in Node, d \in Fresh : newRecord(n, d))
             \/ \E m \in Message : Begin(m)
             \/ \E m \in Message : Empty(m) \/ Finish(m) \/ CommitFails(m)
             \/ \E d \in Listed : Change(d)
             \/ UNCHANGED vars
      PROVE  UNCHANGED nodeVars /\ trouble \subseteq trouble'
  <2>1. UNCHANGED nodeVars
    BY <1>4 DEF ReadStates, OpenShard, ReadLines, CloseShard, Abort, Compare, Unresolvable, Misread,
                newRecord, Begin, Empty, Finish, CommitFails, Change, vars
  <2>2. trouble \subseteq trouble'
    BY <1>4 DEF ReadStates, OpenShard, ReadLines, CloseShard, Abort, Compare, Unresolvable, Misread,
                newRecord, Begin, Empty, Finish, CommitFails, Change, vars
  <2> QED BY <2>1, <2>2
<1>5. CASE \E n \in Node : main(n) \/ SaveFails(n) \/ Beat(n)
  BY <1>1, <1>2, <1>5, OpenOneSaves, WriteOneSaves DEF main
<1> QED BY <1>3, <1>4, <1>5, Steps

\* However many nodes boot in whatever order, process.py finds a readable
\* states.txt once none of them is inside updateState, unless two were there
\* at once or the disk refused one of them.
THEOREM StatesAreReadable == Spec => []StatesReadable
<1>1. Init => OneSaves
  <2> SUFFICES ASSUME Init PROVE OneSaves
    OBVIOUS
  <2>1. \A n \in Node : ~Saving(n)
    BY SaveSteps DEF Init, Saving
  <2>2. (\E n \in Node : boot[n] # "records") => statesTxt \in Node
    BY RefreshAssumption DEF Init
  <2> QED BY <2>1, <2>2 DEF OneSaves
<1>2. OneSaves => StatesReadable
  BY DEF OneSaves, StatesReadable
<1> QED BY <1>1, <1>2, InitInv, StepInv, StepOneSaves, PTL DEF Spec

================================================================================
