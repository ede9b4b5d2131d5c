--------------------------- MODULE RecordParseProofs ---------------------------
(***************************************************************************)
(* RecordParse for a list of any length, any number of domains between two *)
(* commits and any number of restarts: a new run duplicates no line, and a *)
(* run that is not stopped loses none.                                     *)
(***************************************************************************)
EXTENDS RecordParse, SequenceTheorems, WellFoundedInduction, TLAPS

\* The local variables of a call.
Frame == [num : Nat \ {0}, done : BOOLEAN, records : SUBSET Domain, errStart : Nat,
          contErr : Nat]

\* What a call keeps has been asked for since the last commit that was due: no
\* full hundred lies between it and the domain the call is at.
Pending(f) ==
  /\ f.done => f.num \in Domain
  /\ \A k \in f.records :
       /\ k < f.num \/ (k = f.num /\ f.done)
       /\ \A j \in k .. f.num - 1 : j % Every # 0

TypeInv ==
  /\ stack \in Seq(Frame)
  /\ copies \in [Domain -> 0 .. 2]
  /\ visible \in SUBSET Domain
  /\ resolved \in SUBSET Domain
  /\ recursed \in BOOLEAN
  /\ crashes \in Nat

Inv == TypeInv /\ \A i \in 1 .. Len(stack) : Pending(stack[i])

-------------------------------------------------------------------------------
(* Sequences, maxima and multiples.                                        *)

LEMMA ParseStartFrame ==
  ASSUME NEW start \in Nat
  PROVE  parseStart(start) \in Frame /\ Pending(parseStart(start))
BY DEF parseStart, Frame, Pending

\* Changing the innermost call leaves its callers alone.
LEMMA TopChanges ==
  ASSUME stack \in Seq(Frame), stack # <<>>, NEW f \in Frame
  PROVE  /\ SetTop(f) \in Seq(Frame) /\ Len(SetTop(f)) = Len(stack) /\ SetTop(f)[1] = f
         /\ \A i \in 2 .. Len(stack) : SetTop(f)[i] = stack[i]
         /\ Len(stack) \in Nat \ {0} /\ Top \in Frame
<1>1. /\ Tail(stack) \in Seq(Frame) /\ Len(Tail(stack)) = Len(stack) - 1
      /\ \A i \in 1 .. Len(stack) - 1 : Tail(stack)[i] = stack[i + 1]
      /\ Len(stack) \in Nat \ {0}
  BY HeadTailProperties, EmptySeq
<1>2. /\ <<f>> \in Seq(Frame) /\ Len(<<f>>) = 1 /\ <<f>>[1] = f
  OBVIOUS
<1>3. /\ SetTop(f) \in Seq(Frame) /\ Len(SetTop(f)) = 1 + (Len(stack) - 1)
      /\ \A i \in 1 .. 1 + (Len(stack) - 1) :
           SetTop(f)[i] = IF i <= 1 THEN <<f>>[i] ELSE Tail(stack)[i - 1]
  BY <1>1, <1>2, ConcatProperties DEF SetTop
<1>4. Top \in Frame
  BY <1>1, ElementOfSeq DEF Top
<1> QED BY <1>1, <1>2, <1>3, <1>4

\* A nested call goes in front of the calls made so far.
LEMMA CallPushes ==
  ASSUME NEW s \in Seq(Frame), NEW g \in Frame
  PROVE  /\ <<g>> \o s \in Seq(Frame) /\ Len(<<g>> \o s) = Len(s) + 1
         /\ (<<g>> \o s)[1] = g
         /\ \A i \in 1 .. Len(s) : (<<g>> \o s)[i + 1] = s[i]
<1>1. /\ <<g>> \in Seq(Frame) /\ Len(<<g>>) = 1 /\ <<g>>[1] = g /\ Len(s) \in Nat
  BY LenProperties
<1>2. /\ <<g>> \o s \in Seq(Frame) /\ Len(<<g>> \o s) = 1 + Len(s)
      /\ \A i \in 1 .. 1 + Len(s) : (<<g>> \o s)[i] = IF i <= 1 THEN <<g>>[i] ELSE s[i - 1]
  BY <1>1, ConcatProperties
<1> QED BY <1>1, <1>2

\* When the innermost call is over its caller has another contErr and goes on;
\* the callers beyond it are left alone.
LEMMA CallerResumes ==
  ASSUME stack \in Seq(Frame), stack # <<>>, NEW err, Len(stack) # 1 => err \in Nat
  PROVE  /\ Resume(err) \in Seq(Frame) /\ Len(Resume(err)) = Len(stack) - 1
         /\ Len(stack) \in Nat \ {0}
         /\ \A i \in 1 .. Len(Resume(err)) :
              /\ Resume(err)[i].num = stack[i + 1].num
              /\ Resume(err)[i].done = stack[i + 1].done
              /\ Resume(err)[i].records = stack[i + 1].records
<1> DEFINE f == [stack[2] EXCEPT !.contErr = err]
           t == Tail(stack)
<1>1. /\ t \in Seq(Frame) /\ Len(t) = Len(stack) - 1 /\ Len(stack) \in Nat \ {0}
      /\ \A i \in 1 .. Len(t) : t[i] = stack[i + 1]
  BY HeadTailProperties, EmptySeq
<1>2. CASE Len(stack) = 1
  BY <1>1, <1>2 DEF Resume
<1>3. CASE Len(stack) # 1
  <2>1. t # <<>> /\ stack[2] \in Frame
    <3>1. 2 \in 1 .. Len(stack) /\ Len(t) # 0
      BY <1>1, <1>3
    <3>2. stack[2] \in Frame
      BY <3>1, ElementOfSeq
    <3> QED BY <1>1, <3>1, <3>2, EmptySeq
  <2>2. /\ f \in Frame /\ f.num = stack[2].num /\ f.done = stack[2].done
        /\ f.records = stack[2].records
    BY <1>3, <2>1 DEF Frame
  <2>3. /\ Tail(t) \in Seq(Frame) /\ Len(Tail(t)) = Len(stack) - 2
        /\ \A i \in 1 .. Len(Tail(t)) : Tail(t)[i] = t[i + 1]
    BY <1>1, <2>1, HeadTailProperties
  <2>4. Resume(err) = <<f>> \o Tail(t)
    BY <1>3 DEF Resume
  <2> HIDE DEF f, t
  <2>5. /\ Resume(err) \in Seq(Frame) /\ Len(Resume(err)) = Len(stack) - 1
        /\ Resume(err)[1] = f
        /\ \A i \in 1 .. Len(Tail(t)) : Resume(err)[i + 1] = Tail(t)[i]
    BY <1>1, <2>2, <2>3, <2>4, CallPushes
  <2>6. ASSUME NEW i \in 1 .. Len(Resume(err)), i # 1
        PROVE  Resume(err)[i] = stack[i + 1]
    <3>1. i - 1 \in 1 .. Len(Tail(t)) /\ (i - 1) + 1 = i /\ i \in 1 .. Len(t)
      BY <1>1, <2>3, <2>5, <2>6
    <3> QED BY <1>1, <2>3, <2>5, <3>1
  <2> QED BY <1>1, <2>2, <2>5, <2>6
<1> QED BY <1>2, <1>3

\* A set of numbers up to n has a greatest element, which Max chooses.
LessThan == {ss \in Nat \X Nat : ss[1] < ss[2]}

LEMMA LessThanWellFounded == IsWellFoundedOn(LessThan, Nat)
BY NatLessThanWellFounded DEF OpToRel, LessThan

LEMMA MaxBounds ==
  ASSUME NEW n \in Nat, NEW S \in SUBSET (0 .. n), S # {}
  PROVE  Max(S) \in S /\ \A y \in S : y <= Max(S)
<1> DEFINE T == {n - x : x \in S}
<1>1. \A x \in S : n - x \in Nat /\ x \in Nat
  OBVIOUS
<1>2. T \subseteq Nat
  BY <1>1
<1>3. T # {}
  OBVIOUS
<1> HIDE DEF T
<1>4. PICK t \in T : \A y \in T : ~(<<y, t>> \in LessThan)
  BY <1>2, <1>3, WFMin, LessThanWellFounded
<1>5. ASSUME NEW y \in T PROVE t <= y
  <2>1. y \in Nat /\ t \in Nat
    BY <1>2
  <2>2. y < t => <<y, t>> \in LessThan
    BY <2>1 DEF LessThan
  <2> QED BY <1>4, <2>1, <2>2
<1> USE DEF T
<1>6. PICK x \in S : t = n - x
  BY <1>4
<1>7. \A y \in S : x >= y
  BY <1>1, <1>5, <1>6
<1> QED BY <1>6, <1>7 DEF Max

\* The last full hundred of the list is a multiple of Every.
LEMMA LastFull ==
  /\ Size - (Size % Every) \in 0 .. Size
  /\ (Size - (Size % Every)) % Every = 0
<1> DEFINE b == Size - (Size % Every)
           q == (Size \div Every) - (b \div Every)
<1>1. Size \in Nat /\ Every \in Nat /\ Every >= 1
  BY ParseAssumption
<1>2. /\ Size = Every * (Size \div Every) + (Size % Every) /\ Size \div Every \in Nat
      /\ Size % Every \in 0 .. Every - 1
  BY <1>1
<1>3. b \in Int /\ b = Every * (Size \div Every)
  BY <1>1, <1>2
<1>4. b >= 0
  BY <1>1, <1>2, <1>3
<1>5. /\ b = Every * (b \div Every) + (b % Every) /\ b \div Every \in Int
      /\ b % Every \in 0 .. Every - 1
  BY <1>1, <1>3
<1>6. q \in Int /\ Every * q = b % Every
  BY <1>1, <1>2, <1>3, <1>5
<1>7. ~(q >= 1)
  BY <1>1, <1>5, <1>6
<1>8. ~(q <= -1)
  BY <1>1, <1>5, <1>6
<1>9. q = 0
  BY <1>6, <1>7, <1>8
<1>10. b % Every = 0
  BY <1>1, <1>6, <1>9
<1> QED BY <1>1, <1>2, <1>3, <1>4, <1>10

-------------------------------------------------------------------------------
(* The calls.                                                              *)

\* The innermost call becomes f, on its own.
LEMMA TopInv ==
  ASSUME Inv, stack # <<>>, NEW f \in Frame, Pending(f)
  PROVE  /\ SetTop(f) \in Seq(Frame)
         /\ \A i \in 1 .. Len(SetTop(f)) : Pending(SetTop(f)[i])
<1>1. /\ SetTop(f) \in Seq(Frame) /\ Len(SetTop(f)) = Len(stack) /\ SetTop(f)[1] = f
      /\ \A i \in 2 .. Len(stack) : SetTop(f)[i] = stack[i]
      /\ Len(stack) \in Nat \ {0}
  BY TopChanges DEF Inv, TypeInv
<1>2. ASSUME NEW i \in 1 .. Len(stack) PROVE Pending(SetTop(f)[i])
  <2>1. CASE i = 1
    BY <1>1, <2>1
  <2>2. CASE i # 1
    <3>1. SetTop(f)[i] = stack[i]
      BY <1>1, <2>2
    <3> QED BY <3>1 DEF Inv
  <2> QED BY <2>1, <2>2
<1> QED BY <1>1, <1>2

\* The call that is at work.
LEMMA TopFrame ==
  ASSUME Inv, stack # <<>>
  PROVE  /\ Top \in Frame /\ Pending(Top)
         /\ Top.num \in Nat \ {0} /\ Top.records \in SUBSET Domain /\ Top.errStart \in Nat
         /\ Top.contErr \in Nat /\ Top.done \in BOOLEAN
         /\ Domain \subseteq Nat \ {0}
<1>1. Len(stack) \in Nat \ {0}
  BY EmptySeq DEF Inv, TypeInv
<1>2. Top \in Frame /\ Pending(Top)
  BY <1>1, ElementOfSeq DEF Top, Inv, TypeInv
<1> QED BY <1>2, ParseAssumption DEF Frame, Domain

LEMMA ResolveInv == ASSUME Inv, Resolve PROVE Inv'
<1> DEFINE k == Top.num
           f == [Top EXCEPT !.done = TRUE, !.records = @ \cup {k}]
           h == [f EXCEPT !.contErr = 0]
           g == parseStart(Top.errStart)
<1>1. stack # <<>> /\ k \in Domain /\ Top.done = FALSE
  BY TopFrame, ParseAssumption DEF Resolve, Asking, Domain
<1>2. /\ f \in Frame /\ f.num = k /\ f.done = TRUE /\ f.records = Top.records \cup {k}
      /\ h \in Frame /\ h.num = k /\ h.done = TRUE /\ h.records = Top.records \cup {k}
  BY <1>1, TopFrame DEF Frame
<1>3. Pending(f) /\ Pending(h)
  <2>1. k .. k - 1 = {}
    BY <1>1, TopFrame
  <2> QED BY <1>1, <1>2, <2>1, TopFrame DEF Pending
<1>4. g \in Frame /\ Pending(g)
  BY <1>1, TopFrame, ParseStartFrame
<1>5. /\ SetTop(f) \in Seq(Frame)
      /\ \A i \in 1 .. Len(SetTop(f)) : Pending(SetTop(f)[i])
  BY <1>1, <1>2, <1>3, TopInv
<1>6. stack' = <<g>> \o SetTop(f) \/ stack' = SetTop(h)
  BY DEF Resolve
<1> HIDE DEF f, g, h
<1>7. ASSUME stack' = <<g>> \o SetTop(f)
      PROVE  stack' \in Seq(Frame) /\ \A i \in 1 .. Len(stack') : Pending(stack'[i])
  <2>1. /\ stack' \in Seq(Frame) /\ Len(stack') = Len(SetTop(f)) + 1 /\ stack'[1] = g
        /\ \A i \in 1 .. Len(SetTop(f)) : stack'[i + 1] = SetTop(f)[i]
    BY <1>4, <1>5, <1>7, CallPushes
  <2>2. Len(SetTop(f)) \in Nat
    BY <1>5, LenProperties
  <2>3. ASSUME NEW i \in 1 .. Len(stack') PROVE Pending(stack'[i])
    <3>1. CASE i = 1
      BY <1>4, <2>1, <3>1
    <3>2. CASE i # 1
      <4>1. i - 1 \in 1 .. Len(SetTop(f)) /\ (i - 1) + 1 = i
        BY <2>1, <2>2, <3>2
      <4>2. stack'[i] = SetTop(f)[i - 1]
        BY <2>1, <4>1
      <4> QED BY <1>5, <4>1, <4>2
    <3> QED BY <3>1, <3>2
  <2> QED BY <2>1, <2>3
<1>8. ASSUME stack' = SetTop(h)
      PROVE  stack' \in Seq(Frame) /\ \A i \in 1 .. Len(stack') : Pending(stack'[i])
  BY <1>1, <1>2, <1>3, <1>8, TopInv
<1>9. stack' \in Seq(Frame) /\ \A i \in 1 .. Len(stack') : Pending(stack'[i])
  BY <1>6, <1>7, <1>8
<1> QED BY <1>1, <1>9 DEF Resolve, Inv, TypeInv, fileVars

\* The steps that change the innermost call and keep at most what it has.
LEMMA FailInv == ASSUME Inv, Fail PROVE Inv'
<1> DEFINE f == [Top EXCEPT !.done = TRUE, !.contErr = @ + 1,
                            !.errStart = IF Top.contErr = 0 THEN Top.num ELSE @]
<1>1. stack # <<>> /\ Top.num \in Domain /\ stack' = SetTop(f)
  BY TopFrame, ParseAssumption DEF Fail, Asking, Domain
<1>2. /\ f \in Frame
      /\ f.num = Top.num /\ f.done = TRUE /\ f.records = Top.records
  <2>1. Top \in Frame /\ Top.contErr + 1 \in Nat /\ Top.num \in Nat /\ Top.errStart \in Nat
    BY <1>1, TopFrame
  <2> QED BY <2>1 DEF Frame
<1>3. Pending(f)
  BY <1>1, <1>2, TopFrame DEF Pending
<1> QED BY <1>1, <1>2, <1>3, TopInv DEF Fail, Inv, TypeInv, fileVars

LEMMA NextLineInv == ASSUME Inv, NextLine PROVE Inv'
<1> DEFINE f == [Top EXCEPT !.num = @ + 1, !.done = FALSE]
<1>1. /\ stack # <<>> /\ Top.done /\ stack' = SetTop(f)
      /\ Top.records = {} \/ Top.num % Every # 0
  BY DEF NextLine, DueCommit, Hundredth
<1>2. /\ f \in Frame
      /\ f.num = Top.num + 1 /\ f.done = FALSE /\ f.records = Top.records
  <2>1. Top \in Frame /\ Top.num + 1 \in Nat \ {0}
    BY <1>1, TopFrame
  <2> QED BY <2>1 DEF Frame
<1>3. ASSUME NEW k \in f.records
      PROVE  k < f.num /\ \A j \in k .. f.num - 1 : j % Every # 0
  <2>1. /\ k <= Top.num /\ k \in Nat /\ Top.num \in Nat /\ Top.num % Every # 0
        /\ \A j \in k .. Top.num - 1 : j % Every # 0
    BY <1>1, <1>2, <1>3, TopFrame DEF Pending
  <2>2. \A j \in k .. f.num - 1 : j = Top.num \/ j \in k .. Top.num - 1
    BY <1>2, <2>1
  <2> QED BY <1>2, <2>1, <2>2
<1>4. Pending(f)
  BY <1>2, <1>3 DEF Pending
<1> QED BY <1>1, <1>2, <1>4, TopInv DEF NextLine, Inv, TypeInv, fileVars

\* What is appended is of the list.
LEMMA AppendInv ==
  ASSUME Inv, NEW S \in SUBSET Domain, AppendLines(S)
  PROVE  copies' \in [Domain -> 0 .. 2] /\ visible' \in SUBSET Domain
<1>1. \A k \in Domain : copies[k] \in 0 .. 2 /\ (copies[k] < 2 => copies[k] + 1 \in 0 .. 2)
  BY DEF Inv, TypeInv
<1> QED BY <1>1 DEF AppendLines, Inv, TypeInv

LEMMA BatchSubset ==
  ASSUME Inv, stack # <<>>
  PROVE  Batch \subseteq Top.records /\ Batch \in SUBSET Domain
BY TopFrame DEF Batch

LEMMA commitInv == ASSUME Inv, commit PROVE Inv'
<1> DEFINE f == [Top EXCEPT !.records = @ \ Batch]
<1>1. stack # <<>> /\ stack' = SetTop(f) /\ AppendLines(Batch)
  BY DEF commit, DueCommit, Hundredth
<1>2. copies' \in [Domain -> 0 .. 2] /\ visible' \in SUBSET Domain
  BY <1>1, AppendInv, BatchSubset
<1>3. /\ f \in Frame
      /\ f.num = Top.num /\ f.done = Top.done /\ f.records \subseteq Top.records
  BY <1>1, TopFrame DEF Frame
<1>4. Pending(f)
  BY <1>1, <1>3, TopFrame DEF Pending
<1> HIDE DEF f
<1> QED BY <1>1, <1>2, <1>3, <1>4, TopInv DEF commit, Inv, TypeInv

\* The calls that are left when the innermost one is over.
LEMMA ResumeInv ==
  ASSUME Inv, stack # <<>>, NEW err, Len(stack) # 1 => err \in Nat, stack' = Resume(err)
  PROVE  stack' \in Seq(Frame) /\ \A i \in 1 .. Len(stack') : Pending(stack'[i])
<1>1. /\ stack' \in Seq(Frame) /\ Len(stack') = Len(stack) - 1 /\ Len(stack) \in Nat
      /\ \A i \in 1 .. Len(stack') :
           /\ stack'[i].num = stack[i + 1].num /\ stack'[i].done = stack[i + 1].done
           /\ stack'[i].records = stack[i + 1].records
  BY CallerResumes DEF Inv, TypeInv
<1>2. \A i \in 1 .. Len(stack') : Pending(stack[i + 1])
  <2>1. \A i \in 1 .. Len(stack') : i + 1 \in 1 .. Len(stack)
    BY <1>1
  <2> QED BY <2>1 DEF Inv
<1>3. ASSUME NEW i \in 1 .. Len(stack') PROVE Pending(stack'[i])
  <2>1. /\ stack'[i].num = stack[i + 1].num /\ stack'[i].done = stack[i + 1].done
        /\ stack'[i].records = stack[i + 1].records /\ Pending(stack[i + 1])
    BY <1>1, <1>2
  <2> QED BY <2>1, Zenon DEF Pending
<1> QED BY <1>1, <1>3

LEMMA ReturnInv == ASSUME Inv, Return PROVE Inv'
<1>1. stack # <<>> /\ stack' = Resume(0)
  BY DEF Return
<1>2. stack' \in Seq(Frame) /\ \A i \in 1 .. Len(stack') : Pending(stack'[i])
  BY <1>1, ResumeInv
<1> QED BY <1>2 DEF Return, Inv, TypeInv, fileVars

\* The caller of the innermost call.
LEMMA CallerCounts ==
  ASSUME Inv, stack # <<>>, Len(stack) # 1
  PROVE  stack[2].contErr + 1 \in Nat
<1>1. stack \in Seq(Frame)
  BY DEF Inv, TypeInv
<1>2. Len(stack) \in Nat \ {0}
  BY <1>1, EmptySeq
<1>3. 2 \in 1 .. Len(stack)
  <2>1. \A m \in Nat \ {0} : m # 1 => 2 \in 1 .. m
    OBVIOUS
  <2> QED BY <1>2, <2>1
<1>4. stack[2] \in Frame
  BY <1>1, <1>3, ElementOfSeq
<1> QED BY <1>4 DEF Frame

LEMMA CommitFailsInv == ASSUME Inv, CommitFails PROVE Inv'
<1>1. stack # <<>> /\ stack' = Resume(stack[2].contErr + 1)
  BY DEF CommitFails, Hundredth
<1>2. PICK part \in SUBSET Batch : AppendLines(part)
  BY DEF CommitFails
<1>3. part \in SUBSET Domain
  BY <1>1, BatchSubset
<1>4. copies' \in [Domain -> 0 .. 2] /\ visible' \in SUBSET Domain
  BY <1>2, <1>3, AppendInv
<1>5. stack' \in Seq(Frame) /\ \A i \in 1 .. Len(stack') : Pending(stack'[i])
  BY <1>1, CallerCounts, ResumeInv
<1> QED BY <1>4, <1>5 DEF CommitFails, Inv, TypeInv

LEMMA SpoilInv == ASSUME Inv, NEW h \in Scanned, Spoil(h) PROVE Inv'
BY DEF Spoil, Inv, TypeInv

\* A new run begins after every domain that a scan of the files gets to.
LEMMA ListedBefore ==
  ASSUME Inv
  PROVE  HighestListed \in Nat /\ \A k \in visible : k <= HighestListed
<1> DEFINE S == {0} \cup {k \in visible : HeadOf[k] \in Scanned}
<1>1. S \in SUBSET (0 .. Size) /\ S # {} /\ Size \in Nat
  <2>1. visible \subseteq 1 .. Size /\ Size \in Nat
    BY ParseAssumption DEF Domain, Inv, TypeInv
  <2>2. \A x \in S : x \in 0 .. Size
    BY <2>1
  <2> QED BY <2>1, <2>2
<1>2. \A x \in S : x \in Nat
  BY <1>1
<1>3. \A k \in visible : k \in S
  BY ParseAssumption DEF Inv, TypeInv
<1>4. HighestListed = Max(S)
  BY DEF HighestListed
<1> HIDE DEF S
<1>5. Max(S) \in S /\ \A y \in S : y <= Max(S)
  BY <1>1, MaxBounds
<1>6. Max(S) \in Nat
  BY <1>2, <1>5
<1> QED BY <1>3, <1>4, <1>5, <1>6

LEMMA RestartInv == ASSUME Inv, Restart PROVE Inv'
<1> DEFINE g == parseStart(HighestListed + 1)
<1>1. g \in Frame /\ Pending(g)
  BY ListedBefore, ParseStartFrame
<1>2. stack' = <<g>>
  BY DEF Restart
<1> HIDE DEF g
<1>3. stack' \in Seq(Frame) /\ \A i \in 1 .. Len(stack') : Pending(stack'[i])
  BY <1>1, <1>2
<1> QED BY <1>3 DEF Restart, Inv, TypeInv, fileVars

LEMMA InitInv == Init => Inv
<1> SUFFICES ASSUME Init PROVE Inv
  OBVIOUS
<1>1. parseStart(1) \in Frame /\ Pending(parseStart(1)) /\ stack = <<parseStart(1)>>
  BY ParseStartFrame DEF Init
<1>2. stack \in Seq(Frame) /\ \A i \in 1 .. Len(stack) : Pending(stack[i])
  BY <1>1
<1>3. /\ copies \in [Domain -> 0 .. 2] /\ visible \in SUBSET Domain
      /\ resolved \in SUBSET Domain /\ crashes \in Nat
  BY DEF Init
<1> QED BY <1>2, <1>3 DEF Init, Inv, TypeInv

LEMMA StepInv == Inv /\ [Next]_vars => Inv'
<1>1. ASSUME Inv, UNCHANGED vars PROVE Inv'
  BY <1>1 DEF vars, fileVars, Inv, TypeInv
<1> QED BY <1>1, ResolveInv, FailInv, commitInv, NextLineInv, ReturnInv, CommitFailsInv,
           RestartInv, SpoilInv DEF Next, Step

-------------------------------------------------------------------------------
(* No line twice.                                                          *)

\* Without an outage there is one call.  In the files that are not spoilt every
\* line is seen by a scan, lies behind the call, and is not kept by it.
Single ==
  ~recursed =>
    /\ \A k \in Domain : HeadOf[k] \notin spoilt => copies[k] <= 1 /\ (copies[k] > 0 => k \in visible)
    /\ stack # <<>> =>
         /\ Len(stack) = 1
         /\ \A k \in Top.records : HeadOf[k] \notin spoilt => copies[k] = 0
         /\ \A k \in Domain : HeadOf[k] \notin spoilt /\ copies[k] > 0
                              => k < Top.num \/ (k = Top.num /\ Top.done)

LEMMA SingleTop ==
  ASSUME Inv, stack # <<>>, Len(stack) = 1, NEW f \in Frame, stack' = SetTop(f)
  PROVE  Len(stack') = 1 /\ Top' = f
BY TopChanges DEF Inv, TypeInv, Top

LEMMA ResolveSingle == ASSUME Inv, Single, Resolve PROVE Single'
<1> SUFFICES ASSUME ~recursed' PROVE Single'
  BY DEF Single
<1> DEFINE k == Top.num
           f == [[Top EXCEPT !.done = TRUE, !.records = @ \cup {k}] EXCEPT !.contErr = 0]
<1>1. /\ stack # <<>> /\ k \in Domain /\ Top.done = FALSE /\ ~recursed
      /\ UNCHANGED <<copies, spoilt, visible>>
  BY TopFrame, ParseAssumption DEF Resolve, Asking, Domain, Inv, TypeInv, fileVars
<1>2. f \in Frame /\ f.num = k /\ f.done = TRUE /\ f.records = Top.records \cup {k}
  BY <1>1, TopFrame DEF Frame
<1>3. /\ Len(stack) = 1
      /\ \A j \in Domain : HeadOf[j] \notin spoilt => copies[j] <= 1 /\ (copies[j] > 0 => j \in visible)
      /\ \A j \in Top.records : HeadOf[j] \notin spoilt => copies[j] = 0
      /\ \A j \in Domain : HeadOf[j] \notin spoilt /\ copies[j] > 0 => j < k
  BY <1>1, TopFrame DEF Single
<1>4. HeadOf[k] \notin spoilt => copies[k] = 0
  <2>1. copies[k] \in 0 .. 2 /\ k \in Nat
    BY <1>1, TopFrame DEF Inv, TypeInv
  <2> QED BY <1>1, <1>3, <2>1
<1>5. stack' = SetTop(f)
  BY <1>1 DEF Resolve
<1> HIDE DEF f
<1>6. Len(stack') = 1 /\ Top' = f
  BY <1>1, <1>2, <1>3, <1>5, SingleTop
<1>7. \A j \in f.records : HeadOf[j] \notin spoilt => copies[j] = 0
  BY <1>2, <1>3, <1>4
<1>8. \A j \in Domain : HeadOf[j] \notin spoilt /\ copies[j] > 0 => j < f.num
  BY <1>2, <1>3
<1> QED BY <1>1, <1>3, <1>6, <1>7, <1>8 DEF Single

\* The call goes on with the records it had, and no file is touched.
LEMMA OnwardSingle ==
  ASSUME Inv, Single, stack # <<>>, UNCHANGED <<fileVars, recursed>>,
         NEW f \in Frame, stack' = SetTop(f), f.records = Top.records,
         f.num > Top.num \/ (f.num = Top.num /\ f.done)
  PROVE  Single'
<1> SUFFICES ASSUME ~recursed PROVE Single'
  BY DEF Single
<1>1. /\ Len(stack) = 1
      /\ \A j \in Domain : HeadOf[j] \notin spoilt => copies[j] <= 1 /\ (copies[j] > 0 => j \in visible)
      /\ \A j \in Top.records : HeadOf[j] \notin spoilt => copies[j] = 0
      /\ \A j \in Domain : HeadOf[j] \notin spoilt /\ copies[j] > 0 => j < Top.num \/ (j = Top.num /\ Top.done)
  BY DEF Single
<1>2. Len(stack') = 1 /\ Top' = f
  BY <1>1, SingleTop
<1>3. f.num \in Nat /\ Top.num \in Nat /\ Domain \subseteq Nat
  BY TopFrame DEF Frame
<1>4. \A j \in Domain : HeadOf[j] \notin spoilt /\ copies[j] > 0 => j < f.num \/ (j = f.num /\ f.done)
  BY <1>1, <1>3
<1> QED BY <1>1, <1>2, <1>4 DEF Single, fileVars

LEMMA FailSingle == ASSUME Inv, Single, Fail PROVE Single'
<1> DEFINE f == [Top EXCEPT !.done = TRUE, !.contErr = @ + 1,
                            !.errStart = IF Top.contErr = 0 THEN Top.num ELSE @]
<1>1. stack # <<>> /\ stack' = SetTop(f) /\ UNCHANGED <<fileVars, recursed>>
  BY DEF Fail, Asking, fileVars
<1>2. Top \in Frame /\ Top.contErr + 1 \in Nat /\ Top.num \in Nat /\ Top.errStart \in Nat
  BY <1>1, TopFrame
<1>3. f \in Frame /\ f.num = Top.num /\ f.done = TRUE /\ f.records = Top.records
  BY <1>2 DEF Frame
<1> HIDE DEF f
<1> QED BY <1>1, <1>3, OnwardSingle

LEMMA NextLineSingle == ASSUME Inv, Single, NextLine PROVE Single'
<1> DEFINE f == [Top EXCEPT !.num = @ + 1, !.done = FALSE]
<1>1. stack # <<>> /\ stack' = SetTop(f) /\ UNCHANGED <<fileVars, recursed>>
  BY DEF NextLine, fileVars
<1>2. Top \in Frame /\ Top.num \in Nat /\ Top.num + 1 \in Nat \ {0}
  BY <1>1, TopFrame
<1>3. f \in Frame /\ f.num = Top.num + 1 /\ f.records = Top.records
  BY <1>2 DEF Frame
<1>4. f.num > Top.num
  BY <1>2, <1>3
<1> HIDE DEF f
<1> QED BY <1>1, <1>3, <1>4, OnwardSingle

\* Lines that the call keeps are appended: a clean file has each once, and a
\* scan sees it.
LEMMA AppendSingle ==
  ASSUME Inv, Single, ~recursed, stack # <<>>, NEW S \in SUBSET Batch, AppendLines(S),
         spoilt \subseteq spoilt'
  PROVE  /\ \A j \in Domain : HeadOf[j] \notin spoilt'
              => copies'[j] <= 1 /\ (copies'[j] > 0 => j \in visible')
         /\ \A j \in Domain \ S : copies'[j] = copies[j]
<1>1. S \subseteq Top.records /\ S \subseteq Domain
  BY BatchSubset
<1>2. /\ \A j \in Domain : HeadOf[j] \notin spoilt => copies[j] <= 1 /\ (copies[j] > 0 => j \in visible)
      /\ \A j \in Top.records : HeadOf[j] \notin spoilt => copies[j] = 0
  BY DEF Single
<1>3. /\ \A j \in Domain : copies'[j] = IF j \in S /\ copies[j] < 2 THEN copies[j] + 1 ELSE copies[j]
      /\ visible' = visible \cup {j \in S : HeadOf[j] \notin spoilt}
  BY DEF AppendLines
<1>4. \A j : HeadOf[j] \notin spoilt' => HeadOf[j] \notin spoilt
  OBVIOUS
<1>5. ASSUME NEW j \in Domain, HeadOf[j] \notin spoilt
      PROVE  copies'[j] <= 1 /\ (copies'[j] > 0 => j \in visible')
  <2>1. CASE j \in S
    BY <1>1, <1>2, <1>3, <1>5, <2>1
  <2>2. CASE j \notin S
    BY <1>2, <1>3, <1>5, <2>2
  <2> QED BY <2>1, <2>2
<1> QED BY <1>3, <1>4, <1>5

\* A line is written once: then the call no longer keeps it.
LEMMA commitSingle == ASSUME Inv, Single, commit PROVE Single'
<1> SUFFICES ASSUME ~recursed PROVE Single'
  BY DEF Single, commit
<1> DEFINE f == [Top EXCEPT !.records = @ \ Batch]
<1>1. /\ stack # <<>> /\ stack' = SetTop(f) /\ recursed' = recursed /\ spoilt' = spoilt
      /\ AppendLines(Batch)
  BY DEF commit, DueCommit, Hundredth
<1>2. /\ Len(stack) = 1
      /\ \A j \in Top.records : HeadOf[j] \notin spoilt => copies[j] = 0
      /\ \A j \in Domain : HeadOf[j] \notin spoilt /\ copies[j] > 0 => j < Top.num \/ (j = Top.num /\ Top.done)
  BY <1>1 DEF Single
<1>3. f \in Frame /\ f.num = Top.num /\ f.done = Top.done /\ f.records = Top.records \ Batch
  BY <1>1, TopFrame DEF Frame
<1>4. Batch \subseteq Top.records /\ Top.records \subseteq Domain
  BY <1>1, TopFrame, BatchSubset
<1> HIDE DEF f
<1>5. Len(stack') = 1 /\ Top' = f
  BY <1>1, <1>2, <1>3, SingleTop
<1>6. /\ \A j \in Domain : HeadOf[j] \notin spoilt'
              => copies'[j] <= 1 /\ (copies'[j] > 0 => j \in visible')
      /\ \A j \in Domain \ Batch : copies'[j] = copies[j]
  BY <1>1, AppendSingle
<1>7. \A j : HeadOf[j] \notin spoilt' => HeadOf[j] \notin spoilt
  BY <1>1
<1>8. \A j \in f.records : HeadOf[j] \notin spoilt' => copies'[j] = 0
  BY <1>2, <1>3, <1>4, <1>6, <1>7
<1>9. \A j \in Domain : HeadOf[j] \notin spoilt' /\ copies'[j] > 0 => j < f.num \/ (j = f.num /\ f.done)
  <2>1. \A j \in Batch : j < Top.num \/ (j = Top.num /\ Top.done)
    BY <1>1, <1>4, TopFrame DEF Pending
  <2> QED BY <1>2, <1>3, <1>6, <1>7, <2>1
<1>10. /\ \A j \in Top'.records : HeadOf[j] \notin spoilt' => copies'[j] = 0
       /\ \A j \in Domain : HeadOf[j] \notin spoilt' /\ copies'[j] > 0
                            => j < Top'.num \/ (j = Top'.num /\ Top'.done)
  BY <1>5, <1>8, <1>9, Zenon
<1> QED BY <1>1, <1>5, <1>6, <1>10 DEF Single

\* Without an outage the end of a call is the end of the run.
LEMMA LastCall ==
  ASSUME Inv, Single, ~recursed, stack # <<>>, NEW err, stack' = Resume(err)
  PROVE  stack' = <<>>
BY DEF Single, Resume

LEMMA ReturnSingle == ASSUME Inv, Single, Return PROVE Single'
<1> SUFFICES ASSUME ~recursed PROVE Single'
  BY DEF Single, Return
<1>1. stack' = <<>> /\ UNCHANGED <<copies, spoilt, visible, recursed>>
  BY LastCall DEF Return, fileVars
<1> QED BY <1>1 DEF Single

LEMMA CommitFailsSingle == ASSUME Inv, Single, CommitFails PROVE Single'
<1> SUFFICES ASSUME ~recursed PROVE Single'
  BY DEF Single, CommitFails
<1>1. stack # <<>> /\ stack' = Resume(stack[2].contErr + 1) /\ recursed' = recursed
  BY DEF CommitFails, Hundredth
<1>2. stack' = <<>>
  BY <1>1, LastCall
<1>3. PICK part \in SUBSET Batch : AppendLines(part)
  BY DEF CommitFails
<1>4. spoilt \subseteq spoilt'
  BY DEF CommitFails
<1>5. \A j \in Domain : HeadOf[j] \notin spoilt'
              => copies'[j] <= 1 /\ (copies'[j] > 0 => j \in visible')
  BY <1>1, <1>3, <1>4, AppendSingle, Zenon
<1> QED BY <1>1, <1>2, <1>5 DEF Single

LEMMA SpoilSingle == ASSUME Inv, Single, NEW h \in Scanned, Spoil(h) PROVE Single'
<1> SUFFICES ASSUME ~recursed PROVE Single'
  BY DEF Single, Spoil
<1>1. UNCHANGED <<stack, copies, recursed>> /\ Top' = Top
  BY DEF Spoil, Top
<1>2. \A j : HeadOf[j] \notin spoilt' => HeadOf[j] \notin spoilt /\ HeadOf[j] # h
  BY DEF Spoil
<1>3. \A j \in visible : HeadOf[j] # h => j \in visible'
  BY DEF Spoil
<1> QED BY <1>1, <1>2, <1>3 DEF Single

LEMMA RestartSingle == ASSUME Inv, Single, Restart PROVE Single'
<1> SUFFICES ASSUME ~recursed PROVE Single'
  BY DEF Single, Restart
<1> DEFINE g == parseStart(HighestListed + 1)
<1>1. stack' = <<g>> /\ UNCHANGED <<copies, spoilt, visible, recursed>>
  BY DEF Restart, fileVars
<1>2. g.records = {} /\ g.num = HighestListed + 1 + 1
  BY DEF parseStart
<1> HIDE DEF g
<1>3. Len(stack') = 1 /\ Top' = g
  BY <1>1 DEF Top
<1>4. \A k \in Domain : HeadOf[k] \notin spoilt /\ copies[k] > 0 => k < g.num
  <2>1. \A k \in Domain : k \in Nat
    BY DEF Domain
  <2>2. HighestListed \in Nat /\ \A k \in visible : k <= HighestListed
    BY ListedBefore
  <2>3. \A k \in Nat : k <= HighestListed => k < g.num
    BY <1>2, <2>2
  <2>4. \A k \in Domain : HeadOf[k] \notin spoilt /\ copies[k] > 0 => k \in visible
    BY DEF Single
  <2> QED BY <2>1, <2>2, <2>3, <2>4
<1> QED BY <1>1, <1>2, <1>3, <1>4 DEF Single

LEMMA StepSingle == Inv /\ Single /\ [Next]_vars => Single'
<1>1. ASSUME Inv, Single, UNCHANGED vars PROVE Single'
  BY <1>1 DEF vars, fileVars, Single, Top
<1> QED BY <1>1, ResolveSingle, FailSingle, commitSingle, NextLineSingle, ReturnSingle,
           CommitFailsSingle, SpoilSingle, RestartSingle DEF Next, Step

\* However often and wherever the program is stopped or a commit of it fails, a
\* new run appends no line that a file already has, as long as that file has no
\* line that ends the scan of it.
THEOREM RunsDoNotDuplicate == Spec => []NoDuplicates
<1>1. Init => Single
  BY DEF Init, Single, Top, parseStart
<1>2. ASSUME Single PROVE NoDuplicates
  BY <1>2 DEF Single, NoDuplicates
<1> QED BY <1>1, <1>2, InitInv, StepInv, StepSingle, PTL DEF Spec

-------------------------------------------------------------------------------
(* No line lost.                                                           *)

\* Some call has k in its records.
Held(k) == \E i \in 1 .. Len(stack) : k \in stack[i].records

\* Until the program is stopped, a domain that was resolved is in a file, in
\* the hands of a call, lost with one, or past the last full hundred.
Kept ==
  crashes = 0 =>
    \A k \in resolved \ dropped : copies[k] > 0 \/ k > Size - (Size % Every) \/ Held(k)

\* A call keeps what it had, but for what it gives away, and so do its callers.
LEMMA HeldStays ==
  ASSUME Inv, stack # <<>>, NEW f \in Frame, NEW k, Held(k), k \in Top.records => k \in f.records
  PROVE  \E j \in 1 .. Len(SetTop(f)) : k \in SetTop(f)[j].records
<1>1. PICK i \in 1 .. Len(stack) : k \in stack[i].records
  BY DEF Held
<1>2. /\ Len(SetTop(f)) = Len(stack) /\ SetTop(f)[1] = f
      /\ \A j \in 2 .. Len(stack) : SetTop(f)[j] = stack[j]
      /\ Len(stack) \in Nat
  BY TopChanges DEF Inv, TypeInv
<1>3. CASE i = 1
  BY <1>1, <1>2, <1>3 DEF Top
<1>4. CASE i # 1
  BY <1>1, <1>2, <1>4
<1> QED BY <1>3, <1>4

\* A step of the innermost call that resolves nothing and touches no file.
LEMMA OnwardKept ==
  ASSUME Inv, Kept, stack # <<>>, UNCHANGED <<copies, resolved, dropped, crashes>>,
         NEW f \in Frame, stack' = SetTop(f), f.records = Top.records
  PROVE  Kept'
<1>1. \A k : Held(k) => Held(k)'
  BY HeldStays DEF Held
<1> QED BY <1>1 DEF Kept

LEMMA ResolveKept == ASSUME Inv, Kept, Resolve PROVE Kept'
<1> SUFFICES ASSUME crashes = 0, NEW k \in resolved' \ dropped
             PROVE  copies[k] > 0 \/ k > Size - (Size % Every) \/ Held(k)'
  BY DEF Kept, Resolve, fileVars
<1> DEFINE f == [Top EXCEPT !.done = TRUE, !.records = @ \cup {Top.num}]
           h == [f EXCEPT !.contErr = 0]
           g == parseStart(Top.errStart)
<1>1. stack # <<>> /\ Top.num \in Domain /\ resolved' = resolved \cup {Top.num}
  BY TopFrame, ParseAssumption DEF Resolve, Asking, Domain
<1>2. /\ f \in Frame /\ f.records = Top.records \cup {Top.num}
      /\ h \in Frame /\ h.records = Top.records \cup {Top.num}
  BY <1>1, TopFrame DEF Frame
<1>3. g \in Frame
  BY <1>1, TopFrame, ParseStartFrame
<1>4. stack' = <<g>> \o SetTop(f) \/ stack' = SetTop(h)
  BY DEF Resolve
<1> HIDE DEF f, g, h
<1>5. \A e \in {f, h} : SetTop(e) \in Seq(Frame) /\ Len(SetTop(e)) \in Nat \ {0} /\ SetTop(e)[1] = e
  BY <1>1, <1>2, TopChanges DEF Inv, TypeInv
<1>6. ASSUME NEW e \in {f, h}, k = Top.num \/ Held(k)
      PROVE  \E j \in 1 .. Len(SetTop(e)) : k \in SetTop(e)[j].records
  <2>1. CASE k = Top.num
    <3>1. 1 \in 1 .. Len(SetTop(e)) /\ k \in SetTop(e)[1].records
      BY <1>2, <1>5, <2>1
    <3> QED BY <3>1
  <2>2. CASE Held(k)
    BY <1>1, <1>2, <2>2, HeldStays
  <2> QED BY <1>6, <2>1, <2>2
<1>7. ASSUME k = Top.num \/ Held(k) PROVE Held(k)'
  <2>1. CASE stack' = SetTop(h)
    BY <1>6, <1>7, <2>1 DEF Held
  <2>2. CASE stack' = <<g>> \o SetTop(f)
    <3>1. PICK j \in 1 .. Len(SetTop(f)) : k \in SetTop(f)[j].records
      BY <1>6, <1>7
    <3>2. Len(stack') = Len(SetTop(f)) + 1 /\ stack'[j + 1] = SetTop(f)[j]
      BY <1>3, <1>5, <2>2, CallPushes
    <3>3. j + 1 \in 1 .. Len(stack')
      BY <1>5, <3>2
    <3> QED BY <3>1, <3>2, <3>3 DEF Held
  <2> QED BY <1>4, <2>1, <2>2
<1> QED BY <1>1, <1>7 DEF Kept

LEMMA commitKept == ASSUME Inv, Kept, commit PROVE Kept'
<1> SUFFICES ASSUME crashes = 0, NEW k \in resolved \ dropped
             PROVE  copies'[k] > 0 \/ k > Size - (Size % Every) \/ Held(k)'
  BY DEF Kept, commit
<1> DEFINE f == [Top EXCEPT !.records = @ \ Batch]
<1>1. stack # <<>> /\ stack' = SetTop(f) /\ k \in Domain
  BY DEF commit, DueCommit, Hundredth, Inv, TypeInv
<1>2. f \in Frame /\ f.records = Top.records \ Batch
  BY <1>1, TopFrame DEF Frame
<1>3. copies'[k] = IF k \in Batch /\ copies[k] < 2 THEN copies[k] + 1 ELSE copies[k]
  BY <1>1 DEF commit, AppendLines
<1>4. copies[k] \in 0 .. 2
  BY <1>1 DEF Inv, TypeInv
<1> HIDE DEF f
<1>5. CASE copies[k] > 0 \/ k \in Batch
  BY <1>3, <1>4, <1>5
<1>6. CASE Held(k) /\ k \notin Batch
  <2>1. k \in Top.records => k \in f.records
    BY <1>2, <1>6
  <2>2. \E j \in 1 .. Len(SetTop(f)) : k \in SetTop(f)[j].records
    BY <1>1, <1>2, <1>6, <2>1, HeldStays
  <2> QED BY <1>1, <2>2 DEF Held
<1> QED BY <1>5, <1>6 DEF Kept

\* What a caller holds it still holds when the call it made is over.
LEMMA ResumeKept ==
  ASSUME Inv, stack # <<>>, NEW err, Len(stack) # 1 => err \in Nat, stack' = Resume(err),
         NEW k, Held(k), k \notin Top.records
  PROVE  Held(k)'
<1>1. PICK i \in 1 .. Len(stack) : k \in stack[i].records
  BY DEF Held
<1>2. /\ Len(stack') = Len(stack) - 1 /\ Len(stack) \in Nat
      /\ \A j \in 1 .. Len(stack') : stack'[j].records = stack[j + 1].records
  BY CallerResumes DEF Inv, TypeInv
<1>3. i # 1
  BY <1>1 DEF Top
<1>4. i - 1 \in 1 .. Len(stack') /\ (i - 1) + 1 = i
  BY <1>2, <1>3
<1> QED BY <1>1, <1>2, <1>4 DEF Held

\* A call that is at the end of the list passed the last full hundred, so it
\* drops nothing from before it.
LEMMA ReturnKept == ASSUME Inv, Kept, Return PROVE Kept'
<1> SUFFICES ASSUME crashes = 0, NEW k \in resolved \ dropped
             PROVE  copies[k] > 0 \/ k > Size - (Size % Every) \/ Held(k)'
  BY DEF Kept, Return, fileVars
<1>1. stack # <<>> /\ stack' = Resume(0) /\ Top.num > Size
  BY DEF Return
<1>2. ASSUME k \in Top.records PROVE k > Size - (Size % Every)
  <2> DEFINE b == Size - (Size % Every)
  <2>1. b \in 0 .. Size /\ b % Every = 0 /\ Size \in Nat
    BY LastFull, ParseAssumption
  <2>2. k \in Nat /\ Top.num \in Nat /\ \A j \in k .. Top.num - 1 : j % Every # 0
    BY <1>1, <1>2, TopFrame DEF Pending
  <2> HIDE DEF b
  <2>3. ~(b \in k .. Top.num - 1)
    BY <2>1, <2>2
  <2>4. k > b
    BY <1>1, <2>1, <2>2, <2>3
  <2> QED BY <2>4 DEF b
<1>3. ASSUME Held(k), k \notin Top.records PROVE Held(k)'
  BY <1>1, <1>3, ResumeKept
<1> QED BY <1>2, <1>3 DEF Kept

\* What is lost with a call is in dropped.
LEMMA CommitFailsKept == ASSUME Inv, Kept, CommitFails PROVE Kept'
<1> SUFFICES ASSUME crashes = 0, NEW k \in resolved \ dropped'
             PROVE  copies'[k] > 0 \/ k > Size - (Size % Every) \/ Held(k)'
  BY DEF Kept, CommitFails
<1>1. /\ stack # <<>> /\ stack' = Resume(stack[2].contErr + 1) /\ k \in Domain
      /\ k \notin dropped /\ k \notin Top.records
  BY DEF CommitFails, Hundredth, Inv, TypeInv
<1>2. copies[k] > 0 => copies'[k] > 0
  <2>1. PICK part \in SUBSET Batch : AppendLines(part)
    BY DEF CommitFails
  <2>2. copies'[k] = IF k \in part /\ copies[k] < 2 THEN copies[k] + 1 ELSE copies[k]
    BY <1>1, <2>1 DEF AppendLines
  <2>3. copies[k] \in 0 .. 2
    BY <1>1 DEF Inv, TypeInv
  <2> QED BY <2>2, <2>3
<1>3. Held(k) => Held(k)'
  BY <1>1, CallerCounts, ResumeKept
<1> QED BY <1>1, <1>2, <1>3 DEF Kept

LEMMA StepKept == Inv /\ Kept /\ [Next]_vars => Kept'
<1> SUFFICES ASSUME Inv, Kept, [Next]_vars PROVE Kept'
  OBVIOUS
<1>1. CASE UNCHANGED vars
  BY <1>1 DEF vars, fileVars, Kept, Held
<1>2. CASE Fail
  <2> DEFINE f == [Top EXCEPT !.done = TRUE, !.contErr = @ + 1,
                              !.errStart = IF Top.contErr = 0 THEN Top.num ELSE @]
  <2>1. stack # <<>> /\ stack' = SetTop(f) /\ UNCHANGED <<copies, resolved, dropped, crashes>>
    BY <1>2 DEF Fail, Asking, fileVars
  <2>2. Top \in Frame /\ Top.contErr + 1 \in Nat /\ Top.num \in Nat /\ Top.errStart \in Nat
    BY <2>1, TopFrame
  <2>3. f \in Frame /\ f.records = Top.records
    BY <2>2 DEF Frame
  <2> HIDE DEF f
  <2> QED BY <2>1, <2>3, OnwardKept
<1>3. CASE NextLine
  <2> DEFINE f == [Top EXCEPT !.num = @ + 1, !.done = FALSE]
  <2>1. stack # <<>> /\ stack' = SetTop(f) /\ UNCHANGED <<copies, resolved, dropped, crashes>>
    BY <1>3 DEF NextLine, fileVars
  <2>2. Top \in Frame /\ Top.num + 1 \in Nat \ {0}
    BY <2>1, TopFrame
  <2>3. f \in Frame /\ f.records = Top.records
    BY <2>2 DEF Frame
  <2> HIDE DEF f
  <2> QED BY <2>1, <2>3, OnwardKept
<1>4. CASE Restart
  BY <1>4 DEF Restart, Kept, Inv, TypeInv
<1>5. ASSUME NEW h \in Scanned, Spoil(h) PROVE Kept'
  BY <1>5 DEF Spoil, Kept, Held
<1> QED BY <1>1, <1>2, <1>3, <1>4, <1>5, ResolveKept, commitKept, ReturnKept, CommitFailsKept
       DEF Next, Step

\* A run that is not stopped lists every domain it resolved, up to the last
\* full hundred, however its calls were nested, but for what was lost with a call
\* whose commit failed.
THEOREM RunsLoseNothing == Spec => []NothingLost
<1>1. Init => Kept
  BY DEF Init, Kept
<1>2. ASSUME Inv, Kept, stack = <<>>, crashes = 0,
             NEW k \in resolved \ dropped, k <= Size - (Size % Every)
      PROVE  copies[k] > 0
  <2>1. ~Held(k)
    BY <1>2 DEF Held
  <2>2. k \in Nat /\ Size - (Size % Every) \in Int
    BY <1>2, LastFull, ParseAssumption DEF Inv, TypeInv, Domain
  <2>3. ~(k > Size - (Size % Every))
    BY <1>2, <2>2
  <2> QED BY <1>2, <2>1, <2>3 DEF Kept
<1>3. Inv /\ Kept => NothingLost
  BY <1>2 DEF NothingLost
<1> QED BY <1>1, <1>3, InitInv, StepInv, StepKept, PTL DEF Spec

================================================================================
