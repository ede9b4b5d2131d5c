------------------------------ MODULE RecordParse ------------------------------
(***************************************************************************)
(* records/parse.py, which fills the shard files from a ranked list of     *)
(* domains.  parseStart walks the list, resolves each domain, keeps the    *)
(* lines by first character and appends them to the shard files at every   *)
(* hundredth domain.  When a name resolves after a long row of failures,   *)
(* it first calls itself to go once more over what the outage has missed.  *)
(* The nested call is inside the try that also catches failed lookups, so  *)
(* an error of its commits ends that call alone.                           *)
(*                                                                         *)
(* The program may be stopped at any time; when it is run again it goes on *)
(* after the highest domain it finds in the shard files.  It gives up on a *)
(* file at the first line that has not three fields or names a domain that *)
(* is not in the list: the data plane, which works on the same files, adds *)
(* and leaves such lines.                                                  *)
(*                                                                         *)
(* A domain is its number in the list.  last.txt is written and never read *)
(* (the code that read it is commented out), so it is left out.            *)
(***************************************************************************)
EXTENDS Integers, Sequences, FiniteSets, FiniteSetsExt

CONSTANTS
  Size,         \* how many domains top-1m.csv lists
  HeadOf,       \* the first character of each
  Scanned,      \* the characters whose files a new run looks through
  Every,        \* domains between two commits: 100
  MaxErr,       \* failures in a row that are no outage yet: 200
  MaxCrashes    \* bound: how often the program is stopped and run again

Domain == 1 .. Size

ASSUME ParseAssumption ==
  /\ Size \in Nat /\ Every \in Nat \ {0} /\ MaxErr \in Nat /\ MaxCrashes \in Nat
  /\ DOMAIN HeadOf = Domain /\ \A k \in Domain : HeadOf[k] \in Scanned

VARIABLES
  stack,        \* the calls of parseStart, the innermost first
  copies,       \* how many lines the files have for each domain; 2 is 2 or more
  spoilt,       \* the characters whose file has a line that ends a scan of it
  visible,      \* the domains with a line that a scan gets to
  resolved,     \* history: the domains that were resolved
  dropped,      \* history: those lost with a call whose commit failed
  recursed,     \* history: there was an outage, and parseStart called itself
  crashes       \* how often the program was stopped

fileVars == <<copies, spoilt, visible>>
vars     == <<stack, fileVars, resolved, dropped, recursed, crashes>>

\* The local variables of parseStart(start) at its start.  Domains up to start are
\* skipped; done says that num has been asked for.
parseStart(start) ==
  [num |-> start + 1, done |-> FALSE, records |-> {}, errStart |-> 0, contErr |-> 0]

\* Mutant: the digits are forgotten.
HighestLetter == Max({0} \cup {k \in visible : HeadOf[k] # "0"})

\* max(r[domain], start) over the lines a scan of the files gets to.
HighestListed == Max({0} \cup {k \in visible : HeadOf[k] \in Scanned})

Init ==
  /\ stack = <<parseStart(1)>>
  /\ copies = [k \in Domain |-> 0]
  /\ spoilt = {}
  /\ visible = {}
  /\ resolved = {}
  /\ dropped = {}
  /\ recursed = FALSE
  /\ crashes = 0

-------------------------------------------------------------------------------
Top        == stack[1]
SetTop(f)  == <<f>> \o Tail(stack)
Asking     == stack # <<>> /\ Top.num <= Size /\ ~Top.done
Hundredth  == stack # <<>> /\ Top.done /\ Top.num % Every = 0
DueCommit  == Hundredth /\ Top.records # {}

\* The innermost call is over, and its caller, if there is one, goes on with err
\* as its contErr.
Resume(err) ==
  IF Len(stack) = 1 THEN <<>>
  ELSE <<[stack[2] EXCEPT !.contErr = err]>> \o Tail(Tail(stack))

\* The name resolves.  After an outage the calls made so far wait for one that
\* starts at the first failure; until it returns contErr stays what it is.
Resolve ==
  LET k == Top.num
      f == [Top EXCEPT !.done = TRUE, !.records = @ \cup {k}]
  IN  /\ Asking
      /\ resolved' = resolved \cup {k}
      /\ stack' = IF Top.contErr > MaxErr
                  THEN <<parseStart(Top.errStart)>> \o SetTop(f)
                  ELSE SetTop([f EXCEPT !.contErr = 0])
      /\ recursed' = (recursed \/ Top.contErr > MaxErr)
      /\ UNCHANGED <<fileVars, dropped, crashes>>

\* It does not: the first failure of a row is remembered.
Fail ==
  /\ Asking
  /\ stack' = SetTop([Top EXCEPT !.done = TRUE, !.contErr = @ + 1,
                                 !.errStart = IF Top.contErr = 0 THEN Top.num ELSE @])
  /\ UNCHANGED <<fileVars, resolved, dropped, recursed, crashes>>

\* The lines of the character that was met first go to their file next.
Batch == {k \in Top.records : HeadOf[k] = HeadOf[Min(Top.records)]}

\* The lines of S are appended to their file.  A scan does not get beyond a line
\* that spoils the file.
AppendLines(S) ==
  /\ copies' = [k \in Domain |-> IF k \in S /\ copies[k] < 2 THEN copies[k] + 1 ELSE copies[k]]
  /\ visible' = visible \cup {k \in S : HeadOf[k] \notin spoilt}

\* commit, one file at a time.
commit ==
  /\ DueCommit
  /\ AppendLines(Batch)
  /\ stack' = SetTop([Top EXCEPT !.records = @ \ Batch])
  /\ UNCHANGED <<spoilt, resolved, dropped, recursed, crashes>>

\* commit raises: part of the lines may be in the file, the last of them cut
\* short.  The call ends and its records with it.  Its caller takes this for
\* one more failed lookup; without a caller the program ends.
CommitFails ==
  /\ Hundredth
  /\ \E part \in SUBSET Batch : AppendLines(part)
  /\ spoilt' \in {spoilt, spoilt \cup {HeadOf[k] : k \in Batch}}
  /\ stack' = Resume(stack[2].contErr + 1)
  /\ dropped' = dropped \cup Top.records
  /\ UNCHANGED <<resolved, recursed, crashes>>

\* Mutant: records is created inside the loop.
NextLineClears ==
  /\ stack # <<>> /\ Top.done /\ ~DueCommit
  /\ stack' = SetTop([Top EXCEPT !.num = @ + 1, !.done = FALSE, !.records = {}])
  /\ UNCHANGED <<fileVars, resolved, dropped, recursed, crashes>>

\* The loop goes to the next line of the list.
NextLine ==
  /\ stack # <<>> /\ Top.done /\ ~DueCommit
  /\ stack' = SetTop([Top EXCEPT !.num = @ + 1, !.done = FALSE])
  /\ UNCHANGED <<fileVars, resolved, dropped, recursed, crashes>>

\* Mutant: the caller goes over the outage as well.
ReturnRepeats ==
  /\ stack # <<>> /\ Top.num > Size
  /\ stack' = IF Len(stack) = 1 THEN <<>>
              ELSE <<[stack[2] EXCEPT !.num = stack[2].errStart, !.done = FALSE]>>
                     \o Tail(Tail(stack))
  /\ UNCHANGED <<fileVars, resolved, dropped, recursed, crashes>>

\* The list is at its end; what was not committed is dropped.  The caller's row
\* of failures is over.
Return ==
  /\ stack # <<>> /\ Top.num > Size
  /\ stack' = Resume(0)
  /\ UNCHANGED <<fileVars, resolved, dropped, recursed, crashes>>

\* The program is stopped and run again.
Restart ==
  /\ crashes < MaxCrashes
  /\ crashes' = crashes + 1
  /\ stack' = <<parseStart(HighestListed + 1)>>
  /\ UNCHANGED <<fileVars, resolved, dropped, recursed>>

\* The data plane appends a domain that is not in the list (newRecord), or a
\* rewrite of its leaves a line in pieces: a scan no longer gets to some lines.
Spoil(h) ==
  /\ spoilt' = spoilt \cup {h}
  /\ \E hidden \in SUBSET {k \in visible : HeadOf[k] = h} : visible' = visible \ hidden
  /\ UNCHANGED <<stack, copies, resolved, dropped, recursed, crashes>>

-------------------------------------------------------------------------------
Step == Resolve \/ Fail \/ commit \/ NextLine \/ Return
Next == Step \/ CommitFails \/ Restart \/ \E h \in Scanned : Spoil(h)

\* A loop of straight-line code that is not stopped runs on.
Spec     == Init /\ [][Next]_vars
FairSpec == Spec /\ WF_vars(Step)

-------------------------------------------------------------------------------
(* Properties.                                                             *)

\* However often the program is stopped or its commits fail, between two files
\* of a commit or in the middle of one too, a new run appends no line that a
\* file already has, unless that file has a line that ends the scan of it; only
\* going over an outage again does.  A file that is spoilt costs no other file.
NoDuplicates ==
  ~recursed => \A k \in Domain : copies[k] <= 1 \/ HeadOf[k] \in spoilt

\* When a run that was never stopped ends, every domain it resolved is listed,
\* however calls were nested and whichever of them an error ended, but for what
\* those calls held then and for the domains after the last full hundred.
NothingLost ==
  stack = <<>> /\ crashes = 0
    => \A k \in resolved \ dropped : k <= Size - (Size % Every) => copies[k] > 0

\* Every run ends, whatever fails to resolve: a nested call begins after the
\* first failure it is to make good, so calls cannot nest for ever.
EveryRunEnds == <>[](stack = <<>>)
===============================================================================
