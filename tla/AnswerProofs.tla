----------------------------- MODULE AnswerProofs ------------------------------
(* The way of an Answer to its agent.  For any number of processes, calls and *)
(* deaths: the lock file of the inbox excludes except between the theft of a  *)
(* lock and the moment all who were inside have left, and what the inbox      *)
(* knows of an Answer is not taken back at any other time.  For any number of *)
(* Answers and connections: an Answer is recorded as delivered only after its *)
(* agent was told of it; and with one client at a time, which waits once, no  *)
(* wait of an old connection is left behind, and an agent that waits is not   *)
(* told twice.  For any number of Answers, batches and crashes: an Answer the *)
(* inbox has let go of becomes one turn of its agent.                         *)
EXTENDS AnswerInbox, AnswerNotifications, AnswerWake, TLAPS

-----------------------------------------------------------------------------
(* The inbox under its lock.                                                 *)

\* The variables have their types.
THEOREM InboxTypeCorrect == InboxSpec => []InboxTypeOK
<1>1. InboxInit => InboxTypeOK
  <2>1. (CHOOSE a \in InboxAnswers : TRUE) \in InboxAnswers
    BY InboxAssumption
  <2>2. NoData \in InboxData
    BY DEF NoData, InboxData, NotificationStates
  <2>3. QED
    <3>1. ASSUME InboxInit PROVE inboxOp \in [InboxCallers -> InboxOps]
      <4> DEFINE op == [mark |-> FALSE, answer |-> CHOOSE a \in InboxAnswers : TRUE]
      <4>1. op \in InboxOps
        BY <2>1 DEF InboxOps
      <4>2. QED
        BY <3>1, <4>1 DEF InboxInit
    <3>2. ASSUME InboxInit
          PROVE  inboxFile \in [{"main", "backup"} -> InboxData] /\ inboxDraft \in [InboxCallers -> InboxData]
      BY <2>2, <3>2 DEF InboxInit
    <3>3. ASSUME InboxInit
          PROVE  inboxBegun \in [InboxCallers -> SUBSET InboxAnswers] /\ inboxStolen \in BOOLEAN
      BY <3>3 DEF InboxInit
    <3>4. ASSUME InboxInit
          PROVE  /\ inboxCalls \in [InboxCallers -> Nat]
                 /\ inboxPc \in [InboxCallers -> {"idle", "open", "fill", "judge", "remove", "read",
                                                  "backup", "main", "release", "unlock", "dead"}]
      BY <3>4 DEF InboxInit
    <3>5. QED
      BY <3>1, <3>2, <3>3, <3>4 DEF InboxInit, InboxTypeOK
<1>2. ASSUME InboxTypeOK, [InboxNext]_inboxVars PROVE InboxTypeOK'
  <2> USE DEF InboxTypeOK, InboxData, InboxOps, NotificationStates
  <2>1. ASSUME NEW c \in InboxCallers, CallInbox(c) PROVE InboxTypeOK'
    BY <1>2, <2>1 DEF CallInbox, At
  <2>2. ASSUME NEW c \in InboxCallers, OpenLock(c) PROVE InboxTypeOK'
    <3>1. [holder |-> c, written |-> FALSE] \in [holder : InboxCallers, written : BOOLEAN]
      OBVIOUS
    <3>2. inboxLock' \in [holder : InboxCallers, written : BOOLEAN] \cup {NoLock}
      BY <1>2, <2>2, <3>1 DEF OpenLock
    <3>3. QED
      BY <1>2, <2>2, <3>2 DEF OpenLock
  <2>3. ASSUME NEW c \in InboxCallers, FillLock(c) PROVE InboxTypeOK'
    BY <1>2, <2>3 DEF FillLock, At
  <2>4. ASSUME NEW c \in InboxCallers, JudgeLock(c) PROVE InboxTypeOK'
    BY <1>2, <2>4 DEF JudgeLock, At
  <2>5. ASSUME NEW c \in InboxCallers, RemoveStaleLock(c) PROVE InboxTypeOK'
    BY <1>2, <2>5 DEF RemoveStaleLock, RemoveLock, At
  <2>6. ASSUME NEW c \in InboxCallers, ReadUnderLock(c) PROVE InboxTypeOK'
    <3>1. ReadInbox \in InboxData
      BY <1>2 DEF ReadInbox
    <3>2. \A a \in InboxAnswers, state \in NotificationStates :
            [generation |-> ReadInbox.generation + 1,
             notifications |-> [ReadInbox.notifications EXCEPT ![a] = state]] \in InboxData
      BY <3>1 DEF InboxData
    <3>3. inboxDraft' \in [InboxCallers -> InboxData]
      <4>1. CASE UNCHANGED inboxDraft
        BY <1>2, <4>1
      <4>2. CASE inboxDraft' # inboxDraft
        <5> DEFINE state == IF inboxOp[c].mark THEN "delivered" ELSE "pending"
                   data == [generation |-> ReadInbox.generation + 1,
                            notifications |-> [ReadInbox.notifications EXCEPT ![inboxOp[c].answer] = state]]
        <5>1. data \in InboxData
          <6>1. inboxOp[c].answer \in InboxAnswers /\ state \in NotificationStates
            BY <1>2
          <6>2. QED
            BY <3>2, <6>1
        <5>2. inboxDraft' = [inboxDraft EXCEPT ![c] = data]
          BY <2>6, <4>2 DEF ReadUnderLock
        <5>3. QED
          BY <1>2, <5>1, <5>2
      <4>3. QED
        BY <4>1, <4>2
    <3>4. inboxBegun' \in [InboxCallers -> SUBSET InboxAnswers] /\ inboxStolen' \in BOOLEAN
      BY <1>2, <2>6 DEF ReadUnderLock, LeaveLock
    <3>5. inboxPc' \in [InboxCallers -> {"idle", "open", "fill", "judge", "remove", "read",
                                         "backup", "main", "release", "unlock", "dead"}]
      BY <1>2, <2>6 DEF ReadUnderLock, At
    <3>6. UNCHANGED <<inboxLock, inboxFile, inboxOp, inboxCalls>>
      BY <2>6 DEF ReadUnderLock
    <3>7. QED
      BY <1>2, <3>3, <3>4, <3>5, <3>6
  <2>7. ASSUME NEW c \in InboxCallers, WriteBackup(c) \/ WriteMain(c) PROVE InboxTypeOK'
    <3>1. CASE WriteBackup(c)
      <4>1. inboxFile' \in [{"main", "backup"} -> InboxData]
        BY <1>2, <3>1 DEF WriteBackup
      <4>2. QED
        BY <1>2, <3>1, <4>1 DEF WriteBackup, At
    <3>2. CASE WriteMain(c)
      <4>1. inboxFile' \in [{"main", "backup"} -> InboxData]
        BY <1>2, <3>2 DEF WriteMain
      <4>2. inboxBegun' \in [InboxCallers -> SUBSET InboxAnswers] /\ inboxStolen' \in BOOLEAN
        BY <1>2, <3>2 DEF WriteMain, LeaveLock
      <4>3. QED
        BY <1>2, <3>2, <4>1, <4>2 DEF WriteMain, At
    <3>3. QED
      BY <2>7, <3>1, <3>2
  <2>8. ASSUME NEW c \in InboxCallers, ReleaseLock(c) \/ Unlock(c) PROVE InboxTypeOK'
    BY <1>2, <2>8 DEF ReleaseLock, Unlock, RemoveLock, At
  <2>9. ASSUME NEW c \in InboxCallers, Die(c) PROVE InboxTypeOK'
    BY <1>2, <2>9 DEF Die, LeaveLock
  <2>10. CASE UNCHANGED inboxVars
    BY <1>2, <2>10 DEF inboxVars
  <2>11. QED
    BY <1>2, <2>1, <2>2, <2>3, <2>4, <2>5, <2>6, <2>7, <2>8, <2>9, <2>10 DEF InboxNext
<1>3. QED
  BY <1>1, <1>2, PTL DEF InboxSpec

-----------------------------------------------------------------------------

\* Whoever is inside holds the lock file that is there, unless one was stolen;
\* and then somebody is still inside.
LockHeld ==
  /\ inboxStolen \/ \A c \in Inside : inboxLock # NoLock /\ inboxLock.holder = c
  /\ Inside = {} => ~inboxStolen

\* The lock of a process inside is not removed without inboxStolen noting it.
LEMMA RemovalNoted ==
  ASSUME InboxTypeOK, LockHeld, RemoveLock, Inside' = Inside
  PROVE  LockHeld'
<1>1. CASE inboxStolen'
  <2>1. Inside # {}
    BY <1>1 DEF RemoveLock, LockHeld
  <2>2. QED
    BY <1>1, <2>1 DEF LockHeld
<1>2. CASE ~inboxStolen'
  <2>1. ~inboxStolen /\ (inboxLock # NoLock => inboxLock.holder \notin Inside)
    BY <1>2 DEF RemoveLock
  <2>2. Inside = {}
    BY <2>1 DEF LockHeld
  <2>3. QED
    BY <1>2, <2>2 DEF LockHeld
<1>3. QED
  BY <1>1, <1>2

\* Whoever leaves takes nothing from those who stay.
LEMMA LeavingKeeps ==
  ASSUME LockHeld, NEW c, LeaveLock(c), Inside' = Inside \ {c}, UNCHANGED inboxLock
  PROVE  LockHeld'
BY DEF LockHeld, LeaveLock

LEMMA HeldInductive ==
  ASSUME InboxTypeOK, LockHeld, [InboxNext]_inboxVars
  PROVE  LockHeld'
<1> USE InboxAssumption DEF InboxTypeOK
<1>1. ASSUME NEW c \in InboxCallers, CallInbox(c) \/ JudgeLock(c) \/ ReleaseLock(c) PROVE LockHeld'
  <2>1. Inside' = Inside /\ UNCHANGED <<inboxLock, inboxStolen>>
    BY <1>1 DEF CallInbox, JudgeLock, ReleaseLock, At, Inside
  <2>2. QED
    BY <2>1 DEF LockHeld
<1>2. ASSUME NEW c \in InboxCallers, OpenLock(c) PROVE LockHeld'
  <2>1. CASE inboxLock = NoLock
    <3>1. /\ inboxLock' = [holder |-> c, written |-> FALSE] /\ UNCHANGED inboxStolen
          /\ Inside' = Inside \cup {c}
      BY <1>2, <2>1 DEF OpenLock, Inside
    <3>2. [holder |-> c, written |-> FALSE] \in [holder : InboxCallers, written : BOOLEAN]
      OBVIOUS
    <3>3. inboxLock' # NoLock /\ inboxLock'.holder = c
      BY <3>1, <3>2
    <3>4. inboxStolen \/ Inside = {}
      BY <2>1 DEF LockHeld
    <3>5. QED
      BY <3>1, <3>3, <3>4 DEF LockHeld
  <2>2. CASE inboxLock # NoLock
    <3>1. Inside' = Inside /\ UNCHANGED <<inboxLock, inboxStolen>>
      BY <1>2, <2>2 DEF OpenLock, Inside
    <3>2. QED
      BY <3>1 DEF LockHeld
  <2>3. QED
    BY <2>1, <2>2
<1>3. ASSUME NEW c \in InboxCallers, FillLock(c) PROVE LockHeld'
  <2>1. Inside' = Inside /\ UNCHANGED inboxStolen
    BY <1>3 DEF FillLock, At, Inside
  <2>2. inboxLock # NoLock => inboxLock' # NoLock /\ inboxLock'.holder = inboxLock.holder
    <3>1. CASE inboxLock # NoLock /\ inboxLock.holder = c
      <4>1. [inboxLock EXCEPT !.written = TRUE] \in [holder : InboxCallers, written : BOOLEAN]
        BY <3>1
      <4>2. QED
        BY <1>3, <3>1, <4>1 DEF FillLock
    <3>2. CASE ~(inboxLock # NoLock /\ inboxLock.holder = c)
      BY <1>3, <3>2 DEF FillLock
    <3>3. QED
      BY <3>1, <3>2
  <2>3. QED
    BY <2>1, <2>2 DEF LockHeld
<1>4. ASSUME NEW c \in InboxCallers, RemoveStaleLock(c) \/ Unlock(c) PROVE LockHeld'
  <2>1. Inside' = Inside /\ RemoveLock
    BY <1>4 DEF RemoveStaleLock, Unlock, At, Inside
  <2>2. QED
    BY <2>1, RemovalNoted
<1>5. ASSUME NEW c \in InboxCallers, ReadUnderLock(c) PROVE LockHeld'
  <2>1. CASE At(c, "read", "release") /\ LeaveLock(c)
    <3>1. Inside' = Inside \ {c} /\ UNCHANGED inboxLock
      BY <1>5, <2>1 DEF ReadUnderLock, At, Inside
    <3>2. QED
      BY <2>1, <3>1, LeavingKeeps
  <2>2. CASE At(c, "read", "backup") /\ UNCHANGED inboxStolen
    <3>1. Inside' = Inside /\ UNCHANGED inboxLock
      BY <1>5, <2>2 DEF ReadUnderLock, At, Inside
    <3>2. QED
      BY <2>2, <3>1 DEF LockHeld
  <2>3. QED
    BY <1>5, <2>1, <2>2 DEF ReadUnderLock
<1>6. ASSUME NEW c \in InboxCallers, WriteBackup(c) PROVE LockHeld'
  <2>1. Inside' = Inside /\ UNCHANGED <<inboxLock, inboxStolen>>
    BY <1>6 DEF WriteBackup, At, Inside
  <2>2. QED
    BY <2>1 DEF LockHeld
<1>7. ASSUME NEW c \in InboxCallers, WriteMain(c) \/ Die(c) PROVE LockHeld'
  <2>1. Inside' = Inside \ {c} /\ LeaveLock(c) /\ UNCHANGED inboxLock
    BY <1>7 DEF WriteMain, Die, At, Inside
  <2>2. QED
    BY <2>1, LeavingKeeps
<1>8. CASE UNCHANGED inboxVars
  <2>1. Inside' = Inside /\ UNCHANGED <<inboxLock, inboxStolen>>
    BY <1>8 DEF inboxVars, Inside
  <2>2. QED
    BY <2>1 DEF LockHeld
<1>9. QED
  BY <1>1, <1>2, <1>3, <1>4, <1>5, <1>6, <1>7, <1>8 DEF InboxNext

\* For any number of processes, two are inside together at most from a theft of
\* a lock file until all who were inside have left: the lock excludes again.
THEOREM LockExcludesAgain == InboxSpec => []LockRecovers
<1>1. InboxInit => LockHeld
  BY DEF InboxInit, LockHeld, Inside
<1>2. InboxTypeOK /\ LockHeld /\ [InboxNext]_inboxVars => LockHeld'
  BY HeldInductive
<1>3. LockHeld => LockRecovers
  BY DEF LockHeld, LockRecovers, LiveLockNotStolen
<1>4. QED
  BY <1>1, <1>2, <1>3, InboxTypeCorrect, PTL DEF InboxSpec

-----------------------------------------------------------------------------

AsMuch(data, old) ==
  \A a \in InboxAnswers : Progress(data.notifications[a]) >= Progress(old.notifications[a])

\* Unless a lock was stolen: what a process is about to write is newer than
\* both copies and takes nothing back; between the two writes it is what readers
\* find already.
Careful ==
  ~inboxStolen =>
    \A c \in InboxCallers :
      /\ inboxPc[c] = "backup" =>
           /\ inboxDraft[c].generation > inboxFile["main"].generation
           /\ inboxDraft[c].generation > inboxFile["backup"].generation
           /\ AsMuch(inboxDraft[c], ReadInbox)
      /\ inboxPc[c] = "main" =>
           /\ inboxDraft[c] = inboxFile["backup"]
           /\ inboxDraft[c].generation > inboxFile["main"].generation

LEMMA ProgressRange ==
  /\ \A s \in NotificationStates : Progress(s) \in Nat /\ Progress(s) >= Progress(s)
  /\ \A s \in NotificationStates : Progress("delivered") >= Progress(s)
  /\ Progress("pending") >= Progress("unknown")
BY DEF NotificationStates, Progress

LEMMA NewestIsRead ==
  ASSUME InboxTypeOK
  PROVE  /\ ReadInbox \in InboxData
         /\ ReadInbox.generation >= inboxFile["main"].generation
         /\ ReadInbox.generation >= inboxFile["backup"].generation
BY DEF InboxTypeOK, InboxData, ReadInbox

\* The draft made under the lock.
LEMMA DraftCareful ==
  ASSUME InboxTypeOK, NEW c \in InboxCallers, ReadUnderLock(c), inboxPc'[c] = "backup"
  PROVE  /\ inboxDraft'[c].generation = ReadInbox.generation + 1
         /\ AsMuch(inboxDraft'[c], ReadInbox)
<1> DEFINE a == inboxOp[c].answer
           state == IF inboxOp[c].mark THEN "delivered" ELSE "pending"
           new == [ReadInbox.notifications EXCEPT ![a] = state]
<1>1. ~(~inboxOp[c].mark /\ ReadInbox.notifications[a] # "unknown")
  BY DEF ReadUnderLock, At, InboxTypeOK
<1>2. inboxDraft'[c] = [generation |-> ReadInbox.generation + 1, notifications |-> new]
  BY <1>1 DEF ReadUnderLock, InboxTypeOK
<1>3. ReadInbox.notifications \in [InboxAnswers -> NotificationStates] /\ inboxOp[c] \in InboxOps
  BY NewestIsRead DEF InboxData, InboxTypeOK
<1>4. ASSUME NEW b \in InboxAnswers PROVE Progress(new[b]) >= Progress(ReadInbox.notifications[b])
  <2>1. CASE b = a
    BY <1>1, <1>3, <2>1, ProgressRange DEF InboxOps
  <2>2. CASE b # a
    BY <1>3, <2>2, ProgressRange
  <2>3. QED
    BY <2>1, <2>2
<1>5. QED
  BY <1>2, <1>4 DEF AsMuch

\* While no lock is stolen both copies are written by the only process inside,
\* and each write leaves readers with its draft.
LEMMA WriteShowsDraft ==
  ASSUME InboxTypeOK, Careful, ~inboxStolen, NEW c \in InboxCallers,
         WriteBackup(c) \/ WriteMain(c)
  PROVE  ReadInbox' = inboxDraft[c] /\ AsMuch(inboxDraft[c], ReadInbox)
<1> USE DEF InboxTypeOK, InboxData
<1>1. CASE WriteBackup(c)
  <2>1. inboxFile'["backup"] = inboxDraft[c] /\ inboxFile'["main"] = inboxFile["main"]
    BY <1>1 DEF WriteBackup
  <2>2. inboxDraft[c].generation > inboxFile["main"].generation /\ AsMuch(inboxDraft[c], ReadInbox)
    BY <1>1 DEF WriteBackup, At, Careful
  <2>3. QED
    BY <2>1, <2>2 DEF ReadInbox
<1>2. CASE WriteMain(c)
  <2>1. inboxFile'["main"] = inboxDraft[c] /\ inboxFile'["backup"] = inboxFile["backup"]
    BY <1>2 DEF WriteMain
  <2>2. /\ inboxDraft[c] = inboxFile["backup"]
        /\ inboxFile["backup"].generation > inboxFile["main"].generation
    BY <1>2 DEF WriteMain, At, Careful
  <2>3. ReadInbox = inboxDraft[c] /\ ReadInbox' = inboxDraft[c]
    BY <2>1, <2>2 DEF ReadInbox
  <2>4. AsMuch(inboxDraft[c], inboxDraft[c])
    BY ProgressRange DEF AsMuch
  <2>5. QED
    BY <2>3, <2>4
<1>3. QED
  BY <1>1, <1>2

\* Nobody is about to write.
LEMMA QuietIsCareful ==
  ASSUME \A c \in InboxCallers : inboxPc'[c] \notin {"backup", "main"}
  PROVE  Careful'
BY DEF Careful

LEMMA CarefulInductive ==
  ASSUME InboxTypeOK, LockHeld, Careful, [InboxNext]_inboxVars
  PROVE  Careful'
<1>1. ASSUME NEW c \in InboxCallers, ~inboxStolen, ReadUnderLock(c) PROVE Careful'
  <2>1. UNCHANGED inboxFile /\ ReadInbox' = ReadInbox
    BY <1>1 DEF ReadUnderLock, ReadInbox
  <2>2. \A d \in InboxCallers \ {c} : inboxPc'[d] = inboxPc[d] /\ inboxDraft'[d] = inboxDraft[d]
    BY <1>1 DEF ReadUnderLock, At, InboxTypeOK
  <2>3. inboxPc'[c] # "main"
    BY <1>1 DEF ReadUnderLock, At, InboxTypeOK
  <2>4. inboxPc'[c] = "backup" =>
          /\ inboxDraft'[c].generation > inboxFile["main"].generation
          /\ inboxDraft'[c].generation > inboxFile["backup"].generation
          /\ AsMuch(inboxDraft'[c], ReadInbox)
    BY <1>1, DraftCareful, NewestIsRead DEF InboxTypeOK, InboxData
  <2>5. QED
    BY <1>1, <2>1, <2>2, <2>3, <2>4 DEF Careful, AsMuch, Progress
<1>2. ASSUME NEW c \in InboxCallers, ~inboxStolen, WriteBackup(c) \/ WriteMain(c) PROVE Careful'
  <2>1. \A d \in InboxCallers \ {c} : inboxPc'[d] = inboxPc[d] /\ inboxPc[d] \notin {"backup", "main"}
    BY <1>2 DEF WriteBackup, WriteMain, At, LockHeld, Inside, InboxTypeOK
  <2>2. inboxPc'[c] # "backup"
    BY <1>2 DEF WriteBackup, WriteMain, At, InboxTypeOK
  <2>3. ASSUME inboxPc'[c] = "main"
        PROVE  /\ inboxDraft'[c] = inboxFile'["backup"]
               /\ inboxDraft'[c].generation > inboxFile'["main"].generation
    BY <1>2, <2>3 DEF WriteBackup, WriteMain, At, InboxTypeOK, Careful
  <2>4. QED
    BY <2>1, <2>2, <2>3 DEF Careful
<1>3. ASSUME ~inboxStolen, UNCHANGED <<inboxFile, inboxDraft>>,
             \A d \in InboxCallers : inboxPc'[d] \in {"backup", "main"} => inboxPc'[d] = inboxPc[d]
      PROVE  Careful'
  BY <1>3 DEF Careful, AsMuch, ReadInbox, Progress
<1>4. ASSUME NEW c \in InboxCallers, ~inboxStolen,
             \/ CallInbox(c) \/ OpenLock(c) \/ FillLock(c) \/ JudgeLock(c)
             \/ RemoveStaleLock(c) \/ ReleaseLock(c) \/ Unlock(c) \/ Die(c)
      PROVE  Careful'
  <2>1. UNCHANGED <<inboxFile, inboxDraft>>
    BY <1>4 DEF CallInbox, OpenLock, FillLock, JudgeLock, RemoveStaleLock, ReleaseLock, Unlock, Die
  <2>2. \A d \in InboxCallers : inboxPc'[d] \in {"backup", "main"} => inboxPc'[d] = inboxPc[d]
    BY <1>4 DEF CallInbox, OpenLock, FillLock, JudgeLock, RemoveStaleLock, ReleaseLock, Unlock, Die,
                At, InboxTypeOK
  <2>3. QED
    BY <1>3, <1>4, <2>1, <2>2
<1>5. CASE inboxStolen /\ inboxStolen'
  BY <1>5 DEF Careful
<1>6. ASSUME inboxStolen, ~inboxStolen' PROVE Careful'
  <2>1. PICK c \in InboxCallers :
          /\ LeaveLock(c) /\ \A d \in InboxCallers \ {c} : inboxPc'[d] = inboxPc[d]
          /\ inboxPc'[c] \in {"release", "dead"}
    <3>1. PICK c \in InboxCallers : ReadUnderLock(c) \/ WriteMain(c) \/ Die(c)
      BY <1>6 DEF InboxNext, inboxVars, CallInbox, OpenLock, FillLock, JudgeLock, RemoveStaleLock,
                  RemoveLock, WriteBackup, ReleaseLock, Unlock
    <3>2. QED
      BY <1>6, <3>1 DEF ReadUnderLock, WriteMain, Die, At, InboxTypeOK
  <2>2. \A d \in InboxCallers \ {c} : inboxPc'[d] \notin {"backup", "main"}
    BY <1>6, <2>1 DEF LeaveLock, Inside
  <2>3. QED
    BY <2>1, <2>2, QuietIsCareful
<1>7. CASE UNCHANGED inboxVars
  BY <1>7 DEF inboxVars, Careful, AsMuch, ReadInbox, Progress
<1>8. QED
  BY <1>1, <1>2, <1>4, <1>5, <1>6, <1>7 DEF InboxNext

\* A mark of the inbox is taken back at most while processes write that were
\* inside after a theft, whatever process dies at whatever point.
THEOREM MarksAreKept == InboxSpec => MarksKept
<1>1. InboxInit => LockHeld /\ Careful
  BY DEF InboxInit, LockHeld, Inside, Careful
<1>2. InboxTypeOK /\ LockHeld /\ Careful /\ [InboxNext]_inboxVars => LockHeld' /\ Careful'
  BY HeldInductive, CarefulInductive
<1>3. ASSUME InboxTypeOK, Careful, [InboxNext]_inboxVars
      PROVE  [inboxStolen \/ \A a \in InboxAnswers :
                Progress(ReadInbox'.notifications[a]) >= Progress(ReadInbox.notifications[a])]_inboxVars
  <2>1. CASE UNCHANGED inboxFile
    <3>1. ReadInbox' = ReadInbox
      BY <2>1 DEF ReadInbox
    <3>2. ReadInbox.notifications \in [InboxAnswers -> NotificationStates]
      BY <1>3, NewestIsRead DEF InboxData
    <3>3. QED
      BY <3>1, <3>2, ProgressRange
  <2>2. ASSUME NEW c \in InboxCallers, WriteBackup(c) \/ WriteMain(c), ~inboxStolen
        PROVE  \A a \in InboxAnswers :
                 Progress(ReadInbox'.notifications[a]) >= Progress(ReadInbox.notifications[a])
    BY <1>3, <2>2, WriteShowsDraft DEF AsMuch
  <2>3. QED
    BY <1>3, <2>1, <2>2
       DEF InboxNext, inboxVars, CallInbox, OpenLock, FillLock, JudgeLock, RemoveStaleLock,
           ReadUnderLock, ReleaseLock, Unlock, Die
<1>4. QED
  BY <1>1, <1>2, <1>3, InboxTypeCorrect, PTL DEF InboxSpec, MarksKept
-----------------------------------------------------------------------------
(* The notification of a client.                                             *)

RowTypes == answers \in [Answers -> AnswerRow]

\* The acknowledgement is the last link of a chain that starts at the agent:
\* the inbox holds what was presented, an ack is sent of what the inbox holds,
\* and delivered_at is set by an ack.
Chain ==
  /\ RowTypes /\ current \in Connections \cup {NoConnection}
  /\ inbox \in [Answers -> {"new", "pending", "delivered"}]
  /\ acks \in [Connections -> SUBSET Answers]
  /\ \A a \in Answers : inbox[a] # "new" => a \in shown
  /\ \A k \in Connections : acks[k] \subseteq shown
  /\ NoSilentDelivery

-----------------------------------------------------------------------------

LEMMA ChainStarts == Init => Chain
BY DEF Init, Chain, RowTypes, AnswerRow, NoSilentDelivery

\* Claiming for a connection touches the claims only.
LEMMA ClaimedRows ==
  ASSUME NEW table \in [Answers -> AnswerRow], NEW k \in Connections, NEW claim
  PROVE  /\ Claimed(table, claim, k) \in [Answers -> AnswerRow]
         /\ \A a \in Answers : Claimed(table, claim, k)[a].delivered = table[a].delivered
BY DEF Claimed, AnswerRow

LEMMA FlushRows ==
  ASSUME RowTypes, NEW k \in Connections, NEW row, Flush(k, row)
  PROVE  RowTypes' /\ \A a \in Answers : answers'[a].delivered = answers[a].delivered
<1>1. PICK claim : answers' = Claimed(answers, claim, k)
  BY DEF Flush
<1>2. QED
  BY <1>1, ClaimedRows DEF RowTypes

\* A step that delivers nothing, presents nothing and sends no ack.
LEMMA QuietKeeps ==
  ASSUME Chain, RowTypes', UNCHANGED <<inbox, shown>>,
         current' \in Connections \cup {NoConnection},
         acks' \in [Connections -> SUBSET Answers],
         \A k \in Connections : acks'[k] \subseteq acks[k],
         \A a \in Answers : answers'[a].delivered => answers[a].delivered
  PROVE  Chain'
BY DEF Chain, NoSilentDelivery

LEMMA StillRows ==
  ASSUME Chain, UNCHANGED <<current, answers, inbox, shown, acks>>
  PROVE  Chain'
BY DEF Chain, RowTypes, NoSilentDelivery

-----------------------------------------------------------------------------

LEMMA ChainConnection ==
  ASSUME Chain, NEW k \in Connections, ConnectionStep(k)
  PROVE  Chain'
<1> USE DEF client, server
<1>r. RowTypes /\ current \in Connections \cup {NoConnection} /\ acks \in [Connections -> SUBSET Answers]
  BY DEF Chain
<1>1. ASSUME NEW agent \in {"working", "idle"}, Register(k, agent) PROVE Chain'
  <2>1. RowTypes' /\ \A a \in Answers : answers'[a].delivered = answers[a].delivered
    BY <1>r, <1>1, FlushRows DEF Register
  <2>2. QED
    BY <1>r, <1>1, <2>1, QuietKeeps DEF Register
<1>2. CASE Heartbeat(k)
  <2>1. RowTypes' /\ \A a \in Answers : answers'[a].delivered = answers[a].delivered
    BY <1>r, <1>2, FlushRows DEF Heartbeat, RowTypes
  <2>2. QED
    BY <1>r, <1>2, <2>1, QuietKeeps DEF Heartbeat
<1>3. CASE SessionUpdate(k)
  <2>1. RowTypes' /\ \A a \in Answers : answers'[a].delivered = answers[a].delivered
    BY <1>r, <1>3, FlushRows DEF SessionUpdate
  <2>2. QED
    BY <1>r, <1>3, <2>1, QuietKeeps DEF SessionUpdate
<1>4. CASE SessionShutdown(k)
  <2>1. PICK claim : answers' = Claimed(answers, claim, k)
    BY <1>4 DEF SessionShutdown
  <2>2. RowTypes' /\ \A a \in Answers : answers'[a].delivered = answers[a].delivered
    BY <1>r, <2>1, ClaimedRows DEF RowTypes
  <2>3. acks' = [acks EXCEPT ![k] = {}] /\ current' = NoConnection /\ UNCHANGED <<inbox, shown>>
    BY <1>4 DEF SessionShutdown
  <2>4. QED
    BY <1>r, <2>2, <2>3, QuietKeeps
<1>5. CASE AgentTurn(k) \/ BeginWait(k) \/ PostboxWait(k) \/ CancelWait(k)
  BY <1>5, StillRows DEF AgentTurn, BeginWait, PostboxWait, CancelWait
<1>6. ASSUME NEW a \in Answers, Present(k, a) PROVE Chain'
  BY <1>6 DEF Present, Chain, RowTypes, NoSilentDelivery
<1>7. ASSUME NEW a \in Answers, Acknowledge(k, a) PROVE Chain'
  BY <1>7 DEF Acknowledge, Chain, RowTypes, NoSilentDelivery
<1>8. ASSUME NEW a \in Answers, InboxFails(k, a) PROVE Chain'
  BY <1>8, StillRows DEF InboxFails
<1>9. ASSUME NEW a \in Answers, NotificationAck(k, a) PROVE Chain'
  <2> DEFINE row == [answers[a] EXCEPT !.delivered = TRUE, !.claim = NoConnection]
  <2>1. /\ a \in acks[k] /\ acks' = [acks EXCEPT ![k] = @ \ {a}] /\ UNCHANGED <<current, inbox, shown>>
        /\ answers' = answers \/ answers' = [answers EXCEPT ![a] = row]
    BY <1>9 DEF NotificationAck
  <2>2. a \in shown
    BY <2>1 DEF Chain
  <2>3. row \in AnswerRow
    BY <1>r DEF RowTypes, AnswerRow
  <2>4. RowTypes' /\ \A b \in Answers \ {a} : answers'[b] = answers[b]
    BY <1>r, <2>1, <2>3 DEF RowTypes
  <2>5. NoSilentDelivery'
    BY <2>1, <2>2, <2>4 DEF Chain, NoSilentDelivery
  <2>6. QED
    BY <2>1, <2>4, <2>5 DEF Chain
<1>10. CASE Vanish(k)
  BY <1>r, <1>10, QuietKeeps DEF Vanish, RowTypes
<1>11. CASE Close(k)
  <2>1. RowTypes' /\ \A a \in Answers : answers'[a].delivered = answers[a].delivered
    BY <1>r, <1>11 DEF Close, RowTypes, AnswerRow
  <2>2. QED
    BY <1>r, <1>11, <2>1, QuietKeeps DEF Close, DisconnectConnection
<1>12. CASE \E a \in Answers : Present(k, a) \/ Acknowledge(k, a) \/ InboxFails(k, a) \/ NotificationAck(k, a)
  BY <1>6, <1>7, <1>8, <1>9, <1>12
<1>13. QED
  BY <1>1, <1>2, <1>3, <1>4, <1>5, <1>10, <1>11, <1>12 DEF ConnectionStep

LEMMA ChainStep == Chain /\ [Next]_vars => Chain'
<1> SUFFICES ASSUME Chain, [Next]_vars PROVE Chain'
  OBVIOUS
<1> USE DEF client, server
<1>r. RowTypes /\ current \in Connections \cup {NoConnection} /\ acks \in [Connections -> SUBSET Answers]
  BY DEF Chain
<1>1. ASSUME NEW a \in Answers, HumanAnswers(a) PROVE Chain'
  <2> DEFINE table == [answers EXCEPT ![a].state = "unread"]
  <2>1. table \in [Answers -> AnswerRow] /\ \A b \in Answers : table[b].delivered = answers[b].delivered
    BY <1>r DEF RowTypes, AnswerRow
  <2>2. PICK claim : answers' = Claimed(table, claim, current) /\ (current = NoConnection => claim = {})
    BY <1>1 DEF HumanAnswers
  <2>3. RowTypes' /\ \A b \in Answers : answers'[b].delivered = answers[b].delivered
    <3>1. CASE claim = {}
      <4>1. Claimed(table, {}, current) = table
        <5> HIDE DEF table
        <5>1. QED
          BY <2>1 DEF Claimed
      <4>2. QED
        BY <2>1, <2>2, <3>1, <4>1 DEF RowTypes
    <3>2. CASE current \in Connections
      <4> HIDE DEF table
      <4>1. QED
        BY <2>1, <2>2, <3>2, ClaimedRows DEF RowTypes
    <3>3. QED
      BY <1>r, <2>2, <3>1, <3>2
  <2>4. QED
    BY <1>1, <1>r, <2>3, QuietKeeps DEF HumanAnswers
<1>2. ASSUME NEW a \in Answers, Withdraw(a) PROVE Chain'
  <2>1. answers' = [answers EXCEPT ![a].state = "withdrawn"]
        /\ UNCHANGED <<current, inbox, shown, acks>>
    BY <1>2 DEF Withdraw
  <2>2. RowTypes' /\ \A b \in Answers : answers'[b].delivered = answers[b].delivered
    BY <1>r, <2>1 DEF RowTypes, AnswerRow
  <2>3. QED
    BY <1>r, <2>1, <2>2, QuietKeeps
<1>3. ASSUME NEW a \in Answers, ReadAnswer(a) PROVE Chain'
  <2>1. answers' = [answers EXCEPT ![a].state = "read"]
        /\ UNCHANGED <<current, inbox, shown, acks>>
    BY <1>3 DEF ReadAnswer
  <2>2. RowTypes' /\ \A b \in Answers : answers'[b].delivered = answers[b].delivered
    BY <1>r, <2>1 DEF RowTypes, AnswerRow
  <2>3. QED
    BY <1>r, <2>1, <2>2, QuietKeeps
<1>4. CASE Age
  BY <1>4, StillRows DEF Age
<1>5. CASE ServerRestart
  BY <1>5, <1>r, QuietKeeps DEF ServerRestart, RowTypes
<1>6. CASE UNCHANGED vars
  BY <1>6, StillRows DEF vars
<1>7. ASSUME NEW a \in Answers, HumanAnswers(a) \/ Withdraw(a) \/ ReadAnswer(a) PROVE Chain'
  BY <1>1, <1>2, <1>3, <1>7
<1>8. QED
  BY <1>4, <1>5, <1>6, <1>7, ChainConnection DEF Next

\* An Answer is recorded as delivered only after onAnswerAvailable was called
\* for it, whatever was claimed by whom, lost, acknowledged twice or restarted
\* (deliverAnswerNotification, RequestStore.acknowledgeAnswerNotification).
THEOREM DeliveredWasShown == Spec => []NoSilentDelivery
<1>1. Chain => NoSilentDelivery
  BY DEF Chain
<1>2. QED
  BY ChainStarts, ChainStep, <1>1, PTL DEF Spec

-----------------------------------------------------------------------------
(* Waits.                                                                    *)

OneAtATime == MaxWaits = 1 /\ ~ManyClients

WaitTypes ==
  /\ current \in Connections \cup {NoConnection}
  /\ blocked \in Connections \cup {NoConnection} /\ tracked \in Connections \cup {NoConnection}
  /\ sockets \in [Connections -> {"unused", "open", "gone", "closed"}]
  /\ clients \in [Connections -> Client]
OneAlive == \A j, k \in Connections : Alive(j) /\ Alive(k) => j = k
Asked == \A k \in Connections : clients[k].asking => clients[k].calls > 0

\* A wait that blocks is the one a replacement would settle, of the connection
\* that is current unless it is gone, and nobody else is connected.
Awaited ==
  blocked # NoConnection =>
    /\ tracked = blocked /\ current \in {blocked, NoConnection}
    /\ \A k \in Connections : Alive(k) => /\ k = blocked /\ current = k
                                          /\ clients[k].calls > 0 /\ ~clients[k].asking

WaitInv == WaitTypes /\ OneAlive /\ Asked /\ Awaited

LEMMA WaitStarts == Init => WaitInv
BY DeliveryAssumption DEF Init, WaitInv, WaitTypes, OneAlive, Asked, Awaited, Alive, Client, Fresh

LEMMA ReleasedClients ==
  ASSUME WaitInv, NEW k \in Connections, Alive(k) => clients[k].calls > 0
  PROVE  /\ Released(k) \in [Connections -> Client]
         /\ \A j \in Connections : Released(k)[j].asking = clients[j].asking
         /\ \A j \in Connections \ {k} : Released(k)[j] = clients[j]
<1> DEFINE told == [clients[k] EXCEPT !.calls = @ - 1, !.telling = TRUE]
<1>1. clients \in [Connections -> Client] /\ MaxWaits \in Nat
  BY DeliveryAssumption DEF WaitInv, WaitTypes
<1>2. CASE Alive(k)
  <2>1. clients[k].calls - 1 \in 0..MaxWaits
    BY <1>1, <1>2 DEF Client
  <2>2. told \in Client /\ told.asking = clients[k].asking
    BY <1>1, <2>1 DEF Client
  <2>3. Released(k) = [clients EXCEPT ![k] = told]
    BY <1>1, <1>2 DEF Released
  <2>4. \A j \in Connections : Released(k)[j] = IF j = k THEN told ELSE clients[j]
    BY <1>1, <2>3
  <2> HIDE DEF told
  <2>5. QED
    BY <1>1, <2>2, <2>3, <2>4
<1>3. CASE ~Alive(k)
  BY <1>1, <1>3 DEF Released
<1>4. QED
  BY <1>2, <1>3

\* A step that leaves the waits and what the clients wait for alone.
LEMMA WaitsUntouched ==
  ASSUME WaitInv, UNCHANGED <<blocked, tracked>>,
         sockets' \in [Connections -> {"unused", "open", "gone", "closed"}],
         \A k \in Connections : Alive(k)' => Alive(k),
         clients' \in [Connections -> Client],
         \A k \in Connections : /\ clients'[k].calls = clients[k].calls
                                /\ clients'[k].asking = clients[k].asking,
         \/ current' = current
         \/ current' = NoConnection /\ \A k \in Connections : ~Alive(k)' \/ blocked = NoConnection
         \/ current = NoConnection /\ current' \in Connections /\ Alive(current')
  PROVE  WaitInv'
BY DEF WaitInv, WaitTypes, OneAlive, Asked, Awaited

\* The end of a wait.
LEMMA WaitEnds ==
  ASSUME WaitInv, Forget, UNCHANGED sockets, current' = current,
         clients' \in [Connections -> Client],
         \A k \in Connections : clients'[k].asking => clients'[k].calls > 0
  PROVE  WaitInv'
BY DEF WaitInv, WaitTypes, OneAlive, Asked, Awaited, Forget, Alive

LEMMA WaitsConnection ==
  ASSUME WaitInv, OneAtATime, NEW k \in Connections, ConnectionStep(k)
  PROVE  WaitInv'
<1> USE DEF client, server
<1>t. /\ current \in Connections \cup {NoConnection}
      /\ blocked \in Connections \cup {NoConnection} /\ tracked \in Connections \cup {NoConnection}
      /\ sockets \in [Connections -> {"unused", "open", "gone", "closed"}]
      /\ clients \in [Connections -> Client]
      /\ MaxWaits = 1 /\ ~ManyClients
  BY DEF WaitInv, WaitTypes, OneAtATime
<1>1. ASSUME NEW agent \in {"working", "idle"}, Register(k, agent) PROVE WaitInv'
  <2>1. /\ \A j \in Connections : ~Alive(j)
        /\ sockets' = [sockets EXCEPT ![k] = "open"] /\ current' = k
    BY <1>1, <1>t DEF Register
  <2>2. Fresh(agent) \in Client /\ ~Fresh(agent).asking
    BY <1>t DEF Fresh, Client
  <2>3. blocked' = NoConnection /\ tracked' \in {tracked, NoConnection} /\ clients' = [clients EXCEPT ![k] = Fresh(agent)]
    <3>1. CASE tracked # NoConnection
      <4>1. Forget /\ clients' = [Released(tracked) EXCEPT ![k] = Fresh(agent)]
        BY <1>1, <3>1 DEF Register
      <4>2. Released(tracked) = clients
        BY <1>t, <2>1, <3>1 DEF Released
      <4>3. QED
        BY <4>1, <4>2 DEF Forget
    <3>2. CASE tracked = NoConnection
      BY <1>1, <3>2 DEF Register, WaitInv, Awaited
    <3>3. QED
      BY <3>1, <3>2
  <2>4. WaitTypes'
    BY <1>t, <2>1, <2>2, <2>3 DEF WaitTypes
  <2>5. OneAlive'
    BY <1>t, <2>1 DEF OneAlive, Alive
  <2>6. Asked'
    BY <1>t, <2>2, <2>3 DEF Asked, WaitInv
  <2>7. QED
    BY <2>3, <2>4, <2>5, <2>6 DEF WaitInv, Awaited
<1>2. CASE Heartbeat(k)
  BY <1>2, <1>t, WaitsUntouched DEF Heartbeat, Alive
<1>3. CASE SessionUpdate(k)
  <2>1. clients' = [clients EXCEPT ![k].telling = FALSE]
        /\ UNCHANGED <<current, blocked, tracked, sockets>>
    BY <1>3 DEF SessionUpdate
  <2>2. clients' \in [Connections -> Client]
    BY <1>t, <2>1 DEF Client
  <2>3. \A j \in Connections : clients'[j].calls = clients[j].calls /\ clients'[j].asking = clients[j].asking
    BY <1>t, <2>1 DEF Client
  <2>4. QED
    BY <1>t, <2>1, <2>2, <2>3, WaitsUntouched DEF Alive
<1>4. CASE AgentTurn(k)
  <2> DEFINE turned == [clients[k] EXCEPT !.agent = IF clients[k].agent = "idle" THEN "working" ELSE "idle",
                                          !.telling = TRUE]
  <2>1. clients' = [clients EXCEPT ![k] = turned] /\ UNCHANGED <<current, blocked, tracked, sockets>>
    BY <1>4 DEF AgentTurn
  <2>2. turned \in Client /\ turned.calls = clients[k].calls /\ turned.asking = clients[k].asking
    BY <1>t DEF Client
  <2> HIDE DEF turned
  <2>3. clients' \in [Connections -> Client]
        /\ \A j \in Connections : clients'[j].calls = clients[j].calls /\ clients'[j].asking = clients[j].asking
    BY <1>t, <2>1, <2>2
  <2>4. QED
    BY <1>t, <2>1, <2>3, WaitsUntouched DEF Alive
<1>5. CASE SessionShutdown(k) \/ Vanish(k)
  <2>1. sockets' = [sockets EXCEPT ![k] = "gone"] /\ UNCHANGED <<blocked, tracked, clients>>
        /\ current' \in {current, NoConnection} /\ Alive(k)
    BY <1>5 DEF SessionShutdown, Vanish
  <2>2. \A j \in Connections : ~Alive(j)'
    BY <1>t, <2>1 DEF WaitInv, OneAlive, Alive
  <2>3. sockets' \in [Connections -> {"unused", "open", "gone", "closed"}]
    BY <1>t, <2>1
  <2>4. QED
    BY <1>t, <2>1, <2>2, <2>3, WaitsUntouched
<1>6. CASE BeginWait(k)
  <2> DEFINE asks == [clients[k] EXCEPT !.calls = clients[k].calls + 1, !.asking = TRUE, !.telling = TRUE]
  <2>1. clients' = [clients EXCEPT ![k] = asks] /\ UNCHANGED <<current, blocked, tracked, sockets>>
        /\ Alive(k) /\ clients[k].calls < MaxWaits
    BY <1>6 DEF BeginWait
  <2>2. asks \in Client /\ asks.calls > 0
    <3>1. clients[k] \in Client /\ clients[k].calls \in Nat /\ clients[k].calls + 1 \in 0..MaxWaits
      BY <1>t, <2>1 DEF Client
    <3>2. asks \in Client
      BY <3>1 DEF Client
    <3>3. asks.calls = clients[k].calls + 1
      BY <3>1 DEF Client
    <3>4. QED
      BY <3>1, <3>2, <3>3
  <2> HIDE DEF asks
  <2>3. clients' \in [Connections -> Client] /\ \A j \in Connections \ {k} : clients'[j] = clients[j]
        /\ clients'[k] = asks
    BY <1>t, <2>1, <2>2
  <2>4. blocked = NoConnection
    BY <1>t, <2>1 DEF WaitInv, Awaited, Client
  <2>5. WaitTypes' /\ OneAlive' /\ Asked'
    BY <1>t, <2>1, <2>2, <2>3 DEF WaitInv, WaitTypes, OneAlive, Asked, Alive
  <2>6. QED
    BY <2>1, <2>4, <2>5 DEF WaitInv, Awaited
<1>7. CASE PostboxWait(k)
  <2>1. Alive(k) /\ clients[k].asking /\ clients[k].calls > 0 /\ UNCHANGED <<current, sockets>>
    BY <1>7 DEF PostboxWait, WaitInv, Asked
  <2>2. blocked = NoConnection
    BY <2>1 DEF WaitInv, Awaited
  <2>3. CASE blocked' = k /\ tracked' = k /\ current = k /\ clients' = [clients EXCEPT ![k].asking = FALSE]
    <3>1. clients' \in [Connections -> Client] /\ clients'[k].calls = clients[k].calls
          /\ ~clients'[k].asking /\ \A j \in Connections \ {k} : clients'[j] = clients[j]
      BY <1>t, <2>3 DEF Client
    <3>2. \A j \in Connections : Alive(j)' => j = k
      BY <2>1 DEF WaitInv, OneAlive, Alive
    <3>3. WaitTypes' /\ OneAlive' /\ Asked'
      BY <1>t, <2>1, <2>3, <3>1, <3>2 DEF WaitInv, WaitTypes, OneAlive, Asked
    <3>4. Awaited'
      BY <2>1, <2>3, <3>1, <3>2 DEF Awaited
    <3>5. QED
      BY <3>3, <3>4 DEF WaitInv
  <2>4. CASE /\ blocked' = blocked /\ tracked' \in {tracked, NoConnection}
            /\ clients' = [Released(k) EXCEPT ![k].asking = FALSE]
    <3>1. /\ Released(k) \in [Connections -> Client]
          /\ \A j \in Connections \ {k} : Released(k)[j] = clients[j]
      BY <2>1, ReleasedClients
    <3>2. clients' \in [Connections -> Client] /\ ~clients'[k].asking
          /\ \A j \in Connections \ {k} : clients'[j] = clients[j]
      BY <2>4, <3>1 DEF Client
    <3>3. WaitTypes' /\ OneAlive' /\ Asked'
      BY <1>t, <2>1, <2>4, <3>2 DEF WaitInv, WaitTypes, OneAlive, Asked, Alive
    <3>4. QED
      BY <2>2, <2>4, <3>3 DEF WaitInv, Awaited
  <2>5. QED
    BY <1>7, <2>3, <2>4 DEF PostboxWait
<1>8. CASE CancelWait(k)
  <2>1. /\ Alive(k) /\ clients[k].calls > 0 /\ ~clients[k].asking
        /\ clients' = Released(k) /\ UNCHANGED <<current, sockets>>
        /\ IF current = k /\ blocked = k THEN Forget ELSE UNCHANGED <<blocked, tracked>>
    BY <1>8 DEF CancelWait
  <2>2. clients' \in [Connections -> Client] /\ \A j \in Connections : clients'[j].asking = clients[j].asking
        /\ \A i \in Connections \ {k} : clients'[i] = clients[i]
    BY <2>1, ReleasedClients
  <2>3. \A j \in Connections : clients'[j].asking => clients'[j].calls > 0
    BY <2>1, <2>2 DEF WaitInv, Asked
  <2>4. CASE blocked = NoConnection
    BY <1>t, <2>1, <2>2, <2>3, <2>4, DeliveryAssumption DEF WaitInv, WaitTypes, OneAlive, Asked, Awaited, Alive
  <2>5. CASE blocked # NoConnection
    <3>1. Forget
      BY <2>1, <2>5 DEF WaitInv, Awaited
    <3>2. QED
      BY <2>1, <2>2, <2>3, <3>1, WaitEnds
  <2>6. QED
    BY <2>4, <2>5
<1>9. ASSUME NEW a \in Answers,
             Present(k, a) \/ Acknowledge(k, a) \/ InboxFails(k, a) \/ NotificationAck(k, a)
      PROVE  WaitInv'
  <2>1. UNCHANGED <<current, blocked, tracked, sockets, clients>>
    BY <1>9 DEF Present, Acknowledge, InboxFails, NotificationAck
  <2>2. QED
    BY <1>t, <2>1, WaitsUntouched DEF Alive
<1>10. CASE Close(k)
  <2>1. /\ sockets' = [sockets EXCEPT ![k] = "closed"] /\ UNCHANGED clients
        /\ IF blocked = k THEN Forget ELSE UNCHANGED <<blocked, tracked>>
        /\ current' = IF current = k THEN NoConnection ELSE current
    BY <1>10 DEF Close, DisconnectConnection
  <2>2. \A j \in Connections : Alive(j)' => Alive(j) /\ j # k
    BY <1>t, <2>1 DEF Alive
  <2>3. WaitTypes' /\ OneAlive' /\ Asked'
    BY <1>t, <2>1, <2>2 DEF WaitInv, WaitTypes, OneAlive, Asked, Forget
  <2>4. Awaited'
    BY <1>t, <2>1, <2>2 DEF WaitInv, Awaited, Forget
  <2>5. QED
    BY <2>3, <2>4 DEF WaitInv
<1>11. QED
  BY <1>1, <1>2, <1>3, <1>4, <1>5, <1>6, <1>7, <1>8, <1>9, <1>10 DEF ConnectionStep

LEMMA WaitStep == WaitInv /\ OneAtATime /\ [Next]_vars => WaitInv'
<1> SUFFICES ASSUME WaitInv, OneAtATime, [Next]_vars PROVE WaitInv'
  OBVIOUS
<1> USE DEF client, server
<1>t. /\ current \in Connections \cup {NoConnection}
      /\ blocked \in Connections \cup {NoConnection}
      /\ sockets \in [Connections -> {"unused", "open", "gone", "closed"}]
      /\ clients \in [Connections -> Client]
  BY DEF WaitInv, WaitTypes
<1>1. ASSUME UNCHANGED <<current, blocked, tracked, sockets, clients>> PROVE WaitInv'
  BY <1>1, <1>t, WaitsUntouched DEF Alive
<1>2. ASSUME UNCHANGED <<current, sockets>>, blocked # NoConnection, Forget, clients' = Released(blocked)
      PROVE  WaitInv'
  <2>1. blocked \in Connections
    BY <1>t, <1>2
  <2>2. Alive(blocked) => clients[blocked].calls > 0 /\ ~clients[blocked].asking
    BY <1>2, <2>1 DEF WaitInv, Awaited
  <2>3. /\ clients' \in [Connections -> Client]
        /\ \A j \in Connections : clients'[j].asking = clients[j].asking
        /\ \A i \in Connections \ {blocked} : clients'[i] = clients[i]
    BY <1>2, <2>1, <2>2, ReleasedClients
  <2>4. ~Alive(blocked) => clients' = clients
    BY <1>2 DEF Released
  <2>5. \A j \in Connections : clients'[j].asking => clients'[j].calls > 0
    BY <2>2, <2>3, <2>4 DEF WaitInv, Asked
  <2>6. QED
    BY <1>2, <2>3, <2>5, WaitEnds
<1>3. ASSUME NEW a \in Answers, HumanAnswers(a) \/ Withdraw(a) PROVE WaitInv'
  <2>1. CASE blocked = NoConnection
    BY <1>1, <1>3, <2>1 DEF HumanAnswers, Withdraw
  <2>2. CASE blocked # NoConnection
    BY <1>2, <1>3, <2>2 DEF HumanAnswers, Withdraw
  <2>3. QED
    BY <2>1, <2>2
<1>4. ASSUME NEW a \in Answers, ReadAnswer(a) PROVE WaitInv'
  BY <1>1, <1>4 DEF ReadAnswer
<1>5. CASE Age
  BY <1>1, <1>5 DEF Age
<1>6. CASE ServerRestart
  <2>1. /\ sockets' = [k \in Connections |-> IF Held(k) THEN "closed" ELSE sockets[k]]
        /\ current' = NoConnection /\ blocked' = NoConnection /\ tracked' = NoConnection
        /\ UNCHANGED clients
    BY <1>6 DEF ServerRestart
  <2>2. \A k \in Connections : ~Alive(k)'
    BY <2>1 DEF Alive, Held
  <2>3. WaitTypes' /\ OneAlive' /\ Asked'
    BY <1>t, <2>1, <2>2 DEF WaitInv, WaitTypes, OneAlive, Asked
  <2>4. QED
    BY <2>1, <2>3 DEF WaitInv, Awaited
<1>7. CASE UNCHANGED vars
  BY <1>1, <1>7 DEF vars
<1>8. ASSUME NEW a \in Answers, HumanAnswers(a) \/ Withdraw(a) \/ ReadAnswer(a) PROVE WaitInv'
  BY <1>3, <1>4, <1>8
<1>9. QED
  BY <1>5, <1>6, <1>7, <1>8, WaitsConnection DEF Next

\* When a connection is replaced, the wait it had is settled with it, so that
\* no wait of a connection that is gone keeps the present one from waiting: with
\* one process at a time, which has one wait_for_postbox call under way, for any
\* number of connections (session.register, postbox.wait, the close handler).
THEOREM NoWaitLeftBehind == OneAtATime => (Spec => []DisplacedWaitSettled)
<1> SUFFICES ASSUME OneAtATime PROVE Spec => []DisplacedWaitSettled
  OBVIOUS
<1>1. WaitInv /\ [Next]_vars => WaitInv'
  BY WaitStep
<1>2. WaitInv => DisplacedWaitSettled
  BY DEF WaitInv, Awaited, DisplacedWaitSettled
<1>3. QED
  BY WaitStarts, <1>1, <1>2, PTL DEF Spec

-----------------------------------------------------------------------------
(* No notification during a wait, whatever clients open the session: nothing  *)
(* is unread while a wait blocks, and the session is known to wait, as long   *)
(* as only its own connection says what it does.                              *)

\* What the server does not ask for: session.update is taken from every
\* connection, and a stray one of a replaced connection hides the wait.
UpdatesAreOwn == \A k \in Connections : SessionUpdate(k) => current = k

RowsKnown == session \in Row /\ prior \in Semantic /\ DOMAIN outbox = Connections
Hushed ==
  /\ blocked # NoConnection => \A a \in Answers : ~Unread(a)
  /\ \A k \in Connections : Sitting(k) /\ current = k => session.semantic = "waiting_for_postbox"
  /\ \A k \in Connections : sockets[k] = "unused" => blocked # k

\* The end of a handler leaves the states of the Answers, and claims what is unread.
LEMMA FlushStates ==
  ASSUME RowTypes, NEW k \in Connections, NEW row, Flush(k, row)
  PROVE  /\ session' = row
         /\ \A a \in Answers : Unread(a)' <=> Unread(a)
         /\ (\A a \in Answers : ~Unread(a)) => outbox' = [outbox EXCEPT ![k] = @ \cup {}]
<1> DEFINE claim == Claimable(k, current', row, answers)
<1>1. session' = row /\ answers' = Claimed(answers, claim, k) /\ outbox' = [outbox EXCEPT ![k] = @ \cup claim]
  BY DEF Flush
<1>2. (\A a \in Answers : ~Unread(a)) => claim = {}
  BY DEF Claimable, Unread
<1> HIDE DEF claim
<1>3. \A a \in Answers : answers'[a].state = answers[a].state
  BY <1>1 DEF Claimed, RowTypes, AnswerRow
<1>4. QED
  BY <1>1, <1>2, <1>3 DEF Unread

LEMMA RowsKnownStep ==
  ASSUME RowsKnown, WaitTypes, [Next]_vars
  PROVE  RowsKnown'
<1> USE DEF client, server
<1>1. \A k \in Connections : Stated(k) \in Semantic
  BY DEF WaitTypes, Client, Stated, Semantic
<1>2. \A s \in Semantic : [session EXCEPT !.semantic = s] \in Row /\ [semantic |-> s, beat |-> "live", down |-> FALSE] \in Row
  BY DEF RowsKnown, Row
<1>3. \A cur : Restored(cur) \in Semantic
  BY DEF Restored, RowsKnown, Row
<1>4. {"working", "idle", "waiting_for_postbox"} \subseteq Semantic
  BY DEF Semantic
<1>5. ASSUME NEW k \in Connections, ConnectionStep(k) PROVE RowsKnown'
  <2>1. ASSUME NEW agent \in {"working", "idle"}, Register(k, agent) PROVE RowsKnown'
    BY <1>2, <1>4, <2>1 DEF Register, Flush, RowsKnown
  <2>2. CASE Heartbeat(k) \/ SessionUpdate(k)
    BY <1>1, <1>2, <2>2 DEF Heartbeat, SessionUpdate, Flush, RowsKnown
  <2>3. CASE SessionShutdown(k)
    <3>1. /\ session' = [[session EXCEPT !.semantic = "idle"] EXCEPT !.down = TRUE] /\ prior' = prior
          /\ \E claim : outbox' = [outbox EXCEPT ![k] = @ \cup claim]
      BY <2>3 DEF SessionShutdown
    <3>2. [[session EXCEPT !.semantic = "idle"] EXCEPT !.down = TRUE] \in Row
      BY <1>4 DEF RowsKnown, Row
    <3>3. QED
      BY <3>1, <3>2 DEF RowsKnown
  <2>4. CASE PostboxWait(k) \/ CancelWait(k)
    BY <1>2, <1>3, <1>4, <2>4 DEF PostboxWait, CancelWait, RowsKnown, Row
  <2>5. CASE AgentTurn(k) \/ BeginWait(k) \/ Vanish(k)
    BY <2>5 DEF AgentTurn, BeginWait, Vanish, RowsKnown
  <2>6. ASSUME NEW a \in Answers,
               Present(k, a) \/ Acknowledge(k, a) \/ InboxFails(k, a) \/ NotificationAck(k, a)
        PROVE  RowsKnown'
    BY <2>6 DEF Present, Acknowledge, InboxFails, NotificationAck, RowsKnown
  <2>7. CASE Close(k)
    BY <2>7 DEF Close, DisconnectConnection, RowsKnown, Row
  <2>8. QED
    BY <1>5, <2>1, <2>2, <2>3, <2>4, <2>5, <2>6, <2>7 DEF ConnectionStep
<1>6. ASSUME NEW a \in Answers, HumanAnswers(a) \/ Withdraw(a) \/ ReadAnswer(a) PROVE RowsKnown'
  BY <1>2, <1>3, <1>6 DEF HumanAnswers, Withdraw, ReadAnswer, RowsKnown
<1>7. CASE Age
  BY <1>7 DEF Age, RowsKnown, Row
<1>8. CASE ServerRestart \/ UNCHANGED vars
  BY <1>8 DEF ServerRestart, vars, RowsKnown
<1>9. QED
  BY <1>5, <1>6, <1>7, <1>8 DEF Next

\* The types need no condition on the clients.
LEMMA ClientsReleased ==
  ASSUME WaitTypes, MaxWaits = 1, NEW k \in Connections
  PROVE  /\ Released(k) \in [Connections -> Client]
         /\ \A j \in Connections : Released(k)[j].asking = clients[j].asking
         /\ \A j \in Connections : Released(k)[j].calls > 0 => clients[j].calls > 0
         /\ Released(k)[k].calls = 0 \/ ~Alive(k)
<1> DEFINE told == [clients[k] EXCEPT !.calls = clients[k].calls - 1, !.telling = TRUE]
<1>1. clients \in [Connections -> Client]
  BY DEF WaitTypes
<1>2. CASE Alive(k) /\ clients[k].calls > 0
  <2>1. clients[k].calls = 1
    BY <1>1, <1>2 DEF Client
  <2>2. told \in Client /\ told.asking = clients[k].asking /\ told.calls = 0
    <3>1. clients[k].calls - 1 = 0 /\ 0 \in 0..MaxWaits /\ clients[k] \in Client
      BY <1>1, <2>1
    <3>2. told = [clients[k] EXCEPT !.calls = 0, !.telling = TRUE]
      BY <3>1
    <3>3. QED
      BY <3>1, <3>2 DEF Client
  <2>3. Released(k) = [clients EXCEPT ![k] = told]
    BY <1>1, <1>2 DEF Released
  <2> HIDE DEF told
  <2>4. \A j \in Connections : Released(k)[j] = IF j = k THEN told ELSE clients[j]
    BY <1>1, <2>3
  <2>5. QED
    BY <1>1, <2>1, <2>2, <2>3, <2>4
<1>3. CASE ~(Alive(k) /\ clients[k].calls > 0)
  BY <1>1, <1>3 DEF Released, Client
<1>4. QED
  BY <1>2, <1>3

LEMMA WaitTypesStep ==
  ASSUME WaitTypes, MaxWaits = 1, [Next]_vars
  PROVE  WaitTypes'
<1> USE DEF client, server
<1>t. /\ current \in Connections \cup {NoConnection}
      /\ blocked \in Connections \cup {NoConnection} /\ tracked \in Connections \cup {NoConnection}
      /\ sockets \in [Connections -> {"unused", "open", "gone", "closed"}]
      /\ clients \in [Connections -> Client]
  BY DEF WaitTypes
<1>1. ASSUME NEW k \in Connections, ConnectionStep(k) PROVE WaitTypes'
  <2>1. ASSUME NEW agent \in {"working", "idle"}, Register(k, agent) PROVE WaitTypes'
    <3>1. Fresh(agent) \in Client
      BY DEF Fresh, Client
    <3>2. clients' \in [Connections -> Client]
      BY <1>t, <2>1, <3>1, ClientsReleased DEF Register
    <3>3. QED
      BY <1>t, <2>1, <3>2 DEF Register, Forget, WaitTypes
  <2>2. CASE Heartbeat(k)
    BY <1>t, <2>2 DEF Heartbeat, WaitTypes
  <2>3. CASE SessionUpdate(k)
    BY <1>t, <2>3 DEF SessionUpdate, WaitTypes, Client
  <2>4. CASE AgentTurn(k)
    <3> DEFINE turned == [clients[k] EXCEPT !.agent = IF clients[k].agent = "idle" THEN "working" ELSE "idle",
                                            !.telling = TRUE]
    <3>1. turned \in Client
      BY <1>t DEF Client
    <3>2. clients' = [clients EXCEPT ![k] = turned]
      BY <2>4 DEF AgentTurn
    <3> HIDE DEF turned
    <3>3. QED
      BY <1>t, <2>4, <3>1, <3>2 DEF AgentTurn, WaitTypes
  <2>5. CASE BeginWait(k)
    <3> DEFINE asks == [clients[k] EXCEPT !.calls = clients[k].calls + 1, !.asking = TRUE, !.telling = TRUE]
    <3>1. clients' = [clients EXCEPT ![k] = asks] /\ clients[k].calls < 1
      BY <2>5 DEF BeginWait
    <3>2. clients[k].calls + 1 \in 0..MaxWaits
      BY <1>t, <3>1 DEF Client
    <3>3. asks \in Client
      BY <1>t, <3>2 DEF Client
    <3> HIDE DEF asks
    <3>4. QED
      BY <1>t, <2>5, <3>1, <3>3 DEF BeginWait, WaitTypes
  <2>6. CASE PostboxWait(k)
    <3>1. [clients EXCEPT ![k].asking = FALSE] \in [Connections -> Client]
      BY <1>t DEF Client
    <3>2. [Released(k) EXCEPT ![k].asking = FALSE] \in [Connections -> Client]
      <4>1. Released(k) \in [Connections -> Client]
        BY ClientsReleased
      <4>2. QED
        BY <4>1 DEF Client
    <3>3. QED
      BY <1>t, <2>6, <3>1, <3>2 DEF PostboxWait, WaitTypes
  <2>7. CASE CancelWait(k)
    BY <1>t, <2>7, ClientsReleased DEF CancelWait, Forget, WaitTypes
  <2>8. CASE SessionShutdown(k) \/ Vanish(k)
    BY <1>t, <2>8 DEF SessionShutdown, Vanish, WaitTypes
  <2>9. ASSUME NEW a \in Answers,
               Present(k, a) \/ Acknowledge(k, a) \/ InboxFails(k, a) \/ NotificationAck(k, a)
        PROVE  WaitTypes'
    BY <1>t, <2>9 DEF Present, Acknowledge, InboxFails, NotificationAck, WaitTypes
  <2>10. CASE Close(k)
    BY <1>t, <2>10 DEF Close, DisconnectConnection, Forget, WaitTypes
  <2>11. QED
    BY <1>1, <2>1, <2>2, <2>3, <2>4, <2>5, <2>6, <2>7, <2>8, <2>9, <2>10 DEF ConnectionStep
<1>2. ASSUME NEW a \in Answers, HumanAnswers(a) \/ Withdraw(a) \/ ReadAnswer(a) PROVE WaitTypes'
  BY <1>t, <1>2, ClientsReleased DEF HumanAnswers, Withdraw, ReadAnswer, Forget, WaitTypes
<1>3. CASE Age \/ UNCHANGED vars
  BY <1>t, <1>3 DEF Age, vars, WaitTypes
<1>4. CASE ServerRestart
  BY <1>t, <1>4 DEF ServerRestart, WaitTypes
<1>5. QED
  BY <1>1, <1>2, <1>3, <1>4 DEF Next

QuietInv == Chain /\ WaitTypes /\ RowsKnown /\ Hushed

\* A wait that goes on: nobody is told, and nothing becomes unread.
QuietStep ==
  /\ \A k \in Connections : Sitting(k) => outbox'[k] \subseteq outbox[k]
  /\ Hushed'

\* What a flush adds while a wait blocks is nothing.
LEMMA NothingAdded ==
  ASSUME QuietInv, outbox' = outbox \/ \E j \in Connections : outbox' = [outbox EXCEPT ![j] = @ \cup {}]
  PROVE  \A k \in Connections : outbox'[k] \subseteq outbox[k]
BY DEF QuietInv, RowsKnown

\* While nothing changes that a wait depends on, it stays quiet.
LEMMA StaysHushed ==
  ASSUME QuietInv, blocked' \in {blocked, NoConnection},
         \A k \in Connections : Sitting(k) => outbox'[k] \subseteq outbox[k],
         \A k \in Connections : sockets'[k] = "unused" => sockets[k] = "unused",
         blocked' # NoConnection =>
           /\ \A a \in Answers : Unread(a)' => Unread(a)
           /\ \A k \in Connections : Sitting(k)' /\ current' = k =>
                \/ session'.semantic = "waiting_for_postbox"
                \/ Sitting(k) /\ current = k /\ session'.semantic = session.semantic
  PROVE  QuietStep
<1>1. \A k \in Connections : Sitting(k)' => blocked' # NoConnection
  BY DeliveryAssumption DEF Sitting
<1>2. \A k \in Connections : Sitting(k)' /\ current' = k => session'.semantic = "waiting_for_postbox"
  BY <1>1 DEF QuietInv, Hushed
<1>3. \A k \in Connections : sockets'[k] = "unused" => blocked' # k
  BY DeliveryAssumption DEF QuietInv, Hushed
<1>4. blocked' # NoConnection => \A a \in Answers : ~Unread(a)'
  BY DEF QuietInv, Hushed
<1>5. QED
  BY <1>2, <1>3, <1>4 DEF QuietStep, Hushed

\* A client that sits in its wait says so.
LEMMA SittingSaysSo == ASSUME NEW k \in Connections, Sitting(k) PROVE Stated(k) = "waiting_for_postbox"
BY DEF Sitting, Stated

LEMMA QuietConnection ==
  ASSUME QuietInv, MaxWaits = 1, UpdatesAreOwn, NEW k \in Connections, ConnectionStep(k)
  PROVE  QuietStep
<1> USE DEF client, server
<1>t. /\ RowTypes /\ WaitTypes /\ clients \in [Connections -> Client] /\ session \in Row
      /\ sockets \in [Connections -> {"unused", "open", "gone", "closed"}]
      /\ DOMAIN outbox = Connections
      /\ blocked # NoConnection => \A a \in Answers : ~Unread(a)
      /\ \A j \in Connections : Sitting(j) => blocked # NoConnection
      /\ \A j \in Connections : sockets[j] = "unused" => blocked # j
  BY DeliveryAssumption DEF QuietInv, Chain, WaitTypes, RowsKnown, Hushed, Sitting
<1>f. ASSUME NEW row, Flush(k, row)
      PROVE  /\ session' = row /\ \A a \in Answers : Unread(a)' <=> Unread(a)
             /\ \A j \in Connections : Sitting(j) => outbox'[j] \subseteq outbox[j]
  <2>1. /\ session' = row /\ \A a \in Answers : Unread(a)' <=> Unread(a)
        /\ (\A a \in Answers : ~Unread(a)) => outbox' = [outbox EXCEPT ![k] = @ \cup {}]
    BY <1>t, <1>f, FlushStates
  <2>2. QED
    BY <1>t, <2>1, NothingAdded
<1>1. ASSUME NEW agent \in {"working", "idle"}, Register(k, agent) PROVE QuietStep
  <2>1. /\ sockets[k] = "unused" /\ sockets' = [sockets EXCEPT ![k] = "open"] /\ current' = k
        /\ Flush(k, [semantic |-> agent, beat |-> "live", down |-> FALSE])
    BY <1>1 DEF Register
  <2>2. blocked' \in {blocked, NoConnection} /\ blocked # k
    BY <1>1, <1>t, <2>1 DEF Register, Forget
  <2>3. blocked' # NoConnection => \A j \in Connections : ~(Sitting(j)' /\ current' = j)
    BY <2>1, <2>2 DEF Sitting
  <2>4. \A j \in Connections : sockets'[j] = "unused" => sockets[j] = "unused"
    BY <1>t, <2>1
  <2>5. QED
    BY <1>f, <2>1, <2>2, <2>3, <2>4, StaysHushed
<1>2. CASE Heartbeat(k)
  <2>1. UNCHANGED <<blocked, sockets, clients>> /\ \A j \in Connections : Sitting(j)' <=> Sitting(j)
    BY <1>2 DEF Heartbeat, Sitting
  <2>2. CASE current \in {k, NoConnection}
    <3>1. current' = k /\ Flush(k, [semantic |-> Stated(k), beat |-> "live", down |-> FALSE])
      BY <1>2, <2>2 DEF Heartbeat
    <3>2. Sitting(k) => session'.semantic = "waiting_for_postbox"
      BY <1>f, <3>1, SittingSaysSo
    <3>3. \A j \in Connections : Sitting(j)' /\ current' = j => session'.semantic = "waiting_for_postbox"
      BY <2>1, <3>1, <3>2
    <3>4. QED
      BY <1>f, <2>1, <3>1, <3>3, StaysHushed
  <2>3. CASE current \notin {k, NoConnection}
    <3>1. UNCHANGED <<current, session, answers, outbox>>
      BY <1>2, <2>3 DEF Heartbeat
    <3>2. QED
      BY <2>1, <3>1, StaysHushed DEF Unread
  <2>4. QED
    BY <2>2, <2>3
<1>3. CASE SessionUpdate(k)
  <2>1. current = k /\ UNCHANGED <<current, blocked, sockets>> /\ clients' = [clients EXCEPT ![k].telling = FALSE]
        /\ Flush(k, [session EXCEPT !.semantic = Stated(k)])
    BY <1>3 DEF SessionUpdate, UpdatesAreOwn
  <2>2. \A j \in Connections : Sitting(j)' <=> Sitting(j)
    BY <1>t, <2>1 DEF Sitting, Client
  <2>3. Sitting(k) => session'.semantic = "waiting_for_postbox"
    BY <1>f, <1>t, <2>1, SittingSaysSo DEF Row
  <2>4. \A j \in Connections : Sitting(j)' /\ current' = j => session'.semantic = "waiting_for_postbox"
    BY <2>1, <2>2, <2>3
  <2>5. QED
    BY <1>f, <2>1, <2>4, StaysHushed
<1>4. CASE SessionShutdown(k)
  <2> DEFINE row == [session EXCEPT !.semantic = "idle"]
             claim == Claimable(k, current, row, answers)
  <2>1. /\ answers' = Claimed(answers, claim, k) /\ outbox' = [outbox EXCEPT ![k] = @ \cup claim]
        /\ current' = NoConnection /\ sockets' = [sockets EXCEPT ![k] = "gone"] /\ UNCHANGED <<blocked, clients>>
    BY <1>4 DEF SessionShutdown
  <2>2. blocked # NoConnection => claim = {}
    BY <1>t DEF Claimable, Unread
  <2> HIDE DEF row, claim
  <2>3. \A a \in Answers : Unread(a)' => Unread(a)
    BY <1>t, <2>1 DEF Claimed, RowTypes, AnswerRow, Unread
  <2>4. \A j \in Connections : Sitting(j) => outbox'[j] \subseteq outbox[j]
    BY <1>t, <2>1, <2>2, NothingAdded
  <2>5. \A j \in Connections : sockets'[j] = "unused" => sockets[j] = "unused"
    BY <1>t, <2>1
  <2>6. QED
    BY <2>1, <2>3, <2>4, <2>5, StaysHushed, DeliveryAssumption
<1>5. CASE AgentTurn(k)
  <2> DEFINE turned == [clients[k] EXCEPT !.agent = IF clients[k].agent = "idle" THEN "working" ELSE "idle",
                                          !.telling = TRUE]
  <2>1. clients' = [clients EXCEPT ![k] = turned] /\ UNCHANGED <<current, session, answers, blocked, sockets, outbox>>
    BY <1>5 DEF AgentTurn
  <2>2. turned.calls = clients[k].calls /\ turned.asking = clients[k].asking
    BY <1>t DEF Client
  <2> HIDE DEF turned
  <2>3. \A j \in Connections : Sitting(j)' <=> Sitting(j)
    BY <1>t, <2>1, <2>2 DEF Sitting
  <2>4. QED
    BY <2>1, <2>3, StaysHushed DEF Unread
<1>6. CASE BeginWait(k)
  <2> DEFINE asks == [clients[k] EXCEPT !.calls = clients[k].calls + 1, !.asking = TRUE, !.telling = TRUE]
  <2>1. clients' = [clients EXCEPT ![k] = asks] /\ UNCHANGED <<current, session, answers, blocked, sockets, outbox>>
    BY <1>6 DEF BeginWait
  <2>2. asks.asking = TRUE
    BY <1>t DEF Client
  <2> HIDE DEF asks
  <2>3. \A j \in Connections : Sitting(j)' => Sitting(j)
    BY <1>t, <2>1, <2>2 DEF Sitting
  <2>4. QED
    BY <2>1, <2>3, StaysHushed DEF Unread
<1>7. CASE PostboxWait(k)
  <2>0. clients[k].asking /\ UNCHANGED <<current, answers, sockets, outbox>>
    BY <1>7 DEF PostboxWait
  <2>1. CASE /\ current = k /\ blocked = NoConnection /\ (\A a \in Answers : ~Unread(a))
             /\ blocked' = k /\ session' = [session EXCEPT !.semantic = "waiting_for_postbox"] /\ Alive(k)
    <3>1. session'.semantic = "waiting_for_postbox" /\ \A a \in Answers : ~Unread(a)'
      BY <1>t, <2>0, <2>1 DEF Row, Unread
    <3>2. sockets'[k] # "unused"
      BY <2>0, <2>1 DEF Alive
    <3>3. Hushed'
      BY <2>1, <3>1, <3>2 DEF Hushed
    <3>4. QED
      BY <2>0, <3>3 DEF QuietStep
  <2>2. CASE UNCHANGED <<blocked, session>> /\ clients' = [Released(k) EXCEPT ![k].asking = FALSE] /\ Alive(k)
    <3>1. /\ Released(k) \in [Connections -> Client] /\ Released(k)[k].calls = 0
          /\ \A j \in Connections : Released(k)[j].asking = clients[j].asking
          /\ \A j \in Connections : Released(k)[j].calls > 0 => clients[j].calls > 0
      BY <1>t, <2>2, ClientsReleased
    <3>2. /\ clients'[k].calls = 0 /\ \A j \in Connections \ {k} : clients'[j] = Released(k)[j]
      BY <2>2, <3>1 DEF Client
    <3>3. \A j \in Connections : Sitting(j)' => Sitting(j)
      BY <2>2, <3>1, <3>2 DEF Sitting
    <3>4. QED
      BY <2>0, <2>2, <3>3, StaysHushed DEF Unread
  <2>3. QED
    BY <1>7, <2>1, <2>2 DEF PostboxWait
<1>8. CASE CancelWait(k)
  <2>1. /\ clients' = Released(k) /\ UNCHANGED <<current, answers, sockets, outbox>>
        /\ blocked' = NoConnection \/ (blocked' = blocked /\ session' = session)
    BY <1>8 DEF CancelWait, Forget
  <2>2. \A j \in Connections : /\ clients'[j].asking = clients[j].asking
                               /\ clients'[j].calls > 0 => clients[j].calls > 0
    BY <1>t, <2>1, ClientsReleased
  <2>3. blocked' = blocked => \A j \in Connections : Sitting(j)' => Sitting(j)
    BY <2>2 DEF Sitting
  <2>4. QED
    BY <2>1, <2>3, StaysHushed DEF Unread
<1>9. ASSUME NEW a \in Answers,
             Present(k, a) \/ Acknowledge(k, a) \/ InboxFails(k, a) \/ NotificationAck(k, a)
      PROVE  QuietStep
  <2>1. UNCHANGED <<current, session, blocked, sockets, clients>>
    BY <1>9 DEF Present, Acknowledge, InboxFails, NotificationAck
  <2>2. \A j \in Connections : outbox'[j] \subseteq outbox[j]
    BY <1>t, <1>9 DEF Present, Acknowledge, InboxFails, NotificationAck
  <2>3. \A b \in Answers : Unread(b)' => Unread(b)
    BY <1>t, <1>9 DEF Present, Acknowledge, InboxFails, NotificationAck, Unread, RowTypes, AnswerRow
  <2>4. QED
    BY <2>1, <2>2, <2>3, StaysHushed DEF Sitting
<1>10. CASE Vanish(k)
  <2>1. UNCHANGED <<current, session, blocked, clients, answers, outbox>>
        /\ sockets' = [sockets EXCEPT ![k] = "gone"]
    BY <1>10 DEF Vanish
  <2>2. QED
    BY <1>t, <2>1, StaysHushed DEF Unread, Sitting
<1>11. CASE Close(k)
  <2>1. /\ blocked' = IF blocked = k THEN NoConnection ELSE blocked
        /\ outbox' = [outbox EXCEPT ![k] = {}] /\ UNCHANGED clients
        /\ sockets' = [sockets EXCEPT ![k] = "closed"]
        /\ current' = NoConnection \/ UNCHANGED <<current, session>>
    BY <1>11 DEF Close, Forget, DisconnectConnection
  <2>2. \A a \in Answers : Unread(a)' => Unread(a)
    BY <1>11, <1>t DEF Close, Unread, RowTypes, AnswerRow
  <2>3. QED
    BY <1>t, <2>1, <2>2, StaysHushed, DeliveryAssumption DEF Sitting
<1>12. CASE \E a \in Answers : Present(k, a) \/ Acknowledge(k, a) \/ InboxFails(k, a) \/ NotificationAck(k, a)
  BY <1>9, <1>12
<1>13. QED
  BY <1>1, <1>2, <1>3, <1>4, <1>5, <1>6, <1>7, <1>8, <1>10, <1>11, <1>12 DEF ConnectionStep

LEMMA QuietNext ==
  ASSUME QuietInv, MaxWaits = 1, [UpdatesAreOwn]_vars, [Next]_vars
  PROVE  QuietStep
<1> USE DEF client, server
<1>t. /\ RowTypes /\ session \in Row /\ DOMAIN outbox = Connections
      /\ sockets \in [Connections -> {"unused", "open", "gone", "closed"}]
      /\ \A k \in Connections : Sitting(k) /\ current = k => session.semantic = "waiting_for_postbox"
  BY DEF QuietInv, Chain, RowsKnown, Hushed, WaitTypes
<1>1. ASSUME NEW a \in Answers, HumanAnswers(a) PROVE QuietStep
  <2> DEFINE claim == IF current = NoConnection THEN {}
                      ELSE Claimable(current, current, session, [answers EXCEPT ![a].state = "unread"])
  <2>1. outbox' = (IF claim = {} THEN outbox ELSE [outbox EXCEPT ![current] = @ \cup claim]) /\ UNCHANGED sockets
    BY <1>1 DEF HumanAnswers
  <2>2. \A k \in Connections : Sitting(k) /\ current = k => claim = {}
    BY <1>t DEF Claimable
  <2>3. blocked' = NoConnection
    BY <1>1 DEF HumanAnswers, Forget
  <2> HIDE DEF claim
  <2>4. \A k \in Connections : Sitting(k) => outbox'[k] \subseteq outbox[k]
    BY <1>t, <2>1, <2>2
  <2>5. QED
    BY <2>1, <2>3, <2>4, StaysHushed
<1>2. ASSUME NEW a \in Answers, Withdraw(a) PROVE QuietStep
  <2>1. blocked' = NoConnection /\ UNCHANGED <<outbox, sockets>>
    BY <1>2 DEF Withdraw, Forget
  <2>2. QED
    BY <2>1, StaysHushed
<1>3. ASSUME NEW a \in Answers, ReadAnswer(a) PROVE QuietStep
  <2>1. \A b \in Answers : Unread(b)' => Unread(b)
    BY <1>t, <1>3 DEF ReadAnswer, RowTypes, AnswerRow, Unread
  <2>2. QED
    BY <1>3, <2>1, StaysHushed DEF ReadAnswer, Sitting
<1>4. CASE Age
  <2>1. session'.semantic = session.semantic
    BY <1>4, <1>t DEF Age, Row
  <2>2. QED
    BY <1>4, <2>1, StaysHushed DEF Age, Unread, Sitting
<1>5. CASE ServerRestart
  <2>1. blocked' = NoConnection /\ outbox' = [j \in Connections |-> {}]
        /\ sockets' = [k \in Connections |-> IF Held(k) THEN "closed" ELSE sockets[k]]
    BY <1>5 DEF ServerRestart
  <2>2. \A k \in Connections : sockets'[k] = "unused" => sockets[k] = "unused"
    BY <1>t, <2>1
  <2>3. QED
    BY <2>1, <2>2, StaysHushed
<1>6. CASE UNCHANGED vars
  BY <1>6, StaysHushed DEF vars, Unread, Sitting
<1>7. ASSUME NEW a \in Answers, HumanAnswers(a) \/ Withdraw(a) \/ ReadAnswer(a) PROVE QuietStep
  BY <1>1, <1>2, <1>3, <1>7
<1>8. CASE UpdatesAreOwn /\ \E k \in Connections : ConnectionStep(k)
  BY <1>8, QuietConnection
<1>9. QED
  BY <1>4, <1>5, <1>6, <1>7, <1>8 DEF Next

\* Whatever clients open the session, an agent that sits in its wait is told by
\* the result of that wait and by nothing else, as long as no session.update is
\* taken from a connection that is not the current one: such an update is the only
\* way past it (flushAnswerNotifications, postbox.wait, extensionSocket.ts:454).
THEOREM WaitsAreQuiet == MaxWaits = 1 => (Spec /\ [][UpdatesAreOwn]_vars => QuietWhileWaiting)
<1> SUFFICES ASSUME MaxWaits = 1 PROVE Spec /\ [][UpdatesAreOwn]_vars => QuietWhileWaiting
  OBVIOUS
<1>1. Init => QuietInv
  <2>1. Init => RowsKnown /\ Hushed
    BY DeliveryAssumption DEF Init, Unregistered, RowsKnown, Row, Semantic, Hushed, Sitting
  <2>2. QED
    BY <2>1, ChainStarts, WaitStarts DEF QuietInv, WaitInv
<1>2. QuietInv /\ [Next]_vars /\ [UpdatesAreOwn]_vars => QuietInv' /\ QuietStep
  BY ChainStep, WaitTypesStep, RowsKnownStep, QuietNext DEF QuietInv, QuietStep
<1>3. QuietInv /\ [Next]_vars /\ [UpdatesAreOwn]_vars =>
        [\A k \in Connections : Sitting(k) => outbox'[k] \subseteq outbox[k]]_vars
  BY <1>2 DEF QuietStep
<1>4. QED
  BY <1>1, <1>2, <1>3, PTL DEF Spec, QuietWhileWaiting

-----------------------------------------------------------------------------
(* The turn of the agent.  What the branch, the queue of Pi and the           *)
(* coordinator say of an Answer agree, whoever of them forgets.               *)

WakeTypes ==
  /\ wakeInbox \in [WakeAnswers -> {"unknown", "pending", "delivered"}]
  /\ wakeJobs \subseteq Jobs /\ wakeReg \in 1..MaxRegistrations
  /\ wakePending \subseteq WakeAnswers /\ wakeQueued \subseteq WakeAnswers
  /\ branch \in Seq(Entries) /\ piQueue \in Seq(SUBSET WakeAnswers)
  /\ recorded \subseteq WakeAnswers /\ clears \in Nat /\ moves \in Nat

InQueue(queue) == UNION {queue[i] : i \in DOMAIN queue}

\* Everything the session knows of was recorded, and only the deliveries of the
\* current registration are under way.
AllRecorded ==
  /\ wakePending \cup wakeQueued \cup InQueue(piQueue) \subseteq recorded
  /\ \A kind \in {"intent", "sent", "message"} : InBranch(branch, kind) \subseteq recorded
  /\ \A j \in wakeJobs :
       j.reg = wakeReg /\ (j.stage \in {"mark", "ack"} => j.answer \in recorded)
  /\ WakeRecorded

\* What Pi has queued is noted as sent and was not delivered, no two messages
\* are about one Answer, and what is pending meanwhile has its intent, so that
\* a refresh takes the queued for waiting.
Disjoint(queue) == \A i, j \in DOMAIN queue : queue[i] \cap queue[j] # {} => i = j
QueueFresh ==
  /\ Disjoint(piQueue) /\ WokenOnce
  /\ InQueue(piQueue) \subseteq InBranch(branch, "sent") \ InBranch(branch, "message")
  /\ piQueue # <<>> => wakePending \subseteq InBranch(branch, "intent")

\* Without a human's intervention what is sent has its intent, and an Answer
\* that is sent and not delivered is in Pi's queue, unless that is empty and
\* the Answer pending again.
NothingLost ==
  clears + moves = 0 =>
    /\ InBranch(branch, "sent") \cup wakePending \subseteq InBranch(branch, "intent")
    /\ InBranch(branch, "intent") \ InBranch(branch, "message") \subseteq wakePending \cup InQueue(piQueue)
    /\ piQueue # <<>> => InBranch(branch, "sent") \ InBranch(branch, "message") \subseteq InQueue(piQueue)

WakeInv == WakeTypes /\ AllRecorded /\ QueueFresh /\ NothingLost

LEMMA BranchMember ==
  ASSUME NEW b, NEW kind, NEW a
  PROVE  a \in InBranch(b, kind) <=> \E i \in DOMAIN b : b[i].kind = kind /\ a \in b[i].ids
BY DEF InBranch

LEMMA BranchAppended ==
  ASSUME NEW b \in Seq(Entries), NEW e \in Entries, NEW kind
  PROVE  InBranch(Append(b, e), kind) = InBranch(b, kind) \cup (IF e.kind = kind THEN e.ids ELSE {})
<1>1. /\ DOMAIN Append(b, e) = DOMAIN b \cup {Len(b) + 1} /\ Append(b, e)[Len(b) + 1] = e
      /\ \A i \in DOMAIN b : Append(b, e)[i] = b[i]
  OBVIOUS
<1>2. ASSUME NEW a
      PROVE  a \in InBranch(Append(b, e), kind)
               <=> a \in InBranch(b, kind) \/ (e.kind = kind /\ a \in e.ids)
  <2> HIDE DEF Entries
  <2>1. a \in InBranch(Append(b, e), kind)
          <=> \E i \in DOMAIN Append(b, e) : Append(b, e)[i].kind = kind /\ a \in Append(b, e)[i].ids
    BY BranchMember
  <2>2. QED
    BY <1>1, <2>1, BranchMember
<1>3. QED
  BY <1>2

LEMMA BranchCut ==
  ASSUME NEW b \in Seq(Entries), NEW n \in 0..Len(b), NEW kind
  PROVE  /\ SubSeq(b, 1, n) \in Seq(Entries)
         /\ InBranch(SubSeq(b, 1, n), kind) \subseteq InBranch(b, kind)
<1>1. /\ SubSeq(b, 1, n) \in Seq(Entries) /\ DOMAIN SubSeq(b, 1, n) \subseteq DOMAIN b
      /\ \A i \in DOMAIN SubSeq(b, 1, n) : SubSeq(b, 1, n)[i] = b[i]
  OBVIOUS
<1>2. ASSUME NEW a \in InBranch(SubSeq(b, 1, n), kind) PROVE a \in InBranch(b, kind)
  <2>1. PICK i \in DOMAIN SubSeq(b, 1, n) : SubSeq(b, 1, n)[i].kind = kind /\ a \in SubSeq(b, 1, n)[i].ids
    BY <1>2 DEF InBranch
  <2>2. i \in DOMAIN b /\ b[i].kind = kind /\ a \in b[i].ids
    BY <1>1, <2>1
  <2>3. QED
    BY <2>2 DEF InBranch
<1>3. QED
  BY <1>1, <1>2

LEMMA QueueAppended ==
  ASSUME NEW queue \in Seq(SUBSET WakeAnswers), NEW ids \in SUBSET WakeAnswers
  PROVE  /\ Append(queue, ids) \in Seq(SUBSET WakeAnswers) /\ Append(queue, ids) # <<>>
         /\ InQueue(Append(queue, ids)) = InQueue(queue) \cup ids
         /\ Disjoint(queue) /\ ids \cap InQueue(queue) = {} => Disjoint(Append(queue, ids))
<1>1. /\ Append(queue, ids) \in Seq(SUBSET WakeAnswers) /\ Append(queue, ids) # <<>>
      /\ DOMAIN Append(queue, ids) = DOMAIN queue \cup {Len(queue) + 1}
      /\ Append(queue, ids)[Len(queue) + 1] = ids /\ Len(queue) + 1 \notin DOMAIN queue
      /\ \A i \in DOMAIN queue : Append(queue, ids)[i] = queue[i]
  OBVIOUS
<1>2. InQueue(Append(queue, ids)) = InQueue(queue) \cup ids
  BY <1>1 DEF InQueue
<1>3. ASSUME Disjoint(queue), ids \cap InQueue(queue) = {} PROVE Disjoint(Append(queue, ids))
  <2>1. \A i \in DOMAIN queue : queue[i] \cap ids = {}
    BY <1>3 DEF InQueue
  <2>2. QED
    BY <1>1, <1>3, <2>1 DEF Disjoint
<1>4. QED
  BY <1>1, <1>2, <1>3

LEMMA QueueServed ==
  ASSUME NEW queue \in Seq(SUBSET WakeAnswers), queue # <<>>, Disjoint(queue)
  PROVE  /\ Tail(queue) \in Seq(SUBSET WakeAnswers) /\ Head(queue) \in SUBSET WakeAnswers
         /\ Disjoint(Tail(queue)) /\ Head(queue) \cap InQueue(Tail(queue)) = {}
         /\ InQueue(queue) = Head(queue) \cup InQueue(Tail(queue))
<1>1. /\ Tail(queue) \in Seq(SUBSET WakeAnswers) /\ Head(queue) = queue[1]
      /\ Len(queue) \in Nat /\ Len(queue) >= 1 /\ DOMAIN queue = 1..Len(queue)
      /\ DOMAIN Tail(queue) = 1..Len(queue) - 1
      /\ \A i \in 1..Len(queue) - 1 : Tail(queue)[i] = queue[i + 1]
      /\ Head(queue) \in SUBSET WakeAnswers
  OBVIOUS
<1>2. \A i \in DOMAIN Tail(queue) : i + 1 \in DOMAIN queue /\ i + 1 # 1 /\ Tail(queue)[i] = queue[i + 1]
  BY <1>1
<1>3. \A i \in DOMAIN queue : i = 1 \/ (i - 1 \in DOMAIN Tail(queue) /\ Tail(queue)[i - 1] = queue[i])
  <2>1. SUFFICES ASSUME NEW i \in DOMAIN queue, i # 1
                 PROVE  i - 1 \in DOMAIN Tail(queue) /\ Tail(queue)[i - 1] = queue[i]
    OBVIOUS
  <2>2. i - 1 \in 1..Len(queue) - 1 /\ (i - 1) + 1 = i
    BY <1>1, <2>1
  <2>3. QED
    BY <1>1, <2>2
<1>4. 1 \in DOMAIN queue
  BY <1>1
<1>5. Disjoint(Tail(queue))
  <2>1. SUFFICES ASSUME NEW i \in DOMAIN Tail(queue), NEW j \in DOMAIN Tail(queue),
                        Tail(queue)[i] \cap Tail(queue)[j] # {}
                 PROVE  i = j
    BY DEF Disjoint
  <2>2. i + 1 = j + 1
    BY <1>2, <2>1 DEF Disjoint
  <2>3. QED
    BY <1>1, <2>2
<1>6. Head(queue) \cap InQueue(Tail(queue)) = {}
  BY <1>1, <1>2, <1>4 DEF Disjoint, InQueue
<1>7. InQueue(queue) = Head(queue) \cup InQueue(Tail(queue))
  <2>1. ASSUME NEW a \in InQueue(queue) PROVE a \in Head(queue) \cup InQueue(Tail(queue))
    BY <1>1, <1>3 DEF InQueue
  <2>2. ASSUME NEW a \in InQueue(Tail(queue)) PROVE a \in InQueue(queue)
    BY <1>2 DEF InQueue
  <2>3. QED
    BY <1>1, <1>4, <2>1, <2>2 DEF InQueue
<1>8. QED
  BY <1>1, <1>5, <1>6, <1>7

\* A message about Answers of which the branch has none yet.
LEMMA WokenOnceMore ==
  ASSUME WakeTypes, WokenOnce, NEW ids \in SUBSET WakeAnswers, NEW kind \in {"intent", "sent", "message"},
         branch' = Append(branch, Entry(kind, ids)),
         kind = "message" => ids \cap InBranch(branch, "message") = {}
  PROVE  WokenOnce'
<1>1. /\ DOMAIN branch' = DOMAIN branch \cup {Len(branch) + 1}
      /\ branch'[Len(branch) + 1] = Entry(kind, ids)
      /\ \A i \in DOMAIN branch : branch'[i] = branch[i]
  BY DEF WakeTypes
<1>2. Entry(kind, ids).kind = kind /\ Entry(kind, ids).ids = ids
  BY DEF Entry
<1>3. \A i \in DOMAIN branch :
        kind = "message" /\ branch[i].kind = "message" => branch[i].ids \cap ids = {}
  BY BranchMember
<1>4. QED
  BY <1>1, <1>2, <1>3 DEF WokenOnce

LEMMA RefreshTells ==
  ASSUME WakeTypes, AllRecorded, QueueFresh, NothingLost
  PROVE  LET now == Refreshed(branch)
         IN /\ now.pending \subseteq WakeAnswers /\ now.queued \subseteq WakeAnswers
            /\ now.pending \cup now.queued \subseteq recorded
            /\ now.pending \cap (InBranch(branch, "message") \cup InQueue(piQueue)) = {}
            /\ piQueue # <<>> => now.pending \subseteq InBranch(branch, "intent")
            /\ piQueue = <<>> =>
                 InBranch(branch, "intent") \ InBranch(branch, "message") \subseteq now.pending
            /\ clears + moves = 0 =>
                 /\ now.pending \subseteq InBranch(branch, "intent")
                 /\ InBranch(branch, "intent") \ InBranch(branch, "message")
                      \subseteq now.pending \cup InQueue(piQueue)
<1> DEFINE now == Refreshed(branch)
           completed == InBranch(branch, "message")
           intents == InBranch(branch, "intent")
           sent == InBranch(branch, "sent")
           open == intents \ completed
           waiting == IF piQueue = <<>> THEN {} ELSE open \cap sent
           again == open \ waiting
           queue == InQueue(piQueue)
<1>1. /\ now.pending = (wakePending \ (completed \cup waiting)) \cup again
      /\ now.queued = (wakeQueued \ (completed \cup again)) \cup waiting
  BY DEF Refreshed
<1>2. /\ wakePending \subseteq WakeAnswers /\ wakeQueued \subseteq WakeAnswers
      /\ recorded \subseteq WakeAnswers
      /\ wakePending \cup wakeQueued \cup queue \subseteq recorded /\ intents \subseteq recorded
  BY DEF WakeTypes, AllRecorded
<1>3. /\ queue \subseteq sent \ completed
      /\ piQueue # <<>> => wakePending \subseteq intents
      /\ piQueue = <<>> => queue = {}
  BY DEF QueueFresh, InQueue
<1>4. clears + moves = 0 =>
        /\ sent \cup wakePending \subseteq intents /\ open \subseteq wakePending \cup queue
        /\ piQueue # <<>> => sent \ completed \subseteq queue
  BY DEF NothingLost
<1> HIDE DEF now, completed, intents, sent, queue
<1>5. now.pending \cap (completed \cup queue) = {}
  BY <1>1, <1>3
<1>6. /\ piQueue # <<>> => now.pending \subseteq intents
      /\ piQueue = <<>> => open \subseteq now.pending
      /\ clears + moves = 0 => now.pending \subseteq intents /\ open \subseteq now.pending \cup queue
  BY <1>1, <1>3, <1>4
<1>7. /\ now.pending \subseteq WakeAnswers /\ now.queued \subseteq WakeAnswers
      /\ now.pending \cup now.queued \subseteq recorded
  BY <1>1, <1>2
<1>8. QED
  BY <1>5, <1>6, <1>7 DEF now, completed, intents, sent, queue

\* A new registration goes by the branch; after a crash without Pi's queue.
LEMMA RecoveryTells ==
  ASSUME WakeInv, NEW queue, queue = piQueue \/ queue = <<>>, Recover(branch, queue),
         piQueue' = queue,
         UNCHANGED <<wakeInbox, branch, recorded, human>>,
         wakeReg' \in 1..MaxRegistrations, wakeJobs' = {}
  PROVE  WakeInv'
<1> DEFINE completed == InBranch(branch, "message")
           intents == InBranch(branch, "intent")
           sent == InBranch(branch, "sent")
           open == intents \ completed
           waiting == IF queue = <<>> THEN {} ELSE open \cap sent
<1>1. wakePending' = open \ waiting /\ wakeQueued' = waiting /\ open \subseteq recorded
      /\ recorded \subseteq WakeAnswers
  BY DEF Recover, WakeInv, AllRecorded, WakeTypes
<1>2. /\ queue \in Seq(SUBSET WakeAnswers) /\ InQueue(queue) \subseteq InQueue(piQueue)
      /\ Disjoint(queue) /\ (queue = <<>> => InQueue(queue) = {})
      /\ queue # <<>> => queue = piQueue
  <2>1. InQueue(<<>>) = {} /\ Disjoint(<<>>) /\ <<>> \in Seq(SUBSET WakeAnswers)
    BY DEF InQueue, Disjoint
  <2>2. piQueue \in Seq(SUBSET WakeAnswers) /\ Disjoint(piQueue)
    BY DEF WakeInv, WakeTypes, QueueFresh
  <2>3. QED
    BY <2>1, <2>2
<1>3. WakeTypes'
  BY <1>1, <1>2 DEF WakeInv, WakeTypes, human
<1>4. AllRecorded'
  <2>1. wakePending' \cup wakeQueued' \cup InQueue(piQueue') \subseteq recorded
    BY <1>1, <1>2 DEF WakeInv, AllRecorded
  <2>2. QED
    BY <2>1 DEF WakeInv, AllRecorded, WakeRecorded, InQueue
<1>5. QueueFresh'
  <2>1. InQueue(queue) \subseteq sent \ completed /\ wakePending' \subseteq intents
    BY <1>1, <1>2 DEF WakeInv, QueueFresh
  <2>2. WokenOnce'
    BY DEF WakeInv, QueueFresh, WokenOnce
  <2>3. Disjoint(piQueue)' /\ InQueue(piQueue)' = InQueue(queue)
    BY <1>2 DEF Disjoint, InQueue
  <2>4. QED
    BY <2>1, <2>2, <2>3 DEF QueueFresh
<1>6. NothingLost'
  <2>1. SUFFICES ASSUME clears + moves = 0 PROVE NothingLost'
    BY DEF NothingLost, human
  <2>2. /\ sent \subseteq intents
        /\ piQueue # <<>> => sent \ completed \subseteq InQueue(piQueue)
    BY <2>1 DEF WakeInv, NothingLost
  <2>3. wakePending' \subseteq intents /\ open \subseteq wakePending' \cup InQueue(queue)
        /\ (queue # <<>> => sent \ completed \subseteq InQueue(queue))
    BY <1>1, <1>2, <2>2
  <2>4. InQueue(piQueue)' = InQueue(queue)
    BY DEF InQueue
  <2>5. QED
    BY <2>2, <2>3, <2>4 DEF NothingLost
<1>7. QED
  BY <1>3, <1>4, <1>5, <1>6 DEF WakeInv

\* The deliveries alone; the agent hears nothing.
LEMMA DeliverySteps ==
  ASSUME WakeInv, UNCHANGED <<wakeReg, coordinator, branch, piQueue, recorded, human>>,
         wakeJobs' \subseteq Jobs,
         \A j \in wakeJobs' : j.reg = wakeReg /\ (j.stage \in {"mark", "ack"} => j.answer \in recorded),
         \A a \in WakeAnswers :
           \/ wakeInbox'[a] = wakeInbox[a] \/ wakeInbox'[a] = "pending"
           \/ wakeInbox'[a] = "delivered" /\ a \in recorded,
         wakeInbox' \in [WakeAnswers -> {"unknown", "pending", "delivered"}]
  PROVE  WakeInv'
<1> USE DEF coordinator, human
<1>1. WakeTypes'
  BY DEF WakeInv, WakeTypes
<1>2. AllRecorded'
  <2>1. WakeRecorded'
    BY DEF WakeInv, AllRecorded, WakeRecorded
  <2>2. QED
    BY <2>1 DEF WakeInv, AllRecorded, InQueue, InBranch
<1>3. QueueFresh'
  BY DEF WakeInv, QueueFresh, Disjoint, WokenOnce, InQueue, InBranch
<1>4. NothingLost'
  BY DEF WakeInv, NothingLost, InQueue, InBranch
<1>5. QED
  BY <1>1, <1>2, <1>3, <1>4 DEF WakeInv

LEMMA Notified ==
  ASSUME WakeInv, NEW a \in WakeAnswers, Notify(a), UNCHANGED <<wakeInbox, wakeReg, piQueue, human>>,
         wakeJobs' \subseteq Jobs,
         \A j \in wakeJobs' :
           j.reg = wakeReg /\ (j.stage \in {"mark", "ack"} => j.answer \in recorded \cup {a})
  PROVE  WakeInv'
<1> DEFINE now == Refreshed(branch)
           completed == InBranch(branch, "message")
           intents == InBranch(branch, "intent")
           sent == InBranch(branch, "sent")
           queue == InQueue(piQueue)
           known == a \in now.pending \cup now.queued \cup completed
<1>1. /\ now.pending \subseteq WakeAnswers /\ now.queued \subseteq WakeAnswers
      /\ now.pending \cup now.queued \subseteq recorded
      /\ now.pending \cap (completed \cup queue) = {}
      /\ piQueue # <<>> => now.pending \subseteq intents
      /\ clears + moves = 0 => now.pending \subseteq intents /\ intents \ completed \subseteq now.pending \cup queue
  BY RefreshTells DEF WakeInv
<1>2. /\ wakePending' = IF known THEN now.pending ELSE now.pending \cup {a}
      /\ wakeQueued' = now.queued
      /\ branch' = IF known THEN branch ELSE Append(branch, Entry("intent", {a}))
      /\ recorded' = IF known THEN recorded ELSE recorded \cup {a}
  BY DEF Notify
<1> HIDE DEF now
<1>3. branch \in Seq(Entries) /\ Entry("intent", {a}) \in Entries
      /\ Entry("intent", {a}).kind = "intent" /\ Entry("intent", {a}).ids = {a}
      /\ recorded \subseteq WakeAnswers
  BY DEF WakeInv, WakeTypes, Entries, Entry
<1>4. /\ InBranch(branch', "message") = completed /\ InBranch(branch', "sent") = sent
      /\ InBranch(branch', "intent") = intents \cup (IF known THEN {} ELSE {a})
      /\ branch' \in Seq(Entries)
  <2>1. CASE known
    BY <1>2, <1>3, <2>1
  <2>2. CASE ~known
    <3>1. branch' = Append(branch, Entry("intent", {a}))
      BY <1>2, <2>2
    <3> HIDE DEF known
    <3>2. \A kind : InBranch(branch', kind)
             = InBranch(branch, kind) \cup (IF "intent" = kind THEN {a} ELSE {})
      <4> DEFINE e == Entry("intent", {a})
      <4>1. branch \in Seq(Entries) /\ e \in Entries /\ e.kind = "intent" /\ e.ids = {a}
        BY <1>3
      <4> HIDE DEF e
      <4>2. \A kind : InBranch(Append(branch, e), kind)
               = InBranch(branch, kind) \cup (IF e.kind = kind THEN e.ids ELSE {})
        BY <4>1, BranchAppended
      <4>3. QED
        BY <3>1, <4>1, <4>2 DEF e
    <3>3. branch' \in Seq(Entries)
      BY <1>3, <3>1
    <3>4. InBranch(branch', "message") = completed
      BY <3>2, "message" # "intent"
    <3>5. InBranch(branch', "sent") = sent
      BY <3>2, "sent" # "intent"
    <3>6. InBranch(branch', "intent") = intents \cup {a}
      BY <3>2
    <3>7. QED
      BY <2>2, <3>3, <3>4, <3>5, <3>6
  <2>3. QED
    BY <2>1, <2>2
<1>5. completed \cup intents \cup sent \cup queue \subseteq recorded
  BY DEF WakeInv, AllRecorded
<1>6. a \in recorded'
  BY <1>1, <1>2, <1>5
<1>7. queue \subseteq sent \ completed /\ InQueue(piQueue)' = queue
  BY DEF WakeInv, QueueFresh, InQueue
<1>8. /\ recorded' \subseteq WakeAnswers /\ recorded \subseteq recorded'
      /\ wakePending' \subseteq now.pending \cup (IF known THEN {} ELSE {a})
      /\ wakePending' \subseteq recorded' /\ wakePending' \subseteq WakeAnswers
      /\ now.pending \subseteq wakePending' /\ (~known => a \in wakePending')
  BY <1>1, <1>2, <1>3
<1> HIDE DEF completed, intents, sent, queue, known
<1>9. WakeTypes'
  BY <1>1, <1>2, <1>4, <1>8 DEF WakeInv, WakeTypes, human
<1>10. AllRecorded'
  <2>1. WakeRecorded'
    BY <1>8 DEF WakeInv, AllRecorded, WakeRecorded
  <2>2. \A kind \in {"intent", "sent", "message"} : InBranch(branch', kind) \subseteq recorded'
    BY <1>4, <1>5, <1>6, <1>8
  <2>3. wakePending' \cup wakeQueued' \cup InQueue(piQueue)' \subseteq recorded'
    BY <1>1, <1>2, <1>5, <1>7, <1>8
  <2>4. \A j \in wakeJobs' : j.stage \in {"mark", "ack"} => j.answer \in recorded'
    BY <1>6, <1>8
  <2>5. QED
    BY <2>1, <2>2, <2>3, <2>4 DEF AllRecorded
<1>11. QueueFresh'
  <2>1. WokenOnce'
    <3>1. CASE known
      BY <1>2, <3>1 DEF WakeInv, QueueFresh, WokenOnce
    <3>2. CASE ~known
      <4>1. /\ WakeTypes /\ WokenOnce /\ {a} \in SUBSET WakeAnswers
            /\ branch' = Append(branch, Entry("intent", {a}))
        BY <1>2, <3>2 DEF WakeInv, QueueFresh
      <4>2. QED
        BY <4>1, WokenOnceMore
    <3>3. QED
      BY <3>1, <3>2
  <2>2. Disjoint(piQueue)'
    BY DEF WakeInv, QueueFresh, Disjoint
  <2>3. piQueue' # <<>> => wakePending' \subseteq InBranch(branch', "intent")
    BY <1>1, <1>4, <1>8
  <2>4. InQueue(piQueue)' \subseteq InBranch(branch', "sent") \ InBranch(branch', "message")
    BY <1>4, <1>7
  <2>5. QED
    BY <2>1, <2>2, <2>3, <2>4 DEF QueueFresh
<1>12. NothingLost'
  <2>1. SUFFICES ASSUME clears + moves = 0 PROVE NothingLost'
    BY DEF NothingLost, human
  <2>2. /\ sent \subseteq intents
        /\ piQueue # <<>> => sent \ completed \subseteq queue
    BY <2>1 DEF WakeInv, NothingLost, completed, sent, intents, queue
  <2>3. InBranch(branch', "sent") \cup wakePending' \subseteq InBranch(branch', "intent")
    BY <1>1, <1>4, <1>8, <2>1, <2>2
  <2>4. InBranch(branch', "intent") \ InBranch(branch', "message") \subseteq wakePending' \cup InQueue(piQueue)'
    BY <1>1, <1>4, <1>7, <1>8, <2>1
  <2>5. piQueue' # <<>> => InBranch(branch', "sent") \ InBranch(branch', "message") \subseteq InQueue(piQueue)'
    BY <1>4, <1>7, <2>2
  <2>6. QED
    BY <2>3, <2>4, <2>5 DEF NothingLost
<1>13. QED
  BY <1>9, <1>10, <1>11, <1>12 DEF WakeInv

LEMMA Flushed ==
  ASSUME WakeInv, FlushWakes
  PROVE  WakeInv'
<1> DEFINE now == Refreshed(branch)
           completed == InBranch(branch, "message")
           intents == InBranch(branch, "intent")
           sent == InBranch(branch, "sent")
           queue == InQueue(piQueue)
<1>1. /\ now.pending \subseteq WakeAnswers /\ now.queued \subseteq WakeAnswers
      /\ now.pending \cup now.queued \subseteq recorded
      /\ now.pending \cap (completed \cup queue) = {}
      /\ piQueue # <<>> => now.pending \subseteq intents
      /\ piQueue = <<>> => intents \ completed \subseteq now.pending
      /\ clears + moves = 0 => now.pending \subseteq intents /\ intents \ completed \subseteq now.pending \cup queue
  BY RefreshTells DEF WakeInv
<1>2. UNCHANGED <<wakeInbox, wakeJobs, wakeReg, recorded, clears, moves>>
  BY DEF FlushWakes, human
<1>3. \/ /\ wakePending' = {} /\ wakeQueued' = now.queued \cup now.pending
         /\ piQueue' = Append(piQueue, now.pending) /\ branch' = Append(branch, Entry("sent", now.pending))
      \/ wakePending' = now.pending /\ wakeQueued' = now.queued /\ UNCHANGED <<piQueue, branch>>
  BY DEF FlushWakes
<1> DEFINE ids == now.pending
           e == Entry("sent", ids)
<1>4. /\ branch \in Seq(Entries) /\ e \in Entries /\ e.kind = "sent" /\ e.ids = ids
      /\ piQueue \in Seq(SUBSET WakeAnswers) /\ Disjoint(piQueue) /\ ids \in SUBSET WakeAnswers
  BY <1>1 DEF WakeInv, WakeTypes, QueueFresh, Entries, Entry
<1> HIDE DEF now, e
<1>5. CASE branch' = Append(branch, e) /\ piQueue' = Append(piQueue, ids)
           /\ wakePending' = {} /\ wakeQueued' = now.queued \cup ids
  <2>1. \A kind : InBranch(branch', kind) = InBranch(branch, kind) \cup (IF "sent" = kind THEN ids ELSE {})
    <3>1. \A kind : InBranch(Append(branch, e), kind)
             = InBranch(branch, kind) \cup (IF e.kind = kind THEN e.ids ELSE {})
      BY <1>4, BranchAppended
    <3>2. QED
      BY <1>4, <1>5, <3>1
  <2>2. /\ piQueue' \in Seq(SUBSET WakeAnswers) /\ piQueue' # <<>>
        /\ InQueue(piQueue') = queue \cup ids /\ Disjoint(piQueue')
    BY <1>1, <1>4, <1>5, QueueAppended
  <2>3. InBranch(branch', "message") = completed
    BY <2>1, "message" # "sent"
  <2>4. InBranch(branch', "intent") = intents
    BY <2>1, "intent" # "sent"
  <2>5. InBranch(branch', "sent") = sent \cup ids
    BY <2>1
  <2>6. branch' \in Seq(Entries)
    BY <1>4, <1>5
  <2>7. completed \cup intents \cup sent \cup queue \subseteq recorded
    BY DEF WakeInv, AllRecorded
  <2>8. queue \subseteq sent \ completed
    BY DEF WakeInv, QueueFresh
  <2>9. WokenOnce'
    <3>1. /\ WakeTypes /\ WokenOnce /\ ids \in SUBSET WakeAnswers /\ branch' = Append(branch, Entry("sent", ids))
      BY <1>4, <1>5 DEF WakeInv, QueueFresh, e
    <3> HIDE DEF ids
    <3>2. QED
      BY <3>1, WokenOnceMore, "message" # "sent"
  <2> HIDE DEF completed, intents, sent, queue, ids
  <2>10. WakeTypes'
    BY <1>1, <1>2, <1>5, <2>2, <2>6 DEF WakeInv, WakeTypes, ids
  <2>11. AllRecorded'
    <3>1. wakePending' \cup wakeQueued' \cup InQueue(piQueue)' \subseteq recorded'
      BY <1>1, <1>2, <1>5, <2>2, <2>7 DEF ids
    <3>2. \A kind \in {"intent", "sent", "message"} : InBranch(branch', kind) \subseteq recorded'
      BY <1>1, <1>2, <2>3, <2>4, <2>5, <2>7 DEF ids
    <3>3. WakeRecorded'
      BY <1>2 DEF WakeInv, AllRecorded, WakeRecorded
    <3>4. QED
      BY <1>2, <3>1, <3>2, <3>3 DEF WakeInv, AllRecorded
  <2>12. QueueFresh'
    <3>1. InQueue(piQueue)' \subseteq InBranch(branch', "sent") \ InBranch(branch', "message")
      BY <1>1, <2>2, <2>3, <2>5, <2>8 DEF ids
    <3>2. QED
      BY <1>5, <2>2, <2>9, <3>1 DEF QueueFresh
  <2>13. NothingLost'
    <3>1. SUFFICES ASSUME clears + moves = 0 PROVE NothingLost'
      BY <1>2 DEF NothingLost
    <3>2. /\ sent \subseteq intents
          /\ piQueue # <<>> => sent \ completed \subseteq queue
      BY <3>1 DEF WakeInv, NothingLost, completed, sent, intents, queue
    <3>3. InBranch(branch', "sent") \cup wakePending' \subseteq InBranch(branch', "intent")
      BY <1>1, <1>5, <2>4, <2>5, <3>1, <3>2 DEF ids
    <3>4. InBranch(branch', "intent") \ InBranch(branch', "message") \subseteq wakePending' \cup InQueue(piQueue)'
      BY <1>1, <2>2, <2>3, <2>4, <3>1 DEF ids
    <3>5. InBranch(branch', "sent") \ InBranch(branch', "message") \subseteq InQueue(piQueue)'
      BY <1>1, <2>2, <2>3, <2>5, <3>2 DEF ids
    <3>6. QED
      BY <3>3, <3>4, <3>5 DEF NothingLost
  <2>14. QED
    BY <2>10, <2>11, <2>12, <2>13 DEF WakeInv
<1>6. CASE wakePending' = ids /\ wakeQueued' = now.queued /\ UNCHANGED <<piQueue, branch>>
  <2>1. WakeTypes'
    BY <1>1, <1>2, <1>6 DEF WakeInv, WakeTypes
  <2>2. AllRecorded'
    BY <1>1, <1>2, <1>6 DEF WakeInv, AllRecorded, WakeRecorded, InQueue, InBranch
  <2>3. QueueFresh'
    BY <1>1, <1>6 DEF WakeInv, QueueFresh, InQueue, Disjoint, WokenOnce
  <2>4. NothingLost'
    BY <1>1, <1>2, <1>6 DEF WakeInv, NothingLost, InQueue
  <2>5. QED
    BY <2>1, <2>2, <2>3, <2>4 DEF WakeInv
<1>7. QED
  BY <1>3, <1>5, <1>6 DEF e

LEMMA PiDelivered ==
  ASSUME WakeInv, PiDelivers
  PROVE  WakeInv'
<1> DEFINE ids == Head(piQueue)
           e == Entry("message", ids)
           completed == InBranch(branch, "message")
           intents == InBranch(branch, "intent")
           sent == InBranch(branch, "sent")
           queue == InQueue(piQueue)
           rest == InQueue(Tail(piQueue))
<1>1. /\ piQueue # <<>> /\ piQueue' = Tail(piQueue) /\ branch' = Append(branch, Entry("message", ids))
      /\ UNCHANGED <<wakeInbox, wakeAcked, wakeJobs, wakeReg, coordinator, recorded, human>>
  BY DEF PiDelivers
<1>2. /\ WakeTypes /\ WokenOnce /\ piQueue \in Seq(SUBSET WakeAnswers) /\ Disjoint(piQueue)
      /\ branch \in Seq(Entries) /\ queue \subseteq sent \ completed /\ wakePending \subseteq intents
  BY <1>1 DEF WakeInv, WakeTypes, QueueFresh
<1>3. /\ piQueue' \in Seq(SUBSET WakeAnswers) /\ ids \in SUBSET WakeAnswers
      /\ Disjoint(piQueue') /\ ids \cap rest = {} /\ queue = ids \cup rest
      /\ InQueue(piQueue') = rest
  BY <1>1, <1>2, QueueServed
<1>4. e \in Entries /\ e.kind = "message" /\ e.ids = ids
  BY <1>3 DEF Entries, Entry
<1>5. WokenOnce'
  <2> HIDE DEF ids
  <2>1. ids \cap InBranch(branch, "message") = {}
    BY <1>2, <1>3
  <2>2. QED
    BY <1>1, <1>2, <1>3, <2>1, WokenOnceMore
<1>6. \A kind : InBranch(branch', kind) = InBranch(branch, kind) \cup (IF "message" = kind THEN ids ELSE {})
  <2> HIDE DEF e
  <2>1. \A kind : InBranch(Append(branch, e), kind)
           = InBranch(branch, kind) \cup (IF e.kind = kind THEN e.ids ELSE {})
    BY <1>2, <1>4, BranchAppended
  <2>2. QED
    BY <1>1, <1>4, <2>1 DEF e
<1>7. branch' \in Seq(Entries)
  BY <1>1, <1>2, <1>4
<1>8. InBranch(branch', "message") = completed \cup ids
  BY <1>6
<1>9. InBranch(branch', "sent") = sent
  BY <1>6, "sent" # "message"
<1>10. InBranch(branch', "intent") = intents
  BY <1>6, "intent" # "message"
<1>11. completed \cup intents \cup sent \cup queue \subseteq recorded
  BY DEF WakeInv, AllRecorded
<1> HIDE DEF completed, intents, sent, queue, rest, ids
<1>12. WakeTypes'
  BY <1>1, <1>2, <1>3, <1>7 DEF WakeTypes, coordinator, human
<1>13. AllRecorded'
  <2>1. wakePending' \cup wakeQueued' \cup InQueue(piQueue)' \subseteq recorded'
    BY <1>1, <1>3, <1>11 DEF WakeInv, AllRecorded, coordinator
  <2>2. \A kind \in {"intent", "sent", "message"} : InBranch(branch', kind) \subseteq recorded'
    BY <1>1, <1>3, <1>8, <1>9, <1>10, <1>11
  <2>3. WakeRecorded'
    BY <1>1 DEF WakeInv, AllRecorded, WakeRecorded
  <2>4. QED
    BY <1>1, <2>1, <2>2, <2>3 DEF WakeInv, AllRecorded
<1>14. QueueFresh'
  <2>1. InQueue(piQueue)' \subseteq InBranch(branch', "sent") \ InBranch(branch', "message")
    BY <1>2, <1>3, <1>8, <1>9
  <2>2. wakePending' \subseteq InBranch(branch', "intent")
    BY <1>1, <1>2, <1>10 DEF coordinator
  <2>3. QED
    BY <1>3, <1>5, <2>1, <2>2 DEF QueueFresh
<1>15. NothingLost'
  <2>1. SUFFICES ASSUME clears + moves = 0 PROVE NothingLost'
    BY <1>1 DEF NothingLost, human
  <2>2. /\ sent \subseteq intents /\ intents \ completed \subseteq wakePending \cup queue
        /\ sent \ completed \subseteq queue
    BY <1>1, <2>1 DEF WakeInv, NothingLost, completed, sent, intents, queue
  <2>3. InBranch(branch', "sent") \cup wakePending' \subseteq InBranch(branch', "intent")
    BY <1>1, <1>2, <1>9, <1>10, <2>2 DEF coordinator
  <2>4. InBranch(branch', "intent") \ InBranch(branch', "message") \subseteq wakePending' \cup InQueue(piQueue)'
    BY <1>1, <1>3, <1>8, <1>10, <2>2 DEF coordinator
  <2>5. InBranch(branch', "sent") \ InBranch(branch', "message") \subseteq InQueue(piQueue)'
    BY <1>3, <1>8, <1>9, <2>2
  <2>6. QED
    BY <2>3, <2>4, <2>5 DEF NothingLost
<1>16. QED
  BY <1>12, <1>13, <1>14, <1>15 DEF WakeInv

\* A human clears the queue, or goes back to an earlier entry.
LEMMA HumanSteps ==
  ASSUME WakeInv, ClearQueue \/ Navigate
  PROVE  WakeInv'
<1>1. clears \in Nat /\ moves \in Nat /\ piQueue \in Seq(SUBSET WakeAnswers) /\ branch \in Seq(Entries)
  BY DEF WakeInv, WakeTypes
<1>2. /\ UNCHANGED <<wakeInbox, wakeJobs, wakeReg, wakePending, wakeQueued, recorded>>
      /\ clears' \in Nat /\ moves' \in Nat /\ clears' + moves' # 0
      /\ piQueue' = <<>>
      /\ branch' = branch \/ \E n \in 0..Len(branch) : branch' = SubSeq(branch, 1, n)
  BY <1>1 DEF ClearQueue, Navigate, coordinator
<1>3. piQueue' \in Seq(SUBSET WakeAnswers) /\ InQueue(piQueue)' = {} /\ Disjoint(piQueue)'
  BY <1>2 DEF InQueue, Disjoint
<1>4. branch' \in Seq(Entries) /\ \A kind : InBranch(branch', kind) \subseteq InBranch(branch, kind)
  BY <1>1, <1>2, BranchCut
<1>5. WokenOnce'
  <2>1. DOMAIN branch' \subseteq DOMAIN branch /\ \A i \in DOMAIN branch' : branch'[i] = branch[i]
    BY <1>1, <1>2
  <2>2. QED
    BY <2>1 DEF WakeInv, QueueFresh, WokenOnce
<1>6. WakeTypes'
  BY <1>2, <1>3, <1>4 DEF WakeInv, WakeTypes
<1>7. AllRecorded'
  BY <1>2, <1>3, <1>4 DEF WakeInv, AllRecorded, WakeRecorded
<1>8. QueueFresh' /\ NothingLost'
  BY <1>2, <1>3, <1>5 DEF QueueFresh, NothingLost
<1>9. QED
  BY <1>6, <1>7, <1>8 DEF WakeInv

LEMMA WakeStarts == WakeInit => WakeInv
<1> SUFFICES ASSUME WakeInit PROVE WakeInv
  OBVIOUS
<1>1. \A kind : InBranch(branch, kind) = {}
  BY DEF WakeInit, InBranch
<1>2. InQueue(piQueue) = {} /\ Disjoint(piQueue) /\ WokenOnce
  BY DEF WakeInit, InQueue, Disjoint, WokenOnce
<1>3. WakeTypes
  BY WakeAssumption DEF WakeInit, WakeTypes
<1>4. AllRecorded
  BY <1>1, <1>2 DEF WakeInit, AllRecorded, WakeRecorded
<1>5. QueueFresh /\ NothingLost
  BY <1>1, <1>2 DEF WakeInit, QueueFresh, NothingLost
<1>6. QED
  BY <1>3, <1>4, <1>5 DEF WakeInv

LEMMA WakeStep == ~HandoverMidDelivery /\ WakeInv /\ [WakeNext]_wakeVars => WakeInv'
<1> SUFFICES ASSUME ~HandoverMidDelivery, WakeInv, [WakeNext]_wakeVars PROVE WakeInv'
  OBVIOUS
<1>1. /\ wakeJobs \subseteq Jobs /\ wakeReg \in 1..MaxRegistrations
      /\ wakeInbox \in [WakeAnswers -> {"unknown", "pending", "delivered"}]
      /\ \A j \in wakeJobs : j.reg = wakeReg /\ (j.stage \in {"mark", "ack"} => j.answer \in recorded)
      /\ WakeRecorded
  BY DEF WakeInv, WakeTypes, AllRecorded
<1>2. ASSUME NEW a \in WakeAnswers, ReceiveAnswer(a) PROVE WakeInv'
  <2>1. /\ wakeJobs' = wakeJobs \cup {[reg |-> wakeReg, answer |-> a, stage |-> "received"]}
        /\ UNCHANGED <<wakeInbox, wakeReg, coordinator, branch, piQueue, recorded, human>>
    BY <1>2 DEF ReceiveAnswer
  <2>2. /\ wakeJobs' \subseteq Jobs
        /\ \A j \in wakeJobs' : j.reg = wakeReg /\ (j.stage \in {"mark", "ack"} => j.answer \in recorded)
    BY <1>1, <2>1 DEF Jobs
  <2>3. QED
    BY <1>1, <2>1, <2>2, DeliverySteps
<1>3. ASSUME NEW j \in wakeJobs, BeginDelivery(j) PROVE WakeInv'
  <2>1. j \in Jobs /\ j.answer \in WakeAnswers
    BY <1>1 DEF Jobs
  <2>2. UNCHANGED <<wakeReg, coordinator, branch, piQueue, recorded, human>>
    BY <1>3 DEF BeginDelivery
  <2>3. CASE /\ wakeInbox[j.answer] = "delivered" /\ UNCHANGED wakeInbox
             /\ wakeJobs' = (wakeJobs \ {j}) \cup {[j EXCEPT !.stage = "ack"]}
    <3>1. j.answer \in recorded
      BY <1>1, <2>1, <2>3 DEF WakeRecorded
    <3>2. /\ wakeJobs' \subseteq Jobs
          /\ \A k \in wakeJobs' : k.reg = wakeReg /\ (k.stage \in {"mark", "ack"} => k.answer \in recorded)
      BY <1>1, <2>1, <2>3, <3>1 DEF Jobs
    <3>3. QED
      BY <1>1, <2>2, <2>3, <3>2, DeliverySteps
  <2>4. CASE /\ wakeInbox' = [wakeInbox EXCEPT ![j.answer] = "pending"]
             /\ wakeJobs' = (wakeJobs \ {j}) \cup {[j EXCEPT !.stage = "tell"]}
    <3>1. /\ wakeJobs' \subseteq Jobs
          /\ \A k \in wakeJobs' : k.reg = wakeReg /\ (k.stage \in {"mark", "ack"} => k.answer \in recorded)
      BY <1>1, <2>1, <2>4 DEF Jobs
    <3>2. /\ wakeInbox' \in [WakeAnswers -> {"unknown", "pending", "delivered"}]
          /\ \A a \in WakeAnswers : wakeInbox'[a] = wakeInbox[a] \/ wakeInbox'[a] = "pending"
      BY <1>1, <2>1, <2>4
    <3>3. QED
      BY <2>2, <3>1, <3>2, DeliverySteps
  <2>5. QED
    BY <1>3, <2>3, <2>4 DEF BeginDelivery, Advance
<1>4. ASSUME NEW j \in wakeJobs, TellAgent(j) PROVE WakeInv'
  <2>1. j \in Jobs /\ j.answer \in WakeAnswers /\ j.reg = wakeReg
    BY <1>1 DEF Jobs
  <2>2. /\ wakeJobs' = (wakeJobs \ {j}) \cup {[j EXCEPT !.stage = "mark"]} /\ Notify(j.answer)
        /\ UNCHANGED <<wakeInbox, wakeReg, piQueue, human>>
    BY <1>4, <2>1 DEF TellAgent, Advance
  <2>3. /\ wakeJobs' \subseteq Jobs
        /\ \A k \in wakeJobs' :
             k.reg = wakeReg /\ (k.stage \in {"mark", "ack"} => k.answer \in recorded \cup {j.answer})
    BY <1>1, <2>1, <2>2 DEF Jobs
  <2>4. QED
    BY <2>1, <2>2, <2>3, Notified
<1>5. ASSUME NEW j \in wakeJobs, MarkDelivered(j) PROVE WakeInv'
  <2>1. j \in Jobs /\ j.answer \in WakeAnswers /\ j.answer \in recorded
    BY <1>1, <1>5 DEF Jobs, MarkDelivered
  <2>2. /\ UNCHANGED <<wakeReg, coordinator, branch, piQueue, recorded, human>>
        /\ \/ /\ wakeJobs' = (wakeJobs \ {j}) \cup {[j EXCEPT !.stage = "ack"]}
              /\ wakeInbox' = [wakeInbox EXCEPT ![j.answer] = "delivered"]
           \/ wakeJobs' = wakeJobs \ {j} /\ UNCHANGED wakeInbox
    BY <1>5 DEF MarkDelivered, Advance
  <2>3. /\ wakeJobs' \subseteq Jobs
        /\ \A k \in wakeJobs' : k.reg = wakeReg /\ (k.stage \in {"mark", "ack"} => k.answer \in recorded)
    BY <1>1, <2>1, <2>2 DEF Jobs
  <2>4. /\ wakeInbox' \in [WakeAnswers -> {"unknown", "pending", "delivered"}]
        /\ \A a \in WakeAnswers :
             wakeInbox'[a] = wakeInbox[a] \/ (wakeInbox'[a] = "delivered" /\ a \in recorded)
    BY <1>1, <2>1, <2>2
  <2>5. QED
    BY <2>2, <2>3, <2>4, DeliverySteps
<1>6. ASSUME NEW j \in wakeJobs, AckDelivery(j) PROVE WakeInv'
  <2>1. /\ wakeJobs' = wakeJobs \ {j}
        /\ UNCHANGED <<wakeInbox, wakeReg, coordinator, branch, piQueue, recorded, human>>
    BY <1>6 DEF AckDelivery
  <2>2. QED
    BY <1>1, <2>1, DeliverySteps
<1>7. CASE Reregister
  BY <1>1, <1>7, WakeAssumption, RecoveryTells DEF Reregister
<1>8. CASE CrashSession
  BY <1>1, <1>8, WakeAssumption, RecoveryTells DEF CrashSession
<1>9. CASE UNCHANGED wakeVars
  <2>1. UNCHANGED <<wakeInbox, wakeJobs, wakeReg, coordinator, branch, piQueue, recorded, human>>
    BY <1>9 DEF wakeVars, coordinator, human
  <2>2. QED
    BY <1>1, <2>1, DeliverySteps
<1>10. QED
  BY <1>2, <1>3, <1>4, <1>5, <1>6, <1>7, <1>8, <1>9, Flushed, PiDelivered, HumanSteps DEF WakeNext

\* As long as no registration is replaced in the middle of a delivery, an
\* Answer the inbox has let go of has its intent in the session, is announced
\* once on a branch, and is forgotten by nobody but the human.
THEOREM AnswersWakeOnce == ~HandoverMidDelivery => (WakeSpec => []WakeSound)
<1> SUFFICES ASSUME ~HandoverMidDelivery PROVE WakeSpec => []WakeSound
  OBVIOUS
<1>1. ASSUME WakeInv PROVE WakeSound
  <2>1. WakeRecorded /\ WokenOnce
    BY <1>1 DEF WakeInv, AllRecorded, QueueFresh
  <2>2. ASSUME NEW a \in InBranch(branch, "intent") \ InBranch(branch, "message"), ~(clears + moves > 0)
        PROVE  a \in wakePending \/ \E i \in DOMAIN piQueue : a \in piQueue[i]
    <3>1. clears + moves = 0
      BY <1>1, <2>2 DEF WakeInv, WakeTypes
    <3>2. a \in wakePending \cup InQueue(piQueue)
      BY <1>1, <2>2, <3>1 DEF WakeInv, NothingLost
    <3>3. QED
      BY <3>2 DEF InQueue
  <2>3. QED
    BY <2>1, <2>2 DEF WakeSound, WakeNotForgotten
<1>2. WakeInv /\ [WakeNext]_wakeVars => WakeInv'
  BY WakeStep
<1>3. QED
  BY <1>1, <1>2, WakeStarts, PTL DEF WakeSpec
=============================================================================
