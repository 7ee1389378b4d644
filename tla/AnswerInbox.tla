----------------------------- MODULE AnswerInbox -----------------------------
(* FileAnswerNotificationInbox: the record of which Answers an agent has been *)
(* told about, one file for all Pi Sessions of a profile.  Two copies of it,  *)
(* the newest generation counts; a lock file, created exclusively, orders the *)
(* writers, and a lock whose owner is dead is taken away.  Every system call  *)
(* of a process is one step, and a process may die between two of them.       *)
EXTENDS Naturals, FiniteSets

CONSTANTS
  InboxCallers,    \* processes, one call at a time each
  InboxAnswers,
  NoLock,          \* there is no lock file
  MaxInboxCalls,   \* calls of a process (model checking only)
  MaxDeaths,       \* processes that die (model checking only)
  SlowLockWrite    \* writing a lock file may take longer than a second

ASSUME InboxAssumption ==
  /\ InboxAnswers # {}
  /\ NoLock \notin [holder : InboxCallers, written : BOOLEAN]
  /\ MaxInboxCalls \in Nat /\ MaxDeaths \in Nat
  /\ SlowLockWrite \in BOOLEAN

VARIABLES
  inboxLock,   \* the lock file: its holder, and whether it has contents yet
  inboxFile,   \* the copies "main" and "backup": generation and state per Answer
  inboxPc,     \* where each process is in withLock
  inboxOp,     \* begin or markDelivered, and of which Answer
  inboxDraft,  \* what the process is about to write
  inboxBegun,  \* the Answers each process has begun
  inboxCalls,  \* calls made
  inboxStolen  \* history: a process inside has lost its lock file to another, and
               \* not all who were inside since have left

inboxVars == <<inboxLock, inboxFile, inboxPc, inboxOp, inboxDraft, inboxBegun, inboxCalls, inboxStolen>>

\* Definitions named Slip... are faulty variants of the one that follows, used
\* by no specification: a property has to notice each of them.

NotificationStates == {"unknown", "pending", "delivered"}
InboxData == [generation : Nat, notifications : [InboxAnswers -> NotificationStates]]
InboxOps == [mark : BOOLEAN, answer : InboxAnswers]
NoData == [generation |-> 0, notifications |-> [a \in InboxAnswers |-> "unknown"]]

\* read: the main copy unless the backup is of a later generation.
ReadInbox ==
  IF inboxFile["backup"].generation > inboxFile["main"].generation
  THEN inboxFile["backup"] ELSE inboxFile["main"]

InboxInit ==
  /\ inboxLock = NoLock
  /\ inboxFile = [copy \in {"main", "backup"} |-> NoData]
  /\ inboxPc = [c \in InboxCallers |-> "idle"]
  /\ inboxOp \in [InboxCallers -> {[mark |-> FALSE, answer |-> CHOOSE a \in InboxAnswers : TRUE]}]
  /\ inboxDraft = [c \in InboxCallers |-> NoData]
  /\ inboxBegun = [c \in InboxCallers |-> {}]
  /\ inboxCalls = [c \in InboxCallers |-> 0]
  /\ inboxStolen = FALSE

\* Alive, and between having created a lock file and having written both copies.
Inside == {c \in InboxCallers : inboxPc[c] \in {"fill", "read", "backup", "main"}}

At(c, from, to) == inboxPc[c] = from /\ inboxPc' = [inboxPc EXCEPT ![c] = to]

\* The file goes, whoever created it.
RemoveLock ==
  /\ inboxLock' = NoLock
  /\ inboxStolen' = (inboxStolen \/ (inboxLock # NoLock /\ inboxLock.holder \in Inside))

\* Once nobody is inside, the next to enter is alone again.
LeaveLock(c) == inboxStolen' = (inboxStolen /\ Inside \ {c} # {})

\* begin, or markDelivered of an Answer this process began.
CallInbox(c) ==
  /\ At(c, "idle", "open")
  /\ inboxCalls[c] < MaxInboxCalls
  /\ inboxCalls' = [inboxCalls EXCEPT ![c] = @ + 1]
  /\ \E op \in InboxOps :
       /\ op.mark => op.answer \in inboxBegun[c]
       /\ inboxOp' = [inboxOp EXCEPT ![c] = op]
  /\ UNCHANGED <<inboxLock, inboxFile, inboxDraft, inboxBegun, inboxStolen>>

\* Created exclusively, or found to exist.
SlipOpenLock(c) ==
  /\ At(c, "open", "fill")
  /\ inboxLock' = [holder |-> c, written |-> FALSE]
  /\ UNCHANGED <<inboxFile, inboxOp, inboxDraft, inboxBegun, inboxCalls, inboxStolen>>
OpenLock(c) ==
  /\ inboxPc[c] = "open"
  /\ IF inboxLock = NoLock
     THEN /\ inboxLock' = [holder |-> c, written |-> FALSE]
          /\ inboxPc' = [inboxPc EXCEPT ![c] = "fill"]
     ELSE /\ inboxPc' = [inboxPc EXCEPT ![c] = "judge"]
          /\ UNCHANGED inboxLock
  /\ UNCHANGED <<inboxFile, inboxOp, inboxDraft, inboxBegun, inboxCalls, inboxStolen>>

\* The contents go to the file that was opened, if it is still there.
FillLock(c) ==
  /\ At(c, "fill", "read")
  /\ inboxLock' = IF inboxLock # NoLock /\ inboxLock.holder = c
                  THEN [inboxLock EXCEPT !.written = TRUE] ELSE inboxLock
  /\ UNCHANGED <<inboxFile, inboxOp, inboxDraft, inboxBegun, inboxCalls, inboxStolen>>

Dead == {c \in InboxCallers : inboxPc[c] = "dead"}

\* lockIsReclaimable: its process is gone, or it has been unreadable for a
\* second, or it is not there any more.
Reclaimable ==
  inboxLock # NoLock =>
    IF inboxLock.written THEN inboxLock.holder \in Dead
    ELSE inboxLock.holder \in Dead \/ SlowLockWrite

\* The lock is read in one call and removed in a later one; a live lock, or one
\* that is unreadable and young, is tried again, or given up at the deadline.
JudgeLock(c) ==
  /\ \/ Reclaimable /\ At(c, "judge", "remove")
     \/ /\ inboxLock # NoLock /\ (inboxLock.written => inboxLock.holder \notin Dead)
        /\ At(c, "judge", "open") \/ At(c, "judge", "idle")
  /\ UNCHANGED <<inboxLock, inboxFile, inboxOp, inboxDraft, inboxBegun, inboxCalls, inboxStolen>>

RemoveStaleLock(c) ==
  /\ At(c, "remove", "open")
  /\ RemoveLock
  /\ UNCHANGED <<inboxFile, inboxOp, inboxDraft, inboxBegun, inboxCalls>>

\* begin of a known Answer writes nothing.
SlipReadUnderLock(c) ==
  /\ At(c, "read", "backup")
  /\ LET a == inboxOp[c].answer
         state == IF inboxOp[c].mark THEN "delivered" ELSE "pending"
     IN /\ inboxDraft' = [inboxDraft EXCEPT ![c] =
             [generation |-> inboxFile["main"].generation + 1,
              notifications |-> [inboxFile["main"].notifications EXCEPT ![a] = state]]]
        /\ inboxBegun' = [inboxBegun EXCEPT ![c] = @ \cup {a}]
  /\ UNCHANGED <<inboxLock, inboxFile, inboxOp, inboxCalls, inboxStolen>>
ReadUnderLock(c) ==
  /\ LET a == inboxOp[c].answer
         known == ~inboxOp[c].mark /\ ReadInbox.notifications[a] # "unknown"
         state == IF inboxOp[c].mark THEN "delivered" ELSE "pending"
     IN /\ \/ known /\ At(c, "read", "release") /\ LeaveLock(c) /\ UNCHANGED inboxDraft
           \/ /\ ~known /\ At(c, "read", "backup") /\ UNCHANGED inboxStolen
              /\ inboxDraft' = [inboxDraft EXCEPT ![c] =
                   [generation |-> ReadInbox.generation + 1,
                    notifications |-> [ReadInbox.notifications EXCEPT ![a] = state]]]
        /\ inboxBegun' = [inboxBegun EXCEPT ![c] = @ \cup {a}]
  /\ UNCHANGED <<inboxLock, inboxFile, inboxOp, inboxCalls>>

\* writeNext: the backup first; each copy is replaced by a rename.
WriteBackup(c) ==
  /\ At(c, "backup", "main")
  /\ inboxFile' = [inboxFile EXCEPT !["backup"] = inboxDraft[c]]
  /\ UNCHANGED <<inboxLock, inboxOp, inboxDraft, inboxBegun, inboxCalls, inboxStolen>>

WriteMain(c) ==
  /\ At(c, "main", "release")
  /\ inboxFile' = [inboxFile EXCEPT !["main"] = inboxDraft[c]]
  /\ LeaveLock(c)
  /\ UNCHANGED <<inboxLock, inboxOp, inboxDraft, inboxBegun, inboxCalls>>

\* The lock file is read, and removed in a later call if it was this process's own.
ReleaseLock(c) ==
  /\ At(c, "release", IF inboxLock = [holder |-> c, written |-> TRUE] THEN "unlock" ELSE "idle")
  /\ UNCHANGED <<inboxLock, inboxFile, inboxOp, inboxDraft, inboxBegun, inboxCalls, inboxStolen>>

Unlock(c) ==
  /\ At(c, "unlock", "idle")
  /\ RemoveLock
  /\ UNCHANGED <<inboxFile, inboxOp, inboxDraft, inboxBegun, inboxCalls>>

Die(c) ==
  /\ c \notin Dead /\ Cardinality(Dead) < MaxDeaths
  /\ inboxPc' = [inboxPc EXCEPT ![c] = "dead"]
  /\ LeaveLock(c)
  /\ UNCHANGED <<inboxLock, inboxFile, inboxOp, inboxDraft, inboxBegun, inboxCalls>>

InboxNext == \E c \in InboxCallers :
  \/ CallInbox(c) \/ OpenLock(c) \/ FillLock(c) \/ JudgeLock(c) \/ RemoveStaleLock(c)
  \/ ReadUnderLock(c) \/ WriteBackup(c) \/ WriteMain(c)
  \/ ReleaseLock(c) \/ Unlock(c) \/ Die(c)

InboxSpec == InboxInit /\ [][InboxNext]_inboxVars

-----------------------------------------------------------------------------

InboxTypeOK ==
  /\ inboxLock \in [holder : InboxCallers, written : BOOLEAN] \cup {NoLock}
  /\ inboxFile \in [{"main", "backup"} -> InboxData]
  /\ inboxPc \in [InboxCallers -> {"idle", "open", "fill", "judge", "remove", "read",
                                   "backup", "main", "release", "unlock", "dead"}]
  /\ inboxOp \in [InboxCallers -> InboxOps]
  /\ inboxDraft \in [InboxCallers -> InboxData]
  /\ inboxBegun \in [InboxCallers -> SUBSET InboxAnswers]
  /\ inboxCalls \in [InboxCallers -> Nat]
  /\ inboxStolen \in BOOLEAN

\* A live owner's lock is never stolen: of the processes alive at most one is
\* between having created the lock file and having written both copies (withLock).
LiveLockNotStolen == \A c, d \in Inside : c = d

\* Two processes are inside together only from the moment a lock file was
\* removed under a live process until all who were inside have left; after
\* that the lock excludes again (withLock, lockIsReclaimable).
LockRecovers == inboxStolen \/ LiveLockNotStolen

\* What the inbox knows of an Answer is forgotten or taken back at most while
\* processes write that were inside after such a theft: no death between the
\* writes of the two copies, and no later call, costs a mark (begin and
\* markDelivered); else an agent would be told twice.
Progress(s) == CASE s = "unknown" -> 0 [] s = "pending" -> 1 [] s = "delivered" -> 2
MarksKept ==
  [][inboxStolen \/ \A a \in InboxAnswers :
       Progress(ReadInbox'.notifications[a]) >= Progress(ReadInbox.notifications[a])]_inboxVars
=============================================================================
