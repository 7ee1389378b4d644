---------------------------- MODULE ProfileTarget ----------------------------
(* How a session finds the server of its profile: the server publishes one    *)
(* record per profile under a lock directory (profileTarget.ts), refreshes it *)
(* and takes it back when it closes (cli.ts); a session or `pi-postbox-server *)
(* status` reads the record and believes it only after the health endpoint at *)
(* its URL has named the same instance (serverTargetResolver.ts), and starts  *)
(* a server when there is none (autostart.ts).  A Server is one run of the    *)
(* server process, a Reader one session or status command.                    *)
CONSTANTS
  Servers, Ports, Readers,
  Nothing         \* no server, no record, no lock

ASSUME TargetAssumption == Nothing \notin Servers

VARIABLES
  process,       \* each server: "idle", "starting", "listening", "closing" or "gone"
  port,          \* where it listens
  published,     \* servers that have published themselves and found no reason to doubt it
  record,        \* server.json: the server it names
  age,           \* of the record: "new", "minute" or "hours" old
  targetLock,    \* server.json.lock: the server that made it
  jobs,          \* publish, refresh and cleanup under way
  reader,        \* each reader: what it reads, or the record it probes
  selected,      \* the server a reader has found
  child,         \* the server a reader has started
  overtaken,     \* history: servers another one has published over
  unannounced    \* history: servers that could not publish, or not read their record

targetVars == <<process, port, published, record, age, targetLock, jobs, reader, selected,
                child, overtaken, unannounced>>
processState == <<process, port, published>>
recordState == <<record, age, overtaken, unannounced>>
readerState == <<reader, selected, child>>

\* Definitions named Slip... are faulty variants of the one that follows, used
\* by no specification: a property has to notice each of them.

NewJob(i, kind) == [server |-> i, kind |-> kind, stage |-> "lock"]
JobsOf(i) == {j \in jobs : j.server = i}
ListeningAt(p) == {i \in Servers : process[i] = "listening" /\ port[i] = p}

TargetInit ==
  /\ process = [i \in Servers |-> "idle"] /\ port = [i \in Servers |-> Nothing]
  /\ published = {} /\ record = Nothing /\ age = "new" /\ targetLock = Nothing /\ jobs = {}
  /\ reader = [r \in Readers |-> "idle"] /\ selected = [r \in Readers |-> Nothing]
  /\ child = [r \in Readers |-> Nothing] /\ overtaken = {} /\ unannounced = {}

-----------------------------------------------------------------------------
(* The server process.                                                       *)

\* listenOnConfiguredPort: publication starts once the server listens.  A taken
\* port ends the process.
Listen(i, p) ==
  /\ process[i] = "starting"
  /\ \/ /\ ListeningAt(p) = {} /\ process' = [process EXCEPT ![i] = "listening"]
        /\ port' = [port EXCEPT ![i] = p] /\ jobs' = jobs \cup {NewJob(i, "publish")}
     \/ /\ ListeningAt(p) # {} /\ process' = [process EXCEPT ![i] = "gone"] /\ UNCHANGED <<port, jobs>>
  /\ UNCHANGED <<published, recordState, targetLock, readerState>>

RefreshDue(i) ==
  /\ process[i] = "listening" /\ i \in published /\ JobsOf(i) = {}
  /\ jobs' = jobs \cup {NewJob(i, "refresh")}
  /\ UNCHANGED <<processState, recordState, targetLock, readerState>>

\* requestShutdown and the onClose hook: the port is free before the record is
\* taken back.
Shutdown(i) ==
  /\ process[i] = "listening" /\ process' = [process EXCEPT ![i] = "closing"]
  /\ jobs' = IF i \in published THEN jobs \cup {NewJob(i, "cleanup")} ELSE jobs
  /\ UNCHANGED <<port, published, recordState, targetLock, readerState>>

End(i) ==
  /\ process' = [process EXCEPT ![i] = "gone"] /\ published' = published \ {i}
  /\ jobs' = jobs \ JobsOf(i)
  /\ UNCHANGED <<port, recordState, targetLock, readerState>>

Exit(i) ==
  /\ process[i] = "closing" /\ \A j \in JobsOf(i) : j.kind # "cleanup"
  /\ End(i)

Crash(i) ==
  /\ process[i] \in {"listening", "closing"} /\ End(i)

-----------------------------------------------------------------------------
(* profileTarget.ts: each job runs under the lock.  Any of its steps may fail; *)
(* the server then goes on listening.                                        *)

Proceed(j, stage) == jobs' = (jobs \ {j}) \cup {[j EXCEPT !.stage = stage]}
Finish(j) == jobs' = jobs \ {j}

\* The end of withLock: the directory may withstand its removal.
LetGo == targetLock' \in {Nothing, targetLock}

Unannounce(j) == unannounced' = unannounced \cup {j.server}

Lock(j) ==
  /\ j.stage = "lock" /\ targetLock = Nothing /\ targetLock' = j.server
  /\ Proceed(j, IF j.kind = "publish" THEN "write" ELSE "read")
  /\ UNCHANGED <<processState, recordState, readerState>>

\* An unsafe URL, a directory that is a link or cannot be made, or five seconds
\* of a lock that others hold or left behind: a refresh keeps its server published.
LockFails(j) ==
  /\ j.stage = "lock" /\ Finish(j)
  /\ IF j.kind = "publish" THEN Unannounce(j) ELSE UNCHANGED unannounced
  /\ UNCHANGED <<processState, record, age, overtaken, targetLock, readerState>>

SlipSameOwner(i) == record # Nothing
SameOwner(i) == record = i

ReadCurrent(j) ==
  /\ j.stage = "read"
  /\ \/ SameOwner(j.server) /\ Proceed(j, "write") /\ UNCHANGED <<published, targetLock>>
     \/ /\ ~SameOwner(j.server) /\ Finish(j) /\ LetGo
        /\ published' = IF j.kind = "refresh" THEN published \ {j.server} ELSE published
  /\ UNCHANGED <<process, port, recordState, readerState>>

\* A record that cannot be read counts as that of another server.
ReadFails(j) ==
  /\ j.stage = "read" /\ Finish(j) /\ LetGo
  /\ IF j.kind = "refresh" THEN published' = published \ {j.server} /\ Unannounce(j)
                           ELSE UNCHANGED <<published, unannounced>>
  /\ UNCHANGED <<process, port, record, age, overtaken, readerState>>

\* writeRecord, or the unlink of a cleanup; then the lock is released.
Write(j) ==
  /\ j.stage = "write" /\ Finish(j) /\ LetGo
  /\ record' = IF j.kind = "cleanup" THEN Nothing ELSE j.server
  /\ age' = "new"
  /\ published' = IF j.kind = "publish" THEN published \cup {j.server} ELSE published
  /\ overtaken' = IF j.kind = "publish" THEN overtaken \cup ({record} \ {Nothing}) ELSE overtaken
  /\ UNCHANGED <<process, port, unannounced, readerState>>

\* "write-skipped": the record stays what it was, and so does a refreshing
\* server's belief that it is published.
WriteFails(j) ==
  /\ j.stage = "write" /\ Finish(j) /\ LetGo
  /\ IF j.kind = "publish" THEN Unannounce(j) ELSE UNCHANGED unannounced
  /\ UNCHANGED <<processState, record, age, overtaken, readerState>>

\* A record grows old when nobody refreshes it, or the refreshes fail.
RecordAges ==
  /\ record # Nothing /\ age # "hours"
  /\ age' = IF age = "new" THEN "minute" ELSE "hours"
  /\ UNCHANGED <<processState, record, overtaken, unannounced, targetLock, jobs, readerState>>

-----------------------------------------------------------------------------
(* Sessions and the status command.                                          *)

\* A record older than the reader allows counts as none (PROFILE_STATUS_TTL_MS,
\* DEFAULT_METADATA_TTL_MS, parseServerProfileMetadataRecord).
Credible(status) == record # Nothing /\ age \in (IF status THEN {"new"} ELSE {"new", "minute"})

\* readProfileMetadata, or readStatusMetadataRecord.
ReadRecord(r, status) ==
  /\ reader[r] = "idle"
  /\ \/ Credible(status) /\ reader' = [reader EXCEPT ![r] = record]
     \/ reader' = [reader EXCEPT ![r] = "unavailable"]            \* or it cannot be read
  /\ UNCHANGED <<processState, recordState, targetLock, jobs, selected, child>>

\* verifyHealth: whoever answers at the URL of the record tells its instance,
\* if it is the published one by its own account.
SlipHealthy(i) == ListeningAt(port[i]) # {}
Healthy(i) == \E k \in ListeningAt(port[i]) : k = i /\ k \in published

Probe(r) ==
  /\ reader[r] \in Servers
  /\ \/ /\ Healthy(reader[r])
        /\ selected' = [selected EXCEPT ![r] = CHOOSE k \in ListeningAt(port[reader[r]]) : TRUE]
        /\ reader' = [reader EXCEPT ![r] = "done"]
     \/ /\ ~Healthy(reader[r]) /\ reader' = [reader EXCEPT ![r] = "unavailable"]
        /\ UNCHANGED selected
  /\ UNCHANGED <<processState, recordState, targetLock, jobs, child>>

\* ensurePostboxServerAutostarted, unless autostart is off (Again).
Autostart(r, i) ==
  /\ reader[r] = "unavailable" /\ process[i] = "idle"
  /\ child[r] # Nothing => process[child[r]] = "gone"
  /\ process' = [process EXCEPT ![i] = "starting"] /\ child' = [child EXCEPT ![r] = i]
  /\ reader' = [reader EXCEPT ![r] = "idle"]
  /\ UNCHANGED <<port, published, recordState, targetLock, jobs, selected>>

\* main, called by the human.
StartByHand(i) ==
  /\ process[i] = "idle" /\ process' = [process EXCEPT ![i] = "starting"]
  /\ UNCHANGED <<port, published, recordState, targetLock, jobs, readerState>>

Again(r) ==
  /\ reader[r] \in {"unavailable", "done"} /\ reader' = [reader EXCEPT ![r] = "idle"]
  /\ selected' = [selected EXCEPT ![r] = Nothing]
  /\ UNCHANGED <<processState, recordState, targetLock, jobs, child>>

TargetNext ==
  \/ \E i \in Servers :
       StartByHand(i) \/ RefreshDue(i) \/ Shutdown(i) \/ Exit(i) \/ Crash(i)
       \/ \E p \in Ports : Listen(i, p)
  \/ \E j \in jobs : \/ Lock(j) \/ ReadCurrent(j) \/ Write(j)
                     \/ LockFails(j) \/ ReadFails(j) \/ WriteFails(j)
  \/ RecordAges
  \/ \E r \in Readers :
       \/ \E status \in BOOLEAN : ReadRecord(r, status)
       \/ Probe(r) \/ Again(r) \/ \E i \in Servers : Autostart(r, i)

TargetSpec == TargetInit /\ [][TargetNext]_targetVars

-----------------------------------------------------------------------------

\* A server that has published itself, and that no later one published over,
\* is what the record names, whatever refreshes and cleanups of older servers
\* interleave with it, fail, or end with their process in the middle (withLock,
\* sameOwner, writeRecord).
PublishedIsFound ==
  \A i \in published \ overtaken : process[i] = "listening" => record = i

\* A server that listens without being published has a job under way, was
\* published over, or met a failure while it published itself or read its record:
\* no refresh or cleanup of another, no failure of another, and no lock left
\* behind makes a published server take itself for unpublished
\* (listenOnConfiguredPort, refreshProfileTarget).
ListeningIsPublished ==
  \A i \in Servers :
    process[i] = "listening" /\ JobsOf(i) = {} => i \in published \cup overtaken \cup unannounced

\* The two together: the file and the processes agree.
PublishedAndFound == PublishedIsFound /\ ListeningIsPublished

\* What a reader has found is a server that answered by the name in the record,
\* not one that came to listen on the port of a server that is gone.
FoundByName ==
  [][\A r \in Readers : selected'[r] # selected[r] /\ selected'[r] # Nothing =>
       selected'[r] = reader[r]]_targetVars
=============================================================================
