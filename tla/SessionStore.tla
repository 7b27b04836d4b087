---------------------------- MODULE SessionStore ----------------------------
(***************************************************************************)
(* Recording sessions (capture/sessions.py, recorder.py, timeline.py,      *)
(* storage.py), with the faults the recorder is written for: the process   *)
(* is killed, the power fails, a database write fails, a tool writes a     *)
(* capture file long after its name was chosen.                            *)
(*                                                                         *)
(* Every event has three homes: a row of timeline.sqlite, a line of the    *)
(* events log and, for an audit event, a line of the audit log.  `rows',   *)
(* `log' and `trail' give for each event how far its record has got:       *)
(* the memory of the process (a batch, a compressor), the operating        *)
(* system's cache, or the disk.                                            *)
(***************************************************************************)
EXTENDS Naturals, FiniteSets

CONSTANTS
    MaxSessions,    \* session directories that fit the instance
    MaxEvents,      \* events published in the instance
    BatchSize,      \* timeline rows buffered before they are written
    MaxFaults,      \* kills, power failures and failed writes in the instance
    Captures,       \* capture actions, each runs once
    Stem(_),        \* the file stem a capture asks for: kind and label
    External(_)     \* TRUE when an external tool writes the file later

Lost == 0
Memory == 1
Kernel == 2
Disk == 3

Events == 1 .. MaxEvents
Sessions == 1 .. MaxSessions

VARIABLES
    up,         \* the daemon's process is alive
    recorder,   \* the session being recorded, 0: none
    attached,   \* the recorder is a sink of the event bus
    closed,     \* the recorder was closed, though it may still be the active one
    json,       \* state field of each session.json; "torn": not readable
    wet,        \* sessions whose session.json has not reached the disk
    n,          \* events published
    home,       \* the session each event was published in, 0: none
    grave,      \* audit events (is_audit)
    rows, log, trail,
    complained, \* events whose recording raised, which the daemon's log names
    spoilt,     \* sessions that met a kill, a power failure or a failed stop
    cap,        \* the capture actions
    files,      \* <<session, stem, index, who wrote it>>
    artifacts,  \* <<session, stem, index, whose content was hashed>>
    faults

vars == <<up, recorder, attached, closed, json, wet, n, home, grave, rows, log, trail,
          complained, spoilt, cap, files, artifacts, faults>>
recording == <<n, home, grave, rows, log, trail, complained>>
captured == <<cap, files, artifacts>>

\* What the proofs ask of the constants.
Constants ==
    /\ MaxSessions \in Nat /\ MaxEvents \in Nat /\ MaxFaults \in Nat
    /\ IsFiniteSet(Captures)

Idle == [st |-> "idle", s |-> 0, index |-> 0]

TypeOK ==
    /\ up \in BOOLEAN /\ attached \in BOOLEAN /\ closed \in BOOLEAN
    /\ recorder \in 0 .. MaxSessions
    /\ json \in [Sessions -> {"none", "ACTIVE", "CLOSED", "torn"}]
    /\ wet \subseteq Sessions /\ spoilt \subseteq Sessions
    /\ n \in 0 .. MaxEvents /\ home \in [Events -> 0 .. MaxSessions]
    /\ grave \subseteq Events /\ complained \subseteq Events
    /\ \A r \in {rows, log, trail} : r \in [Events -> Lost .. Disk]
    /\ cap \in [Captures -> [st : {"idle", "named", "done", "failed"},
                             s : 0 .. MaxSessions, index : 0 .. Cardinality(Captures)]]
    /\ \A f \in files \cup artifacts : f[1] \in Sessions /\ f[4] \in Captures
    /\ faults \in 0 .. MaxFaults

Init ==
    /\ up = TRUE /\ recorder = 0 /\ attached = FALSE /\ closed = TRUE
    /\ json = [s \in Sessions |-> "none"] /\ wet = {}
    /\ n = 0 /\ home = [e \in Events |-> 0] /\ grave = {}
    /\ rows = [e \in Events |-> Lost]
    /\ log = [e \in Events |-> Lost]
    /\ trail = [e \in Events |-> Lost]
    /\ complained = {} /\ spoilt = {}
    /\ cap = [c \in Captures |-> Idle] /\ files = {} /\ artifacts = {}
    /\ faults = 0

-----------------------------------------------------------------------------
(* The stores.                                                             *)

\* Timeline._pending: rows that are still in the process's memory.
Pending(r) == {e \in Events : r[e] = Memory}

\* Timeline.flush: the batch is taken out of the buffer first and written row
\* by row after it; a row that fails takes the rest of the batch with it.
Flush(r) == [e \in Events |-> IF r[e] = Memory THEN Kernel ELSE r[e]]
FlushFails(r, first) ==
    [e \in Events |-> IF r[e] = Memory THEN (IF e < first THEN Kernel ELSE Lost) ELSE r[e]]

(* Mutant: a flush leaves out the fsync.                                   *)
SyncedNot(l) == [e \in Events |-> IF l[e] = Memory THEN Kernel ELSE l[e]]

\* AppendLog.flush: the compressor, the file and then fsync.
Synced(l) == [e \in Events |-> IF l[e] \in {Memory, Kernel} THEN Disk ELSE l[e]]

\* AppendLog.close: everything is handed to the operating system, no fsync.
HandedOver(l) == [e \in Events |-> IF l[e] = Memory THEN Kernel ELSE l[e]]

\* SessionManager._allocate_id: the first free name of the day.
Free == {s \in Sessions : json[s] = "none"}
AllocateId == CHOOSE s \in Free : \A t \in Free : s <= t

(* Mutant: the name of a capture is not looked for among the files.        *)
FirstFilename(s, stem) == 1

\* SessionLayout.next_filename: the first name no file has; nothing reserves it.
NextFilename(s, stem) ==
    CHOOSE i \in 1 .. Cardinality(Captures) :
        /\ ~\E f \in files : f[1] = s /\ f[2] = stem /\ f[3] = i
        /\ \A j \in 1 .. (i - 1) : \E f \in files : f[1] = s /\ f[2] = stem /\ f[3] = j

-----------------------------------------------------------------------------
(* SessionRecorder.on_event.  A batch that is full is written at once, and *)
(* so is one that is older than a second (`aged').  The audit record goes  *)
(* through fsync before the next event is taken.                           *)

Due(r, aged) == aged \/ Cardinality(Pending(r)) >= BatchSize

\* The event e (an audit event or not) reaches the recorder, nothing fails.
Recorded(e, audit, aged) ==
    LET added == [rows EXCEPT ![e] = Memory]
        batch == IF Due(added, aged) THEN Flush(added) ELSE added
    IN /\ rows' = IF audit THEN Flush(batch) ELSE batch
       /\ log' = [log EXCEPT ![e] = Memory]
       /\ trail' = IF audit THEN Synced([trail EXCEPT ![e] = Memory]) ELSE trail
       /\ UNCHANGED <<complained, faults>>

\* The write of the full batch fails: neither log is reached.
RecordFails(e, aged) ==
    LET added == [rows EXCEPT ![e] = Memory]
    IN /\ faults < MaxFaults /\ faults' = faults + 1
       /\ Due(added, aged)
       /\ \E first \in Pending(added) : rows' = FlushFails(added, first)
       /\ complained' = complained \cup {e}
       /\ UNCHANGED <<log, trail>>

\* The flush that follows the audit record fails: both logs have the event.
AuditFlushFails(e, audit) ==
    LET added == [rows EXCEPT ![e] = Memory]
    IN /\ faults < MaxFaults /\ faults' = faults + 1
       /\ audit /\ ~Due(added, FALSE)
       /\ \E first \in Pending(added) : rows' = FlushFails(added, first)
       /\ log' = [log EXCEPT ![e] = Memory]
       /\ trail' = Synced([trail EXCEPT ![e] = Memory])
       /\ complained' = complained \cup {e}

\* EventBus.publish as far as the recorder is concerned: with no sink the event
\* reaches no session at all.
Publish(audit, sink) ==
    /\ n < MaxEvents
    /\ n' = n + 1
    /\ grave' = IF audit THEN grave \cup {n + 1} ELSE grave
    /\ IF sink = 0
       THEN UNCHANGED <<home, rows, log, trail, complained, faults>>
       ELSE /\ home' = [home EXCEPT ![n + 1] = sink]
            /\ \E aged \in BOOLEAN : \/ Recorded(n + 1, audit, aged)
                                     \/ RecordFails(n + 1, aged)
                                     \/ AuditFlushFails(n + 1, audit)

Sink == IF attached THEN recorder ELSE 0

\* Anything else of the daemon publishes an event.
PublishEvent ==
    /\ up
    /\ \E audit \in BOOLEAN : Publish(audit, Sink)
    /\ UNCHANGED <<up, recorder, attached, closed, json, wet, spoilt, captured>>

-----------------------------------------------------------------------------
(* The lifetime of a session.                                              *)

\* SessionManager.start: refused while a session is active; the directory is
\* a new one, session.json is written, and SESSION_STARTED is its first event.
Start ==
    /\ up /\ recorder = 0 /\ Free # {}
    /\ LET s == AllocateId IN
       /\ recorder' = s
       /\ json' = [json EXCEPT ![s] = "ACTIVE"]
       /\ wet' = wet \cup {s}
       /\ Publish(FALSE, s)
    /\ attached' = TRUE /\ closed' = FALSE
    /\ UNCHANGED <<up, spoilt, captured>>

\* SessionRecorder.mark and note: session.json is written again in place.
Mark ==
    /\ up /\ recorder # 0 /\ ~closed
    /\ recorder \notin wet
    /\ wet' = wet \cup {recorder}
    /\ UNCHANGED <<up, recorder, attached, closed, json, recording, spoilt, captured, faults>>

\* SessionManager.stop: SESSION_STOPPED while the sink is still attached, then
\* the sink goes, session.json says CLOSED, and the timeline and the logs close.
Stop ==
    /\ up /\ recorder # 0 /\ ~closed /\ n < MaxEvents
    /\ n' = n + 1 /\ home' = [home EXCEPT ![n + 1] = recorder]
    /\ rows' = [e \in Events |-> IF home'[e] = recorder /\ (rows[e] # Lost \/ e = n + 1)
                                 THEN Disk ELSE rows[e]]
    /\ log' = HandedOver([log EXCEPT ![n + 1] = Memory])
    /\ trail' = HandedOver(trail)
    /\ recorder' = 0 /\ attached' = FALSE /\ closed' = TRUE
    /\ json' = [json EXCEPT ![recorder] = "CLOSED"]
    /\ wet' = wet \cup {recorder}
    /\ UNCHANGED <<up, grave, complained, spoilt, captured, faults>>

\* The last flush of the timeline fails: the caller gets the error, the logs
\* stay open with what their compressors hold, and the manager still has the
\* recorder, which counts itself closed.
StopFails ==
    /\ up /\ recorder # 0 /\ ~closed /\ Pending(rows) # {}
    /\ faults < MaxFaults /\ faults' = faults + 1
    /\ \E first \in Pending(rows) : rows' = FlushFails(rows, first)
    /\ attached' = FALSE /\ closed' = TRUE
    /\ json' = [json EXCEPT ![recorder] = "CLOSED"]
    /\ wet' = wet \cup {recorder}
    /\ spoilt' = spoilt \cup {recorder}
    /\ UNCHANGED <<up, recorder, n, home, grave, log, trail, complained, captured>>

\* A second stop finds it closed and lets it go, and the logs' buffers with it.
StopAgain ==
    /\ up /\ recorder # 0 /\ closed
    /\ recorder' = 0
    /\ log' = [e \in Events |-> IF log[e] = Memory THEN Lost ELSE log[e]]
    /\ UNCHANGED <<up, attached, closed, json, wet, n, home, grave, rows, trail,
                   complained, spoilt, captured, faults>>

\* SessionRecorder.flush: once a second from the safety loop, before a report,
\* at the end of an emergency stop, and before the events of the active session
\* are read.
FlushAll ==
    /\ up /\ recorder # 0 /\ ~closed
    /\ rows' = Flush(rows) /\ log' = Synced(log) /\ trail' = Synced(trail)
    /\ UNCHANGED <<up, recorder, attached, closed, json, wet, n, home, grave, complained,
                   spoilt, captured, faults>>

\* The timeline's half of it fails: the logs are not reached.
FlushAllFails ==
    /\ up /\ recorder # 0 /\ ~closed
    /\ faults < MaxFaults /\ faults' = faults + 1
    /\ \E first \in Pending(rows) : rows' = FlushFails(rows, first)
    /\ UNCHANGED <<up, recorder, attached, closed, json, wet, n, home, grave, log, trail,
                   complained, spoilt, captured>>

\* SessionManager.get and summary: a second connection to the same database,
\* whose closing folds the write-ahead log back into the file and syncs it.
Get(s) ==
    /\ up /\ json[s] \in {"ACTIVE", "CLOSED"}
    /\ rows' = [e \in Events |-> IF home[e] = s /\ rows[e] = Kernel THEN Disk ELSE rows[e]]
    /\ UNCHANGED <<up, recorder, attached, closed, json, wet, n, home, grave, log, trail,
                   complained, spoilt, captured, faults>>

-----------------------------------------------------------------------------
(* Captures: a name is chosen, the file is written, the artifact is        *)
(* registered with the hash of what the file holds then.                   *)

Written(s, stem, i, c) ==
    {f \in files : ~(f[1] = s /\ f[2] = stem /\ f[3] = i)} \cup {<<s, stem, i, c>>}

\* SessionRecorder.capture_path for a tool that will write the file itself.
NameCapture(c) ==
    /\ up /\ recorder # 0 /\ ~closed
    /\ cap[c].st = "idle" /\ External(c)
    /\ cap' = [cap EXCEPT ![c] =
           [st |-> "named", s |-> recorder, index |-> NextFilename(recorder, Stem(c))]]
    /\ UNCHANGED <<up, recorder, attached, closed, json, wet, recording, spoilt, files,
                   artifacts, faults>>

\* The tool returns; SessionRecorder.add_artifact hashes what it left, unless
\* the session was closed meanwhile: then the file stays, unregistered.
ToolReturns(c) ==
    /\ up /\ cap[c].st = "named"
    /\ files' = Written(cap[c].s, Stem(c), cap[c].index, c)
    /\ IF recorder = cap[c].s /\ ~closed
       THEN /\ cap' = [cap EXCEPT ![c].st = "done"]
            /\ artifacts' = artifacts \cup {<<cap[c].s, Stem(c), cap[c].index, c>>}
       ELSE /\ cap' = [cap EXCEPT ![c].st = "failed"]
            /\ UNCHANGED artifacts
    /\ UNCHANGED <<up, recorder, attached, closed, json, wet, recording, spoilt, faults>>

\* A handler that opens the file itself: no suspension between name and file.
CaptureHere(c) ==
    /\ up /\ recorder # 0 /\ ~closed
    /\ cap[c].st = "idle" /\ ~External(c)
    /\ LET i == NextFilename(recorder, Stem(c)) IN
       /\ cap' = [cap EXCEPT ![c] = [st |-> "done", s |-> recorder, index |-> i]]
       /\ files' = Written(recorder, Stem(c), i, c)
       /\ artifacts' = artifacts \cup {<<recorder, Stem(c), i, c>>}
    /\ UNCHANGED <<up, recorder, attached, closed, json, wet, recording, spoilt, faults>>

-----------------------------------------------------------------------------
(* Faults.                                                                 *)

\* What the process held in memory is gone; its captures are gone with it.
Forget(r) == [e \in Events |-> IF r[e] = Memory THEN Lost ELSE r[e]]

Die ==
    /\ up' = FALSE /\ recorder' = 0 /\ attached' = FALSE /\ closed' = TRUE
    /\ cap' = [c \in Captures |-> IF cap[c].st = "named" THEN [cap[c] EXCEPT !.st = "failed"]
                                                          ELSE cap[c]]
    /\ UNCHANGED <<n, home, grave, complained, files, artifacts>>

\* The process is killed, in the middle of writing session.json or not.
Kill ==
    /\ up /\ faults < MaxFaults /\ faults' = faults + 1
    /\ Die
    /\ rows' = Forget(rows) /\ log' = Forget(log) /\ trail' = Forget(trail)
    /\ \/ json' = json
       \/ recorder \in wet /\ json' = [json EXCEPT ![recorder] = "torn"]
    /\ spoilt' = spoilt \cup ({recorder} \ {0})
    /\ UNCHANGED wet

\* The power fails: of what only the operating system held, any part survives;
\* closing a log hands it over without fsync, so a session that was stopped a
\* moment ago is hit as well.
PowerFails ==
    /\ up /\ faults < MaxFaults /\ faults' = faults + 1
    /\ Die
    /\ \E kept \in {{}, Events} :
         LET after(r) == [e \in Events |-> IF r[e] = Disk \/ (r[e] = Kernel /\ e \in kept)
                                           THEN r[e] ELSE Lost]
         IN rows' = after(rows) /\ log' = after(log) /\ trail' = after(trail)
    /\ \E gone \in SUBSET wet : json' = [s \in Sessions |-> IF s \in gone THEN "torn" ELSE json[s]]
    /\ wet' = {}
    /\ spoilt' = spoilt \cup ({recorder} \ {0})
          \cup {home[e] : e \in {d \in 1 .. n : home[d] # 0 /\ Kernel \in {rows[d], log[d], trail[d]}}}

\* The operating system writes its cache back.
WriteBack ==
    /\ wet # {} \/ \E e \in Events : Kernel \in {rows[e], log[e], trail[e]}
    /\ LET out(r) == [e \in Events |-> IF r[e] = Kernel THEN Disk ELSE r[e]]
       IN rows' = out(rows) /\ log' = out(log) /\ trail' = out(trail)
    /\ wet' = {}
    /\ UNCHANGED <<up, recorder, attached, closed, json, n, home, grave, complained, spoilt,
                   captured, faults>>

\* A new process: no session is resumed, the old directory stays as it is.
Restart ==
    /\ ~up
    /\ up' = TRUE
    /\ UNCHANGED <<recorder, attached, closed, json, wet, recording, spoilt, captured, faults>>

Next ==
    \/ Start \/ Mark \/ Stop \/ StopFails \/ StopAgain
    \/ PublishEvent \/ FlushAll \/ FlushAllFails
    \/ \E s \in Sessions : Get(s)
    \/ \E c \in Captures : NameCapture(c) \/ ToolReturns(c) \/ CaptureHere(c)
    \/ Kill \/ PowerFails \/ WriteBack \/ Restart

Spec == Init /\ [][Next]_vars

-----------------------------------------------------------------------------
(* Properties.                                                             *)

\* recorder.py's reason for flushing the audit log at once: whatever happens
\* afterwards -- a kill, a power failure, a failed stop -- an audit event of a
\* session is on the disk, unless its own recording raised.
AuditSurvives ==
    \A e \in grave : home[e] # 0 /\ e \notin complained => trail[e] = Disk

\* In a session that met no crash and no failed stop, an event missing from the
\* timeline is in the events log, or the daemon's log named it: a batch that
\* the database refused is not the only copy of its events.
NoSilentLoss ==
    \A e \in 1 .. n :
        home[e] \notin {0} \cup spoilt =>
            rows[e] # Lost \/ log[e] # Lost \/ e \in complained

\* storage.py's "raw capture data is immutable": a file a session has
\* registered holds what was hashed, unless it was one of two captures that got
\* one name: next_filename reserves nothing, so a tool that was still to write
\* its file when the name was asked for again writes over the other's.
ArtifactsIntact ==
    \A a \in artifacts :
        \E f \in files :
            /\ f[1] = a[1] /\ f[2] = a[2] /\ f[3] = a[3]
            /\ f = a \/ External(f[4])
=============================================================================
