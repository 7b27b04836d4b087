------------------------------- MODULE CanBus -------------------------------
(***************************************************************************)
(* One SocketCAN interface (transports/socketcan.py): a reader thread that *)
(* feeds a bounded queue, the drain loop that writes the capture file, the *)
(* decoder that reads it back, and can.send's worker thread beside the     *)
(* software TX lock that safe_state closes.                                *)
(*                                                                         *)
(* A frame is its number on the bus and its kind.                          *)
(***************************************************************************)
EXTENDS Integers, Sequences, FiniteSets, SequencesExt

CONSTANTS
    BusFrames,      \* frames the bus carries in a behaviour
    Capacity,       \* of the queue between the reader thread and the loop
    MaxFrames,      \* the capture's max_frames
    Count           \* frames one can.send asks for

Constants == BusFrames \in Nat /\ Capacity \in Nat /\ MaxFrames \in Nat /\ Count \in Nat

VARIABLES
    heard,      \* every frame the reader thread has taken off the socket
    queue,      \* _RxPump._queue
    dropped,    \* frames the full queue refused
    cut,        \* frames taken from the queue and left out
    file,       \* the capture file
    capture,    \* what the capture is doing
    outcome,    \* how it ended, and the dropped count it returned
    artifact,   \* whether the file is registered, removed, or neither
    summary,    \* can.decode's counts for the file
    interface,  \* the interface
    unlocked,   \* _tx_unlocked
    sender,     \* can.send: what it is doing, and the frames its thread has sent
    stray       \* whether a frame left while the TX lock was closed

vars == <<heard, queue, dropped, cut, file, capture, outcome, artifact, summary, interface, unlocked,
          sender, stray>>
rxvars == <<heard, queue, dropped, cut, file, capture, outcome, artifact, summary>>
txvars == <<unlocked, sender, stray>>

Kinds == {"data", "error", "unwanted"}
Frames == [n : 1 .. BusFrames, kind : Kinds]
Classes == {"decoded", "skipped"}
NoSummary == [c \in Classes |-> 0]

TypeOK ==
    /\ heard \in Seq(Frames) /\ queue \in Seq(Frames) /\ file \in Seq(Frames)
    /\ Len(queue) <= Capacity /\ dropped \subseteq Frames /\ cut \subseteq Frames
    /\ capture \in {"off", "running", "over"}
    /\ outcome.how \in {"none", "done", "failed", "cancelled"}
    /\ artifact \in {"none", "registered", "removed"}
    /\ summary \in [Classes -> 0 .. MaxFrames]
    /\ interface \in {"up", "listen-only", "down"}
    /\ unlocked \in BOOLEAN
    /\ sender \in [stage : {"idle", "checked", "sending"}, left : 0 .. Count]
    /\ stray \in BOOLEAN

Init ==
    /\ heard = <<>> /\ queue = <<>> /\ dropped = {} /\ cut = {} /\ file = <<>>
    /\ capture = "off" /\ outcome = [how |-> "none", dropped |-> 0] /\ artifact = "none"
    /\ summary = NoSummary /\ interface = "up" /\ unlocked = FALSE
    /\ sender = [stage |-> "idle", left |-> 0] /\ stray = FALSE

-----------------------------------------------------------------------------
(* can.capture.                                                            *)

\* The capture file and the socket are opened; the reader thread starts.
StartCapture ==
    /\ capture = "off" /\ interface # "down"
    /\ capture' = "running"
    /\ UNCHANGED <<heard, queue, dropped, cut, file, outcome, artifact, summary, interface>>
    /\ UNCHANGED txvars

\* The thread takes one frame; a full queue drops it, the newest, and counts it.
Recv(kind) ==
    /\ capture = "running" /\ Len(heard) < BusFrames
    /\ LET frame == [n |-> Len(heard) + 1, kind |-> kind] IN
       /\ heard' = Append(heard, frame)
       /\ IF Len(queue) < Capacity
          THEN queue' = Append(queue, frame) /\ UNCHANGED dropped
          ELSE dropped' = dropped \cup {frame} /\ UNCHANGED queue
    /\ UNCHANGED <<cut, file, capture, outcome, artifact, summary, interface>> /\ UNCHANGED txvars

Wanted(frame) == frame.kind # "unwanted"

\* absorb: the wanted frames of a batch, in their order, and no more of them than
\* max_frames leaves room for.
WantedUpTo(batch, i) == Cardinality({j \in 1 .. i : Wanted(batch[j])})
Absorbed(batch, room) ==
    LET wanted == WantedUpTo(batch, Len(batch)) IN
    [k \in 1 .. IF wanted <= room THEN wanted ELSE room |->
        batch[CHOOSE i \in DOMAIN batch : Wanted(batch[i]) /\ WantedUpTo(batch, i) = k]]

Drain ==
    /\ LET absorbed == Absorbed(queue, MaxFrames - Len(file)) IN
       /\ file' = file \o absorbed
       /\ cut' = cut \cup (ToSet(queue) \ ToSet(absorbed))
    /\ queue' = <<>>

\* One turn of the loop: the batch is written and flushed.
DrainLoop ==
    /\ capture = "running" /\ queue # <<>> /\ Len(file) < MaxFrames
    /\ Drain
    /\ UNCHANGED <<heard, dropped, capture, outcome, artifact, summary, interface>> /\ UNCHANGED txvars

(* Mutant: what is still queued when the loop ends is thrown away.         *)
EndCaptureUndrained(how) ==
    /\ capture = "running" /\ capture' = "over" /\ queue' = <<>>
    /\ outcome' = [how |-> how, dropped |-> Cardinality(dropped)]
    /\ artifact' = IF file = <<>> THEN "removed" ELSE "registered"
    /\ UNCHANGED <<heard, dropped, cut, file, summary, interface>> /\ UNCHANGED txvars

\* The loop ends -- duration, max_frames, a failed socket or a cancellation; the
\* thread is joined, what it had queued is taken too, and the file is registered
\* unless it is empty, in which case it is removed.
EndCapture(how) ==
    /\ capture = "running"
    /\ Drain
    /\ capture' = "over"
    /\ outcome' = [how |-> how, dropped |-> Cardinality(dropped)]
    /\ artifact' = IF file' = <<>> THEN "removed" ELSE "registered"
    /\ UNCHANGED <<heard, dropped, summary, interface>> /\ UNCHANGED txvars

\* can.decode: every line of the file is counted under one heading.
ClassOf(frame) == IF frame.kind = "error" THEN "skipped" ELSE "decoded"

Decode ==
    /\ artifact = "registered" /\ summary = NoSummary
    /\ summary' = [c \in Classes |-> Cardinality({i \in DOMAIN file : ClassOf(file[i]) = c})]
    /\ UNCHANGED <<heard, queue, dropped, cut, file, capture, outcome, artifact, interface>>
    /\ UNCHANGED txvars

-----------------------------------------------------------------------------
(* can.send.                                                               *)

\* The link is checked by reading it: down or listen-only, nothing is sent and
\* nothing is reconfigured.
CheckLink ==
    /\ sender.stage = "idle" /\ interface = "up"
    /\ sender' = [stage |-> "checked", left |-> Count]
    /\ UNCHANGED <<unlocked, stray, interface>> /\ UNCHANGED rxvars

\* The TX lock opens before the first frame; the thread opens a socket of its own.
Unlock ==
    /\ sender.stage = "checked"
    /\ unlocked' = TRUE /\ sender' = [sender EXCEPT !.stage = "sending"]
    /\ UNCHANGED <<stray, interface>> /\ UNCHANGED rxvars

\* _send_blocking: the thread sends the next frame, without a look at the lock.
SendOne ==
    /\ sender.stage = "sending" /\ sender.left > 0 /\ interface = "up"
    /\ sender' = [sender EXCEPT !.left = @ - 1]
    /\ stray' = (stray \/ ~unlocked)
    /\ UNCHANGED <<unlocked, interface>> /\ UNCHANGED rxvars

\* All sent, a failed send, or a cancellation: the socket is shut, and a thread
\* still in the loop fails at its next frame.  The lock stays as it is.
EndSend ==
    /\ sender.stage # "idle"
    /\ sender' = [stage |-> "idle", left |-> 0]
    /\ UNCHANGED <<unlocked, stray, interface>> /\ UNCHANGED rxvars

\* safe_state: the lock closes; whoever is sending is not told.
SafeState ==
    /\ unlocked
    /\ unlocked' = FALSE
    /\ UNCHANGED <<sender, stray, interface>> /\ UNCHANGED rxvars

\* Somebody else reconfigures the interface.
LinkChanges(state) ==
    /\ interface # state /\ interface' = state
    /\ UNCHANGED rxvars /\ UNCHANGED txvars

Next ==
    \/ StartCapture \/ DrainLoop \/ Decode
    \/ \E kind \in Kinds : Recv(kind)
    \/ \E how \in {"done", "failed", "cancelled"} : EndCapture(how)
    \/ CheckLink \/ Unlock \/ SendOne \/ EndSend \/ SafeState
    \/ \E state \in {"up", "listen-only", "down"} : LinkChanges(state)

Spec == Init /\ [][Next]_vars

-----------------------------------------------------------------------------
(* Properties.                                                             *)

Numbers(s) == {s[i].n : i \in DOMAIN s}

\* The capture file is the bus, in order and from its beginning: every frame the
\* reader took is in the file, in the queue, dropped and counted, or cut by the
\* filter or by max_frames, and only one of these; nothing before the first drop
\* is lost unless the capture was full.  However the capture ends, a file with
\* frames in it is registered and an empty one is not left behind, and decoding
\* it accounts for every line.
CaptureFaithful ==
    /\ \A i, j \in DOMAIN file : i < j => file[i].n < file[j].n
    /\ ToSet(heard) = ToSet(file) \cup ToSet(queue) \cup dropped \cup cut
    /\ Len(heard) = Len(file) + Len(queue) + Cardinality(dropped) + Cardinality(cut)
    /\ \A f \in cut : Wanted(f) => Len(file) = MaxFrames /\ \A g \in ToSet(file) : g.n < f.n
    /\ capture = "over" => /\ (file # <<>>) <=> (artifact = "registered")
                           /\ outcome.dropped = Cardinality(dropped)
    /\ summary # NoSummary =>
          Len(file) = summary["decoded"] + summary["skipped"]

\* can.send's safe_state_note: "Transmission stops and the interface returns to
\* listen-only": no frame leaves once safe_state has closed the TX lock.
TransmissionStops == ~stray
=============================================================================
