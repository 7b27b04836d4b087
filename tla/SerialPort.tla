----------------------------- MODULE SerialPort -----------------------------
(***************************************************************************)
(* One serial port (transports/serial_port.py): reader tasks that wait in  *)
(* worker threads, the subscriber queue of a capture, serial.configure,    *)
(* which replaces the reader of an open port, and a transmission.          *)
(*                                                                         *)
(* The stream is numbered chunk by chunk as it arrives.                    *)
(***************************************************************************)
EXTENDS Integers, Sequences, FiniteSets, SequencesExt

CONSTANTS
    Configurers,    \* callers of serial.configure, which takes no device lock
    Chunks,         \* chunks that arrive in a behaviour
    Capacity,       \* of a subscriber's buffer
    Budget,         \* the capture's max_bytes, in chunks
    MaxReaders,     \* reader tasks started in a behaviour
    Overlap,        \* whether callers come while a serial.configure is under way
    None

Constants ==
    /\ Chunks \in Nat /\ Capacity \in Nat /\ Budget \in Nat /\ MaxReaders \in Nat
    /\ Overlap \in BOOLEAN /\ None \notin Int

VARIABLES
    port,        \* the handle in _port, by the number of its opening; 0 when there is none
    error,       \* whether _read_error is set
    arrived,     \* chunks taken from the kernel so far
    readers,     \* the reader tasks started: what each is doing
    current,     \* _reader
    stop,        \* the reader whose stop event is _stop
    conf,        \* the reader each serial.configure is waiting for
    capturing,   \* what serial.capture is doing
    buffer,      \* its subscriber's queue
    spilt,       \* chunks the full queue refused
    raw,         \* the raw file
    missed,      \* chunks nobody was subscribed to, or left behind when it ended
    astray,      \* chunks a cancelled reader's thread took with it
    registered,  \* chunks the registered artifact holds
    sending      \* serial.send

vars == <<port, error, arrived, readers, current, stop, conf, capturing, buffer, spilt, raw,
          missed, astray, registered, sending>>
stream == <<capturing, buffer, spilt, raw, missed, registered>>

Readers == 1 .. MaxReaders
Fresh(h) == [live |-> TRUE, stopped |-> FALSE, reading |-> FALSE, held |-> None, handle |-> h]

TypeOK ==
    /\ port \in 0 .. MaxReaders /\ error \in BOOLEAN /\ arrived \in 0 .. Chunks
    /\ DOMAIN readers \subseteq Readers
    /\ \A r \in DOMAIN readers :
          readers[r] \in [live : BOOLEAN, stopped : BOOLEAN, reading : BOOLEAN,
                          held : (1 .. Chunks) \cup {None}, handle : Readers]
    /\ current \in Readers \cup {None} /\ stop \in Readers \cup {None}
    /\ conf \in [Configurers -> Readers \cup {0, None}]
    /\ capturing \in {"off", "opening", "on", "over"}
    /\ buffer \in Seq(1 .. Chunks) /\ Len(buffer) <= Capacity /\ raw \in Seq(1 .. Chunks)
    /\ spilt \subseteq 1 .. Chunks /\ missed \subseteq 1 .. Chunks /\ astray \subseteq 1 .. Chunks
    /\ registered \in 0 .. Budget \cup {None}
    /\ sending \in {"idle", "writing", "sent", "failed"}

Init ==
    /\ port = 0 /\ error = FALSE /\ arrived = 0 /\ readers = <<>>
    /\ current = None /\ stop = None /\ conf = [x \in Configurers |-> None]
    /\ capturing = "off" /\ buffer = <<>> /\ spilt = {} /\ raw = <<>> /\ missed = {} /\ astray = {}
    /\ registered = None /\ sending = "idle"

-----------------------------------------------------------------------------
(* The reader.                                                             *)

Started == Len(readers)
NewReader ==
    /\ Started < MaxReaders
    /\ current' = Started + 1 /\ stop' = Started + 1

\* The loop looks at the stop event it was started with, then waits in a thread.
Wait(r) ==
    /\ readers[r].live /\ ~readers[r].reading
    /\ readers' = [readers EXCEPT ![r] =
           IF @.stopped THEN [@ EXCEPT !.live = FALSE] ELSE [@ EXCEPT !.reading = TRUE]]
    /\ UNCHANGED <<port, error, arrived, current, stop, conf, astray, sending>> /\ UNCHANGED stream

\* The thread's read returns with bytes -- even those of a reader that has been
\* cancelled meanwhile, whose bytes are gone -- or, woken by cancel_read, with none.
ReadReturns(r) ==
    /\ readers[r].reading /\ readers[r].held = None
    /\ \/ /\ readers[r].handle = port /\ arrived < Chunks /\ arrived' = arrived + 1
          /\ IF readers[r].live
             THEN readers' = [readers EXCEPT ![r].held = arrived'] /\ UNCHANGED astray
             ELSE readers' = [readers EXCEPT ![r].reading = FALSE] /\ astray' = astray \cup {arrived'}
       \/ /\ readers[r].stopped
          /\ readers' = [readers EXCEPT ![r].reading = FALSE] /\ UNCHANGED <<arrived, astray>>
    /\ UNCHANGED <<port, error, current, stop, conf, sending>> /\ UNCHANGED stream

(* Mutant: a subscriber's buffer has no limit.                             *)
PublishUnbounded(r) ==
    /\ readers[r].live /\ readers[r].held # None
    /\ readers' = [readers EXCEPT ![r].held = None, ![r].reading = FALSE]
    /\ IF capturing # "on" THEN missed' = missed \cup {readers[r].held} /\ UNCHANGED buffer
       ELSE buffer' = Append(buffer, readers[r].held) /\ UNCHANGED missed
    /\ UNCHANGED <<port, error, arrived, current, stop, conf, capturing, spilt, raw, astray, registered,
                   sending>>

\* The task resumes and publishes to the subscribers; a full buffer drops.
Publish(r) ==
    /\ readers[r].live /\ readers[r].held # None
    /\ readers' = [readers EXCEPT ![r].held = None, ![r].reading = FALSE]
    /\ LET n == readers[r].held IN
       CASE capturing # "on" -> missed' = missed \cup {n} /\ UNCHANGED <<buffer, spilt>>
         [] capturing = "on" /\ Len(buffer) >= Capacity ->
                spilt' = spilt \cup {n} /\ UNCHANGED <<buffer, missed>>
         [] OTHER -> buffer' = Append(buffer, n) /\ UNCHANGED <<spilt, missed>>
    /\ UNCHANGED <<port, error, arrived, current, stop, conf, capturing, raw, astray, registered, sending>>

\* The adapter goes: the read raises, and only the live reader says so.
ReadFails(r) ==
    /\ readers[r].live /\ readers[r].reading /\ readers[r].held = None
    /\ error' = (error \/ ~readers[r].stopped)
    /\ readers' = [readers EXCEPT ![r] = [@ EXCEPT !.live = FALSE, !.reading = FALSE]]
    /\ UNCHANGED <<port, arrived, current, stop, conf, astray, sending>> /\ UNCHANGED stream

-----------------------------------------------------------------------------
(* Opening and reconfiguring.                                              *)

Alone == Overlap \/ \A x \in Configurers : conf[x] = None

\* _stop_reader has waited for reader r: it has ended, or two seconds have passed
\* and it is cancelled, with whatever its thread had already read.
Ended(r) == r # None /\ readers[r].live => readers[r].reading
WithoutReader(r) ==
    [q \in DOMAIN readers |->
        IF q = r THEN [readers[q] EXCEPT !.live = FALSE, !.held = None] ELSE readers[q]]
Signalled(rs) == IF stop = None THEN rs ELSE [rs EXCEPT ![stop].stopped = TRUE]
LostWith(r) == IF r = None THEN {} ELSE {readers[r].held} \ {None}

\* _ensure_open, for a capture or a send: a port whose reader failed is closed
\* and opened again.
EnsureOpen ==
    IF port # 0 /\ ~error THEN UNCHANGED <<port, error, readers, current, stop, astray>>
    ELSE /\ Ended(current) /\ NewReader
         /\ port' = Started + 1 /\ error' = FALSE
         /\ readers' = Append(Signalled(WithoutReader(current)), Fresh(port'))
         /\ astray' = astray \cup LostWith(current)

\* serial.configure, up to its suspension: the reader is taken out, its event is
\* set and its read woken.  With no reader to wait for it goes straight on.
Configure(x) ==
    /\ port # 0 /\ conf[x] = None /\ Alone
    /\ conf' = [conf EXCEPT ![x] = IF current = None THEN 0 ELSE current]
    /\ current' = None
    /\ readers' = Signalled(readers)
    /\ UNCHANGED <<port, error, arrived, stop, astray, sending>> /\ UNCHANGED stream

\* The reader is gone; the settings are applied (or put back) and a new reader
\* is started on the port, either way.
Apply(x) ==
    /\ conf[x] # None /\ port # 0
    /\ LET r == IF conf[x] = 0 THEN None ELSE conf[x] IN
       /\ Ended(r)
       /\ readers' = Append(WithoutReader(r), Fresh(port))
       /\ astray' = astray \cup LostWith(r)
    /\ NewReader
    /\ conf' = [conf EXCEPT ![x] = None]
    /\ UNCHANGED <<port, error, arrived, sending>> /\ UNCHANGED stream

-----------------------------------------------------------------------------
(* The actions.                                                            *)

\* serial.capture opens the port before it creates any file, then subscribes.
OpenForCapture ==
    /\ capturing = "off" /\ Alone /\ EnsureOpen /\ capturing' = "opening"
    /\ UNCHANGED <<arrived, conf, buffer, spilt, raw, missed, registered, sending>>

Subscribe ==
    /\ capturing = "opening" /\ capturing' = "on"
    /\ UNCHANGED <<port, error, arrived, readers, current, stop, conf, buffer, spilt, raw, missed,
                   astray, registered, sending>>

\* One chunk goes from the queue to the raw file and the index.
Sink ==
    /\ capturing = "on" /\ buffer # <<>> /\ Len(raw) < Budget
    /\ raw' = Append(raw, Head(buffer)) /\ buffer' = Tail(buffer)
    /\ UNCHANGED <<port, error, arrived, readers, current, stop, conf, capturing, spilt, missed, astray,
                   registered, sending>>

(* Mutant: the file of a capture that ends early is not registered.        *)
EndCaptureUnregistered ==
    /\ capturing = "on" /\ capturing' = "over" /\ buffer' = <<>> /\ missed' = missed \cup ToSet(buffer)
    /\ registered' = IF Len(raw) = Budget THEN Len(raw) ELSE None
    /\ UNCHANGED <<port, error, arrived, readers, current, stop, conf, spilt, raw, astray, sending>>

\* Duration, budget, a failed reader seen on an empty queue, or a cancellation:
\* in every case the files are closed and then registered.
EndCapture ==
    /\ capturing = "on"
    /\ capturing' = "over" /\ buffer' = <<>> /\ missed' = missed \cup ToSet(buffer)
    /\ registered' = Len(raw)
    /\ UNCHANGED <<port, error, arrived, readers, current, stop, conf, spilt, raw, astray, sending>>

\* serial.send: the whole payload is written by a worker thread.
Send ==
    /\ sending = "idle" /\ Alone /\ EnsureOpen /\ sending' = "writing"
    /\ UNCHANGED <<arrived, conf>> /\ UNCHANGED stream
SendEnds(how) ==
    /\ sending = "writing" /\ sending' = how
    /\ UNCHANGED <<port, error, arrived, readers, current, stop, conf, astray>> /\ UNCHANGED stream

Next ==
    \/ OpenForCapture \/ Subscribe \/ Sink \/ EndCapture \/ Send
    \/ \E how \in {"sent", "failed"} : SendEnds(how)
    \/ \E r \in DOMAIN readers : Wait(r) \/ ReadReturns(r) \/ Publish(r) \/ ReadFails(r)
    \/ \E x \in Configurers : Configure(x) \/ Apply(x)

Spec == Init /\ [][Next]_vars

-----------------------------------------------------------------------------
(* Properties.                                                             *)

Held == {readers[r].held : r \in DOMAIN readers} \ {None}

\* "Bytes are preserved exactly": what a capture has taken is in order, and every
\* chunk that arrived is in the file, on its way to it, dropped and counted, went
\* by while nobody listened, or was lost with a reader that had to be cancelled.
\* However a capture ends its artifact describes the finished file.
BytesInOrder ==
    LET taken == raw \o buffer IN
    /\ \A i, j \in DOMAIN taken : i < j => taken[i] < taken[j]
    /\ 1 .. arrived = ToSet(taken) \cup spilt \cup missed \cup astray \cup Held
    /\ Cardinality(ToSet(taken)) + Cardinality(spilt \cup missed \cup astray \cup Held) = arrived
    /\ capturing = "over" <=> registered = Len(raw)
=============================================================================
