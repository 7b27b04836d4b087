----------------------------- MODULE PanelState -----------------------------
(***************************************************************************)
(* The operator panel (ui/): the supervisor that connects and polls, the   *)
(* pump that consumes the daemon's events, the gestures of the screens and *)
(* the task that keeps the output lease alive.                             *)
(*                                                                         *)
(* Of the daemon: the version of its device list, one supply's rail, the   *)
(* leases this panel's connection holds, and the requests it has read and  *)
(* not answered; those on the supply wait for its lock in order.           *)
(***************************************************************************)
EXTENDS Naturals, Sequences, FiniteSets, SequencesExt

CONSTANTS
    MaxVersion,     \* of the daemon's device list
    MaxLeases,      \* leases issued in a behaviour
    Capacity,       \* of the subscription's queue
    MaxJobs,        \* requests on the supply that wait in the daemon
    MaxRestarts, MaxTimeouts

VARIABLES
    running,     \* whether the daemon runs
    version,     \* of its device list
    rail,        \* whether the supply's output is on
    leases,      \* the panel's leases the daemon honours
    issued,      \* leases issued so far
    jobs,        \* requests on the supply: [on, heard]; heard: its gesture still waits
    events,      \* the subscription's queue in the panel
    open,        \* whether the supervisor's connection is open
    client,      \* whether _client is set: what gestures and renewals use
    supervisor,  \* what the supervisor is doing
    want,        \* _want_devices
    answer,      \* the device list on its way, by version; 0 when there is none
    shown,       \* the device list shown
    behind,      \* why it may be behind: an event dropped or a poll refused
    held,        \* _held_lease, 0 when there is none
    keeper,      \* the _keep_lease task
    tap,         \* the gesture on the supply
    reply,       \* its reply, not yet looked at: none, 0 for no lease, or a lease
    stopping,    \* the emergency stop sent from the panel
    restarts, timeouts

daemon == <<running, version, rail, leases, issued>>
link == <<open, client, supervisor>>
list == <<version, want, answer, shown, behind, events>>
lease == <<held, keeper>>
gesture == <<jobs, tap, reply>>
vars == <<daemon, link, list, lease, gesture, stopping, restarts, timeouts>>

Unanswered == MaxLeases + 1
Ids == 1 .. MaxLeases
DevicesChanged == 0      \* the event; a lease's id stands for its expiry or release

\* What the proofs ask of the constants.
Constants ==
    /\ MaxVersion \in Nat \ {0} /\ MaxLeases \in Nat /\ Capacity \in Nat /\ MaxJobs \in Nat
    /\ MaxRestarts \in Nat /\ MaxTimeouts \in Nat

TypeOK ==
    /\ running \in BOOLEAN /\ rail \in BOOLEAN /\ open \in BOOLEAN /\ client \in BOOLEAN
    /\ version \in 1 .. MaxVersion /\ leases \subseteq Ids /\ issued \in 0 .. MaxLeases
    /\ jobs \in Seq([on : BOOLEAN, heard : BOOLEAN]) /\ Len(jobs) <= MaxJobs
    /\ events \in Seq(0 .. MaxLeases) /\ Len(events) <= Capacity
    /\ supervisor \in {"backoff", "safety", "devices", "sleep", "closing"}
    /\ want \in BOOLEAN /\ answer \in 0 .. MaxVersion /\ shown \in 0 .. MaxVersion
    /\ behind \in BOOLEAN /\ stopping \in BOOLEAN
    /\ held \in 0 .. MaxLeases /\ keeper \in {"none", "asleep", "asked", "granted", "refused"}
    /\ tap \in {"none", "on", "off"} /\ reply \in 0 .. Unanswered
    /\ restarts \in 0 .. MaxRestarts /\ timeouts \in 0 .. MaxTimeouts

Init ==
    /\ running = TRUE /\ version = 1 /\ rail = FALSE /\ leases = {} /\ issued = 0
    /\ jobs = <<>> /\ events = <<>> /\ open = FALSE /\ client = FALSE /\ supervisor = "backoff"
    /\ want = TRUE /\ answer = 0 /\ shown = 0 /\ behind = FALSE
    /\ held = 0 /\ keeper = "none" /\ tap = "none" /\ reply = Unanswered /\ stopping = FALSE
    /\ restarts = 0 /\ timeouts = 0

\* A full queue gives up its oldest event for the newest.
Delivered(es) == LET all == events \o es IN
    SubSeq(all, Len(all) - (IF Len(all) > Capacity THEN Capacity ELSE Len(all)) + 1, Len(all))
Notify(es) ==
    /\ events' = IF open THEN Delivered(es) ELSE events
    /\ behind' = (behind \/ (open /\ DevicesChanged \in ToSet(SubSeq(events \o es, 1,
                                            Len(events) + Len(es) - Len(events')))))

-----------------------------------------------------------------------------
(* The supervisor.                                                         *)

Connect ==
    /\ supervisor = "backoff" /\ running
    /\ open' = TRUE /\ client' = TRUE /\ supervisor' = "safety" /\ want' = TRUE
    /\ UNCHANGED <<daemon, answer, shown, behind, events, lease, gesture, stopping,
                   restarts, timeouts>>

PollSafety ==
    /\ supervisor = "safety" /\ open
    /\ supervisor' = (IF want THEN "devices" ELSE "sleep") /\ want' = FALSE
    /\ UNCHANGED <<daemon, open, client, answer, shown, behind, events, lease, gesture, stopping,
                   restarts, timeouts>>

ListDevices ==
    /\ supervisor = "devices" /\ open /\ answer = 0
    /\ answer' = version /\ behind' = FALSE
    /\ UNCHANGED <<daemon, link, want, shown, events, lease, gesture, stopping,
                   restarts, timeouts>>

(* Mutant: a list that arrives settles what was asked for meanwhile.       *)
DevicesListedForAll ==
    /\ supervisor = "devices" /\ answer # 0
    /\ shown' = answer /\ answer' = 0 /\ supervisor' = "sleep" /\ want' = FALSE
    /\ UNCHANGED <<daemon, open, client, behind, events, lease, gesture, stopping,
                   restarts, timeouts>>

DevicesListed ==
    /\ supervisor = "devices" /\ answer # 0
    /\ shown' = answer /\ answer' = 0 /\ supervisor' = "sleep"
    /\ UNCHANGED <<daemon, open, client, want, behind, events, lease, gesture, stopping,
                   restarts, timeouts>>

\* The action is refused: nothing asks again until the next event.
DevicesRefused ==
    /\ supervisor = "devices" /\ open /\ answer = 0
    /\ behind' = TRUE /\ supervisor' = "sleep"
    /\ UNCHANGED <<daemon, open, client, want, answer, shown, events, lease, gesture,
                   stopping, restarts, timeouts>>

Wake ==
    /\ supervisor = "sleep" /\ supervisor' = "safety"
    /\ UNCHANGED <<daemon, open, client, list, lease, gesture, stopping, restarts, timeouts>>

\* A call of the supervisor's own fails: the daemon is gone, or is too slow.
PollFails ==
    /\ supervisor \in {"safety", "devices"} /\ answer = 0
    /\ \/ ~open /\ UNCHANGED timeouts
       \/ timeouts < MaxTimeouts /\ timeouts' = timeouts + 1
    /\ client' = FALSE /\ supervisor' = "closing"
    /\ UNCHANGED <<daemon, open, list, lease, gesture, stopping, restarts>>

\* The daemon sees the connection end, and drives what it held safe.
Unheard == [i \in DOMAIN jobs |-> [jobs[i] EXCEPT !.heard = FALSE]]
Close ==
    /\ supervisor = "closing"
    /\ open' = FALSE /\ client' = FALSE /\ supervisor' = "backoff"
    /\ held' = 0 /\ keeper' = "none" /\ events' = <<>>
    /\ leases' = {} /\ rail' = (rail /\ leases = {}) /\ jobs' = <<>>
    /\ tap' = (IF reply = Unanswered THEN "none" ELSE tap)
    /\ UNCHANGED <<running, version, issued, want, answer, shown, behind, reply, stopping,
                   restarts, timeouts>>

Pump ==
    /\ events # <<>> /\ supervisor # "backoff"
    /\ events' = Tail(events)
    /\ want' = (want \/ Head(events) = DevicesChanged)
    /\ held' = (IF Head(events) = held THEN 0 ELSE held)
    /\ UNCHANGED <<daemon, link, answer, shown, behind, keeper, gesture, stopping,
                   restarts, timeouts>>

-----------------------------------------------------------------------------
(* The daemon.                                                             *)

DeviceChanges ==
    /\ running /\ version < MaxVersion
    /\ version' = version + 1 /\ Notify(<<DevicesChanged>>)
    /\ UNCHANGED <<running, rail, leases, issued, link, want, answer, shown, lease, gesture, stopping,
                   restarts, timeouts>>

\* psu.output, its turn at the supply having come.  Enabling may be refused;
\* it takes a lease of its own, whatever leases there are.
Answered(r) == reply' = IF Head(jobs).heard THEN r ELSE reply
SwitchOn ==
    /\ jobs # <<>> /\ Head(jobs).on /\ issued < MaxLeases
    /\ jobs' = Tail(jobs) /\ rail' = TRUE /\ issued' = issued + 1
    /\ leases' = leases \cup {issued + 1} /\ Answered(issued + 1)
    /\ UNCHANGED <<running, version, link, want, answer, shown, behind, events, lease, tap, stopping,
                   restarts, timeouts>>
SwitchOnRefused ==
    /\ jobs # <<>> /\ Head(jobs).on
    /\ jobs' = Tail(jobs) /\ Answered(0)
    /\ UNCHANGED <<daemon, link, list, lease, tap, stopping, restarts, timeouts>>
SwitchOff ==
    /\ jobs # <<>> /\ ~Head(jobs).on
    /\ jobs' = Tail(jobs) /\ rail' = FALSE /\ leases' = {} /\ Answered(0)
    /\ Notify(SetToSeq(leases))
    /\ UNCHANGED <<running, version, issued, link, want, answer, shown, lease, tap, stopping,
                   restarts, timeouts>>

\* A lease nobody renews, or one renewed too late, lapses.
Lapse(l) ==
    /\ l \in leases /\ (l = held => keeper = "asked")
    /\ leases' = leases \ {l} /\ rail' = FALSE /\ Notify(<<l>>)
    /\ UNCHANGED <<running, version, issued, link, want, answer, shown, lease, gesture, stopping,
                   restarts, timeouts>>

Renewal ==
    /\ keeper = "asked" /\ open
    /\ keeper' = IF held \in leases THEN "granted" ELSE "refused"
    /\ UNCHANGED <<daemon, link, list, held, gesture, stopping, restarts, timeouts>>

EstopRuns ==
    /\ stopping /\ open
    /\ stopping' = FALSE /\ rail' = FALSE /\ leases' = {}
    /\ UNCHANGED <<running, version, issued, link, list, lease, gesture, restarts, timeouts>>

Restart ==
    /\ IF running THEN restarts < MaxRestarts /\ restarts' = restarts + 1 ELSE UNCHANGED restarts
    /\ running' = ~running /\ open' = FALSE /\ rail' = FALSE /\ leases' = {} /\ jobs' = <<>>
    /\ UNCHANGED <<version, issued, client, supervisor, list, lease, tap, reply, stopping, timeouts>>

-----------------------------------------------------------------------------
(* Gestures and the keeper.                                                *)

\* set_output stops the keeper first.  A second tap cancels the gesture that
\* waits, not what it sent.
Tap(on) ==
    /\ Len(jobs) < MaxJobs
    /\ held' = 0 /\ keeper' = "none" /\ reply' = Unanswered
    /\ IF client
       THEN /\ tap' = IF on THEN "on" ELSE "off"
            /\ jobs' = IF open THEN Append(Unheard, [on |-> on, heard |-> TRUE]) ELSE jobs
       ELSE /\ tap' = "none" /\ jobs' = Unheard
    /\ UNCHANGED <<daemon, link, list, stopping, restarts, timeouts>>

\* The reply is looked at; one that failed with the connection is an error.
TapReturns ==
    /\ tap # "none" /\ reply # Unanswered
    /\ tap' = "none" /\ reply' = Unanswered
    /\ IF tap = "on" /\ reply # 0
       THEN held' = reply /\ keeper' = "asleep" ELSE UNCHANGED lease
    /\ UNCHANGED <<daemon, link, list, jobs, stopping, restarts, timeouts>>

TapFails ==
    /\ tap # "none" /\ reply = Unanswered
    /\ \/ ~open /\ UNCHANGED timeouts
       \/ timeouts < MaxTimeouts /\ timeouts' = timeouts + 1
    /\ tap' = "none" /\ client' = FALSE /\ jobs' = Unheard
    /\ UNCHANGED <<daemon, open, supervisor, list, lease, reply, stopping, restarts>>

Estop ==
    /\ client /\ ~stopping
    /\ held' = 0 /\ keeper' = "none" /\ stopping' = open
    /\ UNCHANGED <<daemon, link, list, gesture, restarts, timeouts>>

\* The keeper's sleep ends, at a third of the lease or because anything woke
\* the panel; with no lease to keep, or no client to ask, it ends.
Renew ==
    /\ keeper = "asleep"
    /\ keeper' = (IF held # 0 /\ client THEN "asked" ELSE "none")
    /\ held' = (IF client THEN held ELSE 0)
    /\ UNCHANGED <<daemon, link, list, gesture, stopping, restarts, timeouts>>

Renewed ==
    /\ keeper \in {"granted", "refused"}
    /\ keeper' = (IF keeper = "granted" /\ held # 0 THEN "asleep" ELSE "none")
    /\ held' = (IF keeper = "granted" THEN held ELSE 0)
    /\ UNCHANGED <<daemon, link, list, gesture, stopping, restarts, timeouts>>

(* Mutant: a renewal that fails leaves the lease on the screen.            *)
RenewFailsQuietly ==
    /\ keeper = "asked"
    /\ \/ ~open /\ UNCHANGED timeouts
       \/ timeouts < MaxTimeouts /\ timeouts' = timeouts + 1
    /\ keeper' = "none" /\ client' = FALSE
    /\ UNCHANGED <<daemon, open, supervisor, list, held, gesture, stopping, restarts>>

RenewFails ==
    /\ keeper = "asked"
    /\ \/ ~open /\ UNCHANGED timeouts
       \/ timeouts < MaxTimeouts /\ timeouts' = timeouts + 1
    /\ keeper' = "none" /\ held' = 0 /\ client' = FALSE
    /\ UNCHANGED <<daemon, open, supervisor, list, gesture, stopping, restarts>>

Panel == Connect \/ PollSafety \/ DevicesListed \/ Wake \/ PollFails \/ Close \/ Pump
         \/ TapReturns \/ TapFails \/ Renew \/ Renewed \/ RenewFails
Served == ListDevices \/ SwitchOn \/ SwitchOnRefused \/ SwitchOff \/ Renewal \/ EstopRuns

Next ==
    \/ Panel \/ Served \/ DevicesRefused \/ DeviceChanges \/ Restart \/ Estop
    \/ \E l \in Ids : Lapse(l)
    \/ \E on \in BOOLEAN : Tap(on)

Spec == Init /\ [][Next]_vars

\* The event loop runs what is ready; the daemon answers; it is started again.
Fairness ==
    /\ WF_vars(Connect) /\ WF_vars(PollSafety) /\ WF_vars(DevicesListed) /\ WF_vars(Wake)
    /\ WF_vars(PollFails /\ ~open) /\ WF_vars(Close) /\ WF_vars(Pump)
    /\ WF_vars(ListDevices) /\ WF_vars(Restart /\ ~running)
FairSpec == Spec /\ Fairness

-----------------------------------------------------------------------------
(* A lease the panel says it holds has a keeper that will ask for it, and  *)
(* so find out when it is gone: gestures are cancelled half-way, a reply   *)
(* arrives after the link went, events take the lease away under a renewal.*)
HeldIsKept == held # 0 => keeper # "none"

(* With nothing on its way, the devices shown are the daemon's, whatever   *)
(* changed while the panel was asking -- unless an event was pushed out of *)
(* the full queue or the daemon refused the list.                          *)
DevicesCurrent ==
    supervisor = "sleep" /\ open /\ ~want /\ DevicesChanged \notin ToSet(events) /\ ~behind
        => shown = version

(* "A screen cannot queue up four output-enable requests because the       *)
(* daemon took a moment to answer the first" (ui/screens/__init__.py:12).  *)
OneEnable == Len(SelectSeq(jobs, LAMBDA j : j.on)) <= 1

(* "The connection is retried forever" (ui/state.py:15): a panel without a *)
(* client gets one again.                                                  *)
Reconnects == ~client ~> client
=============================================================================
