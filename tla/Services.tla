------------------------------ MODULE Services ------------------------------
(* The daemon and what stands around it: its sessions on disk, its device  *)
(* registry, the operator panel, the MCP server and the command line.  The *)
(* constants and variables are those of the components, under their own    *)
(* names where WITH gives no other: see there what each is.                *)
EXTENDS Integers, Sequences, FiniteSets, SharedConstants

CONSTANTS
    Captures, Stem(_), External(_), MaxSessions, MaxEvents, BatchSize,
    Supplies, Clients, Scans,
    MaxVersion, MaxLeases, MaxJobs, MaxRestarts, MaxTimeouts,
    McpRequests, Used, Slots, MaxClients,
    ClassLists, Ttls, HoldFor, Floor, MaxLate, MaxTime

VARIABLES
    up, recorder, attached, closed, json, wet, n, home, grave, rows, log, trail,
    complained, spoilt, cap, files, artifacts, faults,
    phase, present, registry, output, lease, lapsed, job, late, safing, excuse, scan,
    found, conns, lost, spent,
    running, version, rail, leases, issued, jobs, events, open, client, supervisor, want,
    answer, shown, behind, held, keeper, tap, reply, stopping, restarts, timeouts,
    req, ran, written, line, link, connecting, peer, made, daemon, granted, stdin,
    outages,
    inv, todo, conn, typed, did, docs, exit, recipe, planShown, leasedTill, now, wake,
    lag, holdEnd

S == INSTANCE SessionStore
D == INSTANCE Daemon WITH Devices <- Supplies
U == INSTANCE PanelState
A == INSTANCE McpServer WITH Requests <- McpRequests
X == INSTANCE Fdctl
=============================================================================
