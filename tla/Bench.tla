------------------------------- MODULE Bench --------------------------------
(* What the daemon reaches on a bench and what it makes of it: the lines,  *)
(* the decoders, the flash tools, and the plans of recipes.  The constants *)
(* and variables are those of the components, under their own names where  *)
(* WITH gives no other: see there what each is.                            *)
EXTENDS Integers, Sequences, FiniteSets, SharedConstants

CONSTANTS
    Callers, Addresses, Gatewayed,
    BusFrames, MaxFrames, Count,
    Configurers, Chunks, Budget, MaxReaders, Overlap,
    Senders, Bodies, Opening, OtherIds,
    Calls, Tools, Images,
    Devices, OnDisk, GlobalLimits, DeviceLimits, Denied, Setpoints, MaxSteps, MaxDepth

VARIABLES
    lock, waiting, deadline, doing, wire, table, told, effect,
    heard, queue, dropped, cut, file, capture, outcome, artifact, summary, interface,
    unlocked, sender, stray,
    port, error, arrived, readers, current, stop, conf, capturing, buffer, spilt, raw,
    missed, astray, registered, sending,
    onBus, delayed, seen, pending, messages, groups, noise, done,
    firmware, target, call, hash, proc, records,
    resolved, plan, armed, pc, supply, filled, refused

M == INSTANCE Modbus
C == INSTANCE CanBus
P == INSTANCE SerialPort
B == INSTANCE BusDecoders WITH Idle <- OtherIds
F == INSTANCE FlashTools
R == INSTANCE RecipePlan WITH Recipes <- OnDisk
=============================================================================
