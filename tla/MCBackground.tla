---------------------------- MODULE MCBackground ----------------------------
(***************************************************************************)
(* Instances of Background for TLC.                                        *)
(***************************************************************************)
EXTENDS Background

CONSTANTS l1, l2, v1, v2, e1, e2

\* Two faults of processes and commands, or a restart of Redis.
MCFaults == {[steps |-> 2, restarts |-> 0], [steps |-> 0, restarts |-> 1]}

New(mode, cap) == [mode |-> mode, cap |-> cap, loc |-> l1, start |-> 1, end |-> 2]
MCEvents == {New("slot_capacity", 1), New("unit_assigned", Unset)}

Alone(ops, fields)  == [does |-> ops, sets |-> fields, overlap |-> FALSE]
Racing(ops, fields) == [does |-> ops, sets |-> fields, overlap |-> TRUE]

\* One request at a time: mode, capacity, seats and bookings; locations.
\* Overlapping: updates of the times; whatever a delete may meet; reviews.
MCAgendas ==
    {Alone({"tier", "seats", "update", "book", "delete"}, {"mode", "cap"}),
     Alone({"location", "update", "delete", "close"}, {"loc"}),
     Racing({"update", "delete"}, {"start", "end"}),
     Racing({"tier", "seats", "location", "book", "delete"}, {}),
     Racing({"review", "book", "close"}, {})}

\* Two requests about one code, which runs out; one at a time about two addresses.
MCPlans ==
    {[visitors |-> {v1, v2}, addresses |-> {e1}, codes |-> 1, time |-> TRUE],
     [visitors |-> {v1}, addresses |-> {e1, e2}, codes |-> 2, time |-> FALSE]}
=============================================================================
