-------------------------- MODULE PrefixOwnership ---------------------------
(***************************************************************************)
(* What the ownership guard of a shared tile-cache prefix promises          *)
(* (docs/tile-cache.md, "Prefix ownership guard"): at any time at most one  *)
(* process holds the prefix and only the holder writes to it.  The prefix   *)
(* changes hands when it is free, or from a holder that no longer writes.   *)
(* The promise ends when an operator forces a takeover of a running process.*)
(***************************************************************************)
CONSTANTS Procs, None

VARIABLES
    holder,   \* the process that holds the prefix, or None
    writing,  \* the processes that are writing below the prefix
    forced    \* running processes whose takeover an operator forced

prefixVars == <<holder, writing, forced>>

Init == holder = None /\ writing = {} /\ forced = {}

Acquire(p) ==
    /\ holder = None /\ writing = {}
    /\ holder' = p
    /\ UNCHANGED <<writing, forced>>

(* The operator has established that the holder is dead. *)
Takeover(p) ==
    /\ holder # None /\ writing = {}
    /\ holder' = p
    /\ UNCHANGED <<writing, forced>>

StartWriting(p) ==
    /\ holder = p
    /\ writing' = writing \cup {p}
    /\ UNCHANGED <<holder, forced>>

StopWriting(p) ==
    /\ writing' = writing \ {p}
    /\ UNCHANGED <<holder, forced>>

Release(p) ==
    /\ holder = p /\ p \notin writing
    /\ holder' = None
    /\ UNCHANGED <<writing, forced>>

(* Whatever the holders do from here on. *)
Forfeit == forced' # {}

Next ==
    \/ Forfeit
    \/ \E p \in Procs : Acquire(p) \/ Takeover(p) \/ StartWriting(p) \/ StopWriting(p) \/ Release(p)

Spec == Init /\ [][Next]_prefixVars
=============================================================================
