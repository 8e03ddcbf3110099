---------------------------- MODULE SectorStore ----------------------------
(***************************************************************************)
(* What the buffer cache promises (the head of bio.c): each disk sector is *)
(* used by one process at a time, and its user sees what was last written. *)
(***************************************************************************)
CONSTANTS Procs, Sectors, Value, Nothing

VARIABLES store,    \* the content of every sector
          user,     \* user[s]: the processes that use sector s
          seen      \* what a process that uses a sector finds in it

ssVars == <<store, user, seen>>

SSInit ==
    /\ store \in [Sectors -> Value]
    /\ user = [s \in Sectors |-> {}]
    /\ seen = [p \in Procs |-> Nothing]

Take(p, s) ==
    /\ \A r \in Sectors : p \notin user[r]
    /\ user[s] = {}
    /\ user' = [user EXCEPT ![s] = {p}]
    /\ seen' = [seen EXCEPT ![p] = store[s]]
    /\ UNCHANGED store

Change(p, s, v) ==
    /\ p \in user[s]
    /\ store' = [store EXCEPT ![s] = v]
    /\ seen' = [seen EXCEPT ![p] = v]
    /\ UNCHANGED user

Leave(p, s) ==
    /\ p \in user[s]
    /\ user' = [user EXCEPT ![s] = {}]
    /\ seen' = [seen EXCEPT ![p] = Nothing]
    /\ UNCHANGED store

SSNext ==
    \E p \in Procs, s \in Sectors :
        Take(p, s) \/ Leave(p, s) \/ \E v \in Value : Change(p, s, v)

SSSpec == SSInit /\ [][SSNext]_ssVars
=============================================================================
