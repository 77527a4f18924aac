---------------------------- MODULE BerkeleySync ----------------------------
(***************************************************************************)
(* The two threads of a BerkeleyDB store.  An operation changes the tables *)
(* in memory and raises __needs_sync as its last act; __sync_run polls the *)
(* flag, lets some time pass for more changes to come, and then has the    *)
(* tables written to disk.  close() waits for the thread to end.           *)
(*                                                                         *)
(* No lock guards the flag: the steps of the two threads alternate in any  *)
(* order between two accesses to it.                                       *)
(***************************************************************************)
EXTENDS BerkeleyStore

VARIABLES
  needsSync,  \* __needs_sync
  raising,    \* an operation has changed the tables and has still to raise it
  thread,     \* where __sync_run is
  mode,       \* __open, and whether close() waits for the thread
  unsynced    \* triples were added or removed and the tables not written since

syncVars == <<needsSync, raising, thread, mode, unsynced>>
allVars == <<vars, syncVars>>

SyncInit ==
  /\ Init
  /\ needsSync = FALSE /\ raising = FALSE /\ unsynced = FALSE
  /\ thread = "asleep" /\ mode = "open"

-----------------------------------------------------------------------------
(* The thread that calls the store. *)

(* add() and remove(), up to their last assignment. *)
Operate ==
  /\ mode = "open" /\ ~raising
  /\ Change
  /\ raising' = TRUE
  /\ unsynced' = (unsynced \/ index' # index)
  /\ UNCHANGED <<needsSync, thread, mode>>

Raise ==
  /\ raising
  /\ raising' = FALSE /\ needsSync' = TRUE
  /\ UNCHANGED <<vars, thread, mode, unsynced>>

(* Operations that do not raise the flag: what add_graph puts into the     *)
(* table of contexts is written with the next change, or by close().       *)
OperateSilently ==
  /\ mode = "open" /\ ~raising
  /\ Read \/ \E c \in Graphs : AddGraph(c)
  /\ UNCHANGED syncVars

(* close() ends the loops of the thread and waits for it.                  *)
Close ==
  /\ mode = "open" /\ ~raising
  /\ mode' = "closing"
  /\ UNCHANGED <<vars, needsSync, raising, thread, unsynced>>

(* The thread has ended: close() closes the tables, which writes them.     *)
(* Generators that are suspended have lost their tables.                   *)
Join ==
  /\ mode = "closing" /\ thread = "ended"
  /\ mode' = "closed" /\ unsynced' = FALSE
  /\ reader' = [r \in Readers |-> Idle] /\ history' = [r \in Readers |-> NoHistory]
  /\ UNCHANGED <<tables, needsSync, raising, thread>>

(* open() starts a thread of its own. *)
Open ==
  /\ mode = "closed"
  /\ mode' = "open" /\ thread' = "asleep" /\ needsSync' = FALSE
  /\ UNCHANGED <<vars, raising, unsynced>>

-----------------------------------------------------------------------------
(* __sync_run.  The times it compares are left open: while it counts, it   *)
(* may find at any turn that enough has passed.                            *)

(* The thread sees the flag and lowers it, when it begins to count and     *)
(* while it counts; close() may have come since it looked at __open.       *)
Notice ==
  /\ needsSync /\ thread \in {"asleep", "counting"}
  /\ needsSync' = FALSE /\ thread' = "counting"
  /\ UNCHANGED <<vars, raising, mode, unsynced>>

(* A thread that begins anew when the time has passed. *)
ExpireSleeps ==
  /\ thread = "counting"
  /\ needsSync' = FALSE /\ thread' = "asleep"
  /\ UNCHANGED <<vars, raising, mode, unsynced>>

(* Enough time has passed: the flag is lowered before the tables are       *)
(* written.                                                                *)
Expire ==
  /\ thread = "counting"
  /\ needsSync' = FALSE /\ thread' = "due"
  /\ UNCHANGED <<vars, raising, mode, unsynced>>

(* A thread that lowers the flag once the tables are written. *)
SyncThenLower ==
  \/ /\ thread = "due" /\ thread' = "written"
     /\ unsynced' = (unsynced /\ mode # "open")
     /\ UNCHANGED <<vars, needsSync, raising, mode>>
  \/ /\ thread = "written" /\ thread' = "asleep" /\ needsSync' = FALSE
     /\ UNCHANGED <<vars, raising, mode, unsynced>>

(* sync() does nothing once the store is closed. *)
Sync ==
  /\ thread = "due"
  /\ thread' = "asleep"
  /\ unsynced' = (unsynced /\ mode # "open")
  /\ UNCHANGED <<vars, needsSync, raising, mode>>

(* A thread that leaves the inner loop and goes on with the outer one. *)
LeaveInner ==
  /\ mode = "closing" /\ thread \in {"asleep", "counting"}
  /\ thread' = "asleep"
  /\ UNCHANGED <<vars, needsSync, raising, mode, unsynced>>

(* Both loops end when the store is no longer open. *)
Leave ==
  /\ mode = "closing" /\ thread \in {"asleep", "counting"}
  /\ thread' = "ended"
  /\ UNCHANGED <<vars, needsSync, raising, mode, unsynced>>

SyncNext ==
  \/ Operate \/ Raise \/ OperateSilently
  \/ Close \/ Join \/ Open
  \/ Notice \/ Expire \/ Sync \/ Leave

(* An operation that has begun ends; the thread wakes up again and again;  *)
(* the time it counts passes, 300 seconds at most; close() goes on when    *)
(* the thread it waits for has ended.                                      *)
Fairness ==
  /\ WF_allVars(Raise) /\ WF_allVars(Join)
  /\ WF_allVars(Notice) /\ WF_allVars(Expire) /\ WF_allVars(Sync) /\ WF_allVars(Leave)

SyncSpec == SyncInit /\ [][SyncNext]_allVars /\ Fairness

-----------------------------------------------------------------------------
(* Properties. *)

(* A running operation has an open store, and a closed one no thread.      *)
SyncTypeOK ==
  /\ needsSync \in BOOLEAN /\ raising \in BOOLEAN /\ unsynced \in BOOLEAN
  /\ thread \in {"asleep", "counting", "due", "ended"}
  /\ mode \in {"open", "closing", "closed"}
  /\ raising => mode = "open"
  /\ mode = "closed" => thread = "ended" /\ ~unsynced
  /\ thread = "ended" => mode # "open"

(* A change that is not on disk has been announced to the thread, or is    *)
(* about to be, or the thread is about to write the tables.                *)
ChangeIsAnnounced ==
  unsynced /\ mode = "open" => raising \/ needsSync \/ thread \in {"counting", "due"}

(* Every change is written to disk at some time. *)
EventuallySynced == unsynced ~> ~unsynced

(* close() returns. *)
CloseReturns == mode = "closing" ~> mode = "closed"
=============================================================================
