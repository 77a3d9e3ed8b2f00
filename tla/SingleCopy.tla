----------------------------- MODULE SingleCopy ------------------------------
(***************************************************************************)
(* What chain replication promises of one key: the clients work on a single*)
(* copy.  A write is acknowledged after it was loaded into the copy, a read*)
(* returns what the copy said at a moment between its call and its answer. *)
(* A call that fails promises nothing: it may have been loaded, or be      *)
(* loaded later, and every call may be loaded more than once, because the  *)
(* callers repeat it.  Nodes also call for snapshots to be loaded          *)
(* (anti-entropy, healing); a snapshot lists nobody who did not announce.  *)
(***************************************************************************)
EXTENDS DataStore

CONSTANT Ops

VARIABLES
  copy,     \* the record of the key
  call,     \* call[o] is what the caller of operation o knows of it
  loaded,   \* the operations that were loaded
  seen      \* seen[o] are the answers read o could return

Read == [kind |-> "read"]

Unused == [phase |-> "none", item |-> Read, answer |-> {}]

Init ==
  /\ copy = Absent
  /\ call = [o \in Ops |-> Unused]
  /\ loaded = {}
  /\ seen = [o \in Ops |-> {}]

\* p announced the key at time t.
Announced(p, t) ==
  \E o \in Ops : /\ call[o].phase # "none"
                 /\ call[o].item = [kind |-> "insert", peer |-> p, ts |-> t]

\* The caller chooses its item; the next state says which.
Invoke(o) ==
  LET item == call'[o].item
  IN  /\ call[o].phase = "none"
      /\ item \in Items \cup {Read}
      /\ item.kind = "state" =>
           \A p \in Peers : item.peers[p] > 0 => Announced(p, item.peers[p])
      /\ call' = [call EXCEPT ![o] = [phase |-> "waiting", item |-> item, answer |-> {}]]
      /\ UNCHANGED <<copy, loaded, seen>>

Load(o) ==
  /\ call[o].phase # "none" /\ call[o].item.kind # "read"
  /\ copy' = BulkLoad(copy, call[o].item)
  /\ loaded' = loaded \cup {o}
  /\ UNCHANGED <<call, seen>>

Look(o) ==
  /\ call[o].phase # "none" /\ call[o].item.kind = "read"
  /\ seen' = [seen EXCEPT ![o] = @ \cup {Query(copy)}]
  /\ UNCHANGED <<copy, call, loaded>>

Return(o, answer) ==
  /\ call[o].phase = "waiting"
  /\ call[o].item.kind \in {"insert", "remove"} => o \in loaded
  /\ call[o].item.kind = "read" => answer \in seen[o]
  /\ call' = [call EXCEPT ![o] = [phase |-> "acked", item |-> @.item, answer |-> answer]]
  /\ UNCHANGED <<copy, loaded, seen>>

Fail(o) ==
  /\ call[o].phase = "waiting"
  /\ call' = [call EXCEPT ![o] = [phase |-> "failed", item |-> @.item, answer |-> {}]]
  /\ UNCHANGED <<copy, loaded, seen>>

Next ==
  \E o \in Ops :
    \/ Invoke(o) \/ Load(o) \/ Look(o) \/ Fail(o)
    \/ \E answer \in SUBSET Peers : Return(o, answer)

vars == <<copy, call, loaded, seen>>

Spec == Init /\ [][Next]_vars
=============================================================================
