-------------------------- MODULE SupervisorProofs --------------------------
(***************************************************************************)
(* Theorems about Supervisor, for every set of process ids and every       *)
(* timeout, restart limit and bound.                                       *)
(***************************************************************************)
EXTENDS Supervisor, TLAPS, FiniteSetTheorems

\* The slot owns the only process there is, and a respawn is pending only
\* while the slot is free.  (Without the second part nothing keeps
\* on_worker_handle_closed() from spawning over a live worker.)
SlotInv ==
    /\ child \in [Pid -> {"none", "up", "frozen", "zombie"}]
    /\ pid \in Pid \cup {NoPid}
    /\ pendingRespawn \in BOOLEAN
    /\ \A p \in Pid : child[p] # "none" => pid = p
    /\ pendingRespawn => pid = NoPid

\* The worker that the slot owns changes its state.
LEMMA OwnedChanges ==
    ASSUME SlotInv, NEW s \in {"none", "up", "frozen", "zombie"}, pid # NoPid,
           child' = [child EXCEPT ![pid] = s], UNCHANGED workerVars
    PROVE  SlotInv'
<1>1. pid \in Pid /\ pid' = pid /\ pendingRespawn' = pendingRespawn
  BY ZenonT(30) DEF SlotInv, workerVars
<1>2. child' \in [Pid -> {"none", "up", "frozen", "zombie"}]
  BY <1>1, ZenonT(30) DEF SlotInv
<1>3. \A p \in Pid : p # pid => child'[p] = child[p]
  BY <1>1, ZenonT(30) DEF SlotInv
<1>. QED  BY <1>1, <1>2, <1>3, ZenonT(30) DEF SlotInv

\* A callback that touches neither the process nor its slot.
LEMMA SlotUntouched ==
    ASSUME SlotInv, UNCHANGED <<child, pid, pendingRespawn>>
    PROVE  SlotInv'
BY ZenonT(30) DEF SlotInv

\* kill(pid, SIGKILL) acts on the worker that the slot owns.
LEMMA KillKeepsSlot ==
    ASSUME SlotInv, pid # NoPid, Kill(pid), UNCHANGED workerVars
    PROVE  SlotInv'
<1>1. CASE UNCHANGED <<child, signals>>
  <2>1. UNCHANGED <<child, pid, pendingRespawn>>  BY <1>1, ZenonT(30) DEF workerVars
  <2>. QED  BY <2>1, SlotUntouched, ZenonT(30)
<1>2. CASE Die(pid)
  <2>1. child' = [child EXCEPT ![pid] = "zombie"]  BY <1>2, ZenonT(30) DEF Die
  <2>2. "zombie" \in {"none", "up", "frozen", "zombie"}  OBVIOUS
  <2>. QED  BY <2>1, <2>2, OwnedChanges, ZenonT(30)
<1>. QED  BY <1>1, <1>2, ZenonT(30) DEF Kill

\* on_sigchld() frees the slot of the process it reaps.
LEMMA ReapFreesSlot ==
    ASSUME SlotInv, OnSigchld
    PROVE  SlotInv'
<1>1. CASE pid # NoPid /\ child[pid] = "zombie"
  <2>1. /\ child' = [child EXCEPT ![pid] = "none"] /\ pid' = NoPid
        /\ pendingRespawn' \in BOOLEAN
    BY <1>1, ZenonT(30) DEF OnSigchld
  <2>2. pid \in Pid  BY <1>1, ZenonT(30) DEF SlotInv
  <2>3. child' \in [Pid -> {"none", "up", "frozen", "zombie"}]
    BY <2>1, <2>2, ZenonT(30) DEF SlotInv
  <2>4. \A p \in Pid : child'[p] = "none"
    BY <2>1, <2>2, ZenonT(30) DEF SlotInv
  <2>. QED  BY <2>1, <2>3, <2>4, ZenonT(30) DEF SlotInv
<1>2. CASE ~(pid # NoPid /\ child[pid] = "zombie")
  <2>1. UNCHANGED <<child, pid, pendingRespawn>>
    BY <1>2, ZenonT(30) DEF OnSigchld, workerVars
  <2>. QED  BY <2>1, SlotUntouched, ZenonT(30)
<1>. QED  BY <1>1, <1>2

\* on_worker_handle_closed() spawns only into a free slot.
LEMMA RespawnIntoFreeSlot ==
    ASSUME SlotInv, OnHandlesClosed
    PROVE  SlotInv'
<1>1. ASSUME pendingRespawn, NEW p \in Pid, Spawn(p)  PROVE SlotInv'
  <2>1. child' = [child EXCEPT ![p] = "up"] /\ pid' = p /\ pendingRespawn' = FALSE
    BY <1>1, ZenonT(30) DEF Spawn
  <2>2. \A q \in Pid : child[q] = "none"
    <3>1. pid = NoPid  BY <1>1, ZenonT(30) DEF SlotInv
    <3>2. pid \notin Pid  BY <3>1, SupervisorAssumption, ZenonT(30)
    <3>. QED  BY <3>2, ZenonT(30) DEF SlotInv
  <2>3. child' \in [Pid -> {"none", "up", "frozen", "zombie"}]
    BY <2>1, ZenonT(30) DEF SlotInv
  <2>4. \A q \in Pid : q # p => child'[q] = "none"
    BY <2>1, <2>2, ZenonT(30) DEF SlotInv
  <2>. QED  BY <2>1, <2>3, <2>4, ZenonT(30) DEF SlotInv
<1>2. ASSUME pendingRespawn' = FALSE \/ pendingRespawn' = pendingRespawn, UNCHANGED <<child, pid>>
      PROVE  SlotInv'
  <2>1. CASE pendingRespawn' = pendingRespawn
    BY <1>2, <2>1, SlotUntouched, ZenonT(30)
  <2>2. CASE pendingRespawn' = FALSE
    <3>1. pendingRespawn' \in BOOLEAN /\ ~pendingRespawn'  BY <2>2, ZenonT(30)
    <3>. QED  BY <1>2, <3>1, ZenonT(30) DEF SlotInv
  <2>. QED  BY <1>2, <2>1, <2>2, ZenonT(30)
<1>. QED  BY <1>1, <1>2, ZenonT(30) DEF OnHandlesClosed

\* Every step keeps one process per slot.
LEMMA NextKeepsSlot ==
    ASSUME SlotInv, [Next]_vars
    PROVE  SlotInv'
<1>1. CASE Beat
  BY <1>1, SlotUntouched, ZenonT(30) DEF Beat, workerVars
<1>2. CASE Freeze
  <2>1. /\ pid # NoPid /\ child' = [child EXCEPT ![pid] = "frozen"] /\ UNCHANGED workerVars
    BY <1>2, ZenonT(30) DEF Freeze
  <2>2. "frozen" \in {"none", "up", "frozen", "zombie"}  OBVIOUS
  <2>. QED  BY <2>1, <2>2, OwnedChanges, ZenonT(30)
<1>3. CASE Crash \/ ObeyTerm
  <2>1. /\ pid # NoPid /\ child' = [child EXCEPT ![pid] = "zombie"] /\ UNCHANGED workerVars
    BY <1>3, ZenonT(30) DEF Crash, ObeyTerm, Die
  <2>2. "zombie" \in {"none", "up", "frozen", "zombie"}  OBVIOUS
  <2>. QED  BY <2>1, <2>2, OwnedChanges, ZenonT(30)
<1>4. CASE Terminate
  BY <1>4, SlotUntouched, ZenonT(30) DEF Terminate, workerVars
<1>5. CASE Tick
  BY <1>5, SlotUntouched, ZenonT(30) DEF Tick, workerVars
<1>6. CASE OnHeartbeatReadable
  BY <1>6, SlotUntouched, ZenonT(30) DEF OnHeartbeatReadable
<1>7. CASE OnHeartbeatTimeout
  <2>1. UNCHANGED workerVars  BY <1>7, ZenonT(30) DEF OnHeartbeatTimeout
  <2>2. UNCHANGED <<pid, pendingRespawn>>  BY <2>1, ZenonT(30) DEF workerVars
  <2>3. CASE UNCHANGED child  BY <2>2, <2>3, SlotUntouched, ZenonT(30)
  <2>4. CASE pid # NoPid /\ Kill(pid)  BY <2>1, <2>4, KillKeepsSlot, ZenonT(30)
  <2>. QED  BY <1>7, <2>3, <2>4, ZenonT(30) DEF OnHeartbeatTimeout
<1>8. CASE OnSigchld  BY <1>8, ReapFreesSlot, ZenonT(30)
<1>9. CASE OnHandlesClosed  BY <1>9, RespawnIntoFreeSlot, ZenonT(30)
<1>10. CASE OnShutdownSignal
  BY <1>10, SlotUntouched, ZenonT(30) DEF OnShutdownSignal
<1>11. CASE OnShutdownDeadline
  <2>1. UNCHANGED workerVars  BY <1>11, ZenonT(30) DEF OnShutdownDeadline
  <2>2. UNCHANGED <<pid, pendingRespawn>>  BY <2>1, ZenonT(30) DEF workerVars
  <2>3. CASE UNCHANGED child  BY <2>2, <2>3, SlotUntouched, ZenonT(30)
  <2>4. CASE pid # NoPid /\ Kill(pid)  BY <2>1, <2>4, KillKeepsSlot, ZenonT(30)
  <2>. QED  BY <1>11, <2>3, <2>4, ZenonT(30) DEF OnShutdownDeadline
<1>12. CASE UNCHANGED vars
  BY <1>12, SlotUntouched, ZenonT(30) DEF vars, workerVars
<1>. QED
  BY <1>1, <1>2, <1>3, <1>4, <1>5, <1>6, <1>7, <1>8, <1>9, <1>10, <1>11, <1>12, ZenonT(30)
     DEF Next

\* Whatever the worker does, however the timeouts are set and whenever the
\* operator interferes, spawn_worker() never runs while another broker process
\* exists: not while one is only killed, nor while one is dead but not reaped.
THEOREM OneBroker == Spec => []OneProcess
<1>1. Init => SlotInv
  <2>. SUFFICES ASSUME Init  PROVE SlotInv
    OBVIOUS
  <2>1. PICK p \in Pid : child = [q \in Pid |-> IF q = p THEN "up" ELSE "none"] /\ pid = p
    BY ZenonT(30) DEF Init
  <2>2. pendingRespawn = FALSE  BY ZenonT(30) DEF Init
  <2>3. child \in [Pid -> {"none", "up", "frozen", "zombie"}]  BY <2>1
  <2>4. \A q \in Pid : child[q] # "none" => q = p  BY <2>1, ZenonT(30)
  <2>. QED  BY <2>1, <2>2, <2>3, <2>4, ZenonT(30) DEF SlotInv
<1>2. SlotInv /\ [Next]_vars => SlotInv'  BY NextKeepsSlot, ZenonT(30)
<1>3. SlotInv => OneProcess
  <2>. SUFFICES ASSUME SlotInv  PROVE OneProcess
    OBVIOUS
  <2>. DEFINE live == {p \in Pid : child[p] # "none"}
  <2>1. live \subseteq {pid}  BY ZenonT(30) DEF SlotInv
  <2>2. IsFiniteSet({pid}) /\ Cardinality({pid}) = 1  BY FS_Singleton, ZenonT(30)
  <2>. HIDE DEF live
  <2>3. Cardinality(live) <= Cardinality({pid})  BY <2>1, <2>2, FS_Subset, ZenonT(30)
  <2>. QED  BY <2>2, <2>3, ZenonT(30) DEF OneProcess, live
<1>. QED  BY <1>1, <1>2, <1>3, PTL DEF Spec

=============================================================================
