--------------------------- MODULE FunctionRuntime ---------------------------
(***************************************************************************)
(* The function runtimes of one riklet agent: up() and down() of each     *)
(* FunctionRuntime (src/riklet/src/runtime/function_runtime.rs), with the *)
(* host network fabric they drive (FunctionRuntimeNetwork and its IP      *)
(* allocator, whose code is not under src/ and is modelled from the spec, *)
(* section 4.B) and the Firecracker process behind firepilot's Machine   *)
(* (an external library: its calls are outcomes chosen by the            *)
(* environment).                                                          *)
(*                                                                         *)
(* Each instance runs its own task; every await of up() and down() is a  *)
(* suspension point, so one step of the model is one awaited call with   *)
(* the synchronous code around it.  Tasks of distinct instances          *)
(* interleave freely and share the allocator's set of leased subnets.    *)
(***************************************************************************)
EXTENDS Naturals, FiniteSets

CONSTANTS
  Instances,   \* instance ids of the FunctionRuntimes created on the agent
  Subnets,     \* the /30 blocks the agent's IP pool is carved into
  NoSubnet,    \* the lease of a network that holds no subnet
  MaxRestarts  \* bound on the agent restarts the model explores

ASSUME InstancesAssumption == IsFiniteSet(Instances) /\ Instances # {}
ASSUME SubnetsAssumption == IsFiniteSet(Subnets) /\ NoSubnet \notin Subnets
ASSUME MaxRestartsAssumption == MaxRestarts \in Nat

VARIABLES
  pc,         \* pc[i]: "idle" between calls, else the await i's task is at
  leased,     \* the allocator's in-memory set of leased subnets
  lease,      \* lease[i]: the subnet held by i's network, or NoSubnet
  tap,        \* tap[i]: the tap device of i's current runtime exists
  rules,      \* rules[i]: firewall rules of i's current runtime are installed
  vm,         \* vm[i]: the Firecracker process of i's current runtime:
              \*   none, created, running, killed
  machine,    \* machine[i]: the field self.machine of i is Some
  upResult,   \* upResult[i]: what i's up() returned: "none" (not yet), ok, err
  downResult, \* downResult[i]: what i's last down() returned
  restarts,   \* agent restarts so far
  orphans     \* subnets whose tap and rules a previous agent run left on the
              \* host: all the model keeps of the runtimes of a dead agent

vars == <<pc, leased, lease, tap, rules, vm, machine, upResult, downResult,
          restarts, orphans>>

UpPhases   == {"init", "create", "preboot", "start"}
DownPhases == {"kill", "destroy"}
VmStates   == {"none", "created", "running", "killed"}

TypeOK ==
  /\ pc \in [Instances -> {"idle"} \cup UpPhases \cup DownPhases]
  /\ leased \subseteq Subnets
  /\ lease \in [Instances -> Subnets \cup {NoSubnet}]
  /\ tap \in [Instances -> BOOLEAN]
  /\ rules \in [Instances -> BOOLEAN]
  /\ vm \in [Instances -> VmStates]
  /\ machine \in [Instances -> BOOLEAN]
  /\ upResult \in [Instances -> {"none", "ok", "err"}]
  /\ downResult \in [Instances -> {"none", "ok", "err", "not_running"}]
  /\ restarts \in 0..MaxRestarts
  /\ orphans \subseteq Subnets

(* create_runtime has built every FunctionRuntime with an uninitialised   *)
(* network and machine = None; nothing is leased or on the host yet.      *)
Init ==
  /\ pc = [i \in Instances |-> "idle"]
  /\ leased = {}
  /\ lease = [i \in Instances |-> NoSubnet]
  /\ tap = [i \in Instances |-> FALSE]
  /\ rules = [i \in Instances |-> FALSE]
  /\ vm = [i \in Instances |-> "none"]
  /\ machine = [i \in Instances |-> FALSE]
  /\ upResult = [i \in Instances |-> "none"]
  /\ downResult = [i \in Instances |-> "none"]
  /\ restarts = 0
  /\ orphans = {}

(* up() of i goes on to the await at phase p. *)
UpGoesTo(i, p) ==
  /\ pc' = [pc EXCEPT ![i] = p]
  /\ UNCHANGED <<upResult, downResult>>

(* up() of i returns r: the `?` of a failed await, or Ok(()) at the end. *)
UpReturns(i, r) ==
  /\ pc' = [pc EXCEPT ![i] = "idle"]
  /\ upResult' = [upResult EXCEPT ![i] = r]
  /\ UNCHANGED downResult

(* down() of i returns r. *)
DownReturns(i, r) ==
  /\ pc' = [pc EXCEPT ![i] = "idle"]
  /\ downResult' = [downResult EXCEPT ![i] = r]
  /\ UNCHANGED upResult

(* generate_microvm_config, on the network init() set up: it reads the   *)
(* network and formats the kernel, drive, NIC and executor; tap_name or a *)
(* builder may fail, and the `?` returns from up() with the network up.   *)
GenerateMicrovmConfig(i) ==
  \/ UpGoesTo(i, "create")
  \/ UpReturns(i, "err")

-----------------------------------------------------------------------------
(* The agent invokes up() on the runtime it was given, once. *)
Up(i) ==
  /\ pc[i] = "idle"
  /\ upResult[i] = "none"
  /\ pc' = [pc EXCEPT ![i] = "init"]
  /\ UNCHANGED <<leased, lease, tap, rules, vm, machine, upResult, downResult>>

(* Mutant: an allocator that hands out "no subnet" as a lease when the   *)
(* pool is empty instead of failing with PoolExhausted.                   *)
UpInitLeasesNothing(i) ==
  /\ pc[i] = "init"
  /\ \E s \in (Subnets \ leased) \cup {NoSubnet} :
       /\ leased' = leased \cup {s}
       /\ lease' = [lease EXCEPT ![i] = s]
       /\ tap' = [tap EXCEPT ![i] = TRUE]
       /\ GenerateMicrovmConfig(i)
  /\ UNCHANGED <<rules, vm, machine>>

(* Mutant: reserve a subnet without looking at the leased set. *)
UpInitIgnoresLeases(i) ==
  /\ pc[i] = "init"
  /\ \E s \in Subnets :
       /\ leased' = leased \cup {s}
       /\ lease' = [lease EXCEPT ![i] = s]
       /\ tap' = [tap EXCEPT ![i] = TRUE]
       /\ GenerateMicrovmConfig(i)
  /\ UNCHANGED <<rules, vm, machine>>

(* network.init(): reserve a subnet under the allocator's mutex and create *)
(* the tap device, then build the VM config; if init() fails up() returns *)
(* at once.                                                               *)
UpInit(i) ==
  /\ pc[i] = "init"
  /\ \/ \E s \in Subnets \ leased :
          /\ leased' = leased \cup {s}
          /\ lease' = [lease EXCEPT ![i] = s]
          /\ tap' = [tap EXCEPT ![i] = TRUE]
          /\ GenerateMicrovmConfig(i)
     \/ /\ UpReturns(i, "err")
        /\ UNCHANGED <<leased, lease, tap>>
  /\ UNCHANGED <<rules, vm, machine>>

(* Mutant: the preboot await dropped, the guest started on a bare tap. *)
UpCreateSkipsPreboot(i) ==
  /\ pc[i] = "create"
  /\ \/ /\ vm' = [vm EXCEPT ![i] = "created"]
        /\ UpGoesTo(i, "start")
     \/ \E v \in {"none", "created"} :
          /\ vm' = [vm EXCEPT ![i] = v]
          /\ UpReturns(i, "err")
  /\ UNCHANGED <<leased, lease, tap, rules, machine>>

(* machine.create(vm_config): spawns Firecracker and its socket without   *)
(* booting; a failure may come after the process was spawned.  The error *)
(* returns from up() with the network left initialised.                  *)
UpCreate(i) ==
  /\ pc[i] = "create"
  /\ \/ /\ vm' = [vm EXCEPT ![i] = "created"]
        /\ UpGoesTo(i, "preboot")
     \/ \E v \in {"none", "created"} :
          /\ vm' = [vm EXCEPT ![i] = v]
          /\ UpReturns(i, "err")
  /\ UNCHANGED <<leased, lease, tap, rules, machine>>

(* network.preboot(): IP on the tap and the three rules; a failure may    *)
(* leave some rules installed.  On error the local machine is dropped.    *)
UpPreboot(i) ==
  /\ pc[i] = "preboot"
  /\ \/ /\ rules' = [rules EXCEPT ![i] = TRUE]
        /\ UpGoesTo(i, "start")
     \/ \E r \in BOOLEAN :
          /\ rules' = [rules EXCEPT ![i] = r]
          /\ UpReturns(i, "err")
  /\ UNCHANGED <<leased, lease, tap, vm, machine>>

(* machine.start(), then self.machine = Some(machine).  An InstanceStart  *)
(* that fails by timing out may still have booted the guest.              *)
UpStart(i) ==
  /\ pc[i] = "start"
  /\ \/ /\ vm' = [vm EXCEPT ![i] = "running"]
        /\ machine' = [machine EXCEPT ![i] = TRUE]
        /\ UpReturns(i, "ok")
     \/ \E v \in {"created", "running"} :
          /\ vm' = [vm EXCEPT ![i] = v]
          /\ UpReturns(i, "err")
          /\ UNCHANGED machine
  /\ UNCHANGED <<leased, lease, tap, rules>>

(* The agent invokes down(): with self.machine = None it returns          *)
(* NotRunning and changes nothing, otherwise it goes on to kill.          *)
Down(i) ==
  /\ pc[i] = "idle"
  /\ \/ /\ machine[i]
        /\ pc' = [pc EXCEPT ![i] = "kill"]
        /\ UNCHANGED <<upResult, downResult>>
     \/ /\ ~machine[i]
        /\ DownReturns(i, "not_running")
  /\ UNCHANGED <<leased, lease, tap, rules, vm, machine>>

(* machine.kill(): the `?` returns its error before network.destroy().    *)
(* self.machine is never reset to None.                                   *)
DownKill(i) ==
  /\ pc[i] = "kill"
  /\ \/ /\ vm' = [vm EXCEPT ![i] = "killed"]
        /\ pc' = [pc EXCEPT ![i] = "destroy"]
        /\ UNCHANGED <<upResult, downResult>>
     \/ /\ DownReturns(i, "err")
        /\ UNCHANGED vm
  /\ UNCHANGED <<leased, lease, tap, rules, machine>>

(* Mutant: destroy() that forgets to give the subnet back. *)
DownDestroyKeepsLease(i) ==
  /\ pc[i] = "destroy"
  /\ lease' = [lease EXCEPT ![i] = NoSubnet]
  /\ \E keepRules, keepTap \in BOOLEAN :
       /\ rules' = [rules EXCEPT ![i] = rules[i] /\ keepRules]
       /\ tap' = [tap EXCEPT ![i] = tap[i] /\ keepTap]
       /\ DownReturns(i, IF keepRules \/ keepTap THEN "err" ELSE "ok")
  /\ UNCHANGED <<leased, vm, machine>>

(* network.destroy(), whose result is what down() returns.  Spec 4.B:    *)
(* remove the rules, delete the tap, give the subnet back, each step best *)
(* effort; a failed rule removal or tap deletion is logged, the others    *)
(* still run, and destroy() returns the error.  The release under the     *)
(* allocator's mutex is in memory and does not fail.                      *)
DownDestroy(i) ==
  /\ pc[i] = "destroy"
  /\ leased' = leased \ {lease[i]}
  /\ lease' = [lease EXCEPT ![i] = NoSubnet]
  /\ \E keepRules, keepTap \in BOOLEAN :
       /\ rules' = [rules EXCEPT ![i] = rules[i] /\ keepRules]
       /\ tap' = [tap EXCEPT ![i] = tap[i] /\ keepTap]
       /\ DownReturns(i, IF keepRules \/ keepTap THEN "err" ELSE "ok")
  /\ UNCHANGED <<vm, machine>>

(* The subnets the networks of the runtimes hold. *)
Held == {lease[i] : i \in {j \in Instances : lease[j] # NoSubnet}}

(* The agent process dies and is started again.  Every FunctionRuntime,  *)
(* its task and the allocator live in its memory and are gone; the       *)
(* scheduler hands the instances to the new agent, whose runtimes start  *)
(* from create_runtime again, so the per-instance variables, which       *)
(* describe the current runtimes, start afresh.  The taps, rules and     *)
(* Firecracker processes of the old runtimes stay on the host, since     *)
(* nothing under src/ removes them; of them the model keeps the subnets  *)
(* they are wired for, in orphans, which the new allocator does not know. *)
Restart ==
  /\ restarts < MaxRestarts
  /\ restarts' = restarts + 1
  /\ orphans' = orphans \cup Held
  /\ pc' = [i \in Instances |-> "idle"]
  /\ leased' = {}
  /\ lease' = [i \in Instances |-> NoSubnet]
  /\ tap' = [i \in Instances |-> FALSE]
  /\ rules' = [i \in Instances |-> FALSE]
  /\ vm' = [i \in Instances |-> "none"]
  /\ machine' = [i \in Instances |-> FALSE]
  /\ upResult' = [i \in Instances |-> "none"]
  /\ downResult' = [i \in Instances |-> "none"]

(* The agent process itself is not touched by the runtimes' calls. *)
AgentUnchanged == UNCHANGED <<restarts, orphans>>

(* The steps of i's task once a call is in progress. *)
Step(i) ==
  /\ \/ UpInit(i) \/ UpCreate(i) \/ UpPreboot(i) \/ UpStart(i)
     \/ DownKill(i) \/ DownDestroy(i)
  /\ AgentUnchanged

Next ==
  \/ \E i \in Instances : \/ (Up(i) \/ Down(i)) /\ AgentUnchanged
                         \/ Step(i)
  \/ Restart

Spec == Init /\ [][Next]_vars

-----------------------------------------------------------------------------
(* Properties.                                                            *)

(* Pool accounting: the allocator's leased set is exactly the subnets the *)
(* networks hold, so destroy() returning a lease and init() taking one    *)
(* keep it in step across all instances' interleaved tasks.              *)
PoolAccounting ==
  leased = {lease[i] : i \in {j \in Instances : lease[j] # NoSubnet}}

(* Subnet uniqueness (spec 8.3): instances whose up() run concurrently   *)
(* never hold the same subnet.                                            *)
SubnetExclusive ==
  \A i, j \in Instances :
    i # j /\ lease[i] # NoSubnet => lease[i] # lease[j]

(* Ordering (spec section 5): a booted guest always has its tap, its      *)
(* subnet and its forwarding rules, whatever failed before or after.      *)
WiredBeforeRunning ==
  \A i \in Instances :
    vm[i] = "running" => tap[i] /\ rules[i] /\ lease[i] # NoSubnet

(* Partial-failure leak-freeness (spec 4.D, 8.2): once up() returned an  *)
(* error, its instance holds no lease, tap, rules or Firecracker process; *)
(* once a down() that got past the NotRunning check returned, even after  *)
(* a failed kill, which spec 4.D says is logged and passed over, the      *)
(* instance's network is gone.                                            *)
ErrorReturnReleases ==
  \A i \in Instances : pc[i] = "idle" =>
    /\ upResult[i] = "err" =>
         /\ lease[i] = NoSubnet /\ ~tap[i] /\ ~rules[i]
         /\ vm[i] \in {"none", "killed"}
    /\ downResult[i] \in {"ok", "err"} =>
         ~tap[i] /\ ~rules[i] /\ lease[i] = NoSubnet

(* State-machine safety (spec 3, 8.5): between calls, self.machine is     *)
(* Some exactly when the instance's guest is running.                     *)
MachineIffRunning ==
  \A i \in Instances :
    pc[i] = "idle" => (machine[i] <=> vm[i] = "running")

(* Orphan sweep (spec 6): a subnet the allocator hands to a network is   *)
(* not still configured on a tap or in the rules a previous agent run    *)
(* left on the host.                                                      *)
OrphanSubnetFree ==
  \A i \in Instances : lease[i] # NoSubnet => lease[i] \notin orphans

=============================================================================
