------------------------ MODULE FunctionRuntimeProofs ------------------------
(***************************************************************************)
(* Proofs, for every set of instances and every pool, that the runtimes' *)
(* tasks keep the allocator consistent and never boot a guest on a       *)
(* network that is not wired.                                            *)
(***************************************************************************)
EXTENDS FunctionRuntime, TLAPS

(* The lease invariant: accounting and exclusivity of the allocator. *)
LeaseInv == PoolAccounting /\ SubnetExclusive

(* What the code's call order gives instance i, which the properties    *)
(* need to be inductive.                                                 *)
InstanceInv(i) ==
  (* up() runs once: until it returns, its result is "none", no lease is *)
  (* held before init and no guest has been booted.                      *)
  /\ pc[i] \in UpPhases => upResult[i] = "none"
  /\ pc[i] \in {"idle", "init"} /\ upResult[i] = "none" => lease[i] = NoSubnet
  /\ upResult[i] = "none" => vm[i] \in {"none", "created"}
  (* after init the tap and the lease exist until up() returns. *)
  /\ pc[i] \in {"create", "preboot"} => tap[i] /\ lease[i] # NoSubnet
  (* start is reached only through a successful preboot. *)
  /\ pc[i] = "start" => tap[i] /\ rules[i] /\ lease[i] # NoSubnet
  (* self.machine is set, and down() goes past NotRunning, only after a  *)
  (* successful up().                                                    *)
  /\ machine[i] => upResult[i] = "ok"
  /\ pc[i] \in DownPhases => upResult[i] = "ok"
  (* destroy is reached only through a successful kill. *)
  /\ pc[i] = "destroy" => vm[i] # "running"

PhaseInv == \A i \in Instances : InstanceInv(i)

IInv == TypeOK /\ LeaseInv /\ PhaseInv /\ WiredBeforeRunning

-----------------------------------------------------------------------------
(* Every step of every task keeps the variables in their types. *)
LEMMA TypeStep == TypeOK /\ [Next]_vars => TypeOK'
<1> USE DEF UpPhases, DownPhases, VmStates, AgentUnchanged
<1>2. TypeOK /\ [Next]_vars => TypeOK'
  <2> SUFFICES ASSUME TypeOK, [Next]_vars PROVE TypeOK'
    OBVIOUS
  <2>1. ASSUME NEW i \in Instances, Up(i), AgentUnchanged PROVE TypeOK'
    BY <2>1 DEF Up, TypeOK, UpPhases
  <2>2. ASSUME NEW i \in Instances, Down(i), AgentUnchanged PROVE TypeOK'
    BY <2>2 DEF Down, DownReturns, TypeOK, DownPhases
  <2>3. ASSUME NEW i \in Instances, UpInit(i), AgentUnchanged PROVE TypeOK'
    <3>1. ASSUME NEW s \in Subnets \ leased,
                 leased' = leased \cup {s},
                 lease' = [lease EXCEPT ![i] = s],
                 tap' = [tap EXCEPT ![i] = TRUE],
                 GenerateMicrovmConfig(i)
          PROVE TypeOK'
      BY <2>3, <3>1 DEF UpInit, GenerateMicrovmConfig, UpGoesTo, UpReturns,
                        TypeOK
    <3>2. CASE UpReturns(i, "err") /\ UNCHANGED <<leased, lease, tap>>
      BY <2>3, <3>2 DEF UpInit, UpReturns, TypeOK
    <3>3. QED
      BY <2>3, <3>1, <3>2 DEF UpInit
  <2>4. ASSUME NEW i \in Instances, UpCreate(i), AgentUnchanged PROVE TypeOK'
    BY <2>4 DEF UpCreate, UpGoesTo, UpReturns, TypeOK, UpPhases, VmStates
  <2>5. ASSUME NEW i \in Instances, UpPreboot(i), AgentUnchanged PROVE TypeOK'
    <3>1. CASE rules' = [rules EXCEPT ![i] = TRUE] /\ UpGoesTo(i, "start")
      BY <2>5, <3>1 DEF UpPreboot, UpGoesTo, TypeOK
    <3>2. ASSUME NEW r \in BOOLEAN,
                 rules' = [rules EXCEPT ![i] = r], UpReturns(i, "err")
          PROVE TypeOK'
      BY <2>5, <3>2 DEF UpPreboot, UpReturns, TypeOK
    <3>3. QED
      BY <2>5, <3>1, <3>2 DEF UpPreboot
  <2>6. ASSUME NEW i \in Instances, UpStart(i), AgentUnchanged PROVE TypeOK'
    <3>1. CASE vm' = [vm EXCEPT ![i] = "running"]
               /\ machine' = [machine EXCEPT ![i] = TRUE]
               /\ UpReturns(i, "ok")
      BY <2>6, <3>1 DEF UpStart, UpReturns, TypeOK
    <3>2. ASSUME NEW v \in {"created", "running"},
                 vm' = [vm EXCEPT ![i] = v], UpReturns(i, "err"),
                 UNCHANGED machine
          PROVE TypeOK'
      BY <2>6, <3>2 DEF UpStart, UpReturns, TypeOK
    <3>3. QED
      BY <2>6, <3>1, <3>2 DEF UpStart
  <2>7. ASSUME NEW i \in Instances, DownKill(i), AgentUnchanged PROVE TypeOK'
    BY <2>7 DEF DownKill, DownReturns, TypeOK, DownPhases, VmStates
  <2>8. ASSUME NEW i \in Instances, DownDestroy(i), AgentUnchanged PROVE TypeOK'
    BY <2>8 DEF DownDestroy, DownReturns, TypeOK
  <2>9. CASE UNCHANGED vars
    BY <2>9 DEF vars, TypeOK
  <2>11. CASE Restart
    <3>1. Held \subseteq Subnets
      BY DEF Held, TypeOK
    <3>2. QED
      BY <2>11, <3>1, MaxRestartsAssumption DEF Restart, TypeOK
  <2>10. QED
    BY <2>1, <2>2, <2>3, <2>4, <2>5, <2>6, <2>7, <2>8, <2>9, <2>11
    DEF Next, Step
<1>3. QED
  BY <1>2

(* The type invariant holds in every reachable state, restarts included. *)
THEOREM TypeCorrect == Spec => []TypeOK
<1>1. Init => TypeOK
  BY MaxRestartsAssumption DEF Init, TypeOK, UpPhases, DownPhases, VmStates
<1>2. QED
  BY <1>1, TypeStep, PTL DEF Spec

-----------------------------------------------------------------------------
(* Initially nothing is leased and no task is running. *)
LEMMA InitIInv == Init => IInv
BY MaxRestartsAssumption DEF Init, IInv, TypeOK, UpPhases, DownPhases, VmStates, LeaseInv,
       PoolAccounting, SubnetExclusive, PhaseInv, InstanceInv,
       WiredBeforeRunning

(* A step that leaves the allocator and the leases alone keeps the lease *)
(* invariant.                                                            *)
LEMMA LeaseUnchanged ==
  ASSUME LeaseInv, UNCHANGED <<leased, lease>>
  PROVE  LeaseInv'
BY DEF LeaseInv, PoolAccounting, SubnetExclusive

(* Every step keeps the inductive invariant: one step per action, the   *)
(* lease invariant and the per-instance facts proved apart.              *)
LEMMA NextIInv == IInv /\ [Next]_vars => IInv'
<1> USE DEF UpPhases, DownPhases, VmStates
<1> SUFFICES ASSUME IInv, [Next]_vars PROVE IInv'
  OBVIOUS
<1>0. TypeOK /\ TypeOK'
  BY TypeStep DEF IInv
<1> DEFINE Local == PhaseInv /\ WiredBeforeRunning
<1>a. SUFFICES LeaseInv' /\ Local'
  BY <1>0 DEF IInv
<1>b. LeaseInv /\ Local
  BY DEF IInv
<1> USE <1>0, <1>b DEF PhaseInv, InstanceInv, WiredBeforeRunning,
                       TypeOK
<1>1. ASSUME NEW i \in Instances, Up(i), AgentUnchanged PROVE LeaseInv' /\ Local'
  <2>1. LeaseInv'
    BY <1>1, LeaseUnchanged DEF Up
  <2>2. Local'
    BY <1>1 DEF Up
  <2>3. QED
    BY <2>1, <2>2
<1>2. ASSUME NEW i \in Instances, Down(i), AgentUnchanged PROVE LeaseInv' /\ Local'
  <2>1. LeaseInv'
    BY <1>2, LeaseUnchanged DEF Down
  <2>2. Local'
    BY <1>2 DEF Down, DownReturns
  <2>3. QED
    BY <2>1, <2>2
<1>3. ASSUME NEW i \in Instances, UpInit(i), AgentUnchanged PROVE LeaseInv' /\ Local'
  <2>1. ASSUME NEW s \in Subnets \ leased,
               leased' = leased \cup {s},
               lease' = [lease EXCEPT ![i] = s],
               tap' = [tap EXCEPT ![i] = TRUE],
               GenerateMicrovmConfig(i)
        PROVE LeaseInv' /\ Local'
    <3>1. pc[i] = "init" /\ lease[i] = NoSubnet /\ vm[i] # "running"
      BY <1>3 DEF UpInit
    <3>2. PoolAccounting'
      <4>1. {j \in Instances : lease'[j] # NoSubnet}
              = {j \in Instances : lease[j] # NoSubnet} \cup {i}
        BY <2>1, <3>1, SubnetsAssumption
      <4>2. leased = {lease[j] : j \in {k \in Instances : lease[k] # NoSubnet}}
        BY DEF LeaseInv, PoolAccounting
      <4>3. QED
        BY <2>1, <3>1, <4>1, <4>2 DEF PoolAccounting
    <3>3. SubnetExclusive'
      BY <2>1, <3>1 DEF LeaseInv, PoolAccounting, SubnetExclusive
    <3>4. Local'
      <4>1. CASE UpGoesTo(i, "create")
        BY <1>3, <2>1, <3>1, <4>1, SubnetsAssumption DEF UpInit, UpGoesTo
      <4>2. CASE UpReturns(i, "err")
        BY <1>3, <2>1, <3>1, <4>2, SubnetsAssumption DEF UpInit, UpReturns
      <4>3. QED
        BY <2>1, <4>1, <4>2 DEF GenerateMicrovmConfig
    <3>5. QED
      BY <3>2, <3>3, <3>4 DEF LeaseInv
  <2>2. CASE UpReturns(i, "err") /\ UNCHANGED <<leased, lease, tap>>
    <3>1. LeaseInv'
      BY <2>2, LeaseUnchanged
    <3>2. Local'
      BY <1>3, <2>2 DEF UpInit, UpReturns
    <3>3. QED
      BY <3>1, <3>2
  <2>3. QED
    BY <1>3, <2>1, <2>2 DEF UpInit
<1>4. ASSUME NEW i \in Instances, UpCreate(i), AgentUnchanged PROVE LeaseInv' /\ Local'
  <2>1. LeaseInv'
    BY <1>4, LeaseUnchanged DEF UpCreate
  <2>2. Local'
    BY <1>4 DEF UpCreate, UpGoesTo, UpReturns
  <2>3. QED
    BY <2>1, <2>2
<1>5. ASSUME NEW i \in Instances, UpPreboot(i), AgentUnchanged PROVE LeaseInv' /\ Local'
  <2>1. LeaseInv'
    BY <1>5, LeaseUnchanged DEF UpPreboot
  <2>2. pc[i] = "preboot" /\ vm[i] # "running" /\ upResult[i] = "none"
    BY <1>5 DEF UpPreboot
  <2>3. ASSUME rules' = [rules EXCEPT ![i] = TRUE], UpGoesTo(i, "start")
        PROVE Local'
    <3>1. /\ UNCHANGED <<leased, lease, tap, vm, machine, upResult, downResult>>
          /\ pc' = [pc EXCEPT ![i] = "start"]
          /\ rules' = [rules EXCEPT ![i] = TRUE]
          /\ tap[i] /\ lease[i] # NoSubnet
      BY <1>5, <2>3 DEF UpPreboot, UpGoesTo, LeaseInv
    <3>2. SUFFICES ASSUME NEW j \in Instances
                   PROVE /\ InstanceInv(j)'
                         /\ (vm[j] = "running" =>
                               tap[j] /\ rules[j] /\ lease[j] # NoSubnet)'
      BY DEF Local
    <3>3. CASE j = i
      BY <2>2, <3>1, <3>3
    <3>4. CASE j # i
      BY <3>1, <3>4
    <3>5. QED
      BY <3>3, <3>4
  <2>4. ASSUME NEW r \in BOOLEAN,
               rules' = [rules EXCEPT ![i] = r], UpReturns(i, "err")
        PROVE Local'
    BY <1>5, <2>2, <2>4 DEF UpPreboot, UpReturns
  <2>5. QED
    BY <1>5, <2>1, <2>3, <2>4 DEF UpPreboot
<1>6. ASSUME NEW i \in Instances, UpStart(i), AgentUnchanged PROVE LeaseInv' /\ Local'
  <2>1. LeaseInv'
    BY <1>6, LeaseUnchanged DEF UpStart
  <2>2. Local'
    BY <1>6 DEF UpStart, UpReturns
  <2>3. QED
    BY <2>1, <2>2
<1>7. ASSUME NEW i \in Instances, DownKill(i), AgentUnchanged PROVE LeaseInv' /\ Local'
  <2>1. LeaseInv'
    BY <1>7, LeaseUnchanged DEF DownKill
  <2>2. pc[i] = "kill"
    BY <1>7 DEF DownKill
  <2>3. ASSUME vm' = [vm EXCEPT ![i] = "killed"],
               pc' = [pc EXCEPT ![i] = "destroy"],
               UNCHANGED <<upResult, downResult>>
        PROVE Local'
    <3>1. UNCHANGED <<leased, lease, tap, rules, machine>>
      BY <1>7 DEF DownKill
    <3>2. QED
      BY <2>2, <2>3, <3>1
  <2>4. ASSUME DownReturns(i, "err"), UNCHANGED vm
        PROVE Local'
    <3>1. UNCHANGED <<leased, lease, tap, rules, machine>>
      BY <1>7 DEF DownKill
    <3>2. QED
      BY <2>2, <2>4, <3>1 DEF DownReturns
  <2>5. Local'
    BY <1>7, <2>3, <2>4 DEF DownKill
  <2>6. QED
    BY <2>1, <2>5
<1>8. ASSUME NEW i \in Instances, DownDestroy(i), AgentUnchanged PROVE LeaseInv' /\ Local'
  BY <1>8, SubnetsAssumption DEF DownDestroy, DownReturns, LeaseInv,
     PoolAccounting, SubnetExclusive
<1>9. CASE UNCHANGED vars
  <2>1. LeaseInv'
    BY <1>9, LeaseUnchanged DEF vars
  <2>2. Local'
    BY <1>9 DEF vars
  <2>3. QED
    BY <2>1, <2>2
<1>11. CASE Restart
  BY <1>11 DEF Restart, LeaseInv, PoolAccounting, SubnetExclusive
<1>10. QED
  BY <1>1, <1>2, <1>3, <1>4, <1>5, <1>6, <1>7, <1>8, <1>9, <1>11
  DEF Next, Step

(* The runtimes' tasks keep the allocator's leased set equal to the      *)
(* subnets their networks hold (PoolAccounting), never give one subnet   *)
(* to two instances (SubnetExclusive), and never boot a guest whose tap, *)
(* lease and rules are not in place (WiredBeforeRunning), for any number *)
(* of instances and any pool.                                            *)
THEOREM RuntimeSafety == Spec => [](LeaseInv /\ WiredBeforeRunning)
<1>1. IInv => LeaseInv /\ WiredBeforeRunning
  BY DEF IInv
<1>2. QED
  BY <1>1, InitIInv, NextIInv, PTL DEF Spec

(* The allocator's leased set is the set of subnets the networks hold,  *)
(* however the instances' init() and destroy() calls and the agent's     *)
(* restarts interleave: no subnet leaks from the books or is counted     *)
(* free while a network holds it.                                         *)
THEOREM PoolAccountingHolds == Spec => []PoolAccounting
BY RuntimeSafety, PTL DEF LeaseInv

(* No subnet is ever held by two instances' networks at once. *)
THEOREM SubnetExclusiveHolds == Spec => []SubnetExclusive
BY RuntimeSafety, PTL DEF LeaseInv

=============================================================================
