-------------------------- MODULE WorkloadApiProofs --------------------------
(***************************************************************************)
(* Proofs about the workload API: the types, and that every workload the  *)
(* delete route removes was announced to the scheduler first, for any     *)
(* number of worker threads, names and panics.                            *)
(***************************************************************************)
EXTENDS WorkloadApi, TLAPS

(* What a worker's argument is at each point of its handler. *)
ArgTyped ==
  \A w \in Workers :
    /\ pc[w] \in {"check", "insert"} => arg[w] \in WNames
    /\ pc[w] \in {"find", "send", "remove"} => arg[w] \in Nat

(* The delete route sends before it deletes. *)
SentBeforeRemove ==
  \A w \in Workers : pc[w] = "remove" => arg[w] \in Notified

IInv == TypeOK /\ ArgTyped /\ SentBeforeRemove /\ DeletionNotified

(* Appending to the log adds its element to the notified ids. *)
LEMMA AppendNotified ==
  ASSUME NEW s \in Seq(Nat), NEW x \in Nat
  PROVE  /\ Append(s, x) \in Seq(Nat)
         /\ Range(Append(s, x)) = Range(s) \cup {x}
<1>1. Append(s, x) \in Seq(Nat)
  OBVIOUS
<1>2. DOMAIN Append(s, x) = (DOMAIN s) \cup {Len(s) + 1}
  OBVIOUS
<1>3. \A k \in DOMAIN s : Append(s, x)[k] = s[k]
  OBVIOUS
<1>4. Append(s, x)[Len(s) + 1] = x
  OBVIOUS
<1>5. QED
  BY <1>1, <1>2, <1>3, <1>4 DEF Range

(* The ids of a set of rows with one row added. *)
LEMMA IdsAdd ==
  ASSUME NEW S, NEW i, NEW n
  PROVE  {r.id : r \in S \cup {[id |-> i, name |-> n]}} = {r.id : r \in S} \cup {i}
<1> DEFINE e == [id |-> i, name |-> n]
<1>1. ASSUME NEW x, x \in {r.id : r \in S \cup {e}}
      PROVE  x \in {r.id : r \in S} \cup {i}
  BY <1>1
<1>2. ASSUME NEW x, x \in {r.id : r \in S} \cup {i}
      PROVE  x \in {r.id : r \in S \cup {e}}
  <2>1. CASE x = i
    <3>1. e \in S \cup {e} /\ e.id = x
      BY <2>1
    <3>2. QED
      BY <3>1
  <2>2. CASE x \in {r.id : r \in S}
    BY <2>2
  <2>3. QED
    BY <1>2, <2>1, <2>2
<1>3. QED
  BY <1>1, <1>2

(* Initially no worker is inside a handler and nothing is stored. *)
LEMMA InitIInv == Init => IInv
<1> SUFFICES ASSUME Init PROVE IInv
  OBVIOUS
<1>1. TypeOK
  <2>1. sent \in Seq(Nat)
    BY DEF Init
  <2>2. arg \in [Workers -> WNames \cup Nat]
    BY DEF Init
  <2>3. pc \in [Workers -> Pcs] /\ status \in [Workers -> Statuses]
    BY DEF Init, Pcs, Statuses
  <2>4. faults \in 0..MaxFaults
    BY BoundsAssumption DEF Init
  <2>7. nextId \in Nat \ {0}
    BY DEF Init
  <2>5. started \in BOOLEAN
    BY Zenon DEF Init
  <2>8. rows \subseteq [id : Nat, name : WNames]
    BY DEF Init
  <2>6. QED
    BY <2>1, <2>2, <2>3, <2>4, <2>5, <2>7, <2>8 DEF TypeOK
<1>2. ArgTyped /\ SentBeforeRemove
  BY DEF Init, ArgTyped, SentBeforeRemove
<1>3. DeletionNotified
  BY DEF Init, DeletionNotified
<1>4. QED
  BY <1>1, <1>2, <1>3 DEF IInv

(* Every step keeps the inductive invariant: one step per action. *)
LEMMA NextIInv == IInv /\ [Next]_vars => IInv'
<1> SUFFICES ASSUME IInv, [Next]_vars PROVE IInv'
  OBVIOUS
<1>0. started' \in BOOLEAN
  BY Zenon DEF IInv, TypeOK, Next, Step, Run, Recv, CreateCheck, CreateInsert,
               DeleteFind, DeleteSend, DeleteRemove, Respond, vars
<1> USE <1>0 DEF IInv, TypeOK, Pcs, Statuses, ArgTyped, SentBeforeRemove,
                 DeletionNotified
<1>1. CASE Run
  <2>1. Range(Append(sent, 1)) = Range(sent) \cup {1}
    BY AppendNotified
  <2>2. Notified' = Notified \cup {1}
    BY <1>1, <2>1 DEF Run, Notified
  <2>3. QED
    BY <1>1, <2>2, AppendNotified DEF Run, RowIds
<1>2. ASSUME NEW w \in Workers, Recv(w) PROVE IInv'
  <2>0. pc[w] = "recv" /\ UNCHANGED <<started, rows, nextId, sent>>
    BY <1>2 DEF Recv
  <2>1. ASSUME NEW c \in {200, 500, 400, 404}, Answer(w, c),
               UNCHANGED <<arg, faults>>
        PROVE IInv'
    BY <2>0, <2>1 DEF Answer, RowIds, Notified
  <2>2. ASSUME NEW n \in WNames, arg' = [arg EXCEPT ![w] = n],
               pc' = [pc EXCEPT ![w] = "check"], UNCHANGED <<status, faults>>
        PROVE IInv'
    BY <2>0, <2>2 DEF RowIds, Notified
  <2>3. ASSUME NEW i \in 1..MaxId, arg' = [arg EXCEPT ![w] = i],
               pc' = [pc EXCEPT ![w] = "find"], UNCHANGED <<status, faults>>
        PROVE IInv'
    BY <2>0, <2>3, BoundsAssumption DEF RowIds, Notified
  <2>4. CASE (ListWorkloads(w) \/ Answer(w, 400) \/ Answer(w, 404))
             /\ UNCHANGED <<arg, faults>>
    <3>1. PICK c \in {200, 500, 400, 404} : Answer(w, c)
      BY <2>4 DEF ListWorkloads
    <3>2. QED
      BY <2>1, <2>4, <3>1
  <2>6. CASE Panic(w) /\ UNCHANGED <<arg, status>>
    <3>1. faults' \in 0..MaxFaults
      BY <2>6, BoundsAssumption DEF Panic
    <3>2. QED
      BY <2>0, <2>6, <3>1 DEF Panic, RowIds, Notified, Range
  <2>5. QED
    BY <1>2, <2>2, <2>3, <2>4, <2>6 DEF Recv
<1>3. ASSUME NEW w \in Workers, CreateCheck(w) PROVE IInv'
  <2>0. /\ pc[w] = "check"
        /\ UNCHANGED <<started, arg, rows, nextId, sent, faults>>
        /\ RowIds' = RowIds /\ Notified' = Notified
    BY <1>3 DEF CreateCheck, RowIds, Notified
  <2>1. CASE Answer(w, 404)
    BY <2>0, <2>1 DEF Answer
  <2>2. CASE pc' = [pc EXCEPT ![w] = "insert"] /\ UNCHANGED status
    BY <2>0, <2>2
  <2>3. QED
    BY <1>3, <2>1, <2>2 DEF CreateCheck
<1>4. ASSUME NEW w \in Workers, CreateInsert(w) PROVE IInv'
  <2>1. CASE rows' = rows \cup {[id |-> nextId, name |-> arg[w]]}
             /\ nextId' = nextId + 1 /\ Answer(w, 200)
    <3>1. RowIds' = RowIds \cup {nextId}
      <4>1. rows' = rows \cup {[id |-> nextId, name |-> arg[w]]}
        BY <2>1
      <4>2. {r.id : r \in rows \cup {[id |-> nextId, name |-> arg[w]]}}
              = RowIds \cup {nextId}
        BY IdsAdd DEF RowIds
      <4>3. RowIds' = {r.id : r \in rows'}
        BY DEF RowIds
      <4>4. QED
        BY <4>1, <4>2, <4>3
    <3>2. arg[w] \in WNames
      BY <1>4 DEF CreateInsert
    <3>3. TypeOK'
      BY <1>4, <2>1, <3>2 DEF CreateInsert, Answer
    <3>4. (ArgTyped /\ SentBeforeRemove)'
      BY <1>4, <2>1 DEF CreateInsert, Answer, Notified, Range
    <3>5. DeletionNotified'
      BY <1>4, <2>1, <3>1 DEF CreateInsert, Notified, Range
    <3>6. QED
      BY <3>3, <3>4, <3>5
  <2>2. CASE Answer(w, 500) /\ UNCHANGED <<rows, nextId>>
    BY <1>4, <2>2 DEF CreateInsert, Answer, RowIds, Notified, Range
  <2>3. QED
    BY <1>4, <2>1, <2>2 DEF CreateInsert
<1>5. ASSUME NEW w \in Workers, DeleteFind(w) PROVE IInv'
  <2>0. UNCHANGED <<started, arg, rows, nextId, sent, faults>>
    BY <1>5 DEF DeleteFind
  <2>1. RowIds' = RowIds /\ Notified' = Notified
    BY <2>0 DEF RowIds, Notified
  <2>2. CASE pc' = [pc EXCEPT ![w] = "send"] /\ UNCHANGED status
    BY <1>5, <2>0, <2>1, <2>2 DEF DeleteFind
  <2>3. CASE Answer(w, 404)
    BY <1>5, <2>0, <2>1, <2>3 DEF DeleteFind, Answer
  <2>4. QED
    BY <1>5, <2>2, <2>3 DEF DeleteFind
<1>6. ASSUME NEW w \in Workers, DeleteSend(w) PROVE IInv'
  <2>1. arg[w] \in Nat
    BY <1>6 DEF DeleteSend
  <2>2. CASE sent' = Append(sent, arg[w]) /\ pc' = [pc EXCEPT ![w] = "remove"]
             /\ UNCHANGED faults
    <3>1. Range(Append(sent, arg[w])) = Range(sent) \cup {arg[w]}
      BY <2>1, AppendNotified
    <3>2. Notified' = Notified \cup {arg[w]}
      BY <2>2, <3>1 DEF Notified
    <3>3. QED
      BY <1>6, <2>1, <2>2, <3>2, AppendNotified DEF DeleteSend, RowIds
  <2>3. CASE Panic(w) /\ UNCHANGED sent
    <3>1. faults' \in 0..MaxFaults
      BY <2>3, BoundsAssumption DEF Panic
    <3>2. QED
      BY <1>6, <2>3, <3>1 DEF DeleteSend, Panic, RowIds, Notified, Range
  <2>4. QED
    BY <1>6, <2>2, <2>3 DEF DeleteSend
<1>7. ASSUME NEW w \in Workers, DeleteRemove(w) PROVE IInv'
  <2>1. CASE rows' = {r \in rows : r.id # arg[w]} /\ Answer(w, 204)
             /\ UNCHANGED faults
    <3>1. RowIds' = RowIds \ {arg[w]}
      BY <2>1 DEF RowIds
    <3>2. arg[w] \in Notified
      BY <1>7 DEF DeleteRemove
    <3>3. QED
      BY <1>7, <2>1, <3>1, <3>2 DEF DeleteRemove, Answer, Notified
  <2>2. CASE Panic(w) /\ UNCHANGED <<rows, status>>
    <3>1. faults' \in 0..MaxFaults
      BY <2>2, BoundsAssumption DEF Panic
    <3>2. QED
      BY <1>7, <2>2, <3>1 DEF DeleteRemove, Panic, RowIds, Notified, Range
  <2>3. QED
    BY <1>7, <2>1, <2>2 DEF DeleteRemove
<1>8. ASSUME NEW w \in Workers, Respond(w) PROVE IInv'
  <2> USE <1>8 DEF Respond
  <2>1. CASE pc' = [pc EXCEPT ![w] = "recv"] /\ UNCHANGED faults
    <3>1. TypeOK'
      BY <2>1
    <3>2. ArgTyped'
      BY <2>1
    <3>3. Notified' = Notified /\ RowIds' = RowIds
      BY <2>1 DEF RowIds, Notified
    <3>4. SentBeforeRemove' /\ DeletionNotified'
      BY <2>1, <3>3
    <3>5. QED
      BY <3>1, <3>2, <3>4
  <2>2. CASE Panic(w)
    <3>1. faults' \in 0..MaxFaults
      BY <2>2, BoundsAssumption DEF Panic
    <3>2. QED
      BY <2>2, <3>1 DEF Panic, RowIds, Notified, Range
  <2>3. QED
    BY <2>1, <2>2, Zenon DEF Respond
<1>9. CASE UNCHANGED vars
  BY <1>9 DEF vars, RowIds, Notified
<1>10. QED
  BY <1>1, <1>2, <1>3, <1>4, <1>5, <1>6, <1>7, <1>8, <1>9 DEF Next, Step

(* The type invariant holds in every reachable state. *)
THEOREM TypeCorrect == Spec => []TypeOK
BY InitIInv, NextIInv, PTL DEF Spec, IInv

(* Whatever the interleaving of the worker threads and wherever they     *)
(* panic, every workload inserted and no longer stored was announced to  *)
(* the scheduler: the property the run MCWorkloadApi checks on two       *)
(* workers, for every number of them.                                    *)
THEOREM DeletionsNotified == Spec => []DeletionNotified
BY InitIInv, NextIInv, PTL DEF Spec, IInv
=============================================================================
