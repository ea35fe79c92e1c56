----------------------------- MODULE WorkloadApi -----------------------------
(***************************************************************************)
(* The controller's external HTTP API for workloads: Server::run and its  *)
(* worker threads (src/controller/src/api/external/mod.rs), Router::handle *)
(* (routes/mod.rs) and the get, create and delete routes                   *)
(* (routes/workload.rs).  The repository layer (RikRepository) is not      *)
(* under src/ and is modelled from what the routes expect of it: each of   *)
(* its calls is one SQL statement on the thread's own connection, atomic   *)
(* on its own and nothing more.  internal_sender is the channel to the     *)
(* scheduler; the model keeps the log of the workload ids sent on it.      *)
(*                                                                         *)
(* A workload is its formatted name /workload/<kind>/default/<name>; the  *)
(* JSON bodies are abstracted to the request each one parses to.          *)
(***************************************************************************)
EXTENDS Naturals, Sequences, FiniteSets, Functions

CONSTANTS
  Workers,    \* the threads spawned by run_server (four in the code)
  WNames,     \* formatted workload names clients create
  MaxId,      \* bound on the row ids the model lets the database hand out
  MaxFaults   \* bound on worker panics (client gone, failed DELETE)

ASSUME WorkersAssumption == IsFiniteSet(Workers) /\ Workers # {}
ASSUME BoundsAssumption == MaxId \in Nat \ {0} /\ MaxFaults \in Nat

VARIABLES
  started,  \* Server::run has sent its startup message and spawned workers
  pc,       \* pc[w]: where worker thread w is, "dead" once it panicked
  arg,      \* arg[w]: the name to create or the id to delete of w's request
  status,   \* status[w]: the status code of the response w is sending
  rows,     \* the workloads table: a set of [id, name] records
  nextId,   \* the rowid the next insert gets
  sent,     \* the workload ids of the CRUD::Delete messages sent, in order
  faults    \* worker panics so far

vars == <<started, pc, arg, status, rows, nextId, sent, faults>>

Statuses == {0, 200, 204, 400, 404, 500}
Pcs == {"recv", "check", "insert", "find", "send", "remove", "respond", "dead"}

RowIds == {r.id : r \in rows}

TypeOK ==
  /\ started \in BOOLEAN
  /\ pc \in [Workers -> Pcs]
  /\ arg \in [Workers -> WNames \cup Nat]
  /\ status \in [Workers -> Statuses]
  /\ rows \subseteq [id : Nat, name : WNames]
  /\ nextId \in Nat \ {0}
  /\ sent \in Seq(Nat)
  /\ faults \in 0..MaxFaults

Init ==
  /\ started = FALSE
  /\ pc = [w \in Workers |-> "recv"]
  /\ arg \in [Workers -> WNames]
  /\ status = [w \in Workers |-> 0]
  /\ rows = {}
  /\ nextId = 1
  /\ sent = <<>>
  /\ faults = 0

(* The handler of w returns: w goes on to send a response with code c. *)
Answer(w, c) ==
  /\ pc' = [pc EXCEPT ![w] = "respond"]
  /\ status' = [status EXCEPT ![w] = c]

(* Worker w panics on an unwrap: the thread ends and is never replaced. *)
Panic(w) ==
  /\ faults < MaxFaults
  /\ faults' = faults + 1
  /\ pc' = [pc EXCEPT ![w] = "dead"]

-----------------------------------------------------------------------------
(* Server::run: a CRUD::Delete for workload 1 goes to the scheduler, then *)
(* run_server opens the database and spawns the worker threads.          *)
Run ==
  /\ ~started
  /\ started' = TRUE
  /\ sent' = Append(sent, 1)
  /\ UNCHANGED <<pc, arg, status, rows, nextId, faults>>

(* workloads.list: find_all answers 200 with the workloads, or 500. *)
ListWorkloads(w) == \E c \in {200, 500} : Answer(w, c)

(* A worker takes the next request (server.recv) and Router::handle      *)
(* dispatches it.  A body that does not parse makes the create or delete *)
(* handler return Err through `?`, which handle turns into a 400.  An    *)
(* unknown method or path gives None and the worker answers 404.  A      *)
(* create or a delete reads the body with read_to_string(..).unwrap(),  *)
(* which panics when the client's stream fails, and goes on to its first *)
(* repository call.                                                       *)
Recv(w) ==
  /\ started
  /\ pc[w] = "recv"
  /\ \/ /\ ListWorkloads(w) \/ Answer(w, 400) \/ Answer(w, 404)
        /\ UNCHANGED <<arg, faults>>
     \/ /\ nextId <= MaxId
        /\ \E n \in WNames : arg' = [arg EXCEPT ![w] = n]
        /\ pc' = [pc EXCEPT ![w] = "check"]
        /\ UNCHANGED <<status, faults>>
     \/ /\ \E i \in 1..MaxId : arg' = [arg EXCEPT ![w] = i]
        /\ pc' = [pc EXCEPT ![w] = "find"]
        /\ UNCHANGED <<status, faults>>
     \/ /\ Panic(w)
        /\ UNCHANGED <<arg, status>>
  /\ UNCHANGED <<started, rows, nextId, sent>>

(* create: check_duplicate_name succeeds when a workload of that name is *)
(* stored, and the route answers 404 "Name already used".  Any Err of it *)
(* (no such name, or a failing query) lets the route go on to insert.    *)
CreateCheck(w) ==
  /\ pc[w] = "check"
  /\ \/ /\ \E r \in rows : r.name = arg[w]
        /\ Answer(w, 404)
     \/ /\ pc' = [pc EXCEPT ![w] = "insert"]
        /\ UNCHANGED status
  /\ UNCHANGED <<started, arg, rows, nextId, sent, faults>>

(* create: insert the row and answer its id with 200, or 500 on Err. *)
CreateInsert(w) ==
  /\ pc[w] = "insert"
  /\ \/ /\ rows' = rows \cup {[id |-> nextId, name |-> arg[w]]}
        /\ nextId' = nextId + 1
        /\ Answer(w, 200)
     \/ /\ Answer(w, 500)
        /\ UNCHANGED <<rows, nextId>>
  /\ UNCHANGED <<started, arg, sent, faults>>

(* delete: find_one(delete_id) returns the stored workload, or Err for  *)
(* a missing one or a failing query, which is answered 404.  The stored   *)
(* value was written by create from a parsed WorkloadDefinition, so its   *)
(* from_value(..).unwrap() does not fail.                                 *)
DeleteFind(w) ==
  /\ pc[w] = "find"
  /\ \/ /\ arg[w] \in RowIds
        /\ pc' = [pc EXCEPT ![w] = "send"]
        /\ UNCHANGED status
     \/ Answer(w, 404)
  /\ UNCHANGED <<started, arg, rows, nextId, sent, faults>>

(* Mutant: the notification to the scheduler left out. *)
DeleteSendDropped(w) ==
  /\ pc[w] = "send"
  /\ pc' = [pc EXCEPT ![w] = "remove"]
  /\ UNCHANGED <<started, arg, status, rows, nextId, sent, faults>>

(* delete: internal_sender.send(CRUD::Delete) for the workload found;    *)
(* .unwrap() panics when the scheduler's receiver is gone, and nothing is *)
(* sent or deleted.                                                        *)
DeleteSend(w) ==
  /\ pc[w] = "send"
  /\ \/ /\ sent' = Append(sent, arg[w])
        /\ pc' = [pc EXCEPT ![w] = "remove"]
        /\ UNCHANGED faults
     \/ /\ Panic(w)
        /\ UNCHANGED sent
  /\ UNCHANGED <<started, arg, status, rows, nextId>>

(* delete: RikRepository::delete(..).unwrap() and answer 204; an Err     *)
(* panics the worker, the request is never answered.                    *)
DeleteRemove(w) ==
  /\ pc[w] = "remove"
  /\ \/ /\ rows' = {r \in rows : r.id # arg[w]}
        /\ Answer(w, 204)
        /\ UNCHANGED faults
     \/ /\ Panic(w)
        /\ UNCHANGED <<rows, status>>
  /\ UNCHANGED <<started, arg, nextId, sent>>

(* req.respond(res).unwrap(): fails when the client has gone, and the   *)
(* worker panics; otherwise the loop takes the next request.            *)
Respond(w) ==
  /\ pc[w] = "respond"
  /\ \/ /\ pc' = [pc EXCEPT ![w] = "recv"]
        /\ UNCHANGED faults
     \/ Panic(w)
  /\ UNCHANGED <<started, arg, status, rows, nextId, sent>>

Step(w) ==
  \/ Recv(w) \/ CreateCheck(w) \/ CreateInsert(w)
  \/ DeleteFind(w) \/ DeleteSend(w) \/ DeleteRemove(w) \/ Respond(w)

Next == Run \/ \E w \in Workers : Step(w)

Spec == Init /\ [][Next]_vars

-----------------------------------------------------------------------------
(* The ids of the Delete messages sent so far. *)
Notified == Range(sent)

(* A worker between find_one and the end of the delete of workload i. *)
Deleting(i) == \E w \in Workers : pc[w] \in {"send", "remove"} /\ arg[w] = i

(* The scheduler hears of every workload the API deletes: any workload   *)
(* ever inserted and no longer stored had its CRUD::Delete sent, however *)
(* the deletes of the worker threads interleave and whichever of them    *)
(* panics.                                                                *)
DeletionNotified ==
  \A i \in 1..(nextId - 1) : i \notin RowIds => i \in Notified

(* Workload names are unique (spec 3): the create route checks the name  *)
(* before it inserts, so no two stored workloads share one.              *)
NameUnique ==
  \A r1, r2 \in rows : r1.name = r2.name => r1 = r2

(* The scheduler and the database agree on deletions: a workload the     *)
(* scheduler was told to delete is not stored, unless a delete route is   *)
(* between its notification and its DELETE.                              *)
NotifiedNotStored ==
  \A i \in Notified : i \in RowIds => Deleting(i)

(* The worker loop of run_server serves requests for ever: some worker   *)
(* thread is always alive.                                               *)
ServerKeepsServing ==
  \E w \in Workers : pc[w] # "dead"
=============================================================================
