----------------------------- MODULE RootfsCache -----------------------------
(***************************************************************************)
(* The rootfs cache of FunctionRuntimeManager                              *)
(* (src/riklet/src/runtime/function_runtime.rs): create_runtime, create_fs *)
(* and download_image, run by several agent tasks at once for workloads   *)
(* that may share a name, over a file system that outlives the agent.     *)
(*                                                                         *)
(* A step is one file-system call or the whole HTTP transfer; other tasks *)
(* interleave between them, because nothing in create_fs is serialised.  *)
(* The bytes of the image are abstracted to how much of them is on disk:  *)
(* "none", "partial" (created or half written) or "complete".             *)
(***************************************************************************)
EXTENDS Naturals, FiniteSets

CONSTANTS
  Tasks,       \* the agent tasks that may run create_runtime concurrently
  Names,       \* workload names; /tmp/<name>/rootfs.ext4 is the cached file
  NoName,      \* the path held by a task that holds no runtime
  MaxCrashes   \* bound on the agent restarts the model explores

ASSUME TasksAssumption == IsFiniteSet(Tasks) /\ Tasks # {}
ASSUME NamesAssumption == NoName \notin Names
ASSUME MaxCrashesAssumption == MaxCrashes \in Nat

VARIABLES
  pc,       \* pc[t]: "idle", or the call of create_fs task t is about to make
  name,     \* name[t]: the workload name task t is creating a runtime for
  dir,      \* dir[n]: the directory /tmp/<n> exists
  file,     \* file[n]: "none", "partial" or "complete" rootfs.ext4 in it
  path,     \* path[t]: the name whose rootfs the runtime of t was built on
  crashes   \* agent restarts so far

vars == <<pc, name, dir, file, path, crashes>>

Phases == {"idle", "check", "mkdir", "download", "create", "write"}

(* The calls of download_image between create_dir and its return. *)
Downloading == {"download", "create", "write"}

TypeOK ==
  /\ pc \in [Tasks -> Phases]
  /\ name \in [Tasks -> Names]
  /\ dir \in [Names -> BOOLEAN]
  /\ file \in [Names -> {"none", "partial", "complete"}]
  /\ path \in [Tasks -> Names \cup {NoName}]
  /\ crashes \in 0..MaxCrashes

Init ==
  /\ pc = [t \in Tasks |-> "idle"]
  /\ name \in [Tasks -> Names]
  /\ dir = [n \in Names |-> FALSE]
  /\ file = [n \in Names |-> "none"]
  /\ path = [t \in Tasks |-> NoName]
  /\ crashes = 0

(* create_fs of t returns Err: create_runtime returns it, no runtime. *)
Fails(t) ==
  /\ pc' = [pc EXCEPT ![t] = "idle"]
  /\ path' = [path EXCEPT ![t] = NoName]

(* create_fs of t returns Ok(file_path); FunctionRuntimeNetwork::new may *)
(* still fail, and then create_runtime returns Err with the file cached. *)
Returns(t) ==
  /\ pc' = [pc EXCEPT ![t] = "idle"]
  /\ \/ path' = [path EXCEPT ![t] = name[t]]
     \/ path' = [path EXCEPT ![t] = NoName]

-----------------------------------------------------------------------------
(* create_runtime parses the scheduled definition, which may fail, and    *)
(* calls create_fs for the workload's name.                               *)
CreateRuntime(t) ==
  /\ pc[t] = "idle"
  /\ \/ /\ Fails(t)
        /\ UNCHANGED name
     \/ \E n \in Names :
          /\ name' = [name EXCEPT ![t] = n]
          /\ pc' = [pc EXCEPT ![t] = "check"]
          /\ path' = [path EXCEPT ![t] = NoName]
  /\ UNCHANGED <<dir, file, crashes>>

(* create_fs: a definition without a rootfs url fails; otherwise          *)
(* if !file_pathbuf.exists(), and a cache hit trusts the file by its      *)
(* existence alone.                                                        *)
Check(t) ==
  /\ pc[t] = "check"
  /\ \/ Fails(t)
     \/ /\ file[name[t]] # "none"
        /\ Returns(t)
     \/ /\ file[name[t]] = "none"
        /\ pc' = [pc EXCEPT ![t] = "mkdir"]
        /\ UNCHANGED path
  /\ UNCHANGED <<name, dir, file, crashes>>

(* Mutant: fs::create_dir_all, which succeeds on an existing directory. *)
MkdirTolerant(t) ==
  /\ pc[t] = "mkdir"
  /\ \/ /\ dir' = [dir EXCEPT ![name[t]] = TRUE]
        /\ pc' = [pc EXCEPT ![t] = "download"]
        /\ UNCHANGED path
     \/ /\ Fails(t)
        /\ UNCHANGED dir
  /\ UNCHANGED <<name, file, crashes>>

(* fs::create_dir(&download_directory)?: fails if the directory exists   *)
(* (or for any other I/O error), without the clean-up closure.           *)
Mkdir(t) ==
  /\ pc[t] = "mkdir"
  /\ \/ /\ ~dir[name[t]]
        /\ dir' = [dir EXCEPT ![name[t]] = TRUE]
        /\ pc' = [pc EXCEPT ![t] = "download"]
        /\ UNCHANGED path
     \/ /\ Fails(t)
        /\ UNCHANGED dir
  /\ UNCHANGED <<name, file, crashes>>

(* The map_err closure of create_fs on any error of download_image:      *)
(* remove_dir_all, whose failure panics (.expect) and ends the task with  *)
(* the directory, and possibly the file, left behind.                     *)
RemoveDir(t) ==
  /\ Fails(t)
  /\ \/ /\ dir' = [dir EXCEPT ![name[t]] = FALSE]
        /\ file' = [file EXCEPT ![name[t]] = "none"]
     \/ /\ UNCHANGED dir
        /\ \E f \in {"none", file[name[t]]} :
             file' = [file EXCEPT ![name[t]] = f]

(* The transfer: url, follow_location, perform and the response code;    *)
(* the body is buffered in memory, nothing is written yet.               *)
Download(t) ==
  /\ pc[t] = "download"
  /\ \/ /\ pc' = [pc EXCEPT ![t] = "create"]
        /\ UNCHANGED <<dir, file, path>>
     \/ RemoveDir(t)
  /\ UNCHANGED <<name, crashes>>

(* File::create(file_path): creates, or truncates, an empty file. *)
CreateFile(t) ==
  /\ pc[t] = "create"
  /\ \/ /\ file' = [file EXCEPT ![name[t]] = "partial"]
        /\ pc' = [pc EXCEPT ![t] = "write"]
        /\ UNCHANGED <<dir, path>>
     \/ RemoveDir(t)
  /\ UNCHANGED <<name, crashes>>

(* file.write_all(buffer): a failure may leave part of it on disk. *)
WriteAll(t) ==
  /\ pc[t] = "write"
  /\ \/ /\ file' = [file EXCEPT ![name[t]] = "complete"]
        /\ Returns(t)
        /\ UNCHANGED dir
     \/ RemoveDir(t)
  /\ UNCHANGED <<name, crashes>>

(* The agent process dies: every task and runtime is gone, /tmp stays. *)
Crash ==
  /\ crashes < MaxCrashes
  /\ crashes' = crashes + 1
  /\ pc' = [t \in Tasks |-> "idle"]
  /\ path' = [t \in Tasks |-> NoName]
  /\ UNCHANGED <<name, dir, file>>

Step(t) ==
  \/ Check(t) \/ Mkdir(t) \/ Download(t) \/ CreateFile(t) \/ WriteAll(t)

Next ==
  \/ \E t \in Tasks : CreateRuntime(t) \/ Step(t)
  \/ Crash

Spec == Init /\ [][Next]_vars

-----------------------------------------------------------------------------
(* A task owns name n while it is inside download_image for n. *)
Owns(t, n) == pc[t] \in Downloading /\ name[t] = n

(* create_fs's exclusive create_dir makes a download directory the       *)
(* property of one task: whoever is inside download_image for a name     *)
(* created its directory, and no other task downloads into it at the    *)
(* same time.  Broken by any way of reaching download_image with a       *)
(* directory some other task created.                                    *)
DownloadOwnership ==
  \A t \in Tasks :
    /\ pc[t] \in Downloading => dir[name[t]]
    /\ \A u \in Tasks \ {t} : ~(Owns(t, name[t]) /\ Owns(u, name[t]))

(* Cache monotonicity (spec 8.4): a complete rootfs is never truncated,  *)
(* rewritten or removed by a later create_fs for the same name.          *)
CompleteFileStable ==
  [][\A n \in Names : file[n] = "complete" => file'[n] = "complete"]_vars

(* Every runtime create_runtime built uses a complete rootfs: the file   *)
(* was complete when another task's create_fs saw it exist, and stays so *)
(* (spec 5: "The fetched file must be complete before any reader         *)
(* observes it").                                                        *)
RuntimeRootfsComplete ==
  \A t \in Tasks : path[t] # NoName => file[path[t]] = "complete"

(* A download directory without a complete rootfs belongs to a task      *)
(* still downloading into it; otherwise every later create_fs for that   *)
(* name fails at create_dir and the workload can never start again.      *)
NoOrphanDir ==
  \A n \in Names :
    dir[n] /\ file[n] # "complete" => \E t \in Tasks : Owns(t, n)
=============================================================================
