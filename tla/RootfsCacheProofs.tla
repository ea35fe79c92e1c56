-------------------------- MODULE RootfsCacheProofs --------------------------
(***************************************************************************)
(* Proofs about the rootfs cache: create_fs's exclusive create_dir keeps  *)
(* every download directory in the hands of one task, for any number of  *)
(* tasks, names and agent restarts.                                       *)
(***************************************************************************)
EXTENDS RootfsCache, TLAPS

(* Every step keeps the variables in their types. *)
LEMMA TypeStep == TypeOK /\ [Next]_vars => TypeOK'
<1> USE DEF Phases, Downloading
<1> SUFFICES ASSUME TypeOK, [Next]_vars PROVE TypeOK'
  OBVIOUS
<1>1. ASSUME NEW t \in Tasks, CreateRuntime(t) PROVE TypeOK'
  BY <1>1 DEF CreateRuntime, Fails, TypeOK
<1>2. ASSUME NEW t \in Tasks, Check(t) PROVE TypeOK'
  BY <1>2 DEF Check, Returns, Fails, TypeOK
<1>3. ASSUME NEW t \in Tasks, Mkdir(t) PROVE TypeOK'
  BY <1>3 DEF Mkdir, Fails, TypeOK
<1>4. ASSUME NEW t \in Tasks, RemoveDir(t), UNCHANGED <<name, crashes>>
      PROVE TypeOK'
  <2>1. file[name[t]] \in {"none", "partial", "complete"}
    BY DEF TypeOK
  <2>2. file' \in [Names -> {"none", "partial", "complete"}]
    BY <1>4, <2>1 DEF RemoveDir, TypeOK
  <2>3. QED
    BY <1>4, <2>2 DEF RemoveDir, Fails, TypeOK
<1>5. ASSUME NEW t \in Tasks, Download(t) PROVE TypeOK'
  BY <1>4, <1>5 DEF Download, TypeOK
<1>6. ASSUME NEW t \in Tasks, CreateFile(t) PROVE TypeOK'
  BY <1>4, <1>6 DEF CreateFile, TypeOK
<1>7. ASSUME NEW t \in Tasks, WriteAll(t) PROVE TypeOK'
  BY <1>4, <1>7 DEF WriteAll, Returns, TypeOK
<1>8. CASE Crash
  BY <1>8, MaxCrashesAssumption DEF Crash, TypeOK
<1>9. CASE UNCHANGED vars
  BY <1>9 DEF vars, TypeOK
<1>10. QED
  BY <1>1, <1>2, <1>3, <1>5, <1>6, <1>7, <1>8, <1>9 DEF Next, Step

(* The type invariant holds in every reachable state. *)
THEOREM TypeCorrect == Spec => []TypeOK
<1>1. Init => TypeOK
  BY MaxCrashesAssumption DEF Init, TypeOK, Phases
<1>2. QED
  BY <1>1, TypeStep, PTL DEF Spec

-----------------------------------------------------------------------------
(* DownloadOwnership is inductive together with the types: a task passes *)
(* create_dir only when the directory is absent, hence owned by nobody,  *)
(* and only the owner removes it.                                         *)
IInv == TypeOK /\ DownloadOwnership

(* The clean-up closure keeps ownership: the owner leaves download_image, *)
(* and whether or not the directory goes, no other task owned it.         *)
LEMMA RemoveDirOwnership ==
  ASSUME IInv, NEW t \in Tasks, pc[t] \in Downloading,
         RemoveDir(t), UNCHANGED <<name, crashes>>
  PROVE  DownloadOwnership'
<1> USE DEF Downloading
<1>1. \A u \in Tasks \ {t} : pc[u] \in Downloading => name[u] # name[t]
  BY DEF IInv, DownloadOwnership, Owns
<1>2. \A u \in Tasks : pc'[u] \in Downloading => u # t /\ pc'[u] = pc[u]
  BY DEF RemoveDir, Fails, IInv, TypeOK
<1>3. \A u \in Tasks : pc'[u] \in Downloading => dir'[name'[u]]
  BY <1>1, <1>2 DEF RemoveDir, IInv, TypeOK, DownloadOwnership
<1>4. QED
  BY <1>2, <1>3 DEF IInv, DownloadOwnership, Owns

(* Every step keeps the inductive invariant. *)
LEMMA NextIInv == IInv /\ [Next]_vars => IInv'
<1> USE DEF Phases, Downloading
<1> SUFFICES ASSUME IInv, [Next]_vars PROVE IInv'
  OBVIOUS
<1>0. TypeOK'
  BY TypeStep DEF IInv
<1> SUFFICES DownloadOwnership'
  BY <1>0 DEF IInv
<1>1. ASSUME NEW t \in Tasks, CreateRuntime(t) PROVE DownloadOwnership'
  BY <1>1 DEF CreateRuntime, Fails, IInv, TypeOK, DownloadOwnership, Owns
<1>2. ASSUME NEW t \in Tasks, Check(t) PROVE DownloadOwnership'
  BY <1>2 DEF Check, Returns, Fails, IInv, TypeOK, DownloadOwnership, Owns
<1>3. ASSUME NEW t \in Tasks, Mkdir(t) PROVE DownloadOwnership'
  <2>1. ASSUME ~dir[name[t]],
               dir' = [dir EXCEPT ![name[t]] = TRUE],
               pc' = [pc EXCEPT ![t] = "download"]
        PROVE DownloadOwnership'
    <3>1. \A u \in Tasks : ~Owns(u, name[t])
      BY <2>1 DEF IInv, DownloadOwnership, Owns
    <3>2. QED
      BY <1>3, <2>1, <3>1 DEF Mkdir, IInv, TypeOK, DownloadOwnership, Owns
  <2>2. CASE Fails(t) /\ UNCHANGED dir
    BY <1>3, <2>2 DEF Mkdir, Fails, IInv, TypeOK, DownloadOwnership, Owns
  <2>3. QED
    BY <1>3, <2>1, <2>2 DEF Mkdir
<1>4. ASSUME NEW t \in Tasks, Download(t) PROVE DownloadOwnership'
  <2>1. CASE pc' = [pc EXCEPT ![t] = "create"] /\ UNCHANGED <<dir, file, path>>
    BY <1>4, <2>1 DEF Download, IInv, TypeOK, DownloadOwnership, Owns
  <2>2. CASE RemoveDir(t)
    BY <1>4, <2>2, RemoveDirOwnership DEF Download
  <2>3. QED
    BY <1>4, <2>1, <2>2 DEF Download
<1>5. ASSUME NEW t \in Tasks, CreateFile(t) PROVE DownloadOwnership'
  <2>1. CASE file' = [file EXCEPT ![name[t]] = "partial"]
             /\ pc' = [pc EXCEPT ![t] = "write"] /\ UNCHANGED <<dir, path>>
    BY <1>5, <2>1 DEF CreateFile, IInv, TypeOK, DownloadOwnership, Owns
  <2>2. CASE RemoveDir(t)
    BY <1>5, <2>2, RemoveDirOwnership DEF CreateFile
  <2>3. QED
    BY <1>5, <2>1, <2>2 DEF CreateFile
<1>6. ASSUME NEW t \in Tasks, WriteAll(t) PROVE DownloadOwnership'
  <2>1. CASE file' = [file EXCEPT ![name[t]] = "complete"]
             /\ Returns(t) /\ UNCHANGED dir
    BY <1>6, <2>1 DEF WriteAll, Returns, IInv, TypeOK, DownloadOwnership, Owns
  <2>2. CASE RemoveDir(t)
    BY <1>6, <2>2, RemoveDirOwnership DEF WriteAll
  <2>3. QED
    BY <1>6, <2>1, <2>2 DEF WriteAll
<1>7. CASE Crash
  BY <1>7 DEF Crash, DownloadOwnership, Owns
<1>8. CASE UNCHANGED vars
  BY <1>8 DEF vars, IInv, DownloadOwnership, Owns
<1>9. QED
  BY <1>1, <1>2, <1>3, <1>4, <1>5, <1>6, <1>7, <1>8 DEF Next, Step

(* No two tasks ever download into the same directory, and a task inside *)
(* download_image always has its directory: the property the run         *)
(* MCRootfsCache checks on three tasks and two names, for every number   *)
(* of tasks, names and restarts.                                         *)
THEOREM OwnershipHolds == Spec => []DownloadOwnership
<1>1. Init => IInv
  BY MaxCrashesAssumption DEF Init, IInv, TypeOK, Phases, Downloading,
                               DownloadOwnership, Owns
<1>2. IInv => DownloadOwnership
  BY DEF IInv
<1>3. QED
  BY <1>1, <1>2, NextIInv, PTL DEF Spec

-----------------------------------------------------------------------------
(* CompleteFileStable, an action property, needs two more facts about    *)
(* the cache on disk.  A rootfs file lives in its download directory:    *)
(* remove_dir_all takes both, and File::create is reached only through   *)
(* create_dir.                                                            *)
FileInDir == \A n \in Names : file[n] # "none" => dir[n]

(* No task is inside download_image for a name whose rootfs is complete: *)
(* create_fs returns early on an existing file, create_dir refuses an    *)
(* existing directory, and the writer leaves as it completes the file.   *)
CompleteUnowned ==
  \A n \in Names : file[n] = "complete" => \A t \in Tasks : ~Owns(t, n)

CacheInv == IInv /\ FileInDir /\ CompleteUnowned

(* The clean-up closure of the owner t keeps both facts: it removes the  *)
(* directory with the file, or leaves the directory, and the file it     *)
(* touches was not complete.                                              *)
LEMMA RemoveDirCache ==
  ASSUME CacheInv, NEW t \in Tasks, pc[t] \in Downloading,
         RemoveDir(t), UNCHANGED <<name, crashes>>
  PROVE  /\ FileInDir' /\ CompleteUnowned'
         /\ \A n \in Names : file[n] = "complete" => file'[n] = "complete"
<1> USE DEF Downloading
<1>1. file[name[t]] # "complete"
  BY DEF CacheInv, CompleteUnowned, Owns, IInv, TypeOK
<1>2. \A u \in Tasks : pc'[u] \in Downloading => u # t /\ pc'[u] = pc[u]
  BY DEF RemoveDir, Fails, CacheInv, IInv, TypeOK
<1>3. file'[name[t]] # "complete" /\ \A n \in Names \ {name[t]} : file'[n] = file[n]
  BY <1>1 DEF RemoveDir, CacheInv, IInv, TypeOK
<1>4. FileInDir'
  BY <1>3 DEF RemoveDir, CacheInv, FileInDir, IInv, TypeOK
<1>5. CompleteUnowned'
  BY <1>2, <1>3 DEF CacheInv, CompleteUnowned, Owns, IInv, TypeOK
<1>6. QED
  BY <1>1, <1>3, <1>4, <1>5

(* Every step keeps CacheInv, and no step takes a complete rootfs away.  *)
LEMMA NextCacheInv ==
  CacheInv /\ [Next]_vars =>
    /\ CacheInv'
    /\ \A n \in Names : file[n] = "complete" => file'[n] = "complete"
<1> USE DEF Phases, Downloading
<1> SUFFICES ASSUME CacheInv, [Next]_vars
             PROVE /\ CacheInv'
                   /\ \A n \in Names : file[n] = "complete" => file'[n] = "complete"
  OBVIOUS
<1>0. IInv'
  BY NextIInv DEF CacheInv
<1> SUFFICES /\ FileInDir' /\ CompleteUnowned'
             /\ \A n \in Names : file[n] = "complete" => file'[n] = "complete"
  BY <1>0 DEF CacheInv
<1>2. ASSUME NEW t \in Tasks, CreateRuntime(t) \/ Check(t)
      PROVE /\ FileInDir' /\ CompleteUnowned'
            /\ \A n \in Names : file[n] = "complete" => file'[n] = "complete"
  <2>1. UNCHANGED <<dir, file>> /\ pc'[t] \in {"idle", "check", "mkdir"}
        /\ \A u \in Tasks \ {t} : pc'[u] = pc[u] /\ name'[u] = name[u]
    BY <1>2 DEF CreateRuntime, Check, Fails, Returns, CacheInv, IInv, TypeOK
  <2>2. QED
    BY <2>1 DEF CacheInv, FileInDir, CompleteUnowned, Owns, IInv, TypeOK
<1>3. ASSUME NEW t \in Tasks, Mkdir(t)
      PROVE /\ FileInDir' /\ CompleteUnowned'
            /\ \A n \in Names : file[n] = "complete" => file'[n] = "complete"
  <2>1. CASE ~dir[name[t]] /\ dir' = [dir EXCEPT ![name[t]] = TRUE]
             /\ pc' = [pc EXCEPT ![t] = "download"]
    <3>1. file[name[t]] = "none"
      BY <2>1 DEF CacheInv, FileInDir, IInv, TypeOK
    <3>2. QED
      BY <1>3, <2>1, <3>1 DEF Mkdir, CacheInv, FileInDir, CompleteUnowned,
                               Owns, IInv, TypeOK
  <2>2. CASE Fails(t) /\ UNCHANGED dir
    BY <1>3, <2>2 DEF Mkdir, Fails, CacheInv, FileInDir, CompleteUnowned,
                      Owns, IInv, TypeOK
  <2>3. QED
    BY <1>3, <2>1, <2>2 DEF Mkdir
<1>4. ASSUME NEW t \in Tasks, Download(t)
      PROVE /\ FileInDir' /\ CompleteUnowned'
            /\ \A n \in Names : file[n] = "complete" => file'[n] = "complete"
  <2>1. CASE pc' = [pc EXCEPT ![t] = "create"] /\ UNCHANGED <<dir, file, path>>
    BY <1>4, <2>1 DEF Download, CacheInv, FileInDir, CompleteUnowned, Owns,
                      IInv, TypeOK
  <2>2. CASE RemoveDir(t)
    BY <1>4, <2>2, RemoveDirCache DEF Download
  <2>3. QED
    BY <1>4, <2>1, <2>2 DEF Download
<1>5. ASSUME NEW t \in Tasks, CreateFile(t)
      PROVE /\ FileInDir' /\ CompleteUnowned'
            /\ \A n \in Names : file[n] = "complete" => file'[n] = "complete"
  <2>1. CASE file' = [file EXCEPT ![name[t]] = "partial"]
             /\ pc' = [pc EXCEPT ![t] = "write"] /\ UNCHANGED <<dir, path>>
    <3>1. dir[name[t]] /\ file[name[t]] # "complete"
      BY <1>5 DEF CreateFile, CacheInv, IInv, DownloadOwnership,
                  CompleteUnowned, Owns, TypeOK
    <3>2. QED
      BY <1>5, <2>1, <3>1 DEF CreateFile, CacheInv, FileInDir,
                               CompleteUnowned, Owns, IInv, TypeOK
  <2>2. CASE RemoveDir(t)
    BY <1>5, <2>2, RemoveDirCache DEF CreateFile
  <2>3. QED
    BY <1>5, <2>1, <2>2 DEF CreateFile
<1>6. ASSUME NEW t \in Tasks, WriteAll(t)
      PROVE /\ FileInDir' /\ CompleteUnowned'
            /\ \A n \in Names : file[n] = "complete" => file'[n] = "complete"
  <2>1. CASE file' = [file EXCEPT ![name[t]] = "complete"]
             /\ Returns(t) /\ UNCHANGED dir
    <3>1. dir[name[t]]
      BY <1>6 DEF WriteAll, CacheInv, IInv, DownloadOwnership, TypeOK
    <3>2. \A u \in Tasks \ {t} : ~Owns(u, name[t])
      BY <1>6 DEF WriteAll, CacheInv, IInv, DownloadOwnership, Owns
    <3>3. \A u \in Tasks : pc'[u] \in Downloading => u # t /\ pc'[u] = pc[u]
      BY <2>1 DEF Returns, CacheInv, IInv, TypeOK
    <3>4. QED
      BY <1>6, <2>1, <3>1, <3>2, <3>3 DEF WriteAll, CacheInv, FileInDir,
                                           CompleteUnowned, Owns, IInv, TypeOK
  <2>2. CASE RemoveDir(t)
    BY <1>6, <2>2, RemoveDirCache DEF WriteAll
  <2>3. QED
    BY <1>6, <2>1, <2>2 DEF WriteAll
<1>7. CASE Crash
  BY <1>7 DEF Crash, CacheInv, FileInDir, CompleteUnowned, Owns
<1>8. CASE UNCHANGED vars
  BY <1>8 DEF vars, CacheInv, FileInDir, CompleteUnowned, Owns
<1>9. QED
  BY <1>2, <1>3, <1>4, <1>5, <1>6, <1>7, <1>8 DEF Next, Step

(* A complete rootfs is never truncated by File::create, rewritten or    *)
(* removed by remove_dir_all, whatever the tasks and restarts do: the    *)
(* action property the run MCRootfsCache checks, for every number of     *)
(* tasks, names and restarts.                                             *)
THEOREM CompleteFileStableHolds == Spec => CompleteFileStable
<1>1. Init => CacheInv
  BY MaxCrashesAssumption DEF Init, CacheInv, IInv, TypeOK, Phases, Downloading,
                               DownloadOwnership, Owns, FileInDir, CompleteUnowned
<1>2. CacheInv /\ [Next]_vars =>
        [\A n \in Names : file[n] = "complete" => file'[n] = "complete"]_vars
  BY NextCacheInv
<1>3. CacheInv /\ [Next]_vars => CacheInv'
  BY NextCacheInv
<1>4. QED
  BY <1>1, <1>2, <1>3, PTL DEF Spec, CompleteFileStable
=============================================================================
