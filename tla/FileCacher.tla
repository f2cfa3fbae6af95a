----------------------------- MODULE FileCacher ----------------------------
(* The file storage: FSObject rows and the large objects of PostgreSQL     *)
(* they point to (DBBackend), the directory of cached files that the       *)
(* services of a machine share (FileCacher), and the rows of the           *)
(* application that refer to files by digest.  Processes put files and get *)
(* them, in steps that interleave; anyone may delete a cached file, and a  *)
(* process may die at any step.                                            *)
EXTENDS Integers, FiniteSets, Functions

CONSTANTS
  Digest,
  Kind,                  \* the columns that hold digests, by what they are for
  Proc,                  \* the processes (or greenlets) that use the storage
  NoProc,
  Tombstone,             \* Digest.TOMBSTONE
  Stores,                \* what the runs start from: digests stored, rows that refer
  Length,                \* chunks in a file
  MaxRequests,           \* puts, gets, precachings and deletions in a run
  MaxCrashes             \* deaths of processes in a run

ASSUME FileCacherAssumption ==
  /\ NoProc \notin Proc /\ Tombstone \notin Digest
  /\ \A s \in Stores : IsFiniteSet(s.stored) /\ s.stored \subseteq Digest
                       /\ s.rows \subseteq Kind \X s.stored
  /\ Length \in Nat \ {0} /\ MaxRequests \in Nat /\ MaxCrashes \in Nat

VARIABLES
  fsobjects,             \* the loid in the row of each digest that has one
  large,                 \* the large objects there are
  loids,                 \* how many were ever created
  cache,                 \* the chunks in each file of the cache directory
  rows,                  \* which digests the application refers to, as what
  op,                    \* what each process does
  lock,                  \* who holds cache_lock
  requests,
  crashes,
  leaked                 \* large objects of processes that died (history)

vars == <<fsobjects, large, loids, cache, rows, op, lock, requests, crashes, leaked>>
storage == <<fsobjects, large, loids>>

Idle == [call |-> "none"]

Init ==
  \E s \in Stores :
    /\ loids = Cardinality(s.stored) /\ large = 1 .. loids
    /\ fsobjects \in {f \in [s.stored -> large] : IsInjective(f)}
    /\ rows = s.rows /\ cache = <<>>
    /\ op = [p \in Proc |-> Idle] /\ lock = NoProc
    /\ requests = 0 /\ crashes = 0 /\ leaked = {}

At(p, call, step) == op[p].call = call /\ op[p].step = step

Stored(d) == d \in DOMAIN fsobjects /\ fsobjects[d] \in large

With(f, d, value) == [e \in DOMAIN f \cup {d} |-> IF e = d THEN value ELSE f[e]]
Without(f, d) == Restrict(f, DOMAIN f \ {d})

Step(p, step) == op' = [op EXCEPT ![p].step = step]
Ends(p) == op' = [op EXCEPT ![p] = Idle]

Asked == requests < MaxRequests /\ requests' = requests + 1

-----------------------------------------------------------------------------
(* put_file_from_fobj, and the commit of the row its caller wants the file *)
(* for.  The temporary file is complete before the backend is asked.       *)
Put(p, kind, d) ==
  /\ op[p] = Idle /\ Asked
  /\ op' = [op EXCEPT ![p] = [call |-> "put", step |-> "create", kind |-> kind,
                              digest |-> d, loid |-> 0]]
  /\ UNCHANGED <<storage, cache, rows, lock, crashes, leaked>>

(* DBBackend.create_file: a new large object, in a transaction of its own, *)
(* unless a row for the digest is there.                                   *)
CreateFile(p) ==
  /\ At(p, "put", "create")
  /\ IF op[p].digest \in DOMAIN fsobjects
     THEN Step(p, "rename") /\ UNCHANGED loids
     ELSE /\ loids' = loids + 1
          /\ op' = [op EXCEPT ![p].step = "close", ![p].loid = loids + 1]
  /\ UNCHANGED <<fsobjects, large, cache, rows, lock, requests, crashes, leaked>>

(* commit_file: the large object is committed first ...                    *)
CloseLarge(p) ==
  /\ At(p, "put", "close")
  /\ large' = large \cup {op[p].loid}
  /\ Step(p, "commit")
  /\ UNCHANGED <<fsobjects, loids, cache, rows, lock, requests, crashes, leaked>>

(* ... then the row, unless someone else was faster (IntegrityError).  The *)
(* mutant puts the new large object in the row.                            *)
CommitFileReplacing(p) ==
  /\ At(p, "put", "commit")
  /\ fsobjects' = With(fsobjects, op[p].digest, op[p].loid)
  /\ Step(p, IF op[p].digest \in DOMAIN fsobjects THEN "drop" ELSE "rename")
  /\ UNCHANGED <<large, loids, cache, rows, lock, requests, crashes, leaked>>

CommitFile(p) ==
  /\ At(p, "put", "commit")
  /\ IF op[p].digest \in DOMAIN fsobjects
     THEN Step(p, "drop") /\ UNCHANGED fsobjects
     ELSE Step(p, "rename") /\ fsobjects' = With(fsobjects, op[p].digest, op[p].loid)
  /\ UNCHANGED <<large, loids, cache, rows, lock, requests, crashes, leaked>>

DropLarge(p) ==
  /\ At(p, "put", "drop")
  /\ large' = large \ {op[p].loid}
  /\ Step(p, "rename")
  /\ UNCHANGED <<fsobjects, loids, cache, rows, lock, requests, crashes, leaked>>

RenamePut(p) ==
  /\ At(p, "put", "rename")
  /\ cache' = With(cache, op[p].digest, Length)
  /\ Step(p, "refer")
  /\ UNCHANGED <<storage, rows, lock, requests, crashes, leaked>>

(* The caller commits a row with the digest, or fails.                     *)
Refer(p) ==
  /\ At(p, "put", "refer")
  /\ \/ rows' = rows \cup {<<op[p].kind, op[p].digest>>}
     \/ UNCHANGED rows
  /\ Ends(p)
  /\ UNCHANGED <<storage, cache, lock, requests, crashes, leaked>>

-----------------------------------------------------------------------------
(* get_file, for a digest read from a row.                                 *)
Get(p, d) ==
  /\ op[p] = Idle /\ Asked
  /\ \E kind \in Kind : <<kind, d>> \in rows
  /\ op' = [op EXCEPT ![p] = [call |-> "get", step |-> "open", digest |-> d, temp |-> 0]]
  /\ UNCHANGED <<storage, cache, rows, lock, crashes, leaked>>

(* precache_files, for the one that gets precache_lock: the files of the   *)
(* tasks of the contest are enumerated, then brought in one by one.        *)
Precache(p) ==
  /\ op[p] = Idle /\ lock = NoProc /\ Asked
  /\ lock' = p
  /\ op' = [op EXCEPT ![p] = [call |-> "precache", step |-> "next",
                              todo |-> {d \in Digest : <<"task", d>> \in rows}, temp |-> 0]]
  /\ UNCHANGED <<storage, cache, rows, crashes, leaked>>

PrecacheNext(p, d) ==
  /\ At(p, "precache", "next") /\ d \in op[p].todo
  /\ op' = [op EXCEPT ![p] = [call |-> "precache", step |-> "open", digest |-> d,
                              todo |-> op[p].todo \ {d}, temp |-> 0]]
  /\ UNCHANGED <<storage, cache, rows, lock, requests, crashes, leaked>>

(* The end of precache_files, an exception other than KeyError included.   *)
(* The mutant closes no lock file.                                         *)
UnlockKeeping(p) == UNCHANGED lock
Unlock(p) == lock' = NoProc

PrecacheEnd(p) ==
  /\ At(p, "precache", "next") /\ op[p].todo = {}
  /\ Unlock(p) /\ Ends(p)
  /\ UNCHANGED <<storage, cache, rows, requests, crashes, leaked>>

Loading(p) == op[p].call \in {"get", "precache"}

(* The file is there, with so many chunks.                                 *)
Loaded(p, chunks) ==
  op' = [op EXCEPT ![p] =
           IF op[p].call = "get"
           THEN [call |-> "get", step |-> "read", digest |-> op[p].digest, temp |-> chunks]
           ELSE [op[p] EXCEPT !.step = "next"]]

(* _load: the cached file, when there is one.                              *)
OpenCached(p) ==
  /\ Loading(p) /\ op[p].step = "open"
  /\ IF op[p].digest \in DOMAIN cache
     THEN Loaded(p, cache[op[p].digest])
     ELSE Step(p, "fetch")
  /\ UNCHANGED <<storage, cache, rows, lock, requests, crashes, leaked>>

(* DBBackend.get_file; the content is that of this instant, whatever       *)
(* happens to the large object while it is copied.  KeyError without a     *)
(* row, and another exception when the large object cannot be opened.      *)
Fetch(p) ==
  /\ Loading(p) /\ op[p].step = "fetch" /\ Stored(op[p].digest)
  /\ Step(p, "copy")
  /\ UNCHANGED <<storage, cache, rows, lock, requests, crashes, leaked>>

FetchFails(p) ==
  /\ Loading(p) /\ op[p].step = "fetch" /\ ~Stored(op[p].digest)
  /\ IF op[p].call = "precache" /\ op[p].digest \notin DOMAIN fsobjects
     THEN Step(p, "next") /\ UNCHANGED lock
     ELSE /\ Ends(p)
          /\ IF op[p].call = "precache" THEN Unlock(p) ELSE UNCHANGED lock
  /\ UNCHANGED <<storage, cache, rows, requests, crashes, leaked>>

(* A chunk goes to the temporary file, which is opened and renamed after   *)
(* the last.  The mutant writes to the cached file.                        *)
CopyInPlace(p) ==
  /\ Loading(p) /\ op[p].step = "copy"
  /\ cache' = With(cache, op[p].digest, op[p].temp + 1)
  /\ IF op[p].temp + 1 < Length
     THEN op' = [op EXCEPT ![p].temp = op[p].temp + 1]
     ELSE Loaded(p, op[p].temp + 1)
  /\ UNCHANGED <<storage, rows, lock, requests, crashes, leaked>>

Copy(p) ==
  /\ Loading(p) /\ op[p].step = "copy"
  /\ IF op[p].temp + 1 < Length
     THEN op' = [op EXCEPT ![p].temp = op[p].temp + 1] /\ UNCHANGED cache
     ELSE Loaded(p, op[p].temp + 1) /\ cache' = With(cache, op[p].digest, op[p].temp + 1)
  /\ UNCHANGED <<storage, rows, lock, requests, crashes, leaked>>

Return(p) ==
  /\ At(p, "get", "read")
  /\ Ends(p)
  /\ UNCHANGED <<storage, cache, rows, lock, requests, crashes, leaked>>

-----------------------------------------------------------------------------
(* The process dies: flock and open transactions end with it.              *)
Crash(p) ==
  /\ op[p] # Idle /\ crashes < MaxCrashes
  /\ crashes' = crashes + 1
  /\ leaked' = leaked \cup
       {loid \in large : /\ op[p].call = "put" /\ loid = op[p].loid
                         /\ op[p].step \in {"commit", "drop"}}
  /\ lock' = IF lock = p THEN NoProc ELSE lock
  /\ Ends(p)
  /\ UNCHANGED <<storage, cache, rows, requests>>

(* "We allow anyone to delete files from the cache directory at any time". *)
Evict(d) ==
  /\ d \in DOMAIN cache /\ Asked
  /\ cache' = Without(cache, d)
  /\ UNCHANGED <<storage, rows, op, lock, crashes, leaked>>

(* An object of the application is deleted; its files stay.                *)
DeleteObject(row) ==
  /\ row \in rows /\ Asked
  /\ rows' = rows \ {row}
  /\ UNCHANGED <<storage, cache, op, lock, crashes, leaked>>

ProcStep(p) ==
  \/ CreateFile(p) \/ CloseLarge(p) \/ CommitFile(p) \/ DropLarge(p) \/ RenamePut(p)
  \/ Refer(p) \/ PrecacheEnd(p) \/ \E d \in Digest : PrecacheNext(p, d)
  \/ OpenCached(p) \/ Fetch(p) \/ FetchFails(p) \/ Copy(p) \/ Return(p)

Requests(p) ==
  \/ \E d \in Digest : Get(p, d) \/ \E kind \in Kind : Put(p, kind, d)
  \/ Precache(p)
=============================================================================
