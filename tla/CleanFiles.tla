----------------------------- MODULE CleanFiles ----------------------------
(* cmsCleanFiles at work on a storage in use (cmscontrib/CleanFiles.py):   *)
(* with -t it makes all executables tombstones, then it lists the files,   *)
(* takes off those that enumerate_files finds in use, measures the rest    *)
(* and deletes them one by one, each in a transaction of its own; the      *)
(* tombstones are committed at the very end.                               *)
EXTENDS FileCacher

CONSTANTS
  Enumerated,            \* the kinds enumerate_files looks at
  MaxCleans              \* runs of cmsCleanFiles

ASSUME CleanFilesAssumption == Enumerated \subseteq Kind /\ MaxCleans \in Nat

VARIABLES
  clean,                 \* where cmsCleanFiles is
  cleans,
  raced,                 \* orphans that were being put again when deleted (history)
  spoiled                \* what an interrupted run of cmsCleanFiles leaves (history)

cleaner == <<clean, cleans, raced, spoiled>>
allvars == <<vars, cleaner>>

NoClean == [step |-> "none"]
Cleaning == clean.step # "none"

CleanInit == Init /\ clean = NoClean /\ cleans = 0 /\ raced = {} /\ spoiled = {}

(* The executables whose tombstone is written but not committed.           *)
Pending == IF clean.step \in {"measure", "delete", "row"} THEN clean.pending ELSE {}

Putting == {op[p].digest : p \in {p \in Proc : op[p].call = "put"}}

-----------------------------------------------------------------------------
(* main and make_tombstone, which reads the executables and changes the    *)
(* objects of the session; the rows wait for its first query.              *)
CleanStart(tombstone) ==
  /\ ~Cleaning /\ cleans < MaxCleans
  /\ cleans' = cleans + 1
  /\ clean' = [step |-> "list", files |-> {}, target |-> Tombstone,
               pending |-> IF tombstone
                           THEN {row \in rows : row[1] = "executable" /\ row[2] # Tombstone}
                           ELSE {}]
  /\ UNCHANGED <<vars, raced, spoiled>>

List ==
  /\ clean.step = "list"
  /\ clean' = [clean EXCEPT !.step = "enumerate", !.files = DOMAIN fsobjects]
  /\ UNCHANGED <<vars, cleans, raced, spoiled>>

(* enumerate_files, in the session that made the tombstones.  The mutant   *)
(* misses the generated files (skip_generated).                            *)
InUseSkippingGenerated == {row[2] : row \in {row \in rows : row[1] = "task"}}
InUse == {row[2] : row \in {row \in rows \ clean.pending : row[1] \in Enumerated}}

(* Its query has the session write the tombstones first (autoflush), which *)
(* locks their rows.  One that is gone since it was read raises            *)
(* StaleDataError, or is passed over when several are written together.    *)
Enumerate ==
  /\ clean.step = "enumerate"
  /\ \/ /\ ~(clean.pending \subseteq rows)
        /\ clean' = NoClean /\ UNCHANGED raced
     \/ /\ clean' = [clean EXCEPT !.step = "measure", !.files = clean.files \ InUse,
                                  !.pending = clean.pending \cap rows]
        /\ raced' = raced \cup (Putting \cap clean'.files)
  /\ UNCHANGED <<vars, cleans, spoiled>>

(* get_size of every orphan; one whose large object is gone ends it all,   *)
(* and a dry run ends here as well.                                        *)
Measure ==
  /\ clean.step = "measure"
  /\ \/ clean' = NoClean
     \/ /\ \A d \in clean.files : Stored(d)
        /\ clean' = [clean EXCEPT !.step = "delete"]
  /\ UNCHANGED <<vars, cleans, raced, spoiled>>

(* FSObject.delete: the large object goes at once ...                      *)
DeleteLarge(d) ==
  /\ clean.step = "delete" /\ d \in clean.files
  /\ large' = large \ {fsobjects[d]}
  /\ clean' = [clean EXCEPT !.step = "row", !.target = d, !.files = clean.files \ {d}]
  /\ UNCHANGED <<fsobjects, loids, cache, rows, op, lock, requests, crashes, leaked, cleans, raced, spoiled>>

(* ... and the row with the commit.                                        *)
DeleteRow ==
  /\ clean.step = "row"
  /\ fsobjects' = Without(fsobjects, clean.target)
  /\ clean' = [clean EXCEPT !.step = "delete"]
  /\ UNCHANGED <<large, loids, cache, rows, op, lock, requests, crashes, leaked, cleans, raced, spoiled>>

(* The tombstones are committed at the end.                                *)
CommitClean ==
  /\ clean.step = "delete" /\ clean.files = {}
  /\ rows' = (rows \ Pending) \cup (IF Pending = {} THEN {} ELSE {<<"executable", Tombstone>>})
  /\ clean' = NoClean
  /\ UNCHANGED <<storage, cache, op, lock, requests, crashes, leaked, cleans, raced, spoiled>>

(* It is interrupted: the row of a large object just deleted stays, and so *)
(* do executables whose file is gone.                                      *)
CleanCrash ==
  /\ Cleaning /\ crashes < MaxCrashes
  /\ crashes' = crashes + 1
  /\ spoiled' = spoiled \cup (IF clean.step = "row" THEN {clean.target} ELSE {})
                        \cup {row[2] : row \in {row \in Pending : ~Stored(row[2])}}
  /\ clean' = NoClean
  /\ UNCHANGED <<storage, cache, rows, op, lock, requests, leaked, cleans, raced>>

(* A file put again once it is to be deleted; rows with a pending          *)
(* tombstone are locked.                                                   *)
StorageStep ==
  /\ \/ \E p \in Proc : ProcStep(p) \/ Requests(p) \/ Crash(p)
     \/ \E d \in Digest : Evict(d)
     \/ \E row \in rows \ Pending : DeleteObject(row)
  /\ raced' = raced \cup
       (IF clean.step \in {"measure", "delete", "row"}
        THEN {op'[p].digest : p \in {p \in Proc : op'[p].call = "put"}}
               \cap (clean.files \cup {clean.target})
        ELSE {})
  /\ UNCHANGED <<clean, cleans, spoiled>>

CleanStep ==
  \/ List \/ Enumerate \/ Measure \/ DeleteRow \/ CommitClean
  \/ \E d \in Digest : DeleteLarge(d)

Next ==
  \/ StorageStep
  \/ \E tombstone \in BOOLEAN : CleanStart(tombstone)
  \/ CleanStep \/ CleanCrash

(* A process that is not dead goes on, and so does cmsCleanFiles.          *)
Fairness ==
  /\ \A p \in Proc : []<>(op[p] = Idle) \/ []<><<ProcStep(p)>>_op
  /\ []<>~Cleaning \/ []<><<CleanStep>>_clean

Spec == CleanInit /\ [][Next]_allvars /\ Fairness

-----------------------------------------------------------------------------
(* Types, and the lock is held by the one that precaches.                  *)
TypeOK ==
  /\ fsobjects \in [DOMAIN fsobjects -> 1 .. loids] /\ DOMAIN fsobjects \subseteq Digest
  /\ loids \in Nat /\ large \subseteq 1 .. loids /\ leaked \subseteq large
  /\ DOMAIN cache \subseteq Digest
  /\ rows \subseteq Kind \X (Digest \cup {Tombstone})
  /\ \A p \in Proc : op[p].call \in {"none", "put", "get", "precache"}
  /\ \A p \in Proc : lock = p <=> op[p].call = "precache"
  /\ raced \subseteq Digest /\ spoiled \subseteq Digest

(* Nobody reads half a file, from the cache or out of it, whoever fills,   *)
(* empties and fills the cache again in the meantime.                      *)
ReadsAreWhole ==
  /\ \A d \in DOMAIN cache : cache[d] = Length
  /\ \A p \in Proc : At(p, "get", "read") => op[p].temp = Length

Referred(kinds) == {row[2] : row \in {row \in rows \ Pending : row[1] \in kinds}} \ {Tombstone}

(* A digest in a row of a kind that enumerate_files knows has its file in  *)
(* the storage: no overlap of puts, and no run of cmsCleanFiles, loses it, *)
(* unless it was put again while being deleted as an orphan, or the run    *)
(* was interrupted.                                                        *)
ReferencesResolve ==
  \A d \in Referred(Enumerated) \ (raced \cup spoiled) : Stored(d)

(* A row of fsobjects without its large object is only left by an          *)
(* interrupted run of cmsCleanFiles: create_file trusts the row, get_size  *)
(* fails on it for ever.                                                   *)
NoHollowRows ==
  \A d \in DOMAIN fsobjects : Stored(d) \/ d \in spoiled \/ (clean.step = "row" /\ clean.target = d)

(* Each large object belongs to one row or to a put that is about to make  *)
(* or drop it ("Large objects not linked by some FSObject cannot be        *)
(* detected"), but for those of processes that died.                       *)
LargeObjectsAreOwned ==
  \A loid \in large \ leaked :
    \/ Cardinality({d \in DOMAIN fsobjects : fsobjects[d] = loid}) = 1
    \/ \E p \in Proc : op[p].call = "put" /\ op[p].loid = loid

(* Rows and large objects match: no hollow rows, and nothing leaks.        *)
RowsMatchObjects == NoHollowRows /\ LargeObjectsAreOwned

(* Every put, get and precaching comes to an end, and cmsCleanFiles too.   *)
EverythingEnds ==
  /\ \A p \in Proc : (op[p] # Idle) ~> (op[p] = Idle)
  /\ (lock # NoProc) ~> (lock = NoProc)
  /\ Cleaning ~> ~Cleaning
=============================================================================
