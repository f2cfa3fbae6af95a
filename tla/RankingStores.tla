--------------------------- MODULE RankingStores ----------------------------
(***************************************************************************)
(* The stores of submissions and of subchanges of the ranking              *)
(* (cmsranking/Store.py): what a request, which holds the lock of both,    *)
(* does to them and to their files, what a death of the server leaves of   *)
(* the files, and what the next start loads from them.                     *)
(***************************************************************************)
CONSTANT Of     \* the submission of the subchange of each key

VARIABLES
  submissions,      \* the submissions in their store
  subchanges,       \* the subchanges in theirs: a function on the keys it has
  submissionFiles,  \* the submissions with a whole file
  subchangeFiles,   \* what the whole files of subchanges hold
  truncated         \* the submissions and the keys whose file was cut off

diskVars == <<submissionFiles, subchangeFiles, truncated>>
storeVars == <<submissions, subchanges, diskVars>>

With(f, k, x) == [l \in DOMAIN f \cup {k} |-> IF l = k THEN x ELSE f[l]]
WithoutAll(f, K) == [l \in DOMAIN f \ K |-> f[l]]

(* An entity is put in its store, then in its file.                        *)
PutSubmission(s) ==
  /\ submissions' = submissions \cup {s}
  /\ submissionFiles' = submissionFiles \cup {s}
  /\ truncated' = truncated \ {s}
  /\ UNCHANGED <<subchanges, subchangeFiles>>

(* A subchange is refused when its submission is not known.                *)
PutSubchange(k, x) ==
  /\ Of[k] \in submissions
  /\ subchanges' = With(subchanges, k, x)
  /\ subchangeFiles' = With(subchangeFiles, k, x)
  /\ truncated' = truncated \ {k}
  /\ UNCHANGED <<submissions, submissionFiles>>

(* The subchanges of a submission are deleted first.  The mutant leaves    *)
(* them.                                                                   *)
DependentsNone(s) == {}

Dependents(s) == {k \in DOMAIN subchanges : Of[k] = s}

RemoveSubmission(s) ==
  /\ s \in submissions
  /\ submissions' = submissions \ {s}
  /\ subchanges' = WithoutAll(subchanges, Dependents(s))
  /\ submissionFiles' = submissionFiles \ {s}
  /\ subchangeFiles' = WithoutAll(subchangeFiles, Dependents(s))
  /\ UNCHANGED truncated

RemoveSubchange(k) ==
  /\ k \in DOMAIN subchanges
  /\ subchanges' = WithoutAll(subchanges, {k})
  /\ subchangeFiles' = WithoutAll(subchangeFiles, {k})
  /\ UNCHANGED <<submissions, submissionFiles, truncated>>

-----------------------------------------------------------------------------
(* What a death leaves on the disk: half way through the deletion of a     *)
(* submission, it without the files of some of its subchanges; while a     *)
(* file is written, which begins by emptying it, a file that is cut off.   *)
HalfDelete(s) ==
  /\ s \in submissions
  /\ \E gone \in SUBSET Dependents(s) : subchangeFiles' = WithoutAll(subchangeFiles, gone)
  /\ UNCHANGED <<submissionFiles, truncated>>

HalfPutSubmission(s) ==
  /\ submissionFiles' = submissionFiles \ {s}
  /\ truncated' = truncated \cup {s}
  /\ UNCHANGED subchangeFiles

HalfPutSubchange(k) ==
  /\ Of[k] \in submissions
  /\ subchangeFiles' = WithoutAll(subchangeFiles, {k})
  /\ truncated' = truncated \cup {k}
  /\ UNCHANGED submissionFiles

(* load_from_disk, of what the death left.  The files of a store are read  *)
(* in no order one may rely on, until the first that is cut off.           *)
Reads(read, files, cutOff) == read \subseteq files /\ (cutOff = {} => read = files)

LoadFromDisk(Submission, Key) ==
  /\ \E read \in SUBSET submissionFiles' :
       /\ Reads(read, submissionFiles', truncated' \cap Submission)
       /\ submissions' = read
  /\ \E read \in SUBSET DOMAIN subchangeFiles' :
       /\ Reads(read, DOMAIN subchangeFiles', truncated' \cap Key)
       /\ subchanges' = [k \in read |-> subchangeFiles'[k]]
=============================================================================
