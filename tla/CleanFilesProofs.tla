-------------------------- MODULE CleanFilesProofs --------------------------
(***************************************************************************)
(* The file storage keeps its promises whoever puts, gets, deletes, cleans *)
(* or dies: for every set of digests and processes, every length of files  *)
(* and any number of requests, deaths and runs of cmsCleanFiles.           *)
(***************************************************************************)
EXTENDS CleanFiles, FiniteSetTheorems, TLAPS

PutOp ==
  [call: {"put"}, step: {"create", "close", "commit", "drop", "rename", "refer"},
   kind: Kind, digest: Digest, loid: Nat]
GetOp ==
  [call: {"get"}, step: {"open", "fetch", "copy", "read"}, digest: Digest, temp: Nat]
PrecacheStart ==
  [call: {"precache"}, step: {"next"}, todo: SUBSET Digest, temp: Nat]
PrecacheOp ==
  [call: {"precache"}, step: {"next", "open", "fetch", "copy"}, digest: Digest,
   todo: SUBSET Digest, temp: Nat]

OpType == {Idle} \cup PutOp \cup GetOp \cup PrecacheStart \cup PrecacheOp

CleanRun ==
  [step: {"list", "enumerate", "measure", "delete", "row"}, files: SUBSET Digest,
   target: Digest \cup {Tombstone}, pending: SUBSET (({"executable"} \cap Kind) \X Digest)]

CleanType == {NoClean} \cup CleanRun

StoreType ==
  /\ fsobjects \in [DOMAIN fsobjects -> 1 .. loids] /\ DOMAIN fsobjects \subseteq Digest
  /\ loids \in Nat /\ large \subseteq 1 .. loids /\ leaked \subseteq large

CleanerType ==
  /\ rows \subseteq Kind \X (Digest \cup {Tombstone})
  /\ clean \in CleanType
  /\ raced \subseteq Digest /\ spoiled \subseteq Digest

(* A file is in the cache with its last chunk, not before.                 *)
TempIsPart ==
  /\ \A d \in DOMAIN cache : cache[d] = Length
  /\ \A p \in Proc :
       /\ At(p, "get", "read") => op[p].temp = Length
       /\ Loading(p) /\ op[p].step \in {"open", "fetch"} => op[p].temp = 0
       /\ Loading(p) /\ op[p].step = "copy" => op[p].temp < Length

OpsAndCache ==
  /\ op \in [Proc -> OpType]
  /\ DOMAIN cache \subseteq Digest /\ cache = [d \in DOMAIN cache |-> cache[d]]
  /\ lock \in Proc \cup {NoProc}
  /\ \A p \in Proc : lock = p <=> op[p].call = "precache"
  /\ TempIsPart

-----------------------------------------------------------------------------
(* A put that has a large object which no row points to yet.               *)
Making(p) == op[p].call = "put" /\ op[p].step \in {"close", "commit", "drop"}

(* Every large object has one owner at most ...                            *)
OneOwner ==
  /\ \A d, e \in DOMAIN fsobjects : fsobjects[d] = fsobjects[e] => d = e
  /\ \A p \in Proc : Making(p) =>
       /\ op[p].loid \in 1 .. loids
       /\ op[p].loid \in large <=> op[p].step # "close"
       /\ op[p].loid \notin leaked
       /\ \A d \in DOMAIN fsobjects : fsobjects[d] # op[p].loid
       /\ \A q \in Proc : Making(q) /\ op[q].loid = op[p].loid => p = q
  /\ \A d \in DOMAIN fsobjects : fsobjects[d] \notin leaked

(* ... and one that did not leak has one.                                  *)
SomeOwner ==
  \A loid \in large \ leaked :
    \/ \E d \in DOMAIN fsobjects : fsobjects[d] = loid
    \/ \E p \in Proc : Making(p) /\ op[p].loid = loid

(* What cmsCleanFiles deletes is there, and its target is half deleted.    *)
CleanKnows ==
  /\ clean.step \in {"enumerate", "measure", "delete", "row"} =>
       clean.files \subseteq DOMAIN fsobjects
  /\ clean.step = "row" =>
       /\ clean.target \in DOMAIN fsobjects \ clean.files
       /\ fsobjects[clean.target] \notin large

-----------------------------------------------------------------------------
Excused == raced \cup spoiled

Condemned ==
  IF clean.step \in {"measure", "delete"} THEN clean.files
  ELSE IF clean.step = "row" THEN clean.files \cup {clean.target} ELSE {}

(* Who puts or refers to a file that is to be deleted is in raced.         *)
RacedAreKnown ==
  /\ Putting \cap Condemned \subseteq raced
  /\ \A row \in rows \ Pending :
       row[1] \in Enumerated /\ row[2] \in Condemned => row[2] \in raced

(* Past commit_file, a put has its file in the storage.                    *)
PutsResolve ==
  \A p \in Proc : op[p].call = "put" /\ op[p].step \in {"drop", "rename", "refer"} =>
    Stored(op[p].digest) \/ op[p].digest \in Excused

(* Until it deletes, cmsCleanFiles may give up: the rows whose tombstone   *)
(* is pending resolve as well.                                             *)
PendingResolve ==
  clean.step \notin {"delete", "row"} =>
    \A row \in rows : row[1] \in Enumerated /\ row[2] # Tombstone =>
      Stored(row[2]) \/ row[2] \in Excused

Owned == OneOwner /\ SomeOwner /\ NoHollowRows /\ CleanKnows
References == RacedAreKnown /\ PutsResolve /\ PendingResolve /\ ReferencesResolve

StorageInv == StoreType /\ CleanerType /\ OpsAndCache /\ Owned /\ References

-----------------------------------------------------------------------------
(* An operation is of the kind its name says.                              *)
LEMMA OpKinds ==
  ASSUME NEW x \in OpType
  PROVE  /\ x.call = "put" <=> x \in PutOp
         /\ x.call = "get" <=> x \in GetOp
         /\ x.call = "precache" <=> x \in PrecacheStart \cup PrecacheOp
         /\ x.call = "precache" /\ x.step # "next" => x \in PrecacheOp
         /\ x.call = "none" <=> x = Idle
  BY DEF OpType, Idle, PutOp, GetOp, PrecacheStart, PrecacheOp

(* One process changes what it does.                                       *)
LEMMA OneMoves ==
  ASSUME op \in [Proc -> OpType], NEW p \in Proc, NEW x \in OpType,
         op' = [op EXCEPT ![p] = x]
  PROVE  /\ op' \in [Proc -> OpType]
         /\ op'[p] = x
         /\ \A q \in Proc : q # p => op'[q] = op[q]
  OBVIOUS

(* A put goes on to another step, and nothing else changes.                *)
LEMMA PutGoesOn ==
  ASSUME op \in [Proc -> OpType], NEW p \in Proc, op[p].call = "put",
         NEW s \in {"create", "close", "commit", "drop", "rename", "refer"},
         NEW n \in Nat,
         NEW z, z = [op[p] EXCEPT !.step = s],
         op' = [op EXCEPT ![p] = [z EXCEPT !.loid = n]]
  PROVE  /\ op' \in [Proc -> OpType]
         /\ op'[p].call = "put" /\ op'[p].step = s /\ op'[p].loid = n
         /\ op'[p].kind = op[p].kind /\ op'[p].digest = op[p].digest
         /\ \A q \in Proc : q # p => op'[q] = op[q]
  <1> DEFINE x == [z EXCEPT !.loid = n]
  <1>1. op[p] \in PutOp
    BY OpKinds
  <1>2. /\ z \in PutOp /\ z.call = "put" /\ z.step = s
        /\ z.kind = op[p].kind /\ z.digest = op[p].digest
    BY <1>1 DEF PutOp
  <1>3. /\ x \in PutOp /\ x.call = "put" /\ x.step = s /\ x.loid = n
        /\ x.kind = op[p].kind /\ x.digest = op[p].digest
    BY <1>2 DEF PutOp
  <1>4. x \in OpType
    BY <1>3 DEF OpType
  <1> HIDE DEF x
  <1>5. op' = [op EXCEPT ![p] = x]
    BY DEF x
  <1>6. QED
    BY <1>3, <1>4, <1>5, OneMoves

LEMMA PutSteps ==
  ASSUME op \in [Proc -> OpType], NEW p \in Proc, op[p].call = "put",
         NEW s \in {"create", "close", "commit", "drop", "rename", "refer"},
         Step(p, s)
  PROVE  /\ op' \in [Proc -> OpType]
         /\ op'[p].call = "put" /\ op'[p].step = s /\ op'[p].loid = op[p].loid
         /\ op'[p].kind = op[p].kind /\ op'[p].digest = op[p].digest
         /\ \A q \in Proc : q # p => op'[q] = op[q]
  <1> DEFINE z == [op[p] EXCEPT !.step = s]
  <1>1. op[p] \in PutOp
    BY OpKinds
  <1>2. /\ z \in PutOp /\ z.call = "put" /\ z.step = s /\ z.loid = op[p].loid
        /\ z.kind = op[p].kind /\ z.digest = op[p].digest
    BY <1>1 DEF PutOp
  <1>3. z \in OpType
    BY <1>2 DEF OpType
  <1> HIDE DEF z
  <1>4. op' = [op EXCEPT ![p] = z]
    BY DEF z, Step
  <1>5. QED
    BY <1>2, <1>3, <1>4, OneMoves

(* The initial storage satisfies the invariant.                            *)
LEMMA InitStorageInv == CleanInit => StorageInv
  <1> SUFFICES ASSUME CleanInit PROVE StorageInv
    OBVIOUS
  <1>1. PICK s \in Stores :
          /\ loids = Cardinality(s.stored) /\ large = 1 .. loids
          /\ fsobjects \in {f \in [s.stored -> large] : IsInjective(f)}
          /\ rows = s.rows /\ cache = <<>>
          /\ op = [p \in Proc |-> Idle] /\ lock = NoProc
          /\ requests = 0 /\ crashes = 0 /\ leaked = {}
    BY DEF CleanInit, Init
  <1>2. /\ IsFiniteSet(s.stored) /\ s.stored \subseteq Digest /\ s.rows \subseteq Kind \X s.stored
        /\ loids \in Nat
    BY <1>1, FileCacherAssumption, FS_CardinalityType
  <1>3. /\ clean = NoClean /\ raced = {} /\ spoiled = {}
        /\ DOMAIN fsobjects = s.stored /\ \A d \in s.stored : fsobjects[d] \in large
        /\ \A d, e \in s.stored : fsobjects[d] = fsobjects[e] => d = e
        /\ leaked = {} /\ \A p \in Proc : op[p].call = "none"
    BY <1>1 DEF CleanInit, IsInjective, Idle
  <1>4. cache = [d \in {} |-> cache[d]] /\ DOMAIN cache = {}
    BY <1>1
  <1>5. StoreType /\ CleanerType
    BY <1>1, <1>2, <1>3 DEF StoreType, CleanerType, CleanType, NoClean
  <1>6. OpsAndCache
    <2>1. \A p \in Proc : op[p] \in OpType
      BY <1>1 DEF OpType
    <2>2. TempIsPart
      BY <1>3, <1>4 DEF TempIsPart, At, Loading
    <2>3. QED
      BY <1>1, <1>3, <1>4, <2>1, <2>2, FileCacherAssumption DEF OpsAndCache
  <1>7. \A loid \in large : \E d \in DOMAIN fsobjects : fsobjects[d] = loid
    <2>1. fsobjects \in Injection(s.stored, 1 .. loids)
      BY <1>1 DEF Injection
    <2>2. IsFiniteSet(1 .. loids) /\ Cardinality(1 .. loids) = loids
      BY <1>2, FS_Interval
    <2>3. fsobjects \in Surjection(s.stored, 1 .. loids)
      BY <2>1, <2>2, <1>1, FS_Injection
    <2>4. QED
      BY <2>3, <1>1, <1>3 DEF Surjection
  <1>8. OneOwner /\ SomeOwner /\ NoHollowRows
    BY <1>3, <1>7 DEF OneOwner, SomeOwner, NoHollowRows, Making, Stored
  <1>9. CleanKnows /\ RacedAreKnown /\ PutsResolve
    BY <1>1, <1>3 DEF CleanKnows, RacedAreKnown, PutsResolve, Condemned, Putting, NoClean, Idle
  <1>10. PendingResolve /\ ReferencesResolve
    BY <1>1, <1>2, <1>3 DEF PendingResolve, ReferencesResolve, Referred, Stored
  <1>11. QED
    BY <1>5, <1>6, <1>8, <1>9, <1>10 DEF StorageInv, Owned, References
-----------------------------------------------------------------------------
(* Steps that read: of a get, of the precaching.                           *)
Reads(p) ==
  \/ \E d \in Digest : Get(p, d) \/ PrecacheNext(p, d)
  \/ Precache(p) \/ PrecacheEnd(p)
  \/ OpenCached(p) \/ Fetch(p) \/ FetchFails(p) \/ Copy(p) \/ Return(p)

(* The step is of a process that puts nothing.                             *)
Reader(p) ==
  /\ op[p].call # "put" /\ op'[p].call # "put"
  /\ \A q \in Proc : q # p => op'[q] = op[q]

(* The process goes on to x, with its part of the file.                    *)
LEMMA ReaderGoes ==
  ASSUME OpsAndCache, NEW p \in Proc, NEW x \in OpType,
         op' = [op EXCEPT ![p] = x], op[p].call # "put", x.call # "put",
         DOMAIN cache' \subseteq Digest, cache' = [d \in DOMAIN cache' |-> cache'[d]],
         \A d \in DOMAIN cache' : cache'[d] = Length,
         \/ lock' = lock /\ (x.call = "precache" <=> op[p].call = "precache")
         \/ lock' = NoProc /\ lock = p /\ x.call # "precache"
         \/ lock' = p /\ lock = NoProc /\ x.call = "precache",
         x.call = "get" /\ x.step = "read" => x.temp = Length,
         x.call \in {"get", "precache"} /\ x.step \in {"open", "fetch"} => x.temp = 0,
         x.call \in {"get", "precache"} /\ x.step = "copy" => x.temp < Length
  PROVE  OpsAndCache' /\ Reader(p)
  <1>1. /\ op' \in [Proc -> OpType] /\ op'[p] = x
        /\ \A q \in Proc : q # p => op'[q] = op[q]
    BY OneMoves DEF OpsAndCache
  <1>2. lock' \in Proc \cup {NoProc} /\ \A q \in Proc : lock' = q <=> op'[q].call = "precache"
    BY <1>1, FileCacherAssumption DEF OpsAndCache
  <1>3. TempIsPart'
    BY <1>1 DEF OpsAndCache, TempIsPart, At, Loading
  <1>4. QED
    BY <1>1, <1>2, <1>3 DEF OpsAndCache, Reader

(* Whoever loads a file has one of two shapes.                             *)
LEMMA LoadShapes ==
  ASSUME OpsAndCache, NEW p \in Proc, Loading(p), op[p].step # "next"
  PROVE  \/ op[p].call = "get" /\ op[p] \in GetOp
         \/ op[p].call = "precache" /\ op[p] \in PrecacheOp
  BY OpKinds DEF OpsAndCache, Loading

LEMMA LoadSteps ==
  ASSUME OpsAndCache, NEW p \in Proc, Loading(p), op[p].step # "next",
         NEW s \in {"open", "fetch", "copy"}
  PROVE  LET x == [op[p] EXCEPT !.step = s]
         IN  x \in OpType /\ x.call = op[p].call /\ x.step = s /\ x.temp = op[p].temp
  BY LoadShapes DEF OpType, GetOp, PrecacheOp

LEMMA LoadCounts ==
  ASSUME OpsAndCache, NEW p \in Proc, Loading(p), op[p].step # "next", NEW n \in Nat
  PROVE  LET x == [op[p] EXCEPT !.temp = n]
         IN  x \in OpType /\ x.call = op[p].call /\ x.step = op[p].step /\ x.temp = n
  BY LoadShapes DEF OpType, GetOp, PrecacheOp

LEMMA LoadEnds ==
  ASSUME OpsAndCache, NEW p \in Proc, Loading(p), op[p].step # "next"
  PROVE  LET x == IF op[p].call = "get"
                  THEN [call |-> "get", step |-> "read", digest |-> op[p].digest, temp |-> Length]
                  ELSE [op[p] EXCEPT !.step = "next"]
         IN  /\ x \in OpType /\ x.call = op[p].call
             /\ x.step = (IF op[p].call = "get" THEN "read" ELSE "next")
             /\ x.call = "get" => x.temp = Length
  BY LoadShapes, FileCacherAssumption DEF OpType, GetOp, PrecacheOp

LEMMA ReadsKeepOps ==
  ASSUME OpsAndCache, rows \subseteq Kind \X (Digest \cup {Tombstone}),
         NEW p \in Proc, Reads(p)
  PROVE  OpsAndCache' /\ Reader(p)
  <1>1. ASSUME NEW d \in Digest, Get(p, d) PROVE OpsAndCache' /\ Reader(p)
    <2> DEFINE x == [call |-> "get", step |-> "open", digest |-> d, temp |-> 0]
    <2>1. x \in OpType /\ x.call = "get" /\ x.step = "open" /\ x.temp = 0
      BY DEF OpType, GetOp
    <2>2. op' = [op EXCEPT ![p] = x] /\ cache' = cache /\ lock' = lock /\ op[p].call = "none"
      BY <1>1 DEF Get, Idle
    <2> HIDE DEF x
    <2>3. QED
      BY <2>1, <2>2, ReaderGoes DEF OpsAndCache, TempIsPart
  <1>2. ASSUME NEW d \in Digest, PrecacheNext(p, d) PROVE OpsAndCache' /\ Reader(p)
    <2> DEFINE x == [call |-> "precache", step |-> "open", digest |-> d,
                     todo |-> op[p].todo \ {d}, temp |-> 0]
    <2>1. op[p] \in PrecacheStart \cup PrecacheOp
      BY <1>2, OpKinds DEF OpsAndCache, PrecacheNext, At
    <2>2. x \in OpType /\ x.call = "precache" /\ x.step = "open" /\ x.temp = 0
      BY <2>1 DEF OpType, PrecacheOp, PrecacheStart
    <2>3. op' = [op EXCEPT ![p] = x] /\ cache' = cache /\ lock' = lock /\ op[p].call = "precache"
      BY <1>2 DEF PrecacheNext, At
    <2> HIDE DEF x
    <2>4. QED
      BY <2>2, <2>3, ReaderGoes DEF OpsAndCache, TempIsPart
  <1>3. ASSUME Precache(p) PROVE OpsAndCache' /\ Reader(p)
    <2> DEFINE x == [call |-> "precache", step |-> "next",
                     todo |-> {d \in Digest : <<"task", d>> \in rows}, temp |-> 0]
    <2>1. x \in OpType /\ x.call = "precache" /\ x.step = "next"
      BY DEF OpType, PrecacheStart
    <2>2. op' = [op EXCEPT ![p] = x] /\ cache' = cache /\ lock = NoProc /\ lock' = p
          /\ op[p].call = "none"
      BY <1>3 DEF Precache, Idle
    <2> HIDE DEF x
    <2>3. QED
      BY <2>1, <2>2, ReaderGoes DEF OpsAndCache, TempIsPart
  <1>4. ASSUME \/ PrecacheEnd(p) \/ Return(p)
               \/ FetchFails(p) /\ Ends(p)
        PROVE  OpsAndCache' /\ Reader(p)
    <2>1. Idle \in OpType /\ Idle.call = "none"
      BY DEF OpType, Idle
    <2>2. \/ lock' = lock /\ op[p].call = "get"
          \/ lock' = NoProc /\ lock = p
      <3>1. CASE PrecacheEnd(p)
        BY <3>1 DEF PrecacheEnd, At, Unlock, OpsAndCache
      <3>2. CASE Return(p)
        BY <3>2 DEF Return, At
      <3>3. CASE FetchFails(p) /\ Ends(p)
        <4>1. CASE op[p].call = "precache" /\ op[p].digest \notin DOMAIN fsobjects
          <5>1. op' = [op EXCEPT ![p] = Idle] /\ op' = [op EXCEPT ![p].step = "next"]
            BY <3>3, <4>1 DEF FetchFails, Ends, Step
          <5>2. op'[p].call = "none" /\ op'[p].call = op[p].call
            BY <4>1, <5>1, OpKinds DEF Idle, OpsAndCache, PrecacheOp, PrecacheStart
          <5>3. QED
            BY <4>1, <5>2
        <4>2. CASE ~(op[p].call = "precache" /\ op[p].digest \notin DOMAIN fsobjects)
          BY <3>3, <4>2 DEF FetchFails, Loading, Unlock, OpsAndCache
        <4>3. QED
          BY <4>1, <4>2
      <3>4. QED
        BY <1>4, <3>1, <3>2, <3>3
    <2>3. cache' = cache /\ op' = [op EXCEPT ![p] = Idle]
      BY <1>4 DEF PrecacheEnd, Return, FetchFails, Ends
    <2>4. QED
      BY <2>1, <2>2, <2>3, ReaderGoes DEF OpsAndCache, TempIsPart, Idle
  <1>5. ASSUME FetchFails(p), ~Ends(p) PROVE OpsAndCache' /\ Reader(p)
    <2> DEFINE x == [op[p] EXCEPT !.step = "next"]
    <2>1. Step(p, "next") /\ UNCHANGED <<lock, cache>> /\ op[p].call = "precache"
      BY <1>5 DEF FetchFails
    <2>2. Loading(p) /\ op[p].step # "next"
      BY <1>5 DEF FetchFails
    <2>3. x \in OpType /\ x.call = "precache" /\ x.step = "next"
      BY <2>1, <2>2, LoadEnds
    <2>4. op' = [op EXCEPT ![p] = x]
      BY <2>1 DEF Step
    <2> HIDE DEF x
    <2>5. QED
      BY <2>1, <2>3, <2>4, ReaderGoes DEF OpsAndCache, TempIsPart
  <1>6. ASSUME OpenCached(p) PROVE OpsAndCache' /\ Reader(p)
    <2>1. Loading(p) /\ op[p].step = "open" /\ UNCHANGED <<lock, cache>> /\ op[p].temp = 0
      BY <1>6 DEF OpenCached, OpsAndCache, TempIsPart
    <2>2. CASE op[p].digest \in DOMAIN cache
      <3>1. Loaded(p, Length)
        BY <1>6, <2>2 DEF OpenCached, OpsAndCache, TempIsPart
      <3>2. PICK x \in OpType :
              /\ op' = [op EXCEPT ![p] = x] /\ x.call = op[p].call
              /\ x.step \in {"read", "next"} /\ (x.call = "get" => x.temp = Length)
        BY <3>1, <2>1, LoadEnds DEF Loaded
      <3>3. QED
        BY ZenonT(60), <3>2, <2>1, ReaderGoes DEF Loading, OpsAndCache, TempIsPart
    <2>3. CASE op[p].digest \notin DOMAIN cache
      <3>1. op' = [op EXCEPT ![p] = [op[p] EXCEPT !.step = "fetch"]]
        BY <1>6, <2>3 DEF OpenCached, Step
      <3>2. PICK x \in OpType :
              /\ op' = [op EXCEPT ![p] = x]
              /\ x.call = op[p].call /\ x.step = "fetch" /\ x.temp = 0
        BY <3>1, <2>1, LoadSteps
      <3>3. QED
        BY <3>2, <2>1, ReaderGoes DEF Loading, OpsAndCache, TempIsPart
    <2>4. QED
      BY <2>2, <2>3
  <1>7. ASSUME Fetch(p) PROVE OpsAndCache' /\ Reader(p)
    <2>1. Loading(p) /\ op[p].step = "fetch" /\ UNCHANGED <<lock, cache>> /\ op[p].temp = 0
      BY <1>7 DEF Fetch, OpsAndCache, TempIsPart
    <2>2. op' = [op EXCEPT ![p] = [op[p] EXCEPT !.step = "copy"]]
      BY <1>7 DEF Fetch, Step
    <2>3. PICK x \in OpType :
            /\ op' = [op EXCEPT ![p] = x]
            /\ x.call = op[p].call /\ x.step = "copy" /\ x.temp = 0
      BY <2>1, <2>2, LoadSteps
    <2>4. QED
      <3>1. 0 < Length
        BY FileCacherAssumption
      <3>2. QED
        BY ZenonT(60), <2>1, <2>3, <3>1, ReaderGoes DEF Loading, OpsAndCache, TempIsPart
  <1>8. ASSUME Copy(p) PROVE OpsAndCache' /\ Reader(p)
    <2>1. /\ Loading(p) /\ op[p].step = "copy" /\ UNCHANGED lock /\ op[p].temp < Length
          /\ op[p].temp \in Nat /\ op[p].digest \in Digest
      BY <1>8, LoadShapes DEF Copy, OpsAndCache, TempIsPart, GetOp, PrecacheOp
    <2>2. CASE op[p].temp + 1 < Length
      <3>1. /\ op' = [op EXCEPT ![p] = [op[p] EXCEPT !.temp = op[p].temp + 1]]
            /\ op[p].temp + 1 \in Nat /\ cache' = cache
        BY <1>8, <2>1, <2>2 DEF Copy
      <3> DEFINE x == [op[p] EXCEPT !.temp = op[p].temp + 1]
      <3>2. x \in OpType /\ x.call = op[p].call /\ x.step = "copy" /\ x.temp < Length
        <4> DEFINE n == op[p].temp + 1
        <4>1. n \in Nat /\ n < Length
          BY <3>1, <2>2
        <4> HIDE DEF n
        <4>2. [op[p] EXCEPT !.temp = n] \in OpType
          BY <2>1, <4>1, LoadCounts
        <4>3. /\ [op[p] EXCEPT !.temp = n].call = op[p].call
              /\ [op[p] EXCEPT !.temp = n].step = "copy"
              /\ [op[p] EXCEPT !.temp = n].temp = n
          BY <2>1, <4>1, LoadCounts
        <4>4. QED
          BY <4>1, <4>2, <4>3 DEF n
      <3>3. op' = [op EXCEPT ![p] = x] /\ cache' = cache /\ lock' = lock
        BY <3>1, <2>1
      <3> HIDE DEF x
      <3>4. QED
        BY ZenonT(60), <3>2, <3>3, <2>1, ReaderGoes DEF Loading, OpsAndCache, TempIsPart
    <2>3. CASE ~(op[p].temp + 1 < Length)
      <3>1. op[p].temp + 1 = Length
        BY <2>1, <2>3, FileCacherAssumption
      <3>2. Loaded(p, Length) /\ cache' = With(cache, op[p].digest, Length)
        BY <1>8, <2>3, <3>1 DEF Copy
      <3>3. /\ DOMAIN cache' \subseteq Digest /\ cache' = [d \in DOMAIN cache' |-> cache'[d]]
            /\ \A d \in DOMAIN cache' : cache'[d] = Length
        BY <3>2, <2>1 DEF With, OpsAndCache, TempIsPart
      <3>4. PICK x \in OpType :
              /\ op' = [op EXCEPT ![p] = x] /\ x.call = op[p].call
              /\ x.step \in {"read", "next"} /\ (x.call = "get" => x.temp = Length)
        BY <3>2, <2>1, LoadEnds DEF Loaded
      <3>5. QED
        BY <3>3, <3>4, <2>1, ReaderGoes DEF Loading
    <2>4. QED
      BY <2>2, <2>3
  <1>9. QED
    BY <1>1, <1>2, <1>3, <1>4, <1>5, <1>6, <1>7, <1>8 DEF Reads
-----------------------------------------------------------------------------
(* The owners of the large objects.                                        *)
LEMMA OwnersKept ==
  ASSUME StoreType, OneOwner, SomeOwner,
         UNCHANGED <<fsobjects, large, loids, leaked>>,
         \A q \in Proc : /\ Making(q)' <=> Making(q)
                         /\ Making(q) => /\ op'[q].loid = op[q].loid
                                         /\ op'[q].step = "close" <=> op[q].step = "close"
  PROVE  StoreType' /\ OneOwner' /\ SomeOwner'
  <1>1. StoreType'
    BY DEF StoreType
  <1>2. OneOwner'
    BY DEF OneOwner
  <1>3. SomeOwner'
    BY DEF SomeOwner
  <1>4. QED
    BY <1>1, <1>2, <1>3

LEMMA RowsKept ==
  ASSUME NoHollowRows, CleanKnows, UNCHANGED <<fsobjects, large, clean>>,
         spoiled \subseteq spoiled'
  PROVE  NoHollowRows' /\ CleanKnows'
  BY DEF NoHollowRows, CleanKnows, Stored

LEMMA ReadsKeepOwned ==
  ASSUME StoreType, Owned, NEW p \in Proc, Reads(p), Reader(p), UNCHANGED <<clean, spoiled>>
  PROVE  StoreType' /\ Owned' /\ UNCHANGED <<fsobjects, large, rows>>
  <1>1. UNCHANGED <<fsobjects, large, loids, leaked, rows>>
    BY DEF Reads, storage, Get, PrecacheNext, Precache, PrecacheEnd, OpenCached, Fetch, FetchFails,
           Copy, Return
  <1>2. \A q \in Proc : /\ Making(q)' <=> Making(q)
                        /\ Making(q) => op'[q] = op[q]
    BY DEF Reader, Making
  <1>3. StoreType' /\ OneOwner' /\ SomeOwner'
    BY <1>1, <1>2, OwnersKept DEF Owned
  <1>4. NoHollowRows' /\ CleanKnows'
    BY <1>1, RowsKept DEF Owned
  <1>5. QED
    BY <1>1, <1>3, <1>4 DEF Owned

(* The steps of a put.                                                     *)
Others(p) == \A q \in Proc : q # p => op'[q] = op[q]

LEMMA WriterGoes ==
  ASSUME OpsAndCache, NEW p \in Proc, op' \in [Proc -> OpType], Others(p),
         op[p].call \in {"none", "put"}, op'[p].call \in {"none", "put"}, lock' = lock,
         DOMAIN cache' \subseteq Digest, cache' = [d \in DOMAIN cache' |-> cache'[d]],
         \A d \in DOMAIN cache' : cache'[d] = Length
  PROVE  OpsAndCache'
  <1>1. \A q \in Proc : lock' = q <=> op'[q].call = "precache"
    BY DEF OpsAndCache, Others
  <1>2. TempIsPart'
    BY DEF OpsAndCache, Others, TempIsPart, At, Loading
  <1>3. QED
    BY <1>1, <1>2 DEF OpsAndCache

LEMMA PutMoves ==
  ASSUME OpsAndCache, NEW p \in Proc, NEW kind \in Kind, NEW d \in Digest, Put(p, kind, d)
  PROVE  /\ OpsAndCache' /\ Others(p)
         /\ op[p].call = "none" /\ op'[p].call = "put" /\ op'[p].step = "create"
         /\ op'[p].digest = d
  <1> DEFINE x == [call |-> "put", step |-> "create", kind |-> kind, digest |-> d, loid |-> 0]
  <1>1. x \in OpType /\ x.call = "put" /\ x.step = "create" /\ x.digest = d
    BY DEF OpType, PutOp
  <1>2. op' = [op EXCEPT ![p] = x] /\ op[p].call = "none" /\ cache' = cache /\ lock' = lock
    BY DEF Put, Idle
  <1> HIDE DEF x
  <1>3. op' \in [Proc -> OpType] /\ op'[p] = x /\ Others(p)
    BY <1>1, <1>2, OneMoves DEF OpsAndCache, Others
  <1>4. OpsAndCache'
    BY <1>1, <1>2, <1>3, WriterGoes DEF OpsAndCache, TempIsPart
  <1>5. QED
    BY <1>1, <1>2, <1>3, <1>4

LEMMA EndMoves ==
  ASSUME op \in [Proc -> OpType], NEW p \in Proc, Ends(p)
  PROVE  op' \in [Proc -> OpType] /\ op'[p].call = "none" /\ Others(p)
  <1>1. Idle \in OpType /\ Idle.call = "none"
    BY DEF OpType, Idle
  <1>2. QED
    BY <1>1, OneMoves DEF Ends, Others

(* A put between its request and its end.                                  *)
Puts(p) ==
  CreateFile(p) \/ CloseLarge(p) \/ CommitFile(p) \/ DropLarge(p) \/ RenamePut(p)

LEMMA PutsMove ==
  ASSUME OpsAndCache, StoreType, NEW p \in Proc, Puts(p)
  PROVE  /\ OpsAndCache' /\ Others(p)
         /\ op[p].call = "put" /\ op'[p].call = "put"
         /\ op[p].digest \in Digest /\ op'[p].digest = op[p].digest /\ op'[p].kind = op[p].kind
         /\ op[p].loid \in Nat
         /\ op[p].step # "create" => op'[p].loid = op[p].loid
         /\ CreateFile(p) => \/ op'[p].step = "rename" /\ op[p].digest \in DOMAIN fsobjects
                             \/ /\ op'[p].step = "close" /\ op'[p].loid = loids + 1
                                /\ loids' = loids + 1
         /\ CloseLarge(p) => op'[p].step = "commit"
         /\ CommitFile(p) =>
              op'[p].step = IF op[p].digest \in DOMAIN fsobjects THEN "drop" ELSE "rename"
         /\ DropLarge(p) => op'[p].step = "rename"
         /\ RenamePut(p) => op'[p].step = "refer"
  <1>1. /\ op[p].call = "put" /\ lock' = lock /\ op[p] \in PutOp /\ op \in [Proc -> OpType]
        /\ op[p].digest \in Digest /\ op[p].loid \in Nat
    <2>1. op[p].call = "put" /\ lock' = lock
      BY DEF Puts, At, CreateFile, CloseLarge, CommitFile, DropLarge, RenamePut
    <2>2. op[p] \in PutOp /\ op \in [Proc -> OpType]
      BY <2>1, OpKinds DEF OpsAndCache
    <2>3. QED
      BY <2>1, <2>2 DEF PutOp
  <1>2. CASE CreateFile(p) /\ op[p].digest \notin DOMAIN fsobjects
    <2> DEFINE n == loids + 1
               f == [op EXCEPT ![p].step = "close"]
    <2>1. /\ op' = [f EXCEPT ![p].loid = n] /\ loids' = loids + 1
          /\ op[p].step = "create" /\ cache' = cache /\ n \in Nat
      BY <1>2 DEF CreateFile, At, StoreType
    <2>2. /\ op' \in [Proc -> OpType] /\ Others(p)
          /\ op'[p].call = "put" /\ op'[p].step = "close" /\ op'[p].loid = loids + 1
          /\ op'[p].kind = op[p].kind /\ op'[p].digest = op[p].digest
      <3>1. f[p] = [op[p] EXCEPT !.step = "close"]
        BY <1>1
      <3>2. [f EXCEPT ![p].loid = n] = [op EXCEPT ![p] = [f[p] EXCEPT !.loid = n]]
        BY <1>1, <3>1
      <3>3. PICK z : z = f[p]
        OBVIOUS
      <3>4. op' = [op EXCEPT ![p] = [z EXCEPT !.loid = n]] /\ z = [op[p] EXCEPT !.step = "close"]
        BY <2>1, <3>1, <3>2, <3>3
      <3> HIDE DEF f, n
      <3>5. n \in Nat /\ op \in [Proc -> OpType]
        BY <2>1, <1>1
      <3>6. /\ op' \in [Proc -> OpType]
            /\ op'[p].call = "put" /\ op'[p].step = "close" /\ op'[p].loid = n
            /\ op'[p].kind = op[p].kind /\ op'[p].digest = op[p].digest
            /\ \A q \in Proc : q # p => op'[q] = op[q]
        BY <3>4, <3>5, <1>1, PutGoesOn, Zenon
      <3>7. QED
        BY <3>6 DEF Others, n
    <2>3. OpsAndCache'
      BY SMTT(60), <2>1, <2>2, <1>1, WriterGoes DEF OpsAndCache, TempIsPart
    <2>4. QED
      BY <2>1, <2>2, <2>3, <1>1 DEF CloseLarge, CommitFile, DropLarge, RenamePut, At
  <1>3. ASSUME NEW s \in {"commit", "drop", "rename", "refer"}, Step(p, s),
               DOMAIN cache' \subseteq Digest, cache' = [d \in DOMAIN cache' |-> cache'[d]],
               \A d \in DOMAIN cache' : cache'[d] = Length
        PROVE  /\ OpsAndCache' /\ Others(p) /\ op'[p].step = s
               /\ op'[p].call = "put" /\ op'[p].loid = op[p].loid
               /\ op'[p].kind = op[p].kind /\ op'[p].digest = op[p].digest
    <2>1. /\ op' \in [Proc -> OpType] /\ Others(p) /\ op'[p].step = s
          /\ op'[p].call = "put" /\ op'[p].loid = op[p].loid
          /\ op'[p].kind = op[p].kind /\ op'[p].digest = op[p].digest
      BY <1>1, <1>3, PutSteps DEF Others
    <2>2. OpsAndCache'
      BY <1>1, <1>3, <2>1, WriterGoes
    <2>3. QED
      BY <2>1, <2>2
  <1>4. cache' = cache => /\ DOMAIN cache' \subseteq Digest
                          /\ cache' = [d \in DOMAIN cache' |-> cache'[d]]
                          /\ \A d \in DOMAIN cache' : cache'[d] = Length
    BY DEF OpsAndCache, TempIsPart
  <1>5. CASE CreateFile(p) /\ op[p].digest \in DOMAIN fsobjects
    <2>1. op[p].step = "create" /\ Step(p, "rename") /\ cache' = cache
      BY <1>5 DEF CreateFile, At
    <2>2. QED
      BY <2>1, <1>1, <1>3, <1>4, <1>5 DEF CloseLarge, CommitFile, DropLarge, RenamePut, At
  <1>6. CASE CloseLarge(p)
    <2>1. op[p].step = "close" /\ Step(p, "commit") /\ cache' = cache
      BY <1>6 DEF CloseLarge, At
    <2>2. QED
      BY <2>1, <1>1, <1>3, <1>4 DEF CreateFile, CommitFile, DropLarge, RenamePut, At
  <1>7. CASE CommitFile(p)
    <2>1. op[p].step = "commit" /\ cache' = cache
      BY <1>7 DEF CommitFile, At
    <2>2. CASE op[p].digest \in DOMAIN fsobjects
      <3>1. Step(p, "drop")
        BY <1>7, <2>2 DEF CommitFile
      <3>2. QED
        BY <3>1, <2>1, <2>2, <1>1, <1>3, <1>4 DEF CreateFile, CloseLarge, DropLarge, RenamePut, At
    <2>3. CASE op[p].digest \notin DOMAIN fsobjects
      <3>1. Step(p, "rename")
        BY <1>7, <2>3 DEF CommitFile
      <3>2. QED
        BY <3>1, <2>1, <2>3, <1>1, <1>3, <1>4 DEF CreateFile, CloseLarge, DropLarge, RenamePut, At
    <2>4. QED
      BY <2>2, <2>3
  <1>8. CASE DropLarge(p)
    <2>1. op[p].step = "drop" /\ Step(p, "rename") /\ cache' = cache
      BY <1>8 DEF DropLarge, At
    <2>2. QED
      BY <2>1, <1>1, <1>3, <1>4 DEF CreateFile, CloseLarge, CommitFile, RenamePut, At
  <1>9. CASE RenamePut(p)
    <2>1. op[p].step = "rename" /\ Step(p, "refer") /\ cache' = With(cache, op[p].digest, Length)
      BY <1>9 DEF RenamePut, At
    <2>2. /\ DOMAIN cache' \subseteq Digest /\ cache' = [d \in DOMAIN cache' |-> cache'[d]]
          /\ \A d \in DOMAIN cache' : cache'[d] = Length
      BY <2>1, <1>1 DEF With, OpsAndCache, TempIsPart
    <2>3. QED
      BY <2>1, <2>2, <1>1, <1>3 DEF CreateFile, CloseLarge, CommitFile, DropLarge, At
  <1>10. QED
    BY <1>2, <1>5, <1>6, <1>7, <1>8, <1>9 DEF Puts

LEMMA PutsKeepOwned ==
  ASSUME StoreType, OpsAndCache, Owned, NEW p \in Proc, Puts(p), UNCHANGED <<clean, spoiled>>
  PROVE  StoreType' /\ Owned'
  <1>1. /\ Others(p) /\ op[p].call = "put" /\ op'[p].call = "put"
        /\ op[p].step # "create" => op'[p].loid = op[p].loid
        /\ op[p].digest \in Digest
    BY PutsMove
  <1>2. CASE CreateFile(p) /\ op[p].digest \notin DOMAIN fsobjects
    <2>1. /\ op'[p].step = "close" /\ op'[p].loid = loids + 1 /\ loids' = loids + 1
          /\ op[p].step = "create" /\ UNCHANGED <<fsobjects, large, leaked>>
      BY <1>2, PutsMove DEF CreateFile, At
    <2>2. StoreType'
      BY <2>1 DEF StoreType
    <2>3. ~Making(p) /\ Making(p)' /\ \A q \in Proc : q # p => (Making(q)' <=> Making(q))
      BY <1>1, <2>1 DEF Making, Others
    <2>4. \A q \in Proc : Making(q) => op[q].loid # loids + 1
      BY DEF Owned, OneOwner, StoreType
    <2>5. \A d \in DOMAIN fsobjects : fsobjects[d] # loids + 1
      BY DEF StoreType
    <2>6. OneOwner'
      <3>1. \A q \in Proc : Making(q)' =>
              /\ op'[q].loid \in 1 .. loids'
              /\ op'[q].loid \in large' <=> op'[q].step # "close"
              /\ op'[q].loid \notin leaked'
              /\ \A d \in DOMAIN fsobjects' : fsobjects'[d] # op'[q].loid
        BY <1>1, <2>1, <2>3, <2>5 DEF Owned, OneOwner, Others, StoreType
      <3>2. \A q, r \in Proc : Making(q)' /\ Making(r)' /\ op'[r].loid = op'[q].loid => q = r
        BY <1>1, <2>1, <2>3, <2>4 DEF Owned, OneOwner, Others
      <3>3. QED
        BY <3>1, <3>2, <2>1 DEF Owned, OneOwner
    <2>7. SomeOwner'
      BY <1>1, <2>1, <2>3 DEF Owned, SomeOwner, Others
    <2>8. QED
      BY <2>1, <2>2, <2>6, <2>7, RowsKept DEF Owned
  <1>3. CASE \/ CreateFile(p) /\ op[p].digest \in DOMAIN fsobjects
             \/ CommitFile(p) /\ op[p].digest \in DOMAIN fsobjects
             \/ RenamePut(p)
    <2>1. UNCHANGED <<fsobjects, large, loids, leaked>>
      BY <1>3 DEF CreateFile, CommitFile, RenamePut, storage
    <2>2. \/ op[p].step = "create" /\ op'[p].step = "rename"
          \/ op[p].step = "commit" /\ op'[p].step = "drop" /\ op'[p].loid = op[p].loid
          \/ op[p].step = "rename" /\ op'[p].step = "refer"
      <3>1. CASE CreateFile(p) /\ op[p].digest \in DOMAIN fsobjects
        <4>1. loids' # loids + 1 /\ op[p].step = "create"
          BY <3>1, <2>1 DEF CreateFile, At, StoreType
        <4>2. QED
          BY <3>1, <4>1, PutsMove
      <3>2. CASE CommitFile(p) /\ op[p].digest \in DOMAIN fsobjects
        BY <3>2, <1>1, PutsMove DEF CommitFile, At
      <3>3. CASE RenamePut(p)
        BY <3>3, PutsMove DEF RenamePut, At
      <3>4. QED
        BY <1>3, <3>1, <3>2, <3>3
    <2>3. \A q \in Proc : /\ Making(q)' <=> Making(q)
                          /\ Making(q) => /\ op'[q].loid = op[q].loid
                                          /\ op'[q].step = "close" <=> op[q].step = "close"
      BY <1>1, <2>2 DEF Making, Others
    <2>4. QED
      BY <2>1, <2>3, OwnersKept, RowsKept DEF Owned
  <1>4. CASE CloseLarge(p)
    <2>1. /\ op[p].step = "close" /\ op'[p].step = "commit" /\ op'[p].loid = op[p].loid
          /\ large' = large \cup {op[p].loid} /\ UNCHANGED <<fsobjects, loids, leaked>>
      BY <1>4, <1>1, PutsMove DEF CloseLarge, At
    <2>2. \A q \in Proc : Making(q)' <=> Making(q)
      BY <1>1, <2>1 DEF Making, Others
    <2>3. Making(p)
      BY <1>1, <2>1 DEF Making
    <2>4. StoreType'
      BY <2>1, <2>3 DEF StoreType, Owned, OneOwner
    <2>5. OneOwner'
      <3>1. \A q \in Proc : Making(q) => op'[q].loid = op[q].loid
        BY <1>1, <2>1 DEF Others
      <3>2. \A q \in Proc : Making(q) => (op[q].loid \in large' <=> op'[q].step # "close")
        BY <1>1, <2>1, <2>3 DEF Owned, OneOwner, Others
      <3>3. QED
        BY <2>1, <2>2, <3>1, <3>2 DEF Owned, OneOwner
    <2>6. SomeOwner'
      BY <1>1, <2>1, <2>2, <2>3 DEF Owned, SomeOwner, Others
    <2>7. NoHollowRows' /\ CleanKnows'
      BY <2>1, <2>3 DEF Owned, OneOwner, NoHollowRows, CleanKnows, Stored
    <2>8. QED
      BY <2>4, <2>5, <2>6, <2>7 DEF Owned
  <1>5. CASE CommitFile(p) /\ op[p].digest \notin DOMAIN fsobjects
    <2>1. /\ op[p].step = "commit" /\ op'[p].step = "rename"
          /\ fsobjects' = With(fsobjects, op[p].digest, op[p].loid)
          /\ UNCHANGED <<large, loids, leaked>>
      BY <1>5, <1>1, PutsMove DEF CommitFile, At
    <2>2. Making(p) /\ ~Making(p)' /\ \A q \in Proc : q # p => (Making(q)' <=> Making(q))
      BY <1>1, <2>1 DEF Making, Others
    <2>3. /\ DOMAIN fsobjects' = DOMAIN fsobjects \cup {op[p].digest}
          /\ \A d \in DOMAIN fsobjects : fsobjects'[d] = fsobjects[d]
          /\ fsobjects'[op[p].digest] = op[p].loid
      BY <2>1, <1>5 DEF With
    <2>4. op[p].loid \in 1 .. loids /\ op[p].loid \in large /\ op[p].loid \notin leaked
      BY <2>1, <2>2 DEF Owned, OneOwner
    <2>5. StoreType'
      <3>1. fsobjects' \in [DOMAIN fsobjects' -> 1 .. loids]
        BY <2>1, <2>3, <2>4 DEF StoreType, With
      <3>2. QED
        BY <3>1, <1>1, <2>1, <2>3 DEF StoreType
    <2>6. OneOwner'
      <3>1. \A d, e \in DOMAIN fsobjects' : fsobjects'[d] = fsobjects'[e] => d = e
        BY <2>2, <2>3 DEF Owned, OneOwner
      <3>2. \A q \in Proc : Making(q)' =>
              /\ q # p /\ Making(q) /\ op'[q] = op[q]
              /\ \A d \in DOMAIN fsobjects' : fsobjects'[d] # op'[q].loid
        BY <1>1, <2>2, <2>3 DEF Owned, OneOwner, Others
      <3>3. \A d \in DOMAIN fsobjects' : fsobjects'[d] \notin leaked
        BY <2>3, <2>4 DEF Owned, OneOwner
      <3>4. QED
        BY <2>1, <3>1, <3>2, <3>3 DEF Owned, OneOwner
    <2>7. SomeOwner'
      BY <1>1, <2>1, <2>2, <2>3 DEF Owned, SomeOwner, Others
    <2>8. NoHollowRows' /\ CleanKnows'
      BY <2>1, <2>3, <2>4, <1>5 DEF Owned, NoHollowRows, CleanKnows, Stored
    <2>9. QED
      BY <2>5, <2>6, <2>7, <2>8 DEF Owned
  <1>6. CASE DropLarge(p)
    <2>1. /\ op[p].step = "drop" /\ op'[p].step = "rename"
          /\ large' = large \ {op[p].loid} /\ UNCHANGED <<fsobjects, loids, leaked>>
      BY <1>6, <1>1, PutsMove DEF DropLarge, At
    <2>2. Making(p) /\ ~Making(p)' /\ \A q \in Proc : q # p => (Making(q)' <=> Making(q))
      BY <1>1, <2>1 DEF Making, Others
    <2>3. op[p].loid \notin leaked /\ \A d \in DOMAIN fsobjects : fsobjects[d] # op[p].loid
      BY <2>2 DEF Owned, OneOwner
    <2>4. StoreType'
      BY <2>1, <2>3 DEF StoreType
    <2>5. \A q \in Proc : Making(q)' => q # p /\ Making(q) /\ op'[q] = op[q] /\ op[q].loid # op[p].loid
      BY <1>1, <2>2 DEF Owned, OneOwner, Others
    <2>6. OneOwner'
      BY <2>1, <2>5 DEF Owned, OneOwner
    <2>7. SomeOwner'
      BY <1>1, <2>1, <2>2 DEF Owned, SomeOwner, Others
    <2>8. NoHollowRows' /\ CleanKnows'
      BY <2>1, <2>3 DEF Owned, NoHollowRows, CleanKnows, Stored
    <2>9. QED
      BY <2>4, <2>6, <2>7, <2>8 DEF Owned
  <1>7. QED
    BY <1>2, <1>3, <1>4, <1>5, <1>6 DEF Puts

LEMMA RequestsKeepOwned ==
  ASSUME StoreType, OpsAndCache, Owned, NEW p \in Proc,
         \/ \E kind \in Kind, d \in Digest : Put(p, kind, d)
         \/ Refer(p),
         UNCHANGED <<clean, spoiled>>
  PROVE  StoreType' /\ OpsAndCache' /\ Owned' /\ Others(p)
  <1>1. UNCHANGED <<fsobjects, large, loids, leaked>>
    BY DEF Put, Refer, storage
  <1>2. /\ OpsAndCache' /\ Others(p) /\ ~Making(p) /\ ~Making(p)'
    <2>1. CASE \E kind \in Kind, d \in Digest : Put(p, kind, d)
      BY <2>1, PutMoves DEF Making
    <2>2. CASE Refer(p)
      <3>1. /\ op[p].call = "put" /\ op[p].step = "refer" /\ Ends(p)
            /\ UNCHANGED <<cache, lock>> /\ op \in [Proc -> OpType]
        BY <2>2 DEF Refer, At, OpsAndCache
      <3>2. op' \in [Proc -> OpType] /\ op'[p].call = "none" /\ Others(p)
        BY <3>1, EndMoves
      <3>3. OpsAndCache'
        BY <3>1, <3>2, WriterGoes DEF OpsAndCache, TempIsPart
      <3>4. QED
        BY <3>1, <3>2, <3>3 DEF Making
    <2>3. QED
      BY <2>1, <2>2
  <1>3. \A q \in Proc : /\ Making(q)' <=> Making(q)
                        /\ Making(q) => op'[q] = op[q]
    BY <1>2 DEF Making, Others
  <1>4. QED
    BY <1>1, <1>2, <1>3, OwnersKept, RowsKept DEF Owned

LEMMA CrashKeepsOwned ==
  ASSUME StoreType, OpsAndCache, Owned, NEW p \in Proc, Crash(p), UNCHANGED <<clean, spoiled>>
  PROVE  StoreType' /\ OpsAndCache' /\ Owned' /\ Others(p) /\ op'[p].call = "none"
  <1>1. /\ UNCHANGED <<fsobjects, large, loids, cache>>
        /\ lock' = (IF lock = p THEN NoProc ELSE lock)
        /\ leaked' = leaked \cup {loid \in large : /\ op[p].call = "put" /\ loid = op[p].loid
                                                   /\ op[p].step \in {"commit", "drop"}}
    BY DEF Crash, storage
  <1>2. op' \in [Proc -> OpType] /\ op'[p].call = "none" /\ Others(p)
    BY EndMoves DEF Crash, OpsAndCache
  <1>3. OpsAndCache'
    <2>1. \A q \in Proc : lock' = q <=> op'[q].call = "precache"
      BY <1>1, <1>2, FileCacherAssumption DEF OpsAndCache, Others
    <2>2. TempIsPart'
      BY <1>1, <1>2 DEF OpsAndCache, Others, TempIsPart, At, Loading
    <2>3. QED
      BY <1>1, <1>2, <2>1, <2>2 DEF OpsAndCache
  <1>4. StoreType'
    BY <1>1 DEF StoreType
  <1>5. /\ \A loid \in leaked' : loid \in leaked \/ (Making(p) /\ loid = op[p].loid)
        /\ \A q \in Proc : Making(q)' => q # p /\ Making(q) /\ op'[q] = op[q]
    BY <1>1, <1>2 DEF Making, Others
  <1>6. OneOwner'
    <2>1. \A q \in Proc : Making(q)' => op'[q].loid \notin leaked'
      BY <1>5 DEF Owned, OneOwner
    <2>2. \A d \in DOMAIN fsobjects : fsobjects[d] \notin leaked'
      BY <1>5 DEF Owned, OneOwner
    <2>3. QED
      BY <1>1, <1>5, <2>1, <2>2 DEF Owned, OneOwner
  <1>7. SomeOwner'
    <2>1. ASSUME NEW loid \in large, loid \notin leaked', Making(p), op[p].loid = loid PROVE FALSE
      BY <1>1, <2>1 DEF Making, Owned, OneOwner
    <2>2. \A loid \in large \ leaked' : loid \in large \ leaked
      BY <1>1
    <2>3. \A q \in Proc : Making(q) /\ q # p => Making(q)' /\ op'[q] = op[q]
      BY <1>2 DEF Making, Others
    <2>4. QED
      BY <1>1, <2>1, <2>2, <2>3 DEF Owned, SomeOwner
  <1>8. QED
    BY <1>1, <1>2, <1>3, <1>4, <1>6, <1>7, RowsKept DEF Owned

-----------------------------------------------------------------------------
(* The references.                                                         *)
Watched ==
  /\ raced' = raced \cup
       (IF clean.step \in {"measure", "delete", "row"}
        THEN {op'[p].digest : p \in {p \in Proc : op'[p].call = "put"}}
               \cap (clean.files \cup {clean.target})
        ELSE {})
  /\ UNCHANGED <<clean, cleans, spoiled>>

LEMMA PutsDigests ==
  ASSUME NEW x \in OpType, x.call = "put"
  PROVE  x.digest \in Digest /\ x.kind \in Kind
  BY OpKinds DEF PutOp

LEMMA WatchedRaces ==
  ASSUME CleanerType, OpsAndCache, OpsAndCache', Watched
  PROVE  /\ raced \subseteq raced' /\ raced' \subseteq Digest
         /\ Condemned' = Condemned /\ Pending' = Pending
         /\ (Putting \cap Condemned)' \subseteq raced'
  <1>1. \A p \in Proc : op'[p].call = "put" => op'[p].digest \in Digest
    BY PutsDigests DEF OpsAndCache
  <1>2. Condemned' = Condemned /\ Pending' = Pending
    BY DEF Watched, Condemned, Pending, Cleaning
  <1>3. raced \subseteq raced' /\ raced' \subseteq Digest
    BY <1>1 DEF Watched, CleanerType
  <1>4. (Putting \cap Condemned)' \subseteq raced'
    BY DEF Watched, Condemned, Putting
  <1>5. QED
    BY <1>2, <1>3, <1>4

(* Nothing is deleted from the storage, and each row that appears is of a  *)
(* put that is past commit_file, as is each put that gets there.           *)
Past(x) == x.call = "put" /\ x.step \in {"drop", "rename", "refer"}

LEMMA ReferencesKept ==
  ASSUME CleanerType, NoHollowRows, References, OpsAndCache, OpsAndCache', Watched,
         \A d \in Digest : Stored(d) => Stored(d)',
         \A row \in rows' : row \in rows \/
           \E p \in Proc : Past(op[p]) /\ row = <<op[p].kind, op[p].digest>>,
         \A p \in Proc : \A d \in Digest : Past(op'[p]) /\ d = op'[p].digest =>
           /\ op[p].call = "put" /\ d = op[p].digest
           /\ Past(op[p]) \/ d \in DOMAIN fsobjects \/ Stored(d)'
  PROVE  CleanerType' /\ References'
  <1>1. /\ raced \subseteq raced' /\ raced' \subseteq Digest
        /\ Condemned' = Condemned /\ Pending' = Pending
        /\ (Putting \cap Condemned)' \subseteq raced'
        /\ spoiled' = spoiled /\ clean' = clean
    BY WatchedRaces DEF Watched
  <1>2. \A p \in Proc : op[p].call = "put" => op[p].digest \in Digest /\ op[p].kind \in Kind
    BY PutsDigests DEF OpsAndCache
  <1>3. CleanerType'
    BY <1>1, <1>2 DEF CleanerType, Past
  <1>4. ASSUME NEW d \in Digest, Stored(d) \/ d \in Excused PROVE (Stored(d) \/ d \in Excused)'
    BY <1>1, <1>4 DEF Excused
  <1>5. \A p \in Proc : Past(op[p]) => Stored(op[p].digest) \/ op[p].digest \in Excused
    BY DEF References, PutsResolve, Past
  <1>6. RacedAreKnown'
    <2>1. ASSUME NEW p \in Proc, op[p].call = "put", op[p].digest \in Condemned
          PROVE  op[p].digest \in raced
      BY <2>1 DEF References, RacedAreKnown, Putting
    <2>2. ASSUME NEW row \in rows' \ Pending', row[1] \in Enumerated, row[2] \in Condemned
          PROVE  row[2] \in raced
      <3>1. CASE row \in rows
        BY <1>1, <2>2, <3>1 DEF References, RacedAreKnown
      <3>2. CASE row \notin rows
        BY <2>1, <2>2, <3>2 DEF Past
      <3>3. QED
        BY <3>1, <3>2
    <2>3. QED
      BY <1>1, <2>2 DEF RacedAreKnown
  <1>7. PutsResolve'
    <2>1. ASSUME NEW p \in Proc, NEW d \in Digest, Past(op'[p]), d = op'[p].digest
          PROVE  (Stored(d) \/ d \in Excused)'
      <3>1. /\ op[p].call = "put" /\ d = op[p].digest
            /\ Past(op[p]) \/ d \in DOMAIN fsobjects \/ Stored(d)'
        BY <2>1
      <3>2. CASE Past(op[p])
        BY <3>1, <3>2, <1>4, <1>5
      <3>3. CASE d \in DOMAIN fsobjects
        <4>1. Stored(d) \/ d \in spoiled \/ d \in Condemned
          BY <3>3 DEF NoHollowRows, Condemned
        <4>2. d \in Condemned => d \in raced
          BY <3>1 DEF References, RacedAreKnown, Putting
        <4>3. QED
          BY <4>1, <4>2, <1>4 DEF Excused
      <3>4. QED
        BY <3>1, <3>2, <3>3
    <2>2. \A p \in Proc : Past(op'[p]) => op'[p].digest \in Digest
      BY PutsDigests DEF OpsAndCache, Past
    <2>3. QED
      BY <2>1, <2>2 DEF PutsResolve, Past
  <1>8. \A row \in rows' : row \in rows \/
          (row[2] \in Digest /\ (Stored(row[2]) \/ row[2] \in Excused))
    BY <1>2, <1>5 DEF Past
  <1>9. PendingResolve'
    <2>1. ASSUME NEW row \in rows', clean.step \notin {"delete", "row"},
                 row[1] \in Enumerated, row[2] # Tombstone
          PROVE  (Stored(row[2]) \/ row[2] \in Excused)'
      <3>1. row[2] \in Digest /\ (Stored(row[2]) \/ row[2] \in Excused)
        BY <1>8, <2>1 DEF References, PendingResolve, CleanerType
      <3>2. QED
        BY <3>1, <1>4
    <2>2. QED
      BY <1>1, <2>1 DEF PendingResolve
  <1>10. ReferencesResolve'
    <2>1. ASSUME NEW row \in rows' \ Pending', row[1] \in Enumerated, row[2] # Tombstone
          PROVE  (Stored(row[2]) \/ row[2] \in Excused)'
      <3>1. CASE row \in rows
        <4>1. row[2] \in Digest /\ row \in rows \ Pending
          BY <1>1, <2>1, <3>1 DEF CleanerType
        <4>2. row[2] \in Referred(Enumerated)
          BY <4>1, <2>1 DEF Referred
        <4>3. QED
          BY <4>1, <4>2, <1>4 DEF References, ReferencesResolve, Excused
      <3>2. CASE row \notin rows
        BY <3>2, <1>4, <1>8
      <3>3. QED
        BY <3>1, <3>2
    <2>2. QED
      BY <2>1 DEF ReferencesResolve, Referred, Excused
  <1>11. QED
    BY <1>3, <1>6, <1>7, <1>9, <1>10 DEF References

LEMMA ReferencesKeptQuietly ==
  ASSUME CleanerType, NoHollowRows, References, OpsAndCache, OpsAndCache', Watched,
         UNCHANGED <<fsobjects, large>>, rows' \subseteq rows,
         \A p \in Proc : Past(op'[p]) => op'[p] = op[p]
  PROVE  CleanerType' /\ References'
  <1>1. \A d \in Digest : Stored(d) => Stored(d)'
    BY DEF Stored
  <1>2. \A p \in Proc : \A d \in Digest : Past(op'[p]) /\ d = op'[p].digest =>
           op[p].call = "put" /\ d = op[p].digest /\ Past(op[p])
    BY DEF Past
  <1>3. \A row \in rows' : row \in rows
    OBVIOUS
  <1>4. QED
    BY <1>1, <1>2, <1>3, ReferencesKept

LEMMA PutsKeepReferences ==
  ASSUME StoreType, CleanerType, OpsAndCache, OpsAndCache', Owned, References, Watched,
         NEW p \in Proc, Puts(p)
  PROVE  CleanerType' /\ References'
  <1>1. /\ Others(p) /\ op[p].call = "put" /\ op[p].digest \in Digest
        /\ op'[p].digest = op[p].digest
    BY PutsMove
  <1>2. rows' = rows
    BY DEF Puts, storage, CreateFile, CloseLarge, CommitFile, DropLarge, RenamePut
  <1>3. \A d \in Digest : Stored(d) => Stored(d)'
    <2>1. CASE CreateFile(p) \/ RenamePut(p)
      BY <2>1 DEF CreateFile, RenamePut, storage, Stored
    <2>2. CASE CloseLarge(p)
      BY <2>2 DEF CloseLarge, Stored
    <2>3. CASE CommitFile(p)
      BY <2>3 DEF CommitFile, Stored, With
    <2>4. CASE DropLarge(p)
      <3>1. Making(p)
        BY <2>4 DEF Making, DropLarge, At
      <3>2. QED
        BY <2>4, <3>1 DEF DropLarge, Stored, Owned, OneOwner
    <2>5. QED
      BY <2>1, <2>2, <2>3, <2>4 DEF Puts
  <1>4. Past(op'[p]) => \/ Past(op[p]) \/ op[p].digest \in DOMAIN fsobjects
                        \/ \E d \in Digest : d = op[p].digest /\ Stored(d)'
    <2>1. CASE CreateFile(p)
      BY <2>1, PutsMove DEF Past
    <2>2. CASE CloseLarge(p)
      BY <2>2, PutsMove DEF Past
    <2>3. CASE CommitFile(p) /\ op[p].digest \notin DOMAIN fsobjects
      <3>1. Making(p) /\ op[p].step = "commit"
        BY <2>3 DEF Making, CommitFile, At
      <3>2. op[p].loid \in large
        BY <3>1 DEF Owned, OneOwner
      <3>3. PICK d \in Digest : d = op[p].digest
        BY <1>1
      <3>4. Stored(d)'
        BY <2>3, <3>2, <3>3 DEF CommitFile, With, Stored
      <3>5. QED
        BY <3>3, <3>4
    <2>4. CASE DropLarge(p) \/ RenamePut(p)
      BY <2>4, <1>1 DEF Past, DropLarge, RenamePut, At
    <2>5. QED
      BY <2>1, <2>2, <2>3, <2>4 DEF Puts
  <1>5. \A q \in Proc : \A d \in Digest : Past(op'[q]) /\ d = op'[q].digest =>
          /\ op[q].call = "put" /\ d = op[q].digest
          /\ Past(op[q]) \/ d \in DOMAIN fsobjects \/ Stored(d)'
    BY <1>1, <1>4 DEF Others, Past
  <1>6. QED
    BY <1>2, <1>3, <1>5, ReferencesKept DEF Owned

LEMMA ReferKeepsReferences ==
  ASSUME CleanerType, OpsAndCache, OpsAndCache', Owned, References, Watched,
         NEW p \in Proc, Refer(p), Others(p)
  PROVE  CleanerType' /\ References'
  <1>1. /\ UNCHANGED <<fsobjects, large>> /\ Past(op[p])
        /\ \/ rows' = rows \cup {<<op[p].kind, op[p].digest>>}
           \/ rows' = rows
    BY DEF Refer, At, Past, storage
  <1>2. op'[p].call = "none"
    BY EndMoves DEF Refer, OpsAndCache
  <1>3. \A d \in Digest : Stored(d) => Stored(d)'
    BY <1>1 DEF Stored
  <1>4. \A q \in Proc : \A d \in Digest : Past(op'[q]) /\ d = op'[q].digest =>
           op[q].call = "put" /\ d = op[q].digest /\ Past(op[q])
    BY <1>2 DEF Past, Others
  <1>5. QED
    BY <1>1, <1>3, <1>4, ReferencesKept DEF Owned

LEMMA StorageStepKeepsInv ==
  ASSUME StorageInv, StorageStep
  PROVE  StorageInv'
  <1> USE DEF StorageInv
  <1>1. Watched
    BY DEF StorageStep, Watched
  <1>2. UNCHANGED <<clean, spoiled>>
    BY <1>1 DEF Watched
  <1>3. ASSUME NEW p \in Proc, Reads(p) PROVE StorageInv'
    <2>1. OpsAndCache' /\ Reader(p)
      BY <1>3, ReadsKeepOps DEF CleanerType
    <2>2. StoreType' /\ Owned' /\ UNCHANGED <<fsobjects, large, rows>>
      BY <1>2, <1>3, <2>1, ReadsKeepOwned
    <2>3. CleanerType' /\ References'
      BY <1>1, <2>1, <2>2, ReferencesKeptQuietly DEF Reader, Past, Owned
    <2>4. QED
      BY <2>1, <2>2, <2>3
  <1>4. ASSUME NEW p \in Proc, Puts(p) PROVE StorageInv'
    <2>1. OpsAndCache' /\ StoreType' /\ Owned'
      BY <1>2, <1>4, PutsMove, PutsKeepOwned
    <2>2. QED
      BY <1>1, <1>4, <2>1, PutsKeepReferences
  <1>5. ASSUME NEW p \in Proc, NEW kind \in Kind, NEW d \in Digest, Put(p, kind, d)
        PROVE  StorageInv'
    <2>1. StoreType' /\ OpsAndCache' /\ Owned' /\ Others(p)
      BY <1>2, <1>5, RequestsKeepOwned
    <2>2. ~Past(op'[p])
      BY <1>5, PutMoves DEF Past
    <2>3. UNCHANGED <<fsobjects, large, rows>>
      BY <1>5 DEF Put, storage
    <2>4. QED
      BY <1>1, <2>1, <2>2, <2>3, ReferencesKeptQuietly DEF Others, Owned
  <1>6. ASSUME NEW p \in Proc, Refer(p) PROVE StorageInv'
    <2>1. StoreType' /\ OpsAndCache' /\ Owned' /\ Others(p)
      BY <1>2, <1>6, RequestsKeepOwned
    <2>2. QED
      BY <1>1, <1>6, <2>1, ReferKeepsReferences
  <1>7. ASSUME NEW p \in Proc, Crash(p) PROVE StorageInv'
    <2>1. StoreType' /\ OpsAndCache' /\ Owned' /\ Others(p) /\ op'[p].call = "none"
      BY <1>2, <1>7, CrashKeepsOwned
    <2>2. UNCHANGED <<fsobjects, large, rows>>
      BY <1>7 DEF Crash, storage
    <2>3. QED
      BY <1>1, <2>1, <2>2, ReferencesKeptQuietly DEF Others, Past, Owned
  <1>8. ASSUME \/ \E d \in Digest : Evict(d)
               \/ \E row \in rows \ Pending : DeleteObject(row)
        PROVE  StorageInv'
    <2>1. UNCHANGED <<fsobjects, large, loids, leaked, op, lock>> /\ rows' \subseteq rows
      BY <1>8 DEF Evict, DeleteObject, storage
    <2>2. /\ DOMAIN cache' \subseteq Digest /\ cache' = [d \in DOMAIN cache' |-> cache'[d]]
          /\ \A d \in DOMAIN cache' : cache'[d] = Length
      <3>1. CASE \E d \in Digest : Evict(d)
        BY <3>1 DEF Evict, Without, Restrict, OpsAndCache, TempIsPart
      <3>2. CASE cache' = cache
        BY <3>2 DEF OpsAndCache, TempIsPart
      <3>3. QED
        BY <1>8, <3>1, <3>2 DEF DeleteObject
    <2>3. OpsAndCache'
      BY <2>1, <2>2 DEF OpsAndCache, TempIsPart, At, Loading
    <2>4. StoreType' /\ Owned'
      <3>1. \A q \in Proc : Making(q)' <=> Making(q)
        BY <2>1 DEF Making
      <3>2. QED
        BY <1>2, <2>1, <3>1, OwnersKept, RowsKept DEF Owned
    <2>5. QED
      BY <1>1, <2>1, <2>3, <2>4, ReferencesKeptQuietly DEF Owned
  <1>9. QED
    BY <1>3, <1>4, <1>5, <1>6, <1>7, <1>8
    DEF StorageStep, ProcStep, Requests, Reads, Puts

-----------------------------------------------------------------------------
(* cmsCleanFiles.                                                          *)
LEMMA CleanGoesOn ==
  ASSUME CleanerType, Cleaning
  PROVE  /\ clean \in CleanRun
         /\ clean.step \in {"measure", "delete", "row"} => Pending = clean.pending
         /\ clean.step \in {"list", "enumerate"} => Pending = {}
  BY DEF CleanerType, CleanType, Cleaning, NoClean, Pending

LEMMA OpsKept ==
  ASSUME OpsAndCache, UNCHANGED <<op, cache, lock>>
  PROVE  OpsAndCache'
  BY DEF OpsAndCache, TempIsPart, At, Loading

LEMMA OwnersStay ==
  ASSUME StoreType, Owned, UNCHANGED <<storage, leaked, op>>
  PROVE  StoreType' /\ OneOwner' /\ SomeOwner'
  <1>1. \A q \in Proc : Making(q)' <=> Making(q)
    BY DEF Making
  <1>2. QED
    BY <1>1, OwnersKept DEF Owned, storage

LEMMA CleanStartKeepsInv ==
  ASSUME StorageInv, NEW tombstone \in BOOLEAN, CleanStart(tombstone)
  PROVE  StorageInv'
  <1> USE DEF StorageInv
  <1> DEFINE c == [step |-> "list", files |-> {}, target |-> Tombstone,
                   pending |-> IF tombstone
                               THEN {row \in rows : row[1] = "executable" /\ row[2] # Tombstone}
                               ELSE {}]
  <1>1. /\ clean.step = "none" /\ clean' = c
        /\ UNCHANGED <<fsobjects, large, loids, leaked, rows, op, cache, lock, raced, spoiled>>
    BY DEF CleanStart, Cleaning, vars, storage
  <1>2. c \in CleanRun /\ c.step = "list"
    BY DEF CleanRun, CleanerType
  <1> HIDE DEF c
  <1>3. CleanerType'
    BY <1>1, <1>2 DEF CleanerType, CleanType
  <1>4. OpsAndCache' /\ StoreType' /\ OneOwner' /\ SomeOwner'
    BY <1>1, OpsKept, OwnersStay DEF storage
  <1>5. NoHollowRows' /\ CleanKnows'
    BY <1>1, <1>2 DEF Owned, NoHollowRows, CleanKnows, Stored
  <1>6. RacedAreKnown' /\ PutsResolve'
    BY <1>1, <1>2 DEF References, RacedAreKnown, Condemned, PutsResolve, Stored, Excused
  <1>7. PendingResolve'
    BY <1>1, <1>2 DEF References, PendingResolve, Stored, Excused
  <1>8. ReferencesResolve'
    <2>1. Pending = {} /\ Pending' = {}
      BY <1>1, <1>2 DEF Pending
    <2>2. QED
      BY <1>1, <2>1 DEF References, ReferencesResolve, Referred, Stored
  <1>9. QED
    BY <1>3, <1>4, <1>5, <1>6, <1>7, <1>8 DEF Owned, References

(* The steps that only look.                                               *)
LEMMA CleanLooksKeepsInv ==
  ASSUME StorageInv, List \/ ((Enumerate \/ Measure) /\ clean' # NoClean)
  PROVE  StorageInv'
  <1> USE DEF StorageInv
  <1>1. /\ UNCHANGED <<fsobjects, large, loids, leaked, rows, op, cache, lock, spoiled>>
        /\ raced \subseteq raced'
    BY DEF List, Enumerate, Measure, vars, storage
  <1>2. clean \in CleanRun
    BY CleanGoesOn DEF List, Enumerate, Measure, Cleaning
  <1>3. /\ clean' \in CleanRun /\ Pending \subseteq Pending'
        /\ \/ clean'.step = "enumerate" /\ clean'.files = DOMAIN fsobjects /\ raced' = raced
           \/ /\ clean'.step = "measure" /\ clean.step = "enumerate"
              /\ clean'.files = clean.files \ InUse /\ raced' = raced \cup (Putting \cap clean'.files)
              /\ rows \ Pending' = rows \ clean.pending
           \/ /\ clean'.step = "delete" /\ clean.step = "measure" /\ Pending' = Pending
              /\ clean'.files = clean.files /\ raced' = raced
    <2>1. CASE List
      BY <1>2, <2>1 DEF List, CleanRun, StoreType, Pending
    <2>2. CASE Enumerate /\ clean' # NoClean
      <3>1. /\ clean.step = "enumerate"
            /\ clean' = [clean EXCEPT !.step = "measure", !.files = clean.files \ InUse,
                                      !.pending = clean.pending \cap rows]
            /\ raced' = raced \cup (Putting \cap clean'.files)
        BY <2>2 DEF Enumerate
      <3>2. /\ clean' \in CleanRun /\ clean'.step = "measure"
            /\ clean'.files = clean.files \ InUse
            /\ clean'.pending = clean.pending \cap rows
        BY <1>2, <3>1 DEF CleanRun
      <3>3. Pending = {} /\ Pending' = clean.pending \cap rows
        BY <3>1, <3>2 DEF Pending
      <3>4. QED
        BY <3>1, <3>2, <3>3
    <2>3. CASE Measure /\ clean' # NoClean
      BY <1>2, <2>3 DEF Measure, CleanRun, Pending
    <2>4. QED
      BY <2>1, <2>2, <2>3
  <1>4. CleanerType'
    <2>1. raced' \subseteq Digest
      BY <1>3 DEF CleanerType, CleanRun
    <2>2. QED
      BY <1>1, <1>3, <2>1 DEF CleanerType, CleanType
  <1>5. OpsAndCache' /\ StoreType' /\ OneOwner' /\ SomeOwner'
    BY <1>1, OpsKept, OwnersStay DEF storage
  <1>6. NoHollowRows' /\ CleanKnows'
    <2>1. clean.step # "row" /\ clean'.step # "row"
      BY <1>3 DEF List, Enumerate, Measure
    <2>2. NoHollowRows'
      BY <1>1, <2>1 DEF Owned, NoHollowRows, Stored
    <2>3. clean'.files \subseteq DOMAIN fsobjects
      BY <1>3 DEF Owned, CleanKnows
    <2>4. QED
      BY <1>1, <2>1, <2>2, <2>3 DEF CleanKnows
  <1>7. RacedAreKnown'
    <2>1. CASE clean'.step = "enumerate"
      BY <2>1 DEF RacedAreKnown, Condemned
    <2>2. CASE clean'.step = "measure"
      <3>1. Condemned' = clean.files \ InUse /\ Putting' = Putting
        BY <1>1, <1>3, <2>2 DEF Condemned, Putting
      <3>2. \A row \in rows \ Pending' : row[1] \in Enumerated => row[2] \in InUse
        BY <1>3, <2>2 DEF InUse
      <3>3. QED
        BY <1>1, <1>3, <2>2, <3>1, <3>2 DEF RacedAreKnown
    <2>3. CASE clean'.step = "delete"
      <3>1. Condemned' = Condemned /\ Putting' = Putting
        BY <1>1, <1>3, <2>3 DEF Condemned, Putting
      <3>2. QED
        BY <1>1, <1>3, <3>1 DEF References, RacedAreKnown
    <2>4. QED
      BY <1>3, <2>1, <2>2, <2>3
  <1>8. PutsResolve' /\ PendingResolve'
    <2>1. PutsResolve'
      BY <1>1 DEF References, PutsResolve, Stored, Excused
    <2>2. clean'.step = "delete" \/ clean.step \notin {"delete", "row"}
      BY <1>3 DEF List, Enumerate, Measure
    <2>3. PendingResolve'
      BY <1>1, <2>2 DEF References, PendingResolve, Stored, Excused
    <2>4. QED
      BY <2>1, <2>3
  <1>9. ReferencesResolve'
    BY <1>1, <1>3 DEF References, ReferencesResolve, Referred, Stored
  <1>10. QED
    BY <1>4, <1>5, <1>6, <1>7, <1>8, <1>9 DEF Owned, References

LEMMA DeleteLargeKeepsInv ==
  ASSUME StorageInv, NEW d \in Digest, DeleteLarge(d)
  PROVE  StorageInv'
  <1> USE DEF StorageInv
  <1>1. /\ UNCHANGED <<fsobjects, loids, leaked, rows, op, cache, lock, spoiled, raced>>
        /\ clean.step = "delete" /\ d \in clean.files
        /\ large' = large \ {fsobjects[d]}
    BY DEF DeleteLarge
  <1>2. clean \in CleanRun /\ Pending = clean.pending
    BY <1>1, CleanGoesOn DEF Cleaning
  <1>3. /\ clean' \in CleanRun /\ Pending' = Pending
        /\ clean'.step = "row" /\ clean'.target = d /\ clean'.files = clean.files \ {d}
    BY <1>2 DEF DeleteLarge, CleanRun, Pending, Cleaning
  <1>4. CleanerType' /\ OpsAndCache'
    BY <1>1, <1>3, OpsKept DEF CleanerType, CleanType
  <1>5. d \in DOMAIN fsobjects /\ d \in Condemned /\ Condemned' = Condemned
    BY <1>1, <1>3 DEF Owned, CleanKnows, Condemned
  <1>6. StoreType'
    BY <1>1, <1>5 DEF StoreType, Owned, OneOwner
  <1>7. OneOwner'
    <2>1. \A p \in Proc : Making(p)' <=> Making(p)
      BY <1>1 DEF Making
    <2>2. \A p \in Proc : Making(p) => op[p].loid # fsobjects[d]
      BY <1>5 DEF Owned, OneOwner
    <2>3. QED
      BY <1>1, <2>1, <2>2 DEF Owned, OneOwner
  <1>8. SomeOwner'
    BY <1>1 DEF Owned, SomeOwner, Making
  <1>9. \A e \in Digest : e # d /\ Stored(e) => Stored(e)'
    BY <1>1, <1>5 DEF Owned, OneOwner, Stored
  <1>10. NoHollowRows' /\ CleanKnows'
    <2>1. NoHollowRows'
      BY <1>1, <1>3, <1>9 DEF Owned, NoHollowRows, StoreType
    <2>2. CleanKnows'
      BY <1>1, <1>3, <1>5 DEF Owned, CleanKnows
    <2>3. QED
      BY <2>1, <2>2
  <1>11. RacedAreKnown'
    BY <1>1, <1>3, <1>5 DEF References, RacedAreKnown, Putting
  <1>12. PutsResolve'
    <2>1. ASSUME NEW p \in Proc, Past(op[p]), op[p].digest = d PROVE d \in raced
      BY <1>5, <2>1 DEF References, RacedAreKnown, Putting, Past
    <2>2. \A p \in Proc : Past(op[p]) => op[p].digest \in Digest
      BY PutsDigests DEF OpsAndCache, Past
    <2>3. ASSUME NEW p \in Proc, Past(op'[p]), NEW e \in Digest, e = op'[p].digest
          PROVE  (Stored(e) \/ e \in Excused)'
      <3>1. Stored(e) \/ e \in Excused
        BY <1>1, <2>3 DEF References, PutsResolve, Past
      <3>2. e = d => e \in raced
        BY <1>1, <2>1, <2>3
      <3>3. QED
        BY <1>1, <1>9, <3>1, <3>2 DEF Excused
    <2>4. QED
      BY <1>1, <2>2, <2>3 DEF PutsResolve, Past
  <1>13. PendingResolve'
    BY <1>3 DEF PendingResolve
  <1>14. ReferencesResolve'
    <2>1. Referred(Enumerated)' = Referred(Enumerated)
      BY <1>1, <1>3 DEF Referred
    <2>2. d \in Referred(Enumerated) => d \in raced
      BY <1>5 DEF References, RacedAreKnown, Referred
    <2>3. \A e \in Referred(Enumerated) : e \in Digest
      BY DEF Referred, CleanerType
    <2>4. QED
      BY <1>1, <1>9, <2>1, <2>2, <2>3 DEF References, ReferencesResolve
  <1>15. QED
    BY <1>4, <1>6, <1>7, <1>8, <1>10, <1>11, <1>12, <1>13, <1>14 DEF Owned, References

LEMMA DeleteRowKeepsInv ==
  ASSUME StorageInv, DeleteRow
  PROVE  StorageInv'
  <1> USE DEF StorageInv
  <1>1. /\ UNCHANGED <<large, loids, leaked, rows, op, cache, lock, spoiled, raced>>
        /\ clean.step = "row" /\ fsobjects' = Without(fsobjects, clean.target)
    BY DEF DeleteRow
  <1>2. clean \in CleanRun /\ Pending = clean.pending
    BY <1>1, CleanGoesOn DEF Cleaning
  <1>3. /\ clean' \in CleanRun /\ Pending' = Pending
        /\ clean'.step = "delete" /\ clean'.files = clean.files
    BY <1>2 DEF DeleteRow, CleanRun, Pending, Cleaning
  <1>4. CleanerType' /\ OpsAndCache'
    BY <1>1, <1>3, OpsKept DEF CleanerType, CleanType
  <1>5. /\ clean.target \in DOMAIN fsobjects \ clean.files
        /\ fsobjects[clean.target] \notin large
    BY <1>1 DEF Owned, CleanKnows
  <1>6. /\ DOMAIN fsobjects' = DOMAIN fsobjects \ {clean.target}
        /\ \A d \in DOMAIN fsobjects' : fsobjects'[d] = fsobjects[d]
        /\ fsobjects' = [d \in DOMAIN fsobjects' |-> fsobjects[d]]
    BY <1>1 DEF Without, Restrict
  <1>7. StoreType'
    BY <1>1, <1>6 DEF StoreType
  <1>8. OneOwner'
    <2>1. \A p \in Proc : Making(p)' <=> Making(p)
      BY <1>1 DEF Making
    <2>2. QED
      BY <1>1, <1>6, <2>1 DEF Owned, OneOwner
  <1>9. SomeOwner'
    BY <1>1, <1>5, <1>6 DEF Owned, SomeOwner, Making
  <1>10. \A e \in Digest : Stored(e) => Stored(e)'
    BY <1>1, <1>5, <1>6 DEF Stored
  <1>11. NoHollowRows' /\ CleanKnows'
    <2>1. NoHollowRows'
      BY <1>1, <1>3, <1>6 DEF Owned, NoHollowRows, Stored
    <2>2. CleanKnows'
      BY <1>1, <1>3, <1>5, <1>6 DEF Owned, CleanKnows
    <2>3. QED
      BY <2>1, <2>2
  <1>12. RacedAreKnown'
    <2>1. Condemned' \subseteq Condemned
      BY <1>1, <1>3 DEF Condemned
    <2>2. QED
      BY <1>1, <1>3, <2>1 DEF References, RacedAreKnown, Putting
  <1>13. PutsResolve'
    <2>1. \A p \in Proc : Past(op[p]) => op[p].digest \in Digest
      BY PutsDigests DEF OpsAndCache, Past
    <2>2. ASSUME NEW p \in Proc, Past(op'[p]), NEW e \in Digest, e = op'[p].digest
          PROVE  (Stored(e) \/ e \in Excused)'
      <3>1. Stored(e) \/ e \in Excused
        BY <1>1, <2>2 DEF References, PutsResolve, Past
      <3>2. QED
        BY <1>1, <1>10, <3>1 DEF Excused
    <2>3. QED
      BY <1>1, <2>1, <2>2 DEF PutsResolve, Past
  <1>14. PendingResolve'
    BY <1>3 DEF PendingResolve
  <1>15. ReferencesResolve'
    <2>1. Referred(Enumerated)' = Referred(Enumerated)
      BY <1>1, <1>3 DEF Referred
    <2>2. \A e \in Referred(Enumerated) : e \in Digest
      BY DEF Referred, CleanerType
    <2>3. QED
      BY <1>1, <1>10, <2>1, <2>2 DEF References, ReferencesResolve
  <1>16. QED
    BY <1>4, <1>7, <1>8, <1>9, <1>11, <1>12, <1>13, <1>14, <1>15 DEF Owned, References

(* The end of a run: it gives up, commits its tombstones, or is            *)
(* interrupted.                                                            *)
LEMMA CleanEndKeepsInv ==
  ASSUME StorageInv,
         ((Enumerate \/ Measure) /\ clean' = NoClean) \/ CommitClean \/ CleanCrash
  PROVE  StorageInv'
  <1> USE DEF StorageInv
  <1>1. /\ UNCHANGED <<fsobjects, large, loids, leaked, op, cache, lock, raced>>
        /\ clean' = NoClean /\ clean'.step = "none" /\ Cleaning
    <2>1. NoClean.step = "none"
      BY DEF NoClean
    <2>2. CASE Enumerate /\ clean' = NoClean
      <3>1. clean \in CleanRun
        BY <2>2, CleanGoesOn DEF Enumerate, Cleaning
      <3>2. raced' = raced
        BY <2>1, <2>2, <3>1 DEF Enumerate, CleanRun
      <3>3. QED
        BY <2>1, <2>2, <3>2 DEF Enumerate, vars, storage, Cleaning
    <2>3. QED
      BY <2>1, <2>2 DEF Measure, CommitClean, CleanCrash, vars, storage, Cleaning
  <1>2. /\ clean \in CleanRun /\ Pending' = {}
        /\ \/ Pending = clean.pending
           \/ Pending = {} /\ clean.step \in {"list", "enumerate"}
    BY <1>1, CleanGoesOn DEF Pending, CleanRun
  <1>3. /\ \A row \in rows' : \/ row \in rows
                              \/ row[2] = Tombstone /\ row \in Kind \X {Tombstone}
        /\ \/ rows' = rows /\ clean.step \in {"enumerate", "measure"} /\ spoiled' = spoiled
           \/ rows' \cap Pending = {} /\ clean.step = "delete" /\ spoiled' = spoiled
           \/ /\ rows' = rows
              /\ spoiled' = spoiled
                   \cup (IF clean.step = "row" THEN {clean.target} ELSE {})
                   \cup {row[2] : row \in {row \in Pending : ~Stored(row[2])}}
    <2>1. CASE (Enumerate \/ Measure) /\ clean' = NoClean
      BY <2>1 DEF Enumerate, Measure, vars
    <2>2. CASE CommitClean
      <3>1. /\ rows' = (rows \ Pending) \cup (IF Pending = {} THEN {} ELSE {<<"executable", Tombstone>>})
            /\ clean.step = "delete" /\ spoiled' = spoiled
        BY <2>2 DEF CommitClean
      <3>2. Pending # {} => "executable" \in Kind
        BY <1>2 DEF CleanRun
      <3>3. <<"executable", Tombstone>> \notin Pending
        BY <1>2, FileCacherAssumption DEF CleanRun
      <3>4. QED
        BY <3>1, <3>2, <3>3
    <2>3. CASE CleanCrash
      BY <2>3 DEF CleanCrash
    <2>4. QED
      BY <2>1, <2>2, <2>3
  <1>4. spoiled \subseteq spoiled' /\ spoiled' \subseteq Digest
    BY <1>2, <1>3 DEF CleanerType, CleanRun, Owned, CleanKnows, StoreType
  <1>5. CleanerType'
    BY <1>1, <1>3, <1>4 DEF CleanerType, CleanType
  <1>6. OpsAndCache' /\ StoreType' /\ OneOwner' /\ SomeOwner'
    BY <1>1, OpsKept, OwnersStay DEF storage
  <1>7. NoHollowRows' /\ CleanKnows'
    BY <1>1, <1>3, <1>4 DEF Owned, NoHollowRows, CleanKnows, Stored
  <1>8. RacedAreKnown'
    BY <1>1 DEF RacedAreKnown, Condemned
  <1>9. PutsResolve'
    BY <1>1, <1>4 DEF References, PutsResolve, Stored, Excused
  <1>10. \A row \in rows' : row[1] \in Enumerated /\ row[2] # Tombstone =>
           Stored(row[2]) \/ row[2] \in raced \cup spoiled'
    <2>1. \A row \in rows \ Pending : row[1] \in Enumerated /\ row[2] # Tombstone =>
            Stored(row[2]) \/ row[2] \in raced \cup spoiled
      BY DEF References, ReferencesResolve, Referred
    <2>2. CASE clean.step \in {"enumerate", "measure"} /\ spoiled' = spoiled /\ rows' = rows
      BY <2>2 DEF References, PendingResolve, Excused
    <2>3. CASE rows' \cap Pending = {}
      BY <1>3, <1>4, <2>1, <2>3
    <2>4. CASE /\ rows' = rows
               /\ spoiled' = spoiled
                    \cup (IF clean.step = "row" THEN {clean.target} ELSE {})
                    \cup {row[2] : row \in {row \in Pending : ~Stored(row[2])}}
      BY <2>1, <2>4
    <2>5. QED
      BY <1>3, <2>2, <2>3, <2>4
  <1>11. PendingResolve' /\ ReferencesResolve'
    BY <1>1, <1>2, <1>10 DEF PendingResolve, ReferencesResolve, Referred, Stored, Excused
  <1>12. QED
    BY <1>5, <1>6, <1>7, <1>8, <1>9, <1>11 DEF Owned, References

-----------------------------------------------------------------------------
LEMMA NextKeepsStorageInv == StorageInv /\ [Next]_allvars => StorageInv'
  <1> SUFFICES ASSUME StorageInv, [Next]_allvars PROVE StorageInv'
    OBVIOUS
  <1>1. CASE StorageStep
    BY <1>1, StorageStepKeepsInv
  <1>2. CASE \E tombstone \in BOOLEAN : CleanStart(tombstone)
    BY <1>2, CleanStartKeepsInv
  <1>3. CASE CleanStep
    BY <1>3, CleanLooksKeepsInv, CleanEndKeepsInv, DeleteLargeKeepsInv, DeleteRowKeepsInv
    DEF CleanStep
  <1>4. CASE CleanCrash
    BY <1>4, CleanEndKeepsInv
  <1>5. CASE UNCHANGED allvars
    <2>1. /\ UNCHANGED <<storage, leaked, rows, op, cache, lock, spoiled, raced, clean>>
          /\ UNCHANGED <<fsobjects, large>>
      BY <1>5 DEF allvars, vars, cleaner, storage
    <2>2. OpsAndCache' /\ StoreType' /\ OneOwner' /\ SomeOwner'
      BY <2>1, OpsKept, OwnersStay DEF StorageInv
    <2>3. NoHollowRows' /\ CleanKnows'
      BY <2>1, RowsKept DEF StorageInv, Owned
    <2>4. CleanerType'
      BY <2>1 DEF StorageInv, CleanerType
    <2>5. RacedAreKnown' /\ PutsResolve'
      BY <2>1 DEF StorageInv, References, RacedAreKnown, PutsResolve, Condemned, Putting, Stored,
                  Excused, Pending, Cleaning
    <2>6. PendingResolve' /\ ReferencesResolve'
      BY <2>1 DEF StorageInv, References, PendingResolve, ReferencesResolve, Referred, Stored,
                  Excused, Pending, Cleaning
    <2>7. QED
      BY <2>2, <2>3, <2>4, <2>5, <2>6 DEF StorageInv, Owned, References
  <1>6. QED
    BY <1>1, <1>2, <1>3, <1>4, <1>5 DEF Next

(* The inductive invariant of the storage, with cmsCleanFiles at work.     *)
THEOREM StorageIsSound == Spec => []StorageInv
  BY InitStorageInv, NextKeepsStorageInv, PTL DEF Spec

(* Every variable has its type, and cache_lock is held by exactly the one  *)
(* that precaches.                                                         *)
THEOREM StorageTypes == Spec => []TypeOK
  <1>1. StorageInv => TypeOK
    <2> SUFFICES ASSUME StorageInv PROVE TypeOK
      OBVIOUS
    <2>1. \A p \in Proc : op[p].call \in {"none", "put", "get", "precache"}
      BY DEF StorageInv, OpsAndCache, OpType, Idle, PutOp, GetOp, PrecacheStart, PrecacheOp
    <2>2. QED
      BY <2>1 DEF StorageInv, TypeOK, StoreType, CleanerType, OpsAndCache
  <1>2. QED
    BY <1>1, StorageIsSound, PTL

(* Nobody reads half a file, from the cache or out of it, however many     *)
(* processes fill and empty the cache.                                     *)
THEOREM NobodyReadsHalf == Spec => []ReadsAreWhole
  <1>1. StorageInv => ReadsAreWhole
    BY DEF StorageInv, OpsAndCache, TempIsPart, ReadsAreWhole
  <1>2. QED
    BY <1>1, StorageIsSound, PTL

(* No overlap of puts and no run of cmsCleanFiles loses a file that a row  *)
(* of a kind enumerate_files knows refers to, unless it was put again      *)
(* while being deleted as an orphan, or the run was interrupted.           *)
THEOREM NoFileIsLost == Spec => []ReferencesResolve
  <1>1. StorageInv => ReferencesResolve
    BY DEF StorageInv, References
  <1>2. QED
    BY <1>1, StorageIsSound, PTL

(* Every large object that no dead process left behind belongs to exactly  *)
(* one row or to one put that is at it, and no row is hollow but the one   *)
(* being deleted and those of interrupted runs.                            *)
THEOREM RowsAndObjectsMatch == Spec => []RowsMatchObjects
  <1>1. StorageInv => LargeObjectsAreOwned
    <2> SUFFICES ASSUME StorageInv, NEW loid \in large \ leaked,
                        ~ \E p \in Proc : op[p].call = "put" /\ op[p].loid = loid
                 PROVE  Cardinality({d \in DOMAIN fsobjects : fsobjects[d] = loid}) = 1
      BY DEF LargeObjectsAreOwned
    <2>1. PICK d \in DOMAIN fsobjects : fsobjects[d] = loid
      BY DEF StorageInv, Owned, SomeOwner, Making
    <2>2. {e \in DOMAIN fsobjects : fsobjects[e] = loid} = {d}
      BY <2>1 DEF StorageInv, Owned, OneOwner
    <2>3. QED
      BY <2>2, FS_Singleton
  <1>2. StorageInv => RowsMatchObjects
    BY <1>1 DEF StorageInv, Owned, RowsMatchObjects
  <1>3. QED
    BY <1>2, StorageIsSound, PTL
=============================================================================
