---------------------- MODULE BlocklistRefreshProofs -----------------------
(***************************************************************************)
(* For any lists, deployments, upstream versions and number of faults:     *)
(* what BlocklistRefresh publishes is whole, exceptions keep up with it,   *)
(* updated_at is only written when Mongo has exactly the published copy,   *)
(* and nothing but a purge or a loss in Redis takes a list away.           *)
(*                                                                         *)
(* The inductive invariant has one part per reason:                        *)
(*   TypeInv     types, and what a worker's locals are at each step        *)
(*   StagedInv   a staging set is filled part by part, so a swap makes a   *)
(*               whole version live                                        *)
(*   VersionInv  nothing is used before its source serves it               *)
(*   LeaseInv    within the leases a list has one run, and its version is  *)
(*               not older than what is live                               *)
(*   IdsInv      a run's documents can be told from all others             *)
(*   ContentInv  the documents of a list at each step of its replacement   *)
(***************************************************************************)
EXTENDS BlocklistRefresh, TLAPS

Downloaded == RefreshSteps \ {"check", "download"}
Unsaved == {"check", "download", "content", "gate"}
Deleting == PurgeSteps \ {"purgeRead"}

\* What a worker's locals are at each step.
LocalsOf(w) ==
    /\ w_pc[w] \in {"idle", "purgeRead"} => run[w] = NoRun
    /\ w_pc[w] \in RefreshSteps => run[w].list \in carries[w] /\ run[w].id \in RunIds
    /\ w_pc[w] \in Downloaded => run[w].ver \in Versions
    /\ w_pc[w] = "save" => run[w].part \in 1 .. NumDocs
    /\ w_pc[w] \in {"saveExc", "publishExc"} => run[w].part = 1
    /\ w_pc[w] = "stage" => run[w].part \in Parts
    /\ w_pc[w] \in Deleting => /\ run[w].list \in Lists \ carries[w]
                                 /\ run[w].id = 0 /\ run[w].old = {}
    /\ stale[w] \cap carries[w] = {}

TypeInv == TypeOK /\ \A w \in Workers : LocalsOf(w)

\* What has been written to the staging key.
StagedOf(w) ==
    /\ w_pc[w] \in {"stage", "swap"} =>
        staging[w] \subseteq Members(run[w].ver)
    /\ ~torn /\ w_pc[w] = "stage" =>
        staging[w] = {<<run[w].ver, p>> : p \in 1 .. run[w].part - 1}
    /\ ~torn /\ w_pc[w] = "swap" => staging[w] \in {{}, Members(run[w].ver)}

StagedInv == LiveWhole /\ \A w \in Workers : StagedOf(w)

\* No version is used or published before the source serves it.
VersionInv ==
    /\ \A l \in Lists : \A m \in live[l] : m[1] <= upstream[l]
    /\ \A w \in Workers : w_pc[w] \in Downloaded => run[w].ver <= upstream[run[w].list]

\* Runs within their lease: one per list, and its version is the newest.
LockInv == \A w \in Workers : w_pc[w] \in RefreshSteps => lock[run[w].list] = w

OrderOf(w) ==
    /\ w_pc[w] \in Downloaded => \A m \in live[run[w].list] : m[1] <= run[w].ver
    /\ w_pc[w] \in {"stage", "swap"} => exc[run[w].list] \in {0, run[w].ver}

LeaseInv == ~outlived => LockInv /\ \A w \in Workers : OrderOf(w)

\* A run's documents can be told from all others.
IdsOf(w) ==
    /\ \A u \in Workers \ {w} : run[w].id = run[u].id => run[w].id = 0
    /\ \A d \in run[w].old : d.list = run[w].list /\ d.id # run[w].id
    /\ w_pc[w] \in Unsaved => \A d \in content : d.id # run[w].id

IdsInv == \A w \in Workers : IdsOf(w)

\* The documents of a list while a run replaces them.
Saved(w, parts) == {Doc(w, p) : p \in parts}
AllParts(w) == IF run[w].ver \in WithExceptions THEN 0 .. NumDocs ELSE 1 .. NumDocs
Carried(l) == \A w \in Workers : l \in carries[w]

ContentOf(w) ==
    LET docs == DocsOf(run[w].list)
    IN  /\ w_pc[w] = "gate" => docs = run[w].old
        /\ w_pc[w] = "save" => docs = run[w].old \cup Saved(w, 1 .. run[w].part - 1)
        /\ w_pc[w] = "saveExc" => docs = run[w].old \cup Saved(w, 1 .. NumDocs)
        /\ w_pc[w] \in {"publishExc", "stage", "swap", "cleanup"} =>
            docs = run[w].old \cup Saved(w, AllParts(w))
        /\ w_pc[w] = "metadata" => docs = Saved(w, AllParts(w))

ContentInv ==
    ~outlived => \A w \in Workers : Carried(run[w].list) => ContentOf(w)

-----------------------------------------------------------------------------
USE DEF env, stores, history, Goto

(* What the record updates make of a worker's locals. *)

LEMMA NoRunType ==
    /\ NoRun \in Runs /\ NoRun.list = None /\ NoRun.id = 0
    /\ NoRun.ver = 0 /\ NoRun.old = {} /\ NoRun.part = 0
  BY RefreshAssumption DEF NoRun, Runs

LEMMA PurgedRun ==
    ASSUME NEW l \in Lists
    PROVE  LET r == [NoRun EXCEPT !.list = l]
           IN  /\ r \in Runs /\ r.list = l /\ r.id = 0
               /\ r.ver = 0 /\ r.old = {} /\ r.part = 0
  BY RefreshAssumption DEF NoRun, Runs

Started(l, i) == [NoRun EXCEPT !.list = l, !.id = i]

LEMMA StartedRun ==
    ASSUME NEW l \in Lists, NEW i \in RunIds
    PROVE  LET r == Started(l, i)
           IN  /\ r \in Runs /\ r.list = l /\ r.id = i
               /\ r.ver = 0 /\ r.old = {} /\ r.part = 0
<1> DEFINE s == [NoRun EXCEPT !.list = l]
           r == [s EXCEPT !.id = i]
<1>1. s \in Runs /\ s.list = l /\ s.ver = 0 /\ s.old = {} /\ s.part = 0
  BY PurgedRun
<1>2. r \in Runs /\ r.list = s.list /\ r.id = i /\ r.ver = s.ver
      /\ r.old = s.old /\ r.part = s.part
  <2> HIDE DEF s
  <2> QED BY <1>1, RefreshAssumption DEF Runs, RunIds
<1>3. Started(l, i) = r
  BY DEF Started
<1> HIDE DEF r, s
<1> QED BY <1>1, <1>2, <1>3

LEMMA RunWithVer ==
    ASSUME NEW s \in Runs, NEW v \in 0 .. MaxVersion
    PROVE  LET r == [s EXCEPT !.ver = v]
           IN  /\ r \in Runs /\ r.list = s.list /\ r.id = s.id
               /\ r.ver = v /\ r.old = s.old /\ r.part = s.part
  BY DEF Runs

LEMMA RunWithOld ==
    ASSUME NEW s \in Runs, NEW o \in SUBSET Docs
    PROVE  LET r == [s EXCEPT !.old = o]
           IN  /\ r \in Runs /\ r.list = s.list /\ r.id = s.id
               /\ r.ver = s.ver /\ r.old = o /\ r.part = s.part
  BY DEF Runs

LEMMA RunWithPart ==
    ASSUME NEW s \in Runs, NEW p \in Nat
    PROVE  LET r == [s EXCEPT !.part = p]
           IN  /\ r \in Runs /\ r.list = s.list /\ r.id = s.id
               /\ r.ver = s.ver /\ r.old = s.old /\ r.part = p
  BY DEF Runs

-----------------------------------------------------------------------------
(* What a step does to the workers' locals. *)

LEMMA EndRunEffect ==
    ASSUME TypeInv, NEW w \in Workers, EndRun(w)
    PROVE  /\ w_pc' \in [Workers -> {"idle"} \cup RefreshSteps \cup PurgeSteps]
           /\ run' \in [Workers -> Runs]
           /\ lock' \in [Lists -> Workers \cup {None}]
           /\ purgeLock' \in Workers \cup {None}
           /\ w_pc'[w] = "idle" /\ run'[w] = NoRun
           /\ \A u \in Workers \ {w} : w_pc'[u] = w_pc[u] /\ run'[u] = run[u]
           /\ \A l \in Lists : lock[l] # w => lock'[l] = lock[l]
  BY NoRunType DEF EndRun, ReleaseAll, TypeInv, TypeOK

LEMMA StartRefreshEffect ==
    ASSUME TypeInv, NEW w \in Workers, NEW l \in Lists, StartRefresh(w, l), lock[l] = None
    PROVE  /\ run' \in [Workers -> Runs]
           /\ run'[w].list = l /\ run'[w].id \in RunIds /\ FreshId(run'[w].id)
           /\ run'[w].ver = 0 /\ run'[w].old = {} /\ run'[w].part = 0
           /\ \A u \in Workers \ {w} : run'[u] = run[u]
<1>1. PICK i \in RunIds : FreshId(i)
                       /\ run' = [run EXCEPT ![w] = Started(l, i)]
  BY DEF StartRefresh, Started
<1> QED BY <1>1, StartedRun DEF TypeInv, TypeOK

LEMMA DownloadEffect ==
    ASSUME TypeInv, NEW w \in Workers, Download(w)
    PROVE  /\ run' \in [Workers -> Runs]
           /\ run'[w].list = run[w].list /\ run'[w].id = run[w].id
           /\ run'[w].old = run[w].old /\ run'[w].part = run[w].part
           /\ run'[w].ver = upstream[run[w].list]
           /\ \A u \in Workers \ {w} : run'[u] = run[u]
<1>1. run[w] \in Runs /\ run[w].list \in Lists /\ upstream[run[w].list] \in Versions
  BY RefreshAssumption DEF Download, TypeInv, TypeOK, LocalsOf, RefreshSteps
<1>2. upstream[run[w].list] \in 0 .. MaxVersion
  BY <1>1, RefreshAssumption DEF Versions
<1> DEFINE r == [run[w] EXCEPT !.ver = upstream[run[w].list]]
<1>3. run' = [run EXCEPT ![w] = r]
  BY DEF Download
<1> HIDE DEF r
<1>4. /\ r \in Runs /\ r.list = run[w].list /\ r.id = run[w].id
      /\ r.old = run[w].old /\ r.part = run[w].part /\ r.ver = upstream[run[w].list]
  BY <1>1, <1>2, RunWithVer DEF r
<1> QED BY <1>3, <1>4 DEF TypeInv, TypeOK

LEMMA GetContentEffect ==
    ASSUME TypeInv, NEW w \in Workers, GetContent(w)
    PROVE  /\ run' \in [Workers -> Runs]
           /\ run'[w].list = run[w].list /\ run'[w].id = run[w].id
           /\ run'[w].ver = run[w].ver /\ run'[w].part = run[w].part
           /\ run'[w].old = DocsOf(run[w].list)
           /\ \A u \in Workers \ {w} : run'[u] = run[u]
<1>1. run[w] \in Runs /\ OldDocs(run[w].list) \in SUBSET Docs
  BY DEF TypeInv, TypeOK, OldDocs, DocsOf
<1> DEFINE r == [run[w] EXCEPT !.old = OldDocs(run[w].list)]
<1>2. run' = [run EXCEPT ![w] = r]
  BY DEF GetContent
<1> HIDE DEF r
<1>3. /\ r \in Runs /\ r.list = run[w].list /\ r.id = run[w].id
      /\ r.ver = run[w].ver /\ r.part = run[w].part /\ r.old = OldDocs(run[w].list)
  BY <1>1, RunWithOld DEF r
<1> QED BY <1>2, <1>3 DEF TypeInv, TypeOK, OldDocs

LEMMA PartEffect ==
    ASSUME TypeInv, NEW w \in Workers, NEW p \in Nat,
           run' = [run EXCEPT ![w].part = p]
    PROVE  /\ run' \in [Workers -> Runs]
           /\ run'[w].list = run[w].list /\ run'[w].id = run[w].id
           /\ run'[w].ver = run[w].ver /\ run'[w].old = run[w].old
           /\ run'[w].part = p
           /\ \A u \in Workers \ {w} : run'[u] = run[u]
<1>1. run[w] \in Runs
  BY DEF TypeInv, TypeOK
<1> DEFINE r == [run[w] EXCEPT !.part = p]
<1>2. run' = [run EXCEPT ![w] = r]
  OBVIOUS
<1> HIDE DEF r
<1>3. /\ r \in Runs /\ r.list = run[w].list /\ r.id = run[w].id
      /\ r.ver = run[w].ver /\ r.old = run[w].old /\ r.part = p
  BY <1>1, RunWithPart DEF r
<1> QED BY <1>2, <1>3 DEF TypeInv, TypeOK

LEMMA PurgeNextEffect ==
    ASSUME TypeInv, NEW w \in Workers, NEW l \in Lists,
           run' = [run EXCEPT ![w] = [NoRun EXCEPT !.list = l]]
    PROVE  /\ run' \in [Workers -> Runs]
           /\ run'[w].list = l /\ run'[w].id = 0 /\ run'[w].old = {}
           /\ run'[w].part = 0 /\ run'[w].ver = 0
           /\ \A u \in Workers \ {w} : run'[u] = run[u]
  BY PurgedRun DEF TypeInv, TypeOK

LEMMA NextStaleEffect ==
    ASSUME TypeInv, NEW w \in Workers, NextStale(w)
    PROVE  /\ w_pc' \in [Workers -> {"idle"} \cup RefreshSteps \cup PurgeSteps]
           /\ run' \in [Workers -> Runs]
           /\ lock' \in [Lists -> Workers \cup {None}]
           /\ purgeLock' \in Workers \cup {None}
           /\ stale' \in [Workers -> SUBSET Lists]
           /\ \A u \in Workers \ {w} : /\ w_pc'[u] = w_pc[u] /\ run'[u] = run[u]
                                      /\ stale'[u] = stale[u]
           /\ \A l \in Lists : lock[l] # w => lock'[l] = lock[l]
           /\ stale'[w] \subseteq stale[w]
           /\ \/ w_pc'[w] = "idle" /\ run'[w] = NoRun
              \/ /\ w_pc'[w] = "purgeMeta"
                 /\ run'[w].list \in stale[w] /\ run'[w].id = 0 /\ run'[w].old = {}
<1> DEFINE rest == stale[w] \ {run[w].list}
<1>1. stale' = [stale EXCEPT ![w] = rest] /\ rest \subseteq Lists
  BY DEF NextStale, TypeInv, TypeOK
<1>2. CASE rest = {}
  <2>1. EndRun(w)
    BY <1>2 DEF NextStale
  <2> QED BY <1>1, <2>1, EndRunEffect DEF TypeInv, TypeOK
<1>3. CASE rest # {}
  <2>1. PICK l \in rest : run' = [run EXCEPT ![w] = [NoRun EXCEPT !.list = l]]
    BY <1>3 DEF NextStale
  <2>2. /\ run' \in [Workers -> Runs] /\ run'[w].list = l /\ run'[w].id = 0
        /\ run'[w].old = {} /\ \A u \in Workers \ {w} : run'[u] = run[u]
    BY <1>1, <2>1, PurgeNextEffect
  <2>3. w_pc' = [w_pc EXCEPT ![w] = "purgeMeta"] /\ UNCHANGED <<lock, purgeLock>>
    BY <1>3 DEF NextStale
  <2> QED BY <1>1, <2>1, <2>2, <2>3 DEF TypeInv, TypeOK, PurgeSteps
<1> QED BY <1>2, <1>3

-----------------------------------------------------------------------------
(* Types, and what a worker's locals are at each step. *)

LEMMA InitTypeInv == Init => TypeInv
<1> SUFFICES ASSUME Init PROVE TypeInv
  OBVIOUS
<1>1. carries \in [Workers -> SUBSET Lists]
  BY RefreshAssumption DEF Init
<1>2. NoMeta \in [ver : 0 .. MaxVersion, fresh : BOOLEAN]
  BY RefreshAssumption DEF NoMeta
<1>3. run \in [Workers -> Runs]
  BY NoRunType DEF Init
<1>4. meta \in [Lists -> [ver : 0 .. MaxVersion, fresh : BOOLEAN]]
  BY <1>2 DEF Init
<1>5. /\ live \in [Lists -> SUBSET (Versions \X Parts)]
      /\ staging \in [Workers \cup {None} -> SUBSET (Versions \X Parts)]
  BY DEF Init
<1>6. exc \in [Lists -> 0 .. MaxVersion] /\ faults \in 0 .. MaxFaults
  BY RefreshAssumption DEF Init
<1>7. TypeOK
  BY <1>1, <1>3, <1>4, <1>5, <1>6 DEF Init, TypeOK
<1>8. \A w \in Workers : LocalsOf(w)
  BY <1>1 DEF Init, LocalsOf, Downloaded, Deleting, RefreshSteps, PurgeSteps
<1> QED BY <1>7, <1>8 DEF TypeInv

LEMMA TypeOKStep == TypeInv /\ [Next]_vars => TypeOK'
<1> SUFFICES ASSUME TypeInv, [Next]_vars PROVE TypeOK'
  OBVIOUS
<1>0. TypeOK /\ (\A u \in Workers : LocalsOf(u)) /\ carries \in [Workers -> SUBSET Lists]
  BY RefreshAssumption DEF TypeInv, TypeOK
<1> USE <1>0, RefreshAssumption DEF TypeOK, Downloaded, Deleting,
        RefreshSteps, PurgeSteps, Versions, Parts, RunIds
<1>1. ASSUME NEW w \in Workers, NEW l \in Lists, StartRefresh(w, l) PROVE TypeOK'
  <2>1. CASE lock[l] = None
    <3>1. run' \in [Workers -> Runs]
      BY <1>1, <2>1, StartRefreshEffect
    <3>2. due' = due \/ due' = [due EXCEPT ![w] = due[w] \ {l}]
      BY <1>1 DEF StartRefresh
    <3>3. due' \in [Workers -> SUBSET Lists]
      <4>1. due \in [Workers -> SUBSET Lists] /\ due[w] \ {l} \in SUBSET Lists
        OBVIOUS
      <4> QED BY ONLY <3>2, <4>1
    <3>4. lock' = [lock EXCEPT ![l] = w] /\ w_pc' = [w_pc EXCEPT ![w] = "check"]
      BY <1>1, <2>1 DEF StartRefresh
    <3> QED BY <1>1, <3>1, <3>3, <3>4 DEF StartRefresh
  <2>2. CASE ~(lock[l] = None)
    BY <1>1, <2>2 DEF StartRefresh
  <2> QED BY <2>1, <2>2
<1>2. ASSUME NEW w \in Workers, Check(w) PROVE TypeOK'
  <2>1. CASE IsFresh(run[w].list)
    BY <1>2, <2>1, EndRunEffect DEF Check
  <2>2. CASE ~(IsFresh(run[w].list))
    BY <1>2, <2>2 DEF Check
  <2> QED BY <2>1, <2>2
<1>3. ASSUME NEW w \in Workers, Download(w) PROVE TypeOK'
  BY <1>3, DownloadEffect DEF Download
<1>4. ASSUME NEW w \in Workers, GetContent(w) PROVE TypeOK'
  BY <1>4, GetContentEffect DEF GetContent
<1>5. ASSUME NEW w \in Workers, Gate(w) PROVE TypeOK'
  <2>1. CASE GatePasses(meta[run[w].list].ver, run[w].ver)
    BY <1>5, <2>1, PartEffect DEF Gate
  <2>2. CASE ~(GatePasses(meta[run[w].list].ver, run[w].ver))
    BY <1>5, <2>2, EndRunEffect DEF Gate
  <2> QED BY <2>1, <2>2
<1>6. ASSUME NEW w \in Workers, SaveChunk(w) PROVE TypeOK'
  <2>1. run[w] \in Runs /\ run[w].list \in Lists /\ run[w].id \in 1 .. MaxIds
        /\ run[w].part \in 1 .. NumDocs
    BY <1>6 DEF SaveChunk, LocalsOf
  <2>2. Doc(w, run[w].part) \in Docs
    BY <2>1 DEF Doc, Docs
  <2>3. run' \in [Workers -> Runs]
    <3>1. CASE run' = [run EXCEPT ![w].part = run[w].part + 1]
      <4>1. run[w].part + 1 \in Nat
        BY <2>1
      <4> QED BY <3>1, <4>1, PartEffect
    <3>2. CASE run' = [run EXCEPT ![w].part = 1]
      BY <3>2, PartEffect
    <3> QED BY <1>6, <3>1, <3>2 DEF SaveChunk
  <2> QED BY <1>6, <2>2, <2>3 DEF SaveChunk
<1>7. ASSUME NEW w \in Workers, SaveExceptions(w) PROVE TypeOK'
  <2>1. run[w].list \in Lists /\ run[w].id \in 1 .. MaxIds
    BY <1>7 DEF SaveExceptions, LocalsOf
  <2>2. Doc(w, 0) \in Docs
    BY <2>1 DEF Doc, Docs
  <2> QED BY <1>7, <2>2 DEF SaveExceptions
<1>8. ASSUME NEW w \in Workers, PublishExceptions(w) PROVE TypeOK'
  <2>1. run[w].ver \in Versions /\ run[w].list \in Lists
    BY <1>8 DEF PublishExceptions, LocalsOf
  <2> QED BY <1>8, <2>1 DEF PublishExceptions, PublishedExc
<1>9. ASSUME NEW w \in Workers, Stage(w) PROVE TypeOK'
  <2>1. run[w].ver \in Versions /\ run[w].part \in Parts
    BY <1>9 DEF Stage, LocalsOf
  <2>2. staging' \in [Workers \cup {None} -> SUBSET (Versions \X Parts)]
    BY <1>9, <2>1 DEF Stage, StagingKey
  <2>3. run' \in [Workers -> Runs]
    <3>1. CASE run' = run
      BY <3>1
    <3>2. CASE run' = [run EXCEPT ![w].part = run[w].part + 1]
      <4>1. run[w].part + 1 \in Nat
        BY <2>1
      <4> QED BY <3>2, <4>1, PartEffect
    <3> QED BY <1>9, <3>1, <3>2 DEF Stage
  <2> QED BY <1>9, <2>2, <2>3 DEF Stage
<1>10. ASSUME NEW w \in Workers, Swap(w) PROVE TypeOK'
  <2>1. run' \in [Workers -> Runs] /\ lock' \in [Lists -> Workers \cup {None}]
        /\ purgeLock' \in Workers \cup {None}
        /\ w_pc' \in [Workers -> {"idle"} \cup RefreshSteps \cup PurgeSteps]
    BY <1>10, EndRunEffect DEF Swap
  <2>2. staging[w] \in SUBSET (Versions \X Parts)
    OBVIOUS
  <2> QED BY <1>10, <2>1, <2>2 DEF Swap, StagingKey
<1>11. ASSUME NEW w \in Workers, Cleanup(w) PROVE TypeOK'
  BY <1>11 DEF Cleanup
<1>12. ASSUME NEW w \in Workers, UpsertMetadata(w) PROVE TypeOK'
  <2>1. run[w].ver \in Versions /\ run[w].list \in Lists
    BY <1>12 DEF UpsertMetadata, LocalsOf
  <2>2. meta' \in [Lists -> [ver : 0 .. MaxVersion, fresh : BOOLEAN]]
    BY <1>12, <2>1 DEF UpsertMetadata
  <2> QED BY <1>12, <2>2, EndRunEffect DEF UpsertMetadata
<1>13. ASSUME NEW w \in Workers, StartPurge(w) PROVE TypeOK'
  <2>1. CASE purgeLock = None /\ Cardinality(carries[w]) >= MinSources
    BY <1>13, <2>1 DEF StartPurge
  <2>2. CASE ~(purgeLock = None /\ Cardinality(carries[w]) >= MinSources)
    BY <1>13, <2>2 DEF StartPurge
  <2> QED BY <2>1, <2>2
<1>14. ASSUME NEW w \in Workers, PurgeRead(w) PROVE TypeOK'
  <2>0. StaleLists(w) \subseteq Lists
    BY DEF StaleLists
  <2>1. CASE StaleLists(w) # {} /\ Cardinality(StaleLists(w)) <= MaxStalePurge
    <3>1. PICK l \in StaleLists(w) : run' = [run EXCEPT ![w] = [NoRun EXCEPT !.list = l]]
      BY <1>14, <2>1 DEF PurgeRead
    <3>2. run' \in [Workers -> Runs]
      BY <2>0, <3>1, PurgeNextEffect
    <3>3. stale' \in [Workers -> SUBSET Lists]
      <4>1. stale' = [stale EXCEPT ![w] = StaleLists(w)]
        BY <1>14, <2>1 DEF PurgeRead
      <4> QED BY <2>0, <4>1
    <3>4. w_pc' = [w_pc EXCEPT ![w] = "purgeMeta"] /\ UNCHANGED <<lock, purgeLock>>
      BY <1>14, <2>1 DEF PurgeRead
    <3> QED BY <1>14, <3>2, <3>3, <3>4 DEF PurgeRead
  <2>2. CASE ~(StaleLists(w) # {} /\ Cardinality(StaleLists(w)) <= MaxStalePurge)
    BY <1>14, <2>2, EndRunEffect DEF PurgeRead
  <2> QED BY <2>1, <2>2
<1>15. ASSUME NEW w \in Workers, PurgeMeta(w) PROVE TypeOK'
  <2>1. NoMeta \in [ver : 0 .. MaxVersion, fresh : BOOLEAN]
    BY DEF NoMeta
  <2> QED BY <1>15, <2>1 DEF PurgeMeta
<1>16. ASSUME NEW w \in Workers, PurgeContent(w) PROVE TypeOK'
  BY <1>16 DEF PurgeContent
<1>17. ASSUME NEW w \in Workers, PurgeCache(w) PROVE TypeOK'
  <2>1. /\ w_pc' \in [Workers -> {"idle"} \cup RefreshSteps \cup PurgeSteps]
        /\ run' \in [Workers -> Runs] /\ lock' \in [Lists -> Workers \cup {None}]
        /\ purgeLock' \in Workers \cup {None} /\ stale' \in [Workers -> SUBSET Lists]
    BY <1>17, NextStaleEffect DEF PurgeCache
  <2>2. live' \in [Lists -> SUBSET (Versions \X Parts)] /\ exc' \in [Lists -> 0 .. MaxVersion]
    <3>1. live' = [live EXCEPT ![run[w].list] = {}] /\ exc' = [exc EXCEPT ![run[w].list] = 0]
      BY <1>17 DEF PurgeCache
    <3>2. /\ live \in [Lists -> SUBSET (Versions \X Parts)] /\ {} \in SUBSET (Versions \X Parts)
          /\ exc \in [Lists -> 0 .. MaxVersion] /\ 0 \in 0 .. MaxVersion
      OBVIOUS
    <3> QED BY ONLY <3>1, <3>2
  <2> QED BY <1>17, <2>1, <2>2 DEF PurgeCache
<1>18. ASSUME NEW w \in Workers, Fail(w) PROVE TypeOK'
  BY <1>18, EndRunEffect DEF Fail, StagingKey
<1>19. ASSUME NEW w \in Workers, PurgeFail(w) PROVE TypeOK'
  <2>1. CASE w_pc[w] = "purgeRead"
    BY <1>19, <2>1, EndRunEffect DEF PurgeFail
  <2>2. CASE w_pc[w] \in {"purgeMeta", "purgeContent"}
    <3>1. PICK s \in {"purgeContent", "purgeCache"} : w_pc' = [w_pc EXCEPT ![w] = s]
      BY <1>19, <2>2 DEF PurgeFail
    <3> QED BY <1>19, <2>2, <3>1 DEF PurgeFail
  <2>3. CASE w_pc[w] = "purgeCache"
    BY <1>19, <2>3, NextStaleEffect DEF PurgeFail
  <2> QED BY <1>19, <2>1, <2>2, <2>3 DEF PurgeFail
<1>20. ASSUME NEW w \in Workers, Crash(w) PROVE TypeOK'
  BY <1>20, EndRunEffect DEF Crash
<1>21. ASSUME NEW w \in Workers, Outlive(w) PROVE TypeOK'
  BY <1>21 DEF Outlive, ReleaseAll
<1>22. ASSUME NEW l \in Lists, LoseKeys(l) PROVE TypeOK'
  <2>1. live' \in [Lists -> SUBSET (Versions \X Parts)] /\ exc' \in [Lists -> 0 .. MaxVersion]
        /\ staging' \in [Workers \cup {None} -> SUBSET (Versions \X Parts)]
    <3>1. live' = live \/ live' = [live EXCEPT ![l] = {}]
      BY <1>22 DEF LoseKeys
    <3>2. exc' = [exc EXCEPT ![l] = 0] /\ staging' = [k \in DOMAIN staging |-> {}]
      BY <1>22 DEF LoseKeys
    <3> QED BY <3>1, <3>2
  <2>2. torn' \in BOOLEAN
    BY <1>22 DEF LoseKeys
  <2> QED BY <1>22, <2>1, <2>2 DEF LoseKeys
<1>23. ASSUME NEW l \in Lists, NewVersion(l) PROVE TypeOK'
  BY <1>23 DEF NewVersion
<1>24. ASSUME NEW l \in Lists, Age(l) PROVE TypeOK'
  <2> DEFINE m == [meta[l] EXCEPT !.fresh = FALSE]
  <2>0. m \in [ver : 0 .. MaxVersion, fresh : BOOLEAN]
    <3>1. meta[l] \in [ver : 0 .. MaxVersion, fresh : BOOLEAN]
      OBVIOUS
    <3> QED BY ONLY <3>1
  <2>1. meta' \in [Lists -> [ver : 0 .. MaxVersion, fresh : BOOLEAN]]
    <3>1. meta' = [meta EXCEPT ![l] = m]
      BY <1>24 DEF Age
    <3> HIDE DEF m
    <3> QED BY <2>0, <3>1
  <2> QED BY <1>24, <2>1 DEF Age
<1>25. ASSUME UNCHANGED vars PROVE TypeOK'
  BY <1>25 DEF vars
<1> QED
  BY <1>1, <1>2, <1>3, <1>4, <1>5, <1>6, <1>7, <1>8, <1>9, <1>10, <1>11,
     <1>12, <1>13, <1>14, <1>15, <1>16, <1>17, <1>18, <1>19, <1>20, <1>21,
     <1>22, <1>23, <1>24, <1>25
     DEF Next, Work

LEMMA LocalsKept ==
    ASSUME NEW u \in Workers, LocalsOf(u), w_pc'[u] = w_pc[u], run'[u] = run[u],
           stale'[u] \subseteq stale[u], UNCHANGED carries
    PROVE  LocalsOf(u)'
  BY DEF LocalsOf

LEMMA LocalsIdle ==
    ASSUME NEW u \in Workers, LocalsOf(u), w_pc'[u] = "idle", run'[u] = NoRun,
           stale'[u] \subseteq stale[u], UNCHANGED carries
    PROVE  LocalsOf(u)'
  BY DEF LocalsOf, Downloaded, Deleting, RefreshSteps, PurgeSteps

\* A step of one worker leaves the locals of the others alone.
Step(w) ==
    \/ Work(w) \/ Fail(w) \/ PurgeFail(w) \/ Crash(w) \/ Outlive(w)
    \/ \E l \in Lists : StartRefresh(w, l)

LEMMA OthersKept ==
    ASSUME TypeInv, NEW w \in Workers, Step(w), NEW u \in Workers \ {w}
    PROVE  /\ w_pc'[u] = w_pc[u] /\ run'[u] = run[u] /\ stale'[u] = stale[u]
           /\ staging'[u] = staging[u] /\ UNCHANGED env
<1>0. TypeOK
  BY DEF TypeInv
<1>1. ASSUME EndRun(w) PROVE w_pc'[u] = w_pc[u] /\ run'[u] = run[u]
  BY <1>1, EndRunEffect
<1>2. ASSUME NextStale(w) PROVE w_pc'[u] = w_pc[u] /\ run'[u] = run[u] /\ stale'[u] = stale[u]
  BY <1>2, NextStaleEffect
<1> USE <1>0 DEF TypeOK
<1>3. CASE \E l \in Lists : StartRefresh(w, l)
  BY <1>3 DEF StartRefresh
<1>4. CASE Check(w) \/ Download(w) \/ GetContent(w) \/ Gate(w)
  BY <1>1, <1>4 DEF Check, Download, GetContent, Gate
<1>5. CASE SaveChunk(w) \/ SaveExceptions(w) \/ PublishExceptions(w)
  BY <1>5 DEF SaveChunk, SaveExceptions, PublishExceptions
<1>6. CASE Stage(w) \/ Swap(w) \/ Cleanup(w) \/ UpsertMetadata(w)
  BY <1>1, <1>6 DEF Stage, Swap, Cleanup, UpsertMetadata, StagingKey
<1>7. CASE StartPurge(w) \/ PurgeRead(w) \/ PurgeMeta(w) \/ PurgeContent(w)
  BY <1>1, <1>7 DEF StartPurge, PurgeRead, PurgeMeta, PurgeContent
<1>8. CASE PurgeCache(w)
  BY <1>2, <1>8 DEF PurgeCache
<1>9. CASE Fail(w) \/ PurgeFail(w) \/ Crash(w) \/ Outlive(w)
  BY <1>1, <1>2, <1>9 DEF Fail, PurgeFail, Crash, Outlive, StagingKey
<1> QED BY <1>3, <1>4, <1>5, <1>6, <1>7, <1>8, <1>9 DEF Step, Work

LEMMA SourceEffect ==
    ASSUME NEW l \in Lists, LoseKeys(l) \/ NewVersion(l) \/ Age(l)
    PROVE  UNCHANGED <<w_pc, run, stale, carries, lock, content>>
  BY DEF LoseKeys, NewVersion, Age

LEMMA NextCases ==
    ASSUME [Next]_vars
    PROVE  \/ \E w \in Workers : Step(w)
           \/ \E l \in Lists : LoseKeys(l) \/ NewVersion(l) \/ Age(l)
           \/ UNCHANGED vars
  BY DEF Next, Step

LEMMA OwnLocals ==
    ASSUME TypeInv, NEW w \in Workers, Step(w), TypeOK'
    PROVE  LocalsOf(w)'
<1>0. TypeOK /\ LocalsOf(w) /\ run[w] \in Runs /\ carries[w] \subseteq Lists
  BY RefreshAssumption DEF TypeInv, TypeOK
<1>a. UNCHANGED carries
  BY DEF Step, Work, StartRefresh, Check, Download, GetContent, Gate, SaveChunk,
    SaveExceptions, PublishExceptions, Stage, Swap, Cleanup, UpsertMetadata, StartPurge,
    PurgeRead, PurgeMeta, PurgeContent, PurgeCache, Fail, PurgeFail, Crash, Outlive
<1>b. ASSUME EndRun(w), stale'[w] \subseteq stale[w] PROVE LocalsOf(w)'
  BY <1>0, <1>a, <1>b, EndRunEffect, LocalsIdle
<1>c. ASSUME NextStale(w) PROVE LocalsOf(w)'
  <2>1. CASE w_pc'[w] = "idle" /\ run'[w] = NoRun
    BY <1>0, <1>a, <1>c, <2>1, NextStaleEffect, LocalsIdle
  <2>2. CASE w_pc'[w] = "purgeMeta" /\ run'[w].list \in stale[w] /\ run'[w].id = 0
           /\ run'[w].old = {}
    BY <1>0, <1>a, <1>c, <2>2, NextStaleEffect
       DEF LocalsOf, Downloaded, Deleting, RefreshSteps, PurgeSteps, TypeOK
  <2> QED BY <1>c, <2>1, <2>2, NextStaleEffect
<1>d. w_pc \in [Workers -> {"idle"} \cup RefreshSteps \cup PurgeSteps]
  BY <1>0 DEF TypeOK
<1> USE <1>0, <1>a, <1>d DEF LocalsOf, Downloaded, Deleting, RefreshSteps, PurgeSteps
<1>1. CASE \E l \in Lists : StartRefresh(w, l)
  <2>1. PICK l \in Lists : StartRefresh(w, l)
    BY <1>1
  <2>2. CASE lock[l] = None
    <3>1. run'[w].list = l /\ run'[w].id \in RunIds
      BY <2>1, <2>2, StartRefreshEffect
    <3> QED BY <2>1, <2>2, <3>1 DEF StartRefresh
  <2>3. CASE lock[l] # None
    BY <2>1, <2>3 DEF StartRefresh
  <2> QED BY <2>2, <2>3
<1>2. CASE Check(w)
  <2>1. CASE IsFresh(run[w].list)
    BY <1>2, <2>1, <1>b DEF Check
  <2>2. CASE ~IsFresh(run[w].list)
    BY <1>2, <2>2 DEF Check
  <2> QED BY <2>1, <2>2
<1>3. CASE Download(w)
  <2>1. upstream[run[w].list] \in Versions
    BY <1>3 DEF TypeOK, Download
  <2> QED BY <1>3, <2>1, DownloadEffect DEF Download
<1>4. CASE GetContent(w)
  BY <1>4, GetContentEffect DEF GetContent
<1>5. CASE Gate(w)
  <2>1. CASE GatePasses(meta[run[w].list].ver, run[w].ver)
    <3>1. run' = [run EXCEPT ![w].part = 1] /\ 1 \in 1 .. NumDocs /\ 1 \in Nat
      BY <1>5, <2>1, RefreshAssumption DEF Gate
    <3>2. /\ run'[w].list = run[w].list /\ run'[w].id = run[w].id
          /\ run'[w].ver = run[w].ver /\ run'[w].part = 1
      BY <3>1, PartEffect
    <3> QED BY <1>5, <2>1, <3>1, <3>2 DEF Gate
  <2>2. CASE ~GatePasses(meta[run[w].list].ver, run[w].ver)
    BY <1>5, <2>2, <1>b DEF Gate
  <2> QED BY <2>1, <2>2
<1>6. CASE SaveChunk(w)
  <2>1. run[w].part \in 1 .. NumDocs
    BY <1>6 DEF SaveChunk
  <2>2. CASE run[w].part < NumDocs
    <3>1. run' = [run EXCEPT ![w].part = run[w].part + 1]
      BY <1>6, <2>2 DEF SaveChunk
    <3>2. run[w].part + 1 \in Nat /\ run[w].part + 1 \in 1 .. NumDocs
      BY <2>1, <2>2, RefreshAssumption
    <3> QED BY <1>6, <2>2, <3>1, <3>2, PartEffect DEF SaveChunk
  <2>3. CASE ~(run[w].part < NumDocs)
    <3>1. run' = [run EXCEPT ![w].part = 1] /\ 1 \in Nat
      BY <1>6, <2>3 DEF SaveChunk
    <3>2. /\ run'[w].list = run[w].list /\ run'[w].id = run[w].id
          /\ run'[w].ver = run[w].ver /\ run'[w].part = 1
      BY <3>1, PartEffect
    <3> QED BY <1>6, <2>3, <3>2 DEF SaveChunk
  <2> QED BY <2>2, <2>3
<1>7. CASE SaveExceptions(w)
  BY <1>7 DEF SaveExceptions
<1>8. CASE PublishExceptions(w)
  BY <1>8, RefreshAssumption DEF PublishExceptions, Parts
<1>9. CASE Stage(w)
  <2>1. run[w].part \in 1 .. NumParts
    BY <1>9 DEF Stage, Parts
  <2>2. CASE run[w].part < NumParts
    <3>1. run' = [run EXCEPT ![w].part = run[w].part + 1]
      BY <1>9, <2>2 DEF Stage
    <3>2. run[w].part + 1 \in Nat /\ run[w].part + 1 \in Parts
      BY <2>1, <2>2, RefreshAssumption DEF Parts
    <3> QED BY <1>9, <2>2, <3>1, <3>2, PartEffect DEF Stage
  <2>3. CASE ~(run[w].part < NumParts)
    BY <1>9, <2>3 DEF Stage
  <2> QED BY <2>2, <2>3
<1>10. CASE Swap(w)
  <2>1. CASE EndRun(w)
    BY <1>10, <2>1, <1>b DEF Swap
  <2>2. CASE ~EndRun(w)
    BY <1>10, <2>2 DEF Swap
  <2> QED BY <2>1, <2>2
<1>11. CASE Cleanup(w)
  BY <1>11 DEF Cleanup
<1>12. CASE UpsertMetadata(w)
  BY <1>12, <1>b DEF UpsertMetadata
<1>13. CASE StartPurge(w)
  BY <1>13 DEF StartPurge
<1>14. CASE PurgeRead(w)
  <2>1. CASE EndRun(w) /\ UNCHANGED stale
    BY <2>1, <1>b
  <2>2. CASE ~(EndRun(w) /\ UNCHANGED stale)
    <3>0. StaleLists(w) \subseteq Lists \ carries[w]
      BY DEF StaleLists
    <3>1. PICK l \in StaleLists(w) : run' = [run EXCEPT ![w] = [NoRun EXCEPT !.list = l]]
      BY <1>14, <2>2 DEF PurgeRead
    <3>2. run'[w].list = l /\ run'[w].id = 0 /\ run'[w].old = {}
      BY <3>0, <3>1, PurgeNextEffect
    <3>3. stale'[w] = StaleLists(w) /\ w_pc'[w] = "purgeMeta"
      BY <1>14, <2>2 DEF PurgeRead, TypeOK
    <3> QED BY <3>0, <3>1, <3>2, <3>3
  <2> QED BY <2>1, <2>2
<1>15. CASE PurgeMeta(w) \/ PurgeContent(w)
  BY <1>15 DEF PurgeMeta, PurgeContent
<1>16. CASE PurgeCache(w)
  BY <1>16, <1>c DEF PurgeCache
<1>17. CASE Fail(w)
  BY <1>17, <1>b DEF Fail
<1>18. CASE PurgeFail(w)
  <2>1. CASE w_pc[w] = "purgeRead"
    BY <1>18, <2>1, <1>b DEF PurgeFail
  <2>2. CASE w_pc[w] \in {"purgeMeta", "purgeContent"}
    BY <1>18, <2>2 DEF PurgeFail
  <2>3. CASE w_pc[w] = "purgeCache"
    BY <1>18, <2>3, <1>c DEF PurgeFail
  <2> QED BY <1>18, <2>1, <2>2, <2>3 DEF PurgeFail
<1>19. CASE Crash(w)
  BY <1>19, <1>b DEF Crash, TypeOK
<1>20. CASE Outlive(w)
  BY <1>20 DEF Outlive
<1> QED
  BY <1>1, <1>2, <1>3, <1>4, <1>5, <1>6, <1>7, <1>8, <1>9, <1>10, <1>11, <1>12, <1>13,
     <1>14, <1>15, <1>16, <1>17, <1>18, <1>19, <1>20 DEF Step, Work

LEMMA TypeInvStep == TypeInv /\ [Next]_vars => TypeInv'
<1> SUFFICES ASSUME TypeInv, [Next]_vars PROVE TypeInv'
  OBVIOUS
<1>1. TypeOK'
  BY TypeOKStep
<1>2. ASSUME NEW u \in Workers PROVE LocalsOf(u)'
  <2>0. LocalsOf(u)
    BY DEF TypeInv
  <2>1. CASE \E w \in Workers : Step(w)
    <3>1. PICK w \in Workers : Step(w)
      BY <2>1
    <3>2. CASE u = w
      BY <1>1, <3>1, <3>2, OwnLocals
    <3>3. CASE u # w
      BY <2>0, <3>1, <3>3, OthersKept, LocalsKept
    <3> QED BY <3>2, <3>3
  <2>2. CASE \E l \in Lists : LoseKeys(l) \/ NewVersion(l) \/ Age(l)
    BY <2>0, <2>2, SourceEffect, LocalsKept
  <2>3. CASE UNCHANGED vars
    BY <2>0, <2>3, LocalsKept DEF vars
  <2> QED BY <2>1, <2>2, <2>3, NextCases
<1> QED BY <1>1, <1>2 DEF TypeInv

-----------------------------------------------------------------------------
(* Which step leads where, and which steps change the stores. *)

LEMMA StepPc ==
    ASSUME TypeInv, NEW w \in Workers, Step(w), ~Outlive(w)
    PROVE  /\ w_pc'[w] = "check" => \E l \in Lists : StartRefresh(w, l) /\ lock[l] = None
           /\ w_pc'[w] = "download" => Check(w) /\ ~IsFresh(run[w].list)
           /\ w_pc'[w] = "content" => Download(w)
           /\ w_pc'[w] = "gate" => GetContent(w)
           /\ w_pc'[w] = "save" => Gate(w) \/ (SaveChunk(w) /\ run[w].part < NumDocs)
           /\ w_pc'[w] = "saveExc" => SaveChunk(w) /\ ~(run[w].part < NumDocs)
           /\ w_pc'[w] = "publishExc" => SaveExceptions(w)
           /\ w_pc'[w] = "stage" =>
                PublishExceptions(w) \/ (Stage(w) /\ run[w].part < NumParts)
           /\ w_pc'[w] = "swap" => Stage(w) /\ ~(run[w].part < NumParts)
           /\ w_pc'[w] = "cleanup" => Swap(w) /\ staging[w] # {}
           /\ w_pc'[w] = "metadata" => Cleanup(w)
<1>0. TypeOK
  BY DEF TypeInv
<1>1. ASSUME EndRun(w) PROVE w_pc'[w] = "idle"
  BY <1>1, EndRunEffect
<1>2. ASSUME NextStale(w) PROVE w_pc'[w] \in {"idle", "purgeMeta"}
  BY <1>2, NextStaleEffect
<1> USE <1>0 DEF TypeOK
<1>3. CASE \E l \in Lists : StartRefresh(w, l)
  BY <1>3 DEF StartRefresh
<1>4. CASE Check(w)
  BY <1>1, <1>4 DEF Check
<1>c. CASE Gate(w)
  BY <1>1, <1>c DEF Gate
<1>a. CASE Download(w) \/ GetContent(w)
  BY <1>a DEF Download, GetContent
<1>5. CASE SaveChunk(w)
  BY <1>5 DEF SaveChunk
<1>b. CASE SaveExceptions(w)
  BY <1>b DEF SaveExceptions
<1>d. CASE PublishExceptions(w)
  <2>1. w_pc'[w] = "stage"
    BY <1>d DEF PublishExceptions
  <2> QED BY <1>d, <2>1
<1>6. CASE Stage(w) \/ Swap(w) \/ Cleanup(w) \/ UpsertMetadata(w)
  BY <1>1, <1>6 DEF Stage, Swap, Cleanup, UpsertMetadata, StagingKey
<1>7. CASE StartPurge(w) \/ PurgeRead(w) \/ PurgeMeta(w) \/ PurgeContent(w)
  BY <1>1, <1>7 DEF StartPurge, PurgeRead, PurgeMeta, PurgeContent
<1>8. CASE PurgeCache(w)
  BY <1>2, <1>8 DEF PurgeCache
<1>9. CASE Fail(w) \/ PurgeFail(w) \/ Crash(w)
  BY <1>1, <1>2, <1>9 DEF Fail, PurgeFail, Crash
<1> QED BY <1>3, <1>4, <1>5, <1>6, <1>7, <1>8, <1>9, <1>a, <1>b, <1>c, <1>d
       DEF Step, Work

\* The published set changes by a swap, or is taken away.
LEMMA LiveChange ==
    ASSUME TypeInv, [Next]_vars, NEW l \in Lists
    PROVE  \/ live'[l] = live[l]
           \/ /\ live'[l] = {}
              /\ \/ \E k \in Lists : LoseKeys(k)
                 \/ \E w \in Workers : PurgeCache(w) /\ run[w].list = l
           \/ \E w \in Workers : /\ Swap(w) /\ run[w].list = l
                                 /\ staging[w] # {} /\ live'[l] = staging[w]
<1>0. live \in [Lists -> SUBSET (Versions \X Parts)]
  BY DEF TypeInv, TypeOK
<1>1. CASE \E w \in Workers : Swap(w)
  BY <1>0, <1>1 DEF Swap, StagingKey
<1>2. CASE \E w \in Workers : PurgeCache(w)
  BY <1>0, <1>2 DEF PurgeCache
<1>3. CASE \E k \in Lists : LoseKeys(k)
  BY <1>0, <1>3 DEF LoseKeys
<1>4. CASE UNCHANGED live
  BY <1>4
<1>5. \/ \E w \in Workers : Swap(w) \/ PurgeCache(w)
      \/ \E k \in Lists : LoseKeys(k)
      \/ UNCHANGED live
  BY DEF Next, Work, StartRefresh, Check, Download, GetContent, Gate, SaveChunk,
    SaveExceptions, PublishExceptions, Stage, Cleanup, UpsertMetadata, StartPurge,
    PurgeRead, PurgeMeta, PurgeContent, Fail, PurgeFail, Crash, Outlive,
    NewVersion, Age, vars
<1> QED BY <1>1, <1>2, <1>3, <1>4, <1>5

\* So does the exception set, by a publication.
LEMMA ExcChange ==
    ASSUME TypeInv, [Next]_vars, NEW l \in Lists
    PROVE  \/ exc'[l] \in {exc[l], 0}
           \/ \E w \in Workers : /\ PublishExceptions(w) /\ run[w].list = l
                                 /\ exc'[l] = run[w].ver
<1>0. exc \in [Lists -> 0 .. MaxVersion]
  BY DEF TypeInv, TypeOK
<1>1. CASE \E w \in Workers : PublishExceptions(w)
  BY <1>0, <1>1 DEF PublishExceptions, PublishedExc
<1>2. CASE \E w \in Workers : PurgeCache(w)
  BY <1>0, <1>2 DEF PurgeCache
<1>3. CASE \E k \in Lists : LoseKeys(k)
  BY <1>0, <1>3 DEF LoseKeys
<1>4. CASE UNCHANGED exc
  BY <1>4
<1>5. \/ \E w \in Workers : PublishExceptions(w) \/ PurgeCache(w)
      \/ \E k \in Lists : LoseKeys(k)
      \/ UNCHANGED exc
  BY DEF Next, Work, StartRefresh, Check, Download, GetContent, Gate, SaveChunk,
    SaveExceptions, Stage, Swap, Cleanup, UpsertMetadata, StartPurge,
    PurgeRead, PurgeMeta, PurgeContent, Fail, PurgeFail, Crash, Outlive,
    NewVersion, Age, vars
<1> QED BY <1>1, <1>2, <1>3, <1>4, <1>5

\* Documents are added by the run they name, and deleted by a cleanup or a purge.
LEMMA ContentChange ==
    ASSUME [Next]_vars
    PROVE  \/ content' = content
           \/ \E w \in Workers : SaveChunk(w) /\ content' = content \cup {Doc(w, run[w].part)}
           \/ \E w \in Workers : /\ SaveExceptions(w) /\ run[w].ver \in WithExceptions
                                 /\ content' = content \cup {Doc(w, 0)}
           \/ \E w \in Workers : Cleanup(w) /\ content' = content \ run[w].old
           \/ \E w \in Workers : PurgeContent(w) /\ content' = content \ DocsOf(run[w].list)
<1>1. CASE \E w \in Workers : SaveChunk(w) \/ SaveExceptions(w) \/ Cleanup(w) \/ PurgeContent(w)
  BY <1>1 DEF SaveChunk, SaveExceptions, Cleanup, PurgeContent
<1>2. \/ \E w \in Workers : SaveChunk(w) \/ SaveExceptions(w) \/ Cleanup(w) \/ PurgeContent(w)
      \/ UNCHANGED content
  BY DEF Next, Work, StartRefresh, Check, Download, GetContent, Gate,
    PublishExceptions, Stage, Swap, UpsertMetadata, StartPurge,
    PurgeRead, PurgeMeta, PurgeCache, Fail, PurgeFail, Crash, Outlive,
    LoseKeys, NewVersion, Age, vars
<1> QED BY <1>1, <1>2

\* A source's version only grows, and a lease never comes back.
LEMMA EnvChange ==
    ASSUME TypeInv, [Next]_vars
    PROVE  /\ \A l \in Lists : upstream[l] <= upstream'[l]
           /\ UNCHANGED carries /\ (outlived => outlived') /\ (torn => torn')
<1>0. upstream \in [Lists -> 1 .. MaxVersion]
  BY DEF TypeInv, TypeOK, Versions
<1>1. UNCHANGED upstream \/ \E l \in Lists : NewVersion(l)
  BY DEF Next, Work, StartRefresh, Check, Download, GetContent, Gate, SaveChunk,
    SaveExceptions, PublishExceptions, Stage, Swap, Cleanup, UpsertMetadata, StartPurge,
    PurgeRead, PurgeMeta, PurgeContent, PurgeCache, Fail, PurgeFail, Crash, Outlive,
    LoseKeys, Age, vars
<1>2. ASSUME UNCHANGED upstream, NEW k \in Lists PROVE upstream[k] <= upstream'[k]
  <2>1. upstream[k] \in Int /\ upstream'[k] = upstream[k]
    BY <1>0, <1>2
  <2> QED BY ONLY <2>1
<1>3. ASSUME NEW l \in Lists, NewVersion(l), NEW k \in Lists PROVE upstream[k] <= upstream'[k]
  <2>1. PICK v \in Serves[l] : v > upstream[l] /\ upstream' = [upstream EXCEPT ![l] = v]
    BY <1>3 DEF NewVersion
  <2>2. v \in 1 .. MaxVersion
    BY RefreshAssumption DEF Versions
  <2>3. CASE k = l
    BY <1>0, <2>1, <2>2, <2>3
  <2>4. CASE k # l
    BY <1>0, <2>1, <2>4
  <2> QED BY <2>3, <2>4
<1>4. \/ UNCHANGED <<carries, outlived, torn>>
      \/ \E w \in Workers : Outlive(w)
      \/ \E l \in Lists : LoseKeys(l)
  <2>1. ASSUME NEW w \in Workers, Work(w) PROVE UNCHANGED <<carries, outlived, torn>>
    BY <2>1 DEF Work, Check, Download, GetContent, Gate, SaveChunk,
      SaveExceptions, PublishExceptions, Stage, Swap, Cleanup, UpsertMetadata,
      StartPurge, PurgeRead, PurgeMeta, PurgeContent, PurgeCache
  <2>2. ASSUME NEW w \in Workers, Step(w), ~Work(w), ~Outlive(w)
        PROVE  UNCHANGED <<carries, outlived, torn>>
    BY <2>2 DEF Step, StartRefresh, Fail, PurgeFail, Crash
  <2>3. ASSUME NEW l \in Lists, NewVersion(l) \/ Age(l)
        PROVE  UNCHANGED <<carries, outlived, torn>>
    BY <2>3 DEF NewVersion, Age
  <2>4. CASE UNCHANGED vars
    BY <2>4 DEF vars
  <2> QED BY <2>1, <2>2, <2>3, <2>4, NextCases
<1>6. ASSUME NEW w \in Workers, Outlive(w) PROVE UNCHANGED <<carries, torn>> /\ outlived'
  BY <1>6 DEF Outlive
<1>5. ASSUME NEW l \in Lists, LoseKeys(l) PROVE (torn => torn') /\ UNCHANGED <<carries, outlived>>
  BY <1>5 DEF LoseKeys
<1> QED BY <1>1, <1>2, <1>3, <1>4, <1>5, <1>6

-----------------------------------------------------------------------------
(* A staging set is filled part by part, and only a whole one goes live. *)

LEMMA StagedStep ==
    ASSUME TypeInv, TypeInv', StagedInv, [Next]_vars, NEW u \in Workers
    PROVE  StagedOf(u)'
<1>0. /\ StagedOf(u) /\ LocalsOf(u) /\ run[u] \in Runs
      /\ staging \in [Workers \cup {None} -> SUBSET (Versions \X Parts)]
      /\ w_pc \in [Workers -> {"idle"} \cup RefreshSteps \cup PurgeSteps]
  BY DEF StagedInv, TypeInv, TypeOK
<1>1. ASSUME NEW w \in Workers, Step(w) PROVE StagedOf(u)'
  <2>0. torn' = torn
    BY <1>1 DEF Step, Work, StartRefresh, Check, Download, GetContent, Gate, SaveChunk,
      SaveExceptions, PublishExceptions, Stage, Swap, Cleanup, UpsertMetadata, StartPurge,
      PurgeRead, PurgeMeta, PurgeContent, PurgeCache, Fail, PurgeFail, Crash, Outlive
  <2>1. CASE u # w
    BY <1>0, <1>1, <2>0, <2>1, OthersKept DEF StagedOf
  <2>2. CASE u = w /\ Outlive(w)
    BY <1>0, <2>2 DEF Outlive, StagedOf
  <2>3. CASE u = w /\ PublishExceptions(w)
    <3>1. /\ w_pc'[u] = "stage" /\ run'[u] = run[u] /\ staging'[u] = {} /\ run[u].part = 1
      BY <1>0, <2>3 DEF PublishExceptions, LocalsOf
    <3>2. {<<run[u].ver, p>> : p \in 1 .. run[u].part - 1} = {}
      BY <3>1
    <3> QED BY <3>1, <3>2 DEF StagedOf
  <2>4. CASE u = w /\ Stage(w)
    <3> DEFINE new == <<run[u].ver, run[u].part>>
    <3>1. /\ w_pc[u] = "stage" /\ staging'[u] = staging[u] \cup {new}
          /\ run[u].part \in 1 .. NumParts /\ run[u].ver \in Versions
      BY <1>0, <2>4 DEF Stage, StagingKey, LocalsOf, Parts, Downloaded, RefreshSteps
    <3>2. new \in Members(run[u].ver)
      BY <3>1 DEF Members, Parts
    <3>3. torn \/ staging'[u] = {<<run[u].ver, p>> : p \in 1 .. run[u].part}
      <4>1. {<<run[u].ver, p>> : p \in 1 .. run[u].part}
              = {<<run[u].ver, p>> : p \in 1 .. run[u].part - 1} \cup {new}
        BY <3>1
      <4> QED BY <1>0, <3>1, <4>1 DEF StagedOf
    <3>4. CASE run[u].part < NumParts
      <4>1. run' = [run EXCEPT ![u].part = run[u].part + 1] /\ w_pc'[u] = "stage"
        BY <1>0, <2>4, <3>1, <3>4 DEF Stage
      <4>2. run[u].part + 1 \in Nat
        BY <3>1
      <4>3. run'[u].ver = run[u].ver /\ run'[u].part = run[u].part + 1
        BY <4>1, <4>2, PartEffect
      <4>4. 1 .. run'[u].part - 1 = 1 .. run[u].part
        BY <3>1, <4>3
      <4> QED BY <1>0, <2>0, <3>1, <3>2, <3>3, <4>1, <4>3, <4>4 DEF StagedOf
    <3>5. CASE ~(run[u].part < NumParts)
      <4>1. run' = run /\ w_pc'[u] = "swap"
        BY <1>0, <2>4, <3>5 DEF Stage
      <4>2. 1 .. run[u].part = Parts
        BY <3>1, <3>5, RefreshAssumption DEF Parts
      <4> QED BY <1>0, <2>0, <3>1, <3>2, <3>3, <4>1, <4>2 DEF StagedOf, Members
    <3> QED BY <3>4, <3>5
  <2>5. CASE u = w /\ ~Outlive(w) /\ ~PublishExceptions(w) /\ ~Stage(w)
    BY <1>1, <2>5, StepPc DEF StagedOf
  <2> QED BY <2>1, <2>2, <2>3, <2>4, <2>5
<1>2. ASSUME NEW l \in Lists, LoseKeys(l) PROVE StagedOf(u)'
  <2>1. staging'[u] = {} /\ w_pc' = w_pc /\ run' = run
    BY <1>0, <1>2 DEF LoseKeys
  <2>2. w_pc[u] = "stage" /\ staging[u] # {} => torn'
    BY <1>2 DEF LoseKeys, StagingKey
  <2>3. torn => torn'
    BY <1>2 DEF LoseKeys
  <2> QED BY <1>0, <2>1, <2>2, <2>3 DEF StagedOf
<1>3. ASSUME NEW l \in Lists, NewVersion(l) \/ Age(l) PROVE StagedOf(u)'
  BY <1>0, <1>3 DEF NewVersion, Age, StagedOf
<1>4. CASE UNCHANGED vars
  BY <1>0, <1>4 DEF vars, StagedOf
<1> QED BY <1>1, <1>2, <1>3, <1>4, NextCases

LEMMA LiveWholeStep ==
    ASSUME TypeInv, StagedInv, [Next]_vars
    PROVE  LiveWhole'
<1> SUFFICES ASSUME ~torn', NEW l \in Lists
             PROVE  live'[l] = {} \/ \E v \in Versions : live'[l] = Members(v)
  BY DEF LiveWhole, Members, Parts, Versions
<1>1. ~torn /\ (live[l] = {} \/ \E v \in Versions : live[l] = Members(v))
  BY EnvChange DEF StagedInv, LiveWhole
<1>2. ASSUME NEW w \in Workers, Swap(w), staging[w] # {}, live'[l] = staging[w]
      PROVE  \E v \in Versions : live'[l] = Members(v)
  <2>1. w_pc[w] = "swap"
    BY <1>2 DEF Swap
  <2>2. run[w].ver \in Versions /\ staging[w] \in {{}, Members(run[w].ver)}
    BY <1>1, <2>1 DEF StagedInv, StagedOf, TypeInv, LocalsOf, Downloaded, RefreshSteps
  <2> QED BY <1>2, <2>2
<1> QED BY <1>1, <1>2, LiveChange

LEMMA StagedInvStep == TypeInv /\ StagedInv /\ [Next]_vars => StagedInv'
  BY TypeInvStep, StagedStep, LiveWholeStep DEF StagedInv

-----------------------------------------------------------------------------
(* A refresh keeps its list, its identity and, once it has one, its version. *)

LEMMA OwnStep ==
    ASSUME TypeInv, NEW w \in Workers, Step(w), ~Outlive(w), w_pc'[w] \in RefreshSteps,
           \A l \in Lists : ~(StartRefresh(w, l) /\ lock[l] = None)
    PROVE  /\ w_pc[w] \in RefreshSteps /\ UNCHANGED lock
           /\ run'[w].list = run[w].list /\ run'[w].id = run[w].id
           /\ \/ Download(w) /\ run'[w].ver = upstream[run[w].list]
              \/ /\ run'[w].ver = run[w].ver
                 /\ w_pc'[w] \in Downloaded => w_pc[w] \in Downloaded
           /\ \/ GetContent(w) /\ run'[w].old = DocsOf(run[w].list)
              \/ run'[w].old = run[w].old
           /\ w_pc'[w] \in Unsaved => w_pc[w] \in Unsaved
<1>0. run[w] \in Runs /\ w_pc \in [Workers -> {"idle"} \cup RefreshSteps \cup PurgeSteps]
  BY DEF TypeInv, TypeOK
<1> USE <1>0 DEF Downloaded, Unsaved, RefreshSteps
<1>1. CASE w_pc'[w] = "check"
  BY <1>1, StepPc
<1>2. CASE w_pc'[w] = "download"
  <2>1. Check(w) /\ ~IsFresh(run[w].list)
    BY <1>2, StepPc
  <2> QED BY <2>1 DEF Check
<1>3. CASE w_pc'[w] = "content"
  <2>1. Download(w)
    BY <1>3, StepPc
  <2> QED BY <1>3, <2>1, DownloadEffect DEF Download
<1>4. CASE w_pc'[w] = "gate"
  <2>1. GetContent(w)
    BY <1>4, StepPc
  <2> QED BY <1>4, <2>1, GetContentEffect DEF GetContent
<1>5. ASSUME NEW p \in Nat, run' = [run EXCEPT ![w].part = p]
      PROVE  /\ run'[w].list = run[w].list /\ run'[w].id = run[w].id
             /\ run'[w].ver = run[w].ver /\ run'[w].old = run[w].old
  BY <1>5, PartEffect
<1>6. CASE w_pc'[w] = "save"
  <2>1. CASE Gate(w)
    <3>1. run' = [run EXCEPT ![w].part = 1] /\ 1 \in Nat /\ w_pc[w] = "gate" /\ lock' = lock
      BY <1>6, <2>1, EndRunEffect DEF Gate
    <3> QED BY <1>5, <1>6, <3>1
  <2>2. CASE SaveChunk(w) /\ run[w].part < NumDocs
    <3>1. run[w].part + 1 \in Nat
      BY DEF Runs
    <3>2. run' = [run EXCEPT ![w].part = run[w].part + 1] /\ w_pc[w] = "save" /\ lock' = lock
      BY <2>2 DEF SaveChunk
    <3> QED BY <1>5, <1>6, <3>1, <3>2
  <2> QED BY <1>6, <2>1, <2>2, StepPc
<1>7. CASE w_pc'[w] = "saveExc"
  <2>1. SaveChunk(w) /\ ~(run[w].part < NumDocs)
    BY <1>7, StepPc
  <2>2. run' = [run EXCEPT ![w].part = 1] /\ 1 \in Nat /\ w_pc[w] = "save" /\ lock' = lock
    BY <2>1 DEF SaveChunk
  <2> QED BY <1>5, <1>7, <2>2
<1>8. CASE w_pc'[w] \in {"publishExc", "metadata"}
  <2>1. SaveExceptions(w) \/ Cleanup(w)
    BY <1>8, StepPc
  <2> QED BY <1>8, <2>1 DEF SaveExceptions, Cleanup
<1>9. CASE w_pc'[w] \in {"stage", "swap"}
  <2>1. CASE PublishExceptions(w)
    BY <1>9, <2>1 DEF PublishExceptions
  <2>2. CASE Stage(w) /\ run[w].part < NumParts
    <3>1. run[w].part + 1 \in Nat
      BY DEF Runs
    <3>2. run' = [run EXCEPT ![w].part = run[w].part + 1] /\ w_pc[w] = "stage" /\ lock' = lock
      BY <2>2 DEF Stage
    <3> QED BY <1>5, <1>9, <3>1, <3>2
  <2>3. CASE Stage(w) /\ ~(run[w].part < NumParts)
    BY <1>9, <2>3 DEF Stage
  <2> QED BY <1>9, <2>1, <2>2, <2>3, StepPc
<1>10. CASE w_pc'[w] = "cleanup"
  <2>1. Swap(w) /\ staging[w] # {}
    BY <1>10, StepPc
  <2> QED BY <1>10, <2>1 DEF Swap, StagingKey
<1> QED BY <1>1, <1>2, <1>3, <1>4, <1>6, <1>7, <1>8, <1>9, <1>10

LEMMA LockChange ==
    ASSUME TypeInv, NEW w \in Workers, Step(w), NEW l \in Lists
    PROVE  lock'[l] = lock[l] \/ lock[l] \in {w, None}
<1>0. lock \in [Lists -> Workers \cup {None}]
  BY DEF TypeInv, TypeOK
<1>1. ASSUME EndRun(w) PROVE lock'[l] = lock[l] \/ lock[l] = w
  BY <1>1, EndRunEffect
<1>2. ASSUME NextStale(w) PROVE lock'[l] = lock[l] \/ lock[l] = w
  BY <1>2, NextStaleEffect
<1>3. CASE \E k \in Lists : StartRefresh(w, k)
  BY <1>0, <1>3 DEF StartRefresh
<1>4. CASE Check(w) \/ Download(w) \/ GetContent(w) \/ Gate(w)
  BY <1>1, <1>4 DEF Check, Download, GetContent, Gate
<1>5. CASE SaveChunk(w) \/ SaveExceptions(w) \/ PublishExceptions(w)
  BY <1>5 DEF SaveChunk, SaveExceptions, PublishExceptions
<1>6. CASE Stage(w) \/ Swap(w) \/ Cleanup(w) \/ UpsertMetadata(w)
  BY <1>1, <1>6 DEF Stage, Swap, Cleanup, UpsertMetadata
<1>7. CASE StartPurge(w) \/ PurgeRead(w) \/ PurgeMeta(w) \/ PurgeContent(w)
  BY <1>1, <1>7 DEF StartPurge, PurgeRead, PurgeMeta, PurgeContent
<1>8. CASE PurgeCache(w)
  BY <1>2, <1>8 DEF PurgeCache
<1>9. CASE Fail(w) \/ PurgeFail(w) \/ Crash(w) \/ Outlive(w)
  BY <1>0, <1>1, <1>2, <1>9 DEF Fail, PurgeFail, Crash, Outlive, ReleaseAll
<1> QED BY <1>3, <1>4, <1>5, <1>6, <1>7, <1>8, <1>9 DEF Step, Work

\* A refresh that is in progress after a step has just started or was in
\* progress before it; within its lease it still holds the lock.
LEMMA InProgress ==
    ASSUME TypeInv, [Next]_vars, NEW u \in Workers, w_pc'[u] \in RefreshSteps
    PROVE  \/ \E l \in Lists : StartRefresh(u, l) /\ lock[l] = None
           \/ /\ w_pc[u] \in RefreshSteps
              /\ run'[u].list = run[u].list /\ run'[u].id = run[u].id
              /\ \/ Download(u) /\ run'[u].ver = upstream[run[u].list]
                 \/ /\ run'[u].ver = run[u].ver
                    /\ w_pc'[u] \in Downloaded => w_pc[u] \in Downloaded
              /\ \/ GetContent(u) /\ run'[u].old = DocsOf(run[u].list)
                 \/ run'[u].old = run[u].old
              /\ w_pc'[u] \in Unsaved => w_pc[u] \in Unsaved
              /\ ~outlived' /\ lock[run[u].list] = u => lock'[run[u].list] = u
<1>1. ASSUME NEW w \in Workers, Step(w), u # w
      PROVE  /\ w_pc[u] \in RefreshSteps /\ w_pc'[u] = w_pc[u] /\ run'[u] = run[u]
             /\ lock[run[u].list] = u => lock'[run[u].list] = u
  <2>1. w_pc'[u] = w_pc[u] /\ run'[u] = run[u]
    BY <1>1, OthersKept
  <2>2. run[u].list \in Lists
    BY <2>1, RefreshAssumption DEF TypeInv, TypeOK, LocalsOf
  <2> QED BY <1>1, <2>1, <2>2, LockChange, RefreshAssumption
<1>2. ASSUME Outlive(u)
      PROVE  w_pc[u] \in RefreshSteps /\ w_pc'[u] = w_pc[u] /\ run'[u] = run[u] /\ outlived'
  BY <1>2 DEF Outlive
<1>3. ASSUME NEW l \in Lists, LoseKeys(l) \/ NewVersion(l) \/ Age(l)
      PROVE  w_pc'[u] = w_pc[u] /\ run'[u] = run[u] /\ lock' = lock
  BY <1>3, SourceEffect
<1>4. ASSUME UNCHANGED vars
      PROVE  w_pc'[u] = w_pc[u] /\ run'[u] = run[u] /\ lock' = lock
  BY <1>4 DEF vars
<1>5. CASE Step(u) /\ ~Outlive(u)
  BY <1>5, OwnStep
<1> QED BY <1>1, <1>2, <1>3, <1>4, <1>5, NextCases

-----------------------------------------------------------------------------
(* Versions: nothing is used or published before its source serves it. *)

LEMMA VersionStep ==
    ASSUME TypeInv, TypeInv', StagedInv, VersionInv, [Next]_vars
    PROVE  VersionInv'
<1>0. upstream \in [Lists -> 1 .. MaxVersion] /\ upstream' \in [Lists -> 1 .. MaxVersion]
  BY DEF TypeInv, TypeOK, Versions
<1>1. ASSUME NEW l \in Lists, NEW m \in live'[l] PROVE m[1] <= upstream'[l]
  <2>0. upstream[l] <= upstream'[l] /\ upstream[l] \in Int /\ upstream'[l] \in Int
    BY <1>0, EnvChange
  <2>1. live'[l] \in SUBSET (Versions \X Parts)
    BY DEF TypeInv, TypeOK
  <2>2. m[1] \in Int
    BY <1>1, <2>1 DEF Versions
  <2>3. CASE live'[l] = live[l]
    <3>1. m[1] <= upstream[l]
      BY <1>1, <2>3 DEF VersionInv
    <3> QED BY <2>0, <2>2, <3>1
  <2>4. ASSUME NEW w \in Workers, Swap(w), run[w].list = l, live'[l] = staging[w]
        PROVE  m[1] <= upstream'[l]
    <3>1. m \in Members(run[w].ver) /\ run[w].ver <= upstream[l]
      BY <1>1, <2>4 DEF Swap, StagedInv, StagedOf, VersionInv, Downloaded, RefreshSteps
    <3>2. m[1] = run[w].ver
      BY <3>1 DEF Members
    <3> QED BY <2>0, <2>2, <3>1, <3>2
  <2> QED BY <1>1, <2>3, <2>4, LiveChange
<1>2. ASSUME NEW u \in Workers, w_pc'[u] \in Downloaded
      PROVE  run'[u].ver <= upstream'[run'[u].list]
  <2>0. w_pc'[u] \in RefreshSteps /\ w_pc'[u] # "check"
    BY <1>2 DEF Downloaded
  <2>1. ~ \E l \in Lists : StartRefresh(u, l) /\ lock[l] = None
    BY <2>0 DEF StartRefresh, TypeInv, TypeOK
  <2>2. /\ run'[u].list = run[u].list
        /\ \/ Download(u) /\ run'[u].ver = upstream[run[u].list]
           \/ run'[u].ver = run[u].ver /\ w_pc[u] \in Downloaded
    BY <1>2, <2>0, <2>1, InProgress
  <2>3. run'[u].list \in Lists
    BY <2>0, RefreshAssumption DEF TypeInv, TypeOK, LocalsOf
  <2>4. upstream[run[u].list] <= upstream'[run[u].list]
    BY <2>2, <2>3, EnvChange
  <2>5. CASE Download(u) /\ run'[u].ver = upstream[run[u].list]
    BY <2>2, <2>4, <2>5
  <2>6. CASE run'[u].ver = run[u].ver /\ w_pc[u] \in Downloaded
    <3>1. run[u].ver <= upstream[run[u].list]
      BY <2>6 DEF VersionInv
    <3>2. run[u].ver \in Int
      BY <2>6, RefreshAssumption DEF TypeInv, LocalsOf, Versions
    <3> QED BY <1>0, <2>2, <2>3, <2>4, <2>6, <3>1, <3>2
  <2> QED BY <2>2, <2>5, <2>6
<1> QED BY <1>1, <1>2 DEF VersionInv

-----------------------------------------------------------------------------
(* Runs within their lease: one per list, and in the order of the versions. *)

LEMMA LockStep ==
    ASSUME TypeInv, TypeInv', LeaseInv, [Next]_vars, ~outlived'
    PROVE  ~outlived /\ LockInv /\ LockInv'
<1>1. ~outlived /\ LockInv
  BY EnvChange DEF LeaseInv
<1>2. ASSUME NEW u \in Workers, w_pc'[u] \in RefreshSteps PROVE lock'[run'[u].list] = u
  <2>1. CASE \E l \in Lists : StartRefresh(u, l) /\ lock[l] = None
    <3>1. PICK l \in Lists : StartRefresh(u, l) /\ lock[l] = None
      BY <2>1
    <3>2. run'[u].list = l
      BY <3>1, StartRefreshEffect
    <3>3. lock'[l] = u
      BY <3>1 DEF StartRefresh, TypeInv, TypeOK
    <3> QED BY <3>2, <3>3
  <2>2. CASE ~(\E l \in Lists : StartRefresh(u, l) /\ lock[l] = None)
    BY <1>1, <1>2, <2>2, InProgress DEF LockInv
  <2> QED BY <2>1, <2>2
<1> QED BY <1>1, <1>2 DEF LockInv

\* Two runs within their lease refresh different lists.
LEMMA OneRunPerList ==
    ASSUME LockInv, NEW u \in Workers, NEW w \in Workers,
           w_pc[u] \in RefreshSteps, w_pc[w] \in RefreshSteps, run[u].list = run[w].list
    PROVE  u = w
  BY DEF LockInv

LEMMA OrderStep ==
    ASSUME TypeInv, TypeInv', StagedInv, VersionInv, LeaseInv, [Next]_vars, ~outlived',
           NEW u \in Workers
    PROVE  OrderOf(u)'
<1>0. ~outlived /\ LockInv /\ OrderOf(u)
  BY LockStep DEF LeaseInv
<1>a. ASSUME w_pc'[u] \in Downloaded
      PROVE  /\ run[u].list \in Lists /\ run'[u].list = run[u].list
             /\ w_pc[u] \in RefreshSteps
             /\ \/ Download(u) /\ run'[u].ver = upstream[run[u].list]
                \/ run'[u].ver = run[u].ver /\ w_pc[u] \in Downloaded
  <2>1. w_pc'[u] \in RefreshSteps /\ w_pc'[u] # "check"
    BY <1>a DEF Downloaded
  <2>2. ~ \E l \in Lists : StartRefresh(u, l) /\ lock[l] = None
    BY <2>1 DEF StartRefresh, TypeInv, TypeOK
  <2>3. run'[u].list \in Lists
    BY <2>1, RefreshAssumption DEF TypeInv, TypeOK, LocalsOf
  <2> QED BY <1>a, <2>1, <2>2, <2>3, InProgress
<1>1. ASSUME w_pc'[u] \in Downloaded, NEW m \in live'[run'[u].list]
      PROVE  m[1] <= run'[u].ver
  <2> DEFINE l == run[u].list
  <2>1. CASE Download(u) /\ run'[u].ver = upstream[l]
    BY <1>1, <1>a, <2>1 DEF VersionInv, Download
  <2>2. CASE run'[u].ver = run[u].ver /\ w_pc[u] \in Downloaded
    <3>1. CASE live'[l] = live[l]
      BY <1>0, <1>1, <1>a, <2>2, <3>1 DEF OrderOf
    <3>2. ASSUME NEW w \in Workers, Swap(w), run[w].list = l, live'[l] = staging[w]
          PROVE  m[1] <= run'[u].ver
      <4>1. w = u
        BY <1>0, <2>2, <3>2, OneRunPerList DEF Swap, Downloaded, RefreshSteps
      <4>2. m \in Members(run[u].ver)
        BY <1>1, <1>a, <3>2, <4>1 DEF Swap, StagedInv, StagedOf
      <4>3. m[1] = run[u].ver /\ run[u].ver \in Int
        BY <2>2, <4>2, RefreshAssumption DEF Members, TypeInv, LocalsOf, Versions
      <4> QED BY <2>2, <4>3
    <3> QED BY <1>1, <1>a, <3>1, <3>2, LiveChange
  <2> QED BY <1>1, <1>a, <2>1, <2>2
<1>2. ASSUME w_pc'[u] \in {"stage", "swap"} PROVE exc'[run'[u].list] \in {0, run'[u].ver}
  <2> DEFINE l == run[u].list
  <2>1. w_pc'[u] \in Downloaded
    BY <1>2 DEF Downloaded, RefreshSteps
  <2>2. CASE w_pc[u] \in {"stage", "swap"}
    <3>1. run'[u].ver = run[u].ver
      BY <1>a, <2>1, <2>2 DEF Download
    <3>2. ASSUME NEW w \in Workers, PublishExceptions(w), run[w].list = l
          PROVE  w = u
      BY <1>0, <2>2, <3>2, OneRunPerList DEF PublishExceptions, RefreshSteps
    <3>3. exc[l] \in {0, run[u].ver}
      BY <1>0, <2>2 DEF OrderOf
    <3> QED BY <1>a, <2>1, <3>1, <3>2, <3>3, ExcChange
  <2>3. CASE w_pc[u] \notin {"stage", "swap"}
    <3>1. PublishExceptions(u)
      <4>1. ASSUME NEW w \in Workers, Step(w) PROVE w = u /\ ~Outlive(u)
        BY <1>2, <2>3, <4>1, OthersKept DEF Outlive
      <4>2. ~(\E k \in Lists : LoseKeys(k) \/ NewVersion(k) \/ Age(k))
        BY <1>2, <2>3, SourceEffect
      <4>3. ~ UNCHANGED vars
        BY <1>2, <2>3 DEF vars
      <4>4. Step(u) /\ ~Outlive(u)
        BY <4>1, <4>2, <4>3, NextCases
      <4> QED BY <1>2, <2>3, <4>4, StepPc DEF Stage
    <3>2. exc'[l] = PublishedExc(l, run[u].ver) /\ run' = run
      BY <1>a, <2>1, <3>1 DEF PublishExceptions, TypeInv, TypeOK
    <3> QED BY <3>2 DEF PublishedExc
  <2> QED BY <2>2, <2>3
<1> QED BY <1>1, <1>2 DEF OrderOf

LEMMA LeaseStep ==
    ASSUME TypeInv, TypeInv', StagedInv, VersionInv, LeaseInv, [Next]_vars
    PROVE  LeaseInv'
  BY LockStep, OrderStep DEF LeaseInv

LEMMA ExceptionsStep ==
    ASSUME TypeInv, TypeInv', StagedInv, LeaseInv, ExceptionsNotOlder, [Next]_vars
    PROVE  ExceptionsNotOlder'
<1> SUFFICES ASSUME ~outlived', NEW l \in Lists, exc'[l] # 0, NEW m \in live'[l]
             PROVE  exc'[l] >= m[1]
  BY DEF ExceptionsNotOlder
<1>0. ~outlived /\ LockInv /\ \A w \in Workers : OrderOf(w)
  BY LockStep DEF LeaseInv
<1>1. ASSUME NEW w \in Workers, Swap(w), run[w].list = l, live'[l] = staging[w]
      PROVE  exc[l] \in {0, m[1]} /\ m[1] \in Nat
  <2>1. exc[l] \in {0, run[w].ver} /\ m \in Members(run[w].ver) /\ run[w].ver \in Versions
    BY <1>0, <1>1 DEF Swap, OrderOf, StagedInv, StagedOf, TypeInv, LocalsOf, Downloaded,
       RefreshSteps
  <2> QED BY <2>1 DEF Members, Versions
<1>2. CASE exc'[l] = exc[l]
  <2>1. CASE live'[l] = live[l]
    BY <1>0, <1>2, <2>1 DEF ExceptionsNotOlder
  <2>2. CASE \E w \in Workers : Swap(w) /\ run[w].list = l /\ live'[l] = staging[w]
    BY <1>1, <1>2, <2>2
  <2> QED BY <2>1, <2>2, LiveChange
<1>3. ASSUME NEW w \in Workers, PublishExceptions(w), run[w].list = l, exc'[l] = run[w].ver
      PROVE  exc'[l] >= m[1]
  <2>1. CASE live'[l] = live[l]
    <3>1. m[1] <= run[w].ver
      BY <1>0, <1>3, <2>1 DEF PublishExceptions, OrderOf, Downloaded, RefreshSteps
    <3>2. live[l] \in SUBSET (Versions \X Parts) /\ run[w].ver \in Versions
      BY <1>3 DEF PublishExceptions, TypeInv, TypeOK, LocalsOf, Downloaded, RefreshSteps
    <3>3. m[1] \in Int /\ run[w].ver \in Int
      BY <2>1, <3>2 DEF Versions
    <3> QED BY <1>3, <3>1, <3>3
  <2>2. ASSUME NEW x \in Workers, Swap(x), run[x].list = l PROVE FALSE
    <3>1. x = w
      BY <1>0, <1>3, <2>2, OneRunPerList DEF PublishExceptions, Swap, RefreshSteps
    <3> QED BY <1>3, <2>2, <3>1 DEF PublishExceptions, Swap
  <2> QED BY <2>1, <2>2, LiveChange
<1> QED BY <1>2, <1>3, ExcChange

-----------------------------------------------------------------------------
(* Identity: the documents of a run can be told from all others. *)

LEMMA IdChange ==
    ASSUME TypeInv, TypeInv', [Next]_vars, NEW u \in Workers
    PROVE  \/ run'[u].id \in {run[u].id, 0}
           \/ \E l \in Lists :
                /\ StartRefresh(u, l) /\ lock[l] = None /\ FreshId(run'[u].id)
                /\ \A w \in Workers \ {u} : run'[w] = run[w]
<1>1. CASE \E l \in Lists : StartRefresh(u, l) /\ lock[l] = None
  BY <1>1, StartRefreshEffect
<1>2. CASE /\ ~ \E l \in Lists : StartRefresh(u, l) /\ lock[l] = None
           /\ w_pc'[u] \in RefreshSteps
  BY <1>2, InProgress
<1>3. CASE w_pc'[u] \notin RefreshSteps
  <2>1. w_pc'[u] \in {"idle", "purgeRead"} \/ w_pc'[u] \in Deleting
    BY <1>3 DEF TypeInv, TypeOK, Deleting, PurgeSteps
  <2> QED BY <2>1, NoRunType DEF TypeInv, LocalsOf
<1> QED BY <1>1, <1>2, <1>3

LEMMA IdsStep ==
    ASSUME TypeInv, TypeInv', IdsInv, [Next]_vars, NEW u \in Workers
    PROVE  IdsOf(u)'
<1>0. \A w \in Workers : IdsOf(w)
  BY DEF IdsInv
<1>1. ASSUME NEW w \in Workers \ {u}, run'[u].id = run'[w].id PROVE run'[u].id = 0
  <2>1. CASE run'[u].id \in {run[u].id, 0} /\ run'[w].id \in {run[w].id, 0}
    BY <1>0, <1>1, <2>1 DEF IdsOf
  <2>2. CASE FreshId(run'[u].id) /\ run'[w] = run[w]
    BY <1>1, <2>2 DEF FreshId
  <2>3. CASE FreshId(run'[w].id) /\ run'[u] = run[u]
    BY <1>1, <2>3 DEF FreshId
  <2> QED BY <2>1, <2>2, <2>3, IdChange
<1>2. ASSUME NEW d \in run'[u].old PROVE d.list = run'[u].list /\ d.id # run'[u].id
  <2>1. CASE \E l \in Lists : StartRefresh(u, l) /\ lock[l] = None
    BY <1>2, <2>1, StartRefreshEffect
  <2>2. CASE /\ ~ \E l \in Lists : StartRefresh(u, l) /\ lock[l] = None
             /\ w_pc'[u] \in RefreshSteps
    <3>1. /\ run'[u].list = run[u].list /\ run'[u].id = run[u].id
          /\ \/ GetContent(u) /\ run'[u].old = DocsOf(run[u].list)
             \/ run'[u].old = run[u].old
      BY <2>2, InProgress
    <3>2. CASE run'[u].old = run[u].old
      BY <1>0, <1>2, <3>1, <3>2 DEF IdsOf
    <3>3. CASE GetContent(u) /\ run'[u].old = DocsOf(run[u].list)
      BY <1>0, <1>2, <3>1, <3>3 DEF IdsOf, GetContent, Unsaved, DocsOf
    <3> QED BY <3>1, <3>2, <3>3
  <2>3. CASE w_pc'[u] \in {"idle", "purgeRead"}
    BY <1>2, <2>3, NoRunType DEF TypeInv, LocalsOf
  <2>4. CASE w_pc'[u] \in Deleting
    BY <1>2, <2>4 DEF TypeInv, LocalsOf
  <2> QED BY <2>1, <2>2, <2>3, <2>4 DEF TypeInv, TypeOK, Deleting, PurgeSteps
<1>3. ASSUME w_pc'[u] \in Unsaved, NEW d \in content' PROVE d.id # run'[u].id
  <2>0. w_pc'[u] \in RefreshSteps
    BY <1>3 DEF Unsaved, RefreshSteps
  <2>1. CASE \E l \in Lists : StartRefresh(u, l) /\ lock[l] = None
    <3>1. content' = content /\ FreshId(run'[u].id)
      BY <2>1, StartRefreshEffect DEF StartRefresh
    <3> QED BY <1>3, <3>1 DEF FreshId
  <2>2. CASE ~ \E l \in Lists : StartRefresh(u, l) /\ lock[l] = None
    <3>1. w_pc[u] \in Unsaved /\ run'[u].id = run[u].id
      BY <1>3, <2>0, <2>2, InProgress
    <3>2. CASE d \in content
      BY <1>0, <3>1, <3>2 DEF IdsOf
    <3>3. ASSUME NEW w \in Workers, SaveChunk(w) \/ SaveExceptions(w), d.id = run[w].id
          PROVE  d.id # run'[u].id
      <4>1. w # u
        BY <3>1, <3>3 DEF SaveChunk, SaveExceptions, Unsaved
      <4>2. run[w].id # 0
        BY <3>3 DEF SaveChunk, SaveExceptions, TypeInv, LocalsOf, RefreshSteps, RunIds
      <4> QED BY <1>0, <3>1, <3>3, <4>1, <4>2 DEF IdsOf
    <3>4. \/ d \in content
          \/ \E w \in Workers : (SaveChunk(w) \/ SaveExceptions(w)) /\ d.id = run[w].id
      BY <1>3, ContentChange DEF Doc
    <3> QED BY <3>2, <3>3, <3>4
  <2> QED BY <2>1, <2>2
<1> QED BY <1>1, <1>2, <1>3 DEF IdsOf

-----------------------------------------------------------------------------
(* The documents of a list while a run replaces them. *)

LEMMA DocsKept ==
    ASSUME TypeInv, IdsInv, LockInv, [Next]_vars, NEW u \in Workers,
           w_pc[u] \in RefreshSteps, Carried(run[u].list),
           w_pc'[u] = w_pc[u], run'[u] = run[u]
    PROVE  DocsOf(run[u].list)' = DocsOf(run[u].list)
<1> DEFINE l == run[u].list
<1>0. run'[u].list = l /\ run[u] \in Runs
  BY DEF TypeInv, TypeOK
<1>a. ASSUME NEW w \in Workers, w_pc[w] \in RefreshSteps, w # u PROVE run[w].list # l
  BY <1>a, OneRunPerList
<1>1. CASE content' = content
  BY <1>0, <1>1 DEF DocsOf
<1>2. ASSUME NEW w \in Workers, SaveChunk(w), content' = content \cup {Doc(w, run[w].part)}
      PROVE  DocsOf(l)' = DocsOf(l)
  <2>1. w # u
    <3>1. ASSUME SaveChunk(u) PROVE FALSE
      <4>0. run[u].part \in Nat /\ w_pc[u] = "save"
        BY <1>0, <3>1 DEF SaveChunk, Runs
      <4>1. CASE run[u].part < NumDocs
        <5>1. run[u].part + 1 \in Nat /\ run' = [run EXCEPT ![u].part = run[u].part + 1]
          BY <3>1, <4>0, <4>1 DEF SaveChunk
        <5>2. run'[u].part = run[u].part + 1
          BY <5>1, PartEffect
        <5> QED BY <4>0, <5>2
      <4>2. CASE ~(run[u].part < NumDocs)
        BY <3>1, <4>0, <4>2 DEF SaveChunk, TypeInv, TypeOK
      <4> QED BY <4>1, <4>2
    <3> QED BY <1>2, <3>1
  <2>2. Doc(w, run[w].part).list # l
    BY <1>a, <1>2, <2>1 DEF SaveChunk, Doc, RefreshSteps
  <2> QED BY <1>0, <1>2, <2>2 DEF DocsOf
<1>3. ASSUME NEW w \in Workers, SaveExceptions(w), content' = content \cup {Doc(w, 0)}
      PROVE  DocsOf(l)' = DocsOf(l)
  <2>1. w # u
    BY <1>3 DEF SaveExceptions, TypeInv, TypeOK
  <2>2. Doc(w, 0).list # l
    BY <1>a, <1>3, <2>1 DEF SaveExceptions, Doc, RefreshSteps
  <2> QED BY <1>0, <1>3, <2>2 DEF DocsOf
<1>4. ASSUME NEW w \in Workers, Cleanup(w), content' = content \ run[w].old
      PROVE  DocsOf(l)' = DocsOf(l)
  <2>1. w # u
    BY <1>4 DEF Cleanup, TypeInv, TypeOK
  <2>2. \A d \in run[w].old : d.list # l
    BY <1>a, <1>4, <2>1 DEF Cleanup, IdsInv, IdsOf, RefreshSteps
  <2> QED BY <1>0, <1>4, <2>2 DEF DocsOf
<1>5. ASSUME NEW w \in Workers, PurgeContent(w), content' = content \ DocsOf(run[w].list)
      PROVE  DocsOf(l)' = DocsOf(l)
  <2>1. run[w].list \notin carries[w] /\ l \in carries[w]
    BY <1>5 DEF PurgeContent, TypeInv, LocalsOf, Deleting, PurgeSteps, Carried
  <2> QED BY <1>0, <1>5, <2>1 DEF DocsOf
<1> QED BY <1>1, <1>2, <1>3, <1>4, <1>5, ContentChange

LEMMA OwnContent ==
    ASSUME TypeInv, TypeInv', IdsInv, LockInv, NEW u \in Workers, Step(u), ~Outlive(u),
           Carried(run[u].list), ContentOf(u), w_pc'[u] \in RefreshSteps,
           run'[u].list = run[u].list, run'[u].id = run[u].id
    PROVE  ContentOf(u)'
<1> DEFINE l == run[u].list
<1>0. /\ run[u] \in Runs /\ run'[u] \in Runs /\ content \subseteq Docs
      /\ w_pc \in [Workers -> {"idle"} \cup RefreshSteps \cup PurgeSteps]
  BY DEF TypeInv, TypeOK
<1>a. \A p : Doc(u, p)' = Doc(u, p)
  BY DEF Doc
<1>b. DocsOf(run[u].list)' = {d \in content' : d.list = l}
  BY DEF DocsOf
<1>c. \A p : Doc(u, p).list = l
  BY DEF Doc
<1>1. CASE w_pc'[u] \in {"check", "download", "content"}
  BY <1>1 DEF ContentOf
<1>2. CASE w_pc'[u] = "gate"
  <2>1. GetContent(u)
    BY <1>2, StepPc
  <2>2. run'[u].old = DocsOf(l) /\ content' = content
    BY <2>1, GetContentEffect DEF GetContent
  <2> QED BY <1>2, <1>b, <2>2 DEF ContentOf, DocsOf
<1>3. CASE w_pc'[u] = "save"
  <2>1. CASE Gate(u)
    <3>1. run' = [run EXCEPT ![u].part = 1] /\ 1 \in Nat /\ w_pc[u] = "gate" /\ content' = content
      BY <1>3, <2>1, EndRunEffect DEF Gate
    <3>2. run'[u].part = 1 /\ run'[u].old = run[u].old
      BY <3>1, PartEffect
    <3>3. {Doc(u, p) : p \in 1 .. run'[u].part - 1} = {}
      BY <3>2
    <3> QED BY <1>3, <1>a, <1>b, <3>1, <3>2, <3>3 DEF ContentOf, DocsOf, Saved
  <2>2. CASE SaveChunk(u) /\ run[u].part < NumDocs
    <3>1. run[u].part + 1 \in Nat /\ run[u].part \in 1 .. NumDocs /\ w_pc[u] = "save"
      BY <2>2 DEF SaveChunk, TypeInv, LocalsOf
    <3>2. /\ run' = [run EXCEPT ![u].part = run[u].part + 1]
          /\ content' = content \cup {Doc(u, run[u].part)}
      BY <2>2 DEF SaveChunk
    <3>3. run'[u].part = run[u].part + 1 /\ run'[u].old = run[u].old
      BY <3>1, <3>2, PartEffect
    <3>4. 1 .. run'[u].part - 1 = (1 .. run[u].part - 1) \cup {run[u].part}
      BY <3>1, <3>3
    <3>5. DocsOf(l) = run[u].old \cup {Doc(u, p) : p \in 1 .. run[u].part - 1}
      BY <3>1 DEF ContentOf, Saved
    <3>6. {d \in content' : d.list = l}
            = run[u].old \cup {Doc(u, p) : p \in (1 .. run[u].part - 1) \cup {run[u].part}}
      BY <1>c, <3>2, <3>5 DEF DocsOf
    <3> QED BY <1>3, <1>a, <1>b, <3>3, <3>4, <3>6 DEF ContentOf, Saved
  <2> QED BY <1>3, <2>1, <2>2, StepPc
<1>4. CASE w_pc'[u] = "saveExc"
  <2>1. SaveChunk(u) /\ ~(run[u].part < NumDocs)
    BY <1>4, StepPc
  <2>2. /\ run' = [run EXCEPT ![u].part = 1] /\ 1 \in Nat
        /\ content' = content \cup {Doc(u, run[u].part)}
    BY <2>1 DEF SaveChunk
  <2>3. run'[u].old = run[u].old
    BY <2>2, PartEffect
  <2>4. run[u].part = NumDocs /\ w_pc[u] = "save" /\ NumDocs \in Nat \ {0}
    BY <2>1, RefreshAssumption DEF SaveChunk, TypeInv, LocalsOf
  <2>5. 1 .. NumDocs = (1 .. run[u].part - 1) \cup {run[u].part}
    BY <2>4
  <2>6. DocsOf(l) = run[u].old \cup {Doc(u, p) : p \in 1 .. run[u].part - 1}
    BY <2>4 DEF ContentOf, Saved
  <2>7. {d \in content' : d.list = l}
          = run[u].old \cup {Doc(u, p) : p \in (1 .. run[u].part - 1) \cup {run[u].part}}
    BY <1>c, <2>2, <2>6 DEF DocsOf
  <2> QED BY <1>4, <1>a, <1>b, <2>3, <2>5, <2>7 DEF ContentOf, Saved
<1>5. CASE w_pc'[u] = "publishExc"
  <2>1. SaveExceptions(u)
    BY <1>5, StepPc
  <2>2. /\ run' = run /\ w_pc[u] = "saveExc"
        /\ content' = IF run[u].ver \in WithExceptions THEN content \cup {Doc(u, 0)} ELSE content
    BY <2>1 DEF SaveExceptions
  <2>3. DocsOf(l) = run[u].old \cup {Doc(u, p) : p \in 1 .. NumDocs}
    BY <2>2 DEF ContentOf, Saved
  <2>4. 0 .. NumDocs = (1 .. NumDocs) \cup {0}
    BY RefreshAssumption
  <2>5. {d \in content' : d.list = l} = run[u].old \cup {Doc(u, p) : p \in AllParts(u)}
    <3>1. CASE run[u].ver \in WithExceptions
      BY <1>c, <2>2, <2>3, <2>4, <3>1 DEF DocsOf, AllParts
    <3>2. CASE run[u].ver \notin WithExceptions
      BY <2>2, <2>3, <3>2 DEF DocsOf, AllParts
    <3> QED BY <3>1, <3>2
  <2> QED BY <1>5, <1>a, <1>b, <2>2, <2>5 DEF ContentOf, Saved, AllParts
<1>6. CASE w_pc'[u] \in {"stage", "swap", "cleanup"}
  <2>1. /\ w_pc[u] \in {"publishExc", "stage", "swap"} /\ content' = content
        /\ run'[u].ver = run[u].ver /\ run'[u].old = run[u].old
    <3>1. CASE PublishExceptions(u)
      BY <3>1 DEF PublishExceptions
    <3>2. CASE Stage(u)
      <4>1. CASE run' = run
        BY <3>2, <4>1 DEF Stage
      <4>2. CASE run' = [run EXCEPT ![u].part = run[u].part + 1]
        <5>1. run[u].part + 1 \in Nat
          BY <1>0 DEF Runs
        <5> QED BY <3>2, <4>2, <5>1, PartEffect DEF Stage
      <4> QED BY <3>2, <4>1, <4>2 DEF Stage
    <3>3. CASE Swap(u) /\ staging[u] # {}
      BY <3>3 DEF Swap, StagingKey
    <3> QED BY <1>6, <3>1, <3>2, <3>3, StepPc
  <2> QED BY <1>6, <1>a, <1>b, <2>1 DEF ContentOf, Saved, AllParts, DocsOf
<1>7. CASE w_pc'[u] = "metadata"
  <2>1. Cleanup(u)
    BY <1>7, StepPc
  <2>2. run' = run /\ w_pc[u] = "cleanup" /\ content' = content \ run[u].old
    BY <2>1 DEF Cleanup
  <2>3. DocsOf(l) = run[u].old \cup {Doc(u, p) : p \in AllParts(u)}
    BY <2>2 DEF ContentOf, Saved
  <2>4. \A p : Doc(u, p) \notin run[u].old
    BY DEF IdsInv, IdsOf, Doc
  <2>5. {d \in content' : d.list = l} = {Doc(u, p) : p \in AllParts(u)}
    BY <2>2, <2>3, <2>4 DEF DocsOf
  <2> QED BY <1>7, <1>a, <1>b, <2>2, <2>5 DEF ContentOf, Saved, AllParts
<1> QED BY <1>1, <1>2, <1>3, <1>4, <1>5, <1>6, <1>7 DEF RefreshSteps

LEMMA ContentStep ==
    ASSUME TypeInv, TypeInv', IdsInv, LeaseInv, ContentInv, [Next]_vars
    PROVE  ContentInv'
<1> SUFFICES ASSUME ~outlived', NEW u \in Workers, Carried(run[u].list)'
             PROVE  ContentOf(u)'
  BY DEF ContentInv
<1>0. ~outlived /\ LockInv /\ UNCHANGED carries
  BY LockStep, EnvChange
<1>1. CASE w_pc'[u] \notin RefreshSteps
  BY <1>1 DEF ContentOf, RefreshSteps
<1>2. CASE \E l \in Lists : StartRefresh(u, l) /\ lock[l] = None
  <2>1. w_pc'[u] = "check"
    BY <1>2 DEF StartRefresh, TypeInv, TypeOK
  <2> QED BY <2>1 DEF ContentOf
<1>3. CASE /\ w_pc'[u] \in RefreshSteps
           /\ ~ \E l \in Lists : StartRefresh(u, l) /\ lock[l] = None
  <2>1. /\ w_pc[u] \in RefreshSteps
        /\ run'[u].list = run[u].list /\ run'[u].id = run[u].id
    BY <1>3, InProgress
  <2>2. Carried(run[u].list)
    BY <1>0, <2>1 DEF Carried
  <2>3. ContentOf(u)
    BY <1>0, <2>2 DEF ContentInv
  <2>4. CASE w_pc'[u] = w_pc[u] /\ run'[u] = run[u]
    <3>1. DocsOf(run[u].list)' = DocsOf(run[u].list)
      BY <1>0, <2>1, <2>2, <2>4, DocsKept
    <3>2. (\A p : Doc(u, p)' = Doc(u, p)) /\ AllParts(u)' = AllParts(u)
      BY <2>4 DEF Doc, AllParts
    <3> QED BY <2>3, <2>4, <3>1, <3>2 DEF ContentOf, Saved
  <2>5. CASE Step(u) /\ ~Outlive(u)
    BY <1>0, <1>3, <2>1, <2>2, <2>3, <2>5, OwnContent
  <2>6. ASSUME ~(Step(u) /\ ~Outlive(u)) PROVE w_pc'[u] = w_pc[u] /\ run'[u] = run[u]
    <3>1. ASSUME NEW w \in Workers, Step(w), w # u PROVE w_pc'[u] = w_pc[u] /\ run'[u] = run[u]
      BY <3>1, OthersKept
    <3>2. CASE Outlive(u)
      BY <3>2 DEF Outlive
    <3>3. CASE \E l \in Lists : LoseKeys(l) \/ NewVersion(l) \/ Age(l)
      BY <3>3, SourceEffect
    <3>4. CASE UNCHANGED vars
      BY <3>4 DEF vars
    <3> QED BY <2>6, <3>1, <3>2, <3>3, <3>4, NextCases
  <2> QED BY <2>4, <2>5, <2>6
<1> QED BY <1>1, <1>2, <1>3

-----------------------------------------------------------------------------
(* The inductive invariant, and what follows from it. *)

RefreshInv ==
    /\ TypeInv /\ StagedInv /\ VersionInv /\ LeaseInv
    /\ ExceptionsNotOlder /\ IdsInv /\ ContentInv

LEMMA InitRefreshInv == Init => RefreshInv
<1> SUFFICES ASSUME Init PROVE RefreshInv
  OBVIOUS
<1>1. TypeInv
  BY InitTypeInv
<1>2. StagedInv
  BY DEF Init, StagedInv, LiveWhole, StagedOf
<1>3. VersionInv
  BY DEF Init, VersionInv, Downloaded, RefreshSteps
<1>4. LeaseInv
  BY DEF Init, LeaseInv, LockInv, OrderOf, Downloaded, RefreshSteps
<1>5. ExceptionsNotOlder
  BY DEF Init, ExceptionsNotOlder
<1>6. IdsInv
  BY NoRunType DEF Init, IdsInv, IdsOf, Unsaved
<1>7. ContentInv
  BY DEF Init, ContentInv, ContentOf
<1> QED BY <1>1, <1>2, <1>3, <1>4, <1>5, <1>6, <1>7 DEF RefreshInv

LEMMA RefreshInvStep == RefreshInv /\ [Next]_vars => RefreshInv'
<1> SUFFICES ASSUME RefreshInv, [Next]_vars PROVE RefreshInv'
  OBVIOUS
<1>1. TypeInv' /\ StagedInv'
  BY TypeInvStep, StagedInvStep DEF RefreshInv
<1>2. VersionInv' /\ LeaseInv' /\ ExceptionsNotOlder'
  BY <1>1, VersionStep, LeaseStep, ExceptionsStep DEF RefreshInv
<1>3. IdsInv' /\ ContentInv'
  BY <1>1, IdsStep, ContentStep DEF RefreshInv, IdsInv
<1> QED BY <1>1, <1>2, <1>3 DEF RefreshInv

THEOREM RefreshInvariant == Spec => []RefreshInv
  BY InitRefreshInv, RefreshInvStep, PTL DEF Spec

(* Documents, sets, locks and workers' locals keep their types. *)
THEOREM TypesKept == Spec => []TypeOK
<1>1. RefreshInv => TypeOK
  BY DEF RefreshInv, TypeInv
<1> QED BY <1>1, RefreshInvariant, PTL

(* The published set is always one whole upstream version (blocklists.go:286), *)
(* unless Redis has lost a staging set that was being filled.                  *)
THEOREM PublishedWhole == Spec => []LiveWhole
<1>1. RefreshInv => LiveWhole
  BY DEF RefreshInv, StagedInv
<1> QED BY <1>1, RefreshInvariant, PTL

(* A reader never sees new blocks paired with the previous run's exceptions    *)
(* (blocklists.go:278), as long as runs stay within their lease.               *)
THEOREM ExceptionsKeepUp == Spec => []ExceptionsNotOlder
<1>1. RefreshInv => ExceptionsNotOlder
  BY DEF RefreshInv
<1> QED BY <1>1, RefreshInvariant, PTL

(* When updated_at is written, Mongo has exactly the published copy of a list  *)
(* that every instance carries (blocklists.go:299).                            *)
THEOREM UpdatedAtClaim == Spec => UpdatedAtMeansComplete
<1>1. ASSUME RefreshInv, [Next]_vars,
             NEW w \in {u \in Workers : \A v \in Workers : run[u].list \in carries[v]},
             UpsertMetadata(w) /\ ~outlived
      PROVE  DocsOf(run[w].list) = {Doc(w, p) : p \in AllParts(w)}
  <2>1. w_pc[w] = "metadata" /\ Carried(run[w].list)
    BY <1>1 DEF UpsertMetadata, Carried
  <2>2. ContentOf(w)
    BY <1>1, <2>1 DEF RefreshInv, ContentInv
  <2> QED BY <2>1, <2>2 DEF ContentOf, Saved
<1>2. RefreshInv /\ [Next]_vars =>
        \A w \in {u \in Workers : \A v \in Workers : run[u].list \in carries[v]} :
            UpsertMetadata(w) /\ ~outlived =>
                LET r == run[w]
                IN  DocsOf(r.list) =
                        {Doc(w, p) : p \in IF r.ver \in WithExceptions
                                           THEN 0 .. NumDocs ELSE 1 .. NumDocs}
  BY <1>1 DEF AllParts
<1> QED BY <1>2, RefreshInvariant, PTL DEF Spec, UpdatedAtMeansComplete

(* No failed, rejected, crashed or overlapping refresh takes a published list  *)
(* away (redis.go:172, swapBlocklist): only a purge by an instance without it, *)
(* or a loss of Redis data.                                                    *)
THEOREM NeverUnpublished == Spec => NotUnpublished
<1>1. RefreshInv /\ [Next]_vars =>
        \A l \in Lists : live[l] # {} /\ live'[l] = {} =>
            \/ \E k \in Lists : LoseKeys(k)
            \/ \E w \in Workers : PurgeCache(w) /\ l \notin carries[w]
  <2> SUFFICES ASSUME RefreshInv, [Next]_vars, NEW l \in Lists, live[l] # {}, live'[l] = {}
               PROVE  \/ \E k \in Lists : LoseKeys(k)
                      \/ \E w \in Workers : PurgeCache(w) /\ l \notin carries[w]
    OBVIOUS
  <2>1. ASSUME NEW w \in Workers, PurgeCache(w), run[w].list = l PROVE l \notin carries[w]
    BY <2>1 DEF PurgeCache, RefreshInv, TypeInv, LocalsOf, Deleting, PurgeSteps
  <2> QED BY <2>1, LiveChange DEF RefreshInv
<1> QED BY <1>1, RefreshInvariant, PTL DEF Spec, NotUnpublished
=============================================================================
