------------------------- MODULE BlocklistRefresh --------------------------
(***************************************************************************)
(* The blocklists service on several nodes that share one MongoDB and one  *)
(* Redis: boot-time catch-up, stale purge, scheduled ticks, and for every  *)
(* source the refresh download -> gate -> Mongo content -> exception set   *)
(* -> staging set -> swap -> cleanup -> metadata.                          *)
(*                                                                         *)
(* A list is the set of its parts: a member <<v, p>> stands for the        *)
(* domains of batch p of upstream version v.  The lock is the lease that   *)
(* Dislock is proved to implement (a crashed holder's lease is free again; *)
(* the real key is, after its TTL).  Any call may fail and any process may *)
(* die between two steps, MaxFaults times in all.                          *)
(***************************************************************************)
EXTENDS Integers, FiniteSets

CONSTANTS
    Lists,              \* blocklist ids
    Workers,            \* service instances
    Deployments,        \* the ways sources can be given to the workers
    MaxVersion,         \* list versions are 1 .. MaxVersion
    Serves,             \* Serves[l]: the versions l's source serves over time
    Size,               \* Size[v]: validated domains in version v
    WithExceptions,     \* the versions that have exception domains
    NumDocs,            \* content documents of one list (100000 domains each)
    NumParts,           \* pipeline flushes that fill one staging set
    MaxIds,             \* runs whose documents can be told apart at a time
    ShrinkPercent,      \* UpdaterConfig.ShrinkThreshold, in percent
    MinSources,         \* UpdaterConfig.MinSources
    MaxStalePurge,      \* UpdaterConfig.MaxStalePurge
    MaxFaults,          \* bound on failures, crashes and lost keys
    None                \* no worker, no list

Versions == 1 .. MaxVersion
Parts == 1 .. NumParts
RunIds == 1 .. MaxIds               \* stands for a run's ObjectIDs, 0 = none

ASSUME RefreshAssumption ==
    /\ MaxVersion \in Nat \ {0} /\ NumParts \in Nat \ {0}
    /\ NumDocs \in Nat \ {0} /\ MaxIds \in Nat \ {0}
    /\ Deployments \subseteq [Workers -> SUBSET Lists]
    /\ \A v \in Versions : Size[v] \in Nat
    /\ WithExceptions \subseteq Versions /\ ShrinkPercent \in 0 .. 100
    /\ MinSources \in Nat \ {0} /\ MaxStalePurge \in Nat \ {0}
    /\ \A l \in Lists : Serves[l] \subseteq Versions /\ Serves[l] # {}
    /\ MaxFaults \in Nat
    /\ None \notin Workers \cup Lists

VARIABLES
    carries,            \* carries[w]: the sources in w's directory
    upstream,           \* upstream[l]: version the source serves
    content,            \* Mongo: content documents
    meta,               \* Mongo: meta[l].ver (0 = no document) and whether
                        \* updated_at is within half the schedule interval
    live,               \* Redis: members of blocklist:<l>
    exc,                \* Redis: version of blocklist:<l>:exceptions, 0 = no key
    staging,            \* Redis: members of the staging keys
    lock,               \* lock[l]: the worker that holds the source's lease
    purgeLock,          \* the worker that holds the purge lease
    w_pc,               \* w_pc[w]: next step of worker w
    run,                \* run[w]: locals of the refresh in progress
    due,                \* due[w]: sources the boot-time catch-up still has to try
    stale,              \* stale[w]: staleIDs still to purge
    booted,             \* booted[w]: catch-up and purge are over, cron runs
    outlived,           \* some run has outlived its lease
    torn,               \* Redis has lost a staging set that was being filled
    faults              \* failures so far

stores == <<content, meta, live, exc>>
env == <<upstream, carries>>
history == <<outlived, torn>>
vars == <<env, content, meta, live, exc, staging, lock, purgeLock, w_pc,
          run, due, stale, booted, history, faults>>

Docs == [list : Lists, id : RunIds, part : 0 .. NumDocs]
Runs == [list : Lists \cup {None}, id : 0 .. MaxIds, ver : 0 .. MaxVersion,
         old : SUBSET Docs, part : Nat]
NoRun == [list |-> None, id |-> 0, ver |-> 0, old |-> {}, part |-> 0]
NoMeta == [ver |-> 0, fresh |-> FALSE]
Members(v) == {<<v, p>> : p \in Parts}

RefreshSteps == {"check", "download", "content", "gate", "save", "saveExc",
                 "publishExc", "stage", "swap", "cleanup", "metadata"}
PurgeSteps == {"purgeRead", "purgeMeta", "purgeContent", "purgeCache"}

Doc(w, p) == [list |-> run[w].list, id |-> run[w].id, part |-> p]
DocsOf(l) == {d \in content : d.list = l}

\* primitive.NewObjectID: not in use anywhere
FreshId(r) ==
    /\ \A d \in content : d.id # r
    /\ \A w \in Workers : run[w].id # r /\ \A d \in run[w].old : d.id # r

\* int(float64(prev) * (1 - ShrinkThreshold))
MinAllowed(prev) == (prev * (100 - ShrinkPercent)) \div 100

\* checkValidationGate; prev is the version in the metadata, 0 for none
GatePasses(prev, v) ==
    /\ Size[v] > 0
    /\ prev # 0 /\ Size[prev] > 0 => Size[v] >= MinAllowed(Size[prev])

\* Mutant: trusts updated_at alone
IsFreshMeta(l) == meta[l].fresh

\* isFresh: recent metadata, and both live sets it implies still exist
IsFresh(l) ==
    /\ meta[l].fresh
    /\ live[l] # {}
    /\ meta[l].ver \in WithExceptions => exc[l] # 0

-----------------------------------------------------------------------------
(* Leaving a refresh or a purge: deferred Unlock, locals gone. *)

ReleaseAll(w) ==
    /\ lock' = [l \in Lists |-> IF lock[l] = w THEN None ELSE lock[l]]
    /\ purgeLock' = IF purgeLock = w THEN None ELSE purgeLock

EndRun(w) ==
    /\ w_pc' = [w_pc EXCEPT ![w] = "idle"]
    /\ run' = [run EXCEPT ![w] = NoRun]
    /\ ReleaseAll(w)

Goto(w, pc) == w_pc' = [w_pc EXCEPT ![w] = pc]

\* The name of the run's staging key: uuid.NewString per run
StagingKeyFixed(w) == None          \* Mutant: one fixed name for everyone
StagingKey(w) == w

\* refreshWithLock (catch-up, in any order of the sources) and
\* gocronLocker.Lock (a tick)
StartRefresh(w, l) ==
    /\ w_pc[w] = "idle" /\ l \in carries[w]
    /\ IF booted[w] THEN due' = due
       ELSE l \in due[w] /\ due' = [due EXCEPT ![w] = @ \ {l}]
    /\ IF lock[l] = None
       THEN /\ \E r \in RunIds :
                /\ FreshId(r) /\ \A q \in 1 .. r - 1 : ~FreshId(q)
                /\ run' = [run EXCEPT ![w] = [NoRun EXCEPT !.list = l, !.id = r]]
            /\ lock' = [lock EXCEPT ![l] = w]
            /\ Goto(w, "check")
       ELSE UNCHANGED <<run, lock, w_pc>>           \* lock_held: skipped
    /\ UNCHANGED <<env, stores, staging, purgeLock, stale, booted, history, faults>>

\* RefreshDue: skip a list that is fresh, else ProcessBlocklist
Check(w) ==
    /\ w_pc[w] = "check"
    /\ IF IsFresh(run[w].list)
       THEN EndRun(w)
       ELSE Goto(w, "download") /\ UNCHANGED <<run, lock, purgeLock>>
    /\ UNCHANGED <<env, stores, staging, due, stale, booted, history, faults>>

\* Downloader.Fetch, ExtractMetadata, Convert
Download(w) ==
    /\ w_pc[w] = "download"
    /\ run' = [run EXCEPT ![w].ver = upstream[run[w].list]]
    /\ Goto(w, "content")
    /\ UNCHANGED <<env, stores, staging, lock, purgeLock, due, stale,
                   booted, history, faults>>

\* Mutant: the snapshot leaves the exceptions document out
OldChunks(l) == {d \in DocsOf(l) : d.part # 0}

\* Store.GetContent: the documents this run will replace
OldDocs(l) == DocsOf(l)

GetContent(w) ==
    /\ w_pc[w] = "content"
    /\ run' = [run EXCEPT ![w].old = OldDocs(run[w].list)]
    /\ Goto(w, "gate")
    /\ UNCHANGED <<env, stores, staging, lock, purgeLock, due, stale,
                   booted, history, faults>>

\* Store.GetMetadata, scanValidatedDomains, checkValidationGate
Gate(w) ==
    /\ w_pc[w] = "gate"
    /\ IF GatePasses(meta[run[w].list].ver, run[w].ver)
       THEN /\ run' = [run EXCEPT ![w].part = 1]
            /\ Goto(w, "save") /\ UNCHANGED <<lock, purgeLock>>
       ELSE EndRun(w)
    /\ UNCHANGED <<env, stores, staging, due, stale, booted, history, faults>>

\* saveChunk, one document at a time
SaveChunk(w) ==
    /\ w_pc[w] = "save"
    /\ content' = content \cup {Doc(w, run[w].part)}
    /\ IF run[w].part < NumDocs
       THEN run' = [run EXCEPT ![w].part = @ + 1] /\ UNCHANGED w_pc
       ELSE run' = [run EXCEPT ![w].part = 1] /\ Goto(w, "saveExc")
    /\ UNCHANGED <<env, meta, live, exc, staging, lock, purgeLock, due,
                   stale, booted, history, faults>>

\* The exception domains are one more document (part 0)
SaveExceptions(w) ==
    /\ w_pc[w] = "saveExc"
    /\ content' = IF run[w].ver \in WithExceptions
                  THEN content \cup {Doc(w, 0)} ELSE content
    /\ Goto(w, "publishExc")
    /\ UNCHANGED <<env, meta, live, exc, staging, lock, purgeLock, run,
                   due, stale, booted, history, faults>>

\* Mutant: nothing to publish, so the key is left alone
PublishedExcKept(l, v) == IF v \in WithExceptions THEN v ELSE exc[l]

\* CreateOrUpdateBlocklistExceptions: stage and swap, or unlink
PublishedExc(l, v) == IF v \in WithExceptions THEN v ELSE 0

PublishExceptions(w) ==
    /\ w_pc[w] = "publishExc"
    /\ exc' = [exc EXCEPT ![run[w].list] = PublishedExc(run[w].list, run[w].ver)]
    /\ staging' = [staging EXCEPT ![w] = {}]        \* a new staging key
    /\ Goto(w, "stage")
    /\ UNCHANGED <<env, content, meta, live, lock, purgeLock, run, due,
                   stale, booted, history, faults>>

\* populateStaging, one pipeline flush at a time
Stage(w) ==
    /\ w_pc[w] = "stage"
    /\ staging' = [staging EXCEPT
            ![StagingKey(w)] = @ \cup {<<run[w].ver, run[w].part>>}]
    /\ IF run[w].part < NumParts
       THEN run' = [run EXCEPT ![w].part = @ + 1] /\ UNCHANGED w_pc
       ELSE run' = run /\ Goto(w, "swap")
    /\ UNCHANGED <<env, stores, lock, purgeLock, due, stale, booted, history, faults>>

\* swapBlocklist: RENAME fails when the staging key is gone, and then
\* leaves the live key alone
Swap(w) ==
    /\ w_pc[w] = "swap"
    /\ staging' = [staging EXCEPT ![StagingKey(w)] = {}]
    /\ IF staging[StagingKey(w)] # {}
       THEN /\ live' = [live EXCEPT ![run[w].list] = staging[StagingKey(w)]]
            /\ Goto(w, "cleanup")
            /\ UNCHANGED <<run, lock, purgeLock>>
       ELSE live' = live /\ EndRun(w)
    /\ UNCHANGED <<env, content, meta, exc, due, stale, booted, history, faults>>

\* Store.Delete of the documents found by GetContent
Cleanup(w) ==
    /\ w_pc[w] = "cleanup"
    /\ content' = content \ run[w].old
    /\ Goto(w, "metadata")
    /\ UNCHANGED <<env, meta, live, exc, staging, lock, purgeLock, run,
                   due, stale, booted, history, faults>>

\* Store.UpsertMetadata with the new updated_at; then the deferred Unlock
UpsertMetadata(w) ==
    /\ w_pc[w] = "metadata"
    /\ meta' = [meta EXCEPT ![run[w].list] = [ver |-> run[w].ver, fresh |-> TRUE]]
    /\ EndRun(w)
    /\ UNCHANGED <<env, content, live, exc, staging, due, stale, booted,
                   history, faults>>

-----------------------------------------------------------------------------
(* PurgeStaleCoordinated, once per boot, after the catch-up. *)

StartPurge(w) ==
    /\ w_pc[w] = "idle" /\ ~booted[w] /\ due[w] = {}
    /\ booted' = [booted EXCEPT ![w] = TRUE]
    /\ IF purgeLock = None /\ Cardinality(carries[w]) >= MinSources
       THEN purgeLock' = w /\ Goto(w, "purgeRead")
       ELSE UNCHANGED <<purgeLock, w_pc>>
    /\ UNCHANGED <<env, stores, staging, lock, run, due, stale, history, faults>>

\* Mutant: a list this instance carries is purged too
StaleListsAll(w) == {l \in Lists : meta[l].ver # 0}

\* The lists in the database that are not among this instance's sources
StaleLists(w) == {l \in Lists : meta[l].ver # 0 /\ l \notin carries[w]}

PurgeRead(w) ==
    /\ w_pc[w] = "purgeRead"
    /\ IF StaleLists(w) # {} /\ Cardinality(StaleLists(w)) <= MaxStalePurge
       THEN /\ stale' = [stale EXCEPT ![w] = StaleLists(w)]
            /\ \E l \in StaleLists(w) :
                run' = [run EXCEPT ![w] = [NoRun EXCEPT !.list = l]]
            /\ Goto(w, "purgeMeta")
            /\ UNCHANGED <<lock, purgeLock>>
       ELSE EndRun(w) /\ UNCHANGED stale
    /\ UNCHANGED <<env, stores, staging, due, booted, history, faults>>

PurgeMeta(w) ==
    /\ w_pc[w] = "purgeMeta"
    /\ meta' = [meta EXCEPT ![run[w].list] = NoMeta]
    /\ Goto(w, "purgeContent")
    /\ UNCHANGED <<env, content, live, exc, staging, lock, purgeLock, run,
                   due, stale, booted, history, faults>>

PurgeContent(w) ==
    /\ w_pc[w] = "purgeContent"
    /\ content' = content \ DocsOf(run[w].list)
    /\ Goto(w, "purgeCache")
    /\ UNCHANGED <<env, meta, live, exc, staging, lock, purgeLock, run,
                   due, stale, booted, history, faults>>

\* DeleteBlocklist, then the next stale list
NextStale(w) ==
    LET rest == stale[w] \ {run[w].list}
    IN  /\ stale' = [stale EXCEPT ![w] = rest]
        /\ IF rest = {} THEN EndRun(w)
           ELSE /\ \E l \in rest :
                    run' = [run EXCEPT ![w] = [NoRun EXCEPT !.list = l]]
                /\ Goto(w, "purgeMeta")
                /\ UNCHANGED <<lock, purgeLock>>

PurgeCache(w) ==
    /\ w_pc[w] = "purgeCache"
    /\ live' = [live EXCEPT ![run[w].list] = {}]
    /\ exc' = [exc EXCEPT ![run[w].list] = 0]
    /\ NextStale(w)
    /\ UNCHANGED <<env, content, meta, staging, due, booted, history, faults>>

-----------------------------------------------------------------------------
(* What goes wrong. *)

\* The next call of a refresh fails, or its context deadline has passed; a
\* call that took effect although it failed is Fail after its step.
\* createOrUpdateSet discards the staging key.
Fail(w) ==
    /\ faults < MaxFaults /\ faults' = faults + 1
    /\ w_pc[w] \in RefreshSteps
    /\ staging' = [staging EXCEPT ![StagingKey(w)] = {}]
    /\ EndRun(w)
    /\ UNCHANGED <<env, stores, due, stale, booted, history>>

\* A purge step that fails is logged and the purge goes on
PurgeFail(w) ==
    /\ faults < MaxFaults /\ faults' = faults + 1
    /\ \/ w_pc[w] = "purgeRead" /\ EndRun(w) /\ UNCHANGED stale
       \/ /\ w_pc[w] = "purgeMeta" /\ Goto(w, "purgeContent")
          /\ UNCHANGED <<run, lock, purgeLock, stale>>
       \/ /\ w_pc[w] = "purgeContent" /\ Goto(w, "purgeCache")
          /\ UNCHANGED <<run, lock, purgeLock, stale>>
       \/ w_pc[w] = "purgeCache" /\ NextStale(w)
    /\ UNCHANGED <<env, stores, staging, due, booted, history>>

\* The process dies and starts again with its boot sequence
Crash(w) ==
    /\ faults < MaxFaults /\ faults' = faults + 1
    /\ EndRun(w)
    /\ due' = [due EXCEPT ![w] = carries[w]]
    /\ stale' = [stale EXCEPT ![w] = {}]
    /\ booted' = [booted EXCEPT ![w] = FALSE]
    /\ UNCHANGED <<env, stores, staging, history>>

\* Redis loses keys: a flush, or a failover to a lagging replica
LoseKeys(l) ==
    /\ faults < MaxFaults /\ faults' = faults + 1
    /\ torn' = (torn \/ \E w \in Workers : w_pc[w] = "stage" /\ staging[StagingKey(w)] # {})
    /\ \/ live' = [live EXCEPT ![l] = {}] /\ exc' = [exc EXCEPT ![l] = 0]
       \/ live' = live /\ exc' = [exc EXCEPT ![l] = 0]
    /\ staging' = [k \in DOMAIN staging |-> {}]
    /\ UNCHANGED <<env, content, meta, lock, purgeLock, w_pc, run, due,
                   stale, booted, outlived>>

\* A run goes on after its lease (a paused process, or a failover of Redis
\* that loses the lock key): from here on two may refresh the same list
Outlive(w) ==
    /\ faults < MaxFaults /\ faults' = faults + 1
    /\ w_pc[w] \in RefreshSteps
    /\ ReleaseAll(w) /\ outlived' = TRUE
    /\ UNCHANGED <<env, stores, staging, w_pc, run, due, stale, booted, torn>>

\* The source publishes a new version
NewVersion(l) ==
    /\ \E v \in Serves[l] :
        v > upstream[l] /\ upstream' = [upstream EXCEPT ![l] = v]
    /\ UNCHANGED <<carries, stores, staging, lock, purgeLock, w_pc, run, due,
                   stale, booted, history, faults>>

\* Half the schedule interval has passed since updated_at
Age(l) ==
    /\ meta[l].fresh
    /\ meta' = [meta EXCEPT ![l].fresh = FALSE]
    /\ UNCHANGED <<env, content, live, exc, staging, lock, purgeLock,
                   w_pc, run, due, stale, booted, history, faults>>

Init ==
    /\ carries \in Deployments
    /\ upstream \in [Lists -> Versions]            \* the first version it serves
    /\ \A l \in Lists : upstream[l] \in Serves[l] /\ \A v \in Serves[l] : upstream[l] <= v
    /\ content = {}
    /\ meta = [l \in Lists |-> NoMeta]
    /\ live = [l \in Lists |-> {}]
    /\ exc = [l \in Lists |-> 0]
    /\ staging = [k \in Workers \cup {None} |-> {}]
    /\ lock = [l \in Lists |-> None]
    /\ purgeLock = None
    /\ w_pc = [w \in Workers |-> "idle"]
    /\ run = [w \in Workers |-> NoRun]
    /\ due = carries
    /\ stale = [w \in Workers |-> {}]
    /\ booted = [w \in Workers |-> FALSE]
    /\ outlived = FALSE /\ torn = FALSE
    /\ faults = 0

Work(w) ==
    \/ Check(w) \/ Download(w) \/ GetContent(w) \/ Gate(w) \/ SaveChunk(w)
    \/ SaveExceptions(w) \/ PublishExceptions(w) \/ Stage(w) \/ Swap(w)
    \/ Cleanup(w) \/ UpsertMetadata(w) \/ StartPurge(w) \/ PurgeRead(w)
    \/ PurgeMeta(w) \/ PurgeContent(w) \/ PurgeCache(w)

Next ==
    \/ \E w \in Workers :
        \/ Work(w) \/ Fail(w) \/ PurgeFail(w) \/ Crash(w) \/ Outlive(w)
        \/ \E l \in Lists : StartRefresh(w, l)
    \/ \E l \in Lists : LoseKeys(l) \/ NewVersion(l) \/ Age(l)

Spec == Init /\ [][Next]_vars

(***************************************************************************)
(* Every step of a worker ends (context deadlines), and every source's     *)
(* tick comes again and does not lose the lock for ever.  Nothing is       *)
(* assumed about Age: metadata may stay fresh.                             *)
(***************************************************************************)
FairSpec ==
    /\ Spec
    /\ \A w \in Workers : WF_vars(Work(w))
    /\ \A w \in Workers : \A l \in Lists :
        SF_vars(StartRefresh(w, l) /\ run'[w].list = l)

-----------------------------------------------------------------------------
\* The documents, sets, locks and workers' locals have their types.
TypeOK ==
    /\ carries \in Deployments
    /\ upstream \in [Lists -> Versions]
    /\ content \subseteq Docs
    /\ meta \in [Lists -> [ver : 0 .. MaxVersion, fresh : BOOLEAN]]
    /\ live \in [Lists -> SUBSET (Versions \X Parts)]
    /\ exc \in [Lists -> 0 .. MaxVersion]
    /\ staging \in [Workers \cup {None} -> SUBSET (Versions \X Parts)]
    /\ lock \in [Lists -> Workers \cup {None}]
    /\ purgeLock \in Workers \cup {None}
    /\ w_pc \in [Workers -> {"idle"} \cup RefreshSteps \cup PurgeSteps]
    /\ run \in [Workers -> Runs]
    /\ due \in [Workers -> SUBSET Lists] /\ stale \in [Workers -> SUBSET Lists]
    /\ booted \in [Workers -> BOOLEAN] /\ outlived \in BOOLEAN /\ torn \in BOOLEAN
    /\ faults \in 0 .. MaxFaults

(***************************************************************************)
(* blocklists.go:286, "Publish the SAME validated domains to the Redis set *)
(* the proxy reads": the set is always one whole upstream version, never a *)
(* part of one or a mixture of two, even when two instances refresh the    *)
(* same source at once, and whatever crashes half way.  Only when Redis    *)
(* loses a staging key between two flushes, the next one creates it anew   *)
(* and the rest of the list is published as if it were all of it.          *)
(***************************************************************************)
LiveWhole ==
    ~torn => \A l \in Lists : live[l] = {} \/ \E v \in Versions : live[l] = Members(v)

(***************************************************************************)
(* blocklists.go:278-280: "a reader never sees new blocks paired with the  *)
(* previous run's exception set": whatever fails between the two           *)
(* publications, an exception set beside version v is not older than v.    *)
(* The order protects it as long as runs stay within their lease.          *)
(***************************************************************************)
ExceptionsNotOlder ==
    ~outlived => \A l \in Lists : exc[l] # 0 => \A m \in live[l] : exc[l] >= m[1]

(***************************************************************************)
(* blocklists.go:299-303: "updated_at asserts the refresh fully            *)
(* completed": when it is written, Mongo has exactly one copy of the list, *)
(* whatever earlier runs left behind, and it is the copy just published,   *)
(* if every instance carries the list.  During a rollout the purge of an   *)
(* instance without it can delete the documents of the run in progress.    *)
(***************************************************************************)
UpdatedAtMeansComplete ==
    [][\A w \in {u \in Workers : \A v \in Workers : run[u].list \in carries[v]} :
        UpsertMetadata(w) /\ ~outlived =>
        LET r == run[w]
        IN  DocsOf(r.list) =
                {Doc(w, p) : p \in IF r.ver \in WithExceptions
                                   THEN 0 .. NumDocs ELSE 1 .. NumDocs}]_vars

(***************************************************************************)
(* Only a purge by an instance that does not carry the list, or a loss of  *)
(* Redis data, takes a published list away: no failed, rejected, crashed   *)
(* or overlapping refresh does.                                            *)
(***************************************************************************)
NotUnpublished ==
    [][\A l \in Lists : live[l] # {} /\ live'[l] = {} =>
        \/ \E k \in Lists : LoseKeys(k)
        \/ \E w \in Workers : PurgeCache(w) /\ l \notin carries[w]]_vars

(***************************************************************************)
(* blocklists/README.md, "a restart still re-heals lost cache data despite *)
(* fresh metadata": once failures and new versions cease, every list that  *)
(* some instance carries, and whose source serves something, is published  *)
(* with its exceptions, and stays so, although another instance purges it  *)
(* and nobody ever finds its metadata outdated.  A run that outlived its   *)
(* lease may publish an older version beside the newer one's exceptions;   *)
(* that is healed only when the metadata ages.                             *)
(***************************************************************************)
Served(l) ==
    \E v \in Versions : live[l] = Members(v) /\ (v \in WithExceptions => exc[l] # 0)

Healed ==
    \A l \in Lists :
        (\E w \in Workers : l \in carries[w]) /\ (\A v \in Serves[l] : Size[v] > 0)
            => <>[](Served(l) \/ outlived \/ torn)

=============================================================================
