-------------------------- MODULE SettingsAdmission --------------------------
(***************************************************************************)
(* How the DNS proxy obtains a profile's settings for a query:             *)
(* proxy/server/server.go (loadProfileSettings, settingsUnavailable),      *)
(* proxy/internal/settingscache/cache.go (Cache) and the two round-trips   *)
(* of proxy/cache/redis.go (GetProfileSettingsBatch).                      *)
(*                                                                         *)
(* Requests run concurrently, one goroutine each. The settings store is    *)
(* written by the API, loses connections and answers late. A settings      *)
(* value is represented by the number of the write that stored it: the     *)
(* first round-trip yields the version `base' of the hashes, lists and     *)
(* rule set, the second the version `rules' of the custom-rule hashes, 0   *)
(* if some part could not be read. Version 0 is "nothing". Time is in whole units. A response leaves the   *)
(* moment it is ready, so time does not pass while a request is "done",    *)
(* and a fetch is over, one way or another, by its deadline.               *)
(***************************************************************************)
EXTENDS Integers, Sequences, FiniteSets

CONSTANTS
  Profile,        \* profile ids
  NoProfile,      \* the id of a goroutine that serves nothing
  Request,        \* concurrent request goroutines
  TTL,            \* PROFILE_SETTINGS_CACHE_TTL; 0 disables expiry
  Deadline,       \* filter.StoreDeadline, the limit on one fetch
  ProbeInterval,  \* settingscache.DefaultProbeInterval
  Size,           \* LRU capacity
  MaxTime,        \* bound on the clock
  OutageHorizon,  \* bound: the store misbehaves only before this instant
  MaxWrites,      \* bound on the versions of one profile
  Written         \* bound: the profiles the API writes

ASSUME ConstantsAssumption ==
  /\ NoProfile \notin Profile
  /\ TTL \in Nat /\ Deadline \in Nat /\ ProbeInterval \in Nat \ {0}
  /\ Size \in Nat \ {0}
  /\ MaxTime \in Nat /\ OutageHorizon \in Nat /\ MaxWrites \in Nat \ {0}
  /\ Written \subseteq Profile

VARIABLES
  clock,     \* time.Now; starts at 1 because retryAt 0 means healthy
  up,        \* can the settings store be reached
  ver,       \* ver[p]: the version of p's settings the store holds
  writtenAt, \* writtenAt[p][v]: when version v was written
  live,      \* live[p][v]: does version v hold settings, or is p absent
  entries,   \* entries[p]: Cache.entries, NoEntry when absent
  newer,     \* newer[p]: the cached ids used more recently than p
  bytes,     \* Cache.bytes
  retryAt,   \* Cache.retryAt; 0 means the store is believed healthy
  req,       \* req[r]: locals of the goroutine serving request r
  probes     \* the last two probe grants since the store was last healthy

vars == <<clock, up, ver, writtenAt, live, entries, newer, bytes, retryAt, req, probes>>

NoEntry == [base |-> 0, rules |-> 0, fetchedAt |-> 0]
Entry == [base : Nat, rules : Nat, fetchedAt : Nat]
Idle == [pc |-> "idle", prof |-> NoProfile, cached |-> NoEntry, state |-> "Miss",
         loaded |-> 0, now |-> 0, started |-> 0, base |-> 0, rules |-> 0,
         err |-> "none", out |-> "none"]

\* Numbers of the writes of one profile's settings.
Version == 1..MaxWrites
\* "gate", "cas": inside FetchAllowed; "round1", "round2": waiting for Redis;
\* "read": GetProfileSettingsBatch has returned; "done": the query's fate is known.
Pc == {"idle", "gate", "cas", "round1", "round2", "read", "done"}
State == {"Miss", "Fresh", "Stale"}
\* What GetProfileSettingsBatch reports: a failed read of the required privacy
\* group, or of some other group (ProfileSettings.StoreError).
Err == {"none", "privacy", "group"}
Outcome == {"none", "fresh", "stale", "fetched", "servfail", "drop"}

Cached == {p \in Profile : entries[p] # NoEntry}

\* A stand-in that differs from version to version.
estimateBytes(e) == IF e = NoEntry THEN 0 ELSE 10 + e.base

Init ==
  /\ clock = 1
  /\ up = TRUE
  /\ ver = [p \in Profile |-> 1]
  /\ writtenAt = [p \in Profile |-> [v \in Version |-> 0]]
  /\ live = [p \in Profile |-> [v \in Version |-> v = 1]]
  /\ entries = [p \in Profile |-> NoEntry]
  /\ newer = [p \in Profile |-> {}]
  /\ bytes = 0
  /\ retryAt = 0
  /\ req = [r \in Request |-> Idle]
  /\ probes = <<>>

-----------------------------------------------------------------------------
(* The environment: time, the API's writes and the connection to the store. *)

\* A goroutine in "round1" or "round2" is inside fetchCtx.
InFetch(r) == req[r].pc \in {"round1", "round2"}

\* Time passes; an outage may begin, and is over by the horizon.
Tick ==
  /\ clock < MaxTime
  /\ \A r \in Request : /\ req[r].pc \notin {"done", "read"}
                        /\ InFetch(r) => clock < req[r].started + Deadline
  /\ clock' = clock + 1
  /\ \/ clock' < OutageHorizon /\ up' = FALSE
     \/ clock' < OutageHorizon /\ up' = up
     \/ clock' >= OutageHorizon /\ up' = TRUE
  /\ UNCHANGED <<ver, writtenAt, live, entries, newer, bytes, retryAt, req, probes>>

\* The API stores new settings for p, or removes them (profile or account
\* deletion, DNS cutoff of an inactive subscription).
StoreWrite(p, present) ==
  /\ ver[p] + 1 \in Version
  /\ present \/ live[p][ver[p]]
  /\ ver' = [ver EXCEPT ![p] = @ + 1]
  /\ writtenAt' = [writtenAt EXCEPT ![p][ver[p] + 1] = clock]
  /\ live' = [live EXCEPT ![p][ver[p] + 1] = present]
  /\ UNCHANGED <<clock, up, entries, newer, bytes, retryAt, req, probes>>

Reconnect ==
  /\ ~up /\ up' = TRUE
  /\ UNCHANGED <<clock, ver, writtenAt, live, entries, newer, bytes, retryAt, req, probes>>

-----------------------------------------------------------------------------
(* settingscache.Cache *)

\* Mutant: an entry exactly one TTL old still counts as fresh.
StateOfLate(e) ==
  IF e = NoEntry THEN "Miss"
  ELSE IF TTL > 0 /\ clock - e.fetchedAt > TTL THEN "Stale"
  ELSE "Fresh"

\* What Get reports for an entry at this instant.
StateOf(e) ==
  IF e = NoEntry THEN "Miss"
  ELSE IF TTL > 0 /\ clock - e.fetchedAt >= TTL THEN "Stale"
  ELSE "Fresh"

\* p becomes the most recently used of the ids S.
Touch(p, S) ==
  newer' = [q \in Profile |-> IF q = p \/ q \notin S THEN {}
                              ELSE (newer[q] \cap S) \cup {p}]

\* The capacity victim when p is added: the least recently used other entry.
Victims(p) ==
  IF p \in Cached \/ Cardinality(Cached) < Size THEN {}
  ELSE {q \in Cached : newer[q] = Cached \ {q}}

\* Stores a successful fetch; fetchedAt is the time of the Put, not of the read.
Put(p, e) ==
  LET out == Victims(p) IN
  /\ entries' = [q \in Profile |-> IF q = p THEN e
                                   ELSE IF q \in out THEN NoEntry ELSE entries[q]]
  /\ Touch(p, (Cached \ out) \cup {p})
  /\ bytes' = LET left == bytes - estimateBytes(entries[p]) + estimateBytes(e)
              IN  IF out = {} THEN left
                  ELSE left - estimateBytes(entries[CHOOSE q \in out : TRUE])

\* Forgets a profile.
Evict(p) ==
  /\ entries' = [entries EXCEPT ![p] = NoEntry]
  /\ newer' = [q \in Profile |-> IF q = p THEN {} ELSE newer[q] \ {p}]
  /\ bytes' = bytes - estimateBytes(entries[p])

\* The failure mark is set one interval ahead, whoever set it before.
StoreFailed == retryAt' = clock + ProbeInterval /\ UNCHANGED probes
\* Mutant: the mark is left to expire.
NotRecovered == UNCHANGED <<retryAt, probes>>

\* The failure mark is cleared.
StoreRecovered == retryAt' = 0 /\ probes' = <<>>

-----------------------------------------------------------------------------
(* loadProfileSettings *)

\* The query's fate: settings to continue with (version 0 when there are none),
\* a SERVFAIL, or a drop.
Done(l, out, base, rules) ==
  [Idle EXCEPT !.pc = "done", !.prof = l.prof, !.out = out,
               !.base = base, !.rules = rules]

\* The goroutine's last-known-good settings, or SERVFAIL when it has none.
settingsUnavailable(l) ==
  IF l.state = "Stale" THEN Done(l, "stale", l.cached.base, l.cached.rules)
  ELSE Done(l, "servfail", 0, 0)

\* A query for p arrives and looks the cache up. Responses that are ready leave
\* first: handing one over commutes with every other step.
Get(r, p) ==
  LET e == entries[p]  s == StateOf(e)
      l == [Idle EXCEPT !.prof = p, !.cached = e, !.state = s] IN
  /\ req[r].pc = "idle" /\ \A o \in Request : req[o].pc # "done"
  /\ req' = [req EXCEPT ![r] =
       IF s = "Fresh" THEN Done(l, "fresh", e.base, e.rules)
       ELSE [l EXCEPT !.pc = "gate"]]
  /\ IF e = NoEntry THEN UNCHANGED newer ELSE Touch(p, Cached)
  /\ UNCHANGED <<clock, up, ver, writtenAt, live, entries, bytes, retryAt, probes>>

StartFetch(l) == [l EXCEPT !.pc = "round1", !.started = clock,
                        !.loaded = 0, !.now = 0]

\* FetchAllowed up to the compare-and-swap.
FetchAllowedLoad(r) ==
  LET l == req[r] IN
  /\ l.pc = "gate"
  /\ req' = [req EXCEPT ![r] =
       IF retryAt = 0 THEN StartFetch(l)
       ELSE IF clock < retryAt THEN settingsUnavailable(l)
       ELSE [l EXCEPT !.pc = "cas", !.loaded = retryAt, !.now = clock]]
  /\ UNCHANGED <<clock, up, ver, writtenAt, live, entries, newer, bytes, retryAt, probes>>

\* The last two probe grants, after one more at instant t.
Granted(t) == IF Len(probes) = 0 THEN <<t>> ELSE <<probes[Len(probes)], t>>

\* Mutant: a plain store instead of the compare-and-swap.
FetchAllowedStore(r) ==
  LET l == req[r] IN
  /\ l.pc = "cas"
  /\ retryAt' = l.now + ProbeInterval
  /\ probes' = Granted(l.now)
  /\ req' = [req EXCEPT ![r] = StartFetch(l)]
  /\ UNCHANGED <<clock, up, ver, writtenAt, live, entries, newer, bytes>>

\* FetchAllowed's compare-and-swap: one of the callers that saw the same
\* expired mark becomes the probe, the others are refused.
FetchAllowedSwap(r) ==
  LET l == req[r] IN
  /\ l.pc = "cas"
  /\ IF retryAt = l.loaded
     THEN /\ retryAt' = l.now + ProbeInterval
          /\ probes' = Granted(l.now)
          /\ req' = [req EXCEPT ![r] = StartFetch(l)]
     ELSE /\ req' = [req EXCEPT ![r] = settingsUnavailable(l)]
          /\ UNCHANGED <<retryAt, probes>>
  /\ UNCHANGED <<clock, up, ver, writtenAt, live, entries, newer, bytes>>

\* First round-trip: hashes, lists and the rule set, at one instant. With no
\* rules there is no second one. err: a command got an error reply.
Round1(r, rules, err) ==
  LET l == req[r] v == ver[l.prof] IN
  /\ l.pc = "round1" /\ up
  /\ err # "none" => clock < OutageHorizon
  /\ req' = [req EXCEPT ![r] = [l EXCEPT !.pc = IF rules THEN "round2" ELSE "read",
                                         !.base = v, !.err = err,
                                         !.rules = IF err = "none" THEN v ELSE 0]]
  /\ UNCHANGED <<clock, up, ver, writtenAt, live, entries, newer, bytes, retryAt, probes>>

\* Second round-trip: the hashes of the custom rules the set named.
Round2(r) ==
  LET l == req[r] IN
  /\ l.pc = "round2" /\ up
  /\ req' = [req EXCEPT ![r] = [l EXCEPT !.pc = "read",
                                         !.rules = IF l.err = "none" THEN ver[l.prof] ELSE 0]]
  /\ UNCHANGED <<clock, up, ver, writtenAt, live, entries, newer, bytes, retryAt, probes>>

\* No connection, or no answer by the deadline.
Unanswered(r) ==
  \/ ~up
  \/ clock = req[r].started + Deadline /\ clock < OutageHorizon

\* The first round-trip fails: a connection-level error of the whole batch.
FetchFailed(r) ==
  /\ req[r].pc = "round1" /\ Unanswered(r)
  /\ StoreFailed
  /\ req' = [req EXCEPT ![r] = settingsUnavailable(req[r])]
  /\ UNCHANGED <<clock, up, ver, writtenAt, live, entries, newer, bytes>>

\* The second round-trip fails: only CustomRulesErr is set, so the batch as a
\* whole returns without an error.
RulesFailed(r) ==
  /\ req[r].pc = "round2" /\ Unanswered(r)
  /\ req' = [req EXCEPT ![r].pc = "read", ![r].err = "group", ![r].rules = 0]
  /\ UNCHANGED <<clock, up, ver, writtenAt, live, entries, newer, bytes, retryAt, probes>>

\* Mutant: a missing profile is cached like any other.
FetchedAlways(r) ==
  LET l == req[r] IN
  /\ l.pc = "read"
  /\ StoreRecovered
  /\ \/ /\ l.err # "none"
        /\ req' = [req EXCEPT ![r] = settingsUnavailable(l)]
        /\ UNCHANGED <<entries, newer, bytes>>
     \/ /\ l.err = "none"
        /\ Put(l.prof, [base |-> l.base, rules |-> l.rules, fetchedAt |-> clock])
        /\ req' = [req EXCEPT ![r] = Done(l, "fetched", l.base, l.rules)]
  /\ UNCHANGED <<clock, up, ver, writtenAt, live>>

\* The batch returned, which clears the failure mark. An empty privacy hash
\* means that the profile does not exist; a failed read means that the fetch
\* is not usable.
Fetched(r) ==
  LET l == req[r] IN
  /\ l.pc = "read"
  /\ StoreRecovered
  /\ \/ /\ ~live[l.prof][l.base] /\ l.err # "privacy"
        /\ Evict(l.prof)
        /\ req' = [req EXCEPT ![r] = Done(l, "drop", l.base, l.rules)]
     \/ /\ l.err = "privacy" \/ (live[l.prof][l.base] /\ l.err = "group")
        /\ req' = [req EXCEPT ![r] = settingsUnavailable(l)]
        /\ UNCHANGED <<entries, newer, bytes>>
     \/ /\ live[l.prof][l.base] /\ l.err = "none"
        /\ Put(l.prof, [base |-> l.base, rules |-> l.rules, fetchedAt |-> clock])
        /\ req' = [req EXCEPT ![r] = Done(l, "fetched", l.base, l.rules)]
  /\ UNCHANGED <<clock, up, ver, writtenAt, live>>

Respond(r) ==
  /\ req[r].pc = "done"
  /\ req' = [req EXCEPT ![r] = Idle]
  /\ UNCHANGED <<clock, up, ver, writtenAt, live, entries, newer, bytes, retryAt, probes>>

Step(r) ==
  \/ FetchAllowedLoad(r) \/ FetchAllowedSwap(r)
  \/ \E rules \in BOOLEAN, err \in Err : Round1(r, rules, err)
  \/ Round2(r) \/ FetchFailed(r) \/ RulesFailed(r) \/ Fetched(r) \/ Respond(r)

Query(r) == \E p \in Profile : Get(r, p)

Next ==
  \/ Tick
  \/ \E p \in Written, present \in BOOLEAN : StoreWrite(p, present)
  \/ Reconnect
  \/ \E r \in Request : Query(r) \/ Step(r)

Spec == Init /\ [][Next]_vars

\* Go schedules every goroutine and time passes whatever the proxy does;
\* queries keep coming, without which nobody would probe.
FairSpec ==
  /\ Spec
  /\ SF_vars(Tick)
  /\ \A r \in Request : WF_vars(Step(r)) /\ WF_vars(Query(r))

-----------------------------------------------------------------------------
(* Properties *)

\* Types of the cache, the store and the goroutines' locals.
TypeOK ==
  /\ clock \in Nat \ {0}
  /\ up \in BOOLEAN
  /\ ver \in [Profile -> Version]
  /\ writtenAt \in [Profile -> [Version -> Nat]]
  /\ live \in [Profile -> [Version -> BOOLEAN]]
  /\ entries \in [Profile -> Entry]
  /\ newer \in [Profile -> SUBSET Profile]
  /\ bytes \in Int
  /\ retryAt \in Nat
  /\ req \in [Request -> [pc : Pc, prof : Profile \cup {NoProfile},
                         cached : Entry, state : State, loaded : Nat,
                         now : Nat, started : Nat, base : Nat, rules : Nat,
                         err : Err, out : Outcome]]
  /\ probes \in Seq(Nat)
 

\* How long ago version v of p stopped being what the store holds.
OutOfDate(p, v) ==
  IF v >= ver[p] THEN 0 ELSE clock - writtenAt[p][v + 1]

\* Settings served as current (a fresh cache hit or a fetch) were what the
\* store held less than TTL + Deadline ago, however fetches, later writes,
\* evictions and deletions interleave: filling the cache with a slow, already
\* overwritten or deleted snapshot cannot make it older than that.
ServedIsRecent ==
  TTL > 0 => \A r \in Request :
    /\ req[r].out \in {"fresh", "fetched"} =>
         /\ OutOfDate(req[r].prof, req[r].base) < TTL + Deadline
         /\ OutOfDate(req[r].prof, req[r].rules) < TTL + Deadline
    /\ req[r].out = "fetched" => OutOfDate(req[r].prof, req[r].base) <= Deadline

\* While the store stays marked as failed, grants of FetchAllowed are at least
\* one probe interval apart, whoever loads and swaps retryAt in between.
OneProbePerInterval ==
  Len(probes) = 2 => probes[2] - probes[1] >= ProbeInterval

\* A query is dropped only if the store said, while its fetch was running, that
\* the profile does not exist; whatever settings are served, fresh, stale or
\* fetched, are those of a profile that did, with rules at least as new: one
\* whose rules or other parts could not be read is neither served nor cached.
AnswerMatchesStore ==
  \A r \in Request :
    /\ req[r].out = "drop" => /\ ~live[req[r].prof][req[r].base]
                              /\ OutOfDate(req[r].prof, req[r].base) <= Deadline
    /\ req[r].out \in {"fresh", "stale", "fetched"} =>
         live[req[r].prof][req[r].base] /\ req[r].rules >= req[r].base

\* Once the store is healthy again and queries arrive, the failure mark is
\* cleared for good.
MarkClears == <>[](retryAt = 0)

=============================================================================
