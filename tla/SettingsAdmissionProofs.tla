---------------------- MODULE SettingsAdmissionProofs ----------------------
(***************************************************************************)
(* For any number of profiles and concurrent requests, any TTL, deadline   *)
(* and probe interval: SettingsAdmission is type correct, serves settings  *)
(* that are recent, answers according to what the store held, and probes a *)
(* failing store at most once per interval.                                *)
(***************************************************************************)
EXTENDS SettingsAdmission, TLAPS

\* Version v of p is one the store has held, and it still held it at instant t.
HeldAt(p, v, t) ==
  /\ v \in 1..ver[p]
  /\ v < ver[p] => t <= writtenAt[p][v + 1]

\* A copy of settings: both parts were in the store at most a deadline before
\* the copy was made.
EntryOK(p, e) ==
  /\ e.fetchedAt <= clock
  /\ HeldAt(p, e.base, e.fetchedAt - Deadline)
  /\ HeldAt(p, e.rules, e.fetchedAt - Deadline)
  /\ live[p][e.base] /\ e.rules >= e.base

EntriesInv == \A p \in Profile : entries[p] # NoEntry => EntryOK(p, entries[p])

\* A goroutine between lookup and response.
LocalOK(l) ==
  /\ l.pc # "idle" => l.prof \in Profile
  /\ l.out # "none" <=> l.pc = "done"
  /\ l.pc \notin {"idle", "done"} /\ l.state = "Stale" =>
       /\ l.cached.base \in 1..ver[l.prof]
       /\ live[l.prof][l.cached.base] /\ l.cached.rules >= l.cached.base
  /\ l.pc \in {"round1", "round2", "read"} =>
       l.started <= clock /\ clock <= l.started + Deadline
  /\ l.pc \in {"round2", "read"} =>
       /\ HeldAt(l.prof, l.base, l.started)
       /\ l.err = "none" => HeldAt(l.prof, l.rules, l.started) /\ l.rules >= l.base
  /\ l.pc = "cas" => l.loaded # 0 /\ l.loaded <= l.now /\ l.now <= clock

\* What a finished goroutine hands on.
DoneOK(l) ==
  /\ l.out = "fresh" /\ TTL > 0 =>
       /\ HeldAt(l.prof, l.base, clock - TTL - Deadline + 1)
       /\ HeldAt(l.prof, l.rules, clock - TTL - Deadline + 1)
  /\ l.out \in {"fetched", "drop"} => HeldAt(l.prof, l.base, clock - Deadline)
  /\ l.out = "fetched" => HeldAt(l.prof, l.rules, clock - Deadline)
  /\ l.out \in {"fresh", "stale", "fetched"} =>
       l.base \in 1..ver[l.prof] /\ live[l.prof][l.base] /\ l.rules >= l.base
  /\ l.out = "drop" => ~live[l.prof][l.base]

RequestsInv == \A r \in Request : LocalOK(req[r]) /\ DoneOK(req[r])

\* The mark always lies a probe interval after the last grant.
ProbesInv ==
  /\ retryAt = 0 => Len(probes) = 0
  /\ Len(probes) <= 2
  /\ Len(probes) > 0 => /\ probes[Len(probes)] <= clock
                         /\ probes[Len(probes)] + ProbeInterval <= retryAt
  /\ OneProbePerInterval

IInv == TypeOK /\ EntriesInv /\ RequestsInv /\ ProbesInv

-----------------------------------------------------------------------------

Local == [pc : Pc, prof : Profile \cup {NoProfile}, cached : Entry,
          state : State, loaded : Nat, now : Nat, started : Nat,
          base : Nat, rules : Nat, err : Err, out : Outcome]

\* The initial state satisfies the inductive invariant.
LEMMA InitIInv == Init => IInv
<1> SUFFICES ASSUME Init PROVE IInv
  OBVIOUS
<1> USE ConstantsAssumption DEF Init
<1>1. TypeOK
  BY DEF TypeOK, NoEntry, Entry, Idle, Pc, State, Err, Outcome, Version
<1>2. EntriesInv
  BY DEF EntriesInv
<1>3. RequestsInv
  BY DEF RequestsInv, LocalOK, DoneOK, Idle
<1>4. ProbesInv
  BY DEF ProbesInv, OneProbePerInterval
<1> QED
  BY <1>1, <1>2, <1>3, <1>4 DEF IInv

\* A Tick keeps every bound because no goroutine that is "read" or "done" waits
\* for it, and none is past its deadline.
LEMMA TickIInv == IInv /\ Tick => IInv'
<1> SUFFICES ASSUME IInv, Tick PROVE IInv'
  OBVIOUS
<1> USE ConstantsAssumption
<1>1. /\ clock' = clock + 1 /\ clock \in Nat \ {0} /\ up' \in BOOLEAN
      /\ UNCHANGED <<ver, writtenAt, live, entries, newer, bytes, retryAt, req, probes>>
  BY DEF IInv, TypeOK, Tick
<1>2. TypeOK'
  BY <1>1 DEF IInv, TypeOK
<1>3. EntriesInv'
  BY <1>1 DEF IInv, EntriesInv, EntryOK, HeldAt, TypeOK, Entry
<1>4. RequestsInv'
  <2> SUFFICES ASSUME NEW r \in Request PROVE LocalOK(req[r])' /\ DoneOK(req[r])'
    BY DEF RequestsInv
  <2>1. /\ req[r] \in Local /\ req'[r] = req[r]
        /\ LocalOK(req[r]) /\ DoneOK(req[r])
        /\ req[r].pc \notin {"done", "read"}
        /\ req[r].pc \in {"round1", "round2"} => clock < req[r].started + Deadline
    BY <1>1 DEF IInv, TypeOK, Local, RequestsInv, Tick, InFetch
  <2>2. LocalOK(req[r])'
    BY <2>1, <1>1 DEF LocalOK, HeldAt, Local
  <2>3. DoneOK(req[r])'
    BY <2>1, <1>1 DEF LocalOK, DoneOK
  <2> QED
    BY <2>2, <2>3
<1>5. ProbesInv'
  BY <1>1 DEF IInv, ProbesInv, OneProbePerInterval, TypeOK
<1> QED
  BY <1>2, <1>3, <1>4, <1>5 DEF IInv

\* A write adds a version; what was held at an instant up to now still was.
LEMMA StoreWriteIInv ==
  ASSUME NEW p \in Profile, NEW present \in BOOLEAN, IInv, StoreWrite(p, present)
  PROVE  IInv'
<1> USE ConstantsAssumption
<1>0. /\ UNCHANGED <<clock, up, entries, newer, bytes, retryAt, req, probes>>
      /\ ver \in [Profile -> Version] /\ clock \in Nat
      /\ writtenAt \in [Profile -> [Version -> Nat]]
      /\ live \in [Profile -> [Version -> BOOLEAN]]
      /\ ver[p] + 1 \in Version
      /\ ver' = [ver EXCEPT ![p] = @ + 1]
      /\ writtenAt' = [writtenAt EXCEPT ![p][ver[p] + 1] = clock]
      /\ live' = [live EXCEPT ![p][ver[p] + 1] = present]
  BY DEF IInv, TypeOK, StoreWrite
<1>1. TypeOK'
  BY <1>0 DEF IInv, TypeOK
<1>2. ASSUME NEW q \in Profile, NEW v \in 1..ver[q]
      PROVE  /\ v \in 1..ver'[q]
             /\ live'[q][v] = live[q][v]
             /\ \A t \in Int : HeldAt(q, v, t) /\ t <= clock => HeldAt(q, v, t)'
  <2>0. /\ ver[q] \in Nat /\ ver'[q] \in {ver[q], ver[q] + 1} /\ v \in Version
        /\ ver'[q] = ver[q] + 1 => q = p
    <3>1. ver[q] \in 1..MaxWrites /\ MaxWrites \in Nat
      BY <1>0 DEF Version
    <3>2. v \in Version /\ ver[q] \in Nat
      BY <3>1 DEF Version
    <3>3. ver'[q] = IF q = p THEN ver[q] + 1 ELSE ver[q]
      BY <1>0
    <3> QED
      BY <3>2, <3>3
  <2>1. /\ \A u \in 1..ver[q] : writtenAt'[q][u] = writtenAt[q][u] /\ live'[q][u] = live[q][u]
        /\ ver'[q] = ver[q] + 1 => writtenAt'[q][ver[q] + 1] = clock
    <3>1. CASE q = p
      <4>1. /\ writtenAt'[p] = [writtenAt[p] EXCEPT ![ver[p] + 1] = clock]
            /\ live'[p] = [live[p] EXCEPT ![ver[p] + 1] = present]
            /\ writtenAt[p] \in [Version -> Nat] /\ live[p] \in [Version -> BOOLEAN]
        BY <1>0
      <4> QED
        BY <4>1, <3>1, <1>0, <2>0 DEF Version
    <3>2. CASE q # p
      BY <3>2, <1>0, <2>0
    <3> QED
      BY <3>1, <3>2
  <2>2. ASSUME NEW t \in Int, HeldAt(q, v, t), t <= clock PROVE HeldAt(q, v, t)'
    <3>1. CASE v = ver[q]
      BY <3>1, <2>0, <2>1, <2>2, <1>0 DEF HeldAt
    <3>2. CASE v < ver[q]
      <4>1. v + 1 \in 1..ver[q] /\ writtenAt'[q][v + 1] = writtenAt[q][v + 1]
        BY <3>2, <2>0, <2>1
      <4> QED
        BY <4>1, <3>2, <2>0, <2>2 DEF HeldAt
    <3> QED
      BY <3>1, <3>2, <2>0
  <2> QED
    BY <2>0, <2>1, <2>2
<1>3. EntriesInv'
  <2> SUFFICES ASSUME NEW q \in Profile, entries[q] # NoEntry PROVE EntryOK(q, entries[q])'
    BY <1>0 DEF EntriesInv
  <2>1. EntryOK(q, entries[q]) /\ entries[q] \in Entry
    BY DEF IInv, EntriesInv, TypeOK
  <2> QED
    BY <2>1, <1>0, <1>2 DEF EntryOK, Entry, HeldAt
<1>4. RequestsInv'
  <2> SUFFICES ASSUME NEW r \in Request PROVE LocalOK(req[r])' /\ DoneOK(req[r])'
    BY DEF RequestsInv
  <2>1. /\ LocalOK(req[r]) /\ DoneOK(req[r])
        /\ req'[r] = req[r] /\ req[r] \in Local
    BY <1>0 DEF IInv, RequestsInv, TypeOK, Local
  <2>2. LocalOK(req[r])'
    BY <2>1, <1>0, <1>2 DEF LocalOK, Local, Entry, HeldAt
  <2>3. DoneOK(req[r])'
    <3>1. CASE req[r].out = "none"
      BY <3>1, <2>1 DEF DoneOK
    <3>2. CASE req[r].out # "none"
      <4>1. req[r].prof \in Profile
        BY <3>2, <2>1 DEF LocalOK
      <4>2. PICK q \in Profile : q = req[r].prof
        BY <4>1
      <4>3. \A v \in 1..ver[q] : /\ v \in 1..ver'[q] /\ live'[q][v] = live[q][v]
                                /\ \A t \in Int : HeldAt(q, v, t) /\ t <= clock => HeldAt(q, v, t)'
        BY <1>2
      <4>4. /\ TTL > 0 => clock - TTL - Deadline + 1 \in Int /\ clock - TTL - Deadline + 1 <= clock
            /\ clock - Deadline \in Int /\ clock - Deadline <= clock
        BY <1>0
      <4>5. \A v, t : HeldAt(q, v, t) => v \in 1..ver[q]
        BY DEF HeldAt
      <4>6. req'[r] = req[r] /\ clock' = clock /\ DoneOK(req[r])
        BY <2>1, <1>0
      <4>7. \A v, t : HeldAt(req[r].prof, v, t) <=> HeldAt(q, v, t)
        BY <4>2
      <4>8. \A v, t : HeldAt(req[r].prof, v, t)' <=> HeldAt(q, v, t)'
        BY <4>2, <4>6
      <4> QED
        BY <4>2, <4>3, <4>4, <4>5, <4>6, <4>7, <4>8 DEF DoneOK
    <3> QED
      BY <3>1, <3>2
  <2> QED
    BY <2>2, <2>3
<1>5. ProbesInv'
  BY <1>0 DEF IInv, ProbesInv, OneProbePerInterval
<1> QED
  BY <1>1, <1>3, <1>4, <1>5 DEF IInv

\* Steps of one goroutine leave time and the store alone; they may be checked
\* against that goroutine's new locals only.
LEMMA GoroutineStep ==
  ASSUME NEW r \in Request, IInv, UNCHANGED <<clock, ver, writtenAt, live>>,
         \A s \in Request \ {r} : req'[s] = req[s],
         LocalOK(req[r])', DoneOK(req[r])'
  PROVE  RequestsInv'
<1> SUFFICES ASSUME NEW s \in Request PROVE LocalOK(req[s])' /\ DoneOK(req[s])'
  BY DEF RequestsInv
<1>1. CASE s = r
  BY <1>1
<1>2. CASE s # r
  <2>1. req'[s] = req[s] /\ LocalOK(req[s]) /\ DoneOK(req[s])
    BY <1>2 DEF IInv, RequestsInv
  <2> QED
    BY <2>1 DEF LocalOK, DoneOK, HeldAt
<1> QED
  BY <1>1, <1>2

\* The locals of a finished goroutine.
LEMMA DoneFields ==
  ASSUME NEW l \in Local, NEW out \in Outcome, NEW base \in Nat, NEW rules \in Nat
  PROVE  /\ Done(l, out, base, rules) \in Local
         /\ Done(l, out, base, rules).pc = "done"
         /\ Done(l, out, base, rules).prof = l.prof
         /\ Done(l, out, base, rules).out = out
         /\ Done(l, out, base, rules).base = base
         /\ Done(l, out, base, rules).rules = rules
<1>1. Idle.pc = "idle" /\ [Idle EXCEPT !.prof = l.prof] \in Local
  BY DEF Idle, Local, NoEntry, Entry, Pc, State, Err, Outcome
<1> QED
  BY <1>1 DEF Done, Idle, Local, Pc

\* settingsUnavailable ends a goroutine in order.
LEMMA UnavailableOK ==
  ASSUME NEW l \in Local, LocalOK(l), l.pc \notin {"idle", "done"}, IInv
  PROVE  /\ settingsUnavailable(l) \in Local
         /\ LocalOK(settingsUnavailable(l)) /\ DoneOK(settingsUnavailable(l))
<1>1. /\ l.cached.base \in Nat /\ l.cached.rules \in Nat
      /\ {"stale", "servfail"} \subseteq Outcome /\ 0 \in Nat
  BY DEF Local, Entry, Outcome
<1>2. CASE l.state = "Stale"
  <2> DEFINE d == Done(l, "stale", l.cached.base, l.cached.rules)
  <2>1. /\ d \in Local /\ d.pc = "done" /\ d.prof = l.prof /\ d.out = "stale"
        /\ d.base = l.cached.base /\ d.rules = l.cached.rules
    <3>1. d \in Local
      BY <1>1, DoneFields
    <3> QED
      BY <3>1 DEF Done, Idle
  <2>2. settingsUnavailable(l) = d
    BY <1>2 DEF settingsUnavailable
  <2> HIDE DEF d
  <2>3. LocalOK(d) /\ DoneOK(d)
    BY <2>1, <1>2 DEF LocalOK, DoneOK
  <2> QED
    BY <2>1, <2>2, <2>3
<1>3. CASE l.state # "Stale"
  <2> DEFINE d == Done(l, "servfail", 0, 0)
  <2>1. d \in Local /\ d.pc = "done" /\ d.prof = l.prof /\ d.out = "servfail"
    <3>1. d \in Local
      BY <1>1, DoneFields
    <3> QED
      BY <3>1 DEF Done, Idle
  <2>2. settingsUnavailable(l) = d
    BY <1>3 DEF settingsUnavailable
  <2> HIDE DEF d
  <2>3. LocalOK(d) /\ DoneOK(d)
    BY <2>1 DEF LocalOK, DoneOK
  <2> QED
    BY <2>1, <2>2, <2>3
<1> QED
  BY <1>2, <1>3

\* A lookup: a fresh entry is less than a TTL old.
LEMMA GetIInv ==
  ASSUME NEW r \in Request, NEW p \in Profile, IInv, Get(r, p)
  PROVE  IInv'
<1> USE ConstantsAssumption
<1> DEFINE e == entries[p]
           l == [Idle EXCEPT !.prof = p, !.cached = e, !.state = StateOf(e)]
<1>0. /\ UNCHANGED <<clock, up, ver, writtenAt, live, entries, bytes, retryAt, probes>>
      /\ req' = [req EXCEPT ![r] = IF StateOf(e) = "Fresh" THEN Done(l, "fresh", e.base, e.rules)
                                   ELSE [l EXCEPT !.pc = "gate"]]
  BY DEF Get
<1>a. newer' \in [Profile -> SUBSET Profile]
  <2>1. newer \in [Profile -> SUBSET Profile] /\ Cached \subseteq Profile
    BY DEF IInv, TypeOK, Cached
  <2>2. newer' = newer \/ Touch(p, Cached)
    BY DEF Get
  <2> QED
    BY <2>1, <2>2 DEF Touch
<1>b. /\ req \in [Request -> Local] /\ e \in Entry /\ clock \in Nat
      /\ ver \in [Profile -> Version]
      /\ writtenAt \in [Profile -> [Version -> Nat]]
  BY DEF IInv, TypeOK, Local
<1>1. e # NoEntry => EntryOK(p, e)
  BY DEF IInv, EntriesInv
<1>2. /\ StateOf(e) \in State
      /\ StateOf(e) # "Miss" <=> e # NoEntry
      /\ StateOf(e) = "Fresh" /\ TTL > 0 => clock - e.fetchedAt < TTL
  BY <1>b DEF StateOf, State, Entry
<1>c. l \in Local /\ l.prof = p /\ l.cached = e /\ l.state = StateOf(e)
      /\ l.out = "none"
  BY <1>b, <1>2 DEF Local, Idle, NoEntry, Entry, Pc, State, Err, Outcome
<1>d. TypeOK' /\ EntriesInv' /\ ProbesInv' /\ LocalOK(req[r])' /\ DoneOK(req[r])'
  <2>0. /\ EntriesInv' /\ ProbesInv'
        /\ req'[r] \in Local => TypeOK'
    BY <1>0, <1>a, <1>b DEF IInv, TypeOK, Local, EntriesInv, EntryOK, HeldAt,
                            ProbesInv, OneProbePerInterval
  <2>1. CASE StateOf(e) = "Fresh"
    <3> DEFINE d == Done(l, "fresh", e.base, e.rules)
    <3>0. e.base \in Nat /\ e.rules \in Nat /\ e.fetchedAt \in Nat /\ "fresh" \in Outcome
      BY <1>b DEF Entry, Outcome
    <3>1. req'[r] = d
      BY <2>1, <1>0, <1>b
    <3>2. /\ d \in Local /\ d.pc = "done" /\ d.prof = p /\ d.out = "fresh"
          /\ d.base = e.base /\ d.rules = e.rules
      <4>1. d \in Local
        BY <3>0, <1>c, DoneFields
      <4> QED
        BY <4>1, <1>c DEF Done, Idle
    <3> HIDE DEF d
    <3>3. /\ HeldAt(p, e.base, e.fetchedAt - Deadline)
          /\ HeldAt(p, e.rules, e.fetchedAt - Deadline)
          /\ live[p][e.base] /\ e.base \in 1..ver[p] /\ e.rules >= e.base
      BY <2>1, <1>1, <1>2 DEF EntryOK, HeldAt
    <3>4. TTL > 0 => clock - TTL - Deadline + 1 <= e.fetchedAt - Deadline
      BY <2>1, <3>0, <1>b, <1>2
    <3>5. ASSUME NEW v \in Nat, HeldAt(p, v, e.fetchedAt - Deadline), TTL > 0
          PROVE  HeldAt(p, v, clock - TTL - Deadline + 1)
      <4>1. v < ver[p] => writtenAt[p][v + 1] \in Nat
        BY <3>5, <1>b DEF Version
      <4> QED
        BY <4>1, <3>0, <3>4, <3>5, <1>b DEF HeldAt
    <3>6. DoneOK(req[r])'
      BY <3>0, <3>1, <3>2, <3>3, <3>5, <1>0 DEF DoneOK, HeldAt
    <3>7. LocalOK(req[r])'
      BY <3>1, <3>2, <1>0 DEF LocalOK
    <3> QED
      BY <2>0, <3>1, <3>2, <3>6, <3>7
  <2>2. CASE StateOf(e) # "Fresh"
    <3>1. req'[r] = [l EXCEPT !.pc = "gate"]
      BY <2>2, <1>0, <1>b
    <3> HIDE DEF l
    <3>2. /\ req'[r] \in Local /\ req'[r].pc = "gate" /\ req'[r].prof = p
          /\ req'[r].cached = e /\ req'[r].state = StateOf(e) /\ req'[r].out = "none"
      BY <3>1, <1>c DEF Local, Pc
    <3>3. LocalOK(req[r])'
      BY <3>2, <1>0, <1>1, <1>2 DEF LocalOK, EntryOK, HeldAt
    <3>4. DoneOK(req[r])'
      BY <3>2 DEF DoneOK
    <3> QED
      BY <2>0, <3>2, <3>3, <3>4
  <2> QED
    BY <2>1, <2>2
<1>e. RequestsInv'
  BY <1>0, <1>b, <1>d, GoroutineStep
<1> QED
  BY <1>d, <1>e DEF IInv

\* What most steps of a goroutine have in common: only its locals, the failure
\* mark and the record of grants change.
LEMMA LocalStep ==
  ASSUME NEW r \in Request, NEW l \in Local, IInv,
         UNCHANGED <<clock, up, ver, writtenAt, live, entries, newer, bytes>>,
         req' = [req EXCEPT ![r] = l], LocalOK(l), DoneOK(l),
         retryAt' \in Nat, probes' \in Seq(Nat), ProbesInv'
  PROVE  IInv'
<1>1. req \in [Request -> Local] /\ req'[r] = l
  BY DEF IInv, TypeOK, Local
<1>2. TypeOK'
  BY <1>1 DEF IInv, TypeOK, Local
<1>3. EntriesInv'
  BY DEF IInv, EntriesInv, EntryOK, HeldAt
<1>4. LocalOK(req[r])' /\ DoneOK(req[r])'
  BY <1>1 DEF LocalOK, DoneOK, HeldAt
<1>5. RequestsInv'
  BY <1>1, <1>4, GoroutineStep
<1> QED
  BY <1>2, <1>3, <1>5 DEF IInv

\* Facts about the goroutine that takes a step.
LEMMA ReqFacts ==
  ASSUME NEW r \in Request, IInv
  PROVE  /\ req[r] \in Local /\ LocalOK(req[r])
         /\ req[r].pc # "idle" => req[r].prof \in Profile
         /\ clock \in Nat \ {0} /\ retryAt \in Nat /\ probes \in Seq(Nat) /\ ProbesInv
         /\ ver \in [Profile -> Version]
         /\ writtenAt \in [Profile -> [Version -> Nat]]
         /\ live \in [Profile -> [Version -> BOOLEAN]]
BY DEF IInv, TypeOK, RequestsInv, LocalOK, Local

LEMMA StartFetchOK ==
  ASSUME NEW l \in Local, LocalOK(l), l.pc \in {"gate", "cas"}, clock \in Nat,
         Deadline \in Nat
  PROVE  StartFetch(l) \in Local /\ LocalOK(StartFetch(l)) /\ DoneOK(StartFetch(l))
<1> DEFINE n == StartFetch(l)
<1>1. /\ n \in Local /\ n.pc = "round1" /\ n.started = clock /\ n.prof = l.prof
      /\ n.state = l.state /\ n.cached = l.cached /\ n.out = l.out
  BY DEF StartFetch, Local, Pc
<1> HIDE DEF n
<1>2. LocalOK(n)
  BY <1>1 DEF LocalOK
<1>3. DoneOK(n)
  BY <1>1 DEF LocalOK, DoneOK
<1> QED
  BY <1>1, <1>2, <1>3 DEF n

LEMMA FetchAllowedLoadIInv ==
  ASSUME NEW r \in Request, IInv, FetchAllowedLoad(r)
  PROVE  IInv'
<1> USE ConstantsAssumption
<1> DEFINE l == req[r]
           n == IF retryAt = 0 THEN StartFetch(l)
                ELSE IF clock < retryAt THEN settingsUnavailable(l)
                ELSE [l EXCEPT !.pc = "cas", !.loaded = retryAt, !.now = clock]
<1>1. /\ l.pc = "gate" /\ req' = [req EXCEPT ![r] = n]
      /\ UNCHANGED <<clock, up, ver, writtenAt, live, entries, newer, bytes, retryAt, probes>>
  BY DEF FetchAllowedLoad
<1>2. /\ l \in Local /\ LocalOK(l) /\ clock \in Nat /\ retryAt \in Nat
      /\ probes \in Seq(Nat) /\ ProbesInv
  BY ReqFacts
<1>3. n \in Local /\ LocalOK(n) /\ DoneOK(n)
  <2>1. CASE retryAt = 0
    BY <2>1, <1>1, <1>2, StartFetchOK
  <2>2. CASE retryAt # 0 /\ clock < retryAt
    BY <2>2, <1>1, <1>2, UnavailableOK
  <2>3. CASE retryAt # 0 /\ ~(clock < retryAt)
    <3>1. n = [l EXCEPT !.pc = "cas", !.loaded = retryAt, !.now = clock]
      BY <2>3
    <3> HIDE DEF n
    <3>2. /\ n \in Local /\ n.pc = "cas" /\ n.loaded = retryAt /\ n.now = clock
          /\ n.prof = l.prof /\ n.state = l.state /\ n.cached = l.cached /\ n.out = l.out
      BY <3>1, <1>2 DEF Local, Pc
    <3>3. LocalOK(n)
      BY <3>2, <2>3, <1>1, <1>2 DEF LocalOK
    <3>4. DoneOK(n)
      BY <3>2, <1>1, <1>2 DEF LocalOK, DoneOK
    <3> QED
      BY <3>2, <3>3, <3>4
  <2> QED
    BY <2>1, <2>2, <2>3
<1>4. ProbesInv'
  BY <1>1, <1>2 DEF ProbesInv, OneProbePerInterval
<1> HIDE DEF n
<1> QED
  BY <1>1, <1>2, <1>3, <1>4, LocalStep

\* Only a caller that saw the mark unchanged since it expired becomes a probe:
\* the new grant is a full interval after the one that set the mark.
LEMMA FetchAllowedSwapIInv ==
  ASSUME NEW r \in Request, IInv, FetchAllowedSwap(r)
  PROVE  IInv'
<1> USE ConstantsAssumption
<1> DEFINE l == req[r]
<1>1. /\ l.pc = "cas"
      /\ UNCHANGED <<clock, up, ver, writtenAt, live, entries, newer, bytes>>
  BY DEF FetchAllowedSwap
<1>2. /\ l \in Local /\ LocalOK(l) /\ clock \in Nat /\ retryAt \in Nat
      /\ probes \in Seq(Nat) /\ ProbesInv
  BY ReqFacts
<1>3. CASE retryAt = l.loaded
  <2>1. /\ retryAt' = l.now + ProbeInterval /\ probes' = Granted(l.now)
        /\ req' = [req EXCEPT ![r] = StartFetch(l)]
    BY <1>3 DEF FetchAllowedSwap
  <2>2. l.now \in Nat /\ retryAt # 0 /\ retryAt <= l.now /\ l.now <= clock
    BY <1>1, <1>2, <1>3 DEF LocalOK, Local
  <2>3. retryAt' \in Nat /\ retryAt' # 0
    BY <2>1, <2>2
  <2>4. probes' \in Seq(Nat) /\ ProbesInv'
    <3>1. CASE Len(probes) = 0
      BY <3>1, <2>1, <2>2, <2>3, <1>1 DEF Granted, ProbesInv, OneProbePerInterval
    <3>2. CASE Len(probes) # 0
      <4> DEFINE last == probes[Len(probes)]
      <4>1. last \in Nat /\ last + ProbeInterval <= retryAt
        BY <3>2, <1>2 DEF ProbesInv
      <4>2. probes' = <<last, l.now>>
        BY <3>2, <2>1 DEF Granted
      <4> HIDE DEF last
      <4>3. /\ probes' \in Seq(Nat) /\ Len(probes') = 2
            /\ probes'[1] = last /\ probes'[2] = l.now
        BY <4>1, <4>2, <2>2
      <4>a. clock' = clock /\ retryAt' = l.now + ProbeInterval
        BY <1>1, <2>1
      <4>b. \A a, b, c, t \in Nat : /\ a + ProbeInterval <= b /\ b <= c /\ c <= t =>
                                        c - a >= ProbeInterval
        OBVIOUS
      <4>c. l.now - last >= ProbeInterval
        BY <4>1, <4>b, <2>2, <1>2
      <4>4. /\ probes'[2] - probes'[1] >= ProbeInterval
            /\ probes'[2] <= clock' /\ probes'[2] + ProbeInterval <= retryAt'
        <5>1. l.now + ProbeInterval <= retryAt'
          BY <4>a, <2>2
        <5> QED
          BY <4>3, <4>a, <4>c, <5>1, <2>2
      <4> QED
        BY <4>3, <4>4, <2>3 DEF ProbesInv, OneProbePerInterval
    <3> QED
      BY <3>1, <3>2
  <2>5. StartFetch(l) \in Local /\ LocalOK(StartFetch(l)) /\ DoneOK(StartFetch(l))
    BY <1>1, <1>2, StartFetchOK
  <2> QED
    BY <1>1, <2>1, <2>3, <2>4, <2>5, LocalStep
<1>4. CASE retryAt # l.loaded
  <2>1. req' = [req EXCEPT ![r] = settingsUnavailable(l)] /\ UNCHANGED <<retryAt, probes>>
    BY <1>4 DEF FetchAllowedSwap
  <2>2. ProbesInv'
    BY <2>1, <1>1, <1>2 DEF ProbesInv, OneProbePerInterval
  <2>3. /\ settingsUnavailable(l) \in Local
        /\ LocalOK(settingsUnavailable(l)) /\ DoneOK(settingsUnavailable(l))
    BY <1>1, <1>2, UnavailableOK
  <2> QED
    BY <1>1, <1>2, <2>1, <2>2, <2>3, LocalStep
<1> QED
  BY <1>3, <1>4

LEMMA Round1IInv ==
  ASSUME NEW r \in Request, NEW rules \in BOOLEAN, NEW err \in Err,
         IInv, Round1(r, rules, err)
  PROVE  IInv'
<1> USE ConstantsAssumption
<1> DEFINE l == req[r]
           v == ver[l.prof]
           n == [l EXCEPT !.pc = IF rules THEN "round2" ELSE "read",
                          !.base = v, !.err = err,
                          !.rules = IF err = "none" THEN v ELSE 0]
<1>1. /\ l.pc = "round1" /\ req' = [req EXCEPT ![r] = n]
      /\ UNCHANGED <<clock, up, ver, writtenAt, live, entries, newer, bytes, retryAt, probes>>
  BY DEF Round1
<1>2. /\ l \in Local /\ LocalOK(l) /\ clock \in Nat /\ retryAt \in Nat
      /\ probes \in Seq(Nat) /\ ProbesInv /\ l.prof \in Profile
      /\ v \in Nat /\ v \in 1..ver[l.prof]
  BY <1>1, ReqFacts DEF Version
<1>3. /\ n \in Local /\ n.pc \in {"round2", "read"} /\ n.base = v
      /\ n.err = "none" => n.rules = v
      /\ n.prof = l.prof /\ n.state = l.state /\ n.cached = l.cached
      /\ n.out = l.out /\ n.started = l.started
  BY <1>2 DEF Local, Pc
<1> HIDE DEF n
<1>4. LocalOK(n)
  BY <1>1, <1>2, <1>3 DEF LocalOK, HeldAt
<1>5. DoneOK(n)
  BY <1>1, <1>2, <1>3 DEF LocalOK, DoneOK
<1>6. ProbesInv'
  BY <1>1, <1>2 DEF ProbesInv, OneProbePerInterval
<1> QED
  BY <1>1, <1>2, <1>3, <1>4, <1>5, <1>6, LocalStep

LEMMA Round2IInv ==
  ASSUME NEW r \in Request, IInv, Round2(r)
  PROVE  IInv'
<1> USE ConstantsAssumption
<1> DEFINE l == req[r]
           v == ver[l.prof]
           n == [l EXCEPT !.pc = "read",
                          !.rules = IF l.err = "none" THEN v ELSE 0]
<1>1. /\ l.pc = "round2" /\ req' = [req EXCEPT ![r] = n]
      /\ UNCHANGED <<clock, up, ver, writtenAt, live, entries, newer, bytes, retryAt, probes>>
  BY DEF Round2
<1>2. /\ l \in Local /\ LocalOK(l) /\ clock \in Nat /\ retryAt \in Nat
      /\ probes \in Seq(Nat) /\ ProbesInv /\ l.prof \in Profile
      /\ v \in Nat /\ v \in 1..ver[l.prof]
  BY <1>1, ReqFacts DEF Version
<1>3. /\ n \in Local /\ n.pc = "read" /\ n.base = l.base
      /\ n.err = "none" => n.rules = v
      /\ n.prof = l.prof /\ n.state = l.state /\ n.cached = l.cached
      /\ n.out = l.out /\ n.started = l.started
  BY <1>2 DEF Local, Pc
<1> HIDE DEF n
<1>4. LocalOK(n)
  BY <1>1, <1>2, <1>3 DEF LocalOK, HeldAt
<1>5. DoneOK(n)
  BY <1>1, <1>2, <1>3 DEF LocalOK, DoneOK
<1>6. ProbesInv'
  BY <1>1, <1>2 DEF ProbesInv, OneProbePerInterval
<1> QED
  BY <1>1, <1>2, <1>3, <1>4, <1>5, <1>6, LocalStep

LEMMA RulesFailedIInv ==
  ASSUME NEW r \in Request, IInv, RulesFailed(r)
  PROVE  IInv'
<1> DEFINE l == req[r]
           n == [l EXCEPT !.pc = "read", !.err = "group", !.rules = 0]
<1>1. /\ l.pc = "round2"
      /\ req' = [req EXCEPT ![r].pc = "read", ![r].err = "group", ![r].rules = 0]
      /\ UNCHANGED <<clock, up, ver, writtenAt, live, entries, newer, bytes, retryAt, probes>>
  BY DEF RulesFailed
<1>2. /\ l \in Local /\ LocalOK(l) /\ retryAt \in Nat
      /\ probes \in Seq(Nat) /\ ProbesInv /\ req \in [Request -> Local]
  BY ReqFacts DEF IInv, TypeOK, Local
<1>3. req' = [req EXCEPT ![r] = n]
  BY <1>1, <1>2
<1>4. /\ n \in Local /\ n.pc = "read" /\ n.base = l.base /\ n.err = "group"
      /\ n.prof = l.prof /\ n.state = l.state /\ n.cached = l.cached
      /\ n.out = l.out /\ n.started = l.started
  BY <1>2 DEF Local, Pc, Err
<1> HIDE DEF n
<1>5. LocalOK(n) /\ DoneOK(n)
  BY <1>1, <1>2, <1>4 DEF LocalOK, DoneOK
<1>6. ProbesInv'
  BY <1>1, <1>2 DEF ProbesInv, OneProbePerInterval
<1> QED
  BY <1>1, <1>2, <1>3, <1>4, <1>5, <1>6, LocalStep

\* A failed fetch sets the mark a full interval after the present, hence after
\* every earlier grant.
LEMMA FetchFailedIInv ==
  ASSUME NEW r \in Request, IInv, FetchFailed(r)
  PROVE  IInv'
<1> USE ConstantsAssumption
<1> DEFINE l == req[r]
<1>1. /\ l.pc = "round1" /\ req' = [req EXCEPT ![r] = settingsUnavailable(l)]
      /\ retryAt' = clock + ProbeInterval /\ probes' = probes
      /\ UNCHANGED <<clock, up, ver, writtenAt, live, entries, newer, bytes>>
  BY DEF FetchFailed, StoreFailed
<1>2. /\ l \in Local /\ LocalOK(l) /\ clock \in Nat
      /\ probes \in Seq(Nat) /\ ProbesInv
  BY ReqFacts
<1>3. /\ settingsUnavailable(l) \in Local
      /\ LocalOK(settingsUnavailable(l)) /\ DoneOK(settingsUnavailable(l))
  BY <1>1, <1>2, UnavailableOK
<1>4. retryAt' \in Nat /\ probes' \in Seq(Nat) /\ ProbesInv'
  <2>1. Len(probes) > 0 => probes[Len(probes)] \in Nat
    BY <1>2
  <2> QED
    BY <1>1, <1>2, <2>1 DEF ProbesInv, OneProbePerInterval
<1> QED
  BY <1>1, <1>3, <1>4, LocalStep

LEMMA RespondIInv ==
  ASSUME NEW r \in Request, IInv, Respond(r)
  PROVE  IInv'
<1>1. /\ req' = [req EXCEPT ![r] = Idle]
      /\ UNCHANGED <<clock, up, ver, writtenAt, live, entries, newer, bytes, retryAt, probes>>
  BY DEF Respond
<1>2. retryAt \in Nat /\ probes \in Seq(Nat) /\ ProbesInv
  BY ReqFacts
<1>3. Idle \in Local /\ LocalOK(Idle) /\ DoneOK(Idle)
  BY DEF Idle, Local, NoEntry, Entry, Pc, State, Err, Outcome, LocalOK, DoneOK
<1>4. ProbesInv'
  BY <1>1, <1>2 DEF ProbesInv, OneProbePerInterval
<1> QED
  BY <1>1, <1>2, <1>3, <1>4, LocalStep

\* Filling the cache from a finished fetch: what is stored, and what is evicted
\* to make room, keeps EntriesInv.
LEMMA PutOK ==
  ASSUME NEW p \in Profile, NEW e \in Entry, IInv, Put(p, e), EntryOK(p, e),
         UNCHANGED <<clock, ver, writtenAt, live>>
  PROVE  /\ entries' \in [Profile -> Entry] /\ newer' \in [Profile -> SUBSET Profile]
         /\ bytes' \in Int /\ EntriesInv'
<1>0. /\ entries \in [Profile -> Entry] /\ newer \in [Profile -> SUBSET Profile]
      /\ bytes \in Int /\ NoEntry \in Entry /\ Victims(p) \subseteq Profile
      /\ Cached \subseteq Profile
  BY DEF IInv, TypeOK, NoEntry, Entry, Victims, Cached
<1>1. entries' = [q \in Profile |-> IF q = p THEN e
                                    ELSE IF q \in Victims(p) THEN NoEntry ELSE entries[q]]
  BY DEF Put
<1>2. entries' \in [Profile -> Entry]
  BY <1>0, <1>1
<1>3. newer' \in [Profile -> SUBSET Profile]
  BY <1>0 DEF Put, Touch
<1>4. bytes' \in Int
  <2>1. \A x \in Entry : estimateBytes(x) \in Int
    BY DEF estimateBytes, Entry
  <2>2. Victims(p) # {} => (CHOOSE q \in Victims(p) : TRUE) \in Profile
    BY <1>0
  <2> QED
    BY <1>0, <2>1, <2>2 DEF Put
<1>5. EntriesInv'
  <2> SUFFICES ASSUME NEW q \in Profile, entries'[q] # NoEntry PROVE EntryOK(q, entries[q])'
    BY DEF EntriesInv
  <2>1. CASE q = p
    BY <2>1, <1>1 DEF EntryOK, HeldAt
  <2>2. CASE q # p
    <3>1. entries'[q] = entries[q] /\ EntryOK(q, entries[q])
      BY <2>2, <1>1 DEF IInv, EntriesInv
    <3> QED
      BY <3>1 DEF EntryOK, HeldAt
  <2> QED
    BY <2>1, <2>2
<1> QED
  BY <1>2, <1>3, <1>4, <1>5

LEMMA EvictOK ==
  ASSUME NEW p \in Profile, IInv, Evict(p), UNCHANGED <<clock, ver, writtenAt, live>>
  PROVE  /\ entries' \in [Profile -> Entry] /\ newer' \in [Profile -> SUBSET Profile]
         /\ bytes' \in Int /\ EntriesInv'
<1>0. /\ entries \in [Profile -> Entry] /\ newer \in [Profile -> SUBSET Profile]
      /\ bytes \in Int /\ NoEntry \in Entry
  BY DEF IInv, TypeOK, NoEntry, Entry
<1>1. \A x \in Entry : estimateBytes(x) \in Int
  BY DEF estimateBytes, Entry
<1>2. EntriesInv'
  BY <1>0 DEF Evict, IInv, EntriesInv, EntryOK, HeldAt
<1> QED
  BY <1>0, <1>1, <1>2 DEF Evict

\* The end of a fetch: its two snapshots were in the store after it started,
\* which is at most a deadline ago.
LEMMA FetchedIInv ==
  ASSUME NEW r \in Request, IInv, Fetched(r)
  PROVE  IInv'
<1> USE ConstantsAssumption
<1> DEFINE l == req[r]
<1>1. /\ l.pc = "read" /\ retryAt' = 0 /\ probes' = <<>>
      /\ UNCHANGED <<clock, up, ver, writtenAt, live>>
  BY DEF Fetched, StoreRecovered
<1>2. /\ l \in Local /\ LocalOK(l) /\ clock \in Nat /\ l.prof \in Profile
      /\ ver \in [Profile -> Version]
      /\ writtenAt \in [Profile -> [Version -> Nat]]
      /\ live \in [Profile -> [Version -> BOOLEAN]]
      /\ l.base \in Nat /\ l.rules \in Nat /\ l.started \in Nat
      /\ req \in [Request -> Local]
  BY <1>1, ReqFacts DEF Local, IInv, TypeOK
<1>3. /\ HeldAt(l.prof, l.base, l.started)
      /\ l.err = "none" => HeldAt(l.prof, l.rules, l.started) /\ l.rules >= l.base
      /\ clock - Deadline <= l.started
  BY <1>1, <1>2 DEF LocalOK
<1>4. /\ HeldAt(l.prof, l.base, clock - Deadline)
      /\ l.err = "none" => HeldAt(l.prof, l.rules, clock - Deadline)
  <2>1. ASSUME NEW v \in Nat, HeldAt(l.prof, v, l.started)
        PROVE  HeldAt(l.prof, v, clock - Deadline)
    <3>1. v < ver[l.prof] => writtenAt[l.prof][v + 1] \in Nat
      BY <2>1, <1>2 DEF Version
    <3> QED
      BY <3>1, <2>1, <1>2, <1>3 DEF HeldAt
  <2> QED
    BY <2>1, <1>2, <1>3
<1>5. ProbesInv' /\ probes' \in Seq(Nat) /\ retryAt' \in Nat
  BY <1>1 DEF ProbesInv, OneProbePerInterval
<1>6. ASSUME NEW n \in Local, LocalOK(n), DoneOK(n), req' = [req EXCEPT ![r] = n],
             entries' \in [Profile -> Entry], newer' \in [Profile -> SUBSET Profile],
             bytes' \in Int, EntriesInv'
      PROVE  IInv'
  <2>1. req'[r] = n
    BY <1>2, <1>6
  <2>2. TypeOK'
    BY <1>1, <1>2, <1>5, <1>6 DEF IInv, TypeOK, Local
  <2>3. LocalOK(req[r])' /\ DoneOK(req[r])'
    BY <2>1, <1>1, <1>6 DEF LocalOK, DoneOK, HeldAt
  <2>4. RequestsInv'
    BY <2>3, <1>1, <1>2, <1>6, GoroutineStep
  <2> QED
    BY <2>2, <2>4, <1>5, <1>6 DEF IInv
<1>7. CASE /\ ~live[l.prof][l.base] /\ Evict(l.prof)
           /\ req' = [req EXCEPT ![r] = Done(l, "drop", l.base, l.rules)]
  <2>0. "drop" \in Outcome
    BY DEF Outcome
  <2> DEFINE n == Done(l, "drop", l.base, l.rules)
  <2>1. n \in Local
    BY <1>2, <2>0, DoneFields
  <2>2. /\ n.pc = "done" /\ n.prof = l.prof /\ n.out = "drop"
        /\ n.base = l.base /\ n.rules = l.rules
    BY DEF Done, Idle
  <2>4. req' = [req EXCEPT ![r] = n]
    BY <1>7
  <2> HIDE DEF n
  <2>5. LocalOK(n) /\ DoneOK(n)
    BY <2>2, <1>2, <1>4, <1>7 DEF LocalOK, DoneOK
  <2> QED
    BY <2>1, <2>4, <2>5, <1>1, <1>2, <1>6, <1>7, EvictOK
<1>8. CASE /\ req' = [req EXCEPT ![r] = settingsUnavailable(l)]
           /\ UNCHANGED <<entries, newer, bytes>>
  <2>1. /\ settingsUnavailable(l) \in Local
        /\ LocalOK(settingsUnavailable(l)) /\ DoneOK(settingsUnavailable(l))
    BY <1>1, <1>2, UnavailableOK
  <2>2. /\ entries' \in [Profile -> Entry] /\ newer' \in [Profile -> SUBSET Profile]
        /\ bytes' \in Int /\ EntriesInv'
    BY <1>1, <1>8 DEF IInv, TypeOK, EntriesInv, EntryOK, HeldAt
  <2> QED
    BY <2>1, <2>2, <1>6, <1>8
<1>9. CASE /\ live[l.prof][l.base] /\ l.err = "none"
           /\ Put(l.prof, [base |-> l.base, rules |-> l.rules, fetchedAt |-> clock])
           /\ req' = [req EXCEPT ![r] = Done(l, "fetched", l.base, l.rules)]
  <2>0. "fetched" \in Outcome
    BY DEF Outcome
  <2> DEFINE n == Done(l, "fetched", l.base, l.rules)
             e == [base |-> l.base, rules |-> l.rules, fetchedAt |-> clock]
  <2>1. n \in Local
    BY <1>2, <2>0, DoneFields
  <2>2. /\ n.pc = "done" /\ n.prof = l.prof /\ n.out = "fetched"
        /\ n.base = l.base /\ n.rules = l.rules
    BY DEF Done, Idle
  <2>3. req' = [req EXCEPT ![r] = n]
    BY <1>9
  <2>4. e \in Entry /\ e.base = l.base /\ e.rules = l.rules /\ e.fetchedAt = clock
    BY <1>2 DEF Entry
  <2>5. Put(l.prof, e)
    BY <1>9
  <2> HIDE DEF n, e
  <2>6. LocalOK(n) /\ DoneOK(n)
    BY <2>2, <1>2, <1>3, <1>4, <1>9 DEF LocalOK, DoneOK, HeldAt
  <2>7. EntryOK(l.prof, e)
    BY <2>4, <1>2, <1>3, <1>4, <1>9 DEF EntryOK
  <2> QED
    BY <2>1, <2>3, <2>4, <2>5, <2>6, <2>7, <1>1, <1>2, <1>6, <1>9, PutOK
<1> QED
  BY <1>7, <1>8, <1>9 DEF Fetched

LEMMA ReconnectIInv == IInv /\ Reconnect => IInv'
BY DEF Reconnect, IInv, TypeOK, EntriesInv, EntryOK, HeldAt, RequestsInv, LocalOK,
       DoneOK, ProbesInv, OneProbePerInterval

\* Every step keeps the inductive invariant.
LEMMA NextIInv == IInv /\ [Next]_vars => IInv'
<1> SUFFICES ASSUME IInv, [Next]_vars PROVE IInv'
  OBVIOUS
<1>1. CASE UNCHANGED vars
  BY <1>1 DEF vars, IInv, TypeOK, EntriesInv, EntryOK, HeldAt, RequestsInv, LocalOK,
              DoneOK, ProbesInv, OneProbePerInterval
<1>2. CASE \E r \in Request : Query(r) \/ Step(r)
  BY <1>2, GetIInv, FetchAllowedLoadIInv, FetchAllowedSwapIInv, Round1IInv,
     Round2IInv, FetchFailedIInv, RulesFailedIInv, FetchedIInv, RespondIInv
     DEF Query, Step
<1> QED
  BY <1>1, <1>2, TickIInv, StoreWriteIInv, ReconnectIInv, ConstantsAssumption DEF Next

\* Every reachable state satisfies the inductive invariant.
LEMMA Invariance == Spec => []IInv
BY InitIInv, NextIInv, PTL DEF Spec

\* Settings the store held d units ago are at most d out of date.
LEMMA HeldIsRecent ==
  ASSUME IInv, NEW p \in Profile, NEW v \in Nat, NEW d \in Nat, HeldAt(p, v, clock - d)
  PROVE  OutOfDate(p, v) <= d
<1> USE ConstantsAssumption
<1>1. /\ clock \in Nat /\ ver \in [Profile -> Version]
      /\ writtenAt \in [Profile -> [Version -> Nat]]
  BY DEF IInv, TypeOK
<1>2. v < ver[p] => writtenAt[p][v + 1] \in Nat
  BY <1>1 DEF HeldAt, Version
<1> QED
  BY <1>1, <1>2 DEF HeldAt, OutOfDate, Version

\* Type correctness of the settings cache and of the goroutines that use it.
THEOREM TypeCorrect == Spec => []TypeOK
<1>1. IInv => TypeOK
  BY DEF IInv
<1> QED
  BY <1>1, Invariance, PTL

\* Settings served as current were the store's less than TTL + Deadline ago:
\* loadProfileSettings with any number of concurrent queries and writes.
THEOREM ServedRecent == Spec => []ServedIsRecent
<1>1. IInv => ServedIsRecent
  <2> SUFFICES ASSUME IInv, TTL > 0, NEW r \in Request
               PROVE  /\ req[r].out \in {"fresh", "fetched"} =>
                           /\ OutOfDate(req[r].prof, req[r].base) < TTL + Deadline
                           /\ OutOfDate(req[r].prof, req[r].rules) < TTL + Deadline
                      /\ req[r].out = "fetched" =>
                           OutOfDate(req[r].prof, req[r].base) <= Deadline
    BY DEF ServedIsRecent
  <2> USE ConstantsAssumption
  <2>1. /\ req[r] \in Local /\ LocalOK(req[r]) /\ DoneOK(req[r]) /\ clock \in Nat
        /\ ver \in [Profile -> Version]
        /\ writtenAt \in [Profile -> [Version -> Nat]]
    BY ReqFacts DEF IInv, RequestsInv
  <2>2. req[r].out # "none" => req[r].prof \in Profile
    BY <2>1 DEF LocalOK
  <2>3. ASSUME NEW p \in Profile, NEW v \in Nat, NEW d \in Nat, HeldAt(p, v, clock - d)
        PROVE  OutOfDate(p, v) <= d
    BY <2>3, HeldIsRecent
  <2>4. req[r].base \in Nat /\ req[r].rules \in Nat
    BY <2>1 DEF Local
  <2>5. CASE req[r].out = "fresh"
    <3>1. /\ HeldAt(req[r].prof, req[r].base, clock - (TTL + Deadline - 1))
          /\ HeldAt(req[r].prof, req[r].rules, clock - (TTL + Deadline - 1))
      <4>1. clock - TTL - Deadline + 1 = clock - (TTL + Deadline - 1)
        BY <2>1
      <4> QED
        BY <4>1, <2>1, <2>5 DEF DoneOK
    <3>2. /\ OutOfDate(req[r].prof, req[r].base) <= TTL + Deadline - 1
          /\ OutOfDate(req[r].prof, req[r].rules) <= TTL + Deadline - 1
      BY <3>1, <2>2, <2>3, <2>4, <2>5
    <3>3. \A p \in Profile, v \in Nat : HeldAt(p, v, clock - (TTL + Deadline - 1)) => OutOfDate(p, v) \in Int
      BY <2>1 DEF OutOfDate, HeldAt, Version
    <3> QED
      BY <3>1, <3>2, <3>3, <2>2, <2>4, <2>5
  <2>6. CASE req[r].out = "fetched"
    <3>1. /\ OutOfDate(req[r].prof, req[r].base) <= Deadline
          /\ OutOfDate(req[r].prof, req[r].rules) <= Deadline
      BY <2>1, <2>2, <2>3, <2>4, <2>6 DEF DoneOK
    <3>2. \A p \in Profile, v \in Nat : HeldAt(p, v, clock - Deadline) => OutOfDate(p, v) \in Int
      BY <2>1 DEF OutOfDate, HeldAt, Version
    <3>3. HeldAt(req[r].prof, req[r].base, clock - Deadline) /\ HeldAt(req[r].prof, req[r].rules, clock - Deadline)
      BY <2>1, <2>6 DEF DoneOK
    <3> QED
      BY <3>1, <3>2, <3>3, <2>2, <2>4, <2>6
  <2> QED
    BY <2>5, <2>6
<1> QED
  BY <1>1, Invariance, PTL

\* Probe grants of FetchAllowed during one outage are an interval apart.
THEOREM ProbesSpaced == Spec => []OneProbePerInterval
<1>1. IInv => OneProbePerInterval
  BY DEF IInv, ProbesInv
<1> QED
  BY <1>1, Invariance, PTL

\* For any number of profiles, requests and outages, a query is dropped only on
\* the store's word, and settings are served only whole and of a profile that
\* existed.
THEOREM Answers == Spec => []AnswerMatchesStore
<1> USE ConstantsAssumption
<1>1. IInv => AnswerMatchesStore
  <2> SUFFICES ASSUME IInv, NEW r \in Request
               PROVE  /\ req[r].out = "drop" =>
                           /\ ~live[req[r].prof][req[r].base]
                           /\ OutOfDate(req[r].prof, req[r].base) <= Deadline
                      /\ req[r].out \in {"fresh", "stale", "fetched"} =>
                           /\ live[req[r].prof][req[r].base]
                           /\ req[r].rules >= req[r].base
    BY DEF AnswerMatchesStore
  <2>1. /\ LocalOK(req[r]) /\ DoneOK(req[r]) /\ req[r] \in Local
        /\ clock \in Nat /\ Deadline \in Nat /\ ver \in [Profile -> Version]
        /\ writtenAt \in [Profile -> [Version -> Nat]]
    BY ReqFacts DEF IInv, RequestsInv, TypeOK
  <2>2. CASE req[r].out = "drop"
    <3>1. /\ HeldAt(req[r].prof, req[r].base, clock - Deadline)
          /\ ~live[req[r].prof][req[r].base]
          /\ req[r].prof \in Profile /\ req[r].base \in Nat
      BY <2>1, <2>2 DEF LocalOK, DoneOK, Local
    <3>3. OutOfDate(req[r].prof, req[r].base) <= Deadline
      BY <2>1, <3>1, HeldIsRecent
    <3> QED
      BY <2>2, <3>1, <3>3
  <2>3. CASE req[r].out \in {"fresh", "stale", "fetched"}
    BY <2>1, <2>3 DEF DoneOK
  <2> QED
    BY <2>2, <2>3
<1> QED
  BY <1>1, Invariance, PTL

=============================================================================
