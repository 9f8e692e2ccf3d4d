------------------------------ MODULE AppPages ------------------------------
(***************************************************************************)
(* What the pages of the signed in web application share: the store, the   *)
(* page that is mounted, the server's profiles and the handlers that are   *)
(* waiting for the server.  A handler closes over the profile that was     *)
(* active when it started, sends its changes one after another, reads the  *)
(* profile back and puts it into the store with setActiveProfile; it goes  *)
(* on when its page is gone or another profile is active.                  *)
(***************************************************************************)
EXTENDS AppStore, SequencesExt, TLC

CONSTANTS ProfileIds,  \* profiles an account may have
          Pages,       \* the pages of an instance
          Fields,      \* settings of the settings page; each has two values
          MaxClicks,   \* bound: actions of the user
          MaxCalls,    \* bound: handlers the user starts while others wait
          MaxFaults    \* bound: requests that fail

ASSUME BoundsAssumption == {MaxClicks, MaxCalls, MaxFaults} \subseteq Nat

VARIABLES
    store,    \* the global store
    page,     \* the mounted page's state
    calls,    \* handlers waiting for the server
    answers,  \* profiles read but not delivered yet, in the order they were read
    db,       \* the server's profiles
    behind,   \* profiles whose copies in the store are known to be out of date:
              \* an answer overtook a newer one, or a change was never read back
    clicks,   \* actions of the user left
    faults,   \* failures left
    menu      \* the profile menu of the header; the steps of a page leave it alone

pageVars == <<store, page, calls, answers, db, behind, clicks, faults, menu>>

Active == store.activeProfile
ActiveId == Active.id

\* The user acts on a mounted page; a profile is active and no dialog of the header
\* is open.
Click(name) ==
    /\ page.name = name /\ Active # Null /\ clicks > 0
    /\ menu.dialog = "none"
    /\ clicks' = clicks - 1

Quiet == calls = {} /\ answers = <<>>

\* A handler: the profile it closed over, the changes it still has to send, whether
\* it has sent any, and what it does when one fails: stop, or read the profile
\* back all the same (revert).  It is mine while its page is mounted, and alone if
\* it started from an up to date store and nothing else ever ran beside it.
Handler(kind, ops, revert, extra) ==
    [kind |-> kind, id |-> ActiveId, ops |-> ops, sent |-> FALSE, revert |-> revert,
     failed |-> FALSE, mine |-> TRUE, extra |-> extra,
     alone |-> Quiet /\ ActiveId \notin behind]

Start(c, p) ==
    /\ Cardinality(calls) + Len(answers) < MaxCalls
    /\ calls' = {[d EXCEPT !.alone = FALSE] : d \in calls} \cup {c}
    /\ answers' = [i \in DOMAIN answers |->
                      [answers[i] EXCEPT !.call = [@ EXCEPT !.alone = FALSE]]]
    /\ page' = p
    /\ UNCHANGED <<store, db, behind, faults>>

\* A change of the page alone.
Local(p) == page' = p /\ UNCHANGED <<store, calls, answers, db, behind, faults>>

\* A read of the list of profiles.
Refetch(kind, id, extra) ==
    [kind |-> kind, id |-> id, ops |-> <<>>, sent |-> FALSE, revert |-> FALSE, failed |-> FALSE,
     mine |-> FALSE, extra |-> extra, alone |-> FALSE]

\* Mounting another page while the handlers cs wait and the answers as are under way:
\* these go on, but the state they would change is gone.  The loader has served the
\* store and asks for the list again.
Mount(p, cs, as) ==
    /\ page' = p
    /\ calls' = {[c EXCEPT !.mine = FALSE] : c \in cs} \cup {Refetch("revalidate", 0, Null)}
    /\ answers' = [i \in DOMAIN as |-> [as[i] EXCEPT !.call = [@ EXCEPT !.mine = FALSE]]]
-----------------------------------------------------------------------------
(* The server.  A change is [do, arg] on one profile. *)

RuleIds(p) == {p.rules[i].id : i \in DOMAIN p.rules}
RuleKeys(p, values) == {<<p.id, v>> : v \in values}
RuleOf(p, r) == p.rules[CHOOSE i \in DOMAIN p.rules : p.rules[i].id = r]

MapRules(p, Change(_)) ==
    [p EXCEPT !.rules = [i \in DOMAIN @ |-> Change(@[i])]]

\* The rules named in ids, in that order, before the others.
Reordered(p, ids) ==
    LET known == SelectSeq(ids, LAMBDA r : r \in RuleIds(p))
    IN [p EXCEPT !.rules = [i \in DOMAIN known |-> RuleOf(p, known[i])]
                           \o SelectSeq(@, LAMBDA r : r.id \notin ToSet(known))]

ServeRules(op, p) ==
    CASE op.do = "addRules" ->   \* skips the values the list has
           [p EXCEPT !.rules = @ \o SetToSeq({[id |-> r, list |-> op.list, group |-> ""] :
                                              r \in RuleKeys(p, op.arg) \ RuleIds(p)})]
      [] op.do = "deleteRules" ->
           [p EXCEPT !.rules = SelectSeq(@, LAMBDA r : r.id \notin op.arg)]
      [] op.do = "editRule" ->
           MapRules(p, LAMBDA r : IF r.id = op.arg
                                  THEN [r EXCEPT !.list = op.list, !.group = op.group] ELSE r)
      [] op.do = "order" -> Reordered(p, op.arg)
      [] op.do = "renameGroup" ->
           MapRules([p EXCEPT !.groups = [i \in DOMAIN @ |-> IF @[i] = op.arg THEN op.group ELSE @[i]]],
                    LAMBDA r : IF r.group = op.arg THEN [r EXCEPT !.group = op.group] ELSE r)
      [] op.do = "deleteGroup" ->
           MapRules([p EXCEPT !.groups = SelectSeq(@, LAMBDA g : g # op.arg)],
                    LAMBDA r : IF r.group = op.arg THEN [r EXCEPT !.group = ""] ELSE r)
      [] op.do = "addGroup" ->
           [p EXCEPT !.groups = IF op.arg \in ToSet(@) THEN @ ELSE Append(@, op.arg)]
      [] OTHER ->   \* orderGroups: unknown names are ignored, omitted groups kept
           LET known == SelectSeq(op.arg, LAMBDA g : g \in ToSet(p.groups))
           IN [p EXCEPT !.groups = known \o SelectSeq(@, LAMBDA g : g \notin ToSet(known))]

Serve(op, p) ==
    CASE op.do = "enable" -> [p EXCEPT !.lists = @ \cup op.arg]
      [] op.do = "disable" -> [p EXCEPT !.lists = @ \ op.arg]
      [] op.do = "patch" -> [p EXCEPT !.settings = [@ EXCEPT ![op.field] = op.arg]]
      [] OTHER -> ServeRules(op, p)

\* The ids of profiles to come; a deleted profile's stays among those behind.
Unused == ProfileIds \ (DOMAIN db \cup behind)

\* A change that names a rule or a profile the server does not have is refused, and
\* so are one profile too many and the deletion of the last one.
Accepts(op, c) ==
    /\ IF c.kind = "create" THEN Unused # {} ELSE c.id \in DOMAIN db
    /\ op.do = "editRule" => op.arg \in RuleIds(db[c.id])
    /\ op.do = "deleteRules" => op.arg \subseteq RuleIds(db[c.id])
    /\ op.do = "order" => ToSet(op.arg) \subseteq RuleIds(db[c.id])
    /\ op.do = "remove" => Cardinality(DOMAIN db) > 1
-----------------------------------------------------------------------------
(* The requests of a handler *)

\* Reads of the whole list, and handlers that end with their request.
Lists == {"revalidate", "selectListed", "afterDelete"}
Saves == {"setting", "prefs", "create", "rename", "remove", "menuRemove"}

\* Handlers whose next step is not simply their next request: a delayed delete, and
\* the composer, which looks at the answer before it reads the profile back.
Special == {"deleteTimer", "compose"} \cup Saves

Finished(c) == calls' = calls \ {c}

\* The next change is made.
Served(c) ==
    /\ c.kind \notin Special
    /\ c.ops # <<>> /\ Accepts(Head(c.ops), c)
    /\ db' = [db EXCEPT ![c.id] = Serve(Head(c.ops), @)]
    /\ calls' = (calls \ {c}) \cup {[c EXCEPT !.ops = Tail(@), !.sent = TRUE]}
    /\ UNCHANGED <<store, page, answers, behind, clicks, faults>>

\* Profile i changes and the change is not read back: the store's copies and what was
\* read before are out of date.
Late(as, i) == [j \in DOMAIN as |-> [as[j] EXCEPT !.late = @ \cup {i}]]
Missed(i) == behind' = behind \cup {i} /\ answers' = Late(answers, i)

\* A change whose answer does not go into the store.
Saved(c, p) ==
    /\ c.ops # <<>> /\ Accepts(Head(c.ops), c)
    /\ db' = [db EXCEPT ![c.id] = Serve(Head(c.ops), @)]
    /\ Finished(c)
    /\ page' = p
    /\ Missed(c.id)
    /\ UNCHANGED <<store, clicks, faults>>

\* The profiles of the account, in an order that stands for the server's.
AllProfiles == LET ids == SetToSeq(DOMAIN db) IN [i \in DOMAIN ids |-> db[ids[i]]]

Answered(c, list) ==
    answers' = Append(answers, [call |-> c, list |-> list, late |-> {}])

\* The profile, or the list of profiles, is read back.
Read(c) ==
    /\ c.ops = <<>> /\ c.kind \notin {"deleteTimer"} \cup Saves
    /\ Finished(c)
    /\ IF c.kind \in Lists THEN Answered(c, AllProfiles)
       ELSE c.id \in DOMAIN db /\ Answered(c, <<db[c.id]>>)
    /\ UNCHANGED <<store, page, db, behind, clicks, faults>>

IdsOf(list) == {list[i].id : i \in DOMAIN list}

\* What is read is delivered in any order; a profile that was read before a copy that
\* is already in the store is late.
Overtakes(i) ==
    LET rest == RemoveAt(answers, i)
    IN [j \in DOMAIN rest |->
           IF j < i THEN [rest[j] EXCEPT !.late = @ \cup (IdsOf(rest[j].list) \cap IdsOf(answers[i].list))]
           ELSE rest[j]]

\* What the answer makes of the store: a list from the loader; a list after a profile
\* was created or renamed, which selects it; one after a profile was deleted, which
\* selects the first profile the handler closed over; or the profile itself.
AfterAnswer(st, a) ==
    LET listed == [st EXCEPT !.profiles = a.list]
        found == {j \in DOMAIN a.list : a.list[j].id = a.call.id}
    IN CASE a.call.kind = "revalidate" -> LoadProfiles(st, a.list)
         [] a.call.kind = "selectListed" ->
              SetActiveProfile(listed, IF found # {} THEN a.list[Min(found)]
                                       ELSE IF a.list # <<>> THEN a.list[1] ELSE Null)
         [] a.call.kind = "afterDelete" -> SetActiveProfile(listed, a.call.extra)
         [] OTHER -> SetActiveProfile(st, a.list[1])

\* The copies the answer leaves in the store that are not the latest read.
Outdated(a) ==
    a.late \cup IF a.call.kind = "afterDelete" /\ a.call.extra # Null THEN {a.call.extra.id} ELSE {}

\* The continuation: the store, and what the handler and the new store make of the
\* page.
Delivered(i, p) ==
    /\ store' = AfterAnswer(store, answers[i])
    /\ behind' = (behind \ IdsOf(answers[i].list)) \cup Outdated(answers[i])
    /\ answers' = Overtakes(i)
    /\ page' = p
    /\ UNCHANGED <<calls, db, clicks, faults>>

\* A request fails: lost, or refused.  The handler's catch ends it with page p, or
\* reads the profile back first.
Fails(c, p) ==
    /\ c.kind # "deleteTimer"
    /\ \/ faults > 0 /\ faults' = faults - 1
       \/ /\ UNCHANGED faults
          /\ IF c.ops = <<>> THEN c.kind \notin Lists /\ c.id \notin DOMAIN db
             ELSE ~Accepts(Head(c.ops), c)
    /\ IF c.revert /\ ~c.failed
       THEN /\ calls' = (calls \ {c}) \cup {[c EXCEPT !.ops = <<>>, !.failed = TRUE]}
            /\ UNCHANGED <<page, behind, answers>>
       ELSE /\ Finished(c)
            /\ page' = p
            /\ IF c.sent THEN Missed(c.id) ELSE UNCHANGED <<behind, answers>>
    /\ UNCHANGED <<store, db, clicks>>
-----------------------------------------------------------------------------
NewProfile(i) ==
    [id |-> i, lists |-> {}, settings |-> [f \in Fields \cup {"rebinding", "name"} |-> FALSE],
     rules |-> <<>>, groups |-> <<>>]
=============================================================================
