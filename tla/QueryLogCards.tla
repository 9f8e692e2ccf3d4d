--------------------------- MODULE QueryLogCards ----------------------------
(***************************************************************************)
(* What the query logs page makes of the rows it holds: the difference     *)
(* between a fetched page and the list (lib/queryLogsDiff.ts), the runs of *)
(* duplicates merged into one card (lib/consolidateLogs.ts), and what a    *)
(* card says of its members (QueryLogCard.tsx, lib/formatOutcome.ts,       *)
(* lib/formatReasons.ts).                                                  *)
(*                                                                         *)
(* A row is <<profile, n>>, the server's identity of the entry; what was   *)
(* logged for it is Logged[profile][n].  The client's address and the      *)
(* protocol are compared with the device and always together with it: they *)
(* are one field, device.                                                  *)
(***************************************************************************)
EXTENDS AppStore, Integers, SequencesExt

CONSTANTS Logged,   \* [profile |-> the records logged for it, oldest first]
          Window,   \* OVERLAP_WINDOW
          MaxSpan   \* MAX_GROUP_SPAN_MS

Entry(r) == Logged[r[1]][r[2]]
RowsOf(s) == {s[i] : i \in DOMAIN s}
-----------------------------------------------------------------------------
(* queryLogsDiff.ts *)

LogIdentity(r) == r

\* The rows before the first one that is near the head of the list.
ComputeNewQueryLogs(fetched, current) ==
    LET known == {LogIdentity(current[i]) : i \in 1 .. Min({Window, Len(current)})}
        met == {i \in DOMAIN fetched : LogIdentity(fetched[i]) \in known}
    IN [rows |-> IF met = {} THEN fetched ELSE SubSeq(fetched, 1, Min(met) - 1),
        overlap |-> met # {}]
-----------------------------------------------------------------------------
(* consolidateLogs.ts *)

\* A logged name may end in a dot and is compared without it.
NormalizeDomain(d) == d.name

\* A run is not extended over a missing time.
WithinSpan(anchor, time) ==
    /\ anchor # Null /\ time # Null
    /\ anchor - time <= MaxSpan /\ time - anchor <= MaxSpan

Signature(r) == [domain |-> NormalizeDomain(Entry(r).domain), status |-> Entry(r).status,
                 device |-> Entry(r).device]

\* Mutant: a run goes on while a row is close to the one before it.
ExtendsLast(group, r) ==
    /\ Signature(r) = Signature(Last(group))
    /\ WithinSpan(Entry(Last(group)).time, Entry(r).time)

\* The window is that of the run's first member.
Extends(group, r) ==
    /\ Signature(r) = Signature(Head(group))
    /\ WithinSpan(Entry(Head(group)).time, Entry(r).time)

\* The groups in the order of the list; a group is the sequence of its members.
ConsolidateLogs(logs) ==
    LET Groups[i \in 0 .. Len(logs)] ==
            IF i = 0 THEN <<>>
            ELSE LET before == Groups[i - 1]
                 IN IF before # <<>> /\ Extends(Last(before), logs[i])
                    THEN [before EXCEPT ![Len(before)] = Append(@, logs[i])]
                    ELSE Append(before, <<logs[i]>>)
    IN Groups[Len(logs)]

ToSingletonGroups(logs) == [i \in DOMAIN logs |-> <<logs[i]>>]

UniqueInOrder(s) ==
    LET firsts == {i \in DOMAIN s : s[i] # Null /\ \A j \in 1 .. i - 1 : s[j] # s[i]}
    IN SelectSeq([i \in DOMAIN s |-> IF i \in firsts THEN s[i] ELSE Null], LAMBDA v : v # Null)
-----------------------------------------------------------------------------
(* formatOutcome.ts *)

FailureOutcomes == {"blocked", "servfail_dnssec", "servfail_upstream", "timeout",
                    "network_error", "refused", "filter_unavailable"}

\* blocked and servfail_dnssec have labels of their own on the card.
UnansweredOutcomes == FailureOutcomes \ {"blocked", "servfail_dnssec"}

FormatOutcome(e) == IF e.outcome # Null THEN e.outcome
                    ELSE IF e.code # Null THEN e.code ELSE "Unknown"

OutcomePairs(members) ==
    UniqueInOrder([i \in DOMAIN members |->
        LET e == Entry(members[i])
        IN [type |-> e.type, label |-> FormatOutcome(e),
            failure |-> e.outcome \in FailureOutcomes]])

\* Mutant: only the row that stands for the group is asked.
HasUnansweredRepresentative(members) == Entry(Head(members)).outcome \in UnansweredOutcomes

HasUnansweredMember(members) ==
    \E i \in DOMAIN members : Entry(members[i]).outcome \in UnansweredOutcomes
-----------------------------------------------------------------------------
(* formatReasons.ts.  A reason is [kind, id]; id is Null but for the reasons that
   name a blocklist or a service. *)

Given(reasons, kind) == \E i \in DOMAIN reasons : reasons[i].kind = kind /\ reasons[i].id = Null

Ids(reasons, kind) ==
    UniqueInOrder([i \in DOMAIN reasons |-> IF reasons[i].kind = kind THEN reasons[i].id ELSE Null])

Chip(kind, id, qualifiers) == [kind |-> kind, id |-> id, qualifiers |-> qualifiers]

ChipIf(given, chip) == IF given THEN <<chip>> ELSE <<>>

\* Named reasons replace the generic one.
Tier(ids, kind, generic, qualifiers) ==
    IF ids # <<>> THEN [i \in DOMAIN ids |-> Chip(kind, ids[i], qualifiers)]
    ELSE ChipIf(generic, Chip(kind, Null, qualifiers))

BlocklistSignal(reasons) ==
    Ids(reasons, "blocklist") # <<>> \/ Given(reasons, "blocklist") \/ Given(reasons, "subdomain")

\* The qualifier of a followed CNAME belongs to the blocklist chip if there is one,
\* or if there is nothing else to attach it to.
CnameOnBlocklist(reasons) ==
    Given(reasons, "cname") /\ (BlocklistSignal(reasons) \/ ~Given(reasons, "custom_rule"))

FormatReasons(reasons) ==
    LET onList == CnameOnBlocklist(reasons)
        qualifiers == (IF Given(reasons, "subdomain") THEN {"subdomain"} ELSE {})
                      \cup (IF onList THEN {"cname"} ELSE {})
        onRule == IF Given(reasons, "cname") /\ ~onList THEN {"cname"} ELSE {}
    IN ChipIf(Given(reasons, "dnssec"), Chip("dnssec", Null, {}))
       \o Tier(Ids(reasons, "blocklist"), "blocklist",
               Given(reasons, "blocklist") \/ qualifiers # {}, qualifiers)
       \o Tier(Ids(reasons, "service"), "service", Given(reasons, "service"), {})
       \o ChipIf(Given(reasons, "rebinding"), Chip("rebinding", Null, {}))
       \o ChipIf(Given(reasons, "custom_rule"), Chip("custom_rule", Null, onRule))
       \o ChipIf(Given(reasons, "default"), Chip("default", Null, {}))
-----------------------------------------------------------------------------
(* QueryLogCard.tsx *)

Reasons(group) == FlattenSeq([i \in DOMAIN group |-> Entry(group[i]).reasons])

\* The representative's status stands for the group's.
IsBlocked(group) == Entry(Head(group)).status = "blocked"

IsUnanswered(group) == ~IsBlocked(group) /\ HasUnansweredMember(group)

\* A row whose domain is not logged has no quick rule.
QuickRuleAvailable(group) == NormalizeDomain(Entry(Head(group)).domain) # Null

DefaultAction(group) == IF IsBlocked(group) THEN "allowlist" ELSE "denylist"
=============================================================================
