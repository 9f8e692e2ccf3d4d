-------------------------- MODULE QueryFiltering ---------------------------
(***************************************************************************)
(* One admitted DNS query in the proxy: the domain phase's stages run      *)
(* concurrently, the name is resolved only if they let it through, the IP  *)
(* phase's stages judge the answer, and the reply is the answer, a block   *)
(* reply or SERVFAIL.  Meanwhile the blocklists service publishes new      *)
(* versions of the lists the stages read, one Redis command at a time.     *)
(*                                                                         *)
(* A domain name is the sequence of its labels, lower case, no trailing    *)
(* dot.  An answer is its CNAME targets in order and its addresses.  The   *)
(* profile's settings are the snapshot the request context carries.        *)
(***************************************************************************)
EXTENDS Integers, Sequences, FiniteSets

CONSTANTS
    Queries,            \* [name, qtype]
    CheckNames,         \* names below DnsCheckDomain
    Profiles,           \* [blocklists, subdomains, default, rules, services, rebinding]
    Answers,            \* [cnames, ips]
    Lists,              \* blocklist ids
    MaxVersion,         \* versions of a list are 1 .. MaxVersion
    Listed,             \* Listed[l][v]: members of blocklist:<l>
    Excepted,           \* Excepted[l][v]: members of blocklist:<l>:exceptions
    ServiceDomains,     \* ServiceDomains[s], ServiceASNs[s]: catalog entry s
    ServiceASNs,
    ASN,                \* ASN[ip]
    PrivateIPs,         \* isPrivateRebindingIP
    AllowSuffixes,      \* RebindingConfig.AllowSuffixes
    RebindingEnabled,   \* RebindingConfig.Enabled
    UncloakingEnabled,  \* FilteringConfig.CNAMEUncloakingEnabled
    CatalogLoads,       \* what ServicesCatalog.Get may do: subset of BOOLEAN
    MaxFaults,          \* bound on failed store reads
    NoAnswer            \* dctx.Res = nil

Versions == 1 .. MaxVersion
Names == Seq(STRING) \ {<<>>}

ASSUME FilteringAssumption ==
    /\ MaxVersion \in Nat \ {0} /\ MaxFaults \in Nat
    /\ \A p \in Profiles : p.blocklists \in Seq(Lists)
    /\ \A q \in Queries : q.name \in Names
    /\ \A a \in Answers : a.cnames \in Seq(Names)
    /\ \A l \in Lists, v \in Versions : Listed[l][v] \subseteq Names /\ Excepted[l][v] \subseteq Names
    /\ NoAnswer \notin Answers
    /\ CatalogLoads \subseteq BOOLEAN /\ CatalogLoads # {}
    /\ RebindingEnabled \in BOOLEAN /\ UncloakingEnabled \in BOOLEAN

VARIABLES
    q,                  \* the query
    prof,               \* reqCtx: the profile's settings
    pc,                 \* next step of the request goroutine
    out,                \* out[s]: outcome of stage s
    scan,               \* where the stage that reads the lists has got to
    partial,            \* reqCtx.PartialFilteringResults
    status,             \* reqCtx.FilterResult.Status
    asked,              \* the name has been sent to the upstream
    res,                \* dctx.Res from the upstream
    reply,              \* what the client gets
    liveVer,            \* Redis: version of blocklist:<l>
    excVer,             \* Redis: version of blocklist:<l>:exceptions
    moved,              \* a list has been published since the query came in
    faults              \* store reads of this query that failed

lists == <<liveVer, excVer, moved>>
vars == <<q, prof, pc, out, scan, partial, status, asked, res, reply, liveVer,
          excVer, moved, faults>>

DomainStages == {"blocklists", "custom_rules", "service_domains", "default_rule"}
IPStages == {"services", "rebinding", "ip_custom_rules", "cname"}
Stages == DomainStages \cup IPStages

TierDefaultRule == 0
TierBlocklists == 100
TierServices == 100
TierRebinding == 150
TierCustomRules == 200

Result(dec, tier) == [dec |-> dec, tier |-> tier]
Pending == Result("pending", 0)
Failed == Result("failed", 0)
Results == [dec : {"none", "allow", "block"},
            tier : {TierDefaultRule, TierBlocklists, TierRebinding, TierCustomRules}]

\* Where a scan stands: list l of the profile, name t of the names to check,
\* label k where the next candidate starts, "entry" or "except" reads, and the
\* version whose entry matched.
NoScan == [names |-> <<>>, t |-> 1, l |-> 1, k |-> 1, mode |-> "entry"]

-----------------------------------------------------------------------------
(* Matching *)

From(n, k) == SubSeq(n, k, Len(n))
HasSuffix(n, s) == Len(s) <= Len(n) /\ From(n, Len(n) - Len(s) + 1) = s
HasPrefix(n, s) == Len(s) <= Len(n) /\ SubSeq(n, 1, Len(s)) = s

\* matchDomainPattern: "a.b" | "*.a.b" or ".a.b" | "a.*" | "*a*"
Matches(n, rule) ==
    \/ rule.kind = "exact" /\ n = rule.value
    \/ rule.kind = "subtree" /\ HasSuffix(n, rule.value)
    \/ rule.kind = "tld" /\ HasPrefix(n, rule.value) /\ n # rule.value
    \/ rule.kind = "contains" /\ \E k \in 1 .. Len(n) : HasPrefix(From(n, k), rule.value)

\* matchIPRule and matchASNRule; no ASN matches when the lookup finds none
MatchesIP(ip, rule) ==
    \/ rule.kind = "ip" /\ ip = rule.value
    \/ rule.kind = "asn" /\ ASN[ip] # 0 /\ ASN[ip] = rule.value

Actions(matching) == {r.action : r \in matching}

\* Mutant: the first rule that matches decides, and it may be the allow
QNameDecisionLax(n) ==
    LET acts == Actions({r \in prof.rules : Matches(n, r)}) IN
    IF "allow" \in acts THEN "allow" ELSE IF "block" \in acts THEN "block" ELSE "none"

\* DomainFilter.filterCustomRules: a block returns at once
QNameDecision(n) ==
    LET acts == Actions({r \in prof.rules : Matches(n, r)}) IN
    IF "block" \in acts THEN "block" ELSE IF "allow" \in acts THEN "allow" ELSE "none"

\* IPFilter.filterCustomRules: block before allow
IPDecision(ips) ==
    LET acts == Actions({r \in prof.rules : \E ip \in ips : MatchesIP(ip, r)}) IN
    IF "block" \in acts THEN "block" ELSE IF "allow" \in acts THEN "allow" ELSE "none"

\* filterCNAME's own precedence: allow before block
TargetsDecision(targets) ==
    LET acts == Actions({r \in prof.rules : \E i \in DOMAIN targets : Matches(targets[i], r)})
    IN IF "allow" \in acts THEN "allow" ELSE IF "block" \in acts THEN "block" ELSE "none"

\* extractCNAMETargets, the answers whose target it keeps: not the QNAME, and
\* a target twice once
Kept(a) ==
    {i \in DOMAIN a.cnames : a.cnames[i] # q.name /\ \A j \in 1 .. i - 1 : a.cnames[j] # a.cnames[i]}

\* Their targets, in the order of the answer
CNAMETargets(a) ==
    LET nth(k) == CHOOSE i \in Kept(a) : Cardinality({j \in Kept(a) : j <= i}) = k
    IN [k \in 1 .. Cardinality(Kept(a)) |-> a.cnames[nth(k)]]

\* Mutant: a block outranks every allow
AggregateBlockFirst(results) ==
    IF \E r \in results : r.dec = "block" THEN "blocked" ELSE "processed"

\* getFinalFilteringResult
Aggregate(results) ==
    IF \E r \in results : r.dec = "allow" THEN "processed"
    ELSE IF \E r \in results : r.dec = "block" THEN "blocked" ELSE "processed"

-----------------------------------------------------------------------------
(* The stages that need no store read *)

Phase(p) == IF p = "domain" THEN DomainStages ELSE IPStages

Finish(s, r) == out' = [out EXCEPT ![s] = r]

StageStep(s, p) ==
    /\ pc = p /\ out[s] = Pending
    /\ UNCHANGED <<q, prof, pc, partial, status, asked, res, reply, lists>>

\* DomainFilter.filterCustomRules
CustomRules ==
    /\ StageStep("custom_rules", "domain")
    /\ Finish("custom_rules", Result(QNameDecision(q.name), TierCustomRules))
    /\ UNCHANGED <<scan, faults>>

\* filterServiceDomains: a catalog that does not load leaves the stage inert
ServiceDomainsStage ==
    /\ StageStep("service_domains", "domain")
    /\ \E loaded \in CatalogLoads :
        LET hit == \E s \in prof.services : \E d \in ServiceDomains[s] : HasSuffix(q.name, d)
        IN Finish("service_domains",
                  Result(IF loaded /\ hit THEN "block" ELSE "none", TierServices))
    /\ UNCHANGED <<scan, faults>>

\* applyDefaultRule
DefaultRule ==
    /\ StageStep("default_rule", "domain")
    /\ Finish("default_rule", Result(IF prof.default = "block" THEN "block" ELSE "none",
                                     TierDefaultRule))
    /\ UNCHANGED <<scan, faults>>

\* filterServices
Services ==
    /\ StageStep("services", "ip")
    /\ \E loaded \in CatalogLoads :
        LET hit == res # NoAnswer /\ \E s \in prof.services, ip \in res.ips :
                        ASN[ip] # 0 /\ ASN[ip] \in ServiceASNs[s]
        IN Finish("services", Result(IF loaded /\ hit THEN "block" ELSE "none", TierServices))
    /\ UNCHANGED <<scan, faults>>

\* filterRebinding
Rebinding ==
    /\ StageStep("rebinding", "ip")
    /\ LET hit == /\ res # NoAnswer /\ RebindingEnabled /\ prof.rebinding
                  /\ \A s \in AllowSuffixes : ~HasSuffix(q.name, s)
                  /\ res.ips \cap PrivateIPs # {}
       IN Finish("rebinding", Result(IF hit THEN "block" ELSE "none", TierRebinding))
    /\ UNCHANGED <<scan, faults>>

\* IPFilter.filterCustomRules
IPCustomRules ==
    /\ StageStep("ip_custom_rules", "ip")
    /\ Finish("ip_custom_rules",
              Result(IF res = NoAnswer THEN "none" ELSE IPDecision(res.ips), TierCustomRules))
    /\ UNCHANGED <<scan, faults>>

-----------------------------------------------------------------------------
(* The stages that read the lists: blocklists and cname *)

\* The stage that is scanning
Scanner == IF pc = "domain" THEN "blocklists" ELSE "cname"
Name == scan.names[scan.t]
List == prof.blocklists[scan.l]
Candidate == From(Name, scan.k)
Scanning == scan.names # <<>> /\ out[Scanner] = Pending

\* Mutant: the walk includes the TLD
NextCandidateTLD(n, k) ==
    IF prof.subdomains # "block" THEN 0
    ELSE IF k = 1 THEN (IF Len(n) > 1 THEN Len(n) ELSE 0)
    ELSE (IF k > 2 THEN k - 1 ELSE 0)

\* matchDomainAgainstBlocklist, the candidate after the one at label k: the
\* parents from two labels up; 0 when there is none
NextCandidate(n, k) ==
    IF prof.subdomains # "block" THEN 0
    ELSE IF k = 1 THEN (IF Len(n) > 2 THEN Len(n) - 1 ELSE 0)
    ELSE (IF k > 2 THEN k - 1 ELSE 0)

Goto(t, l) == scan' = [scan EXCEPT !.t = t, !.l = l, !.k = 1, !.mode = "entry"]

\* matchDomainAgainstBlocklists and filterCNAME: on to the next list, else to
\* the next name, else nothing matched
Advance ==
    IF scan.l < Len(prof.blocklists) THEN Goto(scan.t, scan.l + 1) /\ UNCHANGED out
    ELSE IF scan.t < Len(scan.names) THEN Goto(scan.t + 1, 1) /\ UNCHANGED out
    ELSE Finish(Scanner, Result("none", TierBlocklists)) /\ UNCHANGED scan

Begin(s, names) ==
    IF names = <<>> \/ prof.blocklists = <<>>
    THEN Finish(s, Result("none", TierBlocklists)) /\ UNCHANGED scan
    ELSE scan' = [NoScan EXCEPT !.names = names] /\ UNCHANGED out

\* filterBlocklists up to the first read
Blocklists ==
    /\ StageStep("blocklists", "domain") /\ scan.names = <<>>
    /\ Begin("blocklists", <<q.name>>)
    /\ UNCHANGED faults

\* filterCNAME up to the first read: custom rules on the targets decide first
CNAME ==
    /\ StageStep("cname", "ip") /\ scan.names = <<>>
    /\ LET targets == IF UncloakingEnabled /\ res # NoAnswer THEN CNAMETargets(res) ELSE <<>>
           dec == TargetsDecision(targets)
       IN IF dec # "none"
          THEN Finish("cname", Result(dec, TierCustomRules)) /\ UNCHANGED scan
          ELSE Begin("cname", targets)
    /\ UNCHANGED faults

ScanStep(mode) ==
    /\ pc \in {"domain", "ip"} /\ Scanning /\ scan.mode = mode
    /\ StageStep(Scanner, pc)

\* GetBlocklistEntry; a match turns to the exceptions, which names of one
\* label cannot have
ReadEntry ==
    /\ ScanStep("entry")
    /\ IF Candidate \in Listed[List][liveVer[List]]
       THEN /\ scan' = [scan EXCEPT !.k = 1, !.mode = "except"]
            /\ IF Len(Name) = 1 THEN Finish(Scanner, Result("block", TierBlocklists))
               ELSE UNCHANGED out
       ELSE IF NextCandidate(Name, scan.k) # 0
            THEN scan' = [scan EXCEPT !.k = NextCandidate(Name, @)] /\ UNCHANGED out
            ELSE Advance
    /\ UNCHANGED faults

\* GetBlocklistExceptionEntry: the name and its parents down to two labels; an
\* exception withdraws the match of its own list only
ReadException ==
    /\ ScanStep("except")
    /\ IF Candidate \in Excepted[List][excVer[List]] THEN Advance
       ELSE IF scan.k < Len(Name) - 1
            THEN scan' = [scan EXCEPT !.k = @ + 1] /\ UNCHANGED out
            ELSE Finish(Scanner, Result("block", TierBlocklists)) /\ UNCHANGED scan
    /\ UNCHANGED faults

\* A read fails, or StoreDeadline or the client's hang-up ends the phase
ReadFails ==
    /\ \E mode \in {"entry", "except"} : ScanStep(mode)
    /\ faults < MaxFaults /\ faults' = faults + 1
    /\ Finish(Scanner, Failed)
    /\ UNCHANGED scan

-----------------------------------------------------------------------------
(* The request goroutine *)

\* ServeDNS, for an admitted request, up to the first phase; dnsCheckHandler
\* asks the dnscheck server itself, and nobody answers if that fails
ServeDNS ==
    /\ pc = "done"
    /\ q' \in Queries /\ prof' \in Profiles
    /\ pc' = IF q'.name \in CheckNames THEN "done" ELSE "domain"
    /\ reply' \in IF q'.name \in CheckNames THEN {"check", "nothing"} ELSE {"none"}
    /\ out' = [s \in Stages |-> Pending]
    /\ scan' = NoScan /\ partial' = {} /\ status' = "none" /\ asked' = FALSE
    /\ res' = NoAnswer /\ moved' = FALSE /\ faults' = 0
    /\ UNCHANGED <<liveVer, excVer>>

\* handleRequest and postResolve: Blocked and Unavailable are final
NextStep(p, st) == IF p = "domain" /\ st = "processed" THEN "resolve" ELSE "respond"

\* runStages: a stage that failed contributes no result
Gathered(p) == {out[s] : s \in {t \in Phase(p) : out[t] # Failed}}

\* runStages after wg.Wait, and Execute
Join ==
    /\ pc \in {"domain", "ip"}
    /\ \A s \in Phase(pc) : out[s] # Pending
    /\ partial' = partial \cup Gathered(pc)
    /\ status' = IF \E s \in Phase(pc) : out[s] = Failed THEN "unavailable"
                 ELSE Aggregate(partial')
    /\ pc' = NextStep(pc, status')
    /\ scan' = NoScan
    /\ UNCHANGED <<q, prof, out, asked, res, reply, lists, faults>>

\* Proxy.Resolve: an answer, or an error and no response
Resolve ==
    /\ pc = "resolve"
    /\ res' \in Answers \cup {NoAnswer}
    /\ asked' = TRUE /\ pc' = "ip"
    /\ UNCHANGED <<q, prof, out, scan, partial, status, reply, lists, faults>>

\* Mutant: an unavailable verdict leaves the upstream's answer in place
ReplyForLax(st) ==
    IF st = "blocked" THEN (IF q.qtype \in {"A", "AAAA"} THEN "zero" ELSE "nodata")
    ELSE IF res = NoAnswer THEN "nothing" ELSE "answer"

\* respond
ReplyFor(st) ==
    IF st = "unavailable" THEN "servfail"
    ELSE IF st = "blocked" THEN (IF q.qtype \in {"A", "AAAA"} THEN "zero" ELSE "nodata")
    ELSE IF res = NoAnswer THEN "nothing" ELSE "answer"

Respond ==
    /\ pc = "respond"
    /\ reply' = ReplyFor(status) /\ pc' = "done"
    /\ UNCHANGED <<q, prof, out, scan, partial, status, asked, res, lists, faults>>

-----------------------------------------------------------------------------
(* The blocklists service, as far as a reader of Redis can see it *)

\* ProcessBlocklist: CreateOrUpdateBlocklistExceptions with the next version,
\* then CreateOrUpdateBlocklist; a run that dies between the two is followed
\* by one with a newer version
PublishList(l) ==
    \/ excVer[l] < MaxVersion /\ excVer' = [excVer EXCEPT ![l] = @ + 1] /\ UNCHANGED liveVer
    \/ liveVer[l] < excVer[l] /\ liveVer' = [liveVer EXCEPT ![l] = excVer[l]] /\ UNCHANGED excVer

Publish ==
    /\ \E l \in Lists : PublishList(l)
    /\ moved' = TRUE
    /\ UNCHANGED <<q, prof, pc, out, scan, partial, status, asked, res, reply, faults>>

-----------------------------------------------------------------------------

\* Before the first query
Init ==
    /\ q \in Queries /\ prof \in Profiles /\ pc = "done"
    /\ out = [s \in Stages |-> Pending] /\ scan = NoScan /\ partial = {}
    /\ status = "none" /\ asked = FALSE /\ res = NoAnswer /\ reply = "none"
    /\ liveVer = [l \in Lists |-> 1] /\ excVer = [l \in Lists |-> 1]
    /\ moved = FALSE /\ faults = 0

DomainStep == Blocklists \/ CustomRules \/ ServiceDomainsStage \/ DefaultRule
IPStep == Services \/ Rebinding \/ IPCustomRules \/ CNAME
Next ==
    \/ ServeDNS \/ DomainStep \/ IPStep
    \/ ReadEntry \/ ReadException \/ ReadFails
    \/ Join \/ Resolve \/ Respond \/ Publish

Spec == Init /\ [][Next]_vars

-----------------------------------------------------------------------------

TypeOK ==
    /\ q \in Queries /\ prof \in Profiles
    /\ pc \in {"domain", "resolve", "ip", "respond", "done"}
    /\ out \in [Stages -> Results \cup {Pending, Failed}]
    /\ partial \subseteq Results
    /\ status \in {"none", "processed", "blocked", "unavailable"}
    /\ asked \in BOOLEAN /\ res \in Answers \cup {NoAnswer}
    /\ reply \in {"none", "check", "answer", "nothing", "zero", "nodata", "servfail"}
    /\ liveVer \in [Lists -> Versions] /\ excVer \in [Lists -> Versions]
    /\ moved \in BOOLEAN /\ faults \in 0 .. MaxFaults

Blocks == {"zero", "nodata"}

(***************************************************************************)
(* The comments at stages.go:51-55 and ip.go:48-50: an answer reaches the  *)
(* client only if every stage of both phases has judged the query; one     *)
(* store read that fails, in whichever stage and phase, withholds it.      *)
(***************************************************************************)
UncheckedWithheld == reply = "answer" => \A s \in Stages : out[s] \in Results

(***************************************************************************)
(* handleRequest, server.go:421: a name leaves for the upstream only after *)
(* every domain stage has succeeded, and none of them blocked it or the    *)
(* user's own rule allowed it.                                             *)
(***************************************************************************)
BlockedNotAsked ==
    asked => /\ \A s \in DomainStages : out[s] \in Results
             /\ out["custom_rules"].dec # "allow" =>
                    \A s \in DomainStages : out[s].dec = "none"

(***************************************************************************)
(* The user has the last word on the names of their queries.  A name that  *)
(* a block rule matches is never sent upstream and never gets an answer,   *)
(* whatever else matches; one that only allow rules match is never         *)
(* answered as blocked, in either phase (custom_rules.go:110-150 with      *)
(* aggregate.go:43-50).                                                    *)
(***************************************************************************)
UserRulesDecide ==
    LET acts == {r.action : r \in {x \in prof.rules : Matches(q.name, x)}} IN
    /\ "block" \in acts => ~asked /\ reply # "answer"
    /\ acts = {"allow"} => reply \notin Blocks

(***************************************************************************)
(* stage_result.go:14-16, "higher tier wins.  Allow always wins over Block *)
(* within the same tier", of results gathered over both phases.  The       *)
(* aggregator itself lets any allow win: the rule holds because no stage   *)
(* below the custom rules ever allows.                                     *)
(***************************************************************************)
TierPrecedence ==
    LET voiced == {r \in partial : r.dec # "none"}
        top == {r \in voiced : \A o \in voiced : o.tier <= r.tier}
    IN status \in {"processed", "blocked"} =>
          (status = "blocked" <=> top # {} /\ \A r \in top : r.dec = "block")

\* What version lv of list l with exceptions xv says of name n
ListBlocks(l, lv, xv, n) ==
    /\ \/ n \in Listed[l][lv]
       \/ prof.subdomains = "block"
          /\ \E p \in Listed[l][lv] : Len(p) > 1 /\ HasSuffix(n, p)
    /\ ~\E p \in Excepted[l][xv] : Len(p) > 1 /\ HasSuffix(n, p)
ListsBlock(n) ==
    \E i \in DOMAIN prof.blocklists :
        LET l == prof.blocklists[i] IN ListBlocks(l, liveVer[l], excVer[l], n)

(***************************************************************************)
(* The walks of blocklists.go:34-122, over several lists and, for the      *)
(* answer, several targets, decide what the lists say: while no list is    *)
(* published, a name is blocked exactly if some subscribed list has it or, *)
(* with the subdomains rule, a parent of two or more labels, and that same *)
(* list does not except it or a parent.                                    *)
(***************************************************************************)
WalksAgree ==
    ~moved =>
        /\ out["blocklists"] \in Results =>
              (out["blocklists"].dec = "block" <=> ListsBlock(q.name))
        /\ out["cname"] \in Results /\ out["cname"].tier = TierBlocklists
              /\ res # NoAnswer /\ UncloakingEnabled =>
              (out["cname"].dec = "block" <=>
                 \E i \in DOMAIN res.cnames : res.cnames[i] # q.name /\ ListsBlock(res.cnames[i]))

====
