----------------------- MODULE QueryFilteringProofs ------------------------
(***************************************************************************)
(* For any lists, rules, profiles, answers and interleaving of stages,     *)
(* reads and publications: QueryFiltering is type correct, withholds what  *)
(* it could not check, keeps blocked names from the upstream, decides by   *)
(* tiers, and walks the lists to what they say.                            *)
(***************************************************************************)
EXTENDS QueryFiltering, FiniteSetTheorems, SequenceTheorems, WellFoundedInduction, TLAPS

\* The stages that apply the user's rules, the only ones that ever allow
Allowers == {"custom_rules", "ip_custom_rules", "cname"}

AllowIsOnTop(r) == r.dec = "allow" => r.tier = TierCustomRules

AllowsInv ==
    /\ \A s \in Stages : AllowIsOnTop(out[s]) /\ (out[s].dec = "allow" => s \in Allowers)
    /\ \A r \in partial : AllowIsOnTop(r)

\* What the domain phase has established when it lets a name through
DomainClear ==
    /\ \A s \in DomainStages : out[s] \in Results
    /\ out["custom_rules"].dec # "allow" => \A s \in DomainStages : out[s].dec = "none"

PhaseInv ==
    /\ pc = "domain" => ~asked /\ partial = {}
    /\ pc \in {"resolve", "ip"} => status = "processed" /\ DomainClear
    /\ pc = "respond" => status # "none"
    /\ pc = "respond" /\ status = "processed" =>
            DomainClear /\ \A s \in Stages : out[s] \in Results
    /\ asked => DomainClear
    /\ reply = "answer" => pc = "done" /\ DomainClear /\ \A s \in Stages : out[s] \in Results

StatusInv == status \in {"processed", "blocked"} => status = Aggregate(partial)

IInv == TypeOK /\ AllowsInv /\ PhaseInv /\ StatusInv

-----------------------------------------------------------------------------

\* Pending and Failed are neither results nor each other.
LEMMA OutcomesDiffer ==
    /\ Pending \notin Results /\ Failed \notin Results /\ Pending # Failed
    /\ Pending.dec = "pending" /\ Failed.dec = "failed"
BY DEF Pending, Failed, Result, Results

\* The stages of a phase are stages, and those of the other phase are not.
LEMMA PhasesApart ==
    /\ Stages = DomainStages \cup IPStages
    /\ DomainStages \cap IPStages = {}
    /\ Phase("domain") = DomainStages /\ Phase("ip") = IPStages
BY DEF Stages, DomainStages, IPStages, Phase

\* The initial state satisfies the inductive invariant.
LEMMA InitIInv == Init => IInv
<1> SUFFICES ASSUME Init PROVE IInv
  OBVIOUS
<1> USE FilteringAssumption, OutcomesDiffer DEF Init
<1>1. TypeOK
  <2>1. out \in [Stages -> Results \cup {Pending, Failed}]
    OBVIOUS
  <2>2. liveVer \in [Lists -> Versions] /\ excVer \in [Lists -> Versions]
    BY DEF Versions
  <2>3. faults \in 0 .. MaxFaults
    OBVIOUS
  <2> QED
    BY <2>1, <2>2, <2>3 DEF TypeOK
<1>2. AllowsInv
  BY DEF AllowsInv, AllowIsOnTop
<1>3. PhaseInv
  BY DEF PhaseInv
<1>4. StatusInv
  BY DEF StatusInv
<1> QED
  BY <1>1, <1>2, <1>3, <1>4 DEF IInv

\* What a stage of the running phase leaves alone
StageFrame == UNCHANGED <<q, prof, pc, partial, status, asked, res, reply, lists>>

\* A stage of the running phase may end with any result, as long as only the
\* stages of the user's rules allow, and those at the top tier.
LEMMA FinishKeepsIInv ==
    ASSUME IInv, pc \in {"domain", "ip"}, NEW s \in Phase(pc), out[s] = Pending,
           NEW r \in Results \cup {Failed}, AllowIsOnTop(r),
           r.dec = "allow" => s \in Allowers,
           Finish(s, r), StageFrame, faults' \in 0 .. MaxFaults
    PROVE  IInv'
<1>1. s \in Stages /\ out \in [Stages -> Results \cup {Pending, Failed}]
  BY PhasesApart DEF IInv, TypeOK, Phase
<1>2. /\ out' = [out EXCEPT ![s] = r]
      /\ q' = q /\ prof' = prof /\ pc' = pc /\ partial' = partial /\ status' = status
      /\ asked' = asked /\ res' = res /\ reply' = reply
      /\ liveVer' = liveVer /\ excVer' = excVer /\ moved' = moved
  BY DEF Finish, StageFrame, lists
<1>3. TypeOK'
  BY <1>1, <1>2 DEF IInv, TypeOK
<1>4. AllowsInv'
  BY <1>1, <1>2 DEF IInv, AllowsInv, AllowIsOnTop
<1>5. PhaseInv'
  <2>1. pc = "ip" => \A d \in DomainStages : out'[d] = out[d]
    BY <1>1, <1>2, PhasesApart
  <2>2. pc = "ip" /\ DomainClear => DomainClear'
    BY <2>1 DEF DomainClear, DomainStages
  <2> QED
    BY <1>2, <2>2 DEF IInv, PhaseInv
<1>6. StatusInv'
  BY <1>2 DEF IInv, StatusInv, Aggregate
<1> QED
  BY <1>3, <1>4, <1>5, <1>6 DEF IInv

\* Moving the scan on does not touch what the invariant is about.
LEMMA ScanKeepsIInv ==
    ASSUME IInv, out' = out, StageFrame, faults' \in 0 .. MaxFaults
    PROVE  IInv'
<1>1. /\ q' = q /\ prof' = prof /\ pc' = pc /\ partial' = partial /\ status' = status
      /\ asked' = asked /\ res' = res /\ reply' = reply
      /\ liveVer' = liveVer /\ excVer' = excVer /\ moved' = moved
  BY DEF StageFrame, lists
<1>2. TypeOK' /\ AllowsInv'
  BY <1>1 DEF IInv, TypeOK, AllowsInv, AllowIsOnTop
<1>3. PhaseInv' /\ StatusInv'
  BY <1>1 DEF IInv, PhaseInv, StatusInv, DomainClear, Aggregate
<1> QED
  BY <1>2, <1>3 DEF IInv

\* The results the stages compute are results; those below the custom rules
\* never allow.
LEMMA ResultsOfStages ==
    /\ \A t \in {TierDefaultRule, TierBlocklists, TierServices, TierRebinding} :
         \A d \in {"none", "block"} :
            Result(d, t) \in Results /\ Result(d, t).dec = d /\ AllowIsOnTop(Result(d, t))
    /\ \A d \in {"none", "allow", "block"} :
            Result(d, TierCustomRules) \in Results /\ AllowIsOnTop(Result(d, TierCustomRules))
BY DEF Result, Results, AllowIsOnTop, TierDefaultRule, TierBlocklists, TierServices,
       TierRebinding, TierCustomRules

\* The stages without store reads.
LEMMA LocalStages ==
    IInv /\ (CustomRules \/ ServiceDomainsStage \/ DefaultRule \/ Services
             \/ Rebinding \/ IPCustomRules) => IInv'
<1> SUFFICES ASSUME IInv PROVE (CustomRules \/ ServiceDomainsStage \/ DefaultRule
                                \/ Services \/ Rebinding \/ IPCustomRules) => IInv'
  OBVIOUS
<1>0. faults \in 0 .. MaxFaults
  BY DEF IInv, TypeOK
<1>1. ASSUME NEW s \in Stages, NEW p \in {"domain", "ip"}, s \in Phase(p), StageStep(s, p),
             NEW r \in Results, AllowIsOnTop(r), r.dec = "allow" => s \in Allowers,
             Finish(s, r), faults' = faults
      PROVE  IInv'
  <2>1. pc = p /\ out[s] = Pending /\ StageFrame
    BY <1>1 DEF StageStep, StageFrame
  <2> QED
    BY <1>0, <1>1, <2>1, FinishKeepsIInv
<1>2. ASSUME NEW s \in Stages, NEW p \in {"domain", "ip"}, s \in Phase(p), StageStep(s, p),
             NEW t \in {TierDefaultRule, TierServices, TierRebinding},
             \E d \in {"none", "block"} : Finish(s, Result(d, t)), faults' = faults
      PROVE  IInv'
  <2>1. PICK d \in {"none", "block"} : Finish(s, Result(d, t))
    BY <1>2
  <2> DEFINE r == Result(d, t)
  <2>2. r \in Results /\ AllowIsOnTop(r) /\ r.dec # "allow" /\ Finish(s, r)
    BY <2>1, ResultsOfStages
  <2> HIDE DEF r
  <2> QED
    BY <1>1, <1>2, <2>2
<1>3. ASSUME NEW s \in Allowers, NEW p \in {"domain", "ip"}, s \in Phase(p), StageStep(s, p),
             \E d \in {"none", "allow", "block"} : Finish(s, Result(d, TierCustomRules)),
             faults' = faults
      PROVE  IInv'
  <2>1. PICK d \in {"none", "allow", "block"} : Finish(s, Result(d, TierCustomRules))
    BY <1>3
  <2> DEFINE r == Result(d, TierCustomRules)
  <2>2. r \in Results /\ AllowIsOnTop(r) /\ Finish(s, r)
    BY <2>1, ResultsOfStages
  <2>3. s \in Stages
    BY DEF Allowers, Stages, DomainStages, IPStages
  <2> HIDE DEF r
  <2> QED
    BY <1>1, <1>3, <2>2, <2>3
<1>4. /\ "custom_rules" \in Allowers /\ "custom_rules" \in Phase("domain")
      /\ "ip_custom_rules" \in Allowers /\ "ip_custom_rules" \in Phase("ip")
      /\ "service_domains" \in Stages /\ "service_domains" \in Phase("domain")
      /\ "default_rule" \in Stages /\ "default_rule" \in Phase("domain")
      /\ "services" \in Stages /\ "services" \in Phase("ip")
      /\ "rebinding" \in Stages /\ "rebinding" \in Phase("ip")
  BY DEF Stages, DomainStages, IPStages, Phase, Allowers
<1>5. CASE CustomRules
  <2>1. QNameDecision(q.name) \in {"none", "allow", "block"}
    BY DEF QNameDecision
  <2> QED
    BY <1>3, <1>4, <1>5, <2>1 DEF CustomRules
<1>6. CASE ServiceDomainsStage
  <2>1. \E d \in {"none", "block"} : Finish("service_domains", Result(d, TierServices))
    BY <1>6 DEF ServiceDomainsStage
  <2> QED
    BY <1>2, <1>4, <1>6, <2>1 DEF ServiceDomainsStage
<1>7. CASE DefaultRule
  <2>1. \E d \in {"none", "block"} : Finish("default_rule", Result(d, TierDefaultRule))
    BY <1>7 DEF DefaultRule
  <2> QED
    BY <1>2, <1>4, <1>7, <2>1 DEF DefaultRule
<1>8. CASE Services
  <2>1. \E d \in {"none", "block"} : Finish("services", Result(d, TierServices))
    BY <1>8 DEF Services
  <2> QED
    BY <1>2, <1>4, <1>8, <2>1 DEF Services
<1>9. CASE Rebinding
  <2>1. \E d \in {"none", "block"} : Finish("rebinding", Result(d, TierRebinding))
    BY <1>9 DEF Rebinding
  <2> QED
    BY <1>2, <1>4, <1>9, <2>1 DEF Rebinding
<1>10. CASE IPCustomRules
  <2>1. \E d \in {"none", "allow", "block"} :
            Finish("ip_custom_rules", Result(d, TierCustomRules))
    BY <1>10 DEF IPCustomRules, IPDecision
  <2> QED
    BY <1>3, <1>4, <1>10, <2>1 DEF IPCustomRules
<1> QED
  BY <1>5, <1>6, <1>7, <1>8, <1>9, <1>10

\* The stages that read the lists: they end without a result, with a block or
\* none of the lists' tier, or fail; cname may first decide by custom rules.
LEMMA ListStages ==
    IInv /\ (Blocklists \/ CNAME \/ ReadEntry \/ ReadException \/ ReadFails) => IInv'
<1> SUFFICES ASSUME IInv
    PROVE  (Blocklists \/ CNAME \/ ReadEntry \/ ReadException \/ ReadFails) => IInv'
  OBVIOUS
<1>0. faults \in 0 .. MaxFaults
  BY DEF IInv, TypeOK
<1>1. /\ "blocklists" \in Phase("domain") /\ "cname" \in Phase("ip") /\ "cname" \in Allowers
      /\ pc \in {"domain", "ip"} => Scanner \in Phase(pc)
  BY DEF Phase, DomainStages, IPStages, Allowers, Scanner
<1>2. ASSUME pc \in {"domain", "ip"}, NEW s \in Phase(pc), out[s] = Pending, StageFrame,
             \/ out' = out
             \/ \E d \in {"none", "block"} : Finish(s, Result(d, TierBlocklists)),
             faults' = faults
      PROVE  IInv'
  <2>1. CASE out' = out
    BY <1>0, <1>2, <2>1, ScanKeepsIInv
  <2>2. CASE \E d \in {"none", "block"} : Finish(s, Result(d, TierBlocklists))
    <3>1. PICK d \in {"none", "block"} : Finish(s, Result(d, TierBlocklists))
      BY <2>2
    <3> DEFINE r == Result(d, TierBlocklists)
    <3>2. r \in Results /\ AllowIsOnTop(r) /\ r.dec # "allow" /\ Finish(s, r)
      BY <3>1, ResultsOfStages
    <3> HIDE DEF r
    <3> QED
      BY <1>0, <1>2, <3>2, FinishKeepsIInv
  <2> QED
    BY <1>2, <2>1, <2>2
<1>3. ASSUME NEW s, NEW names, Begin(s, names)
      PROVE  out' = out \/ \E d \in {"none", "block"} : Finish(s, Result(d, TierBlocklists))
  BY <1>3 DEF Begin
<1>4. Advance => out' = out \/ \E d \in {"none", "block"} :
                                    Finish(Scanner, Result(d, TierBlocklists))
  BY DEF Advance
<1>5. CASE Blocklists
  <2>1. pc = "domain" /\ out["blocklists"] = Pending /\ StageFrame /\ faults' = faults
    BY <1>5 DEF Blocklists, StageStep, StageFrame
  <2>2. Begin("blocklists", <<q.name>>)
    BY <1>5 DEF Blocklists
  <2> QED
    BY <1>1, <1>2, <1>3, <2>1, <2>2
<1>6. CASE CNAME
  <2>1. pc = "ip" /\ out["cname"] = Pending /\ StageFrame /\ faults' = faults
    BY <1>6 DEF CNAME, StageStep, StageFrame
  <2>2. \/ \E d \in {"allow", "block"} : Finish("cname", Result(d, TierCustomRules))
        \/ \E names : Begin("cname", names)
    BY <1>6 DEF CNAME, TargetsDecision
  <2>3. ASSUME NEW d \in {"allow", "block"}, Finish("cname", Result(d, TierCustomRules))
        PROVE  IInv'
    <3> DEFINE r == Result(d, TierCustomRules)
    <3>1. r \in Results /\ AllowIsOnTop(r) /\ Finish("cname", r)
      BY <2>3, ResultsOfStages
    <3> HIDE DEF r
    <3> QED
      BY <1>0, <1>1, <2>1, <3>1, FinishKeepsIInv
  <2>4. ASSUME NEW names, Begin("cname", names) PROVE IInv'
    BY <1>1, <1>2, <1>3, <2>1, <2>4
  <2> QED
    BY <2>2, <2>3, <2>4
<1>7. CASE ReadEntry
  <2>1. /\ pc \in {"domain", "ip"} /\ out[Scanner] = Pending
        /\ StageFrame /\ faults' = faults
    BY <1>7 DEF ReadEntry, ScanStep, StageStep, StageFrame
  <2>2. out' = out \/ \E d \in {"none", "block"} : Finish(Scanner, Result(d, TierBlocklists))
    BY <1>4, <1>7 DEF ReadEntry
  <2> QED
    BY <1>1, <1>2, <2>1, <2>2
<1>8. CASE ReadException
  <2>1. /\ pc \in {"domain", "ip"} /\ out[Scanner] = Pending
        /\ StageFrame /\ faults' = faults
    BY <1>8 DEF ReadException, ScanStep, StageStep, StageFrame
  <2>2. out' = out \/ \E d \in {"none", "block"} : Finish(Scanner, Result(d, TierBlocklists))
    BY <1>4, <1>8 DEF ReadException
  <2> QED
    BY <1>1, <1>2, <2>1, <2>2
<1>9. CASE ReadFails
  <2>1. /\ pc \in {"domain", "ip"} /\ out[Scanner] = Pending
        /\ StageFrame /\ Finish(Scanner, Failed)
    BY <1>9 DEF ReadFails, ScanStep, StageStep, StageFrame
  <2>2. faults' \in 0 .. MaxFaults
    BY <1>0, <1>9, FilteringAssumption DEF ReadFails
  <2>3. Failed \in Results \cup {Failed} /\ AllowIsOnTop(Failed) /\ Failed.dec # "allow"
    BY OutcomesDiffer DEF AllowIsOnTop
  <2> QED
    BY <1>1, <2>1, <2>2, <2>3, FinishKeepsIInv
<1> QED
  BY <1>5, <1>6, <1>7, <1>8, <1>9

\* The end of a phase: what is gathered are the results of the stages that did
\* not fail, and a domain phase goes on to the upstream only when it is clear.
LEMMA JoinIInv == IInv /\ Join => IInv'
<1> SUFFICES ASSUME IInv, Join PROVE IInv'
  OBVIOUS
<1>1. /\ pc \in {"domain", "ip"} /\ \A s \in Phase(pc) : out[s] # Pending
      /\ partial' = partial \cup Gathered(pc)
      /\ status' = IF \E s \in Phase(pc) : out[s] = Failed THEN "unavailable"
                   ELSE Aggregate(partial')
      /\ pc' = NextStep(pc, status')
      /\ q' = q /\ prof' = prof /\ out' = out /\ asked' = asked /\ res' = res /\ reply' = reply
      /\ liveVer' = liveVer /\ excVer' = excVer /\ moved' = moved /\ faults' = faults
  BY DEF Join, lists
<1>2. out \in [Stages -> Results \cup {Pending, Failed}] /\ partial \subseteq Results
  BY DEF IInv, TypeOK
<1>3. Phase(pc) \subseteq Stages
  BY <1>1, PhasesApart
<1>4. Gathered(pc) \subseteq Results
  BY <1>1, <1>2, <1>3 DEF Gathered
<1>5. status' \in {"processed", "blocked", "unavailable"} /\ pc' \in {"resolve", "respond"}
  BY <1>1 DEF Aggregate, NextStep
<1>6. TypeOK'
  BY <1>1, <1>2, <1>4, <1>5 DEF IInv, TypeOK
<1>7. AllowsInv'
  BY <1>1, <1>3 DEF IInv, AllowsInv, AllowIsOnTop, Gathered
<1>8. StatusInv'
  BY <1>1 DEF StatusInv, Aggregate
<1>9. ASSUME \A s \in Phase(pc) : out[s] # Failed
      PROVE  /\ \A s \in Phase(pc) : out[s] \in Results
             /\ Gathered(pc) = {out[s] : s \in Phase(pc)}
  BY <1>1, <1>2, <1>3, <1>9 DEF Gathered
<1>10. ASSUME pc = "domain", status' = "processed" PROVE DomainClear
  <2>1. \A s \in DomainStages : out[s] \in Results
    BY <1>1, <1>9, <1>10, PhasesApart
  <2>2. partial' = {out[s] : s \in DomainStages} /\ Aggregate(partial') = "processed"
    BY <1>1, <1>9, <1>10, PhasesApart DEF IInv, PhaseInv
  <2>3. \/ \E s \in DomainStages : out[s].dec = "allow"
        \/ \A s \in DomainStages : out[s].dec # "block"
    BY <2>2 DEF Aggregate
  <2>4. \A s \in DomainStages : out[s].dec = "allow" => s = "custom_rules"
    BY DEF IInv, AllowsInv, Allowers, Stages, DomainStages, IPStages
  <2>5. \A s \in DomainStages : out[s].dec \in {"none", "allow", "block"}
    BY <2>1 DEF Results
  <2> QED
    BY <2>1, <2>3, <2>4, <2>5 DEF DomainClear
<1>11. DomainClear => DomainClear'
  BY <1>1 DEF DomainClear
<1>12. pc' = "resolve" => status' = "processed" /\ DomainClear'
  BY <1>1, <1>10, <1>11 DEF NextStep
<1>13. ASSUME pc' = "respond", status' = "processed"
       PROVE  DomainClear /\ \A s \in Stages : out'[s] \in Results
  <2>1. pc = "ip"
    BY <1>1, <1>13 DEF NextStep
  <2>2. \A s \in IPStages : out[s] \in Results
    BY <1>1, <1>9, <1>13, <2>1, PhasesApart
  <2>3. DomainClear /\ \A s \in DomainStages : out[s] \in Results
    BY <2>1 DEF IInv, PhaseInv, DomainClear
  <2> QED
    BY <1>1, <2>2, <2>3, PhasesApart
<1>14. PhaseInv'
  BY <1>1, <1>5, <1>11, <1>12, <1>13 DEF IInv, PhaseInv
<1> QED
  BY <1>6, <1>7, <1>8, <1>14 DEF IInv

\* The other steps of the request goroutine, and a publication.
LEMMA RequestSteps == IInv /\ (ServeDNS \/ Resolve \/ Respond \/ Publish) => IInv'
<1> SUFFICES ASSUME IInv PROVE (ServeDNS \/ Resolve \/ Respond \/ Publish) => IInv'
  OBVIOUS
<1>1. CASE ServeDNS
  <2>1. TypeOK'
    <3>1. /\ q' \in Queries /\ prof' \in Profiles /\ pc' \in {"domain", "done"}
          /\ reply' \in {"check", "nothing", "none"} /\ partial' = {} /\ status' = "none"
          /\ asked' = FALSE /\ res' = NoAnswer /\ moved' = FALSE /\ faults' = 0
          /\ liveVer' = liveVer /\ excVer' = excVer
      BY <1>1 DEF ServeDNS
    <3>2. out' \in [Stages -> Results \cup {Pending, Failed}]
      BY <1>1 DEF ServeDNS
    <3>3. 0 \in 0 .. MaxFaults
      BY FilteringAssumption
    <3> QED
      BY <3>1, <3>2, <3>3 DEF IInv, TypeOK
  <2>2. AllowsInv'
    BY <1>1, OutcomesDiffer DEF ServeDNS, AllowsInv, AllowIsOnTop
  <2>3. PhaseInv' /\ StatusInv'
    BY <1>1 DEF ServeDNS, PhaseInv, StatusInv
  <2> QED
    BY <2>1, <2>2, <2>3 DEF IInv
<1>2. CASE Resolve
  <2>1. /\ pc = "resolve" /\ pc' = "ip" /\ asked' = TRUE /\ res' \in Answers \cup {NoAnswer}
        /\ q' = q /\ prof' = prof /\ out' = out /\ partial' = partial /\ status' = status
        /\ reply' = reply
        /\ liveVer' = liveVer /\ excVer' = excVer /\ moved' = moved /\ faults' = faults
    BY <1>2 DEF Resolve, lists
  <2>2. TypeOK' /\ AllowsInv'
    BY <2>1 DEF IInv, TypeOK, AllowsInv, AllowIsOnTop
  <2>3. PhaseInv' /\ StatusInv'
    BY <2>1 DEF IInv, PhaseInv, DomainClear, StatusInv, Aggregate
  <2> QED
    BY <2>2, <2>3 DEF IInv
<1>3. CASE Respond
  <2>1. /\ pc = "respond" /\ pc' = "done" /\ reply' = ReplyFor(status)
        /\ q' = q /\ prof' = prof /\ out' = out /\ partial' = partial /\ status' = status
        /\ asked' = asked /\ res' = res
        /\ liveVer' = liveVer /\ excVer' = excVer /\ moved' = moved /\ faults' = faults
    BY <1>3 DEF Respond, lists
  <2>2. /\ reply' \in {"servfail", "zero", "nodata", "nothing", "answer"}
        /\ reply' = "answer" => status \notin {"unavailable", "blocked"}
    BY <2>1 DEF ReplyFor
  <2>3. TypeOK' /\ AllowsInv'
    BY <2>1, <2>2 DEF IInv, TypeOK, AllowsInv, AllowIsOnTop
  <2>4. status # "none"
    BY <2>1 DEF IInv, PhaseInv
  <2>5. PhaseInv' /\ StatusInv'
    BY <2>1, <2>2, <2>4 DEF IInv, TypeOK, PhaseInv, DomainClear, StatusInv, Aggregate
  <2> QED
    BY <2>3, <2>5 DEF IInv
<1>4. CASE Publish
  <2>1. /\ q' = q /\ prof' = prof /\ pc' = pc /\ out' = out /\ partial' = partial
        /\ status' = status /\ asked' = asked /\ res' = res /\ reply' = reply
        /\ moved' = TRUE /\ faults' = faults
    BY <1>4 DEF Publish
  <2>2. liveVer' \in [Lists -> Versions] /\ excVer' \in [Lists -> Versions]
    <3>1. liveVer \in [Lists -> Versions] /\ excVer \in [Lists -> Versions]
      BY DEF IInv, TypeOK
    <3> QED
      BY <1>4, <3>1, FilteringAssumption DEF Publish, PublishList, Versions
  <2>3. TypeOK' /\ AllowsInv'
    BY <2>1, <2>2 DEF IInv, TypeOK, AllowsInv, AllowIsOnTop
  <2>4. PhaseInv' /\ StatusInv'
    BY <2>1 DEF IInv, PhaseInv, DomainClear, StatusInv, Aggregate
  <2> QED
    BY <2>3, <2>4 DEF IInv
<1> QED
  BY <1>1, <1>2, <1>3, <1>4

\* The invariant is inductive.
THEOREM Invariance == Spec => []IInv
<1>1. IInv /\ [Next]_vars => IInv'
  <2> SUFFICES ASSUME IInv, [Next]_vars PROVE IInv'
    OBVIOUS
  <2>1. CASE Next
    BY <2>1, LocalStages, ListStages, JoinIInv, RequestSteps DEF Next, DomainStep, IPStep
  <2>2. CASE UNCHANGED vars
    <3>1. StageFrame /\ out' = out /\ faults' = faults
      BY <2>2 DEF vars, StageFrame, lists
    <3>2. faults' \in 0 .. MaxFaults
      BY <3>1 DEF IInv, TypeOK
    <3> QED
      BY <3>1, <3>2, ScanKeepsIInv
  <2> QED
    BY <2>1, <2>2
<1> QED
  BY InitIInv, <1>1, PTL DEF Spec

\* Every variable keeps its type (requestcontext and the stages' results).
THEOREM TypeCorrect == Spec => []TypeOK
<1>1. IInv => TypeOK
  BY DEF IInv
<1> QED
  BY Invariance, <1>1, PTL

\* An answer that a stage could not check is never returned, however many reads
\* fail and in whichever phase (stages.go:51-55, ip.go:48-50).
THEOREM Withheld == Spec => []UncheckedWithheld
<1>1. IInv => UncheckedWithheld
  BY DEF IInv, PhaseInv, UncheckedWithheld
<1> QED
  BY Invariance, <1>1, PTL

\* A name the domain phase has not cleared never leaves for the upstream
\* (server.go:420-429).
THEOREM NotAsked == Spec => []BlockedNotAsked
<1>1. IInv => BlockedNotAsked
  BY DEF IInv, PhaseInv, DomainClear, BlockedNotAsked
<1> QED
  BY Invariance, <1>1, PTL

\* A non-empty set of results has one of the highest tier.
LEMMA TopTierExists ==
    ASSUME NEW S \in SUBSET Results, S # {}
    PROVE  \E r \in S : \A o \in S : o.tier <= r.tier
<1>1. \A r \in S : r.tier \in {0, 100, 150, 200}
  BY DEF Results, TierDefaultRule, TierBlocklists, TierRebinding, TierCustomRules
<1>2. CASE \E r \in S : r.tier = 200
  BY <1>1, <1>2
<1>3. CASE (\A r \in S : r.tier # 200) /\ \E r \in S : r.tier = 150
  BY <1>1, <1>3
<1>4. CASE (\A r \in S : r.tier \notin {150, 200}) /\ \E r \in S : r.tier = 100
  BY <1>1, <1>4
<1>5. CASE \A r \in S : r.tier \notin {100, 150, 200}
  BY <1>1, <1>5
<1> QED
  BY <1>2, <1>3, <1>4, <1>5

\* The aggregator's "any allow wins" is precedence by tier, over the results of
\* both phases, because every allow is of the top tier (aggregate.go:17-52,
\* stage_result.go:14-16).
THEOREM Precedence == Spec => []TierPrecedence
<1>1. IInv => TierPrecedence
  <2> SUFFICES ASSUME IInv, status \in {"processed", "blocked"}
      PROVE  LET voiced == {r \in partial : r.dec # "none"}
                 top == {r \in voiced : \A o \in voiced : o.tier <= r.tier}
             IN status = "blocked" <=> top # {} /\ \A r \in top : r.dec = "block"
    BY DEF TierPrecedence
  <2> DEFINE voiced == {r \in partial : r.dec # "none"}
             top == {r \in voiced : \A o \in voiced : o.tier <= r.tier}
  <2>1. partial \subseteq Results /\ voiced \subseteq Results
    BY DEF IInv, TypeOK
  <2>2. \A r \in voiced : r.dec \in {"allow", "block"} /\ r.tier \in Nat /\ r.tier <= TierCustomRules
    BY <2>1 DEF Results, TierDefaultRule, TierBlocklists, TierRebinding, TierCustomRules
  <2>3. status = Aggregate(partial)
    BY DEF IInv, StatusInv
  <2>4. CASE \E r \in partial : r.dec = "allow"
    <3>1. PICK r \in voiced : r.dec = "allow"
      BY <2>4
    <3>2. r.tier = TierCustomRules
      BY <3>1 DEF IInv, AllowsInv, AllowIsOnTop
    <3>3. r \in top
      BY <2>2, <3>1, <3>2
    <3>4. status = "processed"
      BY <2>3, <2>4 DEF Aggregate
    <3> QED
      BY <3>1, <3>3, <3>4
  <2>5. CASE \A r \in partial : r.dec # "allow"
    <3>1. \A r \in voiced : r.dec = "block"
      BY <2>2, <2>5
    <3>2. status = "blocked" <=> voiced # {}
      BY <2>3, <2>5, <3>1 DEF Aggregate
    <3>3. voiced # {} => top # {}
      BY <2>1, TopTierExists
    <3> QED
      BY <3>1, <3>2, <3>3
  <2> QED
    BY <2>4, <2>5
<1> QED
  BY Invariance, <1>1, PTL

-----------------------------------------------------------------------------

\* How the user's rules on the name reach the verdict
RulesInv ==
    /\ out["custom_rules"] # Pending =>
            out["custom_rules"] = Result(QNameDecision(q.name), TierCustomRules)
    /\ status \in {"processed", "blocked"} => out["custom_rules"] \in partial
    /\ reply \in Blocks => status = "blocked"

\* A step that leaves the rules, the verdict and the reply alone keeps RulesInv.
LEMMA RulesFrame ==
    ASSUME RulesInv, out'["custom_rules"] = out["custom_rules"], q' = q, prof' = prof,
           partial \subseteq partial', status' = status, reply' = reply
    PROVE  RulesInv'
<1>1. QNameDecision(q.name)' = QNameDecision(q.name)
  BY DEF QNameDecision, Actions, Matches, HasPrefix, HasSuffix, From
<1> QED
  BY <1>1 DEF RulesInv

\* Every step keeps RulesInv.
LEMMA RulesStep == IInv /\ RulesInv /\ [Next]_vars => RulesInv'
<1> SUFFICES ASSUME IInv, RulesInv, [Next]_vars PROVE RulesInv'
  OBVIOUS
<1>0. "custom_rules" \in Stages /\ out \in [Stages -> Results \cup {Pending, Failed}]
  BY DEF IInv, TypeOK, Stages, DomainStages
<1>1. ASSUME NEW s \in Stages \ {"custom_rules"}, NEW r, Finish(s, r) \/ out' = out, StageFrame
      PROVE  RulesInv'
  <2>1. out'["custom_rules"] = out["custom_rules"]
    BY <1>0, <1>1 DEF Finish
  <2> QED
    BY <1>1, <2>1, RulesFrame DEF StageFrame
<1>2. \A s, p : StageStep(s, p) => StageFrame
  BY DEF StageStep, StageFrame
<1>3. /\ {"blocklists", "service_domains", "default_rule"} \subseteq Stages \ {"custom_rules"}
      /\ IPStages \subseteq Stages \ {"custom_rules"}
      /\ Scanner \in Stages \ {"custom_rules"}
  BY DEF Stages, DomainStages, IPStages, Scanner
<1>4. CASE CustomRules
  <2>1. /\ out' = [out EXCEPT !["custom_rules"] = Result(QNameDecision(q.name), TierCustomRules)]
        /\ pc = "domain" /\ StageFrame /\ out["custom_rules"] = Pending
    BY <1>4, <1>2 DEF CustomRules, Finish, StageStep
  <2>2. status \notin {"processed", "blocked"}
    BY <2>1, OutcomesDiffer DEF RulesInv, IInv, PhaseInv
  <2>3. QNameDecision(q.name)' = QNameDecision(q.name)
    BY <2>1 DEF StageFrame, QNameDecision, Actions, Matches, HasPrefix, HasSuffix, From
  <2> QED
    BY <1>0, <2>1, <2>2, <2>3 DEF RulesInv, StageFrame
<1>5. CASE ServiceDomainsStage \/ DefaultRule
  <2>1. \E s \in {"service_domains", "default_rule"} : \E r : Finish(s, r) /\ StageFrame
    BY <1>2, <1>5 DEF ServiceDomainsStage, DefaultRule
  <2> QED
    BY <1>1, <1>3, <2>1
<1>6. CASE Services \/ Rebinding \/ IPCustomRules
  <2>1. \E s \in {"services", "rebinding", "ip_custom_rules"} : \E r : Finish(s, r) /\ StageFrame
    BY <1>2, <1>6 DEF Services, Rebinding, IPCustomRules
  <2> QED
    BY <1>1, <1>3, <2>1 DEF IPStages
<1>7. CASE Blocklists \/ CNAME
  <2>1. \E s \in {"blocklists", "cname"} : \E r : (Finish(s, r) \/ out' = out) /\ StageFrame
    BY <1>2, <1>7 DEF Blocklists, CNAME, Begin
  <2> QED
    BY <1>1, <1>3, <2>1 DEF IPStages
<1>8. CASE ReadEntry \/ ReadException \/ ReadFails
  <2>1. StageFrame
    BY <1>2, <1>8 DEF ReadEntry, ReadException, ReadFails, ScanStep
  <2>2. \E r : Finish(Scanner, r) \/ out' = out
    BY <1>8 DEF ReadEntry, ReadException, ReadFails, Advance
  <2> QED
    BY <1>1, <1>3, <2>1, <2>2
<1>9. CASE Join
  <2>1. /\ q' = q /\ prof' = prof /\ out' = out /\ reply' = reply
        /\ partial' = partial \cup Gathered(pc) /\ pc \in {"domain", "ip"}
        /\ \A s \in Phase(pc) : out[s] # Pending
        /\ status' \in {"processed", "blocked"} => \A s \in Phase(pc) : out[s] # Failed
    BY <1>9 DEF Join
  <2>2. pc = "domain" /\ status' \in {"processed", "blocked"} => out["custom_rules"] \in partial'
    BY <2>1 DEF Gathered, Phase, DomainStages
  <2>3. pc = "ip" => status = "processed" /\ reply \notin Blocks
    BY DEF IInv, PhaseInv, RulesInv
  <2>4. pc = "domain" => reply \notin Blocks
    BY DEF IInv, PhaseInv, RulesInv
  <2>5. QNameDecision(q.name)' = QNameDecision(q.name)
    BY <2>1 DEF QNameDecision, Actions, Matches, HasPrefix, HasSuffix, From
  <2> QED
    BY <2>1, <2>2, <2>3, <2>4, <2>5 DEF RulesInv
<1>10. CASE ServeDNS
  BY <1>0, <1>10 DEF ServeDNS, RulesInv, Blocks
<1>11. CASE Resolve \/ Publish
  BY <1>11, RulesFrame DEF Resolve, Publish
<1>12. CASE Respond
  <2>1. /\ q' = q /\ prof' = prof /\ out' = out /\ partial' = partial /\ status' = status
        /\ reply' = ReplyFor(status)
    BY <1>12 DEF Respond
  <2>2. reply' \in Blocks => status = "blocked"
    BY <2>1 DEF ReplyFor, Blocks
  <2>3. QNameDecision(q.name)' = QNameDecision(q.name)
    BY <2>1 DEF QNameDecision, Actions, Matches, HasPrefix, HasSuffix, From
  <2> QED
    BY <2>1, <2>2, <2>3 DEF RulesInv
<1>13. CASE UNCHANGED vars
  BY <1>13, RulesFrame DEF vars
<1> QED
  BY <1>4, <1>5, <1>6, <1>7, <1>8, <1>9, <1>10, <1>11, <1>12, <1>13
     DEF Next, DomainStep, IPStep

\* A block rule on the name is final and an allow rule on it is too, whatever
\* the lists, services, default rule, rebinding protection and rules on the
\* answer say (custom_rules.go:110-150, aggregate.go:43-50).
THEOREM UserDecides == Spec => []UserRulesDecide
<1>1. Init => RulesInv
  BY OutcomesDiffer DEF Init, RulesInv, Blocks, Stages, DomainStages
<1>2. IInv /\ RulesInv => UserRulesDecide
  <2> SUFFICES ASSUME IInv, RulesInv PROVE UserRulesDecide
    OBVIOUS
  <2> DEFINE acts == {r.action : r \in {x \in prof.rules : Matches(q.name, x)}}
  <2>1. /\ "block" \in acts => QNameDecision(q.name) = "block"
        /\ acts = {"allow"} => QNameDecision(q.name) = "allow"
    BY DEF QNameDecision, Actions
  <2>2. ASSUME "block" \in acts, asked \/ reply = "answer" PROVE FALSE
    <3>1. DomainClear
      BY <2>2 DEF IInv, PhaseInv
    <3>2. out["custom_rules"].dec = "block"
      BY <2>1, <2>2, <3>1, OutcomesDiffer DEF RulesInv, DomainClear, DomainStages, Result
    <3> QED
      BY <3>1, <3>2 DEF DomainClear, DomainStages
  <2>3. ASSUME acts = {"allow"}, reply \in Blocks PROVE FALSE
    <3>1. status = "blocked" /\ out["custom_rules"] \in partial
      BY <2>3 DEF RulesInv
    <3>2. out["custom_rules"] # Pending
      BY <3>1, OutcomesDiffer DEF IInv, TypeOK
    <3>3. out["custom_rules"].dec = "allow"
      BY <2>1, <2>3, <3>2 DEF RulesInv, Result
    <3> QED
      BY <3>1, <3>3 DEF IInv, StatusInv, Aggregate
  <2> QED
    BY <2>2, <2>3 DEF UserRulesDecide
<1>3. IInv /\ RulesInv /\ [Next]_vars => RulesInv'
  BY RulesStep
<1> QED
  BY Invariance, <1>1, <1>2, <1>3, PTL DEF Spec

-----------------------------------------------------------------------------
(* The walks over the lists *)

\* The names the scanning stage has to check
NamesToCheck == IF Scanner = "blocklists" THEN <<q.name>> ELSE CNAMETargets(res)

\* What the profile's list at position j says of name n
Hit(j, n) ==
    LET l == prof.blocklists[j] IN
    \/ n \in Listed[l][liveVer[l]]
    \/ prof.subdomains = "block" /\ \E p \in Listed[l][liveVer[l]] : Len(p) > 1 /\ HasSuffix(n, p)
Withdrawn(j, n) ==
    LET l == prof.blocklists[j] IN \E p \in Excepted[l][excVer[l]] : Len(p) > 1 /\ HasSuffix(n, p)
ListAt(j, n) == Hit(j, n) /\ ~Withdrawn(j, n)
AnyBlocks(names) == \E i \in DOMAIN names : ListsBlock(names[i])

\* What the reads have established when a scan stands at sc: no list before
\* this one blocks the name, no name before it is blocked, and of this list the
\* candidates before this one are not there
OnCourse(sc) ==
    LET n == sc.names[sc.t]
        l == prof.blocklists[sc.l]
    IN /\ sc \in [names : Seq(Names), t : Nat, l : Nat, k : Nat, mode : {"entry", "except"}]
       /\ sc.t \in 1 .. Len(sc.names) /\ sc.l \in 1 .. Len(prof.blocklists)
       /\ \A i \in 1 .. sc.t - 1 : ~ListsBlock(sc.names[i])
       /\ \A j \in 1 .. sc.l - 1 : ~ListAt(j, n)
       /\ \/ sc.mode = "entry" /\ sc.k = 1
          \/ /\ sc.mode = "entry" /\ prof.subdomains = "block" /\ sc.k \in 2 .. Len(n) - 1
             /\ n \notin Listed[l][liveVer[l]]
             /\ \A j \in sc.k + 1 .. Len(n) - 1 : From(n, j) \notin Listed[l][liveVer[l]]
          \/ /\ sc.mode = "except" /\ sc.k \in 1 .. Len(n) - 1 /\ Hit(sc.l, n)
             /\ \A j \in 1 .. sc.k - 1 : From(n, j) \notin Excepted[l][excVer[l]]

\* While no list is published
WalkInv ==
    ~moved =>
        /\ scan.names # <<>> => pc \in {"domain", "ip"}
        /\ pc \in {"domain", "resolve"} => out["cname"] = Pending
        /\ Scanning => /\ OnCourse(scan) /\ scan.names = NamesToCheck
                       /\ pc = "ip" => UncloakingEnabled /\ res # NoAnswer
        /\ out["blocklists"] \in Results =>
              (out["blocklists"].dec = "block" <=> AnyBlocks(<<q.name>>))
        /\ out["cname"] \in Results /\ out["cname"].tier = TierBlocklists
              /\ res # NoAnswer /\ UncloakingEnabled =>
              (out["cname"].dec = "block" <=> AnyBlocks(CNAMETargets(res)))

\* A set of numbers has a least one.
LEMMA Least ==
    ASSUME NEW T \in SUBSET Nat, T # {}
    PROVE  \E m \in T : \A k \in T : m <= k
<1> DEFINE R == OpToRel(<, Nat)
<1>1. IsWellFoundedOn(R, Nat)
  BY NatLessThanWellFounded
<1>2. \A k, m \in Nat : k < m => <<k, m>> \in R
  BY DEF OpToRel
<1> HIDE DEF R
<1>3. PICK m \in T : \A k \in T : ~ (<<k, m>> \in R)
  BY <1>1, WFMin
<1>4. \A k \in T : ~(k < m)
  BY <1>2, <1>3
<1>5. \A k \in T : k \in Nat /\ m \in Nat
  OBVIOUS
<1> QED
  BY <1>4, <1>5

\* Counting from below, the elements of a finite set of positions are its first,
\* its second, and so on.
LEMMA NthExists ==
    ASSUME NEW n \in Nat, NEW I \in SUBSET (1 .. n), NEW k \in 1 .. Cardinality(I)
    PROVE  \E i \in I : Cardinality({j \in I : j <= i}) = k
<1> DEFINE Below(m) == {j \in I : j <= m}
<1>0. \A j \in I : j \in Nat /\ 1 <= j /\ j <= n
  OBVIOUS
<1>1. ASSUME NEW m \in Nat PROVE IsFiniteSet(Below(m)) /\ Cardinality(Below(m)) \in Nat
  <2>1. IsFiniteSet(1 .. n)
    BY FS_Interval
  <2>2. Below(m) \in SUBSET (1 .. n)
    OBVIOUS
  <2> QED
    BY <2>1, <2>2, FS_Subset, FS_CardinalityType
<1>2. ASSUME NEW m \in Nat
      PROVE  Cardinality(Below(m + 1)) = IF m + 1 \in I THEN Cardinality(Below(m)) + 1
                                         ELSE Cardinality(Below(m))
  <2>0. (\A j \in I : j <= m + 1 <=> j <= m \/ j = m + 1) /\ ~(m + 1 <= m)
    BY <1>0
  <2>1. CASE m + 1 \in I
    <3>1. Below(m + 1) = Below(m) \cup {m + 1} /\ m + 1 \notin Below(m)
      BY <2>0, <2>1, Zenon
    <3> QED
      BY <1>1, <2>1, <3>1, FS_AddElement
  <2>2. CASE m + 1 \notin I
    <3>1. Below(m + 1) = Below(m)
      BY <2>0, <2>2, Zenon
    <3> QED
      BY <2>2, <3>1
  <2> QED
    BY <2>1, <2>2
<1>3. Below(0) = {} /\ Below(n) = I
  <2>1. \A j \in I : ~(j <= 0) /\ j <= n
    BY <1>0
  <2> QED
    BY <2>1, Zenon
<1>4. Cardinality(Below(0)) = 0 /\ Cardinality(Below(n)) = Cardinality(I) /\ Cardinality(I) \in Nat
  BY <1>1, <1>3, FS_EmptySet
<1> DEFINE T == {m \in Nat : k <= Cardinality(Below(m))}
<1>5. k \in Nat /\ 1 <= k /\ k <= Cardinality(I)
  BY <1>4
<1>5a. T \in SUBSET Nat /\ n \in T
  BY <1>4, <1>5
<1>6. PICK m \in T : \A u \in T : m <= u
  BY <1>5a, Least
<1>7. m \in Nat /\ m # 0 /\ k <= Cardinality(Below(m))
  <2>1. m \in Nat /\ k <= Cardinality(Below(m))
    BY <1>6
  <2>2. m # 0
    BY <1>4, <1>5, <2>1
  <2> QED
    BY <2>1, <2>2
<1>8. m - 1 \in Nat /\ m - 1 \notin T
  <2>1. m - 1 \in Nat /\ ~(m <= m - 1)
    BY <1>7
  <2> HIDE DEF T
  <2>2. m - 1 \notin T
    BY <1>6, <2>1
  <2> QED
    BY <2>1, <2>2
<1>9. Cardinality(Below(m - 1)) < k /\ Cardinality(Below(m - 1)) \in Nat
  <2> DEFINE d == Cardinality(Below(m - 1))
  <2>1. d \in Nat /\ ~(k <= d)
    BY <1>1, <1>8
  <2> HIDE DEF d
  <2>2. d < k /\ d \in Nat
    BY <1>5, <2>1
  <2> QED
    BY <2>2 DEF d
<1>10. Cardinality(Below(m)) = IF m \in I THEN Cardinality(Below(m - 1)) + 1
                               ELSE Cardinality(Below(m - 1))
  <2>1. (m - 1) + 1 = m
    BY <1>7
  <2>2. Cardinality(Below((m - 1) + 1)) =
            IF (m - 1) + 1 \in I THEN Cardinality(Below(m - 1)) + 1
            ELSE Cardinality(Below(m - 1))
    BY <1>2, <1>8
  <2> QED
    BY <2>1, <2>2
<1>11. m \in I /\ Cardinality(Below(m)) = k
  <2> DEFINE c == Cardinality(Below(m)) d == Cardinality(Below(m - 1))
  <2>1. c = (IF m \in I THEN d + 1 ELSE d) /\ d < k /\ k <= c /\ d \in Nat /\ k \in Nat
    BY <1>5, <1>7, <1>9, <1>10
  <2> HIDE DEF c, d
  <2>2. m \in I /\ c = k
    BY <2>1
  <2> QED
    BY <2>2 DEF c
<1> QED
  BY <1>11

\* The targets of an answer: the names it mentions, other than the query's.
LEMMA TargetsAre ==
    ASSUME NEW a \in Answers
    PROVE  /\ CNAMETargets(a) \in Seq(Names)
           /\ {CNAMETargets(a)[i] : i \in DOMAIN CNAMETargets(a)}
                = {a.cnames[i] : i \in DOMAIN a.cnames} \ {q.name}
<1> DEFINE I == Kept(a)
           c == a.cnames
           Nth(k) == CHOOSE i \in I : Cardinality({j \in I : j <= i}) = k
           ts == CNAMETargets(a)
<1>1. c \in Seq(Names) /\ Len(c) \in Nat /\ DOMAIN c = 1 .. Len(c)
  BY FilteringAssumption
<1>2. I \in SUBSET (1 .. Len(c)) /\ \A i \in I : c[i] # q.name
  BY <1>1 DEF Kept
<1>3. IsFiniteSet(I) /\ Cardinality(I) \in Nat
  <2>1. IsFiniteSet(1 .. Len(c))
    BY <1>1, FS_Interval
  <2> QED
    BY <1>2, <2>1, FS_Subset, FS_CardinalityType
<1>4. ts = [k \in 1 .. Cardinality(I) |-> c[Nth(k)]]
  BY DEF CNAMETargets
<1>5. \A k \in 1 .. Cardinality(I) : \E i \in I : Cardinality({j \in I : j <= i}) = k
  BY <1>1, <1>2, NthExists
<1>6. \A k \in 1 .. Cardinality(I) :
          Nth(k) \in I /\ Cardinality({j \in I : j <= Nth(k)}) = k
  BY <1>5
<1>7. \A k \in 1 .. Cardinality(I) : c[Nth(k)] \in Names
  <2>1. \A i \in I : c[i] \in Names
    BY <1>1, <1>2
  <2> HIDE DEF I, c
  <2> QED
    BY <1>6, <2>1
<1>8. ts \in Seq(Names) /\ DOMAIN ts = 1 .. Cardinality(I)
  <2> HIDE DEF Nth
  <2>1. ts \in [1 .. Cardinality(I) -> Names]
    BY <1>4, <1>7
  <2> QED
    BY <1>3, <2>1, <1>4
<1>9. ASSUME NEW k \in DOMAIN ts
      PROVE  \E i \in DOMAIN c : ts[k] = c[i] /\ c[i] # q.name
  <2>1. Nth(k) \in I /\ ts[k] = c[Nth(k)]
    BY <1>4, <1>6, <1>8
  <2> QED
    BY <1>1, <1>2, <2>1
<1>10. ASSUME NEW m \in DOMAIN c, c[m] # q.name
       PROVE  \E i \in I : c[i] = c[m]
  <2> DEFINE T == {i \in 1 .. Len(c) : c[i] = c[m]}
  <2>1. T \in SUBSET Nat /\ m \in T
    BY <1>1
  <2>2. PICK i \in T : \A j \in T : i <= j
    BY <2>1, Least
  <2>3. \A j \in 1 .. i - 1 : c[j] # c[i]
    BY <1>1, <2>2
  <2> QED
    BY <1>1, <1>10, <2>2, <2>3 DEF Kept
<1>11. ASSUME NEW i \in I PROVE \E k \in 1 .. Cardinality(I) : Nth(k) = i
  <2> DEFINE Below(m) == {j \in I : j <= m}
             k == Cardinality(Below(i))
  <2>1. \A m \in I : IsFiniteSet(Below(m)) /\ Cardinality(Below(m)) \in Nat
    BY <1>3, FS_Subset, FS_CardinalityType
  <2>2. k \in 1 .. Cardinality(I)
    <3>1. k <= Cardinality(I)
      BY <1>3, FS_Subset
    <3>2. k # 0
      <4>1. i \in Below(i)
        BY <1>2
      <4>2. IsFiniteSet(Below(i)) /\ Below(i) # {}
        BY <2>1, <4>1
      <4> QED
        BY <4>2, FS_EmptySet
    <3> QED
      BY <1>3, <2>1, <3>1, <3>2
  <2>3. Nth(k) \in I /\ Cardinality(Below(Nth(k))) = k
    BY <1>6, <2>2
  <2>4. ASSUME NEW u \in I, NEW v \in I, u <= v, Cardinality(Below(u)) = Cardinality(Below(v))
        PROVE  u = v
    <3>1. Below(u) \in SUBSET Below(v)
      BY <1>2, <2>4
    <3>2. Below(u) = Below(v)
      BY <2>1, <2>4, <3>1, FS_Subset
    <3>3. v \in Below(v)
      BY <1>2
    <3>4. v <= u
      BY <3>2, <3>3
    <3> QED
      BY <1>2, <2>4, <3>4
  <2>5. Nth(k) <= i \/ i <= Nth(k)
    BY <1>2, <2>3
  <2>6. Nth(k) = i
    <3> DEFINE u == Nth(k)
    <3>1. u \in I /\ Cardinality(Below(u)) = Cardinality(Below(i)) /\ (u <= i \/ i <= u)
      BY <2>3, <2>5
    <3> HIDE DEF u
    <3>2. u = i
      BY <2>4, <3>1
    <3> QED
      BY <3>2 DEF u
  <2> QED
    BY <2>2, <2>6
<1>12. ASSUME NEW m \in DOMAIN c, c[m] # q.name
       PROVE  \E k \in DOMAIN ts : ts[k] = c[m]
  <2>1. PICK i \in I : c[i] = c[m]
    BY <1>10, <1>12
  <2>2. PICK k \in 1 .. Cardinality(I) : Nth(k) = i
    BY <1>11
  <2>3. ts[k] = c[Nth(k)]
    BY <1>4
  <2> QED
    BY <1>8, <2>1, <2>2, <2>3
<1> QED
  BY <1>8, <1>9, <1>12

\* A name ends in one of a set of names of two or more labels exactly if one of
\* its parents, or itself, down to two labels is in the set.
LEMMA SuffixWalk ==
    ASSUME NEW n \in Names, NEW P \in SUBSET Names
    PROVE  /\ From(n, 1) = n /\ Len(n) \in Nat \ {0}
           /\ (\E p \in P : Len(p) > 1 /\ HasSuffix(n, p))
                <=> \E k \in 1 .. Len(n) - 1 : From(n, k) \in P
<1>1. n \in Seq(STRING) /\ Len(n) \in Nat /\ n # <<>> /\ Len(n) # 0
  BY EmptySeq DEF Names
<1>2. From(n, 1) = n
  BY <1>1, SubSeqFull DEF From
<1>3. ASSUME NEW p \in P, Len(p) > 1, HasSuffix(n, p)
      PROVE  \E k \in 1 .. Len(n) - 1 : From(n, k) \in P
  <2>1. p \in Seq(STRING) /\ Len(p) \in Nat /\ Len(p) <= Len(n)
    BY <1>3 DEF Names, HasSuffix
  <2>2. Len(n) - Len(p) + 1 \in 1 .. Len(n) - 1
    BY <1>1, <1>3, <2>1
  <2>3. From(n, Len(n) - Len(p) + 1) = p
    BY <1>3 DEF HasSuffix
  <2> QED
    BY <2>2, <2>3
<1>4. ASSUME NEW k \in 1 .. Len(n) - 1, From(n, k) \in P
      PROVE  \E p \in P : Len(p) > 1 /\ HasSuffix(n, p)
  <2>1. \A i \in k .. Len(n) : n[i] \in STRING
    BY <1>1
  <2>2. Len(SubSeq(n, k, Len(n))) = IF k <= Len(n) THEN Len(n) - k + 1 ELSE 0
    BY <1>1, <2>1, SubSeqProperties
  <2>3. Len(From(n, k)) = Len(n) - k + 1
    BY <1>1, <2>2 DEF From
  <2>4. Len(From(n, k)) > 1 /\ Len(From(n, k)) <= Len(n)
        /\ Len(n) - Len(From(n, k)) + 1 = k
    BY <1>1, <2>3
  <2>5. HasSuffix(n, From(n, k))
    BY <2>4 DEF HasSuffix
  <2> QED
    BY <1>4, <2>4, <2>5
<1> QED
  BY <1>1, <1>2, <1>3, <1>4

\* The profile's lists, as the reads see them.
LEMMA ListsAre ==
    ASSUME TypeOK, NEW j \in 1 .. Len(prof.blocklists)
    PROVE  /\ prof.blocklists[j] \in Lists
           /\ Listed[prof.blocklists[j]][liveVer[prof.blocklists[j]]] \in SUBSET Names
           /\ Excepted[prof.blocklists[j]][excVer[prof.blocklists[j]]] \in SUBSET Names
<1> DEFINE l == prof.blocklists[j]
<1>1. prof.blocklists \in Seq(Lists)
  BY FilteringAssumption DEF TypeOK
<1>2. l \in Lists
  BY <1>1
<1> HIDE DEF l
<1>3. liveVer[l] \in Versions /\ excVer[l] \in Versions
  BY <1>2 DEF TypeOK
<1>4. Listed[l][liveVer[l]] \in SUBSET Names /\ Excepted[l][excVer[l]] \in SUBSET Names
  BY <1>2, <1>3, FilteringAssumption
<1> QED
  BY <1>2, <1>4 DEF l

\* What the lists say, list by list and label by label.
LEMMA WalkReads ==
    ASSUME TypeOK, NEW n \in Names
    PROVE  /\ ListsBlock(n) <=> \E j \in 1 .. Len(prof.blocklists) : ListAt(j, n)
           /\ \A j \in 1 .. Len(prof.blocklists) :
                /\ Hit(j, n) <=>
                     \/ n \in Listed[prof.blocklists[j]][liveVer[prof.blocklists[j]]]
                     \/ prof.subdomains = "block"
                        /\ \E k \in 1 .. Len(n) - 1 :
                             From(n, k) \in Listed[prof.blocklists[j]][liveVer[prof.blocklists[j]]]
                /\ Withdrawn(j, n) <=>
                     \E k \in 1 .. Len(n) - 1 :
                        From(n, k) \in Excepted[prof.blocklists[j]][excVer[prof.blocklists[j]]]
<1>1. DOMAIN prof.blocklists = 1 .. Len(prof.blocklists)
  BY FilteringAssumption DEF TypeOK
<1>2. \A j \in 1 .. Len(prof.blocklists) :
        ListAt(j, n) <=> ListBlocks(prof.blocklists[j], liveVer[prof.blocklists[j]],
                                    excVer[prof.blocklists[j]], n)
  BY DEF ListAt, Hit, Withdrawn, ListBlocks
<1>3. ListsBlock(n) <=> \E j \in 1 .. Len(prof.blocklists) : ListAt(j, n)
  BY <1>1, <1>2 DEF ListsBlock
<1>4. ASSUME NEW j \in 1 .. Len(prof.blocklists)
      PROVE  /\ Hit(j, n) <=>
                  \/ n \in Listed[prof.blocklists[j]][liveVer[prof.blocklists[j]]]
                  \/ prof.subdomains = "block"
                     /\ \E k \in 1 .. Len(n) - 1 :
                          From(n, k) \in Listed[prof.blocklists[j]][liveVer[prof.blocklists[j]]]
             /\ Withdrawn(j, n) <=>
                  \E k \in 1 .. Len(n) - 1 :
                     From(n, k) \in Excepted[prof.blocklists[j]][excVer[prof.blocklists[j]]]
  <2> DEFINE L == Listed[prof.blocklists[j]][liveVer[prof.blocklists[j]]]
             X == Excepted[prof.blocklists[j]][excVer[prof.blocklists[j]]]
  <2>1. L \in SUBSET Names /\ X \in SUBSET Names
    BY <1>4, ListsAre
  <2>2. /\ Hit(j, n) <=> \/ n \in L
                         \/ prof.subdomains = "block" /\ \E p \in L : Len(p) > 1 /\ HasSuffix(n, p)
        /\ Withdrawn(j, n) <=> \E p \in X : Len(p) > 1 /\ HasSuffix(n, p)
    BY DEF Hit, Withdrawn
  <2> HIDE DEF L, X
  <2>3. (\E p \in L : Len(p) > 1 /\ HasSuffix(n, p)) <=> \E k \in 1 .. Len(n) - 1 : From(n, k) \in L
    BY <2>1, SuffixWalk
  <2>4. (\E p \in X : Len(p) > 1 /\ HasSuffix(n, p)) <=> \E k \in 1 .. Len(n) - 1 : From(n, k) \in X
    BY <2>1, SuffixWalk
  <2>5. /\ Hit(j, n) <=> \/ n \in L
                         \/ prof.subdomains = "block" /\ \E k \in 1 .. Len(n) - 1 : From(n, k) \in L
        /\ Withdrawn(j, n) <=> \E k \in 1 .. Len(n) - 1 : From(n, k) \in X
    BY <2>2, <2>3, <2>4
  <2> QED
    BY <2>5 DEF L, X
<1> QED
  BY <1>3, <1>4

\* Where a scan on course stands.
LEMMA Standing ==
    ASSUME TypeOK, NEW sc, OnCourse(sc)
    PROVE  /\ sc \in [names : Seq(Names), t : Nat, l : Nat, k : Nat, mode : {"entry", "except"}]
           /\ Len(sc.names) \in Nat /\ DOMAIN sc.names = 1 .. Len(sc.names)
           /\ Len(prof.blocklists) \in Nat
           /\ sc.t \in 1 .. Len(sc.names) /\ sc.l \in 1 .. Len(prof.blocklists)
           /\ sc.names[sc.t] \in Names /\ Len(sc.names[sc.t]) \in Nat \ {0}
           /\ \A i \in 1 .. Len(sc.names) : sc.names[i] \in Names
<1>1. sc \in [names : Seq(Names), t : Nat, l : Nat, k : Nat, mode : {"entry", "except"}]
      /\ sc.t \in 1 .. Len(sc.names) /\ sc.l \in 1 .. Len(prof.blocklists)
  BY DEF OnCourse
<1>2. sc.names \in Seq(Names) /\ prof.blocklists \in Seq(Lists)
  BY <1>1, FilteringAssumption DEF TypeOK
<1>3. sc.names[sc.t] \in Names
  BY <1>1, <1>2
<1>4. Len(sc.names[sc.t]) \in Nat \ {0}
  BY <1>3, EmptySeq DEF Names
<1> QED
  BY <1>1, <1>2, <1>3, <1>4

\* An entry read keeps the scan on course, or settles what this list says.
LEMMA EntryReads ==
    ASSUME TypeOK, OnCourse(scan), scan.mode = "entry"
    PROVE  /\ Candidate \in Listed[List][liveVer[List]] =>
                IF Len(Name) = 1 THEN ListAt(scan.l, Name)
                ELSE OnCourse([scan EXCEPT !.k = 1, !.mode = "except"])
           /\ Candidate \notin Listed[List][liveVer[List]] =>
                IF NextCandidate(Name, scan.k) # 0
                THEN OnCourse([scan EXCEPT !.k = NextCandidate(Name, scan.k)])
                ELSE ~ListAt(scan.l, Name)
<1> DEFINE n == Name
           L == Listed[List][liveVer[List]]
           X == Excepted[List][excVer[List]]
<1>1. /\ scan \in [names : Seq(Names), t : Nat, l : Nat, k : Nat, mode : {"entry", "except"}]
      /\ scan.l \in 1 .. Len(prof.blocklists) /\ n \in Names /\ Len(n) \in Nat \ {0}
  BY Standing DEF Name
<1>2. /\ From(n, 1) = n
      /\ Hit(scan.l, n) <=>
            \/ n \in L
            \/ prof.subdomains = "block" /\ \E k \in 1 .. Len(n) - 1 : From(n, k) \in L
      /\ Withdrawn(scan.l, n) <=> \E k \in 1 .. Len(n) - 1 : From(n, k) \in X
  BY <1>1, SuffixWalk, WalkReads DEF List
<1>3. \/ scan.k = 1
      \/ /\ prof.subdomains = "block" /\ scan.k \in 2 .. Len(n) - 1
         /\ n \notin L /\ \A j \in scan.k + 1 .. Len(n) - 1 : From(n, j) \notin L
  BY DEF OnCourse, Name, List
<1>4. Candidate = From(n, scan.k)
  BY DEF Candidate
<1>5. ASSUME NEW sc, sc \in [names : Seq(Names), t : Nat, l : Nat, k : Nat, mode : {"entry", "except"}],
             sc.names = scan.names, sc.t = scan.t, sc.l = scan.l,
             \/ /\ sc.mode = "entry" /\ prof.subdomains = "block" /\ sc.k \in 2 .. Len(n) - 1
                /\ n \notin L
                /\ \A j \in sc.k + 1 .. Len(n) - 1 : From(n, j) \notin L
             \/ /\ sc.mode = "except" /\ sc.k \in 1 .. Len(n) - 1 /\ Hit(sc.l, n)
                /\ \A j \in 1 .. sc.k - 1 : From(n, j) \notin X
      PROVE  OnCourse(sc)
  BY <1>5 DEF OnCourse, Name, List
<1> HIDE DEF n, L, X
<1>6. ASSUME Candidate \in L PROVE Hit(scan.l, n)
  BY <1>1, <1>2, <1>3, <1>4, <1>6
<1>7. ASSUME Candidate \in L, Len(n) = 1 PROVE ListAt(scan.l, n)
  BY <1>2, <1>6, <1>7 DEF ListAt
<1>8. ASSUME Candidate \in L, Len(n) # 1
      PROVE  OnCourse([scan EXCEPT !.k = 1, !.mode = "except"])
  <2> DEFINE sc == [scan EXCEPT !.k = 1, !.mode = "except"]
  <2>1. /\ sc \in [names : Seq(Names), t : Nat, l : Nat, k : Nat, mode : {"entry", "except"}]
        /\ sc.names = scan.names /\ sc.t = scan.t /\ sc.l = scan.l
        /\ sc.k = 1 /\ sc.mode = "except"
    BY <1>1
  <2> HIDE DEF sc
  <2>2. 1 \in 1 .. Len(n) - 1
    <3> DEFINE len == Len(n)
    <3>1. len \in Nat \ {0} /\ len # 1
      BY <1>1, <1>8
    <3> HIDE DEF len
    <3>2. 1 \in 1 .. len - 1
      BY <3>1
    <3> QED
      BY <3>2 DEF len
  <2>5. \A j \in 1 .. 1 - 1 : From(n, j) \notin X
    OBVIOUS
  <2>4. Hit(sc.l, n)
    BY <1>6, <1>8, <2>1
  <2>3. OnCourse(sc)
    BY <1>5, <2>1, <2>2, <2>4, <2>5
  <2> QED
    BY <2>3 DEF sc
<1> DEFINE next == NextCandidate(n, scan.k)
<1>9. next = IF prof.subdomains # "block" THEN 0
             ELSE IF scan.k = 1 THEN (IF Len(n) > 2 THEN Len(n) - 1 ELSE 0)
             ELSE (IF scan.k > 2 THEN scan.k - 1 ELSE 0)
  BY DEF NextCandidate
<1> HIDE DEF next
<1>10. ASSUME Candidate \notin L, next # 0
       PROVE  OnCourse([scan EXCEPT !.k = next])
  <2> DEFINE sc == [scan EXCEPT !.k = next]
  <2>1. prof.subdomains = "block" /\ next \in 2 .. Len(n) - 1 /\ next \in Nat
    BY <1>1, <1>3, <1>9, <1>10
  <2>2. /\ sc \in [names : Seq(Names), t : Nat, l : Nat, k : Nat, mode : {"entry", "except"}]
        /\ sc.names = scan.names /\ sc.t = scan.t /\ sc.l = scan.l
        /\ sc.k = next /\ sc.mode = "entry"
    BY <1>1, <2>1
  <2>3. n \notin L
    BY <1>2, <1>3, <1>4, <1>10
  <2>4. \A j \in next + 1 .. Len(n) - 1 : From(n, j) \notin L
    BY <1>1, <1>3, <1>4, <1>9, <1>10
  <2> HIDE DEF sc
  <2>5. OnCourse(sc)
    BY <1>5, <2>1, <2>2, <2>3, <2>4
  <2> QED
    BY <2>5 DEF sc
<1>11. ASSUME Candidate \notin L, next = 0 PROVE ~ListAt(scan.l, n)
  <2>1. n \notin L
    BY <1>2, <1>3, <1>4, <1>11
  <2>2. ASSUME prof.subdomains = "block", NEW k \in 1 .. Len(n) - 1 PROVE From(n, k) \notin L
    <3>1. CASE k = 1
      BY <1>2, <2>1, <3>1
    <3>2. CASE k # 1
      BY <1>1, <1>3, <1>4, <1>9, <1>11, <2>2, <3>2
    <3> QED
      BY <3>1, <3>2
  <2> QED
    BY <1>2, <2>1, <2>2 DEF ListAt
<1> QED
  BY <1>7, <1>8, <1>10, <1>11 DEF n, L, next

\* So does a read of an exception.
LEMMA ExceptionReads ==
    ASSUME TypeOK, OnCourse(scan), scan.mode = "except"
    PROVE  IF Candidate \in Excepted[List][excVer[List]] THEN ~ListAt(scan.l, Name)
           ELSE IF scan.k < Len(Name) - 1 THEN OnCourse([scan EXCEPT !.k = scan.k + 1])
           ELSE ListAt(scan.l, Name)
<1> DEFINE n == Name
           X == Excepted[List][excVer[List]]
<1>1. /\ scan \in [names : Seq(Names), t : Nat, l : Nat, k : Nat, mode : {"entry", "except"}]
      /\ scan.l \in 1 .. Len(prof.blocklists) /\ n \in Names /\ Len(n) \in Nat \ {0}
  BY Standing DEF Name
<1>2. Withdrawn(scan.l, n) <=> \E k \in 1 .. Len(n) - 1 : From(n, k) \in X
  BY <1>1, WalkReads DEF List
<1>3. /\ scan.k \in 1 .. Len(n) - 1 /\ Hit(scan.l, n)
      /\ \A j \in 1 .. scan.k - 1 : From(n, j) \notin X
  BY DEF OnCourse, Name, List
<1>4. Candidate = From(n, scan.k)
  BY DEF Candidate
<1>5. ASSUME NEW sc, sc \in [names : Seq(Names), t : Nat, l : Nat, k : Nat, mode : {"entry", "except"}],
             sc.names = scan.names, sc.t = scan.t, sc.l = scan.l,
             sc.mode = "except", sc.k \in 1 .. Len(n) - 1, Hit(sc.l, n),
             \A j \in 1 .. sc.k - 1 : From(n, j) \notin X
      PROVE  OnCourse(sc)
  BY <1>5 DEF OnCourse, Name, List
<1> HIDE DEF n, X
<1>6. CASE Candidate \in X
  BY <1>2, <1>3, <1>4, <1>6 DEF ListAt, n, X
<1>7. ASSUME Candidate \notin X, scan.k < Len(n) - 1
      PROVE  OnCourse([scan EXCEPT !.k = scan.k + 1])
  <2> DEFINE sc == [scan EXCEPT !.k = scan.k + 1]
  <2>1. /\ sc \in [names : Seq(Names), t : Nat, l : Nat, k : Nat, mode : {"entry", "except"}]
        /\ sc.names = scan.names /\ sc.t = scan.t /\ sc.l = scan.l
        /\ sc.k = scan.k + 1 /\ sc.mode = "except"
    BY <1>1
  <2>2. scan.k + 1 \in 1 .. Len(n) - 1 /\ \A j \in 1 .. (scan.k + 1) - 1 : From(n, j) \notin X
    BY <1>1, <1>3, <1>4, <1>7
  <2> HIDE DEF sc
  <2>3. OnCourse(sc)
    BY <1>3, <1>5, <2>1, <2>2
  <2> QED
    BY <2>3 DEF sc
<1>8. ASSUME Candidate \notin X, ~(scan.k < Len(n) - 1)
      PROVE  ListAt(scan.l, n)
  BY <1>1, <1>2, <1>3, <1>4, <1>8 DEF ListAt
<1> QED
  BY <1>6, <1>7, <1>8 DEF n, X

\* The place Goto takes the scan to
Place(t, l) == [scan EXCEPT !.t = t, !.l = l, !.k = 1, !.mode = "entry"]

\* Once this list does not block the name, the scan goes on to the next list or
\* name, or none of the names is blocked.
LEMMA Advances ==
    ASSUME TypeOK, OnCourse(scan), ~ListAt(scan.l, Name)
    PROVE  IF scan.l < Len(prof.blocklists) THEN OnCourse(Place(scan.t, scan.l + 1))
           ELSE IF scan.t < Len(scan.names) THEN OnCourse(Place(scan.t + 1, 1))
           ELSE ~AnyBlocks(scan.names)
<1>1. /\ scan \in [names : Seq(Names), t : Nat, l : Nat, k : Nat, mode : {"entry", "except"}]
      /\ Len(scan.names) \in Nat /\ DOMAIN scan.names = 1 .. Len(scan.names)
      /\ Len(prof.blocklists) \in Nat
      /\ scan.t \in 1 .. Len(scan.names) /\ scan.l \in 1 .. Len(prof.blocklists)
      /\ Name \in Names
  BY Standing DEF Name
<1>2. /\ \A i \in 1 .. scan.t - 1 : ~ListsBlock(scan.names[i])
      /\ \A j \in 1 .. scan.l - 1 : ~ListAt(j, scan.names[scan.t])
      /\ ~ListAt(scan.l, scan.names[scan.t])
  BY DEF OnCourse, Name
<1>3. \A t, l \in Nat :
        /\ Place(t, l) \in [names : Seq(Names), t : Nat, l : Nat, k : Nat, mode : {"entry", "except"}]
        /\ Place(t, l).names = scan.names /\ Place(t, l).t = t /\ Place(t, l).l = l
        /\ Place(t, l).k = 1 /\ Place(t, l).mode = "entry"
  BY <1>1 DEF Place
<1>4. ASSUME NEW t \in 1 .. Len(scan.names), NEW l \in 1 .. Len(prof.blocklists),
             \A i \in 1 .. t - 1 : ~ListsBlock(scan.names[i]),
             \A j \in 1 .. l - 1 : ~ListAt(j, scan.names[t])
      PROVE  OnCourse(Place(t, l))
  <2> DEFINE sc == Place(t, l)
  <2>0. t \in Nat /\ l \in Nat
    BY <1>1, <1>4
  <2>1. /\ sc \in [names : Seq(Names), t : Nat, l : Nat, k : Nat, mode : {"entry", "except"}]
        /\ sc.names = scan.names /\ sc.t = t /\ sc.l = l /\ sc.k = 1 /\ sc.mode = "entry"
    BY <1>3, <2>0
  <2> HIDE DEF sc
  <2>2. OnCourse(sc)
    BY <1>4, <2>1 DEF OnCourse
  <2> QED
    BY <2>2 DEF sc
<1>5. CASE scan.l < Len(prof.blocklists)
  <2>1. scan.l + 1 \in 1 .. Len(prof.blocklists)
        /\ \A j \in 1 .. (scan.l + 1) - 1 : ~ListAt(j, scan.names[scan.t])
    BY <1>1, <1>2, <1>5
  <2>2. OnCourse(Place(scan.t, scan.l + 1))
    BY <1>1, <1>2, <1>4, <2>1
  <2> QED
    BY <1>5, <2>2
<1>6. CASE ~(scan.l < Len(prof.blocklists))
  <2>1. \A j \in 1 .. Len(prof.blocklists) : ~ListAt(j, scan.names[scan.t])
    BY <1>1, <1>2, <1>6
  <2>2. ~ListsBlock(scan.names[scan.t])
    BY <1>1, <2>1, WalkReads DEF Name
  <2>3. \A i \in 1 .. scan.t : ~ListsBlock(scan.names[i])
    BY <1>1, <1>2, <2>2
  <2>4. CASE scan.t < Len(scan.names)
    <3>1. scan.t + 1 \in 1 .. Len(scan.names) /\ 1 \in 1 .. Len(prof.blocklists)
          /\ \A i \in 1 .. (scan.t + 1) - 1 : ~ListsBlock(scan.names[i])
      BY <1>1, <2>3, <2>4
    <3>2. \A j \in 1 .. 1 - 1 : ~ListAt(j, scan.names[scan.t + 1])
      OBVIOUS
    <3>3. OnCourse(Place(scan.t + 1, 1))
      BY <1>4, <3>1, <3>2
    <3> QED
      BY <1>6, <2>4, <3>3
  <2>5. CASE ~(scan.t < Len(scan.names))
    <3>1. \A i \in 1 .. Len(scan.names) : ~ListsBlock(scan.names[i])
      BY <1>1, <2>3, <2>5
    <3> QED
      BY <1>1, <1>6, <2>5, <3>1 DEF AnyBlocks
  <2> QED
    BY <2>4, <2>5
<1> QED
  BY <1>5, <1>6

\* A scan starts on course; without names or lists nothing is blocked.
LEMMA Starts ==
    ASSUME TypeOK, NEW names \in Seq(Names)
    PROVE  IF names = <<>> \/ prof.blocklists = <<>> THEN ~AnyBlocks(names)
           ELSE OnCourse([NoScan EXCEPT !.names = names])
<1>1. /\ prof.blocklists \in Seq(Lists) /\ Len(names) \in Nat /\ DOMAIN names = 1 .. Len(names)
      /\ \A i \in DOMAIN names : names[i] \in Names
  BY FilteringAssumption DEF TypeOK
<1>2. CASE names = <<>>
  BY <1>2 DEF AnyBlocks
<1>3. CASE prof.blocklists = <<>>
  <2>1. Len(prof.blocklists) = 0
    BY <1>3
  <2>2. \A i \in DOMAIN names : ~ListsBlock(names[i])
    BY <1>1, <2>1, WalkReads
  <2> QED
    BY <1>3, <2>2 DEF AnyBlocks
<1>4. CASE names # <<>> /\ prof.blocklists # <<>>
  <2>1. 1 \in 1 .. Len(names) /\ 1 \in 1 .. Len(prof.blocklists)
    BY <1>1, <1>4, EmptySeq
  <2> DEFINE sc == [NoScan EXCEPT !.names = names]
  <2>2. /\ sc \in [names : Seq(Names), t : Nat, l : Nat, k : Nat, mode : {"entry", "except"}]
        /\ sc.names = names /\ sc.t = 1 /\ sc.l = 1 /\ sc.k = 1 /\ sc.mode = "entry"
    BY DEF NoScan
  <2> HIDE DEF sc
  <2>3. OnCourse(sc)
    BY <2>1, <2>2 DEF OnCourse
  <2> QED
    BY <1>4, <2>3 DEF sc
<1> QED
  BY <1>2, <1>3, <1>4

\* What the lists say changes only with the lists, the profile or the query.
LEMMA SayTheSame ==
    ASSUME q' = q, prof' = prof, res' = res, liveVer' = liveVer, excVer' = excVer
    PROVE  /\ OnCourse(scan)' <=> OnCourse(scan')
           /\ AnyBlocks(<<q.name>>)' <=> AnyBlocks(<<q.name>>)
           /\ CNAMETargets(res)' = CNAMETargets(res)
           /\ AnyBlocks(CNAMETargets(res))' <=> AnyBlocks(CNAMETargets(res))
<1>1. CNAMETargets(res)' = CNAMETargets(res)
  BY DEF CNAMETargets, Kept
<1>2. \A n : ListsBlock(n)' <=> ListsBlock(n)
  BY DEF ListsBlock, ListBlocks, HasSuffix, From
<1>3. /\ \A j, n : ListAt(j, n)' <=> ListAt(j, n)
      /\ \A j, n : Hit(j, n)' <=> Hit(j, n)
  BY DEF ListAt, Hit, Withdrawn, HasSuffix, From
<1>4. /\ AnyBlocks(<<q.name>>)' <=> AnyBlocks(<<q.name>>)
      /\ AnyBlocks(CNAMETargets(res))' <=> AnyBlocks(CNAMETargets(res))
  BY <1>1, <1>2 DEF AnyBlocks
<1>5. OnCourse(scan)' <=> OnCourse(scan')
  BY <1>2, <1>3 DEF OnCourse, From
<1> QED
  BY <1>1, <1>4, <1>5

\* A step that leaves the reading stages alone keeps WalkInv.
LEMMA WalkFrame ==
    ASSUME WalkInv, ~moved, StageFrame, scan' = scan,
           out'["blocklists"] = out["blocklists"], out'["cname"] = out["cname"]
    PROVE  WalkInv'
<1>1. /\ q' = q /\ prof' = prof /\ pc' = pc /\ res' = res
      /\ liveVer' = liveVer /\ excVer' = excVer
  BY DEF StageFrame, lists
<1>2. /\ Scanner' = Scanner /\ Scanning' = Scanning
      /\ NamesToCheck' = NamesToCheck
  BY <1>1, SayTheSame DEF Scanner, Scanning, NamesToCheck
<1> QED
  BY <1>1, <1>2, SayTheSame DEF WalkInv

\* So does a reading stage that stays on course, fails, or ends with what the
\* lists say.
LEMMA WalkReadsOn ==
    ASSUME IInv, WalkInv, ~moved, StageFrame, pc \in {"domain", "ip"}, out[Scanner] = Pending,
           \/ /\ out' = out /\ OnCourse(scan') /\ scan'.names = NamesToCheck
              /\ pc = "ip" => UncloakingEnabled /\ res # NoAnswer
           \/ \E r \in Results \cup {Failed} :
                /\ Finish(Scanner, r)
                /\ \/ r = Failed
                   \/ pc = "ip" /\ r.tier = TierCustomRules
                   \/ /\ pc = "ip" => UncloakingEnabled /\ res # NoAnswer
                      /\ r.dec = "block" <=> AnyBlocks(NamesToCheck)
                   \/ pc = "ip" /\ ~(UncloakingEnabled /\ res # NoAnswer)
    PROVE  WalkInv'
<1>1. /\ q' = q /\ prof' = prof /\ pc' = pc /\ res' = res
      /\ liveVer' = liveVer /\ excVer' = excVer
  BY DEF StageFrame, lists
<1>2. /\ Scanner' = Scanner /\ NamesToCheck' = NamesToCheck
      /\ pc = "domain" => Scanner = "blocklists" /\ NamesToCheck = <<q.name>>
      /\ pc = "ip" => Scanner = "cname" /\ NamesToCheck = CNAMETargets(res)
  BY <1>1, SayTheSame DEF Scanner, NamesToCheck
<1>3. out \in [Stages -> Results \cup {Pending, Failed}] /\ Scanner \in Stages
      /\ "blocklists" \in Stages /\ "cname" \in Stages
  BY DEF IInv, TypeOK, Scanner, Stages, DomainStages, IPStages
<1>4. CASE out' = out /\ OnCourse(scan') /\ scan'.names = NamesToCheck
           /\ (pc = "ip" => UncloakingEnabled /\ res # NoAnswer)
  BY <1>1, <1>2, <1>4, SayTheSame DEF WalkInv
<1>5. ASSUME NEW r \in Results \cup {Failed}, Finish(Scanner, r),
             \/ r = Failed
             \/ pc = "ip" /\ r.tier = TierCustomRules
             \/ /\ pc = "ip" => UncloakingEnabled /\ res # NoAnswer
                /\ r.dec = "block" <=> AnyBlocks(NamesToCheck)
             \/ pc = "ip" /\ ~(UncloakingEnabled /\ res # NoAnswer)
      PROVE  WalkInv'
  <2>1. out'[Scanner] = r /\ \A s \in Stages \ {Scanner} : out'[s] = out[s]
    BY <1>3, <1>5 DEF Finish
  <2>2. r # Pending /\ Failed \notin Results /\ ~Scanning'
    BY <1>2, <2>1, OutcomesDiffer DEF Scanning
  <2>3. CASE pc = "domain"
    <3>1. out'["blocklists"] = r /\ out'["cname"] = out["cname"]
      BY <1>2, <1>3, <2>1, <2>3
    <3>2. r \in Results => (r.dec = "block" <=> AnyBlocks(<<q.name>>))
      BY <1>2, <1>5, <2>2, <2>3
    <3> QED
      BY <1>1, <2>2, <2>3, <3>1, <3>2, SayTheSame, OutcomesDiffer DEF WalkInv
  <2>4. CASE pc = "ip"
    <3>1. out'["cname"] = r /\ out'["blocklists"] = out["blocklists"]
      BY <1>2, <1>3, <2>1, <2>4
    <3>2. r \in Results /\ r.tier = TierBlocklists /\ res # NoAnswer /\ UncloakingEnabled
          => (r.dec = "block" <=> AnyBlocks(CNAMETargets(res)))
      BY <1>2, <1>5, <2>2, <2>4 DEF TierBlocklists, TierCustomRules
    <3> QED
      BY <1>1, <2>2, <2>4, <3>1, <3>2, SayTheSame, OutcomesDiffer DEF WalkInv
  <2> QED
    BY <2>3, <2>4
<1> QED
  BY <1>4, <1>5

\* The outcomes of the reading stages.
LEMMA ListResults ==
    /\ \A d \in {"none", "block"} :
         Result(d, TierBlocklists) \in Results /\ Result(d, TierBlocklists).dec = d
    /\ \A d \in {"allow", "block"} :
         Result(d, TierCustomRules) \in Results /\ Result(d, TierCustomRules).tier = TierCustomRules
BY DEF Result, Results, TierBlocklists, TierCustomRules

\* Beginning a scan.
LEMMA WalkBegins ==
    ASSUME IInv, WalkInv, ~moved, Blocklists \/ CNAME
    PROVE  WalkInv'
<1>1. TypeOK /\ StageFrame /\ pc \in {"domain", "ip"} /\ out[Scanner] = Pending
  BY DEF IInv, Blocklists, CNAME, StageStep, StageFrame, Scanner
<1>2. ASSUME NEW names \in Seq(Names), Begin(Scanner, names),
             \/ names = NamesToCheck /\ (pc = "ip" => UncloakingEnabled /\ res # NoAnswer)
             \/ names = <<>> /\ pc = "ip" /\ ~(UncloakingEnabled /\ res # NoAnswer)
      PROVE  WalkInv'
  <2>1. CASE names = <<>> \/ prof.blocklists = <<>>
    <3> DEFINE r == Result("none", TierBlocklists)
    <3>1. r \in Results /\ r.dec # "block" /\ Finish(Scanner, r)
      BY <1>2, <2>1, ListResults DEF Begin
    <3>2. ~AnyBlocks(names)
      BY <1>1, <2>1, Starts
    <3> HIDE DEF r
    <3>3. \/ /\ pc = "ip" => UncloakingEnabled /\ res # NoAnswer
             /\ r.dec = "block" <=> AnyBlocks(NamesToCheck)
          \/ pc = "ip" /\ ~(UncloakingEnabled /\ res # NoAnswer)
      BY <1>2, <3>1, <3>2
    <3> QED
      BY <1>1, <3>1, <3>3, WalkReadsOn
  <2>2. CASE ~(names = <<>> \/ prof.blocklists = <<>>)
    <3>1. out' = out /\ scan' = [NoScan EXCEPT !.names = names]
      BY <1>2, <2>2 DEF Begin
    <3>2. OnCourse([NoScan EXCEPT !.names = names])
      BY <1>1, <2>2, Starts
    <3>3. scan'.names = NamesToCheck /\ (pc = "ip" => UncloakingEnabled /\ res # NoAnswer)
      BY <1>2, <2>2, <3>1 DEF NoScan
    <3>4. OnCourse(scan')
      BY <3>1, <3>2
    <3> QED
      BY <1>1, <3>1, <3>3, <3>4, WalkReadsOn
  <2> QED
    BY <2>1, <2>2
<1>3. CASE Blocklists
  <2>1. pc = "domain" /\ Scanner = "blocklists" /\ Begin(Scanner, <<q.name>>)
        /\ NamesToCheck = <<q.name>>
    BY <1>3 DEF Blocklists, StageStep, Scanner, NamesToCheck
  <2>2. <<q.name>> \in Seq(Names)
    BY <1>1, FilteringAssumption DEF TypeOK
  <2> QED
    BY <1>2, <2>1, <2>2
<1>4. CASE CNAME
  <2> DEFINE targets == IF UncloakingEnabled /\ res # NoAnswer THEN CNAMETargets(res) ELSE <<>>
             dec == TargetsDecision(targets)
  <2>1. pc = "ip" /\ Scanner = "cname" /\ NamesToCheck = CNAMETargets(res)
    BY <1>4 DEF CNAME, StageStep, Scanner, NamesToCheck
  <2>2. IF dec # "none" THEN Finish("cname", Result(dec, TierCustomRules)) /\ UNCHANGED scan
        ELSE Begin("cname", targets)
    BY <1>4 DEF CNAME
  <2>3. targets \in Seq(Names)
    BY <1>1, TargetsAre DEF TypeOK
  <2>4. dec \in {"none", "allow", "block"}
    BY DEF TargetsDecision
  <2> HIDE DEF dec
  <2>5. CASE dec # "none"
    <3> DEFINE r == Result(dec, TierCustomRules)
    <3>1. r \in Results /\ r.tier = TierCustomRules /\ Finish(Scanner, r)
      BY <2>1, <2>2, <2>4, <2>5, ListResults
    <3> HIDE DEF r
    <3> QED
      BY <1>1, <2>1, <3>1, WalkReadsOn
  <2>6. CASE dec = "none"
    <3>1. Begin(Scanner, targets)
      BY <2>1, <2>2, <2>6
    <3>2. \/ targets = NamesToCheck /\ (pc = "ip" => UncloakingEnabled /\ res # NoAnswer)
          \/ targets = <<>> /\ pc = "ip" /\ ~(UncloakingEnabled /\ res # NoAnswer)
      BY <2>1
    <3> HIDE DEF targets
    <3> QED
      BY <1>2, <2>3, <3>1, <3>2
  <2> QED
    BY <2>5, <2>6
<1> QED
  BY <1>3, <1>4

\* Reading an entry or an exception, and failing to.
LEMMA WalkReadsKeep ==
    ASSUME IInv, WalkInv, ~moved, ReadEntry \/ ReadException \/ ReadFails
    PROVE  WalkInv'
<1>1. /\ TypeOK /\ StageFrame /\ pc \in {"domain", "ip"} /\ Scanning /\ out[Scanner] = Pending
      /\ OnCourse(scan) /\ scan.names = NamesToCheck
      /\ pc = "ip" => UncloakingEnabled /\ res # NoAnswer
  BY DEF IInv, ReadEntry, ReadException, ReadFails, ScanStep, StageStep, StageFrame, WalkInv,
         Scanning
<1>2. /\ scan \in [names : Seq(Names), t : Nat, l : Nat, k : Nat, mode : {"entry", "except"}]
      /\ scan.t \in 1 .. Len(scan.names) /\ DOMAIN scan.names = 1 .. Len(scan.names)
      /\ scan.l \in 1 .. Len(prof.blocklists) /\ Name \in Names
  BY <1>1, Standing DEF Name
<1>3. ASSUME NEW r \in Results \cup {Failed}, Finish(Scanner, r),
             r = Failed \/ (r.dec = "block" <=> AnyBlocks(NamesToCheck))
      PROVE  WalkInv'
  BY <1>1, <1>3, WalkReadsOn
<1>4. ASSUME NEW sc, OnCourse(sc), sc.names = scan.names, out' = out, scan' = sc
      PROVE  WalkInv'
  BY <1>1, <1>4, WalkReadsOn
<1>5. ASSUME ListAt(scan.l, Name), Finish(Scanner, Result("block", TierBlocklists))
      PROVE  WalkInv'
  <2>1. ListsBlock(Name)
    BY <1>1, <1>2, <1>5, WalkReads
  <2>2. AnyBlocks(NamesToCheck)
    BY <1>1, <1>2, <2>1 DEF AnyBlocks, Name
  <2> DEFINE r == Result("block", TierBlocklists)
  <2>3. r \in Results /\ r.dec = "block" /\ Finish(Scanner, r)
    BY <1>5, ListResults
  <2> HIDE DEF r
  <2> QED
    BY <1>3, <1>5, <2>2, <2>3
<1>6. ASSUME ~ListAt(scan.l, Name), Advance PROVE WalkInv'
  <2>1. CASE scan.l < Len(prof.blocklists)
    <3>1. out' = out /\ scan' = Place(scan.t, scan.l + 1)
      BY <1>6, <2>1 DEF Advance, Goto, Place
    <3>2. OnCourse(Place(scan.t, scan.l + 1))
      BY <1>1, <1>6, <2>1, Advances
    <3>3. Place(scan.t, scan.l + 1).names = scan.names
      BY <1>2 DEF Place
    <3> QED
      BY <1>4, <3>1, <3>2, <3>3
  <2>2. CASE ~(scan.l < Len(prof.blocklists)) /\ scan.t < Len(scan.names)
    <3>1. out' = out /\ scan' = Place(scan.t + 1, 1)
      BY <1>6, <2>2 DEF Advance, Goto, Place
    <3>2. OnCourse(Place(scan.t + 1, 1))
      BY <1>1, <1>6, <2>2, Advances
    <3>3. Place(scan.t + 1, 1).names = scan.names
      BY <1>2 DEF Place
    <3> QED
      BY <1>4, <3>1, <3>2, <3>3
  <2>3. CASE ~(scan.l < Len(prof.blocklists)) /\ ~(scan.t < Len(scan.names))
    <3> DEFINE r == Result("none", TierBlocklists)
    <3>1. r \in Results /\ r.dec = "none" /\ Finish(Scanner, r)
      BY <1>6, <2>3, ListResults DEF Advance
    <3>2. ~AnyBlocks(NamesToCheck)
      BY <1>1, <1>6, <2>3, Advances
    <3> HIDE DEF r
    <3> QED
      BY <1>3, <3>1, <3>2
  <2> QED
    BY <2>1, <2>2, <2>3
<1>7. CASE ReadEntry
  <2> DEFINE L == Listed[List][liveVer[List]]
  <2>1. scan.mode = "entry"
    BY <1>7 DEF ReadEntry, ScanStep
  <2>2. CASE Candidate \in L /\ Len(Name) = 1
    <3>1. Finish(Scanner, Result("block", TierBlocklists)) /\ ListAt(scan.l, Name)
      BY <1>1, <1>7, <2>1, <2>2, EntryReads DEF ReadEntry
    <3> QED
      BY <1>5, <3>1
  <2>3. CASE Candidate \in L /\ Len(Name) # 1
    <3> DEFINE sc == [scan EXCEPT !.k = 1, !.mode = "except"]
    <3>1. out' = out /\ scan' = sc /\ sc.names = scan.names
      BY <1>2, <1>7, <2>3 DEF ReadEntry
    <3>2. OnCourse(sc)
      BY <1>1, <2>1, <2>3, EntryReads
    <3> HIDE DEF sc
    <3> QED
      BY <1>4, <3>1, <3>2
  <2>4. CASE Candidate \notin L /\ NextCandidate(Name, scan.k) # 0
    <3> DEFINE sc == [scan EXCEPT !.k = NextCandidate(Name, scan.k)]
    <3>1. out' = out /\ scan' = sc /\ sc.names = scan.names
      BY <1>2, <1>7, <2>4 DEF ReadEntry
    <3>2. OnCourse(sc)
      BY <1>1, <2>1, <2>4, EntryReads
    <3> HIDE DEF sc
    <3> QED
      BY <1>4, <3>1, <3>2
  <2>5. CASE Candidate \notin L /\ ~(NextCandidate(Name, scan.k) # 0)
    <3>1. Advance /\ ~ListAt(scan.l, Name)
      BY <1>1, <1>7, <2>1, <2>5, EntryReads DEF ReadEntry
    <3> QED
      BY <1>6, <3>1
  <2> QED
    BY <2>2, <2>3, <2>4, <2>5
<1>8. CASE ReadException
  <2> DEFINE X == Excepted[List][excVer[List]]
  <2>1. scan.mode = "except"
    BY <1>8 DEF ReadException, ScanStep
  <2>2. CASE Candidate \in X
    <3>1. Advance /\ ~ListAt(scan.l, Name)
      BY <1>1, <1>8, <2>1, <2>2, ExceptionReads DEF ReadException
    <3> QED
      BY <1>6, <3>1
  <2>3. CASE Candidate \notin X /\ scan.k < Len(Name) - 1
    <3> DEFINE sc == [scan EXCEPT !.k = scan.k + 1]
    <3>1. out' = out /\ scan' = sc /\ sc.names = scan.names
      BY <1>2, <1>8, <2>3 DEF ReadException
    <3>2. OnCourse(sc)
      BY <1>1, <2>1, <2>3, ExceptionReads
    <3> HIDE DEF sc
    <3> QED
      BY <1>4, <3>1, <3>2
  <2>4. CASE Candidate \notin X /\ ~(scan.k < Len(Name) - 1)
    <3>1. /\ Finish(Scanner, Result("block", TierBlocklists))
          /\ ListAt(scan.l, Name)
      BY <1>1, <1>8, <2>1, <2>4, ExceptionReads DEF ReadException
    <3> QED
      BY <1>5, <3>1
  <2> QED
    BY <2>2, <2>3, <2>4
<1>9. CASE ReadFails
  BY <1>1, <1>3, <1>9 DEF ReadFails
<1> QED
  BY <1>7, <1>8, <1>9

\* Every step keeps WalkInv: a publication ends what it claims, a new query
\* starts it afresh.
LEMMA WalkStep == IInv /\ WalkInv /\ [Next]_vars => WalkInv'
<1> SUFFICES ASSUME IInv, WalkInv, [Next]_vars, ~moved' PROVE WalkInv'
  BY DEF WalkInv
<1>0. /\ out \in [Stages -> Results \cup {Pending, Failed}]
      /\ "blocklists" \in Stages /\ "cname" \in Stages
  BY DEF IInv, TypeOK, Stages, DomainStages, IPStages
<1>1. \A s, p : StageStep(s, p) => StageFrame /\ ~moved
  BY DEF StageStep, StageFrame, lists
<1>2. ASSUME NEW s \in Stages \ {"blocklists", "cname"}, NEW r, Finish(s, r), StageFrame,
             ~moved, scan' = scan
      PROVE  WalkInv'
  <2>1. out'["blocklists"] = out["blocklists"] /\ out'["cname"] = out["cname"]
    BY <1>0, <1>2 DEF Finish
  <2> QED
    BY <1>2, <2>1, WalkFrame
<1>3. CASE CustomRules \/ ServiceDomainsStage \/ DefaultRule \/ Services \/ Rebinding
           \/ IPCustomRules
  <2>1. \E s \in {"custom_rules", "service_domains", "default_rule", "services", "rebinding",
                  "ip_custom_rules"} :
            \E r : Finish(s, r) /\ StageFrame /\ ~moved /\ scan' = scan
    BY <1>1, <1>3 DEF CustomRules, ServiceDomainsStage, DefaultRule, Services, Rebinding,
                      IPCustomRules
  <2>2. {"custom_rules", "service_domains", "default_rule", "services", "rebinding",
         "ip_custom_rules"} \subseteq Stages \ {"blocklists", "cname"}
    BY DEF Stages, DomainStages, IPStages
  <2> QED
    BY <1>2, <2>1, <2>2
<1>4. CASE Blocklists \/ CNAME
  <2>1. ~moved
    BY <1>1, <1>4 DEF Blocklists, CNAME
  <2> QED
    BY <1>4, <2>1, WalkBegins
<1>5. CASE ReadEntry \/ ReadException \/ ReadFails
  <2>1. ~moved
    BY <1>1, <1>5 DEF ReadEntry, ReadException, ReadFails, ScanStep
  <2> QED
    BY <1>5, <2>1, WalkReadsKeep
<1>6. CASE ServeDNS
  BY <1>0, <1>6, OutcomesDiffer DEF ServeDNS, WalkInv, Scanning, NoScan
<1>7. CASE Join
  <2>1. /\ q' = q /\ prof' = prof /\ out' = out /\ res' = res
        /\ liveVer' = liveVer /\ excVer' = excVer /\ moved' = moved
        /\ scan'.names = <<>>
        /\ (pc = "domain" /\ pc' \in {"resolve", "respond"}) \/ (pc = "ip" /\ pc' = "respond")
    BY <1>7 DEF Join, lists, NextStep, NoScan
  <2> QED
    BY <2>1, SayTheSame DEF WalkInv, Scanning
<1>8. CASE Resolve
  <2>1. /\ q' = q /\ prof' = prof /\ out' = out /\ pc = "resolve" /\ pc' = "ip" /\ scan' = scan
        /\ liveVer' = liveVer /\ excVer' = excVer /\ moved' = moved
    BY <1>8 DEF Resolve, lists
  <2>2. scan'.names = <<>> /\ out'["cname"] = Pending /\ ~Scanning'
    BY <2>1 DEF WalkInv, Scanning
  <2>3. AnyBlocks(<<q.name>>)' <=> AnyBlocks(<<q.name>>)
    BY <2>1 DEF AnyBlocks, ListsBlock, ListBlocks, HasSuffix, From
  <2> QED
    BY <2>1, <2>2, <2>3, OutcomesDiffer DEF WalkInv
<1>9. CASE Respond
  <2>1. /\ q' = q /\ prof' = prof /\ out' = out /\ res' = res /\ pc = "respond" /\ pc' = "done"
        /\ scan' = scan
        /\ liveVer' = liveVer /\ excVer' = excVer /\ moved' = moved
    BY <1>9 DEF Respond, lists
  <2> QED
    BY <2>1, SayTheSame DEF WalkInv, Scanning
<1>10. CASE Publish
  BY <1>10 DEF Publish, WalkInv
<1>11. CASE UNCHANGED vars
  <2>1. StageFrame /\ ~moved /\ scan' = scan /\ out' = out
    BY <1>11 DEF vars, StageFrame, lists
  <2> QED
    BY <2>1, WalkFrame
<1> QED
  BY <1>3, <1>4, <1>5, <1>6, <1>7, <1>8, <1>9, <1>10, <1>11 DEF Next, DomainStep, IPStep

\* The walks over entries and exceptions, name by name, list by list and label
\* by label, decide what the lists say as long as none is published meanwhile
\* (blocklists.go:34-122, cname.go:57-117).
THEOREM ListsDecide == Spec => []WalksAgree
<1>1. Init => WalkInv
  BY OutcomesDiffer DEF Init, WalkInv, Scanning, NoScan, Stages, DomainStages, IPStages
<1>2. IInv /\ WalkInv => WalksAgree
  <2> SUFFICES ASSUME IInv, WalkInv, ~moved PROVE WalksAgree
    BY DEF WalksAgree
  <2>1. AnyBlocks(<<q.name>>) <=> ListsBlock(q.name)
    <3>1. DOMAIN <<q.name>> = {1} /\ <<q.name>>[1] = q.name
      OBVIOUS
    <3> QED
      BY <3>1 DEF AnyBlocks
  <2>2. ASSUME res # NoAnswer
        PROVE  AnyBlocks(CNAMETargets(res)) <=>
                 \E i \in DOMAIN res.cnames : res.cnames[i] # q.name /\ ListsBlock(res.cnames[i])
    <3>1. res \in Answers
      BY <2>2 DEF IInv, TypeOK
    <3> DEFINE ts == CNAMETargets(res)
    <3>2. {ts[i] : i \in DOMAIN ts} = {res.cnames[i] : i \in DOMAIN res.cnames} \ {q.name}
      BY <3>1, TargetsAre
    <3> HIDE DEF ts
    <3>3. (\E i \in DOMAIN ts : ListsBlock(ts[i])) <=> \E n \in {ts[i] : i \in DOMAIN ts} : ListsBlock(n)
      OBVIOUS
    <3>4. (\E i \in DOMAIN ts : ListsBlock(ts[i])) <=>
             \E n \in {res.cnames[i] : i \in DOMAIN res.cnames} \ {q.name} : ListsBlock(n)
      BY <3>2, <3>3
    <3>5. (\E i \in DOMAIN ts : ListsBlock(ts[i])) <=>
             \E i \in DOMAIN res.cnames : res.cnames[i] # q.name /\ ListsBlock(res.cnames[i])
      BY <3>4
    <3> QED
      BY <3>5 DEF ts, AnyBlocks
  <2> QED
    BY <2>1, <2>2 DEF WalkInv, WalksAgree
<1> QED
  BY Invariance, <1>1, <1>2, WalkStep, PTL DEF Spec
====
