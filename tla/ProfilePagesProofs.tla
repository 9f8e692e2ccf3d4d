-------------------------- MODULE ProfilePagesProofs -------------------------
(***************************************************************************)
(* For any profiles, pages, clicks, handlers in flight and failures: once  *)
(* nothing is in flight, the copies of the profiles the store keeps are    *)
(* the server's, except where an answer overtook a newer one or a change   *)
(* was never read back; a depth of the range that is applied alone leaves  *)
(* its tiers and no other; and what was typed into the composer stays      *)
(* until it was added.                                                     *)
(***************************************************************************)
EXTENDS ProfilePages, FiniteSetTheorems, SequenceTheorems, WellFoundedInduction, TLAPS

\* What the theorems take for granted of JavaScript's null: it has no id.
NullHasNoId == "id" \notin DOMAIN Null

Sequence(s) == Len(s) \in Nat /\ s = [i \in 1 .. Len(s) |-> s[i]]

\* The copies of profiles in the store.
Copies(st) == {st.profiles[i] : i \in DOMAIN st.profiles} \cup ({st.activeProfile} \ {Null})

CallFields == {"kind", "id", "ops", "sent", "revert", "failed", "mine", "extra", "alone"}
CallOK(c) ==
    /\ DOMAIN c = CallFields
    /\ c.sent => c.kind \notin {"deleteTimer", "readPrefs"} \cup Lists \cup Saves
    /\ c.kind \in {"readPrefs"} \cup Lists => c.ops = << >>
    /\ c.kind = "compose" /\ c.sent => c.ops = << >>

AnswerOK(a) ==
    /\ DOMAIN a = {"call", "list", "late"} /\ DOMAIN a.call = CallFields
    /\ Sequence(a.list)
    /\ a.call.kind \notin Lists => Len(a.list) = 1
    /\ \A j \in 1 .. Len(a.list) : "id" \in DOMAIN a.list[j]

ServerOK ==
    /\ IsFiniteSet(DOMAIN db)
    /\ \A i \in DOMAIN db : "id" \in DOMAIN db[i] /\ db[i].id = i

Shape ==
    /\ {"profiles", "activeProfile"} \subseteq DOMAIN store
    /\ ServerOK
    /\ \A c \in calls : CallOK(c)
    /\ Sequence(answers) /\ \A k \in 1 .. Len(answers) : AnswerOK(answers[k])

\* Profiles some handler changed and will read back.
Changed == {c.id : c \in {d \in calls : d.sent}}

\* Whatever is known of a profile that is gone is marked.
Gone ==
    /\ \A p \in Copies(store) : p.id \in DOMAIN db \cup behind
    /\ Changed \subseteq DOMAIN db \cup behind
    /\ \A k \in 1 .. Len(answers) :
          IdsOf(answers[k].list) \subseteq (DOMAIN db \cup behind) \cap (DOMAIN db \cup answers[k].late)

\* Answer k will put profile i into the store, the last to do so.
Carries(k, i) == answers[k].call.kind # "readPrefs" /\ i \in IdsOf(answers[k].list)
Latest(k, i) == Carries(k, i) /\ \A m \in 1 .. Len(answers) : m > k => ~Carries(m, i)

\* Where the profile's latest state is, when no handler is about to read it: in the
\* last answer that carries it or, when there is none, in the store.
UpToDate(i) ==
    /\ \A k \in 1 .. Len(answers) : Latest(k, i) =>
          i \in answers[k].late
          \/ \A j \in 1 .. Len(answers[k].list) :
                answers[k].list[j].id = i => answers[k].list[j] = db[i]
    /\ (\A k \in 1 .. Len(answers) : ~Carries(k, i)) =>
          i \in behind \/ \A p \in Copies(store) : p.id = i => p = db[i]

Tracked == \A i \in DOMAIN db \ Changed : UpToDate(i)

ConvergeInv == Shape /\ Gone /\ Tracked
-----------------------------------------------------------------------------
(* Sequences and sets *)

\* Every nonempty set of naturals has its minimum.
LEMMA MinIn == ASSUME NEW S \in SUBSET Nat, S # {} PROVE Min(S) \in S
<1>1. PICK x \in S : \A y \in S : ~(<<y, x>> \in OpToRel(<, Nat))
  BY WFMin, NatLessThanWellFounded
<1>2. \A y \in S : x =< y
  <2> SUFFICES ASSUME NEW y \in S PROVE x =< y
    OBVIOUS
  <2>1. ~(y < x)
    BY <1>1 DEF OpToRel
  <2> QED
    BY <2>1
<1> QED
  BY <1>2 DEF Min

\* A function on 1 .. n is a sequence of length n.
LEMMA FunctionIsSequence ==
  ASSUME NEW n \in Nat, NEW t, t = [i \in 1 .. n |-> t[i]]
  PROVE  Sequence(t) /\ Len(t) = n /\ t \in Seq({t[i] : i \in 1 .. n})
<1>1. t \in [1 .. n -> {t[i] : i \in 1 .. n}]
  <2>1. DOMAIN t = 1 .. n
    OBVIOUS
  <2>2. \A i \in 1 .. n : t[i] \in {t[j] : j \in 1 .. n}
    OBVIOUS
  <2> QED
    BY <2>2
<1>2. t \in Seq({t[i] : i \in 1 .. n}) /\ Len(t) = n
  BY <1>1
<1> QED
  BY <1>2 DEF Sequence

\* What a sequence is.
LEMMA SequenceIs ==
  ASSUME NEW s, Sequence(s)
  PROVE  /\ s \in Seq({s[i] : i \in 1 .. Len(s)}) /\ DOMAIN s = 1 .. Len(s) /\ Len(s) \in Nat
         /\ s # << >> => 1 \in DOMAIN s
<1>1. Len(s) \in Nat /\ s = [i \in 1 .. Len(s) |-> s[i]]
  BY DEF Sequence
<1>2. s \in Seq({s[i] : i \in 1 .. Len(s)})
  BY <1>1, FunctionIsSequence
<1>3. DOMAIN s = 1 .. Len(s)
  BY <1>1
<1>4. s # << >> => Len(s) # 0
  BY <1>2
<1> QED
  BY <1>1, <1>2, <1>3, <1>4

\* Every member of Seq(S) is one.
LEMMA IsSequence == ASSUME NEW S, NEW s \in Seq(S) PROVE Sequence(s)
<1>1. Len(s) \in Nat /\ s \in [1 .. Len(s) -> S]
  OBVIOUS
<1> QED
  BY <1>1 DEF Sequence

\* Append and RemoveAt, element by element.
LEMMA AppendShape ==
  ASSUME NEW s, Sequence(s), NEW x
  PROVE  /\ Sequence(Append(s, x)) /\ Len(Append(s, x)) = Len(s) + 1
         /\ Append(s, x)[Len(s) + 1] = x
         /\ \A i \in 1 .. Len(s) : Append(s, x)[i] = s[i]
<1> DEFINE A == {s[i] : i \in 1 .. Len(s)} \cup {x}
<1>1. s \in Seq(A)
  <2>1. s \in Seq({s[i] : i \in 1 .. Len(s)})
    BY SequenceIs
  <2>2. {s[i] : i \in 1 .. Len(s)} \subseteq A
    OBVIOUS
  <2> HIDE DEF A
  <2> QED
    BY <2>1, <2>2, SeqMonotonic
<1>2. x \in A
  OBVIOUS
<1> HIDE DEF A
<1>3. /\ Append(s, x) \in Seq(A) /\ Len(Append(s, x)) = Len(s) + 1
      /\ Append(s, x)[Len(s) + 1] = x
      /\ \A i \in 1 .. Len(s) : Append(s, x)[i] = s[i]
  BY <1>1, <1>2
<1>4. Sequence(Append(s, x))
  BY <1>3, IsSequence
<1> QED
  BY <1>3, <1>4

\* RemoveAt keeps the elements before and moves those after.
LEMMA RemoveShape ==
  ASSUME NEW s, Sequence(s), NEW k \in 1 .. Len(s)
  PROVE  /\ Sequence(RemoveAt(s, k)) /\ Len(RemoveAt(s, k)) = Len(s) - 1
         /\ \A i \in 1 .. Len(s) - 1 : RemoveAt(s, k)[i] = IF i < k THEN s[i] ELSE s[i + 1]
<1> DEFINE A == {s[i] : i \in 1 .. Len(s)}
           a == SubSeq(s, 1, k - 1)
           b == SubSeq(s, k + 1, Len(s))
<1>1. s \in Seq(A) /\ Len(s) \in Nat
  BY SequenceIs
<1> HIDE DEF A
<1>2. a \in Seq(A) /\ Len(a) = k - 1 /\ \A i \in 1 .. k - 1 : a[i] = s[i]
  BY <1>1
<1>3. b \in Seq(A) /\ Len(b) = Len(s) - k /\ \A i \in 1 .. Len(s) - k : b[i] = s[k + i]
  BY <1>1
<1> HIDE DEF a, b
<1>4. /\ a \o b \in Seq(A) /\ Len(a \o b) = Len(s) - 1
      /\ \A i \in 1 .. Len(s) - 1 : (a \o b)[i] = IF i < k THEN a[i] ELSE b[i - (k - 1)]
  BY <1>1, <1>2, <1>3
<1>5. \A i \in 1 .. Len(s) - 1 : (a \o b)[i] = IF i < k THEN s[i] ELSE s[i + 1]
  BY <1>1, <1>2, <1>3, <1>4
<1>6. RemoveAt(s, k) = a \o b
  BY DEF RemoveAt, a, b
<1>7. Sequence(a \o b)
  BY <1>4, IsSequence
<1> QED
  BY <1>4, <1>5, <1>6, <1>7

\* A finite set as a sequence.
LEMMA SetToSeqShape ==
  ASSUME NEW S, IsFiniteSet(S)
  PROVE  /\ Sequence(SetToSeq(S)) /\ \A i \in 1 .. Len(SetToSeq(S)) : SetToSeq(S)[i] \in S
         /\ Len(SetToSeq(S)) = Cardinality(S)
<1>1. Cardinality(S) \in Nat /\ ExistsBijection(1 .. Cardinality(S), S)
  BY FS_CardinalityType
<1>2. \E f \in [1 .. Cardinality(S) -> S] : IsInjective(f)
  BY <1>1 DEF ExistsBijection, Bijection, Injection
<1>3. SetToSeq(S) \in [1 .. Cardinality(S) -> S]
  BY <1>2 DEF SetToSeq
<1>4. Sequence(SetToSeq(S)) /\ Len(SetToSeq(S)) = Cardinality(S)
  BY <1>1, <1>3, FunctionIsSequence
<1> QED
  BY <1>3, <1>4
-----------------------------------------------------------------------------
(* The server's changes and the store's operations *)

\* No change renames a profile.
LEMMA ServeKeepsId ==
  ASSUME NEW op, NEW p, "id" \in DOMAIN p
  PROVE  "id" \in DOMAIN Serve(op, p) /\ Serve(op, p).id = p.id
<1> DEFINE Keeps(q) == "id" \in DOMAIN q /\ q.id = p.id
<1>1. \A g : Keeps([p EXCEPT !.groups = g])
  OBVIOUS
<1>2. \A r : Keeps([p EXCEPT !.rules = r])
  OBVIOUS
<1>3. \A g, r : Keeps([[p EXCEPT !.groups = g] EXCEPT !.rules = r])
  OBVIOUS
<1>4. Keeps(ServeRules(op, p))
  <2>1. CASE op.do = "addRules"
    BY <1>2, <2>1 DEF ServeRules
  <2>2. CASE op.do = "deleteRules"
    BY <1>2, <2>2 DEF ServeRules
  <2>3. CASE op.do = "editRule"
    BY <1>2, <2>3 DEF ServeRules, MapRules
  <2>4. CASE op.do = "order"
    BY <1>2, <2>4 DEF ServeRules, Reordered
  <2>5. CASE op.do = "renameGroup"
    BY <1>3, <2>5 DEF ServeRules, MapRules
  <2>6. CASE op.do = "deleteGroup"
    BY <1>3, <2>6 DEF ServeRules, MapRules
  <2>7. CASE op.do = "addGroup"
    BY <1>1, <2>7 DEF ServeRules
  <2>8. CASE op.do \notin {"addRules", "deleteRules", "editRule", "order", "renameGroup",
                           "deleteGroup", "addGroup"}
    BY <1>1, <2>8 DEF ServeRules
  <2> QED
    BY <2>1, <2>2, <2>3, <2>4, <2>5, <2>6, <2>7, <2>8
<1>5. /\ \A x : Keeps([p EXCEPT !.lists = x])
      /\ \A x : Keeps([p EXCEPT !.settings = x])
  OBVIOUS
<1> QED
  BY <1>4, <1>5 DEF Serve

\* The copies after a profile was made the active one: itself, and those of others.
LEMMA ActivateCopies ==
  ASSUME NEW st, {"profiles", "activeProfile"} \subseteq DOMAIN st, NEW x
  PROVE  LET t == SetActiveProfile(st, x)
         IN /\ {"profiles", "activeProfile"} \subseteq DOMAIN t
            /\ \A p \in Copies(t) : \/ p = x /\ x # Null
                                    \/ p \in Copies(st) /\ (x # Null => p.id # x.id)
<1> DEFINE t == SetActiveProfile(st, x)
<1>1. {"profiles", "activeProfile"} \subseteq DOMAIN t /\ t.activeProfile = x
  BY DEF SetActiveProfile
<1>2. CASE x = Null
  <2>1. t.profiles = st.profiles
    BY <1>2 DEF SetActiveProfile
  <2> QED
    BY <1>1, <1>2, <2>1 DEF Copies
<1>3. CASE x # Null
  <2>1. /\ DOMAIN t.profiles = DOMAIN st.profiles
        /\ \A i \in DOMAIN st.profiles :
              t.profiles[i] = IF st.profiles[i].id = x.id THEN x ELSE st.profiles[i]
    BY <1>3 DEF SetActiveProfile
  <2> QED
    BY <1>1, <1>3, <2>1 DEF Copies
<1> QED
  BY <1>2, <1>3

\* The copies after an answer: those of the answer, the one a deletion selects, and
\* those of the profiles the answer does not have.
LEMMA AnswerCopies ==
  ASSUME NullHasNoId, NEW st, {"profiles", "activeProfile"} \subseteq DOMAIN st,
         NEW a, AnswerOK(a)
  PROVE  LET t == AfterAnswer(st, a)
         IN /\ {"profiles", "activeProfile"} \subseteq DOMAIN t
            /\ \A p \in Copies(t) :
                  \/ \E j \in 1 .. Len(a.list) : p = a.list[j]
                  \/ a.call.kind = "afterDelete" /\ p = a.call.extra /\ p # Null
                  \/ p \in Copies(st) /\ p.id \notin IdsOf(a.list)
<1> DEFINE t == AfterAnswer(st, a)
           listed == [st EXCEPT !.profiles = a.list]
           Listed1(p) == \E j \in 1 .. Len(a.list) : p = a.list[j]
<1>1. DOMAIN a.list = 1 .. Len(a.list) /\ Len(a.list) \in Nat /\ (a.list # << >> => 1 \in DOMAIN a.list)
  BY SequenceIs DEF AnswerOK
<1>2. \A j \in 1 .. Len(a.list) : a.list[j] # Null
  BY DEF AnswerOK, NullHasNoId
<1>3. /\ {"profiles", "activeProfile"} \subseteq DOMAIN listed
      /\ listed.profiles = a.list /\ listed.activeProfile = st.activeProfile
  OBVIOUS
<1>4. \A p : p \in IdsOf(a.list) <=> \E j \in 1 .. Len(a.list) : p = a.list[j].id
  BY <1>1 DEF IdsOf
<1>5. \A S \in SUBSET DOMAIN a.list : S # {} => Min(S) \in S
  <2> SUFFICES ASSUME NEW S \in SUBSET DOMAIN a.list, S # {} PROVE Min(S) \in S
    OBVIOUS
  <2>1. S \in SUBSET Nat
    BY <1>1
  <2> QED
    BY <2>1, MinIn
<1>6. CASE a.call.kind = "revalidate"
  <2> DEFINE same == {i \in DOMAIN a.list :
                         listed.activeProfile # Null /\ a.list[i].id = listed.activeProfile.id}
  <2>1. t = [listed EXCEPT !.activeProfile = IF same # {} THEN a.list[Min(same)]
                                             ELSE IF a.list # <<>> THEN a.list[1] ELSE @]
    BY <1>6 DEF AfterAnswer, LoadProfiles, RestoreActiveProfile
  <2>2. /\ {"profiles", "activeProfile"} \subseteq DOMAIN t /\ t.profiles = a.list
        /\ t.activeProfile = IF same # {} THEN a.list[Min(same)]
                             ELSE IF a.list # <<>> THEN a.list[1] ELSE st.activeProfile
    BY <1>3, <2>1
  <2>3. same # {} => Min(same) \in DOMAIN a.list
    BY <1>5
  <2>4. a.list = << >> => IdsOf(a.list) = {}
    BY DEF IdsOf
  <2> HIDE DEF same, t
  <2>5. t.activeProfile # Null =>
           \/ Listed1(t.activeProfile)
           \/ t.activeProfile \in Copies(st) /\ t.activeProfile.id \notin IdsOf(a.list)
    <3>1. CASE same # {}
      BY <1>1, <2>2, <2>3, <3>1
    <3>2. CASE same = {} /\ a.list # << >>
      BY <1>1, <2>2, <3>2
    <3>3. CASE same = {} /\ a.list = << >>
      BY <2>2, <2>4, <3>3 DEF Copies
    <3> QED
      BY <3>1, <3>2, <3>3
  <2> QED
    BY <1>1, <2>2, <2>5 DEF t, Copies
<1>7. CASE a.call.kind \in {"selectListed", "afterDelete"}
  <2>1. PICK x : /\ t = SetActiveProfile(listed, x)
                 /\ Listed1(x) \/ x = Null \/ (a.call.kind = "afterDelete" /\ x = a.call.extra)
    <3> DEFINE found == {j \in DOMAIN a.list : a.list[j].id = a.call.id}
    <3>1. found # {} => Min(found) \in DOMAIN a.list
      BY <1>5
    <3>0. a.call.kind = "selectListed" =>
             t = SetActiveProfile(listed, IF found # {} THEN a.list[Min(found)]
                                          ELSE IF a.list # <<>> THEN a.list[1] ELSE Null)
      BY DEF AfterAnswer
    <3>4. a.call.kind = "afterDelete" => t = SetActiveProfile(listed, a.call.extra)
      BY DEF AfterAnswer
    <3> HIDE DEF t, found, listed
    <3>2. CASE a.call.kind = "selectListed"
      <4>1. CASE found # {}
        BY <1>1, <3>0, <3>1, <3>2, <4>1
      <4>2. CASE found = {} /\ a.list # <<>>
        BY <1>1, <3>0, <3>2, <4>2
      <4>3. CASE found = {} /\ a.list = <<>>
        BY <3>0, <3>2, <4>3
      <4> QED
        BY <4>1, <4>2, <4>3
    <3>3. CASE a.call.kind = "afterDelete"
      BY <3>3, <3>4
    <3> QED
      BY <1>7, <3>2, <3>3
  <2>2. {"profiles", "activeProfile"} \subseteq DOMAIN t /\ t.activeProfile = x
    BY <1>3, <2>1 DEF SetActiveProfile
  <2>4. DOMAIN t.profiles = DOMAIN a.list
        /\ \A i \in DOMAIN a.list : t.profiles[i] \in {x, a.list[i]} /\ (x = Null => t.profiles[i] = a.list[i])
    BY <1>3, <2>1 DEF SetActiveProfile
  <2> HIDE DEF t, listed
  <2>5. \A p \in Copies(t) : (p = x /\ x # Null) \/ Listed1(p)
    BY <1>1, <1>2, <2>1, <2>2, <2>4 DEF Copies
  <2> QED
    BY <2>1, <2>2, <2>5 DEF t
<1>8. CASE a.call.kind \notin {"revalidate", "selectListed", "afterDelete"}
  <2>1. t = SetActiveProfile(st, a.list[1])
    BY <1>8 DEF AfterAnswer
  <2>2. Len(a.list) = 1
    BY <1>8 DEF AnswerOK, Lists
  <2>3. a.list[1] # Null /\ \A i : i \in IdsOf(a.list) <=> i = a.list[1].id
    BY <1>2, <1>4, <2>2
  <2> DEFINE u == SetActiveProfile(st, a.list[1])
  <2>4. /\ {"profiles", "activeProfile"} \subseteq DOMAIN u
        /\ \A p \in Copies(u) : \/ p = a.list[1] /\ a.list[1] # Null
                                \/ p \in Copies(st) /\ (a.list[1] # Null => p.id # a.list[1].id)
    BY ONLY ActivateCopies, {"profiles", "activeProfile"} \subseteq DOMAIN st
  <2> HIDE DEF u
  <2>5. t = u
    BY <2>1 DEF u
  <2> HIDE DEF t
  <2> QED
    BY <2>2, <2>3, <2>4, <2>5 DEF t
<1> QED
  BY <1>6, <1>7, <1>8
-----------------------------------------------------------------------------
(* Steps that concern the page alone *)

\* The answers under way are the same but for who they are for.
SameAnswers ==
    /\ Sequence(answers') /\ Len(answers') = Len(answers)
    /\ \A k \in 1 .. Len(answers) :
          /\ AnswerOK(answers'[k])
          /\ answers'[k].list = answers[k].list /\ answers'[k].late = answers[k].late
          /\ answers'[k].call.kind = answers[k].call.kind

\* A step that tells neither the store nor the server anything.
Idle ==
    /\ UNCHANGED <<store, db, behind>>
    /\ Changed' = Changed /\ \A c \in calls' : CallOK(c)
    /\ SameAnswers

\* Such a step keeps the invariant.
LEMMA IdleKeeps == ASSUME ConvergeInv, Idle PROVE ConvergeInv'
<1>1. Shape'
  BY DEF ConvergeInv, Idle, SameAnswers, Shape, ServerOK
<1>2. \A k \in 1 .. Len(answers) : \A i : Carries(k, i)' <=> Carries(k, i)
  BY DEF Idle, SameAnswers, Carries
<1>3. \A k \in 1 .. Len(answers) : \A i : Latest(k, i)' <=> Latest(k, i)
  BY <1>2 DEF Latest, Idle, SameAnswers
<1>4. Gone'
  BY DEF ConvergeInv, Idle, SameAnswers, Gone
<1>5. ASSUME NEW i \in DOMAIN db \ Changed PROVE UpToDate(i)'
  <2>1. UpToDate(i)
    BY <1>5 DEF ConvergeInv, Tracked
  <2> QED
    BY <1>2, <1>3, <2>1 DEF Idle, SameAnswers, UpToDate
<1>6. Tracked'
  BY <1>5 DEF Tracked, Idle
<1> QED
  BY <1>1, <1>4, <1>6 DEF ConvergeInv

\* Marks on handlers.
LEMMA MarkedCall ==
  ASSUME NEW c, CallOK(c), NEW b
  PROVE  /\ LET d == [c EXCEPT !.alone = b] IN CallOK(d) /\ d.sent = c.sent /\ d.id = c.id
         /\ LET d == [c EXCEPT !.mine = b] IN CallOK(d) /\ d.sent = c.sent /\ d.id = c.id
BY DEF CallOK, CallFields

\* Marks on the handlers of answers.
LEMMA MarkedAnswers ==
  ASSUME Shape, NEW f,
         answers' = [k \in DOMAIN answers |-> [answers[k] EXCEPT !.call = f[k]]],
         \A k \in DOMAIN answers : DOMAIN f[k] = CallFields /\ f[k].kind = answers[k].call.kind
  PROVE  SameAnswers
<1>1. Len(answers) \in Nat /\ DOMAIN answers = 1 .. Len(answers)
  BY SequenceIs DEF Shape
<1>2. answers' = [k \in 1 .. Len(answers) |-> answers'[k]]
  BY <1>1
<1>3. Sequence(answers') /\ Len(answers') = Len(answers)
  BY <1>1, <1>2, FunctionIsSequence
<1>4. ASSUME NEW k \in 1 .. Len(answers)
      PROVE  /\ AnswerOK(answers'[k])
             /\ answers'[k].list = answers[k].list /\ answers'[k].late = answers[k].late
             /\ answers'[k].call.kind = answers[k].call.kind
  <2>1. AnswerOK(answers[k]) /\ answers'[k] = [answers[k] EXCEPT !.call = f[k]]
    BY <1>1 DEF Shape
  <2>2. /\ DOMAIN answers'[k] = {"call", "list", "late"} /\ answers'[k].call = f[k]
        /\ answers'[k].list = answers[k].list /\ answers'[k].late = answers[k].late
    BY <2>1 DEF AnswerOK
  <2> QED
    BY <1>1, <2>1, <2>2 DEF AnswerOK
<1> QED
  BY <1>3, <1>4 DEF SameAnswers

\* Answers that did not change are the same.
LEMMA UnchangedAnswers == ASSUME Shape, UNCHANGED answers PROVE SameAnswers
BY DEF Shape, SameAnswers

\* The handlers are the same but for marks, and some that have changed nothing yet.
LEMMA MarkedCalls ==
  ASSUME Shape,
         \A c \in calls : \E d \in calls' : d.sent = c.sent /\ d.id = c.id,
         \A d \in calls' : /\ CallOK(d)
                           /\ d.sent => \E c \in calls : d.sent = c.sent /\ d.id = c.id
  PROVE  Changed' = Changed /\ \A c \in calls' : CallOK(c)
<1>1. \A i : i \in Changed <=> \E c \in calls : c.sent /\ c.id = i
  BY DEF Changed
<1>2. \A i : i \in Changed' <=> \E c \in calls' : c.sent /\ c.id = i
  BY DEF Changed
<1>3. \A i : i \in Changed' <=> i \in Changed
  BY <1>1, <1>2
<1> QED
  BY <1>3

\* Starting a handler.
LEMMA StartIdle ==
  ASSUME Shape, NEW c, CallOK(c), ~c.sent, NEW p, Start(c, p)
  PROVE  Idle
<1>1. /\ calls' = {[d EXCEPT !.alone = FALSE] : d \in calls} \cup {c}
      /\ UNCHANGED <<store, db, behind>>
      /\ answers' = [i \in DOMAIN answers |->
                        [answers[i] EXCEPT !.call = [@ EXCEPT !.alone = FALSE]]]
  BY DEF Start
<1>2. \A d \in calls : CallOK(d) /\ LET e == [d EXCEPT !.alone = FALSE]
                                     IN CallOK(e) /\ e.sent = d.sent /\ e.id = d.id
  BY MarkedCall DEF Shape
<1>3. Changed' = Changed /\ \A d \in calls' : CallOK(d)
  <2>1. \A d \in calls : \E e \in calls' : e.sent = d.sent /\ e.id = d.id
    BY <1>1, <1>2
  <2>2. \A e \in calls' : CallOK(e) /\ (e.sent => \E d \in calls : e.sent = d.sent /\ e.id = d.id)
    BY <1>1, <1>2
  <2> QED
    BY <2>1, <2>2, MarkedCalls
<1>4. SameAnswers
  <2> DEFINE f == [k \in DOMAIN answers |-> [answers[k].call EXCEPT !.alone = FALSE]]
  <2>1. answers' = [k \in DOMAIN answers |-> [answers[k] EXCEPT !.call = f[k]]]
    BY <1>1
  <2>2. \A k \in DOMAIN answers : DOMAIN f[k] = CallFields /\ f[k].kind = answers[k].call.kind
    <3>1. \A k \in DOMAIN answers : DOMAIN answers[k].call = CallFields
      BY SequenceIs DEF Shape, AnswerOK
    <3> QED
      BY <3>1 DEF CallFields
  <2> HIDE DEF f
  <2> QED
    BY <2>1, <2>2, MarkedAnswers
<1> QED
  BY <1>1, <1>3, <1>4 DEF Idle

\* A change of the page.
LEMMA LocalIdle ==
  ASSUME Shape, UNCHANGED <<store, calls, answers, db, behind>> PROVE Idle
BY UnchangedAnswers DEF Idle, Changed, Shape

\* Handlers and reads that have changed nothing yet.
LEMMA RefetchOK ==
  \A kind, i, extra : LET h == Refetch(kind, i, extra)
                      IN /\ CallOK(h) /\ ~h.sent
                         /\ CallOK([h EXCEPT !.mine = FALSE]) /\ ~[h EXCEPT !.mine = FALSE].sent
BY DEF Refetch, CallOK, CallFields
-----------------------------------------------------------------------------
(* Changes on the server *)

\* A change that will be read back.
LEMMA ChangedKeeps ==
  ASSUME ConvergeInv, NEW i \in DOMAIN db, NEW op, db' = [db EXCEPT ![i] = Serve(op, @)],
         UNCHANGED <<store, behind>>, SameAnswers,
         Changed' = Changed \cup {i}, \A c \in calls' : CallOK(c)
  PROVE  ConvergeInv'
<1>1. DOMAIN db' = DOMAIN db /\ \A j \in DOMAIN db \ {i} : db'[j] = db[j]
  OBVIOUS
<1>2. ServerOK'
  <2>1. "id" \in DOMAIN db[i] /\ db[i].id = i
    BY DEF ConvergeInv, Shape, ServerOK
  <2>2. db'[i] = Serve(op, db[i])
    OBVIOUS
  <2>3. "id" \in DOMAIN db'[i] /\ db'[i].id = i
    BY <2>1, <2>2, ServeKeepsId
  <2> QED
    BY <1>1, <2>3 DEF ConvergeInv, Shape, ServerOK
<1>3. Shape'
  BY <1>2 DEF ConvergeInv, Shape, SameAnswers
<1>4. Gone'
  BY <1>1 DEF ConvergeInv, Gone, SameAnswers
<1>5. \A k \in 1 .. Len(answers) : \A j : (Carries(k, j)' <=> Carries(k, j))
  BY DEF SameAnswers, Carries
<1>6. \A k \in 1 .. Len(answers) : \A j : (Latest(k, j)' <=> Latest(k, j))
  BY <1>5 DEF Latest, SameAnswers
<1>7. ASSUME NEW j \in DOMAIN db' \ Changed' PROVE UpToDate(j)'
  <2>1. UpToDate(j) /\ db'[j] = db[j]
    BY <1>1, <1>7 DEF ConvergeInv, Tracked
  <2> QED
    BY <1>5, <1>6, <2>1 DEF SameAnswers, UpToDate
<1> QED
  BY <1>3, <1>4, <1>7 DEF ConvergeInv, Tracked

\* A change that will not, or a store that took over a copy from elsewhere: the ids in
\* "marked" are marked, also in the answers when the server changed them.
LEMMA MarkedKeeps ==
  ASSUME ConvergeInv, NEW changes, NEW marked, changes \subseteq marked,
         behind' = behind \cup marked,
         Sequence(answers'), Len(answers') = Len(answers),
         \A k \in 1 .. Len(answers) :
            /\ AnswerOK(answers'[k])
            /\ answers'[k].list = answers[k].list
            /\ answers'[k].call.kind = answers[k].call.kind
            /\ answers[k].late \cup changes \subseteq answers'[k].late,
         {"profiles", "activeProfile"} \subseteq DOMAIN store',
         \A p \in Copies(store') : p \in Copies(store) \/ p.id \in marked,
         ServerOK',
         DOMAIN db' \subseteq DOMAIN db, DOMAIN db \subseteq DOMAIN db' \cup changes,
         \A i \in DOMAIN db' \ changes : db'[i] = db[i],
         Changed' \subseteq Changed, Changed \subseteq Changed' \cup changes,
         \A c \in calls' : CallOK(c)
  PROVE  ConvergeInv'
<1>1. Shape'
  BY DEF Shape
<1>2. Gone'
  <2>1. \A p \in Copies(store') : p.id \in DOMAIN db' \cup behind'
    BY DEF ConvergeInv, Gone
  <2>2. Changed' \subseteq DOMAIN db' \cup behind'
    BY DEF ConvergeInv, Gone
  <2>3. ASSUME NEW k \in 1 .. Len(answers)
        PROVE  IdsOf(answers'[k].list) \subseteq (DOMAIN db' \cup behind') \cap (DOMAIN db' \cup answers'[k].late)
    <3>1. IdsOf(answers'[k].list) \subseteq (DOMAIN db \cup behind) \cap (DOMAIN db \cup answers[k].late)
      BY DEF ConvergeInv, Gone
    <3> QED
      BY <3>1
  <2> QED
    BY <2>1, <2>2, <2>3 DEF Gone
<1>3. \A k \in 1 .. Len(answers) : \A j : (Carries(k, j)' <=> Carries(k, j))
  BY DEF Carries
<1>4. \A k \in 1 .. Len(answers) : \A j : (Latest(k, j)' <=> Latest(k, j))
  BY <1>3 DEF Latest
<1>5. ASSUME NEW j \in DOMAIN db' \ Changed' PROVE UpToDate(j)'
  <2>1. CASE j \in changes
    BY <1>5, <2>1 DEF UpToDate
  <2>2. CASE j \notin changes
    <3>1. UpToDate(j) /\ db'[j] = db[j]
      BY <1>5, <2>2 DEF ConvergeInv, Tracked
    <3>2. \A k \in 1 .. Len(answers) : Latest(k, j)' =>
             j \in answers'[k].late
             \/ \A m \in 1 .. Len(answers'[k].list) :
                   answers'[k].list[m].id = j => answers'[k].list[m] = db'[j]
      BY <1>4, <3>1 DEF UpToDate
    <3>3. (\A k \in 1 .. Len(answers) : ~Carries(k, j)') =>
             j \in behind' \/ \A p \in Copies(store') : p.id = j => p = db'[j]
      BY <1>3, <3>1 DEF UpToDate
    <3> QED
      BY <3>2, <3>3 DEF UpToDate
  <2> QED
    BY <2>1, <2>2
<1> QED
  BY <1>1, <1>2, <1>5 DEF ConvergeInv, Tracked

\* What is read back carries the server's state, and nothing overtakes it.
LEMMA ReadKeeps ==
  ASSUME ConvergeInv, NEW a, AnswerOK(a), a.late = {},
         \A m \in 1 .. Len(a.list) : a.list[m].id \in DOMAIN db /\ a.list[m] = db[a.list[m].id],
         answers' = Append(answers, a), UNCHANGED <<store, db, behind>>,
         Changed' \subseteq Changed,
         \A i \in Changed \ Changed' : i \in IdsOf(a.list) /\ a.call.kind # "readPrefs",
         \A c \in calls' : CallOK(c)
  PROVE  ConvergeInv'
<1>0. PICK n : n = Len(answers)
  OBVIOUS
<1>1. /\ n \in Nat /\ Sequence(answers') /\ Len(answers') = n + 1
      /\ answers'[n + 1] = a /\ \A k \in 1 .. n : answers'[k] = answers[k]
  BY <1>0, AppendShape DEF ConvergeInv, Shape, Sequence
<1>2. Shape'
  <2>1. \A k \in 1 .. n + 1 : AnswerOK(answers'[k])
    <3> SUFFICES ASSUME NEW k \in 1 .. n + 1 PROVE AnswerOK(answers'[k])
      OBVIOUS
    <3>1. k \in 1 .. n \/ k = n + 1
      BY <1>1
    <3> QED
      BY <1>0, <1>1, <3>1 DEF ConvergeInv, Shape
  <2> QED
    BY <1>1, <2>1 DEF ConvergeInv, Shape, ServerOK
<1>3. IdsOf(a.list) \subseteq DOMAIN db /\ \A i : i \in IdsOf(a.list) <=> \E m \in 1 .. Len(a.list) : i = a.list[m].id
  BY SequenceIs DEF IdsOf, AnswerOK
<1>4. Gone'
  <2>1. ASSUME NEW k \in 1 .. n + 1
        PROVE  IdsOf(answers'[k].list) \subseteq (DOMAIN db \cup behind) \cap (DOMAIN db \cup answers'[k].late)
    <3>1. k \in 1 .. n \/ k = n + 1
      BY <1>1
    <3> QED
      BY <1>0, <1>1, <1>3, <3>1 DEF ConvergeInv, Gone
  <2> QED
    BY <1>1, <2>1 DEF ConvergeInv, Gone
<1>5. \A k \in 1 .. n : \A j : (Carries(k, j)' <=> Carries(k, j))
  <2> SUFFICES ASSUME NEW k \in 1 .. n, NEW j PROVE Carries(k, j)' <=> Carries(k, j)
    OBVIOUS
  <2>1. answers'[k] = answers[k]
    BY <1>1
  <2> QED
    BY <2>1 DEF Carries
<1>6. \A j : (Carries(n + 1, j)' <=> a.call.kind # "readPrefs" /\ j \in IdsOf(a.list))
  BY <1>1 DEF Carries
<1>7. ASSUME NEW j \in DOMAIN db' \ Changed' PROVE UpToDate(j)'
  <2>1. CASE Carries(n + 1, j)'
    <3>1. \A k \in 1 .. n : ~Latest(k, j)'
      <4> SUFFICES ASSUME NEW k \in 1 .. n PROVE ~Latest(k, j)'
        OBVIOUS
      <4>1. n + 1 \in 1 .. Len(answers') /\ n + 1 > k
        BY <1>1
      <4> QED
        BY <2>1, <4>1 DEF Latest
    <3>2. \A k \in 1 .. n + 1 : Latest(k, j)' => k = n + 1
      BY <1>1, <3>1
    <3>3. \A m \in 1 .. Len(a.list) : a.list[m].id = j => a.list[m] = db'[j]
      OBVIOUS
    <3> QED
      <4>1. \A k \in 1 .. Len(answers') : Latest(k, j)' => answers'[k].list = a.list
        BY <1>1, <3>2
      <4>2. n + 1 \in 1 .. Len(answers')
        BY <1>1
      <4> QED
        BY <2>1, <3>3, <4>1, <4>2 DEF UpToDate
  <2>2. CASE ~Carries(n + 1, j)'
    <3>1. UpToDate(j)
      BY <1>6, <1>7, <2>2 DEF ConvergeInv, Tracked
    <3>2. \A k \in 1 .. n : Latest(k, j)' => Latest(k, j)
      BY <1>0, <1>1, <1>5 DEF Latest
    <3>3. \A k \in 1 .. n + 1 : Latest(k, j)' => k \in 1 .. n
      <4> SUFFICES ASSUME NEW k \in 1 .. n + 1, Latest(k, j)' PROVE k \in 1 .. n
        OBVIOUS
      <4>1. Carries(k, j)'
        BY DEF Latest
      <4>2. k # n + 1
        BY <2>2, <4>1
      <4> QED
        BY <1>1, <4>2
    <3>4. \A k \in 1 .. n + 1 : Latest(k, j)' =>
             j \in answers'[k].late
             \/ \A m \in 1 .. Len(answers'[k].list) :
                   answers'[k].list[m].id = j => answers'[k].list[m] = db'[j]
      BY <1>0, <1>1, <3>1, <3>2, <3>3 DEF UpToDate
    <3>5. (\A k \in 1 .. n + 1 : ~Carries(k, j)') =>
             j \in behind' \/ \A p \in Copies(store') : p.id = j => p = db'[j]
      <4>1. (\A k \in 1 .. n + 1 : ~Carries(k, j)') => \A k \in 1 .. n : ~Carries(k, j)
        BY <1>1, <1>5
      <4> QED
        BY <1>0, <3>1, <4>1 DEF UpToDate
    <3> QED
      BY <1>1, <3>4, <3>5 DEF UpToDate
  <2> QED
    BY <2>1, <2>2
<1> QED
  BY <1>2, <1>4, <1>7 DEF ConvergeInv, Tracked
-----------------------------------------------------------------------------
(* An answer that is delivered *)

\* The place answer j had before answer k went.
Before(j, k) == IF j < k THEN j ELSE j + 1

\* Answer k goes; the store takes over the profiles "taken" from it, and the answers
\* that were read before it become late for these.
LEMMA DropKeeps ==
  ASSUME ConvergeInv, NEW k \in 1 .. Len(answers), NEW taken,
         \A i : i \in taken <=> Carries(k, i),
         Sequence(answers'), Len(answers') = Len(answers) - 1,
         \A j \in 1 .. Len(answers) - 1 :
            /\ AnswerOK(answers'[j])
            /\ answers'[j].list = answers[Before(j, k)].list
            /\ answers'[j].call.kind = answers[Before(j, k)].call.kind
            /\ answers[Before(j, k)].late \subseteq answers'[j].late
            /\ j < k => IdsOf(answers'[j].list) \cap taken \subseteq answers'[j].late,
         {"profiles", "activeProfile"} \subseteq DOMAIN store',
         behind \ taken \subseteq behind', taken \cap answers[k].late \subseteq behind',
         \A p \in Copies(store') :
            \/ p.id \in taken /\ \E m \in 1 .. Len(answers[k].list) : p = answers[k].list[m]
            \/ p.id \in behind'
            \/ p \in Copies(store) /\ p.id \notin taken,
         UNCHANGED <<db, calls>>
  PROVE  ConvergeInv'
<1>0. PICK n : n = Len(answers)
  OBVIOUS
<1>1. n \in Nat /\ k \in 1 .. n /\ Len(answers') = n - 1 /\ Len(answers') \in Nat
  BY <1>0, SequenceIs DEF ConvergeInv, Shape
<1>2. \A j \in 1 .. n - 1 : Before(j, k) \in 1 .. n /\ Before(j, k) # k
  BY <1>1 DEF Before
<1>3. Shape'
  BY <1>0, <1>1 DEF ConvergeInv, Shape, ServerOK
<1>4. \A j \in 1 .. n - 1 : \A i : Carries(j, i)' <=> Carries(Before(j, k), i)
  <2> SUFFICES ASSUME NEW j \in 1 .. n - 1, NEW i
               PROVE  Carries(j, i)' <=> Carries(Before(j, k), i)
    OBVIOUS
  <2>1. /\ answers'[j].list = answers[Before(j, k)].list
        /\ answers'[j].call.kind = answers[Before(j, k)].call.kind
    BY <1>0
  <2> QED
    BY <2>1 DEF Carries
<1>5. ASSUME NEW i \in DOMAIN db \cup behind PROVE i \in DOMAIN db \cup behind'
  <2>1. CASE i \notin taken
    BY <1>5, <2>1
  <2>2. CASE i \in taken
    <3>1. i \in DOMAIN db \cup answers[k].late
      BY <2>2 DEF ConvergeInv, Gone, Carries
    <3> QED
      BY <2>2, <3>1
  <2> QED
    BY <2>1, <2>2
<1>6. Gone'
  <2>1. \A p \in Copies(store') : p.id \in DOMAIN db \cup behind'
    <3> SUFFICES ASSUME NEW p \in Copies(store') PROVE p.id \in DOMAIN db \cup behind'
      OBVIOUS
    <3>1. CASE p.id \in taken
      <4>1. p.id \in DOMAIN db \cup behind
        BY <3>1 DEF ConvergeInv, Gone, Carries
      <4> QED
        BY <1>5, <4>1
    <3>2. CASE p \in Copies(store)
      BY <1>5, <3>2 DEF ConvergeInv, Gone
    <3> QED
      BY <3>1, <3>2
  <2>2. Changed' = Changed
    BY DEF Changed
  <2>3. Changed \subseteq DOMAIN db \cup behind'
    BY <1>5 DEF ConvergeInv, Gone
  <2>4. ASSUME NEW j \in 1 .. n - 1
        PROVE  IdsOf(answers'[j].list) \subseteq (DOMAIN db \cup behind') \cap (DOMAIN db \cup answers'[j].late)
    <3>1. IdsOf(answers'[j].list) \subseteq (DOMAIN db \cup behind) \cap (DOMAIN db \cup answers[Before(j, k)].late)
      BY <1>0, <1>2 DEF ConvergeInv, Gone
    <3>2. answers[Before(j, k)].late \subseteq answers'[j].late
      BY <1>0
    <3> QED
      BY <1>5, <3>1, <3>2
  <2> QED
    BY <1>1, <2>1, <2>2, <2>3, <2>4 DEF Gone
<1>7. ASSUME NEW i \in DOMAIN db \ Changed PROVE UpToDate(i)'
  <2>1. UpToDate(i)
    BY <1>7 DEF ConvergeInv, Tracked
  <2>2. ASSUME NEW j \in 1 .. n - 1, Latest(j, i)'
        PROVE  \/ i \in answers'[j].late
               \/ \A m \in 1 .. Len(answers'[j].list) :
                     answers'[j].list[m].id = i => answers'[j].list[m] = db'[i]
    <3>0. Carries(j, i)' /\ \A m \in 1 .. n - 1 : m > j => ~Carries(m, i)'
      BY <1>1, <2>2 DEF Latest
    <3>1. CASE j < k /\ i \in taken
      <4>1. i \in IdsOf(answers'[j].list)
        BY <3>0 DEF Carries
      <4> QED
        BY <1>0, <3>1, <4>1
    <3>2. CASE ~(j < k /\ i \in taken)
      <4>1. ASSUME NEW m \in 1 .. n, m > Before(j, k) PROVE ~Carries(m, i)
        <5>1. CASE m = k
          BY <1>1, <3>2, <4>1, <5>1 DEF Before
        <5>2. CASE m < k
          <6>1. m \in 1 .. n - 1 /\ m > j /\ Before(m, k) = m
            BY <1>1, <4>1, <5>2 DEF Before
          <6> QED
            BY <1>4, <3>0, <6>1
        <5>3. CASE m > k
          <6>1. m - 1 \in 1 .. n - 1 /\ m - 1 > j /\ Before(m - 1, k) = m
            BY <1>1, <4>1, <5>3 DEF Before
          <6> QED
            BY <1>4, <3>0, <6>1
        <5> QED
          BY <1>1, <5>1, <5>2, <5>3
      <4>2. Before(j, k) \in 1 .. n /\ Latest(Before(j, k), i)
        BY <1>0, <1>2, <1>4, <3>0, <4>1 DEF Latest
      <4>3. /\ answers'[j].list = answers[Before(j, k)].list
            /\ answers[Before(j, k)].late \subseteq answers'[j].late
        BY <1>0
      <4> QED
        BY <1>0, <2>1, <4>2, <4>3 DEF UpToDate
    <3> QED
      BY <3>1, <3>2
  <2>3. ASSUME \A j \in 1 .. n - 1 : ~Carries(j, i)'
        PROVE  i \in behind' \/ \A p \in Copies(store') : p.id = i => p = db[i]
    <3>1. ASSUME NEW m \in 1 .. n, m # k PROVE ~Carries(m, i)
      <4>1. CASE m < k
        <5>1. m \in 1 .. n - 1 /\ Before(m, k) = m
          BY <1>1, <4>1 DEF Before
        <5> QED
          BY <1>4, <2>3, <5>1
      <4>2. CASE m > k
        <5>1. m - 1 \in 1 .. n - 1 /\ Before(m - 1, k) = m
          BY <1>1, <4>2 DEF Before
        <5> QED
          BY <1>4, <2>3, <5>1
      <4> QED
        BY <1>1, <3>1, <4>1, <4>2
    <3>2. CASE i \in taken
      <4>1. Latest(k, i)
        BY <1>0, <1>1, <3>1, <3>2 DEF Latest
      <4>2. \/ i \in answers[k].late
            \/ \A m \in 1 .. Len(answers[k].list) :
                  answers[k].list[m].id = i => answers[k].list[m] = db[i]
        BY <2>1, <4>1 DEF UpToDate
      <4> QED
        BY <3>2, <4>2
    <3>3. CASE i \notin taken
      <4>1. \A m \in 1 .. n : ~Carries(m, i)
        BY <3>1, <3>3
      <4>2. i \in behind \/ \A p \in Copies(store) : p.id = i => p = db[i]
        BY <1>0, <2>1, <4>1 DEF UpToDate
      <4> QED
        BY <3>3, <4>2
    <3> QED
      BY <3>2, <3>3
  <2> QED
    BY <1>1, <2>2, <2>3 DEF UpToDate
<1> QED
  BY <1>3, <1>6, <1>7 DEF ConvergeInv, Tracked, Changed

\* What is left of the answers when k is delivered.
LEMMA OvertakesShape ==
  ASSUME Shape, NEW k \in 1 .. Len(answers)
  PROVE  LET R == Overtakes(k)
         IN /\ Sequence(R) /\ Len(R) = Len(answers) - 1
            /\ \A j \in 1 .. Len(answers) - 1 :
                  /\ AnswerOK(R[j])
                  /\ R[j].list = answers[Before(j, k)].list
                  /\ R[j].call = answers[Before(j, k)].call
                  /\ answers[Before(j, k)].late \subseteq R[j].late
                  /\ j < k => IdsOf(R[j].list) \cap IdsOf(answers[k].list) \subseteq R[j].late
<1> DEFINE rest == RemoveAt(answers, k)
           R == Overtakes(k)
           n == Len(answers)
<1>1. Len(answers) \in Nat /\ Sequence(answers)
  BY SequenceIs DEF Shape
<1>2. /\ Sequence(rest) /\ Len(rest) = n - 1
      /\ \A j \in 1 .. n - 1 : rest[j] = answers[Before(j, k)]
  BY <1>1, RemoveShape DEF Before
<1>3. DOMAIN rest = 1 .. n - 1 /\ n - 1 \in Nat
  BY <1>2, SequenceIs
<1>4. R = [j \in 1 .. n - 1 |->
              IF j < k THEN [rest[j] EXCEPT !.late = @ \cup (IdsOf(rest[j].list) \cap IdsOf(answers[k].list))]
              ELSE rest[j]]
  BY <1>3 DEF Overtakes
<1> HIDE DEF R, rest
<1>5. Sequence(R) /\ Len(R) = n - 1
  <2>1. R = [j \in 1 .. n - 1 |-> R[j]]
    BY <1>4
  <2> QED
    BY <1>3, <2>1, FunctionIsSequence
<1>6. ASSUME NEW j \in 1 .. n - 1
      PROVE  /\ AnswerOK(R[j])
             /\ R[j].list = answers[Before(j, k)].list
             /\ R[j].call = answers[Before(j, k)].call
             /\ answers[Before(j, k)].late \subseteq R[j].late
             /\ j < k => IdsOf(R[j].list) \cap IdsOf(answers[k].list) \subseteq R[j].late
  <2> DEFINE b == answers[Before(j, k)]
  <2>1. Before(j, k) \in 1 .. n
    BY <1>1 DEF Before
  <2>2. AnswerOK(b)
    BY <2>1 DEF Shape
  <2>3. R[j] = IF j < k THEN [b EXCEPT !.late = @ \cup (IdsOf(b.list) \cap IdsOf(answers[k].list))]
               ELSE b
    BY <1>2, <1>4
  <2> HIDE DEF b
  <2>4. CASE j < k
    <3>1. /\ DOMAIN R[j] = DOMAIN b /\ R[j].call = b.call /\ R[j].list = b.list
          /\ R[j].late = b.late \cup (IdsOf(b.list) \cap IdsOf(answers[k].list))
      BY <2>2, <2>3, <2>4 DEF AnswerOK
    <3> QED
      BY <2>2, <3>1 DEF AnswerOK, b
  <2>5. CASE ~(j < k)
    BY <2>2, <2>3, <2>5 DEF b
  <2> QED
    BY <2>4, <2>5
<1> QED
  BY <1>5, <1>6 DEF R

\* A delivered answer.
LEMMA DeliveredKeeps ==
  ASSUME NullHasNoId, ConvergeInv, NEW k \in 1 .. Len(answers),
         answers[k].call.kind # "readPrefs", NEW p, Delivered(k, p)
  PROVE  ConvergeInv'
<1> DEFINE a == answers[k]
           taken == IdsOf(a.list)
<1>1. AnswerOK(a) /\ {"profiles", "activeProfile"} \subseteq DOMAIN store
  BY DEF ConvergeInv, Shape
<1>2. /\ store' = AfterAnswer(store, a) /\ behind' = (behind \ taken) \cup Outdated(a)
      /\ answers' = Overtakes(k) /\ UNCHANGED <<db, calls>>
  BY DEF Delivered
<1>3. \A i : i \in taken <=> Carries(k, i)
  BY DEF Carries
<1>4. /\ Sequence(answers') /\ Len(answers') = Len(answers) - 1
      /\ \A j \in 1 .. Len(answers) - 1 :
            /\ AnswerOK(answers'[j])
            /\ answers'[j].list = answers[Before(j, k)].list
            /\ answers'[j].call.kind = answers[Before(j, k)].call.kind
            /\ answers[Before(j, k)].late \subseteq answers'[j].late
            /\ j < k => IdsOf(answers'[j].list) \cap taken \subseteq answers'[j].late
  BY <1>2, OvertakesShape DEF ConvergeInv
<1>5. /\ a.late \subseteq Outdated(a)
      /\ a.call.kind = "afterDelete" /\ a.call.extra # Null => a.call.extra.id \in Outdated(a)
  BY DEF Outdated
<1>6. /\ {"profiles", "activeProfile"} \subseteq DOMAIN store'
      /\ \A q \in Copies(store') :
            \/ \E j \in 1 .. Len(a.list) : q = a.list[j]
            \/ a.call.kind = "afterDelete" /\ q = a.call.extra /\ q # Null
            \/ q \in Copies(store) /\ q.id \notin taken
  <2> DEFINE t == AfterAnswer(store, a)
  <2>1. /\ {"profiles", "activeProfile"} \subseteq DOMAIN t
        /\ \A q \in Copies(t) :
              \/ \E j \in 1 .. Len(a.list) : q = a.list[j]
              \/ a.call.kind = "afterDelete" /\ q = a.call.extra /\ q # Null
              \/ q \in Copies(store) /\ q.id \notin taken
    BY ONLY <1>1, AnswerCopies, NullHasNoId
  <2>2. store' = t
    BY <1>2
  <2> HIDE DEF t
  <2> QED
    BY <2>1, <2>2
<1>7. ASSUME NEW q \in Copies(store')
      PROVE  \/ q.id \in taken /\ \E m \in 1 .. Len(a.list) : q = a.list[m]
             \/ q.id \in behind'
             \/ q \in Copies(store) /\ q.id \notin taken
  <2>1. CASE \E j \in 1 .. Len(a.list) : q = a.list[j]
    <3>1. DOMAIN a.list = 1 .. Len(a.list)
      BY <1>1, SequenceIs DEF AnswerOK
    <3> QED
      BY <2>1, <3>1 DEF IdsOf
  <2>2. CASE a.call.kind = "afterDelete" /\ q = a.call.extra /\ q # Null
    BY <1>2, <1>5, <2>2
  <2> QED
    BY <1>6, <2>1, <2>2
<1>8. behind \ taken \subseteq behind' /\ taken \cap a.late \subseteq behind'
  BY <1>2, <1>5
<1> HIDE DEF taken
<1>9. {"profiles", "activeProfile"} \subseteq DOMAIN store'
  BY <1>6
<1> QED
  BY <1>2, <1>3, <1>4, <1>7, <1>8, <1>9, DropKeeps

\* What the preferences dialog reads does not reach the store.
LEMMA PrefsArriveKeeps ==
  ASSUME ConvergeInv, NEW k \in 1 .. Len(answers), PrefsArrive(k)
  PROVE  ConvergeInv'
<1>1. /\ answers[k].call.kind = "readPrefs" /\ answers' = RemoveAt(answers, k)
      /\ UNCHANGED <<store, calls, db, behind>>
  BY DEF PrefsArrive
<1>2. \A i : i \in {} <=> Carries(k, i)
  BY <1>1 DEF Carries
<1>3. Sequence(answers) /\ Len(answers) \in Nat
  BY SequenceIs DEF ConvergeInv, Shape
<1>4. /\ Sequence(answers') /\ Len(answers') = Len(answers) - 1
      /\ \A j \in 1 .. Len(answers) - 1 : answers'[j] = answers[Before(j, k)]
  BY <1>1, <1>3, RemoveShape DEF Before
<1>5. \A j \in 1 .. Len(answers) - 1 : AnswerOK(answers[Before(j, k)])
  BY <1>3 DEF ConvergeInv, Shape, Before
<1>6. {"profiles", "activeProfile"} \subseteq DOMAIN store'
  BY <1>1 DEF ConvergeInv, Shape
<1>7. Copies(store') = Copies(store)
  BY <1>1
<1> DEFINE none == {}
<1>8. \A i : i \in none <=> Carries(k, i)
  BY <1>2
<1>9. /\ \A j \in 1 .. Len(answers) - 1 :
            /\ AnswerOK(answers'[j])
            /\ answers'[j].list = answers[Before(j, k)].list
            /\ answers'[j].call.kind = answers[Before(j, k)].call.kind
            /\ answers[Before(j, k)].late \subseteq answers'[j].late
            /\ j < k => IdsOf(answers'[j].list) \cap none \subseteq answers'[j].late
      /\ behind \ none \subseteq behind' /\ none \cap answers[k].late \subseteq behind'
      /\ \A p \in Copies(store') : p \in Copies(store) /\ p.id \notin none
  BY <1>1, <1>4, <1>5, <1>7
<1> HIDE DEF none
<1> QED
  BY <1>1, <1>4, <1>6, <1>8, <1>9, DropKeeps

\* A new profile is one nobody knows yet.
LEMMA NewKeeps ==
  ASSUME ConvergeInv, NEW i, i \notin DOMAIN db \cup behind, NEW x, "id" \in DOMAIN x, x.id = i,
         DOMAIN db' = DOMAIN db \cup {i}, db'[i] = x, \A j \in DOMAIN db : db'[j] = db[j],
         store' = SetActiveProfile(store, x), UNCHANGED behind, SameAnswers,
         Changed' = Changed, \A c \in calls' : CallOK(c)
  PROVE  ConvergeInv'
<1> DEFINE t == SetActiveProfile(store, x)
<1>1. {"profiles", "activeProfile"} \subseteq DOMAIN store
  BY DEF ConvergeInv, Shape
<1>2. /\ {"profiles", "activeProfile"} \subseteq DOMAIN t
      /\ \A p \in Copies(t) : (p = x /\ x # Null) \/ (p \in Copies(store) /\ (x # Null => p.id # x.id))
  BY ONLY <1>1, ActivateCopies
<1>3. store' = t
  OBVIOUS
<1> HIDE DEF t
<1>4. ServerOK'
  BY FS_AddElement DEF ConvergeInv, Shape, ServerOK
<1>5. Shape'
  BY <1>2, <1>3, <1>4 DEF ConvergeInv, Shape, SameAnswers
<1>6. \A p \in Copies(store) : p.id # i
  BY DEF ConvergeInv, Gone
<1>7. \A p \in Copies(store') : p = x \/ (p \in Copies(store) /\ p.id # i)
  BY <1>2, <1>3, <1>6
<1>8. Gone'
  BY <1>7 DEF ConvergeInv, Gone, SameAnswers
<1>9. \A k \in 1 .. Len(answers) : \A j : (Carries(k, j)' <=> Carries(k, j))
  BY DEF SameAnswers, Carries
<1>10. \A k \in 1 .. Len(answers) : \A j : (Latest(k, j)' <=> Latest(k, j))
  BY <1>9 DEF Latest, SameAnswers
<1>11. ASSUME NEW j \in DOMAIN db' \ Changed' PROVE UpToDate(j)'
  <2>1. CASE j = i
    <3>1. \A k \in 1 .. Len(answers) : ~Carries(k, i)
      BY DEF ConvergeInv, Gone, Carries
    <3>2. \A k \in 1 .. Len(answers) : ~Latest(k, i)'
      BY <1>10, <3>1 DEF Latest
    <3> QED
      BY <1>7, <2>1, <3>2 DEF UpToDate, SameAnswers
  <2>2. CASE j # i
    <3>1. UpToDate(j) /\ db'[j] = db[j]
      BY <1>11, <2>2 DEF ConvergeInv, Tracked
    <3>2. \A p \in Copies(store') : p.id = j => p \in Copies(store)
      BY <1>7, <2>2
    <3> QED
      BY <1>9, <1>10, <3>1, <3>2 DEF UpToDate, SameAnswers
  <2> QED
    BY <2>1, <2>2
<1> QED
  BY <1>5, <1>8, <1>11 DEF ConvergeInv, Tracked
-----------------------------------------------------------------------------
(* The steps of a handler *)

\* Handler c makes way for those of D.
LEMMA ReplacedCalls ==
  ASSUME Shape, NEW c \in calls, NEW D, \A d \in D : CallOK(d), calls' = (calls \ {c}) \cup D
  PROVE  /\ \A d \in calls' : CallOK(d)
         /\ Changed \subseteq Changed' \cup {c.id}
         /\ ~c.sent => Changed \subseteq Changed'
         /\ Changed' \subseteq Changed \cup {d.id : d \in {e \in D : e.sent}}
         /\ \A d \in D : d.sent => d.id \in Changed'
<1>1. \A i : i \in Changed <=> \E d \in calls : d.sent /\ d.id = i
  BY DEF Changed
<1>2. \A i : i \in Changed' <=> \E d \in calls' : d.sent /\ d.id = i
  BY DEF Changed
<1>3. \A d \in calls' : CallOK(d)
  BY DEF Shape
<1>4. Changed \subseteq Changed' \cup {c.id}
  BY <1>1, <1>2
<1>5. ~c.sent => Changed \subseteq Changed'
  BY <1>1, <1>2
<1>6. Changed' \subseteq Changed \cup {d.id : d \in {e \in D : e.sent}}
  BY <1>1, <1>2
<1>7. \A d \in D : d.sent => d.id \in Changed'
  BY <1>2
<1> QED
  BY <1>3, <1>4, <1>5, <1>6, <1>7

\* Handler c ends.
LEMMA GoneCall ==
  ASSUME Shape, NEW c \in calls, calls' = (calls \ {c}) \cup {}
  PROVE  /\ \A d \in calls' : CallOK(d)
         /\ Changed \subseteq Changed' \cup {c.id}
         /\ ~c.sent => Changed \subseteq Changed'
         /\ Changed' \subseteq Changed
<1>1. \A i : i \in Changed <=> \E d \in calls : d.sent /\ d.id = i
  BY DEF Changed
<1>2. \A i : i \in Changed' <=> \E d \in calls' : d.sent /\ d.id = i
  BY DEF Changed
<1> QED
  BY <1>1, <1>2 DEF Shape

\* The answers under way when profile i changes unread.
LEMMA LateShape ==
  ASSUME Shape, NEW i
  PROVE  LET L == Late(answers, i)
         IN /\ Sequence(L) /\ Len(L) = Len(answers)
            /\ \A k \in 1 .. Len(answers) :
                  /\ AnswerOK(L[k])
                  /\ L[k].list = answers[k].list
                  /\ L[k].call = answers[k].call
                  /\ answers[k].late \cup {i} \subseteq L[k].late
<1> DEFINE L == Late(answers, i)
<1>1. Len(answers) \in Nat /\ DOMAIN answers = 1 .. Len(answers)
  BY SequenceIs DEF Shape
<1>2. L = [k \in 1 .. Len(answers) |-> [answers[k] EXCEPT !.late = @ \cup {i}]]
  BY <1>1 DEF Late
<1> HIDE DEF L
<1>3. L = [k \in 1 .. Len(answers) |-> L[k]]
  BY <1>2
<1>4. Sequence(L) /\ Len(L) = Len(answers)
  BY <1>1, <1>3, FunctionIsSequence
<1>5. ASSUME NEW k \in 1 .. Len(answers)
      PROVE  /\ AnswerOK(L[k])
             /\ L[k].list = answers[k].list
             /\ L[k].call = answers[k].call
             /\ answers[k].late \cup {i} \subseteq L[k].late
  <2>1. AnswerOK(answers[k]) /\ L[k] = [answers[k] EXCEPT !.late = @ \cup {i}]
    BY <1>2, <1>5 DEF Shape
  <2>2. /\ DOMAIN L[k] = {"call", "list", "late"} /\ L[k].call = answers[k].call
        /\ L[k].list = answers[k].list /\ L[k].late = answers[k].late \cup {i}
    BY <2>1 DEF AnswerOK
  <2> QED
    BY <2>1, <2>2 DEF AnswerOK
<1> QED
  BY <1>4, <1>5 DEF L

\* The next change of a handler that will read its profile back.
LEMMA SentKeeps ==
  ASSUME ConvergeInv, NEW c \in calls, c.id \in DOMAIN db, NEW op,
         db' = [db EXCEPT ![c.id] = Serve(op, @)],
         NEW d, CallOK(d), d.sent, d.id = c.id, calls' = (calls \ {c}) \cup {d},
         UNCHANGED <<store, behind, answers>>
  PROVE  ConvergeInv'
<1>1. Shape
  BY DEF ConvergeInv
<1>2. SameAnswers
  BY <1>1, UnchangedAnswers
<1>3. /\ \A e \in calls' : CallOK(e)
      /\ Changed \subseteq Changed' \cup {c.id}
      /\ Changed' \subseteq Changed \cup {e.id : e \in {f \in {d} : f.sent}}
      /\ \A e \in {d} : e.sent => e.id \in Changed'
  BY ONLY Shape, CallOK(d), c \in calls, calls' = (calls \ {c}) \cup {d}, <1>1, ReplacedCalls
<1>4. Changed' = Changed \cup {c.id}
  BY <1>3
<1> QED
  BY <1>2, <1>3, <1>4, ChangedKeeps

\* The next change of a handler that reads back.
LEMMA ServedKeeps == ASSUME ConvergeInv, NEW c \in calls, Served(c) PROVE ConvergeInv'
<1> DEFINE d == [c EXCEPT !.ops = Tail(@), !.sent = TRUE]
<1>1. CallOK(c)
  BY DEF ConvergeInv, Shape
<1>2. /\ c.kind \notin Special /\ c.ops # << >> /\ Accepts(Head(c.ops), c)
      /\ db' = [db EXCEPT ![c.id] = Serve(Head(c.ops), @)]
      /\ calls' = (calls \ {c}) \cup {d} /\ UNCHANGED <<store, behind, answers>>
  BY DEF Served
<1>3. c.id \in DOMAIN db
  BY <1>2 DEF Accepts, Special, Saves
<1>4. DOMAIN d = CallFields /\ d.kind = c.kind /\ d.sent /\ d.id = c.id
  BY <1>1 DEF CallOK, CallFields
<1>5. CallOK(d)
  <2>1. c.kind \notin {"readPrefs"} \cup Lists
    BY <1>1, <1>2 DEF CallOK
  <2> QED
    BY <1>2, <1>4, <2>1 DEF CallOK, Special
<1> HIDE DEF d
<1> QED
  BY <1>2, <1>3, <1>4, <1>5, SentKeeps

\* The composer's batch.
LEMMA ComposerKeeps == ASSUME ConvergeInv, NEW c \in calls, ComposerAnswered(c) PROVE ConvergeInv'
<1>1. CallOK(c) /\ Shape
  BY DEF ConvergeInv, Shape
<1>2. c.kind = "compose" /\ c.ops # << >> /\ c.id \in DOMAIN db /\ UNCHANGED <<store, behind, answers>>
  BY DEF ComposerAnswered
<1>3. PICK created, e :
        \/ Finished(c) /\ UNCHANGED db
        \/ /\ db' = [db EXCEPT ![c.id] = Serve([Head(c.ops) EXCEPT !.arg = created], @)]
           /\ calls' = (calls \ {c}) \cup {[c EXCEPT !.ops = <<>>, !.sent = TRUE, !.extra = e]}
  BY DEF ComposerAnswered
<1>4. CASE Finished(c) /\ UNCHANGED db
  <2>1. ~c.sent
    BY <1>1, <1>2 DEF CallOK
  <2>2. calls' = (calls \ {c}) \cup {}
    BY <1>4 DEF Finished
  <2>3. /\ \A e1 \in calls' : CallOK(e1)
        /\ ~c.sent => Changed \subseteq Changed'
        /\ Changed' \subseteq Changed
    BY <1>1, <2>2, GoneCall
  <2> QED
    BY <1>1, <1>2, <1>4, <2>1, <2>3, UnchangedAnswers, IdleKeeps DEF Idle
<1>5. CASE /\ db' = [db EXCEPT ![c.id] = Serve([Head(c.ops) EXCEPT !.arg = created], @)]
           /\ calls' = (calls \ {c}) \cup {[c EXCEPT !.ops = <<>>, !.sent = TRUE, !.extra = e]}
  <2> DEFINE d == [c EXCEPT !.ops = <<>>, !.sent = TRUE, !.extra = e]
  <2>1. CallOK(d) /\ d.sent /\ d.id = c.id
    BY <1>1, <1>2 DEF CallOK, CallFields, Lists, Saves
  <2> HIDE DEF d
  <2> QED
    BY <1>2, <1>5, <2>1, SentKeeps DEF d
<1> QED
  BY <1>3, <1>4, <1>5

\* A change leaves the server's profiles in shape.
LEMMA ServerKeeps ==
  ASSUME ServerOK, NEW i \in DOMAIN db, NEW op, db' = [db EXCEPT ![i] = Serve(op, @)]
  PROVE  ServerOK' /\ DOMAIN db' = DOMAIN db /\ \A j \in DOMAIN db \ {i} : db'[j] = db[j]
<1>1. DOMAIN db' = DOMAIN db /\ \A j \in DOMAIN db \ {i} : db'[j] = db[j]
  OBVIOUS
<1>2. "id" \in DOMAIN db[i] /\ db[i].id = i
  BY DEF ServerOK
<1>3. db'[i] = Serve(op, db[i])
  OBVIOUS
<1>4. "id" \in DOMAIN db'[i] /\ db'[i].id = i
  BY <1>2, <1>3, ServeKeepsId
<1> QED
  BY <1>1, <1>4 DEF ServerOK

\* A handler that ends without having read its profile back, or that makes way for reads.
LEMMA MissedKeeps ==
  ASSUME ConvergeInv, NEW c \in calls, NEW D, \A d \in D : CallOK(d) /\ ~d.sent,
         calls' = (calls \ {c}) \cup D, Missed(c.id), UNCHANGED store,
         ServerOK', DOMAIN db' = DOMAIN db, \A j \in DOMAIN db \ {c.id} : db'[j] = db[j]
  PROVE  ConvergeInv'
<1> DEFINE i == c.id
<1>1. Shape
  BY DEF ConvergeInv
<1>2. behind' = behind \cup {i} /\ answers' = Late(answers, i)
  BY DEF Missed
<1>3. /\ \A e \in calls' : CallOK(e)
      /\ Changed \subseteq Changed' \cup {i}
      /\ Changed' \subseteq Changed \cup {e.id : e \in {f \in D : f.sent}}
  BY <1>1, ReplacedCalls
<1>4. Changed' \subseteq Changed
  BY <1>3
<1> HIDE DEF i
<1>5. LET L == Late(answers, i)
      IN /\ Sequence(L) /\ Len(L) = Len(answers)
         /\ \A k \in 1 .. Len(answers) :
               /\ AnswerOK(L[k])
               /\ L[k].list = answers[k].list
               /\ L[k].call.kind = answers[k].call.kind
               /\ answers[k].late \cup {i} \subseteq L[k].late
  BY ONLY <1>1, LateShape
<1>6. /\ Sequence(answers') /\ Len(answers') = Len(answers)
      /\ \A k \in 1 .. Len(answers) :
            /\ AnswerOK(answers'[k])
            /\ answers'[k].list = answers[k].list
            /\ answers'[k].call.kind = answers[k].call.kind
            /\ answers[k].late \cup {i} \subseteq answers'[k].late
  BY <1>2, <1>5
<1>7. {"profiles", "activeProfile"} \subseteq DOMAIN store' /\ \A p \in Copies(store') : p \in Copies(store)
  BY <1>1 DEF Shape
<1>8. \A j \in DOMAIN db' \ {i} : db'[j] = db[j]
  BY DEF i
<1> QED
  BY <1>2, <1>3, <1>4, <1>6, <1>7, <1>8, MarkedKeeps

\* The switches of the settings page and of the preferences dialog.
LEMMA SavedKeeps ==
  ASSUME ConvergeInv, NEW c \in calls, c.kind # "create", NEW p, Saved(c, p)
  PROVE  ConvergeInv'
<1>1. /\ Accepts(Head(c.ops), c) /\ db' = [db EXCEPT ![c.id] = Serve(Head(c.ops), @)]
      /\ calls' = (calls \ {c}) \cup {} /\ Missed(c.id) /\ UNCHANGED store
  BY DEF Saved, Finished
<1>2. c.id \in DOMAIN db
  BY <1>1 DEF Accepts
<1>3. ServerOK' /\ DOMAIN db' = DOMAIN db /\ \A j \in DOMAIN db \ {c.id} : db'[j] = db[j]
  BY <1>1, <1>2, ServerKeeps DEF ConvergeInv, Shape
<1>4. PICK D : D = {}
  OBVIOUS
<1>5. calls' = (calls \ {c}) \cup D /\ \A d \in D : CallOK(d) /\ ~d.sent
  BY <1>1, <1>4
<1> QED
  BY <1>1, <1>3, <1>5, MissedKeeps

\* A bulk delete that stops halfway.
LEMMA BulkPartlyKeeps == ASSUME ConvergeInv, NEW c \in calls, BulkPartly(c) PROVE ConvergeInv'
<1>1. /\ c.id \in DOMAIN db
      /\ \E op : db' = [db EXCEPT ![c.id] = Serve(op, @)]
      /\ calls' = (calls \ {c}) \cup {} /\ Missed(c.id) /\ UNCHANGED store
  BY DEF BulkPartly, Finished
<1>2. ServerOK' /\ DOMAIN db' = DOMAIN db /\ \A j \in DOMAIN db \ {c.id} : db'[j] = db[j]
  BY <1>1, ServerKeeps DEF ConvergeInv, Shape
<1>3. PICK D : D = {}
  OBVIOUS
<1>4. calls' = (calls \ {c}) \cup D /\ \A d \in D : CallOK(d) /\ ~d.sent
  BY <1>1, <1>3
<1> QED
  BY <1>1, <1>2, <1>4, MissedKeeps

\* A handler changes in a way nobody else sees.
LEMMA ReplacedIdle ==
  ASSUME Shape, NEW c \in calls, NEW d, CallOK(d), d.sent = c.sent, d.id = c.id,
         calls' = (calls \ {c}) \cup {d}, UNCHANGED <<store, db, behind, answers>>
  PROVE  Idle
<1>1. /\ \A e \in calls : \E f \in calls' : f.sent = e.sent /\ f.id = e.id
      /\ \A f \in calls' : /\ CallOK(f)
                           /\ f.sent => \E e \in calls : f.sent = e.sent /\ f.id = e.id
  BY DEF Shape
<1>2. Changed' = Changed /\ \A e \in calls' : CallOK(e)
  BY <1>1, MarkedCalls
<1> QED
  BY <1>2, UnchangedAnswers DEF Idle

\* The delayed delete becomes a handler.
LEMMA DeleteFiresIdle == ASSUME Shape, NEW c \in calls, DeleteFires(c) PROVE Idle
<1> DEFINE d == [c EXCEPT !.kind = "delete"]
<1>1. CallOK(c) /\ c.kind = "deleteTimer" /\ calls' = (calls \ {c}) \cup {d}
      /\ UNCHANGED <<store, db, behind, answers>>
  BY DEF Shape, DeleteFires
<1>2. CallOK(d) /\ d.sent = c.sent /\ d.id = c.id
  BY <1>1 DEF CallOK, CallFields, Lists, Saves
<1> HIDE DEF d
<1> QED
  BY <1>1, <1>2, ReplacedIdle

\* A failed request.
LEMMA FailsKeeps == ASSUME ConvergeInv, NEW c \in calls, NEW p, Fails(c, p) PROVE ConvergeInv'
<1>1. Shape /\ CallOK(c)
  BY DEF ConvergeInv, Shape
<1>2. UNCHANGED <<store, db>>
  BY DEF Fails
<1>3. CASE c.revert /\ ~c.failed
  <2> DEFINE d == [c EXCEPT !.ops = <<>>, !.failed = TRUE]
  <2>1. calls' = (calls \ {c}) \cup {d} /\ UNCHANGED <<behind, answers>>
    BY <1>3 DEF Fails
  <2>2. CallOK(d) /\ d.sent = c.sent /\ d.id = c.id
    BY <1>1 DEF CallOK, CallFields
  <2> HIDE DEF d
  <2> QED
    BY <1>1, <1>2, <2>1, <2>2, ReplacedIdle, IdleKeeps
<1>4. CASE ~(c.revert /\ ~c.failed) /\ c.sent
  <2>1. calls' = (calls \ {c}) \cup {} /\ Missed(c.id)
    BY <1>4 DEF Fails, Finished
  <2>2. ServerOK' /\ DOMAIN db' = DOMAIN db /\ \A j \in DOMAIN db \ {c.id} : db'[j] = db[j]
    BY <1>1, <1>2 DEF Shape, ServerOK
  <2>3. PICK D : D = {}
    OBVIOUS
  <2>4. calls' = (calls \ {c}) \cup D /\ \A d \in D : CallOK(d) /\ ~d.sent
    BY <2>1, <2>3
  <2> QED
    BY <1>2, <2>1, <2>2, <2>4, MissedKeeps
<1>5. CASE ~(c.revert /\ ~c.failed) /\ ~c.sent
  <2>1. calls' = (calls \ {c}) \cup {} /\ UNCHANGED <<behind, answers>>
    BY <1>5 DEF Fails, Finished
  <2>2. /\ \A e \in calls' : CallOK(e)
        /\ ~c.sent => Changed \subseteq Changed'
        /\ Changed' \subseteq Changed
    BY <1>1, <2>1, GoneCall
  <2> QED
    BY <1>1, <1>2, <1>5, <2>1, <2>2, UnchangedAnswers, IdleKeeps DEF Idle
<1> QED
  BY <1>3, <1>4, <1>5

\* A profile, or the list, is read.
LEMMA ReadStepKeeps == ASSUME ConvergeInv, NEW c \in calls, Read(c) PROVE ConvergeInv'
<1>1. Shape /\ CallOK(c) /\ ServerOK
  BY DEF ConvergeInv, Shape
<1>2. calls' = (calls \ {c}) \cup {} /\ UNCHANGED <<store, db, behind>>
  BY DEF Read, Finished
<1>3. /\ \A e \in calls' : CallOK(e)
      /\ Changed \subseteq Changed' \cup {c.id}
      /\ ~c.sent => Changed \subseteq Changed'
      /\ Changed' \subseteq Changed
  BY <1>1, <1>2, GoneCall
<1>4. CASE c.kind \in Lists
  <2> DEFINE ids == SetToSeq(DOMAIN db)
             list == AllProfiles
             a == [call |-> c, list |-> list, late |-> {}]
  <2>1. Sequence(ids) /\ \A i \in 1 .. Len(ids) : ids[i] \in DOMAIN db
    BY <1>1, SetToSeqShape DEF ServerOK
  <2>2. DOMAIN ids = 1 .. Len(ids) /\ Len(ids) \in Nat
    BY <2>1, SequenceIs
  <2>3. list = [i \in 1 .. Len(ids) |-> db[ids[i]]]
    BY <2>2 DEF AllProfiles
  <2> HIDE DEF list, ids
  <2>4. list = [i \in 1 .. Len(ids) |-> list[i]]
    BY <2>3
  <2>5. Sequence(list) /\ Len(list) = Len(ids)
    BY <2>2, <2>4, FunctionIsSequence
  <2>6. \A m \in 1 .. Len(list) : "id" \in DOMAIN list[m] /\ list[m].id \in DOMAIN db /\ list[m] = db[list[m].id]
    BY <1>1, <2>1, <2>3, <2>5 DEF ServerOK
  <2>7. AnswerOK(a) /\ a.late = {} /\ a.list = list
    BY <1>1, <1>4, <2>5, <2>6 DEF AnswerOK, CallOK
  <2>8. answers' = Append(answers, a)
    BY <1>4 DEF Read, Answered, list
  <2>9. Changed' = Changed
    BY <1>1, <1>3, <1>4 DEF CallOK
  <2> HIDE DEF a
  <2>10. \A m \in 1 .. Len(a.list) : a.list[m].id \in DOMAIN db /\ a.list[m] = db[a.list[m].id]
    BY <2>6, <2>7
  <2> QED
    BY <1>2, <1>3, <2>7, <2>8, <2>9, <2>10, ReadKeeps
<1>5. CASE c.kind \notin Lists
  <2> DEFINE list == <<db[c.id]>>
             a == [call |-> c, list |-> list, late |-> {}]
  <2>1. c.id \in DOMAIN db /\ answers' = Append(answers, a)
    BY <1>5 DEF Read, Answered
  <2>2. "id" \in DOMAIN db[c.id] /\ db[c.id].id = c.id
    BY <1>1, <2>1 DEF ServerOK
  <2>3. Sequence(list) /\ Len(list) = 1 /\ list[1] = db[c.id] /\ DOMAIN list = {1}
    BY DEF Sequence
  <2> HIDE DEF list
  <2>4. \A m \in 1 .. Len(list) : m = 1
    BY <2>3
  <2>5. AnswerOK(a) /\ a.late = {} /\ a.list = list /\ a.call.kind = c.kind
    BY <1>1, <1>5, <2>2, <2>3, <2>4 DEF AnswerOK, CallOK
  <2> HIDE DEF a
  <2>6. \A m \in 1 .. Len(a.list) : a.list[m].id \in DOMAIN db /\ a.list[m] = db[a.list[m].id]
    BY <2>1, <2>2, <2>3, <2>4, <2>5
  <2>7. \A i \in Changed \ Changed' : i \in IdsOf(a.list) /\ a.call.kind # "readPrefs"
    <3>1. c.id \in IdsOf(a.list)
      BY <2>2, <2>3, <2>5 DEF IdsOf
    <3> QED
      BY <1>1, <1>3, <2>5, <3>1 DEF CallOK
  <2> QED
    BY <1>2, <1>3, <2>1, <2>5, <2>6, <2>7, ReadKeeps
<1> QED
  BY <1>4, <1>5
-----------------------------------------------------------------------------
(* Navigation, the tabs of the blocklists page and the profile menu *)

\* The handlers and answers after another page was mounted.
Mounted(cs, as) ==
    /\ \A c \in calls' : CallOK(c)
    /\ \A i : i \in Changed' <=> \E c \in cs : c.sent /\ c.id = i
    /\ Sequence(answers') /\ Len(answers') = Len(as)
    /\ \A k \in 1 .. Len(as) :
          /\ AnswerOK(answers'[k])
          /\ answers'[k].list = as[k].list /\ answers'[k].late = as[k].late
          /\ answers'[k].call.kind = as[k].call.kind

Mountable(cs, as) ==
    /\ \A c \in cs : CallOK(c)
    /\ Sequence(as) /\ \A k \in 1 .. Len(as) : AnswerOK(as[k])

\* Mounting a page changes marks alone and asks for the list.
LEMMA MountShape ==
  ASSUME NEW p, NEW cs, NEW as, Mountable(cs, as), Mount(p, cs, as)
  PROVE  Mounted(cs, as)
<1> USE DEF Mountable
<1> DEFINE r == Refetch("revalidate", 0, Null)
<1>1. CallOK(r) /\ ~r.sent
  BY RefetchOK
<1> HIDE DEF r
<1>2. calls' = {[c EXCEPT !.mine = FALSE] : c \in cs} \cup {r}
  BY DEF Mount, r
<1>3. \A c \in cs : LET d == [c EXCEPT !.mine = FALSE] IN CallOK(d) /\ d.sent = c.sent /\ d.id = c.id
  BY MarkedCall
<1>4. \A c \in calls' : CallOK(c)
  BY <1>1, <1>2, <1>3
<1>5. \A i : i \in Changed' <=> \E c \in calls' : c.sent /\ c.id = i
  BY DEF Changed
<1>6. ASSUME NEW i PROVE i \in Changed' <=> \E c \in cs : c.sent /\ c.id = i
  <2>1. ASSUME i \in Changed' PROVE \E c \in cs : c.sent /\ c.id = i
    <3>1. PICK d \in calls' : d.sent /\ d.id = i
      BY <1>5, <2>1
    <3>2. PICK c \in cs : d = [c EXCEPT !.mine = FALSE]
      BY <1>1, <1>2, <3>1
    <3> QED
      BY <1>3, <3>1, <3>2
  <2>2. ASSUME NEW c \in cs, c.sent, c.id = i PROVE i \in Changed'
    BY <1>2, <1>3, <1>5, <2>2
  <2> QED
    BY <2>1, <2>2
<1>7. DOMAIN as = 1 .. Len(as) /\ Len(as) \in Nat
  BY SequenceIs
<1>8. answers' = [k \in 1 .. Len(as) |-> [as[k] EXCEPT !.call = [@ EXCEPT !.mine = FALSE]]]
  BY <1>7 DEF Mount
<1>9. answers' = [k \in 1 .. Len(as) |-> answers'[k]]
  BY <1>8
<1>10. Sequence(answers') /\ Len(answers') = Len(as)
  BY <1>7, <1>9, FunctionIsSequence
<1>11. ASSUME NEW k \in 1 .. Len(as)
       PROVE  /\ AnswerOK(answers'[k])
              /\ answers'[k].list = as[k].list /\ answers'[k].late = as[k].late
              /\ answers'[k].call.kind = as[k].call.kind
  <2>1. AnswerOK(as[k]) /\ answers'[k] = [as[k] EXCEPT !.call = [@ EXCEPT !.mine = FALSE]]
    BY <1>8, <1>11
  <2>2. /\ DOMAIN answers'[k] = {"call", "list", "late"}
        /\ answers'[k].list = as[k].list /\ answers'[k].late = as[k].late
        /\ answers'[k].call = [as[k].call EXCEPT !.mine = FALSE]
    BY <2>1 DEF AnswerOK
  <2>3. DOMAIN answers'[k].call = CallFields /\ answers'[k].call.kind = as[k].call.kind
    BY <2>1, <2>2 DEF AnswerOK, CallFields
  <2> QED
    BY <2>1, <2>2, <2>3 DEF AnswerOK
<1> QED
  BY <1>4, <1>6, <1>10, <1>11 DEF Mounted

\* A link of the navigation.
LEMMA NavigateIdle == ASSUME Shape, NEW name, Navigate(name) PROVE Idle
<1>1. UNCHANGED <<store, db, behind>> /\ \E p : Mount(p, calls, answers)
  BY DEF Navigate
<1>2. PICK p, cs, as : cs = calls /\ as = answers /\ Mount(p, cs, as)
  BY <1>1
<1>3. Mountable(cs, as)
  BY <1>2 DEF Shape, Mountable
<1>4. Mounted(cs, as)
  BY <1>2, <1>3, MountShape
<1>5. \A i : i \in Changed <=> \E c \in calls : c.sent /\ c.id = i
  BY DEF Changed
<1>6. Changed' = Changed
  BY <1>2, <1>4, <1>5 DEF Mounted
<1>7. SameAnswers
  BY <1>2, <1>4 DEF Mounted, SameAnswers
<1> QED
  BY <1>1, <1>4, <1>6, <1>7 DEF Idle, Mounted

\* A tab of the blocklists page.
LEMMA OpenTabIdle == ASSUME Shape, NEW t, OpenTab(t) PROVE Idle
<1>1. /\ calls' = {ServiceGone(c) : c \in calls}
      /\ answers' = [i \in DOMAIN answers |-> [answers[i] EXCEPT !.call = ServiceGone(@)]]
      /\ UNCHANGED <<store, db, behind>>
  BY DEF OpenTab
<1>2. \A c \in calls : CallOK(ServiceGone(c)) /\ ServiceGone(c).sent = c.sent /\ ServiceGone(c).id = c.id
  BY MarkedCall DEF Shape, ServiceGone
<1>3. Changed' = Changed /\ \A d \in calls' : CallOK(d)
  <2>1. \A d \in calls : \E e \in calls' : e.sent = d.sent /\ e.id = d.id
    BY <1>1, <1>2
  <2>2. \A e \in calls' : CallOK(e) /\ (e.sent => \E d \in calls : e.sent = d.sent /\ e.id = d.id)
    BY <1>1, <1>2
  <2> QED
    BY <2>1, <2>2, MarkedCalls
<1>4. SameAnswers
  <2> DEFINE f == [k \in DOMAIN answers |-> ServiceGone(answers[k].call)]
  <2>1. answers' = [k \in DOMAIN answers |-> [answers[k] EXCEPT !.call = f[k]]]
    BY <1>1
  <2>2. \A k \in DOMAIN answers : DOMAIN f[k] = CallFields /\ f[k].kind = answers[k].call.kind
    <3>1. \A k \in DOMAIN answers : DOMAIN answers[k].call = CallFields
      BY SequenceIs DEF Shape, AnswerOK
    <3> QED
      BY <3>1 DEF CallFields, ServiceGone
  <2> HIDE DEF f
  <2> QED
    BY <2>1, <2>2, MarkedAnswers
<1> QED
  BY <1>1, <1>3, <1>4 DEF Idle

\* A profile is created: its id was never used, and the answers under way do not have it.
LEMMA CreatedKeeps == ASSUME ConvergeInv, NEW c \in calls, Created(c) PROVE ConvergeInv'
<1>1. Shape /\ CallOK(c)
  BY DEF ConvergeInv, Shape
<1>2. PICK i, p, cs, as :
        /\ i = Min(Unused) /\ cs = (calls \ {c}) \cup {Refetch("selectListed", i, "create")}
        /\ as = answers /\ Mount(p, cs, as)
        /\ c.kind = "create" /\ Unused # {}
        /\ db' = [j \in DOMAIN db \cup {i} |-> IF j = i THEN NewProfile(i) ELSE db[j]]
        /\ store' = SetActiveProfile(store, NewProfile(i))
        /\ UNCHANGED behind
  BY DEF Created, Accepts
<1>3. i \notin DOMAIN db \cup behind
  <2>1. Unused \in SUBSET Nat
    BY ProfilesAssumption DEF Unused
  <2> QED
    BY <1>2, <2>1, MinIn DEF Unused
<1> DEFINE r == Refetch("selectListed", i, "create")
<1>4. CallOK(r) /\ ~r.sent
  BY RefetchOK
<1>5. cs = (calls \ {c}) \cup {r} /\ as = answers /\ Mount(p, cs, as)
  BY <1>2
<1> HIDE DEF r
<1>6. Mountable(cs, as)
  BY <1>1, <1>4, <1>5 DEF Shape, Mountable
<1>7. Mounted(cs, as)
  BY <1>5, <1>6, MountShape
<1>8. Changed' = Changed
  <2>1. \A j : j \in Changed <=> \E d \in calls : d.sent /\ d.id = j
    BY DEF Changed
  <2>2. ~c.sent
    BY <1>1, <1>2 DEF CallOK, Saves
  <2>3. \A j : (\E d \in cs : d.sent /\ d.id = j) <=> \E d \in calls : d.sent /\ d.id = j
    BY <1>4, <1>5, <2>2
  <2> QED
    BY <1>7, <2>1, <2>3 DEF Mounted
<1> DEFINE x == NewProfile(i)
<1>9. "id" \in DOMAIN x /\ x.id = i
  BY DEF NewProfile
<1>10. /\ db' = [j \in DOMAIN db \cup {i} |-> IF j = i THEN x ELSE db[j]]
       /\ store' = SetActiveProfile(store, x)
  BY <1>2
<1> HIDE DEF x
<1>11. DOMAIN db' = DOMAIN db \cup {i} /\ db'[i] = x /\ \A j \in DOMAIN db : db'[j] = db[j]
  BY <1>3, <1>10
<1>12. SameAnswers /\ \A d \in calls' : CallOK(d)
  BY <1>5, <1>7 DEF Mounted, SameAnswers
<1> QED
  BY <1>2, <1>3, <1>8, <1>9, <1>10, <1>11, <1>12, NewKeeps

\* A renamed profile is marked until the list has come.
LEMMA RenamedKeeps == ASSUME ConvergeInv, NEW c \in calls, Renamed(c) PROVE ConvergeInv'
<1> DEFINE r == Refetch("selectListed", c.id, Null)
           D == {r}
<1>1. /\ c.kind = "rename" /\ Accepts(Head(c.ops), c)
      /\ db' = [db EXCEPT ![c.id] = Serve(Head(c.ops), @)]
      /\ calls' = (calls \ {c}) \cup D /\ Missed(c.id) /\ UNCHANGED store
  BY DEF Renamed
<1>2. \A d \in D : CallOK(d) /\ ~d.sent
  <2>1. CallOK(r) /\ ~r.sent
    BY RefetchOK
  <2> HIDE DEF r
  <2> QED
    BY <2>1
<1>3. c.id \in DOMAIN db
  BY <1>1 DEF Accepts
<1>4. ServerOK' /\ DOMAIN db' = DOMAIN db /\ \A j \in DOMAIN db \ {c.id} : db'[j] = db[j]
  BY <1>1, <1>3, ServerKeeps DEF ConvergeInv, Shape
<1> HIDE DEF D
<1> QED
  BY <1>1, <1>2, <1>4, MissedKeeps

\* A deleted profile is marked, and so is the one the settings page selects next.
LEMMA RemovedKeeps == ASSUME ConvergeInv, NEW c \in calls, Removed(c) PROVE ConvergeInv'
<1> DEFINE i == c.id
           r == Refetch("afterDelete", i, c.extra)
           L == Late(answers, i)
<1>1. Shape /\ CallOK(c) /\ {"profiles", "activeProfile"} \subseteq DOMAIN store
  BY DEF ConvergeInv, Shape
<1>2. CallOK(r) /\ ~r.sent
  BY RefetchOK
<1>3. /\ Sequence(L) /\ Len(L) = Len(answers)
      /\ \A k \in 1 .. Len(answers) :
            /\ AnswerOK(L[k])
            /\ L[k].list = answers[k].list
            /\ L[k].call.kind = answers[k].call.kind
            /\ answers[k].late \cup {i} \subseteq L[k].late
  BY ONLY <1>1, LateShape
<1>4. PICK cs, marked :
        /\ \E p : Mount(p, cs, L)
        /\ cs = calls \ {c} \/ cs = (calls \ {c}) \cup {r}
        /\ behind' = behind \cup marked /\ i \in marked
        /\ {"profiles", "activeProfile"} \subseteq DOMAIN store'
        /\ \A p \in Copies(store') : p \in Copies(store) \/ p.id \in marked
  <2>1. CASE c.kind = "remove"
    <3> DEFINE marked == {i} \cup (IF c.extra = Null THEN {} ELSE {c.extra.id})
    <3>1. /\ Mount(PageInit("setup", store), calls \ {c}, L)
          /\ store' = SetActiveProfile(store, c.extra) /\ behind' = behind \cup marked
      BY <2>1 DEF Removed
    <3>2. LET t == SetActiveProfile(store, c.extra)
          IN /\ {"profiles", "activeProfile"} \subseteq DOMAIN t
             /\ \A p \in Copies(t) : \/ p = c.extra /\ c.extra # Null
                                     \/ p \in Copies(store) /\ (c.extra # Null => p.id # c.extra.id)
      BY ONLY <1>1, ActivateCopies
    <3>3. \A p \in Copies(store') : p \in Copies(store) \/ p.id \in marked
      BY <3>1, <3>2
    <3>4. {"profiles", "activeProfile"} \subseteq DOMAIN store' /\ i \in marked
      BY <3>1, <3>2
    <3> HIDE DEF marked, L
    <3> QED
      BY <3>1, <3>3, <3>4
  <2>2. CASE c.kind = "menuRemove"
    <3>1. /\ Mount(PageInit("setup", store), (calls \ {c}) \cup {r}, L)
          /\ behind' = behind \cup {i} /\ UNCHANGED store
      BY <2>2 DEF Removed
    <3>2. {"profiles", "activeProfile"} \subseteq DOMAIN store' /\ \A p \in Copies(store') : p \in Copies(store)
      BY <1>1, <3>1
    <3> HIDE DEF L, r
    <3> QED
      BY <3>1, <3>2
  <2> QED
    BY <2>1, <2>2 DEF Removed
<1>5. c.kind \in {"remove", "menuRemove"} /\ db' = [j \in DOMAIN db \ {i} |-> db[j]]
  BY DEF Removed
<1>6. ServerOK' /\ DOMAIN db' = DOMAIN db \ {i} /\ \A j \in DOMAIN db' : db'[j] = db[j]
  <2>1. IsFiniteSet(DOMAIN db \ {i})
    BY <1>1, FS_Difference DEF Shape, ServerOK
  <2> QED
    BY <1>1, <1>5, <2>1 DEF Shape, ServerOK
<1>7. ~c.sent
  BY <1>1, <1>5 DEF CallOK, Saves
<1>8. \A d \in cs : CallOK(d)
  BY <1>1, <1>2, <1>4 DEF Shape
<1> HIDE DEF L, r, i
<1>9. PICK p, as : as = L /\ Mount(p, cs, as)
  BY <1>4
<1>10. Mounted(cs, as)
  <2>1. Mountable(cs, as)
    BY <1>3, <1>8, <1>9 DEF Mountable
  <2> QED
    BY <1>9, <2>1, MountShape
<1>11. Changed' = Changed
  <2>1. \A j : (\E d \in cs : d.sent /\ d.id = j) <=> \E d \in calls : d.sent /\ d.id = j
    BY <1>2, <1>4, <1>7
  <2>2. \A j : j \in Changed <=> \E d \in calls : d.sent /\ d.id = j
    BY DEF Changed
  <2> QED
    BY <1>10, <2>1, <2>2 DEF Mounted
<1>12. /\ Sequence(answers') /\ Len(answers') = Len(answers)
       /\ \A k \in 1 .. Len(answers) :
             /\ AnswerOK(answers'[k])
             /\ answers'[k].list = answers[k].list
             /\ answers'[k].call.kind = answers[k].call.kind
             /\ answers[k].late \cup {i} \subseteq answers'[k].late
  BY <1>3, <1>9, <1>10 DEF Mounted
<1>13. {i} \subseteq marked /\ behind' = behind \cup marked
  BY <1>4
<1>14. DOMAIN db' \subseteq DOMAIN db /\ DOMAIN db \subseteq DOMAIN db' \cup {i}
       /\ \A j \in DOMAIN db' \ {i} : db'[j] = db[j]
  BY <1>6
<1>15. \A d \in calls' : CallOK(d)
  BY <1>10 DEF Mounted
<1> QED
  BY <1>4, <1>6, <1>11, <1>12, <1>13, <1>14, <1>15, MarkedKeeps

\* Choosing another profile moves a copy the store already has.
LEMMA SwitchProfileKeeps == ASSUME ConvergeInv, NEW i, SwitchProfile(i) PROVE ConvergeInv'
<1> DEFINE x == store.profiles[i]
<1>1. Shape /\ {"profiles", "activeProfile"} \subseteq DOMAIN store
  BY DEF ConvergeInv, Shape
<1>2. /\ store' = SetActiveProfile(store, x) /\ i \in DOMAIN store.profiles
      /\ UNCHANGED <<calls, answers, db, behind>>
  BY DEF SwitchProfile
<1>3. x \in Copies(store)
  BY <1>2 DEF Copies
<1> HIDE DEF x
<1>4. LET t == SetActiveProfile(store, x)
      IN /\ {"profiles", "activeProfile"} \subseteq DOMAIN t
         /\ \A p \in Copies(t) : \/ p = x /\ x # Null
                                 \/ p \in Copies(store) /\ (x # Null => p.id # x.id)
  BY ONLY <1>1, ActivateCopies
<1>5. {"profiles", "activeProfile"} \subseteq DOMAIN store' /\ \A p \in Copies(store') : p \in Copies(store)
  BY <1>2, <1>3, <1>4
<1>6. \A k \in 1 .. Len(answers) :
         AnswerOK(answers'[k]) /\ answers'[k].list = answers[k].list
         /\ answers'[k].call.kind = answers[k].call.kind
  BY <1>1, <1>2 DEF Shape
<1>7. PICK none : none = {}
  OBVIOUS
<1>8. /\ none \subseteq none /\ behind' = behind \cup none
      /\ \A k \in 1 .. Len(answers) : answers[k].late \cup none \subseteq answers'[k].late
  BY <1>2, <1>7
<1>9. Sequence(answers') /\ Len(answers') = Len(answers) /\ ServerOK'
  BY <1>1, <1>2 DEF Shape, ServerOK
<1>10. /\ Changed' = Changed /\ DOMAIN db' \subseteq DOMAIN db /\ DOMAIN db \subseteq DOMAIN db' \cup none
       /\ \A j \in DOMAIN db' \ none : db'[j] = db[j]
       /\ \A c \in calls' : CallOK(c)
  BY <1>1, <1>2 DEF Shape, Changed
<1> QED
  BY <1>5, <1>6, <1>8, <1>9, <1>10, MarkedKeeps
-----------------------------------------------------------------------------
(* The pages *)

\* A click that starts a handler, or changes the page alone.
Starts ==
    \E kind, ops, revert, extra, p :
        /\ kind \in {"readPrefs"} \cup Lists => ops = << >>
        /\ Start(Handler(kind, ops, revert, extra), p)

Still == UNCHANGED <<store, calls, answers, db, behind>>

\* Clicks of either kind keep the invariant.
LEMMA ClickKeeps == ASSUME ConvergeInv, Starts \/ Still PROVE ConvergeInv'
<1>1. Shape
  BY DEF ConvergeInv
<1>2. CASE Starts
  <2>1. PICK kind, ops, revert, extra, p, c :
          /\ kind \in {"readPrefs"} \cup Lists => ops = << >>
          /\ c = Handler(kind, ops, revert, extra) /\ Start(c, p)
    BY <1>2 DEF Starts
  <2>2. CallOK(c) /\ ~c.sent
    BY <2>1 DEF Handler, CallOK, CallFields
  <2> QED
    BY <1>1, <2>1, <2>2, StartIdle, IdleKeeps
<1>3. CASE Still
  BY <1>1, <1>3, LocalIdle, IdleKeeps DEF Still
<1> QED
  BY <1>2, <1>3

\* One name for the clicks that only start a handler of a kind that reads back.
LEMMA StartsBy ==
  ASSUME NEW kind, kind \notin {"readPrefs"} \cup Lists, NEW ops, NEW revert, NEW extra, NEW p,
         Start(Handler(kind, ops, revert, extra), p)
  PROVE  Starts
BY DEF Starts

\* The blocklists page.
LEMMA BlocklistsKeeps == ASSUME ConvergeInv, BlocklistsNext PROVE ConvergeInv'
<1> USE DEF Lists
<1>1. CASE CatalogArrives \/ ServicesArrive
  BY <1>1, ClickKeeps DEF CatalogArrives, ServicesArrive, Still
<1>2. CASE SortBy \/ ExpandNative \/ \E f : FilterBy(f) \/ FilterServices(f)
  BY <1>2, ClickKeeps DEF SortBy, ExpandNative, FilterBy, FilterServices, Local, Still
<1>3. CASE (\E g : ExpandCategory(g)) \/ \E b \in BOOLEAN : OpenPrefs(b)
  BY <1>3, ClickKeeps DEF ExpandCategory, OpenPrefs, Local, Still
<1>4. CASE ToggleListed
  <2>1. \E ops, p : Start(Handler("all", ops, FALSE, Null), p)
    BY <1>4 DEF ToggleListed
  <2> QED
    BY <2>1, StartsBy, ClickKeeps
<1>5. CASE RebindingToggle
  <2>1. \E ops, p : Start(Handler("rebinding", ops, FALSE, Null), p)
    BY <1>5 DEF RebindingToggle
  <2> QED
    BY <2>1, StartsBy, ClickKeeps
<1>6. ASSUME NEW b, BlocklistSwitch(b) \/ ServiceSwitch(b) PROVE ConvergeInv'
  <2>1. \E ops, p : Start(Handler("switch", ops, FALSE, Null), p) \/ Start(Handler("service", ops, FALSE, Null), p)
    BY <1>6 DEF BlocklistSwitch, ServiceSwitch
  <2> QED
    BY <2>1, StartsBy, ClickKeeps
<1>7. ASSUME NEW g, ToggleNative \/ ToggleCategory(g) PROVE ConvergeInv'
  <2>1. PICK items : CategoryToggle(items)
    BY <1>7 DEF ToggleNative, ToggleCategory
  <2>2. \E ops, p : Start(Handler("category", ops, FALSE, Null), p)
    BY <2>1 DEF CategoryToggle
  <2> QED
    BY <2>2, StartsBy, ClickKeeps
<1>8. ASSUME NEW depth, ApplyBlocklistSet(depth) PROVE ConvergeInv'
  <2>1. \E ops, p : Start(Handler("nrd", ops, FALSE, depth), p)
    BY <1>8 DEF ApplyBlocklistSet
  <2> QED
    BY <2>1, StartsBy, ClickKeeps
<1>9. ASSUME NEW v, ChangePrefs(v) PROVE ConvergeInv'
  <2>1. \E ops, p : Start(Handler("prefs", ops, FALSE, Null), p)
    BY <1>9 DEF ChangePrefs
  <2> QED
    BY <2>1, StartsBy, ClickKeeps
<1>10. CASE FetchPrefs
  <2>1. \E p : Start(Handler("readPrefs", << >>, FALSE, Null), p)
    BY <1>10 DEF FetchPrefs
  <2> QED
    BY <2>1, ClickKeeps DEF Starts
<1>11. CASE \E t : OpenTab(t)
  BY <1>11, OpenTabIdle, IdleKeeps DEF ConvergeInv
<1>12. ASSUME NEW k \in DOMAIN answers, PrefsArrive(k) PROVE ConvergeInv'
  BY <1>12, PrefsArriveKeeps, SequenceIs DEF ConvergeInv, Shape
<1>13. ASSUME NEW c \in calls, PrefsSaved(c) PROVE ConvergeInv'
  BY <1>13, SavedKeeps DEF PrefsSaved
<1> QED
  BY <1>1, <1>2, <1>3, <1>4, <1>5, <1>6, <1>7, <1>8, <1>9, <1>10, <1>11, <1>12, <1>13
  DEF BlocklistsNext

\* The settings page.
LEMMA SettingsKeeps == ASSUME ConvergeInv, SettingsNext PROVE ConvergeInv'
<1> USE DEF Lists
<1>1. ASSUME NEW f, NEW v, NEW b, Change(f, v, b) PROVE ConvergeInv'
  <2>1. \E ops, p : Start(Handler("setting", ops, FALSE, b), p)
    BY <1>1 DEF Change
  <2> QED
    BY <2>1, StartsBy, ClickKeeps
<1>2. CASE DeleteProfile
  <2>1. \E ops, extra, p : Start(Handler("remove", ops, FALSE, extra), p)
    BY <1>2 DEF DeleteProfile
  <2> QED
    BY <2>1, StartsBy, ClickKeeps
<1>3. CASE \E b \in BOOLEAN : DeleteDialog(b)
  BY <1>3, ClickKeeps DEF DeleteDialog, Local, Still
<1>4. ASSUME NEW c \in calls, SettingSaved(c) PROVE ConvergeInv'
  BY <1>4, SavedKeeps DEF SettingSaved
<1> QED
  BY <1>1, <1>2, <1>3, <1>4
  DEF SettingsNext, HandleBlocklistChange, HandleCustomRulesSettingsChange, HandleAdvancedChange,
      HandleRecursorChange

\* The custom rules page.
LEMMA CustomRulesKeeps == ASSUME ConvergeInv, CustomRulesNext PROVE ConvergeInv'
<1> USE DEF Lists
<1>1. ASSUME NEW p, Rerender(p) \/ Local(p) PROVE ConvergeInv'
  BY <1>1, ClickKeeps DEF Rerender, Local, Still
<1>2. ASSUME NEW kind, kind \notin {"readPrefs"} \cup Lists, NEW ops, NEW extra, Busy(kind, ops, extra)
      PROVE  ConvergeInv'
  <2>1. \E p : Start(Handler(kind, ops, FALSE, extra), p)
    BY <1>2 DEF Busy
  <2> QED
    BY <1>2, <2>1, StartsBy, ClickKeeps
<1>3. ASSUME NEW op, GroupOps(op) PROVE ConvergeInv'
  <2>1. \E p : Start(Handler("group", <<op>>, FALSE, Null), p)
    BY <1>3 DEF GroupOps
  <2> QED
    BY <2>1, StartsBy, ClickKeeps
<1>4. ASSUME NEW s, NEW r, NEW group, NEW p, MoveRule(s, r, group, p) PROVE ConvergeInv'
  <2>1. \E ops, extra : Start(Handler("move", ops, TRUE, extra), p)
    BY <1>4 DEF MoveRule
  <2> QED
    BY <2>1, StartsBy, ClickKeeps
<1>5. CASE ComposerSubmit \/ BulkDelete
  <2>1. \E ops, extra : Busy("compose", ops, extra) \/ Busy("bulk", ops, extra)
    BY <1>5 DEF ComposerSubmit, BulkDelete
  <2> QED
    BY <1>2, <2>1
<1>6. CASE EditCancel \/ StartNaming \/ CancelNaming \/ Search \/ \E v : AddToken(v)
  <2>1. \E p : Rerender(p) \/ Local(p)
    BY <1>6 DEF EditCancel, StartNaming, CancelNaming, Search, AddToken
  <2> QED
    BY <1>1, <2>1
<1>7. CASE \/ \E vs : RemoveTokens(vs) \/ Select(vs)
           \/ \E r : DragStart(r) \/ EditOpen(r) \/ ShowTab(r) \/ DragOver(r) \/ DragDrop(r)
  <2>1. \E p : Rerender(p) \/ Local(p)
    BY <1>7 DEF RemoveTokens, Select, DragStart, EditOpen, ShowTab, DragOver, DragDrop
  <2> QED
    BY <1>1, <2>1
<1>8. ASSUME NEW r, EntryDelete(r) PROVE ConvergeInv'
  <2>1. \E ops, p : Start(Handler("deleteTimer", ops, FALSE, Null), p)
    BY <1>8 DEF EntryDelete
  <2> QED
    BY <2>1, StartsBy, ClickKeeps
<1>9. ASSUME NEW o, DragEnd(o) PROVE ConvergeInv'
  <2>1. \E s, r, group, p, ops, extra :
           \/ MoveRule(s, r, group, p)
           \/ Start(Handler("reorder", ops, TRUE, extra), p)
           \/ Local(p)
    BY <1>9 DEF DragEnd
  <2>2. ASSUME NEW ops, NEW extra, NEW p, Start(Handler("reorder", ops, TRUE, extra), p)
        PROVE  ConvergeInv'
    BY <2>2, StartsBy, ClickKeeps
  <2> QED
    BY <1>1, <1>4, <2>1, <2>2
<1>10. ASSUME NEW list, NEW g, EditSave(list, g) PROVE ConvergeInv'
  <2>1. \E p, ops : Rerender(p) \/ Busy("edit", ops, Null)
    BY <1>10 DEF EditSave
  <2> QED
    BY <1>1, <1>2, <2>1
<1>11. ASSUME NEW g, CreateGroup(g) PROVE ConvergeInv'
  <2>1. \E ops, p : Start(Handler("group", ops, FALSE, Null), p)
    BY <1>11 DEF CreateGroup
  <2> QED
    BY <2>1, StartsBy, ClickKeeps
<1>12. ASSUME NEW g, NEW h, DeleteGroup(g) \/ SaveGroupNote(g) \/ RenameGroup(g, h) PROVE ConvergeInv'
  <2>1. \E op : GroupOps(op)
    BY <1>12 DEF DeleteGroup, SaveGroupNote, RenameGroup
  <2> QED
    BY <1>3, <2>1
<1>13. ASSUME NEW i, NEW j, ReorderGroups(i, j) PROVE ConvergeInv'
  <2>1. \E ops, p : Start(Handler("reorderGroups", ops, TRUE, Null), p)
    BY <1>13 DEF ReorderGroups
  <2> QED
    BY <2>1, StartsBy, ClickKeeps
<1>14. ASSUME NEW g, NameDropped(g) PROVE ConvergeInv'
  <2>1. \E s, r, p : MoveRule(s, r, g, p)
    BY <1>14 DEF NameDropped
  <2> QED
    BY <1>4, <2>1
<1>15. ASSUME NEW c \in calls, ComposerAnswered(c) \/ DeleteFires(c) \/ BulkPartly(c) PROVE ConvergeInv'
  BY <1>15, ComposerKeeps, DeleteFiresIdle, IdleKeeps, BulkPartlyKeeps DEF ConvergeInv
<1> QED
  BY <1>5, <1>6, <1>7, <1>8, <1>9, <1>10, <1>11, <1>12, <1>13, <1>14, <1>15 DEF CustomRulesNext

\* The dialogs of the profile menu.
LEMMA MenuKeeps == ASSUME ConvergeInv, MenuSteps PROVE ConvergeInv'
<1>1. ASSUME NEW m, MenuLocal(m) PROVE ConvergeInv'
  BY <1>1, ClickKeeps DEF MenuLocal, Still
<1>2. ASSUME NEW d, OpenMenuDialog(d) \/ OpenMenuDelete \/ CloseMenuDialog PROVE ConvergeInv'
  <2>1. \E m : MenuLocal(m)
    BY <1>2 DEF OpenMenuDialog, OpenMenuDelete, CloseMenuDialog
  <2> QED
    BY <1>1, <2>1
<1>3. ASSUME NEW kind, kind \notin {"readPrefs"} \cup Lists, NEW ops, NEW extra, NEW i,
             MenuStart(Handler(kind, ops, FALSE, extra))
             \/ MenuStart([Handler(kind, ops, FALSE, extra) EXCEPT !.id = i])
      PROVE  ConvergeInv'
  <2>1. PICK c : /\ \/ c = [Handler(kind, ops, FALSE, extra) EXCEPT !.mine = FALSE]
                    \/ c = [[Handler(kind, ops, FALSE, extra) EXCEPT !.id = i] EXCEPT !.mine = FALSE]
                 /\ Start(c, page)
    BY <1>3 DEF MenuStart
  <2>2. CallOK(c) /\ ~c.sent
    BY <1>3, <2>1 DEF Handler, CallOK, CallFields
  <2>3. PICK p : p = page
    OBVIOUS
  <2> QED
    BY <2>1, <2>2, <2>3, StartIdle, IdleKeeps DEF ConvergeInv
<1>4. CASE CreateSubmit \/ RenameSubmit \/ MenuDeleteSubmit
  <2>1. \E ops, extra, i :
           \/ MenuStart(Handler("create", ops, FALSE, extra))
           \/ MenuStart([Handler("rename", ops, FALSE, extra) EXCEPT !.id = i])
           \/ MenuStart([Handler("menuRemove", ops, FALSE, extra) EXCEPT !.id = i])
    BY <1>4 DEF CreateSubmit, RenameSubmit, MenuDeleteSubmit
  <2> QED
    BY <1>3, <2>1 DEF Lists
<1> QED
  BY <1>2, <1>4, SwitchProfileKeeps, CreatedKeeps, RenamedKeeps, RemovedKeeps DEF MenuSteps
-----------------------------------------------------------------------------
(* The theorem *)

\* The store of a page load has the server's profiles.
LEMMA ConvergeInit == Init => ConvergeInv
<1> SUFFICES ASSUME Init PROVE ConvergeInv
  OBVIOUS
<1> DEFINE Ids0 == {p.id : p \in Profiles}
           ids == SetToSeq(Ids0)
           Of(i) == CHOOSE p \in Profiles : p.id = i
<1>1. db = [i \in Ids0 |-> Of(i)] /\ calls = {} /\ answers = << >> /\ behind = {}
  BY DEF Init
<1>2. \A i \in Ids0 : Of(i) \in Profiles /\ Of(i).id = i
  OBVIOUS
<1>3. PICK s : store = [FreshStore(ByOrder[1]) EXCEPT !.profiles = ByOrder, !.subscriptionStatus = s]
  BY DEF Init
<1>4. /\ {"profiles", "activeProfile"} \subseteq DOMAIN store
      /\ store.profiles = ByOrder /\ store.activeProfile = ByOrder[1]
  BY <1>3 DEF FreshStore
<1>5. ServerOK
  BY <1>1, <1>2, ProfilesAssumption DEF ServerOK
<1>6. \A p \in Copies(store) : p.id \in DOMAIN db /\ p = db[p.id]
  <2>1. Sequence(ids) /\ \A i \in 1 .. Len(ids) : ids[i] \in Ids0
    BY ProfilesAssumption, SetToSeqShape
  <2>2. DOMAIN ids = 1 .. Len(ids) /\ Len(ids) \in Nat
    BY <2>1, SequenceIs
  <2>3. 1 \in DOMAIN ids
    <3>1. Len(ids) = Cardinality(Ids0) /\ Ids0 # {} /\ IsFiniteSet(Ids0)
      BY ProfilesAssumption, SetToSeqShape
    <3> HIDE DEF ids, Ids0
    <3>2. Cardinality(Ids0) # 0
      BY <3>1, FS_EmptySet
    <3> QED
      BY <2>2, <3>1, <3>2
  <2>4. ByOrder = [i \in DOMAIN ids |-> Of(ids[i])]
    BY DEF ByOrder
  <2> HIDE DEF ids, Of, Ids0
  <2>5. \A i \in DOMAIN ids : ByOrder[i].id \in DOMAIN db /\ ByOrder[i] = db[ByOrder[i].id]
    BY <1>1, <1>2, <2>1, <2>2, <2>4
  <2> QED
    BY <1>4, <2>2, <2>3, <2>4, <2>5 DEF Copies
<1>7. Len(answers) = 0 /\ Sequence(answers)
  BY <1>1 DEF Sequence
<1>8. Changed = {}
  BY <1>1 DEF Changed
<1>9. Shape
  BY <1>1, <1>4, <1>5, <1>7 DEF Shape
<1>10. Gone
  BY <1>6, <1>7, <1>8 DEF Gone
<1>11. Tracked
  BY <1>6, <1>7 DEF Tracked, UpToDate
<1> QED
  BY <1>9, <1>10, <1>11 DEF ConvergeInv

\* Every step keeps the invariant.
LEMMA ConvergeStep == NullHasNoId /\ ConvergeInv /\ [Next]_pageVars => ConvergeInv'
<1> SUFFICES ASSUME NullHasNoId, ConvergeInv, [Next]_pageVars PROVE ConvergeInv'
  OBVIOUS
<1>1. ASSUME NEW c \in calls, Served(c) \/ Read(c) PROVE ConvergeInv'
  BY <1>1, ServedKeeps, ReadStepKeeps
<1>2. CASE PageSteps
  BY <1>1, <1>2, BlocklistsKeeps, CustomRulesKeeps, SettingsKeeps DEF PageSteps
<1>3. CASE MenuSteps
  BY <1>3, MenuKeeps
<1>4. CASE \E name \in Pages : Navigate(name)
  BY <1>4, NavigateIdle, IdleKeeps DEF ConvergeInv
<1>5. ASSUME NEW k \in DOMAIN answers, Deliver(k) PROVE ConvergeInv'
  <2>1. k \in 1 .. Len(answers)
    BY SequenceIs DEF ConvergeInv, Shape
  <2>2. answers[k].call.kind # "readPrefs" /\ \E p : Delivered(k, p)
    BY <1>5 DEF Deliver
  <2> QED
    BY <2>1, <2>2, DeliveredKeeps
<1>6. ASSUME NEW c \in calls, Fail(c) PROVE ConvergeInv'
  <2>1. \E p : Fails(c, p)
    BY <1>6 DEF Fail
  <2> QED
    BY <2>1, FailsKeeps
<1>7. CASE UNCHANGED pageVars
  BY <1>7, ClickKeeps DEF pageVars, Still
<1> QED
  BY <1>2, <1>3, <1>4, <1>5, <1>6, <1>7 DEF Next

\* With nothing in flight no change is unread and no answer under way.
LEMMA QuietConverges == ConvergeInv => Converges
<1> SUFFICES ASSUME ConvergeInv, Quiet, NEW p \in Copies(store), p.id \in DOMAIN db \ behind
             PROVE  p = db[p.id]
  BY DEF Converges, Copies, Active
<1>1. Changed = {} /\ Len(answers) = 0
  BY DEF Quiet, Changed
<1>2. UpToDate(p.id)
  BY <1>1 DEF ConvergeInv, Tracked
<1> QED
  BY <1>1, <1>2 DEF UpToDate

\* Once nothing is in flight every copy of a profile in the store is the server's, unless
\* an answer is known to have overtaken a newer one or a change was never read back: the
\* handlers that read a profile back after their changes, in whatever order their answers
\* arrive, leave the list and the active profile of the store (setActiveProfile) right.
THEOREM StoreConverges == ASSUME NullHasNoId PROVE Spec => []Converges
<1>1. Init => ConvergeInv
  BY ConvergeInit
<1>2. ConvergeInv /\ [Next]_pageVars => ConvergeInv'
  BY ConvergeStep
<1>3. ConvergeInv => Converges
  BY QuietConverges
<1> QED
  BY <1>1, <1>2, <1>3, PTL DEF Spec
-----------------------------------------------------------------------------
(* Handlers that run alone *)

\* The loader's reads belong to no page and never run alone.
Waits(d) == d.kind = "revalidate" => ~d.alone /\ ~d.mine

\* Beside a handler that runs alone, waiting or with its answer under way, there are only
\* reads of the loader.
SoloOf(cs, as) ==
    /\ \A c \in cs : Waits(c)
    /\ \A k \in 1 .. Len(as) : Waits(as[k].call)
    /\ \A c \in cs : c.alone =>
          /\ \A d \in cs : d = c \/ d.kind = "revalidate"
          /\ \A k \in 1 .. Len(as) : as[k].call.kind = "revalidate"
    /\ \A k \in 1 .. Len(as) : as[k].call.alone =>
          /\ \A d \in cs : d.kind = "revalidate"
          /\ \A m \in 1 .. Len(as) : m = k \/ as[m].call.kind = "revalidate"

Solo == SoloOf(calls, answers)

\* d is handler c, possibly no longer on its page or alone.
Lowered(c, d) ==
    /\ \A f \in CallFields \ {"alone", "mine"} : d[f] = c[f]
    /\ d.alone => c.alone
    /\ d.mine => c.mine

\* Handler d takes the place of c.
Follows(c, d) ==
    /\ Waits(d)
    /\ d.alone => c.alone
    /\ c.kind = "revalidate" => d.kind = "revalidate"

\* The answers are those of the same handlers or of what follows them.
AllFollow(as, bs) == Len(bs) = Len(as) /\ \A k \in 1 .. Len(as) : Follows(as[k].call, bs[k].call)

\* Handlers F puts in the place of others, and reads of the loader.
Replaces(cs, F) == \A c \in cs : Follows(c, F[c])
Reads(R) == \A r \in R : r.kind = "revalidate" /\ Waits(r)
NoneAlone(cs, F, bs) ==
    (\A c \in cs : ~F[c].alone) /\ \A k \in 1 .. Len(bs) : ~bs[k].call.alone
Image(F, cs) == {F[c] : c \in cs}

\* A handler that lost a mark follows the one that had it.
LEMMA LoweredFollows == ASSUME NEW c, NEW d, Waits(c), Lowered(c, d) PROVE Follows(c, d)
BY DEF Waits, Lowered, Follows, CallFields

\* Handlers that lose marks, and reads of the loader.
LEMMA SoloMarked ==
  ASSUME NEW cs, NEW as, SoloOf(cs, as), NEW F, Replaces(cs, F),
         NEW R, Reads(R), NEW bs, AllFollow(as, bs)
  PROVE  SoloOf(Image(F, cs) \cup R, bs)
<1> DEFINE ds == Image(F, cs) \cup R
<1>1. \A d \in ds : (\E c \in cs : d = F[c] /\ Follows(c, d)) \/ (d.kind = "revalidate" /\ Waits(d))
  BY DEF Replaces, Reads, Image
<1>2. \A d \in ds : Waits(d)
  BY <1>1 DEF Follows
<1>3. \A k \in 1 .. Len(bs) : Waits(bs[k].call)
  BY DEF AllFollow, Follows
<1>4. ASSUME NEW d \in ds, d.alone
      PROVE  /\ \A e \in ds : e = d \/ e.kind = "revalidate"
             /\ \A k \in 1 .. Len(bs) : bs[k].call.kind = "revalidate"
  <2>1. PICK c \in cs : d = F[c] /\ c.alone
    BY <1>1, <1>4 DEF Follows, Waits
  <2>2. /\ \A e \in cs : e = c \/ e.kind = "revalidate"
        /\ \A k \in 1 .. Len(as) : as[k].call.kind = "revalidate"
    BY <2>1 DEF SoloOf
  <2> HIDE DEF ds
  <2> QED
    BY <1>1, <2>1, <2>2 DEF Follows, AllFollow
<1>5. ASSUME NEW k \in 1 .. Len(bs), bs[k].call.alone
      PROVE  /\ \A d \in ds : d.kind = "revalidate"
             /\ \A m \in 1 .. Len(bs) : m = k \/ bs[m].call.kind = "revalidate"
  <2>1. k \in 1 .. Len(as) /\ as[k].call.alone
    BY <1>5 DEF AllFollow, Follows
  <2>2. /\ \A d \in cs : d.kind = "revalidate"
        /\ \A m \in 1 .. Len(as) : m = k \/ as[m].call.kind = "revalidate"
    BY <2>1 DEF SoloOf
  <2> HIDE DEF ds
  <2> QED
    BY <1>1, <2>2 DEF Follows, AllFollow
<1> HIDE DEF ds
<1>6. SoloOf(ds, bs)
  BY <1>2, <1>3, <1>4, <1>5 DEF SoloOf
<1> QED
  BY <1>6 DEF ds

\* A handler makes way for at most one that follows it.
LEMMA SoloReplaced ==
  ASSUME NEW cs, NEW as, SoloOf(cs, as), NEW c \in cs,
         NEW D, \A d \in D : Follows(c, d), \A d, e \in D : d = e,
         NEW bs, AllFollow(as, bs)
  PROVE  SoloOf((cs \ {c}) \cup D, bs)
<1> DEFINE ds == (cs \ {c}) \cup D
<1>1. \A d \in ds : \/ d \in cs /\ d # c
                    \/ d \in D /\ Follows(c, d)
  OBVIOUS
<1> HIDE DEF ds
<1>2. \A d \in ds : Waits(d)
  BY <1>1 DEF Follows, SoloOf
<1>3. \A k \in 1 .. Len(bs) : Waits(bs[k].call)
  BY DEF AllFollow, Follows
<1>4. ASSUME NEW d \in ds, d.alone
      PROVE  /\ \A e \in ds : e = d \/ e.kind = "revalidate"
             /\ \A k \in 1 .. Len(bs) : bs[k].call.kind = "revalidate"
  <2>1. PICK b \in cs : b.alone /\ (b = d \/ b = c) /\ (b = c => d \in D)
    BY <1>1, <1>4 DEF Follows
  <2>2. /\ \A e \in cs : e = b \/ e.kind = "revalidate"
        /\ \A k \in 1 .. Len(as) : as[k].call.kind = "revalidate"
    BY <2>1 DEF SoloOf
  <2>3. \A e \in ds : e = d \/ e.kind = "revalidate"
    BY <1>1, <2>1, <2>2 DEF Follows
  <2> QED
    BY <2>2, <2>3 DEF Follows, AllFollow
<1>5. ASSUME NEW k \in 1 .. Len(bs), bs[k].call.alone
      PROVE  /\ \A d \in ds : d.kind = "revalidate"
             /\ \A m \in 1 .. Len(bs) : m = k \/ bs[m].call.kind = "revalidate"
  <2>1. k \in 1 .. Len(as) /\ as[k].call.alone
    BY <1>5 DEF AllFollow, Follows
  <2>2. /\ \A d \in cs : d.kind = "revalidate"
        /\ \A m \in 1 .. Len(as) : m = k \/ as[m].call.kind = "revalidate"
    BY <2>1 DEF SoloOf
  <2> QED
    BY <1>1, <2>2 DEF Follows, AllFollow
<1>6. SoloOf(ds, bs)
  BY <1>2, <1>3, <1>4, <1>5 DEF SoloOf
<1> QED
  BY <1>6 DEF ds

\* The answer of handler c is the newest under way.
Joined(as, c, bs) ==
    /\ Len(as) \in Nat /\ Len(bs) = Len(as) + 1 /\ bs[Len(as) + 1].call = c
    /\ \A k \in 1 .. Len(as) : bs[k] = as[k]

\* The answer of a handler that waited is under way.
LEMMA SoloRead ==
  ASSUME NEW cs, NEW as, SoloOf(cs, as), NEW c \in cs, NEW bs, Joined(as, c, bs)
  PROVE  SoloOf(cs \ {c}, bs)
<1> USE DEF Joined
<1> DEFINE n == Len(as)
<1>1. \A k \in 1 .. Len(bs) : (k \in 1 .. n /\ bs[k] = as[k]) \/ (k = n + 1 /\ bs[k].call = c)
  <2>1. \A m \in Nat : \A k \in 1 .. m + 1 : k \in 1 .. m \/ k = m + 1
    OBVIOUS
  <2> QED
    BY <2>1
<1>2. \A k \in 1 .. Len(bs) : Waits(bs[k].call)
  BY <1>1 DEF SoloOf
<1>3. ASSUME NEW d \in cs \ {c}, d.alone
      PROVE  /\ \A e \in cs \ {c} : e = d \/ e.kind = "revalidate"
             /\ \A k \in 1 .. Len(bs) : bs[k].call.kind = "revalidate"
  BY <1>1, <1>3 DEF SoloOf
<1>4. ASSUME NEW k \in 1 .. Len(bs), bs[k].call.alone
      PROVE  /\ \A d \in cs \ {c} : d.kind = "revalidate"
             /\ \A m \in 1 .. Len(bs) : m = k \/ bs[m].call.kind = "revalidate"
  <2>1. CASE k \in 1 .. n
    <3>1. /\ \A d \in cs : d.kind = "revalidate"
          /\ \A m \in 1 .. n : m = k \/ as[m].call.kind = "revalidate"
      BY <1>1, <1>4, <2>1 DEF SoloOf
    <3> QED
      BY <1>1, <3>1
  <2>2. CASE k = n + 1
    <3>1. /\ \A d \in cs : d = c \/ d.kind = "revalidate"
          /\ \A m \in 1 .. n : as[m].call.kind = "revalidate"
      BY <1>1, <1>4, <2>2 DEF SoloOf
    <3> QED
      BY <1>1, <2>2, <3>1
  <2> QED
    BY <1>1, <2>1, <2>2
<1> QED
  BY <1>2, <1>3, <1>4 DEF SoloOf

\* Answer k is no longer under way.
LEMMA SoloDropped ==
  ASSUME NEW cs, NEW as, SoloOf(cs, as), Len(as) \in Nat, NEW k \in 1 .. Len(as),
         NEW bs, Len(bs) = Len(as) - 1,
         \A j \in 1 .. Len(as) - 1 : bs[j].call = as[Before(j, k)].call
  PROVE  SoloOf(cs, bs)
<1>1. \A j \in 1 .. Len(bs) : Before(j, k) \in 1 .. Len(as) /\ bs[j].call = as[Before(j, k)].call
  <2>1. \A m \in Nat : \A i \in 1 .. m : \A j \in 1 .. m - 1 : Before(j, i) \in 1 .. m
    BY DEF Before
  <2> QED
    BY <2>1
<1>2. ASSUME NEW i \in 1 .. Len(bs), NEW j \in 1 .. Len(bs), i # j
      PROVE  Before(i, k) # Before(j, k)
  <2>1. i \in Int /\ j \in Int /\ k \in Int
    OBVIOUS
  <2> QED
    BY <1>2, <2>1 DEF Before
<1>3. \A j \in 1 .. Len(bs) : Waits(bs[j].call)
  BY <1>1 DEF SoloOf
<1>4. ASSUME NEW d \in cs, d.alone
      PROVE  /\ \A e \in cs : e = d \/ e.kind = "revalidate"
             /\ \A j \in 1 .. Len(bs) : bs[j].call.kind = "revalidate"
  BY <1>1, <1>4 DEF SoloOf
<1>5. ASSUME NEW j \in 1 .. Len(bs), bs[j].call.alone
      PROVE  /\ \A d \in cs : d.kind = "revalidate"
             /\ \A m \in 1 .. Len(bs) : m = j \/ bs[m].call.kind = "revalidate"
  <2>1. /\ \A d \in cs : d.kind = "revalidate"
        /\ \A m \in 1 .. Len(as) : m = Before(j, k) \/ as[m].call.kind = "revalidate"
    BY <1>1, <1>5 DEF SoloOf
  <2>2. ASSUME NEW m \in 1 .. Len(bs), m # j PROVE bs[m].call.kind = "revalidate"
    <3>1. Before(m, k) # Before(j, k)
      BY <1>2, <2>2
    <3> QED
      BY <1>1, <2>1, <3>1
  <2> QED
    BY <1>1, <2>1, <2>2
<1> QED
  BY <1>3, <1>4, <1>5 DEF SoloOf

\* A handler starts beside others, which are no longer alone, or by itself.
LEMMA SoloStarted ==
  ASSUME NEW cs, NEW as, SoloOf(cs, as), NEW F,
         Replaces(cs, F), NEW bs, AllFollow(as, bs), NoneAlone(cs, F, bs),
         NEW h, Waits(h), h.alone => cs = {} /\ Len(as) = 0
  PROVE  SoloOf(Image(F, cs) \cup {h}, bs)
<1> DEFINE ds == Image(F, cs) \cup {h}
<1>1. \A d \in ds : (\E c \in cs : d = F[c]) \/ d = h
  BY DEF Image
<1> HIDE DEF ds
<1>2. \A d \in ds : Waits(d) /\ (d.alone => d = h)
  BY <1>1 DEF Replaces, Follows, NoneAlone
<1>3. \A k \in 1 .. Len(bs) : Waits(bs[k].call) /\ ~bs[k].call.alone
  BY DEF AllFollow, Follows, NoneAlone
<1>4. \A d \in ds : d.alone => Len(bs) = 0 /\ \A e \in ds : e = d
  BY <1>1, <1>2 DEF AllFollow
<1>5. SoloOf(ds, bs)
  BY <1>2, <1>3, <1>4 DEF SoloOf
<1> QED
  BY <1>5 DEF ds

\* No handler of a kind among ds, nor its answer in bs, is new.
NoneNewOf(kind, cs, as, ds, bs) ==
    /\ \A d \in ds : d.kind = kind => \E c \in cs : Lowered(c, d)
    /\ \A k \in 1 .. Len(bs) : bs[k].call.kind = kind =>
          \E m \in 1 .. Len(as) : Lowered(as[m].call, bs[k].call)

NoneNew(kind) == NoneNewOf(kind, calls, answers, calls', answers')

\* The answers under way have the handlers they had.
KeptOf(as, bs) == Len(bs) = Len(as) /\ \A k \in 1 .. Len(as) : bs[k].call = as[k].call

\* A handler that is left as it is follows itself.
LEMMA KeptFollow ==
  ASSUME NEW cs, NEW as, SoloOf(cs, as), NEW bs, KeptOf(as, bs) PROVE AllFollow(as, bs)
BY DEF SoloOf, KeptOf, AllFollow, Follows, Waits

\* Nothing happens to the handlers.
LEMMA StillSolo == ASSUME Solo, UNCHANGED <<calls, answers>> PROVE Solo' /\ \A kind : NoneNew(kind)
<1>1. Solo'
  BY DEF Solo, SoloOf, Waits
<1>2. \A c : Lowered(c, c)
  BY DEF Lowered
<1> QED
  BY <1>1, <1>2 DEF NoneNew, NoneNewOf

\* A handler makes way for at most one, in calls'.
LEMMA StepReplaced ==
  ASSUME Solo, NEW c \in calls, NEW D, \A d \in D : Follows(c, d), \A d, e \in D : d = e,
         calls' = (calls \ {c}) \cup D, KeptOf(answers, answers')
  PROVE  Solo' /\ \A kind : (\A d \in D : d.kind # kind) => NoneNew(kind)
<1>1. PICK cs, as, bs : cs = calls /\ as = answers /\ bs = answers'
  OBVIOUS
<1>2. SoloOf(cs, as) /\ c \in cs /\ AllFollow(as, bs)
  BY <1>1, KeptFollow DEF Solo
<1>3. SoloOf((cs \ {c}) \cup D, bs)
  BY <1>2, SoloReplaced
<1>4. Solo'
  <2>1. calls' = (cs \ {c}) \cup D /\ answers' = bs
    BY <1>1
  <2> QED
    BY <1>3, <2>1 DEF Solo
<1>5. \A x : Lowered(x, x)
  BY DEF Lowered
<1>6. ASSUME NEW kind, \A d \in D : d.kind # kind PROVE NoneNew(kind)
  <2>1. \A d \in calls' : d.kind = kind => d \in calls
    BY <1>6
  <2>2. \A k \in 1 .. Len(answers') : k \in 1 .. Len(answers) /\ answers'[k].call = answers[k].call
    BY DEF KeptOf
  <2> QED
    BY <1>5, <2>1, <2>2 DEF NoneNew, NoneNewOf
<1> QED
  BY <1>4, <1>6

\* A handler ends.
LEMMA StepFinished ==
  ASSUME Solo, NEW c \in calls, calls' = calls \ {c}, KeptOf(answers, answers')
  PROVE  Solo' /\ \A kind : NoneNew(kind)
<1>1. PICK D : D = {}
  OBVIOUS
<1>2. /\ calls' = (calls \ {c}) \cup D
      /\ \A d \in D : Follows(c, d)
      /\ \A d, e \in D : d = e
  BY <1>1
<1>3. Solo' /\ \A kind : (\A d \in D : d.kind # kind) => NoneNew(kind)
  BY <1>2, StepReplaced
<1> QED
  BY <1>1, <1>3

\* A handler becomes another.
LEMMA StepBecomes ==
  ASSUME Solo, NEW c \in calls, NEW d, Follows(c, d),
         calls' = (calls \ {c}) \cup {d}, KeptOf(answers, answers')
  PROVE  Solo' /\ \A kind : d.kind # kind => NoneNew(kind)
<1>1. PICK D : D = {d}
  OBVIOUS
<1>2. /\ calls' = (calls \ {c}) \cup D
      /\ \A x \in D : Follows(c, x)
      /\ \A x, e \in D : x = e
  BY <1>1
<1>3. Solo' /\ \A kind : (\A x \in D : x.kind # kind) => NoneNew(kind)
  BY <1>2, StepReplaced
<1> QED
  BY <1>1, <1>3

\* The marks of a handler.
LEMMA MarkedLowered ==
  ASSUME NEW c, CallOK(c)
  PROVE  /\ Lowered(c, [c EXCEPT !.alone = FALSE]) /\ ~[c EXCEPT !.alone = FALSE].alone
         /\ Lowered(c, [c EXCEPT !.mine = FALSE]) /\ ~[c EXCEPT !.mine = FALSE].mine
         /\ Lowered(c, ServiceGone(c))
BY DEF CallOK, CallFields, Lowered, ServiceGone

\* Unread changes leave the handlers of answers alone.
LEMMA LateKept == ASSUME Shape, NEW i, answers' = Late(answers, i) PROVE KeptOf(answers, answers')
<1>1. LET L == Late(answers, i)
      IN Len(L) = Len(answers) /\ \A k \in 1 .. Len(answers) : L[k].call = answers[k].call
  BY LateShape
<1> QED
  BY <1>1 DEF KeptOf

\* The answers bs have the handlers f, which are those of as but for a mark.
Relabelled(as, f, bs) ==
    /\ \A k \in 1 .. Len(as) : Lowered(as[k].call, f[k])
    /\ bs = [k \in DOMAIN as |-> [as[k] EXCEPT !.call = f[k]]]

AnswersOK(as) ==
    /\ DOMAIN as = 1 .. Len(as) /\ Len(as) \in Nat
    /\ \A k \in 1 .. Len(as) : AnswerOK(as[k])

HandledBy(as, f, bs) == \A k \in 1 .. Len(as) : bs[k].call = f[k]

\* A mark on the handlers of the answers under way.
LEMMA MarkedFollow ==
  ASSUME NEW cs, NEW as, SoloOf(cs, as), AnswersOK(as), NEW f, NEW bs, Relabelled(as, f, bs)
  PROVE  AllFollow(as, bs) /\ HandledBy(as, f, bs)
<1>1. bs = [k \in 1 .. Len(as) |-> bs[k]] /\ Len(as) \in Nat
  BY DEF AnswersOK, Relabelled
<1>2. Len(bs) = Len(as)
  BY <1>1, FunctionIsSequence
<1>3. HandledBy(as, f, bs)
  BY DEF AnswersOK, AnswerOK, Relabelled, HandledBy
<1>4. ASSUME NEW k \in 1 .. Len(as) PROVE Follows(as[k].call, bs[k].call)
  <2>1. Waits(as[k].call)
    BY DEF SoloOf
  <2>2. Lowered(as[k].call, f[k])
    BY DEF Relabelled
  <2>3. Follows(as[k].call, f[k])
    BY <2>1, <2>2, LoweredFollows
  <2> QED
    BY <1>3, <2>3 DEF HandledBy
<1> QED
  BY <1>2, <1>3, <1>4 DEF AllFollow

\* A handler starts.
LEMMA StepStarts ==
  ASSUME Shape, Solo, NEW h, h.kind # "revalidate", h.alone => Quiet, NEW p, Start(h, p)
  PROVE  Solo' /\ \A kind : NoneNewOf(kind, calls, answers, calls' \ {h}, answers')
<1>1. /\ calls' = {[d EXCEPT !.alone = FALSE] : d \in calls} \cup {h}
      /\ answers' = [i \in DOMAIN answers |->
                        [answers[i] EXCEPT !.call = [@ EXCEPT !.alone = FALSE]]]
  BY DEF Start
<1>2. PICK cs, as, bs, F, f :
        /\ cs = calls /\ as = answers /\ bs = answers'
        /\ F = [d \in calls |-> [d EXCEPT !.alone = FALSE]]
        /\ f = [k \in DOMAIN answers |-> [answers[k].call EXCEPT !.alone = FALSE]]
  OBVIOUS
<1>3. SoloOf(cs, as)
  BY <1>2 DEF Solo
<1>4. AnswersOK(as)
  BY <1>2, SequenceIs DEF Shape, AnswersOK
<1>5. \A c \in cs : Follows(c, F[c]) /\ ~F[c].alone /\ Lowered(c, F[c])
  <2>1. \A c \in calls : CallOK(c) /\ Waits(c)
    BY DEF Shape, Solo, SoloOf
  <2>2. \A c \in cs : Lowered(c, F[c]) /\ ~F[c].alone /\ Waits(c)
    BY <1>2, <2>1, MarkedLowered
  <2> QED
    BY <2>2, LoweredFollows
<1>6. \A k \in 1 .. Len(as) : Lowered(as[k].call, f[k]) /\ ~f[k].alone
  <2>1. \A k \in 1 .. Len(as) : f[k] = [as[k].call EXCEPT !.alone = FALSE]
    BY <1>2, <1>4 DEF AnswersOK
  <2>2. ASSUME NEW k \in 1 .. Len(as) PROVE f[k].alone = FALSE /\ Lowered(as[k].call, f[k])
    <3>1. DOMAIN as[k].call = CallFields /\ f[k] = [as[k].call EXCEPT !.alone = FALSE]
      BY <1>4, <2>1 DEF AnswersOK, AnswerOK
    <3> QED
      BY <3>1 DEF CallFields, Lowered
  <2> QED
    BY <2>2
<1>7. Relabelled(as, f, bs)
  <2>1. bs = [k \in DOMAIN as |-> [as[k] EXCEPT !.call = f[k]]]
    BY <1>1, <1>2
  <2> QED
    BY <1>6, <2>1 DEF Relabelled
<1>8. AllFollow(as, bs) /\ HandledBy(as, f, bs)
  BY <1>3, <1>4, <1>7, MarkedFollow
<1>9. Waits(h) /\ (h.alone => cs = {} /\ Len(as) = 0)
  BY <1>2 DEF Waits, Quiet
<1>10. SoloOf(Image(F, cs) \cup {h}, bs)
  <2>1. Replaces(cs, F) /\ NoneAlone(cs, F, bs)
    BY <1>5, <1>6, <1>8 DEF Replaces, NoneAlone, AllFollow, HandledBy
  <2> QED
    BY <1>3, <1>8, <1>9, <2>1, SoloStarted
<1>11. calls' = Image(F, cs) \cup {h} /\ answers' = bs
  BY <1>1, <1>2 DEF Image
<1>12. Solo'
  BY <1>10, <1>11 DEF Solo
<1>13. \A kind : NoneNewOf(kind, cs, as, calls' \ {h}, bs)
  <2>1. \A d \in calls' \ {h} : \E c \in cs : Lowered(c, d)
    BY <1>5, <1>11 DEF Image
  <2>2. \A k \in 1 .. Len(bs) : k \in 1 .. Len(as) /\ Lowered(as[k].call, bs[k].call)
    BY <1>6, <1>8 DEF AllFollow, HandledBy
  <2> QED
    BY <2>1, <2>2 DEF NoneNewOf
<1> QED
  BY <1>2, <1>12, <1>13

\* A page is mounted: no handler belongs to it.
LEMMA StepMounts ==
  ASSUME NEW cs, NEW as, Mountable(cs, as), SoloOf(cs, as), NEW p, Mount(p, cs, as)
  PROVE  /\ Solo' /\ \A kind : kind # "revalidate" => NoneNewOf(kind, cs, as, calls', answers')
         /\ \A d \in calls' : ~d.mine
         /\ \A k \in 1 .. Len(answers') : ~answers'[k].call.mine
<1> DEFINE r == Refetch("revalidate", 0, Null)
<1>1. /\ calls' = {[c EXCEPT !.mine = FALSE] : c \in cs} \cup {r}
      /\ answers' = [k \in DOMAIN as |-> [as[k] EXCEPT !.call = [@ EXCEPT !.mine = FALSE]]]
  BY DEF Mount
<1>2. r.kind = "revalidate" /\ Waits(r) /\ ~r.mine
  BY DEF Refetch, Waits
<1> HIDE DEF r
<1>3. PICK R : R = {r}
  OBVIOUS
<1>4. PICK bs, F, f :
        /\ bs = answers'
        /\ F = [d \in cs |-> [d EXCEPT !.mine = FALSE]]
        /\ f = [k \in DOMAIN as |-> [as[k].call EXCEPT !.mine = FALSE]]
  OBVIOUS
<1>5. AnswersOK(as)
  BY SequenceIs DEF Mountable, AnswersOK
<1>6. \A c \in cs : Follows(c, F[c]) /\ ~F[c].mine /\ Lowered(c, F[c])
  <2>1. \A c \in cs : CallOK(c) /\ Waits(c)
    BY DEF Mountable, SoloOf
  <2>2. \A c \in cs : Lowered(c, F[c]) /\ ~F[c].mine /\ Waits(c)
    BY <1>4, <2>1, MarkedLowered
  <2> QED
    BY <2>2, LoweredFollows
<1>7. \A k \in 1 .. Len(as) : Lowered(as[k].call, f[k]) /\ ~f[k].mine
  <2>1. \A k \in 1 .. Len(as) : f[k] = [as[k].call EXCEPT !.mine = FALSE]
    BY <1>4, <1>5 DEF AnswersOK
  <2>2. \A k \in 1 .. Len(as) : f[k].mine = FALSE /\ Lowered(as[k].call, f[k])
    BY <1>5, <2>1 DEF AnswersOK, AnswerOK, CallFields, Lowered
  <2> QED
    BY <2>2
<1>8. Relabelled(as, f, bs)
  <2>1. bs = [k \in DOMAIN as |-> [as[k] EXCEPT !.call = f[k]]]
    BY <1>1, <1>4
  <2> QED
    BY <1>7, <2>1 DEF Relabelled
<1>9. AllFollow(as, bs) /\ HandledBy(as, f, bs)
  BY <1>5, <1>8, MarkedFollow
<1>10. Reads(R) /\ \A x \in R : ~x.mine
  BY <1>2, <1>3 DEF Reads
<1>11. SoloOf(Image(F, cs) \cup R, bs)
  <2>1. Replaces(cs, F)
    BY <1>6 DEF Replaces
  <2> QED
    BY <1>9, <1>10, <2>1, SoloMarked
<1>12. calls' = Image(F, cs) \cup R /\ answers' = bs
  BY <1>1, <1>3, <1>4 DEF Image
<1>13. Solo'
  BY <1>11, <1>12 DEF Solo
<1>14. ASSUME NEW kind, kind # "revalidate" PROVE NoneNewOf(kind, cs, as, calls', answers')
  <2>1. \A d \in calls' : d.kind # "revalidate" => \E c \in cs : Lowered(c, d)
    BY <1>6, <1>10, <1>12 DEF Image, Reads
  <2>2. \A k \in 1 .. Len(answers') : k \in 1 .. Len(as) /\ Lowered(as[k].call, answers'[k].call)
    BY <1>7, <1>9, <1>12 DEF AllFollow, HandledBy
  <2>3. \A d \in calls' : d.kind = kind => \E c \in cs : Lowered(c, d)
    BY <1>14, <2>1
  <2> QED
    BY <2>2, <2>3 DEF NoneNewOf
<1>15. \A d \in calls' : ~d.mine
  BY <1>6, <1>10, <1>12 DEF Image
<1>16. \A k \in 1 .. Len(answers') : ~answers'[k].call.mine
  BY <1>7, <1>9, <1>12 DEF AllFollow, HandledBy
<1> QED
  BY <1>13, <1>14, <1>15, <1>16
-----------------------------------------------------------------------------
(* What the pages keep *)

ComposerFields == {"tab", "tokens", "loading", "profile"}

PageOK(p) ==
    /\ "name" \in DOMAIN p
    /\ p.name = "custom-rules" =>
          ComposerFields \subseteq DOMAIN p /\ DOMAIN p.tokens = Tabs /\ p.tab \in Tabs
    /\ p.name = "blocklists" => "lists" \in DOMAIN p /\ p.lists \in {{}, AllLists}

\* The composer of page q has what that of page p had, unless the profile changed.
SameTokens(p, q) ==
    \/ q.tokens = p.tokens /\ q.profile = p.profile
    \/ q.tokens = NoTokens /\ q.profile # p.profile

\* Page p becomes page q without losing an entry of the composer.
Eases(p, q) ==
    /\ PageOK(q) /\ q.name = p.name
    /\ p.name = "custom-rules" => SameTokens(p, q)

\* A page that is waiting goes on waiting.
Holds(p, q) == p.name = "custom-rules" /\ p.loading => q.loading

\* Fields of a page no lemma speaks of.
OtherFields(p, q) ==
    /\ DOMAIN q = DOMAIN p
    /\ \A f \in {"name", "lists"} : f \in DOMAIN p => q[f] = p[f]
    /\ p.name = "custom-rules" => \A f \in ComposerFields : f \in DOMAIN p => q[f] = p[f]

\* An edit of other fields keeps the composer's tokens and the waiting.
LEMMA OtherEases ==
  ASSUME NEW p, PageOK(p), NEW q, OtherFields(p, q) PROVE Eases(p, q) /\ Holds(p, q)
<1>1. q.name = p.name
  BY DEF PageOK, OtherFields
<1>2. CASE p.name = "custom-rules"
  <2>1. q.tokens = p.tokens /\ q.profile = p.profile /\ q.loading = p.loading /\ q.tab = p.tab
    BY <1>2 DEF PageOK, OtherFields, ComposerFields
  <2> QED
    BY <1>1, <1>2, <2>1 DEF PageOK, OtherFields, Eases, Holds, SameTokens
<1>3. CASE p.name # "custom-rules"
  BY <1>1, <1>3 DEF PageOK, OtherFields, Eases, Holds
<1> QED
  BY <1>2, <1>3

\* The composer's tokens across the effects of a render.
LEMMA EffectsCustom ==
  ASSUME NEW p, PageOK(p), p.name = "custom-rules", NEW st
  PROVE  LET q == CustomRulesEffects(p, st)
         IN /\ Eases(p, q) /\ q.name = "custom-rules" /\ q.loading = p.loading /\ q.tab = p.tab
            /\ DOMAIN q = DOMAIN p
<1> DEFINE q == IF st.activeProfile = Null \/ st.activeProfile.id = p.profile THEN p
                ELSE [p EXCEPT !.tokens = NoTokens, !.selected = {}, !.profile = st.activeProfile.id]
           r == CustomRulesEffects(p, st)
<1>1. r = [q EXCEPT !.local = Rows(q, st),
                    !.groupOrder = IF st.activeProfile = Null THEN @ ELSE st.activeProfile.groups]
  BY DEF CustomRulesEffects
<1>2. {"name", "tab", "tokens", "loading", "profile"} \subseteq DOMAIN p
  BY DEF PageOK, ComposerFields
<1>3. /\ DOMAIN q = DOMAIN p /\ q.name = p.name /\ q.loading = p.loading /\ q.tab = p.tab
      /\ SameTokens(p, q) /\ DOMAIN q.tokens = Tabs
  <2>1. CASE st.activeProfile = Null \/ st.activeProfile.id = p.profile
    BY <2>1 DEF PageOK, SameTokens
  <2>2. CASE ~(st.activeProfile = Null \/ st.activeProfile.id = p.profile)
    BY <1>2, <2>2 DEF SameTokens, NoTokens
  <2> QED
    BY <2>1, <2>2
<1> HIDE DEF q
<1>4. /\ DOMAIN r = DOMAIN q /\ r.name = q.name /\ r.loading = q.loading /\ r.tab = q.tab
      /\ r.tokens = q.tokens /\ r.profile = q.profile
  BY <1>1, <1>2, <1>3
<1> HIDE DEF r
<1>5. SameTokens(p, r) /\ DOMAIN r = DOMAIN p /\ DOMAIN r.tokens = Tabs
  BY <1>3, <1>4 DEF SameTokens
<1>6. PageOK(r)
  BY <1>3, <1>4, <1>5 DEF PageOK
<1> QED
  BY <1>3, <1>4, <1>5, <1>6 DEF Eases, r

\* An edit of other fields, then the effects of a render.
LEMMA EditEases ==
  ASSUME NEW p, PageOK(p), p.name = "custom-rules", NEW q, OtherFields(p, q), NEW st
  PROVE  LET r == CustomRulesEffects(q, st) IN Eases(p, r) /\ Holds(p, r)
<1>1. Eases(p, q) /\ Holds(p, q)
  BY OtherEases
<1>2. PageOK(q) /\ q.name = "custom-rules"
  BY <1>1 DEF Eases
<1> DEFINE r == CustomRulesEffects(q, st)
<1>3. Eases(q, r) /\ r.loading = q.loading
  BY <1>2, EffectsCustom
<1>4. q.tokens = p.tokens /\ q.profile = p.profile
  BY DEF OtherFields, PageOK, ComposerFields
<1> HIDE DEF r
<1>5. Eases(p, r) /\ Holds(p, r)
  BY <1>1, <1>2, <1>3, <1>4 DEF Eases, Holds, SameTokens
<1> QED
  BY <1>5 DEF r

\* What a page makes of a new store.
LEMMA EffectsEases ==
  ASSUME NEW p, PageOK(p), NEW st PROVE Eases(p, Effects(p, st)) /\ Holds(p, Effects(p, st))
<1> DEFINE r == Effects(p, st)
<1>1. CASE p.name = "custom-rules"
  <2>1. r = CustomRulesEffects(p, st)
    BY <1>1 DEF Effects
  <2> QED
    BY <1>1, <2>1, EffectsCustom DEF Holds
<1>2. CASE p.name # "custom-rules"
  <2>1. OtherFields(p, r)
    <3>1. CASE p.name = "blocklists"
      <4>1. r = BlocklistsEffects(p, st)
        BY <1>2, <3>1 DEF Effects
      <4>2. \A x : OtherFields(p, [p EXCEPT !.nativeExpanded = x])
        BY <1>2 DEF OtherFields
      <4>3. \A x, y, z : OtherFields(p, [[p EXCEPT !.nativeExpanded = x] EXCEPT !.profile = y, !.prefs = z])
        BY <1>2 DEF OtherFields
      <4>4. OtherFields(p, p)
        BY DEF OtherFields
      <4>5. OtherFields(p, BlocklistsEffects(p, st))
        BY <4>2, <4>3, <4>4 DEF BlocklistsEffects
      <4> QED
        BY <4>1, <4>5
    <3>2. CASE p.name = "settings"
      BY <1>2, <3>2 DEF Effects, SettingsEffects, OtherFields, ComposerFields
    <3>3. CASE p.name \notin {"blocklists", "settings"}
      BY <1>2, <3>3 DEF Effects, OtherFields
    <3> QED
      BY <3>1, <3>2, <3>3
  <2> QED
    BY <2>1, OtherEases
<1> QED
  BY <1>1, <1>2
-----------------------------------------------------------------------------
(* What a handler that runs alone may rely on *)

ServerLists == \A i \in DOMAIN db : "lists" \in DOMAIN db[i]

\* The tiers the catalog has, and the first n of them.
AllTiers == {Tiers(AllLists)[i] : i \in DOMAIN Tiers(AllLists)}
FirstTiers(n) == {Tiers(AllLists)[i] : i \in 1 .. n}

\* The requests leave exactly the first n tiers enabled.
Exact(lists, n) == lists \cap AllTiers = FirstTiers(n)
LeadsTo(ops, lists, n) ==
    \/ ops = << >> /\ Exact(lists, n)
    \/ \E A : ops = <<Toggle(A, TRUE)>> /\ Exact(lists \cup A, n)
    \/ \E B : ops = <<Toggle(B, FALSE)>> /\ Exact(lists \ B, n)
    \/ \E A, B : ops = <<Toggle(A, TRUE), Toggle(B, FALSE)>> /\ Exact((lists \cup A) \ B, n)

RangeInv ==
    \A c \in calls : c.kind = "nrd" /\ c.alone /\ ~c.failed /\ c.id \in DOMAIN db =>
        LeadsTo(c.ops, db[c.id].lists, c.extra)

\* A batch knows what it was sent for, and what became of it.
BatchOK(c) ==
    /\ ~c.revert
    /\ DOMAIN c.extra = {"tab", "tokens", "created", "skipped"} /\ c.extra.tab \in Tabs
    /\ IF c.ops = << >> THEN Fresh(c.extra.tokens) \subseteq c.extra.created \cup c.extra.skipped
       ELSE Head(c.ops).arg = Fresh(c.extra.tokens)

\* While it waits the composer gets no other tokens.
BatchHeld(c) ==
    c.mine /\ c.alone =>
        /\ page.name = "custom-rules" /\ page.loading
        /\ TokenValues(page.tokens[c.extra.tab]) \subseteq TokenValues(c.extra.tokens)

Handlers == calls \cup {answers[k].call : k \in 1 .. Len(answers)}

Batches == \A c \in Handlers : c.kind = "compose" => BatchOK(c) /\ BatchHeld(c)

\* The profile is read back when the batch has been answered.
AnsweredBatches ==
    \A k \in 1 .. Len(answers) : answers[k].call.kind = "compose" => answers[k].call.ops = << >>

AloneInv ==
    /\ ConvergeInv /\ Solo /\ ServerLists /\ PageOK(page) /\ clicks \in Int
    /\ RangeInv /\ Batches /\ AnsweredBatches

\* The step TokensAccounted speaks of.
Accounted ==
    page.name = "custom-rules" /\ page'.name = "custom-rules" /\ clicks' = clicks
    /\ page'.profile = page.profile /\ ComposersAlone =>
        \A t \in Tabs : TokenValues(page.tokens[t]) \subseteq
            TokenValues(page'.tokens[t])
            \cup UNION {answers[i].call.extra.created :
                           i \in {j \in DOMAIN answers : answers[j].call.kind = "compose"}}

\* A page whose composer keeps its tokens, or changes profile, has lost no entry.
LEMMA EasesAccounted == ASSUME Eases(page, page') PROVE Accounted
BY DEF Eases, SameTokens, Accounted

\* What the user asks for with a click may drop an entry.
LEMMA ClickAccounted == ASSUME clicks \in Int, clicks' = clicks - 1 PROVE Accounted
<1>1. clicks' # clicks
  OBVIOUS
<1> QED
  BY <1>1 DEF Accounted

\* The handlers of a kind stem from those there were.
LEMMA Inherited ==
  ASSUME NEW kind, NoneNew(kind), NEW d \in Handlers', d.kind = kind
  PROVE  \E c \in Handlers : Lowered(c, d)
<1>1. CASE d \in calls'
  BY <1>1 DEF NoneNew, NoneNewOf, Handlers
<1>2. CASE d \notin calls'
  <2>1. PICK k \in 1 .. Len(answers') : d = answers'[k].call
    BY <1>2 DEF Handlers
  <2> QED
    BY <2>1 DEF NoneNew, NoneNewOf, Handlers
<1> QED
  BY <1>1, <1>2

\* A batch the page turns away from keeps what it was sent for and what became of it.
LEMMA BatchLowered ==
  ASSUME NEW c, BatchOK(c), NEW d, Lowered(c, d) PROVE BatchOK(d) /\ d.extra = c.extra
<1>1. d.revert = c.revert /\ d.extra = c.extra /\ d.ops = c.ops
  BY DEF Lowered, CallFields
<1> QED
  BY <1>1 DEF BatchOK

\* What a step may do to the page while a batch waits.
PageMoves ==
    \/ Eases(page, page') /\ Holds(page, page')
    \/ \A d \in Handlers' : ~d.mine
    \/ page.name = "custom-rules" => ~page.loading

\* The batches stay as they are through a step that sends none, if the page keeps its tokens and waits.
LEMMA BatchesKeep ==
  ASSUME Batches, PageOK(page), NoneNew("compose"), PageMoves PROVE Batches'
<1> SUFFICES ASSUME NEW d \in Handlers', d.kind = "compose" PROVE BatchOK(d) /\ BatchHeld(d)'
  BY DEF Batches
<1>1. PICK c \in Handlers : Lowered(c, d)
  BY Inherited
<1>2. c.kind = "compose" /\ (d.alone => c.alone) /\ (d.mine => c.mine)
  BY <1>1 DEF Lowered, CallFields
<1>3. BatchOK(c) /\ BatchHeld(c)
  BY <1>2 DEF Batches
<1>4. BatchOK(d) /\ d.extra = c.extra
  BY <1>1, <1>3, BatchLowered
<1>5. ASSUME d.mine, d.alone
      PROVE  /\ page'.name = "custom-rules" /\ page'.loading
             /\ TokenValues(page'.tokens[d.extra.tab]) \subseteq TokenValues(d.extra.tokens)
  <2>1. /\ page.name = "custom-rules" /\ page.loading
        /\ TokenValues(page.tokens[d.extra.tab]) \subseteq TokenValues(d.extra.tokens)
    BY <1>2, <1>3, <1>4, <1>5 DEF BatchHeld
  <2>2. Eases(page, page') /\ Holds(page, page')
    BY <1>5, <2>1 DEF PageMoves
  <2>3. page'.name = "custom-rules" /\ page'.loading /\ SameTokens(page, page')
    BY <2>1, <2>2 DEF Eases, Holds
  <2>4. d.extra.tab \in Tabs
    BY <1>4 DEF BatchOK
  <2>5. TokenValues(NoTokens[d.extra.tab]) = {}
    BY <2>4 DEF NoTokens, TokenValues
  <2> QED
    BY <2>1, <2>3, <2>5 DEF SameTokens
<1>6. BatchHeld(d)'
  BY <1>5 DEF BatchHeld
<1> QED
  BY <1>4, <1>6

\* A batch's answer under way goes on being the read that follows it.
LEMMA AnsweredKeep ==
  ASSUME AnsweredBatches, NEW cs, NEW ds, NoneNewOf("compose", cs, answers, ds, answers')
  PROVE  AnsweredBatches'
<1> SUFFICES ASSUME NEW k \in 1 .. Len(answers'), answers'[k].call.kind = "compose"
             PROVE  answers'[k].call.ops = << >>
  BY DEF AnsweredBatches
<1>1. PICK m \in 1 .. Len(answers) : Lowered(answers[m].call, answers'[k].call)
  BY DEF NoneNewOf
<1>2. answers[m].call.kind = "compose" /\ answers'[k].call.ops = answers[m].call.ops
  BY <1>1 DEF Lowered, CallFields
<1> QED
  BY <1>2 DEF AnsweredBatches

\* The requests of the range left lead to the same lists while the server keeps its own.
LEMMA RangeKeeps == ASSUME RangeInv, NoneNew("nrd"), UNCHANGED db PROVE RangeInv'
<1> SUFFICES ASSUME NEW d \in calls', d.kind = "nrd", d.alone, ~d.failed, d.id \in DOMAIN db
             PROVE  LeadsTo(d.ops, db[d.id].lists, d.extra)
  BY DEF RangeInv
<1>1. PICK c \in calls : Lowered(c, d)
  BY DEF NoneNew, NoneNewOf
<1>2. /\ c.kind = "nrd" /\ c.alone /\ ~c.failed /\ c.id = d.id
      /\ c.ops = d.ops /\ c.extra = d.extra
  BY <1>1 DEF Lowered, CallFields
<1> QED
  BY <1>2 DEF RangeInv

\* A step that starts no batch and no range, and changes nothing on the server.
LEMMA PlainStep ==
  ASSUME AloneInv, ConvergeInv', Solo', NoneNew("compose"), NoneNew("nrd"), UNCHANGED db,
         PageOK(page'), PageMoves, clicks' \in Int
  PROVE  AloneInv'
<1>1. ServerLists'
  BY DEF AloneInv, ServerLists
<1>2. AnsweredBatches'
  BY AnsweredKeep DEF NoneNew, AloneInv
<1> QED
  BY <1>1, <1>2, BatchesKeep, RangeKeeps DEF AloneInv

\* Nothing runs alone but the handler that just started.
LEMMA StartedAlone ==
  ASSUME Shape, NEW h, NEW p, Start(h, p), NEW d \in Handlers', d.alone PROVE d = h
<1>1. /\ calls' = {[c EXCEPT !.alone = FALSE] : c \in calls} \cup {h}
      /\ answers' = [i \in DOMAIN answers |->
                        [answers[i] EXCEPT !.call = [@ EXCEPT !.alone = FALSE]]]
  BY DEF Start
<1>2. CASE d \in calls'
  <2>1. \A c \in calls : ~[c EXCEPT !.alone = FALSE].alone
    BY MarkedLowered DEF Shape
  <2> QED
    BY <1>1, <1>2, <2>1
<1>3. CASE d \notin calls'
  <2>1. PICK k \in 1 .. Len(answers') : d = answers'[k].call
    BY <1>3 DEF Handlers
  <2>2. DOMAIN answers = 1 .. Len(answers) /\ Len(answers) \in Nat
    BY SequenceIs DEF Shape
  <2>3. Len(answers') = Len(answers)
    <3>1. answers' = [i \in 1 .. Len(answers) |-> answers'[i]]
      BY <1>1, <2>2
    <3> QED
      BY <2>2, <3>1, FunctionIsSequence
  <2>4. AnswerOK(answers[k]) /\ answers'[k] = [answers[k] EXCEPT !.call = [@ EXCEPT !.alone = FALSE]]
    BY <1>1, <2>1, <2>2, <2>3 DEF Shape
  <2>5. answers'[k].call = [answers[k].call EXCEPT !.alone = FALSE] /\ DOMAIN answers[k].call = CallFields
    BY <2>4 DEF AnswerOK
  <2>6. ~d.alone
    BY <2>1, <2>5 DEF CallFields
  <2> QED
    BY <2>6
<1> QED
  BY <1>2, <1>3

\* The batches after a start: those of before have lost their mark.
LEMMA StartStep ==
  ASSUME AloneInv, NEW h, h.kind # "revalidate", h.alone => Quiet, NEW p, Start(h, p),
         ConvergeInv', PageOK(p), clicks' \in Int,
         h.kind = "compose" => BatchOK(h) /\ BatchHeld(h)',
         h.kind = "nrd" /\ h.alone /\ ~h.failed /\ h.id \in DOMAIN db =>
            LeadsTo(h.ops, db[h.id].lists, h.extra)
  PROVE  AloneInv'
<1>1. Shape /\ Solo /\ page' = p /\ UNCHANGED db
  BY DEF AloneInv, ConvergeInv, Start
<1>2. Solo' /\ \A kind : NoneNewOf(kind, calls, answers, calls' \ {h}, answers')
  BY <1>1, StepStarts
<1>3. RangeInv'
  <2> SUFFICES ASSUME NEW d \in calls', d.kind = "nrd", d.alone, ~d.failed, d.id \in DOMAIN db
               PROVE  LeadsTo(d.ops, db[d.id].lists, d.extra)
    BY <1>1 DEF RangeInv
  <2>1. d = h
    BY <1>1, StartedAlone DEF Handlers
  <2> QED
    BY <2>1
<1>4. Batches'
  <2> SUFFICES ASSUME NEW d \in Handlers', d.kind = "compose" PROVE BatchOK(d) /\ BatchHeld(d)'
    BY DEF Batches
  <2>1. CASE d = h
    BY <2>1
  <2>2. CASE d # h
    <3>1. ~d.alone
      BY <1>1, <2>2, StartedAlone
    <3>2. \E c \in Handlers : Lowered(c, d)
      <4>1. CASE d \in calls'
        BY <1>2, <2>2, <4>1 DEF NoneNewOf, Handlers
      <4>2. CASE d \notin calls'
        <5>1. PICK k \in 1 .. Len(answers') : d = answers'[k].call
          BY <4>2 DEF Handlers
        <5> QED
          BY <1>2, <5>1 DEF NoneNewOf, Handlers
      <4> QED
        BY <4>1, <4>2
    <3>3. PICK c \in Handlers : Lowered(c, d)
      BY <3>2
    <3>4. c.kind = "compose"
      BY <3>3 DEF Lowered, CallFields
    <3>5. BatchOK(d)
      BY <3>3, <3>4, BatchLowered DEF AloneInv, Batches
    <3> QED
      BY <3>1, <3>5 DEF BatchHeld
  <2> QED
    BY <2>1, <2>2
<1>5. ServerLists' /\ PageOK(page')
  BY <1>1 DEF AloneInv, ServerLists
<1>6. AnsweredBatches'
  BY <1>2, AnsweredKeep DEF AloneInv
<1> QED
  BY <1>2, <1>3, <1>4, <1>5, <1>6 DEF AloneInv

\* A handler that is neither a batch nor a range makes its step: nothing runs alone beside
\* it but reads.
LEMMA BesideStep ==
  ASSUME AloneInv, NEW c \in calls, c.kind \notin {"revalidate", "nrd", "compose"},
         ConvergeInv', Solo', NoneNew("compose"), NoneNew("nrd"),
         ServerLists', PageOK(page'), clicks' \in Int
  PROVE  AloneInv'
<1>1. \A kind \in {"compose", "nrd"} : \A d \in Handlers' : d.kind = kind => ~d.alone
  <2> SUFFICES ASSUME NEW kind \in {"compose", "nrd"}, NEW d \in Handlers', d.kind = kind, d.alone
               PROVE  FALSE
    OBVIOUS
  <2>1. NoneNew(kind)
    OBVIOUS
  <2>2. PICK b \in Handlers : Lowered(b, d)
    BY <2>1, Inherited
  <2>3. b.kind = kind /\ b.alone
    BY <2>2 DEF Lowered, CallFields
  <2>4. \A e \in calls : e = b \/ e.kind = "revalidate"
    BY <2>3 DEF AloneInv, Solo, SoloOf, Handlers
  <2> QED
    BY <2>3, <2>4
<1>2. RangeInv'
  BY <1>1 DEF RangeInv, Handlers
<1>3. Batches'
  <2> SUFFICES ASSUME NEW d \in Handlers', d.kind = "compose" PROVE BatchOK(d) /\ BatchHeld(d)'
    BY DEF Batches
  <2>1. PICK b \in Handlers : Lowered(b, d)
    BY Inherited
  <2>2. b.kind = "compose"
    BY <2>1 DEF Lowered, CallFields
  <2>3. BatchOK(d)
    BY <2>1, <2>2, BatchLowered DEF AloneInv, Batches
  <2> QED
    BY <1>1, <2>3 DEF BatchHeld
<1>4. AnsweredBatches'
  BY AnsweredKeep DEF NoneNew, AloneInv
<1> QED
  BY <1>2, <1>3, <1>4 DEF AloneInv
-----------------------------------------------------------------------------
(* The steps of the pages *)

Clicked == clicks' \in {clicks, clicks - 1}

\* A change of the page alone.
LEMMA LocalStep ==
  ASSUME AloneInv, ConvergeInv', UNCHANGED <<calls, answers, db>>, Clicked,
         Eases(page, page'), Holds(page, page')
  PROVE  AloneInv' /\ Accounted
<1>1. Solo' /\ \A kind : NoneNew(kind)
  BY StillSolo DEF AloneInv
<1>2. clicks' \in Int
  BY DEF Clicked, AloneInv
<1>3. PageOK(page') /\ PageMoves
  BY DEF Eases, PageMoves
<1> QED
  BY <1>1, <1>2, <1>3, PlainStep, EasesAccounted

\* A click on a composer that does not wait.
LEMMA TypeStep ==
  ASSUME AloneInv, ConvergeInv', UNCHANGED <<calls, answers, db>>, clicks' = clicks - 1,
         PageOK(page'), ~page.loading
  PROVE  AloneInv' /\ Accounted
<1>1. Solo' /\ \A kind : NoneNew(kind)
  BY StillSolo DEF AloneInv
<1>2. clicks' \in Int /\ clicks \in Int
  BY DEF AloneInv
<1>3. PageMoves
  BY DEF PageMoves
<1> QED
  BY <1>1, <1>2, <1>3, PlainStep, ClickAccounted

\* A handler that is neither a batch nor a range starts.
LEMMA StartsStep ==
  ASSUME AloneInv, ConvergeInv', NEW kind, kind \notin {"revalidate", "nrd", "compose"},
         NEW ops, NEW revert, NEW extra, NEW p, Start(Handler(kind, ops, revert, extra), p),
         Eases(page, p), Clicked
  PROVE  AloneInv' /\ Accounted
<1>1. PICK h : h = Handler(kind, ops, revert, extra)
  OBVIOUS
<1>2. h.kind = kind /\ (h.alone => Quiet)
  BY <1>1 DEF Handler
<1>3. page' = p
  BY DEF Start
<1>4. PageOK(p) /\ Accounted
  BY <1>3, EasesAccounted DEF Eases
<1>5. clicks' \in Int
  BY DEF Clicked, AloneInv
<1> QED
  BY <1>1, <1>2, <1>4, <1>5, StartStep

\* A handler ends without its profile having been read back.
LEMMA SavedStep ==
  ASSUME AloneInv, ConvergeInv', NEW c \in calls, c.kind \notin {"revalidate", "nrd", "compose"},
         calls' = calls \ {c}, Missed(c.id), ServerLists', clicks' = clicks, Eases(page, page')
  PROVE  AloneInv' /\ Accounted
<1>1. KeptOf(answers, answers')
  BY LateKept DEF Missed, AloneInv, ConvergeInv
<1>2. Solo' /\ \A kind : NoneNew(kind)
  BY <1>1, StepFinished DEF AloneInv
<1>3. PageOK(page') /\ clicks' \in Int
  BY DEF Eases, AloneInv
<1> QED
  BY <1>2, <1>3, BesideStep, EasesAccounted

\* A change keeps the fields of a profile.
LEMMA ServeDomain == ASSUME NEW op, NEW p PROVE DOMAIN Serve(op, p) = DOMAIN p
<1>1. \A g, r : DOMAIN [[p EXCEPT !.groups = g] EXCEPT !.rules = r] = DOMAIN p
  OBVIOUS
<1>2. DOMAIN ServeRules(op, p) = DOMAIN p
  <2>1. CASE op.do = "addRules"
    BY <2>1 DEF ServeRules
  <2>2. CASE op.do = "deleteRules"
    BY <2>2 DEF ServeRules
  <2>3. CASE op.do = "editRule"
    BY <2>3 DEF ServeRules, MapRules
  <2>4. CASE op.do = "order"
    BY <2>4 DEF ServeRules, Reordered
  <2>5. CASE op.do = "renameGroup"
    BY <1>1, <2>5 DEF ServeRules, MapRules
  <2>6. CASE op.do = "deleteGroup"
    BY <1>1, <2>6 DEF ServeRules, MapRules
  <2>7. CASE op.do = "addGroup"
    BY <2>7 DEF ServeRules
  <2>8. CASE op.do \notin {"addRules", "deleteRules", "editRule", "order", "renameGroup",
                           "deleteGroup", "addGroup"}
    BY <2>8 DEF ServeRules
  <2> QED
    BY <2>1, <2>2, <2>3, <2>4, <2>5, <2>6, <2>7, <2>8
<1> QED
  BY <1>2 DEF Serve

\* Every profile still has its lists after a request is served.
LEMMA ServedLists ==
  ASSUME ServerLists, NEW i, NEW op, db' = [db EXCEPT ![i] = Serve(op, @)] PROVE ServerLists'
<1> SUFFICES ASSUME NEW j \in DOMAIN db PROVE "lists" \in DOMAIN db'[j]
  BY DEF ServerLists
<1>1. CASE j = i
  <2>1. db'[j] = Serve(op, db[j])
    BY <1>1
  <2> QED
    BY <2>1, ServeDomain DEF ServerLists
<1>2. CASE j # i
  BY <1>2 DEF ServerLists
<1> QED
  BY <1>1, <1>2

\* A tab of the blocklists page: handlers of the services section lose their page.
LEMMA OpenTabSolo ==
  ASSUME AloneInv, NEW t, OpenTab(t) PROVE Solo' /\ \A kind : NoneNew(kind)
<1>1. /\ calls' = {ServiceGone(c) : c \in calls}
      /\ answers' = [i \in DOMAIN answers |-> [answers[i] EXCEPT !.call = ServiceGone(@)]]
  BY DEF OpenTab
<1>2. PICK cs, as, bs, F, f, R :
        /\ cs = calls /\ as = answers /\ bs = answers' /\ R = {}
        /\ F = [d \in calls |-> ServiceGone(d)]
        /\ f = [k \in DOMAIN answers |-> ServiceGone(answers[k].call)]
  OBVIOUS
<1>3. SoloOf(cs, as) /\ Reads(R)
  BY <1>2 DEF AloneInv, Solo, Reads
<1>4. AnswersOK(as)
  BY <1>2, SequenceIs DEF AloneInv, ConvergeInv, Shape, AnswersOK
<1>5. \A c \in cs : Follows(c, F[c]) /\ Lowered(c, F[c])
  <2>1. \A c \in calls : CallOK(c) /\ Waits(c)
    BY DEF AloneInv, ConvergeInv, Shape, Solo, SoloOf
  <2>2. \A c \in cs : Lowered(c, F[c]) /\ Waits(c)
    BY <1>2, <2>1, MarkedLowered
  <2> QED
    BY <2>2, LoweredFollows
<1>6. \A k \in 1 .. Len(as) : Lowered(as[k].call, f[k])
  <2>1. \A k \in 1 .. Len(as) : f[k] = ServiceGone(as[k].call)
    BY <1>2, <1>4 DEF AnswersOK
  <2>2. ASSUME NEW k \in 1 .. Len(as) PROVE Lowered(as[k].call, f[k])
    <3>1. DOMAIN as[k].call = CallFields /\ f[k] = ServiceGone(as[k].call)
      BY <1>4, <2>1 DEF AnswersOK, AnswerOK
    <3> QED
      BY <3>1 DEF CallFields, Lowered, ServiceGone
  <2> QED
    BY <2>2
<1>7. Relabelled(as, f, bs)
  <2>1. bs = [k \in DOMAIN as |-> [as[k] EXCEPT !.call = f[k]]]
    BY <1>1, <1>2
  <2> QED
    BY <1>6, <2>1 DEF Relabelled
<1>8. AllFollow(as, bs) /\ HandledBy(as, f, bs)
  BY <1>3, <1>4, <1>7, MarkedFollow
<1>9. SoloOf(Image(F, cs) \cup R, bs)
  <2>1. Replaces(cs, F)
    BY <1>5 DEF Replaces
  <2> QED
    BY <1>3, <1>8, <2>1, SoloMarked
<1>10. calls' = Image(F, cs) \cup R /\ answers' = bs
  BY <1>1, <1>2 DEF Image
<1>11. Solo'
  BY <1>9, <1>10 DEF Solo
<1>12. \A kind : NoneNewOf(kind, cs, as, calls', bs)
  <2>1. \A d \in calls' : \E c \in cs : Lowered(c, d)
    BY <1>2, <1>5, <1>10 DEF Image
  <2>2. \A k \in 1 .. Len(bs) : k \in 1 .. Len(as) /\ Lowered(as[k].call, bs[k].call)
    BY <1>6, <1>8 DEF AllFollow, HandledBy
  <2> QED
    BY <2>1, <2>2 DEF NoneNewOf
<1> QED
  BY <1>2, <1>11, <1>12 DEF NoneNew

\* An answer is taken away.
LEMMA StepDropped ==
  ASSUME Shape, Solo, NEW k \in 1 .. Len(answers), UNCHANGED calls,
         Len(answers') = Len(answers) - 1,
         \A j \in 1 .. Len(answers) - 1 : answers'[j].call = answers[Before(j, k)].call
  PROVE  Solo' /\ \A kind : NoneNew(kind)
<1>1. PICK cs, as, bs : cs = calls /\ as = answers /\ bs = answers'
  OBVIOUS
<1>2. Len(as) \in Nat /\ SoloOf(cs, as)
  BY <1>1, SequenceIs DEF Shape, Solo
<1>3. SoloOf(cs, bs)
  BY <1>1, <1>2, SoloDropped
<1>4. Solo'
  <2>1. calls' = cs /\ answers' = bs
    BY <1>1
  <2> QED
    BY <1>3, <2>1 DEF Solo
<1>5. \A x : Lowered(x, x)
  BY DEF Lowered
<1>6. \A j \in 1 .. Len(answers') : \E m \in 1 .. Len(answers) : answers'[j].call = answers[m].call
  <2>1. \A m \in Nat : \A i \in 1 .. m : \A j \in 1 .. m - 1 : Before(j, i) \in 1 .. m
    BY DEF Before
  <2> QED
    BY <1>1, <1>2, <2>1
<1>7. ASSUME NEW kind PROVE NoneNew(kind)
  BY <1>5, <1>6 DEF NoneNew, NoneNewOf
<1> QED
  BY <1>4, <1>7
-----------------------------------------------------------------------------
(* The range card *)

\* The tiers among some lists are places of the range.
LEMMA TiersFinite ==
  ASSUME NEW items
  PROVE  /\ TiersAt(items) \in SUBSET Nat /\ TiersAt(items) \subseteq DOMAIN NrdGroup
         /\ IsFiniteSet(TiersAt(items)) /\ Cardinality(TiersAt(items)) \in Nat
         /\ \A i : UpTo(items, i) \in SUBSET TiersAt(items) /\ IsFiniteSet(UpTo(items, i))
                   /\ Cardinality(UpTo(items, i)) \in Nat
<1>1. TiersAt(items) \subseteq DOMAIN NrdGroup /\ DOMAIN NrdGroup = 1 .. Len(NrdGroup) /\ Len(NrdGroup) \in Nat
  BY RangeAssumption DEF TiersAt
<1>2. IsFiniteSet(1 .. Len(NrdGroup))
  BY <1>1, FS_Interval
<1>3. IsFiniteSet(TiersAt(items))
  BY <1>1, <1>2, FS_Subset
<1>4. ASSUME NEW i
      PROVE  UpTo(items, i) \in SUBSET TiersAt(items) /\ IsFiniteSet(UpTo(items, i))
             /\ Cardinality(UpTo(items, i)) \in Nat
  <2>1. UpTo(items, i) \in SUBSET TiersAt(items)
    BY DEF UpTo
  <2>2. IsFiniteSet(UpTo(items, i))
    BY <1>3, <2>1, FS_Subset
  <2> QED
    BY <2>1, <2>2, FS_CardinalityType
<1> QED
  BY <1>1, <1>3, <1>4, FS_CardinalityType

\* A longer window has more tiers up to itself.
LEMMA PlaceRises ==
  ASSUME NEW items, NEW i \in TiersAt(items), NEW j \in TiersAt(items), i < j
  PROVE  Cardinality(UpTo(items, i)) < Cardinality(UpTo(items, j))
<1> DEFINE S == UpTo(items, i)
           T == UpTo(items, j)
<1>1. i \in Int /\ j \in Int /\ TiersAt(items) \in SUBSET Int
  BY TiersFinite
<1>2. S \in SUBSET T /\ j \in T /\ j \notin S
  BY <1>1 DEF UpTo
<1>3. IsFiniteSet(T) /\ Cardinality(T) \in Nat /\ Cardinality(S) \in Nat
  BY TiersFinite
<1> HIDE DEF S, T
<1>4. Cardinality(S) <= Cardinality(T) /\ (Cardinality(S) = Cardinality(T) => S = T)
  BY <1>2, <1>3, FS_Subset
<1>5. Cardinality(S) < Cardinality(T)
  BY <1>2, <1>3, <1>4
<1> QED
  BY <1>5 DEF S, T

\* The places are 1, 2, ... without a gap.
LEMMA PlaceOnto ==
  ASSUME NEW items
  PROVE  \A k \in 1 .. Cardinality(TiersAt(items)) :
            \E i \in TiersAt(items) : Cardinality(UpTo(items, i)) = k
<1> DEFINE H == TiersAt(items)
           C == Cardinality(H)
           Place1(i) == Cardinality(UpTo(items, i))
           f == [i \in H |-> Place1(i)]
<1>1. H \in SUBSET Nat /\ IsFiniteSet(H) /\ C \in Nat
  BY TiersFinite
<1>2. \A i \in H : Place1(i) \in 1 .. C
  <2> SUFFICES ASSUME NEW i \in H PROVE Place1(i) \in 1 .. C
    OBVIOUS
  <2>1. /\ UpTo(items, i) \in SUBSET H /\ IsFiniteSet(UpTo(items, i)) /\ i \in UpTo(items, i)
        /\ Place1(i) \in Nat
    BY <1>1, TiersFinite DEF UpTo
  <2>2. Place1(i) <= C
    BY <1>1, <2>1, FS_Subset
  <2>3. Place1(i) # 0
    BY <2>1, FS_EmptySet
  <2> QED
    BY <1>1, <2>1, <2>2, <2>3
<1>3. IsFiniteSet(1 .. C) /\ Cardinality(1 .. C) = C
  BY <1>1, FS_Interval
<1>4. \A i, j \in H : i < j => Place1(i) < Place1(j)
  BY PlaceRises
<1> HIDE DEF H, C, Place1
<1>5. \A i, j \in H : f[i] = f[j] => i = j
  <2> SUFFICES ASSUME NEW i \in H, NEW j \in H, f[i] = f[j], i # j PROVE FALSE
    OBVIOUS
  <2>1. i < j \/ j < i
    BY <1>1
  <2>2. Place1(i) = Place1(j) /\ Place1(i) \in Int
    BY <1>2
  <2> QED
    BY <1>4, <2>1, <2>2
<1>6. f \in Injection(H, 1 .. C)
  BY <1>2, <1>5 DEF Injection, IsInjective
<1>7. f \in Surjection(H, 1 .. C)
  <2>1. Cardinality(H) = C
    BY DEF C
  <2> QED
    BY <1>1, <1>3, <1>6, <2>1, FS_Injection
<1>8. \A k \in 1 .. C : \E i \in H : f[i] = k
  BY <1>7 DEF Surjection
<1> QED
  BY <1>8 DEF H, C, Place1

\* The tiers among some lists, each once.
LEMMA TiersShape ==
  ASSUME NEW items
  PROVE  LET t == Tiers(items)
         IN /\ Len(t) \in Nat /\ DOMAIN t = 1 .. Len(t)
            /\ \A i, j \in DOMAIN t : t[i] = t[j] => i = j
            /\ TiersAt(items) = {} => t = << >>
<1> DEFINE C == Cardinality(TiersAt(items))
           At(k) == CHOOSE i \in TiersAt(items) : Cardinality(UpTo(items, i)) = k
           t == Tiers(items)
<1>1. C \in Nat
  BY TiersFinite
<1>2. t = [k \in 1 .. C |-> NrdGroup[At(k)]]
  BY DEF Tiers
<1>3. \A k \in 1 .. C : At(k) \in TiersAt(items) /\ Cardinality(UpTo(items, At(k))) = k
  BY PlaceOnto
<1>4. \A k \in 1 .. C : At(k) \in DOMAIN NrdGroup
  BY <1>3, TiersFinite
<1> HIDE DEF At, t, C
<1>5. t = [k \in 1 .. C |-> t[k]] /\ DOMAIN t = 1 .. C
  BY <1>2
<1>6. Len(t) = C
  BY <1>1, <1>5, FunctionIsSequence
<1>7. \A i, j \in 1 .. C : t[i] = t[j] => i = j
  <2> SUFFICES ASSUME NEW i \in 1 .. C, NEW j \in 1 .. C, t[i] = t[j] PROVE i = j
    OBVIOUS
  <2>1. NrdGroup[At(i)] = NrdGroup[At(j)]
    BY <1>2
  <2>2. At(i) = At(j)
    BY <1>4, <2>1, RangeAssumption
  <2> QED
    BY <1>3, <2>2
<1>8. TiersAt(items) = {} => t = << >>
  <2> SUFFICES ASSUME TiersAt(items) = {} PROVE t = << >>
    OBVIOUS
  <2>1. C = 0
    BY FS_EmptySet DEF C
  <2>2. t \in Seq({t[i] : i \in 1 .. C})
    BY <1>1, <1>5, FunctionIsSequence
  <2> QED
    BY <1>6, <2>1, <2>2
<1> QED
  BY <1>1, <1>5, <1>6, <1>7, <1>8 DEF t

\* The tiers to enable and to disable split those the catalog has.
LEMMA TargetsSplit ==
  ASSUME NEW depth \in 0 .. Len(Tiers(AllLists)), NEW lists
  PROVE  LET target == NrdDepthTargets(Tiers(AllLists), depth)
             on == target.enable \ lists
             off == target.disable \cap lists
         IN /\ Exact((lists \cup on) \ off, depth)
            /\ on = {} => Exact(lists \ off, depth)
            /\ off = {} => Exact(lists \cup on, depth)
            /\ on = {} /\ off = {} => Exact(lists, depth)
<1> DEFINE t == Tiers(AllLists)
           A == {t[i] : i \in 1 .. depth}
           B == {t[i] : i \in (depth + 1) .. Len(t)}
<1>1. /\ Len(t) \in Nat /\ DOMAIN t = 1 .. Len(t)
      /\ \A i, j \in DOMAIN t : t[i] = t[j] => i = j
  BY TiersShape
<1>2. NrdDepthTargets(t, depth).enable = A /\ NrdDepthTargets(t, depth).disable = B
  BY DEF NrdDepthTargets
<1>3. AllTiers = {t[i] : i \in DOMAIN t} /\ FirstTiers(depth) = A
  BY DEF AllTiers, FirstTiers
<1>4. depth \in 0 .. Len(t)
  OBVIOUS
<1> HIDE DEF t
<1>5. AllTiers = A \cup B
  <2>1. \A i : i \in DOMAIN t <=> i \in 1 .. depth \/ i \in (depth + 1) .. Len(t)
    BY <1>1, <1>4
  <2> QED
    BY <1>3, <2>1
<1>6. A \cap B = {}
  <2> SUFFICES ASSUME NEW i \in 1 .. depth, NEW j \in (depth + 1) .. Len(t), t[i] = t[j] PROVE FALSE
    OBVIOUS
  <2>1. i \in DOMAIN t /\ j \in DOMAIN t /\ i # j
    BY <1>1, <1>4
  <2> QED
    BY <1>1, <2>1
<1> HIDE DEF A, B
<1>7. \A l : Exact(l, depth) <=> l \cap (A \cup B) = A
  BY <1>3, <1>5 DEF Exact
<1>8. /\ Exact((lists \cup (A \ lists)) \ (B \cap lists), depth)
      /\ A \ lists = {} => Exact(lists \ (B \cap lists), depth)
      /\ B \cap lists = {} => Exact(lists \cup (A \ lists), depth)
      /\ A \ lists = {} /\ B \cap lists = {} => Exact(lists, depth)
  BY <1>6, <1>7
<1> QED
  BY <1>2, <1>8 DEF t

\* A handler that starts alone has the server's lists before it.
LEMMA AloneActive ==
  ASSUME AloneInv, Active # Null, Quiet, ActiveId \notin behind
  PROVE  ActiveId \in DOMAIN db /\ Active = db[ActiveId]
<1>1. Active \in Copies(store)
  BY DEF Copies, Active
<1>2. ActiveId \in DOMAIN db \cup behind
  BY <1>1 DEF AloneInv, ConvergeInv, Gone, ActiveId
<1>3. Converges
  BY QuietConverges DEF AloneInv
<1> QED
  BY <1>2, <1>3 DEF Converges, ActiveId

\* One request, or two.
LEMMA Joins ==
  ASSUME NEW x, NEW y
  PROVE  /\ << >> \o <<x>> = <<x>> /\ <<x>> \o << >> = <<x>> /\ <<x>> \o <<y>> = <<x, y>>
         /\ Head(<<x, y>>) = x /\ Tail(<<x, y>>) = <<y>>
<1> DEFINE S == {x, y}
<1>1. <<x>> \in Seq(S) /\ <<y>> \in Seq(S) /\ <<x, y>> \in Seq(S)
  OBVIOUS
<1> HIDE DEF S
<1>2. << >> \o <<x>> = <<x>> /\ <<x>> \o << >> = <<x>>
  BY <1>1, ConcatEmptySeq
<1>3. <<x>> \o <<y>> = <<x, y>>
  <2> DEFINE s == <<x>> \o <<y>>
  <2>1. s \in Seq(S) /\ Len(s) = 2 /\ s[1] = x /\ s[2] = y
    BY <1>1, ConcatProperties
  <2>2. s = [i \in 1 .. 2 |-> s[i]] /\ <<x, y>> = [i \in 1 .. 2 |-> <<x, y>>[i]]
    BY <1>1, <2>1
  <2> HIDE DEF s
  <2>3. \A i \in 1 .. 2 : s[i] = <<x, y>>[i]
    <3>1. \A i \in 1 .. 2 : i = 1 \/ i = 2
      OBVIOUS
    <3> QED
      BY <2>1, <3>1
  <2>4. s = <<x, y>>
    BY <2>2, <2>3
  <2> QED
    BY <2>4 DEF s
<1>4. Head(<<x, y>>) = x
  OBVIOUS
<1>5. Tail(<<x, y>>) = <<y>>
  <2> DEFINE s == Tail(<<x, y>>)
  <2>1. s \in Seq(S) /\ Len(s) = 1 /\ s[1] = y
    <3>1. Len(<<x, y>>) = 2 /\ <<x, y>> # << >>
      OBVIOUS
    <3>2. /\ s \in Seq(S) /\ Len(s) = 1
          /\ \A i \in 1 .. Len(s) : s[i] = <<x, y>>[i + 1]
      BY <1>1, <3>1, HeadTailProperties
    <3> QED
      BY <3>2
  <2>2. s = [i \in 1 .. 1 |-> s[i]]
    BY <2>1
  <2> HIDE DEF s
  <2>3. s = <<y>>
    BY <2>1, <2>2
  <2> QED
    BY <2>3 DEF s
<1> QED
  BY <1>2, <1>3, <1>4, <1>5

\* The handler of the range.
LEMMA RangeStarts ==
  ASSUME AloneInv, ConvergeInv', NEW depth, ApplyBlocklistSet(depth)
  PROVE  AloneInv' /\ Accounted
<1> DEFINE ordered == OrderedNrdItems
           target == NrdDepthTargets(ordered, depth)
           on == target.enable \ Enabled
           off == target.disable \cap Enabled
           ops == (IF on = {} THEN <<>> ELSE <<Toggle(on, TRUE)>>)
                  \o (IF off = {} THEN <<>> ELSE <<Toggle(off, FALSE)>>)
<1>1. /\ Click("blocklists") /\ RangeFree /\ depth \in RangeSteps
      /\ Start(Handler("nrd", ops, FALSE, depth), [page EXCEPT !.updating = "nrd"])
  BY DEF ApplyBlocklistSet
<1>2. PICK h, p : /\ h = Handler("nrd", ops, FALSE, depth) /\ p = [page EXCEPT !.updating = "nrd"]
                  /\ Start(h, p)
  BY <1>1
<1>3. ordered = Tiers(AllLists) /\ depth \in 0 .. Len(Tiers(AllLists))
  <2>1. page.lists \in {{}, AllLists}
    BY <1>1 DEF Click, AloneInv, PageOK
  <2>2. Tiers({}) = << >>
    <3>1. TiersAt({}) = {}
      BY DEF TiersAt, Ids
    <3> QED
      BY <3>1, TiersShape
  <2>3. page.lists = AllLists
    BY <1>1, <2>1, <2>2 DEF RangeFree, OrderedNrdItems
  <2> QED
    BY <1>1, <2>3 DEF OrderedNrdItems, RangeSteps
<1>4. PICK e : e = Enabled
  OBVIOUS
<1>5. /\ Exact((e \cup on) \ off, depth)
      /\ on = {} => Exact(e \ off, depth)
      /\ off = {} => Exact(e \cup on, depth)
      /\ on = {} /\ off = {} => Exact(e, depth)
  BY <1>3, <1>4, TargetsSplit
<1> HIDE DEF on, off
<1>6. LeadsTo(ops, e, depth)
  <2>1. CASE on = {} /\ off = {}
    <3>1. ops = << >>
      BY <2>1
    <3> QED
      BY <1>5, <2>1, <3>1 DEF LeadsTo
  <2>2. CASE on = {} /\ off # {}
    <3>1. ops = << >> \o <<Toggle(off, FALSE)>>
      BY <2>2
    <3>2. ops = <<Toggle(off, FALSE)>>
      BY <3>1, Joins
    <3> QED
      BY <1>5, <2>2, <3>2 DEF LeadsTo
  <2>3. CASE on # {} /\ off = {}
    <3>1. ops = <<Toggle(on, TRUE)>> \o << >>
      BY <2>3
    <3>2. ops = <<Toggle(on, TRUE)>>
      BY <3>1, Joins
    <3> QED
      BY <1>5, <2>3, <3>2 DEF LeadsTo
  <2>4. CASE on # {} /\ off # {}
    <3>1. ops = <<Toggle(on, TRUE)>> \o <<Toggle(off, FALSE)>>
      BY <2>4
    <3>2. ops = <<Toggle(on, TRUE), Toggle(off, FALSE)>>
      BY <3>1, Joins
    <3> QED
      BY <1>5, <3>2 DEF LeadsTo
  <2> QED
    BY <2>1, <2>2, <2>3, <2>4
<1> HIDE DEF ops
<1>7. /\ h.kind = "nrd" /\ h.ops = ops /\ h.extra = depth /\ h.id = ActiveId
      /\ h.alone => Quiet /\ ActiveId \notin behind
  BY <1>2 DEF Handler
<1>8. h.alone => LeadsTo(h.ops, db[h.id].lists, h.extra)
  <2> SUFFICES ASSUME h.alone PROVE LeadsTo(h.ops, db[h.id].lists, h.extra)
    OBVIOUS
  <2>1. Active = db[ActiveId]
    BY <1>1, <1>7, AloneActive DEF Click
  <2>2. e = db[h.id].lists
    BY <1>4, <1>7, <2>1 DEF Enabled
  <2> QED
    BY <1>6, <1>7, <2>2
<1>9. PageOK(p)
  <2>1. OtherFields(page, p)
    BY <1>2 DEF OtherFields, ComposerFields
  <2> QED
    BY <2>1, OtherEases DEF AloneInv, Eases
<1>10. clicks' = clicks - 1 /\ clicks \in Int
  BY <1>1 DEF Click, AloneInv
<1>11. AloneInv'
  <2>1. clicks' \in Int
    BY <1>10
  <2>2. /\ h.kind # "revalidate" /\ (h.alone => Quiet) /\ h.kind # "compose"
        /\ h.kind = "nrd" /\ h.alone /\ ~h.failed /\ h.id \in DOMAIN db =>
              LeadsTo(h.ops, db[h.id].lists, h.extra)
    BY <1>7, <1>8
  <2>3. Start(h, p)
    BY <1>2
  <2> QED
    BY <1>9, <2>1, <2>2, <2>3, StartStep
<1> QED
  BY <1>10, <1>11, ClickAccounted

\* A request of the range brings it nearer.
LEMMA RangeNearer ==
  ASSUME NEW c, NEW p, "lists" \in DOMAIN p, c.ops # << >>, LeadsTo(c.ops, p.lists, c.extra)
  PROVE  LeadsTo(Tail(c.ops), Serve(Head(c.ops), p).lists, c.extra)
<1>1. \A A : Serve(Toggle(A, TRUE), p).lists = p.lists \cup A
  BY DEF Serve, Toggle
<1>2. \A B : Serve(Toggle(B, FALSE), p).lists = p.lists \ B
  BY DEF Serve, Toggle
<1>3. ASSUME NEW A, c.ops = <<Toggle(A, TRUE)>>, Exact(p.lists \cup A, c.extra)
      PROVE  LeadsTo(Tail(c.ops), Serve(Head(c.ops), p).lists, c.extra)
  <2>1. Tail(c.ops) = << >> /\ Head(c.ops) = Toggle(A, TRUE)
    BY <1>3
  <2> QED
    BY <1>1, <1>3, <2>1 DEF LeadsTo
<1>4. ASSUME NEW B, c.ops = <<Toggle(B, FALSE)>>, Exact(p.lists \ B, c.extra)
      PROVE  LeadsTo(Tail(c.ops), Serve(Head(c.ops), p).lists, c.extra)
  <2>1. Tail(c.ops) = << >> /\ Head(c.ops) = Toggle(B, FALSE)
    BY <1>4
  <2> QED
    BY <1>2, <1>4, <2>1 DEF LeadsTo
<1>5. ASSUME NEW A, NEW B, c.ops = <<Toggle(A, TRUE), Toggle(B, FALSE)>>,
             Exact((p.lists \cup A) \ B, c.extra)
      PROVE  LeadsTo(Tail(c.ops), Serve(Head(c.ops), p).lists, c.extra)
  <2>1. Tail(c.ops) = <<Toggle(B, FALSE)>> /\ Head(c.ops) = Toggle(A, TRUE)
    BY <1>5, Joins
  <2> QED
    BY <1>1, <1>5, <2>1 DEF LeadsTo
<1> QED
  BY <1>3, <1>4, <1>5 DEF LeadsTo
-----------------------------------------------------------------------------
(* The custom rules page *)

\* An edit that leaves the composer's tokens alone.
Edits(p, q) ==
    /\ PageOK(q) /\ q.name = p.name
    /\ p.name = "custom-rules" => q.tokens = p.tokens /\ q.profile = p.profile

\* An edit that leaves the tokens alone, followed by the effects of a render.
LEMMA EditKeeps ==
  ASSUME NEW p, PageOK(p), NEW q, Edits(p, q), NEW st
  PROVE  LET r == CustomRulesEffects(q, st)
         IN Eases(p, r) /\ (Holds(p, q) => Holds(p, r))
<1> DEFINE r == CustomRulesEffects(q, st)
<1>1. CASE p.name = "custom-rules"
  <2>1. Eases(q, r) /\ r.loading = q.loading
    BY <1>1, EffectsCustom DEF Edits
  <2> HIDE DEF r
  <2>2. Eases(p, r) /\ (Holds(p, q) => Holds(p, r))
    BY <1>1, <2>1 DEF Edits, Eases, Holds, SameTokens
  <2> QED
    BY <2>2 DEF r
<1>2. CASE p.name # "custom-rules"
  <2> DEFINE u == IF st.activeProfile = Null \/ st.activeProfile.id = q.profile THEN q
                  ELSE [q EXCEPT !.tokens = NoTokens, !.selected = {}, !.profile = st.activeProfile.id]
  <2>1. r = [u EXCEPT !.local = Rows(u, st),
                      !.groupOrder = IF st.activeProfile = Null THEN @ ELSE st.activeProfile.groups]
    BY DEF CustomRulesEffects
  <2>2. PageOK(u) /\ u.name = p.name
    <3>1. OtherFields(q, u)
      BY <1>2 DEF Edits, OtherFields
    <3> HIDE DEF u
    <3> QED
      BY <3>1, OtherEases DEF Edits, Eases
  <2> HIDE DEF u
  <2>3. OtherFields(u, r)
    BY <1>2, <2>1, <2>2 DEF OtherFields
  <2> HIDE DEF r
  <2>4. PageOK(r) /\ r.name = p.name
    BY <2>2, <2>3, OtherEases DEF Eases
  <2>5. Eases(p, r) /\ Holds(p, r)
    BY <1>2, <2>4 DEF Eases, Holds
  <2> QED
    BY <2>5 DEF r
<1> QED
  BY <1>1, <1>2

\* The edits that matter to the loading flag alone.
LoadingFields(p, q) ==
    /\ DOMAIN q = DOMAIN p
    /\ \A f \in {"name", "lists", "tab", "tokens", "profile"} : f \in DOMAIN p => q[f] = p[f]

\* An edit of the loading flag leaves the tokens alone.
LEMMA LoadingEdits == ASSUME NEW p, PageOK(p), NEW q, LoadingFields(p, q) PROVE Edits(p, q)
<1>1. q.name = p.name
  BY DEF PageOK, LoadingFields
<1>2. CASE p.name = "custom-rules"
  <2>1. q.tokens = p.tokens /\ q.profile = p.profile /\ q.tab = p.tab
    BY <1>2 DEF PageOK, LoadingFields, ComposerFields
  <2> QED
    BY <1>1, <1>2, <2>1 DEF PageOK, LoadingFields, Edits
<1>3. CASE p.name # "custom-rules"
  BY <1>1, <1>3 DEF PageOK, LoadingFields, Edits
<1> QED
  BY <1>2, <1>3

\* What happens to the rows of the page alone.
LEMMA RowsStep ==
  ASSUME AloneInv, ConvergeInv', NEW p, OtherFields(page, p), Local(p) \/ Rerender(p), Clicked
  PROVE  AloneInv' /\ Accounted
<1>1. UNCHANGED <<calls, answers, db>> /\ (page' = p \/ page' = CustomRulesEffects(p, store))
  BY DEF Local, Rerender
<1>2. PageOK(page)
  BY DEF AloneInv
<1>3. Eases(page, p) /\ Holds(page, p)
  BY <1>2, OtherEases
<1>4. Edits(page, p)
  BY <1>2, <1>3, LoadingEdits DEF OtherFields, LoadingFields, Edits, Eases, PageOK, ComposerFields
<1>5. Eases(page, page') /\ Holds(page, page')
  BY <1>1, <1>2, <1>3, <1>4, EditKeeps
<1> QED
  BY <1>1, <1>5, LocalStep

\* A handler that sets the loading flag.
LEMMA BusyStep ==
  ASSUME AloneInv, ConvergeInv', NEW kind, kind \notin {"revalidate", "nrd", "compose"},
         NEW ops, NEW extra, Busy(kind, ops, extra), Clicked
  PROVE  AloneInv' /\ Accounted
<1> DEFINE q == [page EXCEPT !.loading = TRUE]
           p == CustomRulesEffects(q, store)
<1>1. Start(Handler(kind, ops, FALSE, extra), p)
  BY DEF Busy
<1>2. PageOK(page)
  BY DEF AloneInv
<1>3. Edits(page, q)
  BY <1>2, LoadingEdits DEF LoadingFields
<1>4. Eases(page, p)
  BY <1>2, <1>3, EditKeeps
<1> HIDE DEF p
<1> QED
  BY <1>1, <1>4, StartsStep

\* The other pages' handlers start with a page that keeps the composer's fields.
LEMMA OtherStart ==
  ASSUME AloneInv, ConvergeInv', NEW kind, kind \notin {"revalidate", "nrd", "compose"},
         NEW ops, NEW revert, NEW extra, NEW p, OtherFields(page, p),
         Start(Handler(kind, ops, revert, extra), p), Clicked
  PROVE  AloneInv' /\ Accounted
BY StartsStep, OtherEases DEF AloneInv

\* The composer's batch is sent.
LEMMA SubmitStep == ASSUME AloneInv, ConvergeInv', ComposerSubmit PROVE AloneInv' /\ Accounted
<1> DEFINE q == [page EXCEPT !.loading = TRUE]
           p == CustomRulesEffects(q, store)
<1>0. PICK h, tab, tokens :
        /\ tab = page.tab /\ tokens = page.tokens[tab]
        /\ h = Handler("compose", <<[do |-> "addRules", list |-> tab, arg |-> Fresh(tokens)]>>, FALSE,
                       [tab |-> tab, tokens |-> tokens, created |-> {}, skipped |-> {}])
        /\ Start(h, p)
  BY DEF ComposerSubmit, Busy, Tokens
<1>1. /\ page.name = "custom-rules" /\ clicks' = clicks - 1
      /\ h.kind = "compose" /\ (h.alone => Quiet)
  BY <1>0 DEF ComposerSubmit, ComposerFree, Rules, Click, Handler
<1>2. PageOK(page) /\ clicks \in Int
  BY DEF AloneInv
<1>3. ComposerFields \subseteq DOMAIN page /\ tab \in Tabs
  BY <1>0, <1>1, <1>2 DEF PageOK
<1>4. Edits(page, q) /\ q.loading /\ q.name = "custom-rules"
  BY <1>1, <1>2, <1>3, LoadingEdits DEF LoadingFields, ComposerFields
<1>5. Eases(page, p) /\ p.loading
  BY <1>1, <1>2, <1>4, EditKeeps, EffectsCustom DEF Edits
<1>6. BatchOK(h) /\ h.extra.tab = tab /\ h.extra.tokens = tokens
  BY <1>0, <1>3 DEF BatchOK, Handler
<1>7. page' = p
  BY <1>0 DEF Start
<1> HIDE DEF p, q
<1>8. BatchHeld(h)'
  <2>1. page'.name = "custom-rules" /\ page'.loading
    BY <1>1, <1>5, <1>7 DEF Eases
  <2>2. TokenValues(NoTokens[tab]) = {}
    BY <1>3 DEF NoTokens, TokenValues
  <2>3. TokenValues(page'.tokens[tab]) \subseteq TokenValues(tokens)
    BY <1>0, <1>1, <1>5, <1>7, <2>2 DEF Eases, SameTokens
  <2> QED
    BY <1>6, <2>1, <2>3 DEF BatchHeld
<1>9. clicks' \in Int /\ PageOK(p)
  BY <1>1, <1>2, <1>5 DEF Eases
<1>10. AloneInv'
  BY <1>0, <1>1, <1>6, <1>8, <1>9, StartStep
<1> QED
  BY <1>1, <1>2, <1>10, ClickAccounted

\* A handler other than a read ends: nothing runs alone beside it but reads.
LEMMA EndsStep ==
  ASSUME AloneInv, NEW c \in calls, c.kind # "revalidate", calls' = calls \ {c},
         KeptOf(answers, answers'), ConvergeInv', ServerLists', PageOK(page'), clicks' \in Int
  PROVE  AloneInv'
<1>1. Solo' /\ \A kind : NoneNew(kind)
  BY StepFinished DEF AloneInv
<1>2. \A d \in Handlers' : d.kind = "revalidate" \/ ~d.alone
  <2> SUFFICES ASSUME NEW d \in Handlers', d.alone, d.kind # "revalidate" PROVE FALSE
    OBVIOUS
  <2>1. CASE d \in calls'
    BY <2>1 DEF AloneInv, Solo, SoloOf
  <2>2. CASE d \notin calls'
    <3>1. PICK k \in 1 .. Len(answers) : d = answers[k].call
      BY <2>2 DEF Handlers, KeptOf
    <3> QED
      BY <3>1 DEF AloneInv, Solo, SoloOf
  <2> QED
    BY <2>1, <2>2
<1>3. RangeInv'
  BY <1>2 DEF RangeInv, Handlers
<1>4. Batches'
  <2> SUFFICES ASSUME NEW d \in Handlers', d.kind = "compose" PROVE BatchOK(d) /\ BatchHeld(d)'
    BY DEF Batches
  <2>1. d \in Handlers
    BY DEF Handlers, KeptOf
  <2>2. ~d.alone
    BY <1>2
  <2> QED
    BY <2>1, <2>2 DEF AloneInv, Batches, BatchHeld
<1>5. AnsweredBatches'
  BY <1>1, AnsweredKeep DEF NoneNew, AloneInv
<1> QED
  BY <1>1, <1>3, <1>4, <1>5 DEF AloneInv
-----------------------------------------------------------------------------
(* The steps of a handler *)

\* Nothing changes on the page.
LEMMA SamePage ==
  ASSUME AloneInv, page' = page
  PROVE  PageOK(page') /\ Eases(page, page') /\ Holds(page, page') /\ PageMoves /\ Accounted
<1>1. PageOK(page)
  BY DEF AloneInv
<1>2. Eases(page, page') /\ Holds(page, page')
  BY <1>1 DEF Eases, Holds, SameTokens
<1> QED
  BY <1>1, <1>2, EasesAccounted DEF PageMoves

\* What the composer keeps has every value it was sent with that was not created.
LEMMA ComposedKeeps ==
  ASSUME NEW p, PageOK(p), p.name = "custom-rules", NEW e, e.tab \in Tabs,
         TokenValues(p.tokens[e.tab]) \subseteq TokenValues(e.tokens),
         NEW made, Fresh(e.tokens) \subseteq made \cup e.skipped
  PROVE  LET q == Composed(p, e)
         IN /\ PageOK(q) /\ q.name = p.name /\ q.profile = p.profile
            /\ \A t \in Tabs : TokenValues(p.tokens[t]) \subseteq TokenValues(q.tokens[t]) \cup made
<1> DEFINE kept == {t \in e.tokens : t.error} \cup {[value |-> v, error |-> TRUE] : v \in e.skipped}
           q == Composed(p, e)
<1>1. q = [p EXCEPT !.tokens = [p.tokens EXCEPT ![e.tab] = kept], !.loading = FALSE]
  BY DEF Composed
<1>2. ComposerFields \subseteq DOMAIN p /\ DOMAIN p.tokens = Tabs /\ p.tab \in Tabs
  BY DEF PageOK
<1>3. TokenValues(e.tokens) \subseteq TokenValues(kept) \cup made
  <2> SUFFICES ASSUME NEW t \in e.tokens PROVE t.value \in TokenValues(kept) \cup made
    BY DEF TokenValues
  <2>1. CASE t.error
    BY <2>1 DEF TokenValues
  <2>2. CASE ~t.error
    <3>1. t.value \in Fresh(e.tokens)
      BY <2>2 DEF Fresh
    <3>2. \A v \in e.skipped : v \in TokenValues(kept)
      <4> SUFFICES ASSUME NEW v \in e.skipped PROVE v \in TokenValues(kept)
        OBVIOUS
      <4>1. [value |-> v, error |-> TRUE] \in kept
        OBVIOUS
      <4> HIDE DEF kept
      <4>2. [value |-> v, error |-> TRUE].value = v
        OBVIOUS
      <4>3. \E u \in kept : u.value = v
        BY <4>1, <4>2
      <4> QED
        BY <4>3 DEF TokenValues
    <3> QED
      BY <3>1, <3>2
  <2> QED
    BY <2>1, <2>2
<1> HIDE DEF kept, q
<1>4. /\ DOMAIN q = DOMAIN p /\ q.name = p.name /\ q.profile = p.profile /\ q.tab = p.tab
      /\ q.tokens = [p.tokens EXCEPT ![e.tab] = kept]
  BY <1>1, <1>2 DEF ComposerFields, PageOK
<1>5. PageOK(q)
  BY <1>2, <1>4 DEF PageOK
<1>6. ASSUME NEW t \in Tabs
      PROVE  TokenValues(p.tokens[t]) \subseteq TokenValues(q.tokens[t]) \cup made
  BY <1>2, <1>3, <1>4
<1> QED
  BY <1>4, <1>5, <1>6 DEF q

\* On any page the composer's answer leaves a page.
LEMMA ComposedOK ==
  ASSUME NEW p, PageOK(p), NEW e PROVE PageOK(Composed(p, e)) /\ Composed(p, e).name = p.name
<1> DEFINE kept == {t \in e.tokens : t.error} \cup {[value |-> v, error |-> TRUE] : v \in e.skipped}
           q == Composed(p, e)
<1>1. q = [p EXCEPT !.tokens = [p.tokens EXCEPT ![e.tab] = kept], !.loading = FALSE]
  BY DEF Composed
<1> HIDE DEF kept, q
<1>2. DOMAIN q = DOMAIN p /\ q.name = p.name /\ ("lists" \in DOMAIN p => q.lists = p.lists)
  BY <1>1 DEF PageOK
<1>3. p.name = "custom-rules" => q.tab = p.tab /\ DOMAIN q.tokens = DOMAIN p.tokens
  BY <1>1 DEF PageOK, ComposerFields
<1>4. PageOK(q)
  BY <1>2, <1>3 DEF PageOK
<1> QED
  BY <1>2, <1>4 DEF q

\* The answer of the batch.
LEMMA AnsweredStep ==
  ASSUME AloneInv, ConvergeInv', NEW c \in calls, ComposerAnswered(c) PROVE AloneInv' /\ Accounted
<1>1. PICK op, made, e :
        /\ op = Head(c.ops)
        /\ e = [c.extra EXCEPT !.created = made, !.skipped = op.arg \ made]
        /\ c.kind = "compose" /\ c.ops # << >> /\ UNCHANGED <<store, answers, clicks>>
        /\ \/ /\ made = {} /\ Finished(c) /\ UNCHANGED db
              /\ page' = IF c.mine THEN CustomRulesEffects(Composed(page, e), store) ELSE page
           \/ /\ db' = [db EXCEPT ![c.id] = Serve([op EXCEPT !.arg = made], @)]
              /\ calls' = (calls \ {c}) \cup {[c EXCEPT !.ops = <<>>, !.sent = TRUE, !.extra = e]}
              /\ page' = page
  BY DEF ComposerAnswered
<1>2. CallOK(c) /\ PageOK(page) /\ clicks' \in Int
  BY <1>1 DEF AloneInv, ConvergeInv, Shape
<1>3. BatchOK(c) /\ BatchHeld(c)
  BY <1>1 DEF AloneInv, Batches, Handlers
<1>4. /\ DOMAIN e = {"tab", "tokens", "created", "skipped"} /\ e.tab = c.extra.tab /\ e.tab \in Tabs
      /\ e.tokens = c.extra.tokens /\ e.created = made /\ e.skipped = Fresh(c.extra.tokens) \ made
  BY <1>1, <1>3 DEF BatchOK
<1>5. KeptOf(answers, answers')
  BY <1>1 DEF KeptOf
<1>6. CASE /\ made = {} /\ Finished(c) /\ UNCHANGED db
           /\ page' = IF c.mine THEN CustomRulesEffects(Composed(page, e), store) ELSE page
  <2>1. ServerLists'
    BY <1>6 DEF AloneInv, ServerLists
  <2>2. CASE ~c.mine
    <3>1. PageOK(page') /\ Accounted
      BY <1>6, <2>2, SamePage
    <3>2. AloneInv'
      BY <1>1, <1>2, <1>5, <1>6, <2>1, <3>1, EndsStep DEF Finished
    <3> QED
      BY <3>1, <3>2
  <2>3. CASE c.mine
    <3> DEFINE q == Composed(page, e)
    <3>1. PageOK(q) /\ q.name = page.name
      BY <1>2, ComposedOK
    <3>2. Eases(q, page')
      <4>1. page' = CustomRulesEffects(q, store)
        BY <1>6, <2>3
      <4>2. Edits(q, q)
        BY <3>1 DEF Edits
      <4> HIDE DEF q
      <4> QED
        BY <3>1, <4>1, <4>2, EditKeeps
    <3>3. AloneInv'
      <4>1. PageOK(page')
        BY <3>2 DEF Eases
      <4> QED
        BY <1>1, <1>2, <1>5, <1>6, <2>1, <4>1, EndsStep DEF Finished
    <3>4. Accounted
      <4> SUFFICES ASSUME page.name = "custom-rules", page'.profile = page.profile, ComposersAlone,
                          NEW t \in Tabs
                   PROVE  TokenValues(page.tokens[t]) \subseteq TokenValues(page'.tokens[t])
        BY DEF Accounted
      <4>1. c.alone
        BY <1>1, <2>3 DEF ComposersAlone
      <4>2. TokenValues(page.tokens[e.tab]) \subseteq TokenValues(e.tokens)
        BY <1>3, <1>4, <2>3, <4>1 DEF BatchHeld
      <4>3. Fresh(e.tokens) \subseteq made \cup e.skipped
        BY <1>4
      <4>4. q.profile = page.profile /\ TokenValues(page.tokens[t]) \subseteq TokenValues(q.tokens[t]) \cup made
        BY <1>2, <1>4, <4>2, <4>3, ComposedKeeps
      <4>5. page'.tokens = q.tokens
        BY <3>1, <3>2, <4>4 DEF Eases, SameTokens
      <4> QED
        BY <1>6, <4>4, <4>5
    <3> QED
      BY <3>3, <3>4
  <2> QED
    BY <2>2, <2>3
<1>7. CASE /\ db' = [db EXCEPT ![c.id] = Serve([op EXCEPT !.arg = made], @)]
           /\ calls' = (calls \ {c}) \cup {[c EXCEPT !.ops = <<>>, !.sent = TRUE, !.extra = e]}
           /\ page' = page
  <2>1. PICK d : /\ d = [c EXCEPT !.ops = <<>>, !.sent = TRUE, !.extra = e]
                 /\ calls' = (calls \ {c}) \cup {d}
    BY <1>7
  <2>2. /\ d.kind = "compose" /\ d.ops = << >> /\ d.extra = e /\ d.revert = c.revert
        /\ d.mine = c.mine /\ d.alone = c.alone
    BY <1>1, <1>2, <2>1 DEF CallOK, CallFields
  <2>3. Follows(c, d)
    BY <1>1, <2>2 DEF Follows, Waits
  <2>4. Solo' /\ NoneNew("nrd")
    BY <1>5, <2>1, <2>2, <2>3, StepBecomes DEF AloneInv
  <2>5. ServerLists'
    BY <1>7, ServedLists DEF AloneInv
  <2>6. RangeInv'
    <3>1. \A b \in calls' : b.kind = "nrd" => ~b.alone
      <4> SUFFICES ASSUME NEW b \in calls', b.kind = "nrd", b.alone PROVE FALSE
        OBVIOUS
      <4>1. b \in calls
        BY <2>1, <2>2
      <4> QED
        BY <1>1, <4>1 DEF AloneInv, Solo, SoloOf
    <3> QED
      BY <3>1 DEF RangeInv
  <2>7. Batches'
    <3> SUFFICES ASSUME NEW b \in Handlers', b.kind = "compose" PROVE BatchOK(b) /\ BatchHeld(b)'
      BY DEF Batches
    <3>1. CASE b = d
      <4>1. BatchOK(d)
        BY <1>3, <1>4, <2>2 DEF BatchOK
      <4>2. BatchHeld(d)'
        BY <1>3, <1>4, <1>7, <2>2 DEF BatchHeld
      <4> QED
        BY <3>1, <4>1, <4>2
    <3>2. CASE b # d
      <4>1. b \in Handlers
        BY <1>1, <2>1, <3>2 DEF Handlers
      <4> QED
        BY <1>7, <4>1 DEF AloneInv, Batches, BatchHeld
    <3> QED
      BY <3>1, <3>2
  <2>8. AnsweredBatches'
    BY <1>1 DEF AloneInv, AnsweredBatches
  <2>9. PageOK(page') /\ Accounted
    BY <1>7, SamePage
  <2> QED
    BY <1>2, <2>4, <2>5, <2>6, <2>7, <2>8, <2>9 DEF AloneInv
<1> QED
  BY <1>1, <1>6, <1>7

\* The delayed delete becomes a handler.
LEMMA FiresStep ==
  ASSUME AloneInv, ConvergeInv', NEW c \in calls, DeleteFires(c) PROVE AloneInv' /\ Accounted
<1> DEFINE q == [page EXCEPT !.loading = TRUE, !.removing = @ \ Head(c.ops).arg]
<1>1. /\ c.kind = "deleteTimer" /\ UNCHANGED <<answers, db, clicks>>
      /\ calls' = (calls \ {c}) \cup {[c EXCEPT !.kind = "delete"]}
      /\ page' = IF c.mine THEN CustomRulesEffects(q, store) ELSE page
  BY DEF DeleteFires
<1>2. CallOK(c) /\ PageOK(page) /\ clicks' \in Int
  BY <1>1 DEF AloneInv, ConvergeInv, Shape
<1>3. Eases(page, page')
  <2>1. LoadingFields(page, q)
    BY DEF LoadingFields
  <2> HIDE DEF q
  <2> QED
    BY <1>1, <1>2, <2>1, LoadingEdits, EditKeeps, SamePage
<1>4. PICK d : d = [c EXCEPT !.kind = "delete"] /\ calls' = (calls \ {c}) \cup {d}
  BY <1>1
<1>5. d.kind = "delete" /\ Follows(c, d)
  BY <1>1, <1>2, <1>4 DEF CallOK, CallFields, Follows, Waits
<1>6. KeptOf(answers, answers')
  BY <1>1 DEF KeptOf
<1>7. Solo' /\ NoneNew("compose") /\ NoneNew("nrd")
  BY <1>4, <1>5, <1>6, StepBecomes DEF AloneInv
<1>8. ServerLists' /\ PageOK(page') /\ Accounted
  BY <1>1, <1>3, EasesAccounted DEF AloneInv, ServerLists, Eases
<1> QED
  BY <1>1, <1>2, <1>7, <1>8, BesideStep

\* A bulk delete that stops halfway.
LEMMA PartlyStep ==
  ASSUME AloneInv, ConvergeInv', NEW c \in calls, BulkPartly(c) PROVE AloneInv' /\ Accounted
<1> DEFINE q == [page EXCEPT !.loading = FALSE]
<1>1. /\ c.kind = "bulk" /\ \E op : db' = [db EXCEPT ![c.id] = Serve(op, @)]
      /\ calls' = calls \ {c} /\ Missed(c.id) /\ UNCHANGED clicks
      /\ page' = IF c.mine THEN CustomRulesEffects(q, store) ELSE page
  BY DEF BulkPartly, Finished
<1>2. PageOK(page)
  BY DEF AloneInv
<1>3. Eases(page, page')
  <2>1. LoadingFields(page, q)
    BY DEF LoadingFields
  <2> HIDE DEF q
  <2> QED
    BY <1>1, <1>2, <2>1, LoadingEdits, EditKeeps, SamePage
<1>4. ServerLists'
  BY <1>1, ServedLists DEF AloneInv
<1> QED
  BY <1>1, <1>3, <1>4, SavedStep

\* The next change of a handler.
LEMMA ServedStep ==
  ASSUME AloneInv, ConvergeInv', NEW c \in calls, Served(c) PROVE AloneInv' /\ Accounted
<1>1. PICK d :
        /\ d = [c EXCEPT !.ops = Tail(@), !.sent = TRUE] /\ calls' = (calls \ {c}) \cup {d}
        /\ c.kind \notin Special /\ c.ops # << >> /\ Accepts(Head(c.ops), c)
        /\ db' = [db EXCEPT ![c.id] = Serve(Head(c.ops), @)]
        /\ UNCHANGED <<store, page, answers, clicks>>
  BY DEF Served
<1>2. CallOK(c) /\ clicks' \in Int
  BY <1>1 DEF AloneInv, ConvergeInv, Shape
<1>3. c.kind \notin {"revalidate", "compose"}
  BY <1>1, <1>2 DEF CallOK, Lists, Special
<1>4. /\ d.kind = c.kind /\ d.id = c.id /\ d.ops = Tail(c.ops) /\ d.extra = c.extra
      /\ d.failed = c.failed /\ d.mine = c.mine /\ d.alone = c.alone
  BY <1>1, <1>2 DEF CallOK, CallFields
<1>5. Follows(c, d) /\ KeptOf(answers, answers')
  BY <1>1, <1>3, <1>4 DEF Follows, Waits, KeptOf
<1>6. Solo' /\ \A kind : d.kind # kind => NoneNew(kind)
  BY <1>1, <1>5, StepBecomes DEF AloneInv
<1>7. ServerLists'
  BY <1>1, ServedLists DEF AloneInv
<1>8. PageOK(page') /\ PageMoves /\ Accounted /\ PageOK(page)
  BY <1>1, SamePage DEF AloneInv
<1>9. CASE c.kind # "nrd"
  BY <1>2, <1>3, <1>4, <1>6, <1>7, <1>8, <1>9, BesideStep
<1>10. CASE c.kind = "nrd"
  <2>1. NoneNew("compose")
    BY <1>4, <1>6, <1>10
  <2>2. RangeInv'
    <3> SUFFICES ASSUME NEW b \in calls', b.kind = "nrd", b.alone, ~b.failed, b.id \in DOMAIN db'
                 PROVE  LeadsTo(b.ops, db'[b.id].lists, b.extra)
      BY DEF RangeInv
    <3>1. b = d
      <4>1. b # d => b \in calls /\ b # c
        BY <1>1
      <4> QED
        BY <1>10, <4>1 DEF AloneInv, Solo, SoloOf
    <3>2. c.id \in DOMAIN db /\ db'[c.id] = Serve(Head(c.ops), db[c.id])
      BY <1>1, <1>4, <3>1
    <3>3. LeadsTo(c.ops, db[c.id].lists, c.extra)
      BY <1>4, <1>10, <3>1, <3>2 DEF AloneInv, RangeInv
    <3>4. "lists" \in DOMAIN db[c.id]
      BY <3>2 DEF AloneInv, ServerLists
    <3>5. LeadsTo(Tail(c.ops), Serve(Head(c.ops), db[c.id]).lists, c.extra)
      BY <1>1, <3>3, <3>4, RangeNearer
    <3> QED
      BY <1>4, <3>1, <3>2, <3>5
  <2>3. Batches' /\ AnsweredBatches'
    BY <1>8, <2>1, BatchesKeep, AnsweredKeep DEF AloneInv, NoneNew
  <2> QED
    BY <1>2, <1>6, <1>7, <1>8, <2>2, <2>3 DEF AloneInv
<1> QED
  BY <1>9, <1>10
-----------------------------------------------------------------------------
(* Requests answered, delivered and failed *)

\* The profile of a handler, or the list, is read.
LEMMA ReadStep == ASSUME AloneInv, ConvergeInv', NEW c \in calls, Read(c) PROVE AloneInv' /\ Accounted
<1>1. /\ c.ops = << >> /\ calls' = calls \ {c} /\ UNCHANGED <<store, page, db, clicks>>
      /\ \E list : answers' = Append(answers, [call |-> c, list |-> list, late |-> {}])
  BY DEF Read, Finished, Answered
<1>2. PICK a : answers' = Append(answers, a) /\ a.call = c
  BY <1>1
<1>3. Sequence(answers) /\ Len(answers) \in Nat
  BY SequenceIs DEF AloneInv, ConvergeInv, Shape
<1>4. PICK cs, as, bs : cs = calls /\ as = answers /\ bs = answers'
  OBVIOUS
<1>5. /\ Len(bs) = Len(as) + 1 /\ bs[Len(as) + 1].call = c
      /\ \A k \in 1 .. Len(as) : bs[k] = as[k]
  BY <1>2, <1>3, <1>4, AppendShape
<1>6. \A k \in 1 .. Len(answers') : (k \in 1 .. Len(answers) /\ answers'[k] = answers[k]) \/ answers'[k].call = c
  <2>1. \A m \in Nat : \A k \in 1 .. m + 1 : k \in 1 .. m \/ k = m + 1
    OBVIOUS
  <2> QED
    BY <1>3, <1>4, <1>5, <2>1
<1>7. Solo'
  <2>1. SoloOf(cs, as) /\ Len(as) \in Nat /\ c \in cs
    BY <1>3, <1>4 DEF AloneInv, Solo
  <2>2. SoloOf(cs \ {c}, bs)
    <3>1. Joined(as, c, bs)
      BY <1>5, <2>1 DEF Joined
    <3> QED
      BY <2>1, <3>1, SoloRead
  <2>3. calls' = cs \ {c} /\ answers' = bs
    BY <1>1, <1>4
  <2> QED
    BY <2>2, <2>3 DEF Solo
<1>8. \A d \in Handlers' : d \in Handlers
  BY <1>1, <1>6 DEF Handlers
<1>9. Batches'
  <2> SUFFICES ASSUME NEW d \in Handlers', d.kind = "compose" PROVE BatchOK(d) /\ BatchHeld(d)'
    BY DEF Batches
  <2>1. BatchOK(d) /\ BatchHeld(d)
    BY <1>8 DEF AloneInv, Batches
  <2> QED
    BY <1>1, <2>1 DEF BatchHeld
<1>10. AnsweredBatches'
  BY <1>1, <1>6 DEF AloneInv, AnsweredBatches
<1>11. RangeInv' /\ ServerLists'
  BY <1>1 DEF AloneInv, RangeInv, ServerLists
<1>12. PageOK(page') /\ Accounted /\ clicks' \in Int
  BY <1>1, SamePage DEF AloneInv
<1> QED
  BY <1>7, <1>9, <1>10, <1>11, <1>12 DEF AloneInv

\* A handler other than a composer that got its answer leaves the tokens alone.
LEMMA AfterEdits ==
  ASSUME NEW c, NEW p, PageOK(p), NEW ok, ~(c.kind = "compose" /\ c.mine /\ ok)
  PROVE  Edits(p, After(c, p, ok))
<1> DEFINE q == After(c, p, ok)
<1>0. OtherFields(p, p) /\ LoadingFields(p, p)
  BY DEF OtherFields, LoadingFields
<1>1. CASE ~c.mine \/ p.name \notin {"blocklists", "custom-rules", "settings"}
  <2>1. q = p
    BY <1>1 DEF After
  <2> QED
    BY <1>0, <2>1, LoadingEdits
<1>2. CASE c.mine /\ p.name = "blocklists"
  <2>1. q = AfterBlocklists(c, p)
    BY <1>2 DEF After
  <2>2. LoadingFields(p, AfterBlocklists(c, p))
    BY <1>0, <1>2 DEF AfterBlocklists, LoadingFields
  <2> QED
    BY <2>1, <2>2, LoadingEdits
<1>3. CASE c.mine /\ p.name = "settings"
  <2>1. q = AfterSettings(c, p)
    BY <1>3 DEF After
  <2>2. \A x, y : LoadingFields(p, [[p EXCEPT !.values = x] EXCEPT !.advancedLoading = y])
    BY <1>3 DEF LoadingFields
  <2>3. LoadingFields(p, AfterSettings(c, p))
    BY <1>0, <1>3, <2>2 DEF AfterSettings, AfterSetting, LoadingFields
  <2> QED
    BY <2>1, <2>3, LoadingEdits
<1>4. CASE c.mine /\ p.name = "custom-rules"
  <2>1. q = AfterCustomRules(c, p, ok)
    BY <1>4 DEF After
  <2>2. \A x : LoadingFields(p, [p EXCEPT !.loading = x])
    BY DEF LoadingFields
  <2>3. \A x, y : LoadingFields(p, [[p EXCEPT !.selected = x] EXCEPT !.loading = y])
    BY <1>4 DEF LoadingFields
  <2>4. \A x, y : LoadingFields(p, [[p EXCEPT !.editing = x] EXCEPT !.loading = y])
    BY <1>4 DEF LoadingFields
  <2>5. LoadingFields(p, AfterCustomRules(c, p, ok))
    BY <1>0, <1>4, <2>2, <2>3, <2>4 DEF AfterCustomRules
  <2> QED
    BY <2>1, <2>5, LoadingEdits
<1> QED
  BY <1>1, <1>2, <1>3, <1>4

\* A composer that got its answer leaves what it keeps.
LEMMA AfterComposed ==
  ASSUME NEW c, NEW p, p.name = "custom-rules", c.kind = "compose", c.mine
  PROVE  After(c, p, TRUE) = Composed(p, c.extra)
BY DEF After, AfterCustomRules

\* What a handler leaves is a page of the same name.
LEMMA AfterOK ==
  ASSUME NEW c, NEW p, PageOK(p), NEW ok \in BOOLEAN
  PROVE  PageOK(After(c, p, ok)) /\ After(c, p, ok).name = p.name
<1>1. CASE ~(c.kind = "compose" /\ c.mine /\ ok)
  BY <1>1, AfterEdits DEF Edits
<1>2. CASE c.kind = "compose" /\ c.mine /\ ok
  <2>1. CASE p.name = "custom-rules"
    <3>1. After(c, p, TRUE) = Composed(p, c.extra)
      BY <1>2, <2>1, AfterComposed
    <3>2. ok = TRUE
      BY <1>2
    <3>3. After(c, p, ok) = Composed(p, c.extra)
      BY <3>1, <3>2
    <3> QED
      BY <3>3, ComposedOK
  <2>2. CASE p.name # "custom-rules"
    <3>1. After(c, p, ok) = p
      BY <1>2, <2>2 DEF After, AfterBlocklists, AfterSettings
    <3> QED
      BY <3>1
  <2> QED
    BY <2>1, <2>2
<1> QED
  BY <1>1, <1>2

\* An answer is delivered.
LEMMA DeliverStep ==
  ASSUME AloneInv, ConvergeInv', NEW i \in DOMAIN answers, Deliver(i) PROVE AloneInv' /\ Accounted
<1>1. PICK a, q, st :
        /\ a = answers[i] /\ q = After(a.call, page, TRUE) /\ page' = Effects(q, st)
        /\ answers' = Overtakes(i) /\ UNCHANGED <<calls, db, clicks>>
  BY DEF Deliver, Delivered
<1>2. /\ Shape /\ Len(answers) \in Nat /\ DOMAIN answers = 1 .. Len(answers)
      /\ i \in 1 .. Len(answers)
  BY SequenceIs DEF AloneInv, ConvergeInv, Shape
<1>3. /\ Len(answers') = Len(answers) - 1
      /\ \A j \in 1 .. Len(answers) - 1 : answers'[j].call = answers[Before(j, i)].call
  BY <1>1, <1>2, OvertakesShape
<1>4. Solo' /\ \A kind : NoneNew(kind)
  <2>1. Solo /\ UNCHANGED calls
    BY <1>1 DEF AloneInv
  <2> QED
    BY <1>2, <1>3, <2>1, StepDropped
<1>5. PageOK(page) /\ PageOK(q) /\ q.name = page.name
  BY <1>1, AfterOK DEF AloneInv
<1>6. Eases(q, page') /\ Holds(q, page')
  BY <1>1, <1>5, EffectsEases
<1>7. Waits(a.call) /\ clicks' \in Int
  BY <1>1, <1>2 DEF AloneInv, Solo, SoloOf
<1>8. CASE a.call.kind = "revalidate"
  <2>1. q = page
    BY <1>1, <1>7, <1>8 DEF Waits, After
  <2>2. Eases(page, page') /\ Holds(page, page') /\ PageOK(page')
    BY <1>6, <2>1 DEF Eases
  <2> QED
    BY <1>1, <1>4, <1>7, <2>2, PlainStep, EasesAccounted DEF PageMoves
<1>9. CASE a.call.kind # "revalidate"
  <2>1. \A d \in Handlers' : d \in Handlers /\ (d.kind = "revalidate" \/ ~d.alone)
    <3> SUFFICES ASSUME NEW d \in Handlers' PROVE d \in Handlers /\ (d.kind = "revalidate" \/ ~d.alone)
      OBVIOUS
    <3>1. CASE d \in calls
      BY <1>1, <1>2, <1>9, <3>1 DEF AloneInv, Solo, SoloOf, Handlers
    <3>2. CASE d \notin calls
      <4>1. PICK j \in 1 .. Len(answers') : d = answers'[j].call
        BY <1>1, <3>2 DEF Handlers
      <4>2. Before(j, i) \in 1 .. Len(answers) /\ Before(j, i) # i
        <5>1. j \in Int /\ j >= 1 /\ j <= Len(answers) - 1
          BY <1>2, <1>3, <4>1
        <5> QED
          BY <1>2, <5>1 DEF Before
      <4>3. d = answers[Before(j, i)].call
        BY <1>2, <1>3, <4>1
      <4> QED
        BY <1>1, <1>2, <1>9, <4>2, <4>3 DEF AloneInv, Solo, SoloOf, Handlers
    <3> QED
      BY <3>1, <3>2
  <2>2. RangeInv'
    BY <2>1 DEF RangeInv, Handlers
  <2>3. Batches'
    <3> SUFFICES ASSUME NEW d \in Handlers', d.kind = "compose" PROVE BatchOK(d) /\ BatchHeld(d)'
      BY DEF Batches
    <3> QED
      BY <2>1 DEF AloneInv, Batches, BatchHeld
  <2>4. AnsweredBatches' /\ ServerLists' /\ PageOK(page')
    BY <1>1, <1>4, <1>6, AnsweredKeep DEF NoneNew, AloneInv, ServerLists, Eases
  <2>5. Accounted
    <3> SUFFICES ASSUME page.name = "custom-rules", page'.profile = page.profile, ComposersAlone,
                        NEW t \in Tabs
                 PROVE  TokenValues(page.tokens[t]) \subseteq
                           TokenValues(page'.tokens[t])
                           \cup UNION {answers[k].call.extra.created :
                                          k \in {j \in DOMAIN answers : answers[j].call.kind = "compose"}}
      BY DEF Accounted
    <3>1. CASE ~(a.call.kind = "compose" /\ a.call.mine)
      <4>1. Edits(page, q)
        BY <1>1, <1>5, <3>1, AfterEdits
      <4>2. page'.tokens = page.tokens
        BY <1>6, <4>1 DEF Edits, Eases, SameTokens
      <4> QED
        BY <4>2
    <3>2. CASE a.call.kind = "compose" /\ a.call.mine
      <4>1. a.call \in Handlers /\ a.call.alone
        BY <1>1, <1>2, <3>2 DEF ComposersAlone, Handlers
      <4>2. PICK e : e = a.call.extra
        OBVIOUS
      <4>3. BatchOK(a.call) /\ BatchHeld(a.call) /\ a.call.ops = << >>
        BY <1>1, <1>2, <3>2, <4>1 DEF AloneInv, Batches, AnsweredBatches
      <4>4. /\ e.tab \in Tabs /\ Fresh(e.tokens) \subseteq e.created \cup e.skipped
            /\ TokenValues(page.tokens[e.tab]) \subseteq TokenValues(e.tokens)
        BY <3>2, <4>1, <4>2, <4>3 DEF BatchOK, BatchHeld
      <4>5. q = Composed(page, e)
        BY <1>1, <3>2, <4>2, AfterComposed
      <4>6. /\ q.profile = page.profile
            /\ TokenValues(page.tokens[t]) \subseteq TokenValues(q.tokens[t]) \cup e.created
        BY <1>5, <4>4, <4>5, ComposedKeeps
      <4>7. page'.tokens = q.tokens
        BY <1>5, <1>6, <4>6 DEF Eases, SameTokens
      <4>8. e.created \in {answers[k].call.extra.created :
                              k \in {j \in DOMAIN answers : answers[j].call.kind = "compose"}}
        BY <1>1, <3>2, <4>2
      <4> QED
        BY <4>6, <4>7, <4>8
    <3> QED
      BY <3>1, <3>2
  <2> QED
    BY <1>4, <1>7, <2>2, <2>3, <2>4, <2>5 DEF AloneInv
<1> QED
  BY <1>8, <1>9

\* A request fails.
LEMMA FailStep == ASSUME AloneInv, ConvergeInv', NEW c \in calls, Fail(c) PROVE AloneInv' /\ Accounted
<1>1. PICK p : p = After(c, page, FALSE) /\ Fails(c, p)
  BY DEF Fail
<1>2. CallOK(c) /\ PageOK(page) /\ clicks' \in Int /\ UNCHANGED <<db, clicks>> /\ ServerLists'
  BY <1>1 DEF AloneInv, ConvergeInv, Shape, Fails, ServerLists
<1>3. CASE c.revert /\ ~c.failed
  <2>1. PICK d : /\ d = [c EXCEPT !.ops = <<>>, !.failed = TRUE]
                 /\ calls' = (calls \ {c}) \cup {d} /\ UNCHANGED <<page, answers>>
    BY <1>1, <1>3 DEF Fails
  <2>2. d.kind = c.kind /\ d.failed /\ d.mine = c.mine /\ d.alone = c.alone
    BY <1>2, <2>1 DEF CallOK, CallFields
  <2>3. c.kind # "compose"
    BY <1>3 DEF AloneInv, Batches, BatchOK, Handlers
  <2>4. Follows(c, d) /\ KeptOf(answers, answers')
    BY <2>1, <2>2 DEF AloneInv, Solo, SoloOf, Follows, Waits, KeptOf
  <2>5. Solo' /\ NoneNew("compose")
    BY <2>1, <2>2, <2>3, <2>4, StepBecomes DEF AloneInv
  <2>6. RangeInv'
    BY <1>2, <2>1, <2>2 DEF AloneInv, RangeInv
  <2>7. PageOK(page') /\ PageMoves /\ Accounted
    BY <2>1, SamePage
  <2>8. Batches' /\ AnsweredBatches'
    BY <1>2, <2>5, <2>7, BatchesKeep, AnsweredKeep DEF AloneInv, NoneNew
  <2> QED
    BY <1>2, <2>5, <2>6, <2>7, <2>8 DEF AloneInv
<1>4. CASE ~(c.revert /\ ~c.failed)
  <2>1. /\ calls' = calls \ {c} /\ page' = p
        /\ IF c.sent THEN Missed(c.id) ELSE UNCHANGED <<behind, answers>>
    BY <1>1, <1>4 DEF Fails, Finished
  <2>2. KeptOf(answers, answers')
    <3>1. CASE c.sent
      BY <2>1, <3>1, LateKept DEF Missed, AloneInv, ConvergeInv
    <3>2. CASE ~c.sent
      BY <2>1, <3>2 DEF KeptOf
    <3> QED
      BY <3>1, <3>2
  <2>3. Edits(page, page')
    BY <1>1, <1>2, <2>1, AfterEdits
  <2>4. PageOK(page') /\ Accounted
    <3>1. Eases(page, page')
      BY <2>3 DEF Edits, Eases, SameTokens
    <3> QED
      BY <3>1, EasesAccounted DEF Eases
  <2>5. CASE c.kind = "revalidate"
    <3>1. page' = page
      BY <1>1, <2>1, <2>5 DEF AloneInv, Solo, SoloOf, Waits, After
    <3>2. Solo' /\ \A kind : NoneNew(kind)
      BY <2>1, <2>2, StepFinished DEF AloneInv
    <3> QED
      BY <1>2, <2>4, <3>1, <3>2, SamePage, PlainStep
  <2>6. CASE c.kind # "revalidate"
    BY <1>2, <2>1, <2>2, <2>4, <2>6, EndsStep
  <2> QED
    BY <2>5, <2>6
<1> QED
  BY <1>3, <1>4
-----------------------------------------------------------------------------
(* The blocklists and settings pages, and the navigation *)

\* A page without a composer.
LEMMA ElsewhereStep ==
  ASSUME AloneInv, ConvergeInv', UNCHANGED <<calls, answers, db>>, Clicked,
         page.name # "custom-rules", PageOK(page'), page'.name = page.name
  PROVE  AloneInv' /\ Accounted
<1>1. Eases(page, page') /\ Holds(page, page')
  BY DEF Eases, Holds
<1> QED
  BY <1>1, LocalStep

\* The user clicked.
LEMMA ClickIs == ASSUME NEW name, Click(name) PROVE Clicked /\ page.name = name /\ clicks' = clicks - 1
BY DEF Click, Clicked

\* A click that changes other fields of the page.
LEMMA OtherLocal ==
  ASSUME AloneInv, ConvergeInv', NEW p, OtherFields(page, p), Local(p), Clicked
  PROVE  AloneInv' /\ Accounted
BY RowsStep

\* The catalog, or its services, arrive.
LEMMA CatalogStep == ASSUME AloneInv, ConvergeInv', CatalogArrives PROVE AloneInv' /\ Accounted
<1>1. PICK q : /\ q = [page EXCEPT !.loading = FALSE, !.lists = AllLists]
                  \/ q = [page EXCEPT !.loading = FALSE, !.lists = {}]
               /\ page' = BlocklistsEffects(q, store)
  BY DEF CatalogArrives
<1>2. page.name = "blocklists" /\ UNCHANGED <<calls, answers, db, clicks>>
  BY DEF CatalogArrives
<1>3. PageOK(page)
  BY DEF AloneInv
<1>4. PageOK(q) /\ q.name = "blocklists"
  BY <1>1, <1>2, <1>3 DEF PageOK
<1>5. page' = Effects(q, store)
  BY <1>1, <1>4 DEF Effects
<1>6. PageOK(page') /\ page'.name = "blocklists"
  BY <1>4, <1>5, EffectsEases DEF Eases
<1> QED
  BY <1>2, <1>6, ElsewhereStep DEF Clicked

\* The services arrive, or fail to.
LEMMA ServicesStep == ASSUME AloneInv, ConvergeInv', ServicesArrive PROVE AloneInv' /\ Accounted
<1>1. PICK q : /\ q = [page EXCEPT !.servicesLoading = FALSE,
                                   !.services = {b \in Catalog : b.kind = "service"}]
                  \/ q = [page EXCEPT !.servicesLoading = FALSE]
               /\ page' = q
  BY DEF ServicesArrive
<1>2. UNCHANGED <<store, calls, answers, db, behind, clicks>>
  BY DEF ServicesArrive
<1>3. OtherFields(page, q)
  BY <1>1 DEF OtherFields, ComposerFields
<1> QED
  BY <1>1, <1>2, <1>3, OtherEases, LocalStep DEF Clicked, AloneInv

\* Choosing what the page shows.
LEMMA FilterStep == ASSUME AloneInv, ConvergeInv', NEW f, FilterBy(f) PROVE AloneInv' /\ Accounted
<1>1. PICK q : q = [page EXCEPT !.filter = f] /\ Local(BlocklistsEffects(q, store))
  BY DEF FilterBy
<1>2. page.name = "blocklists" /\ Clicked
  BY ClickIs DEF FilterBy
<1>3. PageOK(page)
  BY DEF AloneInv
<1>4. PageOK(q) /\ q.name = "blocklists"
  BY <1>1, <1>2, <1>3 DEF PageOK
<1>5. page' = Effects(q, store) /\ UNCHANGED <<calls, answers, db>>
  BY <1>1, <1>4 DEF Effects, Local
<1>6. PageOK(page') /\ page'.name = "blocklists"
  BY <1>4, <1>5, EffectsEases DEF Eases
<1> QED
  BY <1>2, <1>5, <1>6, ElsewhereStep

\* Another tab of the blocklists page.
LEMMA OpenTabStep == ASSUME AloneInv, ConvergeInv', NEW t, OpenTab(t) PROVE AloneInv' /\ Accounted
<1>1. /\ page.name = "blocklists" /\ clicks' = clicks - 1 /\ UNCHANGED db
      /\ page' = [page EXCEPT !.tab = t, !.serviceUpdating = Null,
                              !.services = {}, !.servicesLoading = (t = "services"),
                              !.serviceFilter = "all", !.expanded = Null]
  BY ClickIs DEF OpenTab
<1>2. Solo' /\ \A kind : NoneNew(kind)
  BY OpenTabSolo
<1>3. PageOK(page') /\ PageMoves
  BY <1>1 DEF AloneInv, PageOK, PageMoves
<1>4. clicks' \in Int /\ clicks \in Int
  BY <1>1 DEF AloneInv
<1> QED
  BY <1>1, <1>2, <1>3, <1>4, PlainStep, ClickAccounted

\* What the preferences dialog read arrives.
LEMMA PrefsStep ==
  ASSUME AloneInv, ConvergeInv', NEW i \in DOMAIN answers, PrefsArrive(i) PROVE AloneInv' /\ Accounted
<1>1. /\ answers' = RemoveAt(answers, i) /\ UNCHANGED <<calls, db, clicks>>
      /\ \E x : page' = page \/ page' = [page EXCEPT !.prefs.value = x]
  BY DEF PrefsArrive
<1>2. /\ Shape /\ Sequence(answers) /\ Len(answers) \in Nat /\ i \in 1 .. Len(answers)
  BY SequenceIs DEF AloneInv, ConvergeInv, Shape
<1>3. /\ Len(answers') = Len(answers) - 1
      /\ \A j \in 1 .. Len(answers) - 1 : answers'[j].call = answers[Before(j, i)].call
  BY <1>1, <1>2, RemoveShape DEF Before
<1>4. Solo' /\ \A kind : NoneNew(kind)
  <2>1. Solo /\ UNCHANGED calls
    BY <1>1 DEF AloneInv
  <2> QED
    BY <1>2, <1>3, <2>1, StepDropped
<1>5. OtherFields(page, page')
  <2>1. \A x : OtherFields(page, [page EXCEPT !.prefs.value = x])
    BY DEF OtherFields, ComposerFields
  <2>2. OtherFields(page, page)
    BY DEF OtherFields
  <2> QED
    BY <1>1, <2>1, <2>2
<1>6. Eases(page, page') /\ Holds(page, page')
  BY <1>5, OtherEases DEF AloneInv
<1>7. PageOK(page') /\ PageMoves /\ clicks' \in Int
  BY <1>1, <1>6 DEF Eases, PageMoves, AloneInv
<1> QED
  BY <1>1, <1>4, <1>6, <1>7, PlainStep, EasesAccounted

\* A setting is saved without its profile being read back.
LEMMA SettingStep ==
  ASSUME AloneInv, ConvergeInv', NEW c \in calls, c.kind \in Saves,
         NEW p, Saved(c, p), OtherFields(page, p)
  PROVE  AloneInv' /\ Accounted
<1>1. /\ db' = [db EXCEPT ![c.id] = Serve(Head(c.ops), @)] /\ calls' = calls \ {c}
      /\ page' = p /\ Missed(c.id) /\ clicks' = clicks
  BY DEF Saved, Finished
<1>2. ServerLists'
  BY <1>1, ServedLists DEF AloneInv
<1>3. Eases(page, page')
  BY <1>1, OtherEases DEF AloneInv
<1>4. c.kind \notin {"revalidate", "nrd", "compose"}
  BY DEF Saves
<1> QED
  BY <1>1, <1>2, <1>3, <1>4, SavedStep

\* The steps of the blocklists page.
LEMMA BlocklistsStep == ASSUME AloneInv, ConvergeInv', BlocklistsNext PROVE AloneInv' /\ Accounted
<1> USE DEF OtherFields, ComposerFields
<1>1. CASE CatalogArrives \/ ServicesArrive \/ (\E f : FilterBy(f)) \/ \E t : OpenTab(t)
  BY <1>1, CatalogStep, ServicesStep, FilterStep, OpenTabStep
<1>2. CASE SortBy \/ ExpandNative
  <2>1. Clicked
    BY <1>2, ClickIs DEF SortBy, ExpandNative
  <2>2. PICK p : /\ p = [page EXCEPT !.loading = TRUE] \/ p = [page EXCEPT !.nativeExpanded = ~@]
                 /\ Local(p)
    BY <1>2 DEF SortBy, ExpandNative
  <2>3. page.name = "blocklists"
    BY <1>2, ClickIs DEF SortBy, ExpandNative
  <2>4. OtherFields(page, p)
    BY <2>2, <2>3
  <2> QED
    BY <2>1, <2>2, <2>4, OtherLocal
<1>3. ASSUME NEW f, FilterServices(f) \/ ExpandCategory(f) PROVE AloneInv' /\ Accounted
  <2>1. Clicked
    BY <1>3, ClickIs DEF FilterServices, ExpandCategory
  <2>2. PICK p, x : /\ p = [page EXCEPT !.serviceFilter = x] \/ p = [page EXCEPT !.expanded = x]
                    /\ Local(p)
    BY <1>3 DEF FilterServices, ExpandCategory
  <2>3. OtherFields(page, p)
    BY <2>2
  <2> QED
    BY <2>1, <2>2, <2>3, OtherLocal
<1>4. ASSUME NEW b, OpenPrefs(b) PROVE AloneInv' /\ Accounted
  <2>1. Clicked
    BY <1>4, ClickIs DEF OpenPrefs
  <2>2. PICK p : p = [page EXCEPT !.prefs.open = b, !.prefs.fetch = b] /\ Local(p)
    BY <1>4 DEF OpenPrefs
  <2>3. OtherFields(page, p)
    BY <2>2
  <2> QED
    BY <2>1, <2>2, <2>3, OtherLocal
<1>5. ASSUME NEW kind, kind \notin {"revalidate", "nrd", "compose"}, NEW ops, NEW p, Clicked,
             OtherFields(page, p), Start(Handler(kind, ops, FALSE, Null), p)
      PROVE  AloneInv' /\ Accounted
  <2>1. PICK extra, revert : extra = Null /\ revert = FALSE
    OBVIOUS
  <2> QED
    BY <1>5, <2>1, OtherStart
<1>6. ASSUME NEW b, BlocklistSwitch(b) PROVE AloneInv' /\ Accounted
  <2>1. Clicked
    BY <1>6, ClickIs DEF BlocklistSwitch
  <2>2. PICK ops, p : p = [page EXCEPT !.updating = b] /\ Start(Handler("switch", ops, FALSE, Null), p)
    BY <1>6 DEF BlocklistSwitch
  <2>3. OtherFields(page, p)
    BY <2>2
  <2> QED
    BY <1>5, <2>1, <2>2, <2>3
<1>7. ASSUME NEW b, ServiceSwitch(b) PROVE AloneInv' /\ Accounted
  <2>1. Clicked
    BY <1>7, ClickIs DEF ServiceSwitch
  <2>2. PICK ops, p : p = [page EXCEPT !.serviceUpdating = b] /\ Start(Handler("service", ops, FALSE, Null), p)
    BY <1>7 DEF ServiceSwitch
  <2>3. OtherFields(page, p)
    BY <2>2
  <2> QED
    BY <1>5, <2>1, <2>2, <2>3
<1>8. ASSUME NEW items, CategoryToggle(items) PROVE AloneInv' /\ Accounted
  <2>1. Clicked
    BY <1>8, ClickIs DEF CategoryToggle
  <2>2. PICK ops, p : p = [page EXCEPT !.updating = "category"] /\ Start(Handler("category", ops, FALSE, Null), p)
    BY <1>8 DEF CategoryToggle
  <2>3. OtherFields(page, p)
    BY <2>2
  <2> QED
    BY <1>5, <2>1, <2>2, <2>3
<1>9. CASE ToggleListed
  <2>1. Clicked
    BY <1>9, ClickIs DEF ToggleListed
  <2>2. PICK ops, p : p = [page EXCEPT !.updating = "all"] /\ Start(Handler("all", ops, FALSE, Null), p)
    BY <1>9 DEF ToggleListed
  <2>3. OtherFields(page, p)
    BY <2>2
  <2> QED
    BY <1>5, <2>1, <2>2, <2>3
<1>10. CASE RebindingToggle
  <2>1. Clicked
    BY <1>10, ClickIs DEF RebindingToggle
  <2>2. PICK ops, p : p = [page EXCEPT !.rebindingUpdating = TRUE] /\ Start(Handler("rebinding", ops, FALSE, Null), p)
    BY <1>10 DEF RebindingToggle
  <2>3. OtherFields(page, p)
    BY <2>2
  <2> QED
    BY <1>5, <2>1, <2>2, <2>3
<1>11. ASSUME NEW v, ChangePrefs(v) PROVE AloneInv' /\ Accounted
  <2>1. Clicked
    BY <1>11, ClickIs DEF ChangePrefs
  <2>2. PICK ops, p : p = page /\ Start(Handler("prefs", ops, FALSE, Null), p)
    BY <1>11 DEF ChangePrefs
  <2> QED
    BY <1>5, <2>1, <2>2
<1>12. CASE FetchPrefs
  <2>1. Clicked
    BY <1>12 DEF FetchPrefs, Clicked
  <2>2. PICK ops, p : p = [page EXCEPT !.prefs.fetch = FALSE] /\ Start(Handler("readPrefs", ops, FALSE, Null), p)
    BY <1>12 DEF FetchPrefs
  <2>3. OtherFields(page, p)
    BY <2>2
  <2> QED
    BY <1>5, <2>1, <2>2, <2>3
<1>13. ASSUME NEW c \in calls, PrefsSaved(c) PROVE AloneInv' /\ Accounted
  <2>1. PICK p : /\ p = page \/ \E x : p = [page EXCEPT !.prefs.value = x]
                 /\ Saved(c, p)
    BY <1>13 DEF PrefsSaved
  <2>2. OtherFields(page, p)
    BY <2>1
  <2>3. c.kind \in Saves
    BY <1>13 DEF PrefsSaved, Saves
  <2> QED
    BY <2>1, <2>2, <2>3, SettingStep
<1> QED
  BY <1>1, <1>2, <1>3, <1>4, <1>5, <1>6, <1>7, <1>8, <1>9, <1>10, <1>11, <1>12, <1>13, RangeStarts, PrefsStep
  DEF BlocklistsNext, ToggleNative, ToggleCategory

\* The steps of the settings page.
LEMMA SettingsStep == ASSUME AloneInv, ConvergeInv', SettingsNext PROVE AloneInv' /\ Accounted
<1> USE DEF OtherFields, ComposerFields
<1>1. ASSUME NEW f, NEW v, NEW b, Clicked, Change(f, v, b) PROVE AloneInv' /\ Accounted
  <2>1. PICK kind, ops, revert, p :
          /\ kind = "setting" /\ revert = FALSE /\ p = [page EXCEPT !.advancedLoading = @ \/ b]
          /\ Start(Handler(kind, ops, revert, b), p)
    BY <1>1 DEF Change
  <2>2. OtherFields(page, p)
    BY <2>1
  <2> QED
    BY <1>1, <2>1, <2>2, OtherStart
<1>2. CASE DeleteProfile
  <2>1. Clicked
    BY <1>2, ClickIs DEF DeleteProfile
  <2>2. PICK kind, ops, revert, extra, p :
          /\ kind = "remove" /\ revert = FALSE /\ p = [page EXCEPT !.deleteBusy = TRUE]
          /\ Start(Handler(kind, ops, revert, extra), p)
    BY <1>2 DEF DeleteProfile
  <2>3. OtherFields(page, p)
    BY <2>2
  <2> QED
    BY <2>1, <2>2, <2>3, OtherStart
<1>3. ASSUME NEW b, DeleteDialog(b) PROVE AloneInv' /\ Accounted
  <2>1. Clicked
    BY <1>3, ClickIs DEF DeleteDialog
  <2>2. PICK p : p = [page EXCEPT !.deleting = b] /\ Local(p)
    BY <1>3 DEF DeleteDialog
  <2>3. OtherFields(page, p)
    BY <2>2
  <2> QED
    BY <2>1, <2>2, <2>3, OtherLocal
<1>4. ASSUME NEW c \in calls, SettingSaved(c) PROVE AloneInv' /\ Accounted
  <2>1. PICK p : /\ p = page \/ p = AfterSetting(c, page, TRUE)
                 /\ Saved(c, p)
    BY <1>4 DEF SettingSaved
  <2>2. OtherFields(page, p)
    <3>1. \A x, y : OtherFields(page, [[page EXCEPT !.values = x] EXCEPT !.advancedLoading = y])
      OBVIOUS
    <3> QED
      BY <2>1, <3>1 DEF AfterSetting
  <2>3. c.kind \in Saves
    BY <1>4 DEF SettingSaved, Saves
  <2> QED
    BY <2>1, <2>2, <2>3, SettingStep
<1>5. Unlocked => Clicked
  BY ClickIs DEF Unlocked
<1> QED
  BY <1>1, <1>2, <1>3, <1>4, <1>5
  DEF SettingsNext, HandleBlocklistChange, HandleCustomRulesSettingsChange, HandleAdvancedChange,
      HandleRecursorChange

\* A page as it is mounted.
LEMMA PageInitOK == ASSUME NEW name, NEW st PROVE PageOK(PageInit(name, st))
<1>1. CASE name = "blocklists"
  BY <1>1 DEF PageInit, BlocklistsInit, PageOK
<1>2. CASE name = "custom-rules"
  <2> DEFINE q == [name |-> "custom-rules", tab |-> "block", search |-> FALSE, loading |-> FALSE,
                   tokens |-> NoTokens, selected |-> {}, editing |-> Null, local |-> <<>>,
                   groupOrder |-> <<>>, dragging |-> Null, naming |-> FALSE, dropRule |-> Null,
                   removing |-> {}, profile |-> Null]
             r == [q EXCEPT !.local = Rows(q, st), !.profile = st.activeProfile.id,
                            !.groupOrder = st.activeProfile.groups]
  <2>1. PageInit(name, st) = r
    BY <1>2 DEF PageInit, CustomRulesInit
  <2>2. q.tab = "block" /\ q.tokens = NoTokens /\ q.name = "custom-rules"
        /\ {"name"} \cup ComposerFields \subseteq DOMAIN q
    BY DEF ComposerFields
  <2> HIDE DEF q
  <2>3. DOMAIN r = DOMAIN q /\ r.tab = "block" /\ r.tokens = NoTokens /\ r.name = "custom-rules"
    BY <2>2 DEF ComposerFields
  <2> HIDE DEF r
  <2> QED
    BY <2>1, <2>2, <2>3 DEF PageOK, NoTokens, Tabs
<1>3. CASE name = "settings"
  <2>1. PICK q : q.name = "settings" /\ "name" \in DOMAIN q /\ PageInit(name, st) = SettingsEffects(q, st)
    BY <1>3 DEF PageInit, SettingsInit
  <2>2. PageOK(q)
    BY <2>1 DEF PageOK
  <2>3. SettingsEffects(q, st) = Effects(q, st)
    BY <2>1 DEF Effects
  <2> QED
    BY <2>1, <2>2, <2>3, EffectsEases DEF Eases
<1>4. CASE name \notin {"blocklists", "custom-rules", "settings"}
  BY <1>4 DEF PageInit, PageOK
<1> QED
  BY <1>1, <1>2, <1>3, <1>4

\* A link of the navigation.
LEMMA NavigateStep == ASSUME AloneInv, ConvergeInv', NEW name, Navigate(name) PROVE AloneInv' /\ Accounted
<1>1. PICK p, cs, as :
        /\ p = PageInit(name, store) /\ cs = calls /\ as = answers /\ Mount(p, cs, as)
  BY DEF Navigate
<1>2. clicks' = clicks - 1 /\ UNCHANGED db /\ page' = p
  BY <1>1 DEF Navigate, Mount
<1>3. Mountable(cs, as) /\ SoloOf(cs, as)
  BY <1>1 DEF AloneInv, ConvergeInv, Shape, Mountable, Solo
<1>4. /\ Solo' /\ \A kind : kind # "revalidate" => NoneNewOf(kind, cs, as, calls', answers')
      /\ \A d \in calls' : ~d.mine
      /\ \A k \in 1 .. Len(answers') : ~answers'[k].call.mine
  BY <1>1, <1>3, StepMounts
<1>5. NoneNew("compose") /\ NoneNew("nrd")
  BY <1>1, <1>4 DEF NoneNew
<1>6. PageMoves
  BY <1>4 DEF PageMoves, Handlers
<1>7. PageOK(page')
  BY <1>1, <1>2, PageInitOK
<1>8. clicks' \in Int /\ clicks \in Int
  BY <1>2 DEF AloneInv
<1> QED
  BY <1>2, <1>4, <1>5, <1>6, <1>7, <1>8, PlainStep, ClickAccounted
-----------------------------------------------------------------------------
(* The custom rules page, step by step *)

RulesClick == /\ page.name = "custom-rules" /\ clicks' = clicks - 1
              /\ Clicked /\ ComposerFields \subseteq DOMAIN page /\ page.tab \in Tabs

\* A click on the custom rules page.
LEMMA RulesClicked ==
  ASSUME AloneInv, Rules \/ Click("custom-rules") PROVE RulesClick
BY ClickIs DEF Rules, AloneInv, PageOK, RulesClick

\* An entry is typed or taken away.
LEMMA TokensStep ==
  ASSUME AloneInv, ConvergeInv', ComposerFree, NEW x, Rerender([page EXCEPT !.tokens[page.tab] = x])
  PROVE  AloneInv' /\ Accounted
<1>1. PICK q : q = [page EXCEPT !.tokens = [page.tokens EXCEPT ![page.tab] = x]] /\ Rerender(q)
  OBVIOUS
<1>2. RulesClick /\ ~page.loading
  BY RulesClicked DEF ComposerFree
<1>3. PageOK(page)
  BY DEF AloneInv
<1>4. PageOK(q) /\ q.name = "custom-rules"
  BY <1>1, <1>2, <1>3 DEF RulesClick, PageOK, ComposerFields
<1>5. page' = CustomRulesEffects(q, store) /\ UNCHANGED <<calls, answers, db>>
  BY <1>1 DEF Rerender, Local
<1>6. PageOK(page')
  BY <1>4, <1>5, EffectsCustom DEF Eases
<1>7. clicks' = clicks - 1
  BY <1>2 DEF RulesClick
<1> QED
  BY <1>2, <1>5, <1>6, <1>7, TypeStep

\* The other tab.
LEMMA ShowTabStep == ASSUME AloneInv, ConvergeInv', NEW t, ShowTab(t) PROVE AloneInv' /\ Accounted
<1>1. PICK q : /\ q = [page EXCEPT !.tab = t, !.selected = {}, !.naming = FALSE, !.dropRule = Null]
               /\ Rerender(q) /\ t \in Tabs
  BY DEF ShowTab
<1>2. RulesClick
  BY RulesClicked DEF ShowTab
<1>3. PageOK(page)
  BY DEF AloneInv
<1>4. /\ DOMAIN q = DOMAIN page /\ q.name = page.name /\ q.tab = t
      /\ q.tokens = page.tokens /\ q.profile = page.profile /\ q.loading = page.loading
  BY <1>1, <1>2, <1>3 DEF RulesClick, PageOK, ComposerFields
<1>5. Edits(page, q) /\ Holds(page, q)
  BY <1>1, <1>2, <1>3, <1>4 DEF RulesClick, PageOK, Edits, Holds
<1>6. page' = CustomRulesEffects(q, store) /\ UNCHANGED <<calls, answers, db>>
  BY <1>1 DEF Rerender, Local
<1>7. Eases(page, page') /\ Holds(page, page')
  BY <1>3, <1>5, <1>6, EditKeeps
<1> QED
  BY <1>2, <1>6, <1>7, LocalStep DEF RulesClick

\* A row is moved.
LEMMA MoveStep ==
  ASSUME AloneInv, ConvergeInv', NEW s, NEW r, NEW group, NEW p, OtherFields(page, p), Clicked,
         MoveRule(s, r, group, p)
  PROVE  AloneInv' /\ Accounted
<1>1. PICK kind, ops, revert, extra :
        /\ kind = "move" /\ Start(Handler(kind, ops, revert, extra), p)
  BY DEF MoveRule
<1> QED
  BY <1>1, OtherStart

\* A row is dropped on another.
LEMMA DragEndStep == ASSUME AloneInv, ConvergeInv', NEW o, DragEnd(o) PROVE AloneInv' /\ Accounted
<1>1. PICK s, p : /\ p = [page EXCEPT !.dragging = Null, !.local = s]
                  /\ \/ \E r, group : MoveRule(s, r, group, p)
                     \/ \E ops, extra : Start(Handler("reorder", ops, TRUE, extra), p)
                     \/ Local(p)
  BY DEF DragEnd
<1>2. OtherFields(page, p) /\ Clicked
  BY <1>1 DEF DragEnd, OtherFields, ComposerFields, Clicked
<1>3. CASE \E r, group : MoveRule(s, r, group, p)
  BY <1>2, <1>3, MoveStep
<1>4. CASE \E ops, extra : Start(Handler("reorder", ops, TRUE, extra), p)
  <2>1. PICK kind, ops, revert, extra : kind = "reorder" /\ Start(Handler(kind, ops, revert, extra), p)
    BY <1>4
  <2> QED
    BY <1>2, <2>1, OtherStart
<1>5. CASE Local(p)
  BY <1>2, <1>5, OtherLocal
<1> QED
  BY <1>1, <1>3, <1>4, <1>5

\* The steps of the rows: they change other fields of the page.
LEMMA RowStep ==
  ASSUME AloneInv, ConvergeInv',
         \/ EditCancel \/ StartNaming \/ CancelNaming \/ Search
         \/ \E x : Select(x) \/ DragStart(x) \/ EditOpen(x) \/ DragOver(x) \/ DragDrop(x)
  PROVE  AloneInv' /\ Accounted
<1> USE DEF OtherFields, ComposerFields
<1>1. CASE EditCancel \/ \E x : EditOpen(x)
  <2>1. PICK p, x : p = [page EXCEPT !.editing = x] /\ Rerender(p)
    BY <1>1 DEF EditCancel, EditOpen
  <2>2. OtherFields(page, p)
    BY <2>1
  <2>3. Clicked
    BY <1>1, RulesClicked DEF EditCancel, EditOpen, RulesClick
  <2> QED
    BY <2>1, <2>2, <2>3, RowsStep
<1>2. CASE Search \/ \E x : Select(x)
  <2>1. PICK p, x : /\ p = [page EXCEPT !.search = x] \/ p = [page EXCEPT !.selected = x]
                    /\ Rerender(p)
    BY <1>2 DEF Search, Select
  <2>2. OtherFields(page, p)
    BY <2>1
  <2>3. Clicked
    BY <1>2, RulesClicked DEF Search, Select, RulesClick
  <2> QED
    BY <2>1, <2>2, <2>3, RowsStep
<1>3. CASE StartNaming \/ CancelNaming \/ \E x : DragStart(x)
  <2>1. PICK p, x : /\ \/ p = [page EXCEPT !.naming = TRUE]
                       \/ p = [page EXCEPT !.naming = FALSE, !.dropRule = Null]
                       \/ p = [page EXCEPT !.dragging = x]
                    /\ Local(p)
    BY <1>3 DEF StartNaming, CancelNaming, DragStart
  <2>2. OtherFields(page, p)
    BY <2>1
  <2>3. Clicked
    BY <1>3, RulesClicked DEF StartNaming, CancelNaming, DragStart, RulesClick
  <2> QED
    BY <2>1, <2>2, <2>3, RowsStep
<1>4. CASE \E x : DragOver(x)
  <2>1. PICK p, x : p = [page EXCEPT !.local = x] /\ Local(p)
    BY <1>4 DEF DragOver
  <2>2. OtherFields(page, p)
    BY <2>1
  <2>3. Clicked
    BY <1>4 DEF DragOver, Clicked
  <2> QED
    BY <2>1, <2>2, <2>3, RowsStep
<1>5. CASE \E x : DragDrop(x)
  <2>1. PICK p, x, y, z : /\ p = [page EXCEPT !.local = x, !.dragging = Null, !.naming = y, !.dropRule = z]
                          /\ Local(p)
    BY <1>5 DEF DragDrop
  <2>2. OtherFields(page, p)
    BY <2>1
  <2>3. Clicked
    BY <1>5 DEF DragDrop, Clicked
  <2> QED
    BY <2>1, <2>2, <2>3, RowsStep
<1> QED
  BY <1>1, <1>2, <1>3, <1>4, <1>5

\* The steps of the custom rules page.
LEMMA CustomRulesStep == ASSUME AloneInv, ConvergeInv', CustomRulesNext PROVE AloneInv' /\ Accounted
<1>1. CASE \/ EditCancel \/ StartNaming \/ CancelNaming \/ Search
           \/ \E x : Select(x) \/ DragStart(x) \/ EditOpen(x) \/ DragOver(x) \/ DragDrop(x)
  BY <1>1, RowStep
<1>2. ASSUME NEW v, AddToken(v) PROVE AloneInv' /\ Accounted
  <2>1. PICK x : ComposerFree /\ Rerender([page EXCEPT !.tokens[page.tab] = x])
    BY <1>2 DEF AddToken
  <2> QED
    BY <2>1, TokensStep
<1>3. ASSUME NEW vs, RemoveTokens(vs) PROVE AloneInv' /\ Accounted
  <2>1. PICK x : ComposerFree /\ Rerender([page EXCEPT !.tokens[page.tab] = x])
    BY <1>3 DEF RemoveTokens
  <2> QED
    BY <2>1, TokensStep
<1>4. CASE BulkDelete
  <2>1. PICK kind, ops, extra : kind = "bulk" /\ Busy(kind, ops, extra)
    BY <1>4 DEF BulkDelete
  <2>2. Clicked
    BY <1>4, RulesClicked DEF BulkDelete, RulesClick
  <2> QED
    BY <2>1, <2>2, BusyStep
<1>5. ASSUME NEW r, EntryDelete(r) PROVE AloneInv' /\ Accounted
  <2>1. PICK kind, ops, revert, extra, p :
          /\ kind = "deleteTimer" /\ p = [page EXCEPT !.removing = @ \cup {r}]
          /\ Start(Handler(kind, ops, revert, extra), p)
    BY <1>5 DEF EntryDelete
  <2>2. OtherFields(page, p)
    BY <2>1 DEF OtherFields, ComposerFields
  <2>3. Clicked
    BY <1>5, RulesClicked DEF EntryDelete, RulesClick
  <2> QED
    BY <2>1, <2>2, <2>3, OtherStart
<1>6. ASSUME NEW list, NEW g, EditSave(list, g) PROVE AloneInv' /\ Accounted
  <2>1. Clicked
    BY <1>6, RulesClicked DEF EditSave, RulesClick
  <2>2. CASE Rerender([page EXCEPT !.editing = Null])
    <3>1. PICK p : p = [page EXCEPT !.editing = Null] /\ Rerender(p)
      BY <2>2
    <3>2. OtherFields(page, p)
      BY <3>1 DEF OtherFields, ComposerFields
    <3> QED
      BY <2>1, <3>1, <3>2, RowsStep
  <2>3. CASE ~Rerender([page EXCEPT !.editing = Null])
    <3>1. PICK kind, ops, extra : kind = "edit" /\ Busy(kind, ops, extra)
      BY <1>6, <2>3 DEF EditSave
    <3> QED
      BY <2>1, <3>1, BusyStep
  <2> QED
    BY <2>2, <2>3
<1>7. ASSUME NEW op, Clicked, GroupOps(op) PROVE AloneInv' /\ Accounted
  <2>1. PICK kind, ops, revert, extra, p :
          kind = "group" /\ p = page /\ Start(Handler(kind, ops, revert, extra), p)
    BY <1>7 DEF GroupOps
  <2>2. OtherFields(page, p)
    BY <2>1 DEF OtherFields
  <2> QED
    BY <1>7, <2>1, <2>2, OtherStart
<1>8. ASSUME NEW g, NEW h, DeleteGroup(g) \/ SaveGroupNote(g) \/ RenameGroup(g, h)
      PROVE  AloneInv' /\ Accounted
  <2>1. Clicked
    BY <1>8, RulesClicked DEF DeleteGroup, SaveGroupNote, RenameGroup, RulesClick
  <2>2. \E op : GroupOps(op)
    BY <1>8 DEF DeleteGroup, SaveGroupNote, RenameGroup
  <2> QED
    BY <1>7, <2>1, <2>2
<1>9. ASSUME NEW g, CreateGroup(g) PROVE AloneInv' /\ Accounted
  <2>1. PICK kind, ops, revert, extra, p :
          /\ kind = "group" /\ p = [page EXCEPT !.naming = FALSE]
          /\ Start(Handler(kind, ops, revert, extra), p)
    BY <1>9 DEF CreateGroup
  <2>2. OtherFields(page, p)
    BY <2>1 DEF OtherFields, ComposerFields
  <2>3. Clicked
    BY <1>9, RulesClicked DEF CreateGroup, RulesClick
  <2> QED
    BY <2>1, <2>2, <2>3, OtherStart
<1>10. ASSUME NEW i, NEW j, ReorderGroups(i, j) PROVE AloneInv' /\ Accounted
  <2>1. PICK kind, ops, revert, extra, x, p :
          /\ kind = "reorderGroups" /\ p = [page EXCEPT !.groupOrder = x]
          /\ Start(Handler(kind, ops, revert, extra), p)
    BY <1>10 DEF ReorderGroups
  <2>2. OtherFields(page, p)
    BY <2>1 DEF OtherFields, ComposerFields
  <2>3. Clicked
    BY <1>10, RulesClicked DEF ReorderGroups, RulesClick
  <2> QED
    BY <2>1, <2>2, <2>3, OtherStart
<1>11. ASSUME NEW g, NameDropped(g) PROVE AloneInv' /\ Accounted
  <2>1. PICK s, r, p : p = [page EXCEPT !.naming = FALSE, !.dropRule = Null] /\ MoveRule(s, r, g, p)
    BY <1>11 DEF NameDropped
  <2>2. OtherFields(page, p)
    BY <2>1 DEF OtherFields, ComposerFields
  <2>3. Clicked
    BY <1>11, RulesClicked DEF NameDropped, RulesClick
  <2> QED
    BY <2>1, <2>2, <2>3, MoveStep
<1> QED
  BY <1>1, <1>2, <1>3, <1>4, <1>5, <1>6, <1>8, <1>9, <1>10, <1>11, SubmitStep, DragEndStep,
     ShowTabStep, AnsweredStep, FiresStep, PartlyStep
  DEF CustomRulesNext
-----------------------------------------------------------------------------
(* The profile menu *)

\* The user clicks in the menu, which starts nothing.
LEMMA MenuLocalStep == ASSUME AloneInv, ConvergeInv', NEW m, MenuLocal(m) PROVE AloneInv' /\ Accounted
<1>1. UNCHANGED <<page, calls, answers, db>> /\ Clicked
  BY DEF MenuLocal, MenuClick, Clicked
<1>2. Eases(page, page') /\ Holds(page, page')
  BY <1>1, SamePage
<1> QED
  BY <1>1, <1>2, LocalStep

\* Another profile is chosen.
LEMMA SwitchStep == ASSUME AloneInv, ConvergeInv', NEW i, SwitchProfile(i) PROVE AloneInv' /\ Accounted
<1>1. PICK st : page' = Effects(page, st)
  BY DEF SwitchProfile
<1>2. UNCHANGED <<calls, answers, db>> /\ Clicked
  BY DEF SwitchProfile, MenuClick, Clicked
<1>3. Eases(page, page') /\ Holds(page, page')
  BY <1>1, EffectsEases DEF AloneInv
<1> QED
  BY <1>2, <1>3, LocalStep

\* A handler of the menu starts.
LEMMA MenuStartStep ==
  ASSUME AloneInv, ConvergeInv', NEW kind, kind \notin {"revalidate", "nrd", "compose"},
         NEW ops, NEW extra, NEW i,
         MenuStart(Handler(kind, ops, FALSE, extra))
         \/ MenuStart([Handler(kind, ops, FALSE, extra) EXCEPT !.id = i])
  PROVE  AloneInv' /\ Accounted
<1>1. PICK h, p : /\ \/ h = [Handler(kind, ops, FALSE, extra) EXCEPT !.mine = FALSE]
                     \/ h = [[Handler(kind, ops, FALSE, extra) EXCEPT !.id = i] EXCEPT !.mine = FALSE]
                  /\ p = page /\ Start(h, p)
  BY DEF MenuStart
<1>2. h.kind = kind /\ (h.alone => Quiet)
  BY <1>1 DEF Handler
<1>3. clicks' = clicks - 1 /\ page' = page /\ PageOK(p)
  BY <1>1 DEF MenuStart, MenuClick, Start, AloneInv
<1>4. clicks' \in Int
  BY <1>3 DEF AloneInv
<1>5. AloneInv'
  BY <1>1, <1>2, <1>3, <1>4, StartStep
<1> QED
  BY <1>3, <1>5, SamePage

\* A handler of the menu makes way for at most a read, and another page is mounted.
LEMMA MountsStep ==
  ASSUME AloneInv, ConvergeInv', NEW c \in calls, c.kind \notin {"revalidate", "nrd", "compose"},
         NEW D, \A d \in D : CallOK(d) /\ Follows(c, d) /\ d.kind \notin {"nrd", "compose"},
         \A d, e \in D : d = e,
         NEW cs, cs = (calls \ {c}) \cup D,
         NEW as, KeptOf(answers, as), Sequence(as), \A k \in 1 .. Len(as) : AnswerOK(as[k]),
         NEW p, PageOK(p), p.name # "custom-rules", Mount(p, cs, as), clicks' = clicks, ServerLists'
  PROVE  AloneInv' /\ Accounted
<1>1. SoloOf(cs, as)
  <2>1. PICK ds, bs : ds = calls /\ bs = answers
    OBVIOUS
  <2>2. SoloOf(ds, bs) /\ KeptOf(bs, as) /\ c \in ds
    BY <2>1 DEF AloneInv, Solo
  <2>3. AllFollow(bs, as)
    BY <2>2, KeptFollow
  <2>4. SoloOf((ds \ {c}) \cup D, as)
    BY <2>2, <2>3, SoloReplaced
  <2> QED
    BY <2>1, <2>4
<1>2. Mountable(cs, as)
  BY DEF AloneInv, ConvergeInv, Shape, Mountable
<1>3. Solo' /\ \A kind : kind # "revalidate" => NoneNewOf(kind, cs, as, calls', answers')
  BY <1>1, <1>2, StepMounts
<1>4. ASSUME NEW kind \in {"nrd", "compose"} PROVE NoneNew(kind)
  <2>1. NoneNewOf(kind, cs, as, calls', answers')
    BY <1>3
  <2>2. \A d \in calls' : d.kind = kind => \E b \in calls : Lowered(b, d)
    <3> SUFFICES ASSUME NEW d \in calls', d.kind = kind PROVE \E b \in calls : Lowered(b, d)
      OBVIOUS
    <3>1. PICK b \in cs : Lowered(b, d)
      BY <2>1 DEF NoneNewOf
    <3>2. b.kind = kind
      BY <3>1 DEF Lowered, CallFields
    <3> QED
      BY <3>1, <3>2
  <2>3. \A k \in 1 .. Len(answers') : answers'[k].call.kind = kind =>
           \E m \in 1 .. Len(answers) : Lowered(answers[m].call, answers'[k].call)
    BY <2>1 DEF NoneNewOf, KeptOf
  <2> QED
    BY <2>2, <2>3 DEF NoneNew, NoneNewOf
<1>5. page' = p /\ PageOK(page') /\ clicks' \in Int
  BY DEF Mount, AloneInv
<1>6. Accounted
  BY <1>5 DEF Accounted
<1> QED
  BY <1>3, <1>4, <1>5, <1>6, BesideStep

\* A read that takes the place of a handler of the menu.
LEMMA RefetchFollows ==
  ASSUME NEW c, c.kind # "revalidate", NEW kind, kind # "revalidate", NEW i, NEW x
  PROVE  LET r == Refetch(kind, i, x) IN Follows(c, r) /\ r.kind = kind
BY DEF Refetch, Follows, Waits

\* The setup page, where the menu's handlers lead, has no composer.
LEMMA SetupPage == ASSUME NEW st PROVE LET p == PageInit("setup", st) IN PageOK(p) /\ p.name = "setup"
BY DEF PageInit, PageOK

\* A profile is created.
LEMMA CreatedStep == ASSUME AloneInv, ConvergeInv', NEW c \in calls, Created(c) PROVE AloneInv' /\ Accounted
<1>1. PICK i, p, r, D, cs, as :
        /\ r = Refetch("selectListed", i, "create") /\ D = {r}
        /\ cs = (calls \ {c}) \cup D /\ as = answers /\ p = PageInit("setup", store) /\ Mount(p, cs, as)
        /\ db' = [j \in DOMAIN db \cup {i} |-> IF j = i THEN NewProfile(i) ELSE db[j]]
  BY DEF Created
<1>2. c.kind = "create" /\ clicks' = clicks
  BY DEF Created
<1>3. CallOK(r) /\ Follows(c, r) /\ r.kind = "selectListed"
  <2>1. c.kind # "revalidate"
    BY <1>2
  <2>2. CallOK(Refetch("selectListed", i, "create"))
    BY RefetchOK
  <2>3. LET q == Refetch("selectListed", i, "create") IN Follows(c, q) /\ q.kind = "selectListed"
    BY <2>1, RefetchFollows
  <2>4. r = Refetch("selectListed", i, "create")
    BY <1>1
  <2> QED
    BY <2>2, <2>3, <2>4
<1>4. ServerLists'
  <2>1. "lists" \in DOMAIN NewProfile(i)
    BY DEF NewProfile
  <2> QED
    BY <1>1, <2>1 DEF ServerLists, AloneInv
<1>5. PageOK(p) /\ p.name = "setup"
  BY <1>1, SetupPage
<1>6. KeptOf(answers, as) /\ Sequence(as) /\ \A k \in 1 .. Len(as) : AnswerOK(as[k])
  BY <1>1 DEF KeptOf, AloneInv, ConvergeInv, Shape
<1>7. /\ \A d \in D : CallOK(d) /\ Follows(c, d) /\ d.kind \notin {"nrd", "compose"}
      /\ \A d, e \in D : d = e
  BY <1>1, <1>3
<1> QED
  BY <1>1, <1>2, <1>4, <1>5, <1>6, <1>7, MountsStep

\* A profile is deleted.
LEMMA RemovedStep == ASSUME AloneInv, ConvergeInv', NEW c \in calls, Removed(c) PROVE AloneInv' /\ Accounted
<1>1. PICK p, r, D, cs, as :
        /\ r = Refetch("afterDelete", c.id, c.extra) /\ D \in {{}, {r}}
        /\ cs = (calls \ {c}) \cup D /\ as = Late(answers, c.id)
        /\ p = PageInit("setup", store) /\ Mount(p, cs, as)
  <2>1. CASE c.kind = "remove"
    <3>1. Mount(PageInit("setup", store), calls \ {c}, Late(answers, c.id))
      BY <2>1 DEF Removed
    <3>2. calls \ {c} = (calls \ {c}) \cup {}
      OBVIOUS
    <3> QED
      BY <3>1, <3>2
  <2>2. CASE c.kind = "menuRemove"
    BY <2>2 DEF Removed
  <2> QED
    BY <2>1, <2>2 DEF Removed
<1>2. c.kind \in {"remove", "menuRemove"} /\ clicks' = clicks /\ db' = [i \in DOMAIN db \ {c.id} |-> db[i]]
  BY DEF Removed
<1>3. CallOK(r) /\ Follows(c, r) /\ r.kind = "afterDelete"
  <2>1. c.kind # "revalidate"
    BY <1>2
  <2>2. CallOK(Refetch("afterDelete", c.id, c.extra))
    BY RefetchOK
  <2>3. LET q == Refetch("afterDelete", c.id, c.extra) IN Follows(c, q) /\ q.kind = "afterDelete"
    BY <2>1, RefetchFollows
  <2>4. r = Refetch("afterDelete", c.id, c.extra)
    BY <1>1
  <2> QED
    BY <2>2, <2>3, <2>4
<1>4. ServerLists'
  BY <1>2 DEF ServerLists, AloneInv
<1>5. PageOK(p) /\ p.name = "setup"
  BY <1>1, SetupPage
<1>6. KeptOf(answers, as) /\ Sequence(as) /\ \A k \in 1 .. Len(as) : AnswerOK(as[k])
  <2>1. LET L == Late(answers, c.id)
        IN /\ Sequence(L) /\ Len(L) = Len(answers)
           /\ \A k \in 1 .. Len(answers) : AnswerOK(L[k]) /\ L[k].call = answers[k].call
    BY LateShape DEF AloneInv, ConvergeInv
  <2> QED
    BY <1>1, <2>1 DEF KeptOf
<1>7. /\ \A d \in D : CallOK(d) /\ Follows(c, d) /\ d.kind \notin {"nrd", "compose"}
      /\ \A d, e \in D : d = e
  BY <1>1, <1>3
<1> QED
  BY <1>1, <1>2, <1>4, <1>5, <1>6, <1>7, MountsStep

\* A profile is renamed.
LEMMA RenamedStep == ASSUME AloneInv, ConvergeInv', NEW c \in calls, Renamed(c) PROVE AloneInv' /\ Accounted
<1>1. PICK r : /\ r = Refetch("selectListed", c.id, Null)
               /\ c.kind = "rename" /\ calls' = (calls \ {c}) \cup {r} /\ Missed(c.id)
               /\ db' = [db EXCEPT ![c.id] = Serve(Head(c.ops), @)]
               /\ UNCHANGED <<page, clicks>>
  BY DEF Renamed
<1>2. Follows(c, r) /\ r.kind = "selectListed"
  BY <1>1, RefetchFollows
<1>3. KeptOf(answers, answers')
  BY <1>1, LateKept DEF Missed, AloneInv, ConvergeInv
<1>4. Solo' /\ NoneNew("compose") /\ NoneNew("nrd")
  BY <1>1, <1>2, <1>3, StepBecomes DEF AloneInv
<1>5. ServerLists'
  BY <1>1, ServedLists DEF AloneInv
<1>6. PageOK(page') /\ Accounted /\ clicks' \in Int
  BY <1>1, SamePage DEF AloneInv
<1> QED
  BY <1>1, <1>4, <1>5, <1>6, BesideStep

\* The steps of the menu.
LEMMA MenuStep == ASSUME AloneInv, ConvergeInv', MenuSteps PROVE AloneInv' /\ Accounted
<1>1. CASE (\E d : OpenMenuDialog(d)) \/ OpenMenuDelete \/ CloseMenuDialog
  <2>1. \E m : MenuLocal(m)
    BY <1>1 DEF OpenMenuDialog, OpenMenuDelete, CloseMenuDialog
  <2> QED
    BY <2>1, MenuLocalStep
<1>2. CASE CreateSubmit \/ RenameSubmit \/ MenuDeleteSubmit
  <2>1. \E ops, extra, i :
           \/ MenuStart(Handler("create", ops, FALSE, extra))
           \/ MenuStart([Handler("rename", ops, FALSE, extra) EXCEPT !.id = i])
           \/ MenuStart([Handler("menuRemove", ops, FALSE, extra) EXCEPT !.id = i])
    BY <1>2 DEF CreateSubmit, RenameSubmit, MenuDeleteSubmit
  <2> QED
    BY <2>1, MenuStartStep
<1> QED
  BY <1>1, <1>2, SwitchStep, CreatedStep, RenamedStep, RemovedStep DEF MenuSteps
-----------------------------------------------------------------------------
(* The theorems *)

\* The invariant holds when the application is opened.
LEMMA AloneInit == Init => AloneInv
<1> SUFFICES ASSUME Init PROVE AloneInv
  OBVIOUS
<1>1. ConvergeInv
  BY ConvergeInit
<1>2. calls = {} /\ answers = << >> /\ Len(answers) = 0 /\ clicks = MaxClicks
  BY DEF Init
<1>3. Solo /\ RangeInv
  BY <1>2 DEF Solo, SoloOf, RangeInv
<1>4. Batches /\ AnsweredBatches
  BY <1>2 DEF Batches, AnsweredBatches, Handlers
<1>5. clicks \in Int
  BY <1>2, BoundsAssumption
<1>6. ServerLists
  <2>1. db = [i \in {p.id : p \in Profiles} |-> CHOOSE p \in Profiles : p.id = i]
    BY DEF Init
  <2>2. \A i \in {p.id : p \in Profiles} : (CHOOSE p \in Profiles : p.id = i) \in Profiles
    OBVIOUS
  <2>3. \A i \in DOMAIN db : db[i] \in Profiles
    BY <2>1, <2>2
  <2> QED
    BY <2>3, ProfilesAssumption DEF ServerLists
<1>7. PageOK(page)
  BY PageInitOK DEF Init
<1> QED
  BY <1>1, <1>3, <1>4, <1>5, <1>6, <1>7 DEF AloneInv

\* Every step keeps it, and accounts for the composer's entries.
LEMMA AloneStep == ASSUME NullHasNoId, AloneInv, Next PROVE AloneInv' /\ Accounted
<1>1. ConvergeInv'
  BY ConvergeStep DEF AloneInv
<1>2. CASE PageSteps
  BY <1>1, <1>2, BlocklistsStep, CustomRulesStep, SettingsStep, ServedStep, ReadStep DEF PageSteps
<1>3. CASE MenuSteps
  BY <1>1, <1>3, MenuStep
<1>4. CASE \E name \in Pages : Navigate(name)
  BY <1>1, <1>4, NavigateStep
<1>5. CASE \E i \in DOMAIN answers : Deliver(i)
  BY <1>1, <1>5, DeliverStep
<1>6. CASE \E c \in calls : Fail(c)
  BY <1>1, <1>6, FailStep
<1> QED
  BY <1>2, <1>3, <1>4, <1>5, <1>6 DEF Next

\* A step that changes none of the pages' variables keeps it.
LEMMA AloneStays == ASSUME AloneInv, UNCHANGED pageVars PROVE AloneInv'
<1>1. UNCHANGED <<store, page, calls, answers, db, behind, clicks>>
  BY DEF pageVars
<1>2. ConvergeInv'
  BY <1>1, ClickKeeps DEF Still, AloneInv
<1>3. Eases(page, page') /\ Holds(page, page')
  BY <1>1, SamePage
<1> QED
  BY <1>1, <1>2, <1>3, LocalStep DEF Clicked

\* What the requests of the range lead to is what they leave.
LEMMA AloneRange == AloneInv => RangeExact
<1> SUFFICES ASSUME AloneInv, NEW c \in calls, c.kind = "nrd", c.alone, c.ops = << >>, ~c.failed,
                    c.id \in DOMAIN db
             PROVE  db[c.id].lists \cap AllTiers = FirstTiers(c.extra)
  BY DEF RangeExact, AllTiers, FirstTiers
<1>1. LeadsTo(c.ops, db[c.id].lists, c.extra)
  BY DEF AloneInv, RangeInv
<1>2. \A x, y : << >> # <<x>> /\ << >> # <<x, y>>
  OBVIOUS
<1> QED
  BY <1>1, <1>2 DEF LeadsTo, Exact

\* Whatever lists of the range were enabled, whatever the catalog has of them and whatever
\* fails on the way: a depth chosen on the range card that is applied alone, from an up to
\* date copy, leaves the first tiers up to it enabled on the server and no other.
THEOREM RangeLeavesTiers == ASSUME NullHasNoId PROVE Spec => []RangeExact
<1>1. Init => AloneInv
  BY AloneInit
<1>2. AloneInv /\ [Next]_pageVars => AloneInv'
  BY AloneStep, AloneStays
<1>3. AloneInv => RangeExact
  BY AloneRange
<1> QED
  BY <1>1, <1>2, <1>3, PTL DEF Spec

\* Whatever the pages do meanwhile: while the user does nothing and the profile stays, an
\* entry leaves the composer only when the answer being handled created it.
THEOREM TokensStay == ASSUME NullHasNoId PROVE Spec => TokensAccounted
<1>1. Init => AloneInv
  BY AloneInit
<1>2. AloneInv /\ [Next]_pageVars => AloneInv'
  BY AloneStep, AloneStays
<1>3. AloneInv /\ [Next]_pageVars => [Accounted]_pageVars
  BY AloneStep
<1>4. AloneInv /\ [Next]_pageVars =>
        [page.name = "custom-rules" /\ page'.name = "custom-rules" /\ clicks' = clicks
         /\ page'.profile = page.profile /\ ComposersAlone =>
           \A t \in Tabs : TokenValues(page.tokens[t]) \subseteq
              TokenValues(page'.tokens[t])
              \cup UNION {answers[i].call.extra.created :
                             i \in {j \in DOMAIN answers : answers[j].call.kind = "compose"}}]_pageVars
  BY <1>3 DEF Accounted
<1> QED
  BY <1>1, <1>2, <1>4, PTL DEF Spec, TokensAccounted
=============================================================================
