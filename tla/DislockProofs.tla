--------------------------- MODULE DislockProofs ---------------------------
(***************************************************************************)
(* Proofs about Dislock for any number of instances, any TTL and any       *)
(* bounds.  Two invariants, each preserved by every action:                *)
(*   BaseInv    tokens identify attempts: no two instances know the same   *)
(*              one, and a release still in the network belongs to an      *)
(*              attempt that is over; needs nothing of the bounds          *)
(*   LeaseInv   whoever has won or works is in the key, with enough        *)
(*              lifetime left for the rest of its run; needs RunsFitTTL    *)
(***************************************************************************)
EXTENDS Dislock, TLAPS

KeyInv ==
    /\ key.token = NoToken => key = NoKey
    /\ key.token # NoToken => key.ttl > 0

TokenInv ==
    /\ \A i \in Instances : phase[i] = "idle" <=> token[i] = NoToken
    /\ \A i, j \in Instances :
        i # j /\ token[i] = token[j] => token[i] = NoToken
    /\ \A i \in Instances : \A m \in late :
        m.cmd = "del" => token[i] # m.token

BaseInv == TypeOK /\ KeyInv /\ TokenInv

LeaseOf(i) ==
    /\ InCall(i) => age[i] <= CallTime
    /\ phase[i] = "work" => age[i] <= MaxRun
    /\ phase[i] = "won" =>
        key.token = token[i] /\ key.ttl + age[i] >= TTL
    /\ phase[i] = "work" =>
        key.token = token[i] /\ key.ttl + age[i] + CallTime >= TTL

LeaseInv == \A i \in Instances : LeaseOf(i)

-----------------------------------------------------------------------------
(* What the two Redis operations do to the key. *)

LEMMA NoKeyType ==
    /\ NoKey.token = NoToken /\ NoKey.ttl = 0
    /\ NoKey \in [token : Tokens \cup {NoToken}, ttl : 0 .. TTL]
BY DislockAssumption DEF NoKey

LEMMA SetNXKey ==
    ASSUME BaseInv, NEW t \in Tokens
    PROVE  /\ SetNX(t) \in [token : Tokens \cup {NoToken}, ttl : 0 .. TTL]
           /\ SetNX(t).token # NoToken /\ SetNX(t).ttl > 0
           /\ key # NoKey => SetNX(t) = key
           /\ key = NoKey => SetNX(t).token = t /\ SetNX(t).ttl = TTL
<1>1. TTL \in Nat /\ TTL > 0 /\ t # NoToken
  BY DislockAssumption
<1>2. CASE key = NoKey
  <2>1. SetNX(t) = [token |-> t, ttl |-> TTL]
    BY <1>2 DEF SetNX
  <2> QED BY <1>1, <1>2, <2>1
<1>3. CASE key # NoKey
  <2>1. SetNX(t) = key
    BY <1>3 DEF SetNX
  <2>2. key.token # NoToken /\ key.ttl > 0
    BY <1>3 DEF BaseInv, KeyInv
  <2> QED BY <1>3, <2>1, <2>2 DEF BaseInv, TypeOK
<1> QED BY <1>2, <1>3

LEMMA ReleaseKey ==
    ASSUME BaseInv, NEW t \in Tokens \cup {NoToken}
    PROVE  /\ Release(t) \in [token : Tokens \cup {NoToken}, ttl : 0 .. TTL]
           /\ Release(t).token = NoToken => Release(t) = NoKey
           /\ Release(t).token # NoToken => Release(t).ttl > 0
           /\ key.token # t => Release(t) = key
<1>1. CASE key.token = t
  BY <1>1, NoKeyType DEF Release
<1>2. CASE key.token # t
  <2>1. Release(t) = key
    BY <1>2 DEF Release
  <2> QED BY <1>2, <2>1 DEF BaseInv, TypeOK, KeyInv
<1> QED BY <1>1, <1>2

LEMMA BaseInit == Init => BaseInv
<1> SUFFICES ASSUME Init PROVE BaseInv
  OBVIOUS
<1>1. key = NoKey /\ late = {}
  BY DEF Init
<1>2. \A i \in Instances :
        phase[i] = "idle" /\ token[i] = NoToken /\ age[i] = 0
  BY DEF Init
<1>3. TypeOK
  BY <1>1, NoKeyType DEF Init, TypeOK, Phases
<1>4. KeyInv
  BY <1>1, NoKeyType DEF KeyInv
<1>5. TokenInv
  BY <1>1, <1>2 DEF TokenInv
<1> QED BY <1>3, <1>4, <1>5 DEF BaseInv

-----------------------------------------------------------------------------
(* BaseInv is preserved by every step. *)

\* Steps that end an attempt, leaving behind at most a set of commands
LEMMA EndKeepsTokens ==
    ASSUME BaseInv, NEW i \in Instances, NEW M,
           M \subseteq [cmd : {"set", "del"}, token : {token[i]}],
           phase[i] # "idle",
           phase' = [phase EXCEPT ![i] = "idle"],
           token' = [token EXCEPT ![i] = NoToken],
           late' \subseteq late \cup M
    PROVE  /\ phase' \in [Instances -> Phases]
           /\ token' \in [Instances -> Tokens \cup {NoToken}]
           /\ late' \subseteq [cmd : {"set", "del"}, token : Tokens]
           /\ TokenInv'
<1>1. token[i] \in Tokens
  BY DEF BaseInv, TypeOK, TokenInv
<1>2. phase' \in [Instances -> Phases] /\ token' \in [Instances -> Tokens \cup {NoToken}]
  BY DEF BaseInv, TypeOK, Phases
<1>3. late' \subseteq [cmd : {"set", "del"}, token : Tokens]
  BY <1>1 DEF BaseInv, TypeOK
<1>4. \A j \in Instances : phase'[j] = "idle" <=> token'[j] = NoToken
  BY DEF BaseInv, TypeOK, TokenInv
<1>5. \A j, k \in Instances :
        j # k /\ token'[j] = token'[k] => token'[j] = NoToken
  BY DEF BaseInv, TypeOK, TokenInv
<1>6. ASSUME NEW j \in Instances, NEW m \in late', m.cmd = "del"
      PROVE  token'[j] # m.token
  <2>1. m.token \in Tokens /\ m.token # NoToken
    BY <1>3, DislockAssumption
  <2>2. CASE j = i
    BY <2>1, <2>2 DEF BaseInv, TypeOK
  <2>3. CASE j # i /\ m \in late
    <3>1. token'[j] = token[j]
      BY <2>3 DEF BaseInv, TypeOK
    <3> QED BY <2>3, <3>1, <1>6 DEF BaseInv, TokenInv
  <2>4. CASE j # i /\ m \in M
    <3>1. token'[j] = token[j] /\ m.token = token[i]
      BY <2>4 DEF BaseInv, TypeOK
    <3> QED BY <2>1, <2>4, <3>1 DEF BaseInv, TokenInv
  <2> QED BY <2>2, <2>3, <2>4
<1>7. TokenInv'
  BY <1>4, <1>5, <1>6 DEF TokenInv
<1> QED BY <1>2, <1>3, <1>7

\* Steps of i that keep its token and move it between two busy phases
LEMMA MoveKeepsTokens ==
    ASSUME BaseInv, NEW i \in Instances, NEW p \in Phases \ {"idle"},
           phase[i] # "idle",
           phase' = [phase EXCEPT ![i] = p],
           UNCHANGED <<token, late>>
    PROVE  phase' \in [Instances -> Phases] /\ TokenInv'
<1>1. phase' \in [Instances -> Phases]
  BY DEF BaseInv, TypeOK
<1>2. \A j \in Instances : phase'[j] = "idle" <=> phase[j] = "idle"
  BY DEF BaseInv, TypeOK
<1> QED BY <1>1, <1>2 DEF BaseInv, TokenInv

LEMMA BaseNext == BaseInv /\ [Next]_vars => BaseInv'
<1> SUFFICES ASSUME BaseInv, [Next]_vars PROVE BaseInv'
  OBVIOUS
<1> DEFINE Keys == [token : Tokens \cup {NoToken}, ttl : 0 .. TTL]
<1> DEFINE Msgs == [cmd : {"set", "del"}, token : Tokens]
<1>t. /\ key \in Keys /\ phase \in [Instances -> Phases]
      /\ token \in [Instances -> Tokens \cup {NoToken}]
      /\ age \in [Instances -> Nat] /\ late \subseteq Msgs
      /\ KeyInv /\ TokenInv
  BY DEF BaseInv, TypeOK
<1>b. \A i \in Instances : phase[i] # "idle" => token[i] \in Tokens
  BY <1>t DEF TokenInv
<1>q. ASSUME key' \in Keys, KeyInv', phase' \in [Instances -> Phases],
             token' \in [Instances -> Tokens \cup {NoToken}],
             age' \in [Instances -> Nat], late' \subseteq Msgs, TokenInv'
      PROVE  BaseInv'
  BY <1>q DEF BaseInv, TypeOK
<1> HIDE DEF Keys, Msgs
<1>1. ASSUME NEW i \in Instances, TryLock(i) PROVE BaseInv'
  <2>1. PICK t \in Tokens : Fresh(t) /\ token' = [token EXCEPT ![i] = t]
    BY <1>1 DEF TryLock
  <2>2. /\ phase[i] = "idle" /\ phase' = [phase EXCEPT ![i] = "setnx"]
        /\ age' = [age EXCEPT ![i] = 0] /\ key' = key /\ late' = late
    BY <1>1 DEF TryLock
  <2>3. t # NoToken
    BY DislockAssumption
  <2>4. phase' \in [Instances -> Phases]
    BY <1>t, <2>2 DEF Phases
  <2>5. token' \in [Instances -> Tokens \cup {NoToken}]
    BY <1>t, <2>1
  <2>6. age' \in [Instances -> Nat]
    BY <1>t, <2>2
  <2>7. \A j \in Instances : phase'[j] = "idle" <=> token'[j] = NoToken
    BY <1>t, <2>1, <2>2, <2>3 DEF TokenInv
  <2>8. \A j, k \in Instances :
          j # k /\ token'[j] = token'[k] => token'[j] = NoToken
    BY <1>t, <2>1 DEF TokenInv, Fresh
  <2>9. \A j \in Instances : \A m \in late' :
          m.cmd = "del" => token'[j] # m.token
    BY <1>t, <2>1, <2>2 DEF TokenInv, Fresh
  <2>10. TokenInv'
    BY <2>7, <2>8, <2>9 DEF TokenInv
  <2>11. key' \in Keys /\ KeyInv'
    BY <1>t, <2>2 DEF KeyInv
  <2> QED BY <1>q, <1>t, <2>2, <2>4, <2>5, <2>6, <2>10, <2>11
<1>2. ASSUME NEW i \in Instances, SetNXExecuted(i) PROVE BaseInv'
  <2>1. /\ phase[i] = "setnx" /\ key' = SetNX(token[i])
        /\ UNCHANGED <<token, age, late>>
    BY <1>2 DEF SetNXExecuted
  <2>2. PICK p \in Phases \ {"idle"} : phase' = [phase EXCEPT ![i] = p]
    BY <1>2 DEF SetNXExecuted, Phases
  <2>3. phase' \in [Instances -> Phases] /\ TokenInv'
    BY <2>1, <2>2, MoveKeepsTokens
  <2>4. token[i] \in Tokens
    BY <1>b, <2>1
  <2>5. key' \in Keys /\ key'.token # NoToken /\ key'.ttl > 0
    BY <2>1, <2>4, SetNXKey DEF Keys
  <2>6. KeyInv'
    BY <2>5 DEF KeyInv
  <2> QED BY <1>q, <1>t, <2>1, <2>3, <2>5, <2>6
<1>3. ASSUME NEW i \in Instances, SetNXRetried(i) PROVE BaseInv'
  <2>1. /\ phase[i] = "setnx" /\ UNCHANGED <<key, phase, token, age>>
        /\ late' = late \cup {[cmd |-> "set", token |-> token[i]]}
    BY <1>3 DEF SetNXRetried
  <2>2. late' \subseteq Msgs
    BY <1>t, <1>b, <2>1 DEF Msgs
  <2>3. \A m \in late' : m.cmd = "del" => m \in late
    BY <2>1
  <2>4. TokenInv'
    BY <1>t, <2>1, <2>3 DEF TokenInv
  <2>5. KeyInv'
    BY <1>t, <2>1 DEF KeyInv
  <2> QED BY <1>q, <1>t, <2>1, <2>2, <2>4, <2>5
<1>4. ASSUME NEW i \in Instances,
             SetNXFailed(i) \/ NotAcquired(i) \/ Crash(i) PROVE BaseInv'
  <2>1. /\ phase[i] # "idle" /\ phase' = [phase EXCEPT ![i] = "idle"]
        /\ token' = [token EXCEPT ![i] = NoToken] /\ key' = key
        /\ age' = [age EXCEPT ![i] = 0]
    BY <1>4 DEF SetNXFailed, NotAcquired, Crash
  <2>2. late' \subseteq late \cup [cmd : {"set", "del"}, token : {token[i]}]
    BY <1>4 DEF SetNXFailed, NotAcquired, Crash
  <2>3. /\ phase' \in [Instances -> Phases]
        /\ token' \in [Instances -> Tokens \cup {NoToken}]
        /\ late' \subseteq [cmd : {"set", "del"}, token : Tokens]
        /\ TokenInv'
    BY <2>1, <2>2, EndKeepsTokens
  <2>4. KeyInv'
    BY <1>t, <2>1 DEF KeyInv
  <2>5. age' \in [Instances -> Nat]
    BY <1>t, <2>1
  <2> QED BY <1>q, <1>t, <2>1, <2>3, <2>4, <2>5 DEF Msgs
<1>5. ASSUME NEW i \in Instances, Acquired(i) \/ Unlock(i) PROVE BaseInv'
  <2>1. /\ phase[i] # "idle" /\ key' = key /\ UNCHANGED <<token, late>>
        /\ age' = [age EXCEPT ![i] = 0]
    BY <1>5 DEF Acquired, Unlock
  <2>2. PICK p \in Phases \ {"idle"} : phase' = [phase EXCEPT ![i] = p]
    BY <1>5 DEF Acquired, Unlock, Phases
  <2>3. phase' \in [Instances -> Phases] /\ TokenInv'
    BY <2>1, <2>2, MoveKeepsTokens
  <2>4. KeyInv'
    BY <1>t, <2>1 DEF KeyInv
  <2>5. age' \in [Instances -> Nat]
    BY <1>t, <2>1
  <2> QED BY <1>q, <1>t, <2>1, <2>3, <2>4, <2>5
<1>6. ASSUME NEW i \in Instances, Released(i) PROVE BaseInv'
  <2>1. /\ phase[i] # "idle" /\ phase' = [phase EXCEPT ![i] = "idle"]
        /\ token' = [token EXCEPT ![i] = NoToken]
        /\ key' = Release(token[i]) /\ UNCHANGED <<age, late>>
    BY <1>6 DEF Released
  <2>2. late' \subseteq late \cup {}
    BY <2>1
  <2>3. /\ phase' \in [Instances -> Phases]
        /\ token' \in [Instances -> Tokens \cup {NoToken}]
        /\ TokenInv'
    BY <2>1, <2>2, EndKeepsTokens
  <2>4. token[i] \in Tokens
    BY <1>b, <2>1
  <2>5. /\ key' \in Keys /\ (key'.token = NoToken => key' = NoKey)
        /\ (key'.token # NoToken => key'.ttl > 0)
    BY <2>1, <2>4, ReleaseKey DEF Keys
  <2>6. KeyInv'
    BY <2>5 DEF KeyInv
  <2> QED BY <1>q, <1>t, <2>1, <2>3, <2>5, <2>6
<1>7. ASSUME NEW i \in Instances, ReleaseFailed(i) PROVE BaseInv'
  <2>1. /\ phase[i] # "idle" /\ phase' = [phase EXCEPT ![i] = "idle"]
        /\ token' = [token EXCEPT ![i] = NoToken]
        /\ UNCHANGED <<key, age>>
    BY <1>7 DEF ReleaseFailed
  <2>2. late' \subseteq late \cup [cmd : {"set", "del"}, token : {token[i]}]
    BY <1>7 DEF ReleaseFailed
  <2>3. /\ phase' \in [Instances -> Phases]
        /\ token' \in [Instances -> Tokens \cup {NoToken}]
        /\ late' \subseteq [cmd : {"set", "del"}, token : Tokens]
        /\ TokenInv'
    BY <2>1, <2>2, EndKeepsTokens
  <2>4. KeyInv'
    BY <1>t, <2>1 DEF KeyInv
  <2> QED BY <1>q, <1>t, <2>1, <2>3, <2>4 DEF Msgs
<1>8. ASSUME NEW m \in late, LateExecuted(m) \/ LateLost(m) PROVE BaseInv'
  <2>1. late' = late \ {m} /\ UNCHANGED <<phase, token, age>>
    BY <1>8 DEF LateExecuted, LateLost
  <2>2. key' = key \/ key' = SetNX(m.token) \/ key' = Release(m.token)
    BY <1>8 DEF LateExecuted, LateLost, Execute
  <2>3. m.token \in Tokens
    BY <1>t DEF Msgs
  <2>4. key' \in Keys /\ KeyInv'
    <3>1. CASE key' = key
      BY <1>t, <3>1 DEF KeyInv
    <3>2. CASE key' = SetNX(m.token)
      <4>1. key' \in Keys /\ key'.token # NoToken /\ key'.ttl > 0
        BY <2>3, <3>2, SetNXKey DEF Keys
      <4> QED BY <4>1 DEF KeyInv
    <3>3. CASE key' = Release(m.token)
      <4>1. /\ key' \in Keys /\ (key'.token = NoToken => key' = NoKey)
            /\ (key'.token # NoToken => key'.ttl > 0)
        BY <2>3, <3>3, ReleaseKey DEF Keys
      <4> QED BY <4>1 DEF KeyInv
    <3> QED BY <2>2, <3>1, <3>2, <3>3
  <2>5. TokenInv'
    BY <1>t, <2>1 DEF TokenInv
  <2> QED BY <1>q, <1>t, <2>1, <2>4, <2>5
<1>9. ASSUME Tick PROVE BaseInv'
  <2>1. UNCHANGED <<phase, token, late>>
    BY <1>9 DEF Tick
  <2>2. age' \in [Instances -> Nat]
    BY <1>9, <1>t DEF Tick
  <2>3. key' \in Keys /\ KeyInv'
    <3>1. CASE key.ttl = 0
      <4>1. key' = key
        BY <1>9, <3>1 DEF Tick
      <4> QED BY <1>t, <4>1 DEF KeyInv
    <3>2. CASE key.ttl = 1
      <4>1. key' = NoKey
        BY <1>9, <3>2 DEF Tick
      <4> QED BY <4>1, NoKeyType DEF KeyInv, Keys
    <3>3. CASE key.ttl \notin {0, 1}
      <4>1. key' = [key EXCEPT !.ttl = key.ttl - 1]
        BY <1>9, <3>3 DEF Tick
      <4>2. key.ttl \in 0 .. TTL /\ key.token \in Tokens \cup {NoToken}
        BY <1>t DEF Keys
      <4>3. key'.token = key.token /\ key'.ttl = key.ttl - 1
        BY <1>t, <4>1 DEF Keys
      <4>4. key.token # NoToken
        BY <1>t, <3>3, NoKeyType DEF KeyInv
      <4>5. key'.ttl \in 0 .. TTL /\ key'.ttl > 0
        BY <3>3, <4>2, <4>3, DislockAssumption
      <4>6. key' \in Keys
        BY <1>t, <4>1, <4>3, <4>5 DEF Keys
      <4> QED BY <4>3, <4>4, <4>5, <4>6 DEF KeyInv
    <3> QED BY <3>1, <3>2, <3>3
  <2>4. TokenInv'
    BY <1>t, <2>1 DEF TokenInv
  <2> QED BY <1>q, <1>t, <2>1, <2>2, <2>3, <2>4
<1>10. ASSUME UNCHANGED vars PROVE BaseInv'
  BY <1>10, <1>t, <1>q DEF vars, KeyInv, TokenInv
<1> QED BY <1>1, <1>2, <1>3, <1>4, <1>5, <1>6, <1>7, <1>8, <1>9, <1>10
        DEF Next, Step

(***************************************************************************)
(* The state keeps its type and tokens stay unique, whatever the bounds.   *)
(***************************************************************************)
LEMMA BaseAlways == Spec => []BaseInv
BY BaseInit, BaseNext, PTL DEF Spec

(***************************************************************************)
(* Type correctness of the lock (dislock.go) for any number of instances   *)
(* and commands in flight.                                                 *)
(***************************************************************************)
THEOREM TypeCorrect == Spec => []TypeOK
<1>1. BaseInv => TypeOK
  BY DEF BaseInv
<1> QED BY <1>1, BaseAlways, PTL

-----------------------------------------------------------------------------
(* The release script cannot take a lock away from its holder. *)

\* One step cannot remove a holder's key unless its lifetime ends
LEMMA StolenStep ==
    ASSUME BaseInv, [Next]_vars, NEW i \in Instances,
           Holds(i), phase'[i] = "work"
    PROVE  Holds(i)' \/ key.ttl = 1
<1> DEFINE Kept == key'.token = key.token \/ key.ttl = 1
<1>t. /\ phase[i] = "work" /\ key.token = token[i] /\ phase'[i] = "work"
      /\ phase \in [Instances -> Phases]
      /\ token \in [Instances -> Tokens \cup {NoToken}]
      /\ key \in [token : Tokens \cup {NoToken}, ttl : 0 .. TTL]
  BY DEF Holds, BaseInv, TypeOK
<1>n. token[i] \in Tokens /\ key # NoKey
  BY <1>t, NoKeyType, DislockAssumption DEF BaseInv, TokenInv
<1>1. ASSUME NEW j \in Instances, Step(j) PROVE token'[i] = token[i] /\ Kept
  <2>1. CASE TryLock(j)
    <3>1. j # i
      BY <1>t, <2>1 DEF TryLock
    <3> QED BY <1>t, <2>1, <3>1 DEF TryLock
  <2>2. CASE SetNXExecuted(j)
    <3>1. phase[j] = "setnx" /\ key' = SetNX(token[j]) /\ token' = token
      BY <2>2 DEF SetNXExecuted
    <3>2. token[j] \in Tokens
      BY <1>t, <3>1 DEF BaseInv, TokenInv
    <3> QED BY <1>n, <3>1, <3>2, SetNXKey
  <2>3. CASE SetNXRetried(j) \/ Acquired(j) \/ Unlock(j)
    BY <2>3 DEF SetNXRetried, Acquired, Unlock
  <2>4. CASE SetNXFailed(j) \/ NotAcquired(j) \/ Crash(j) \/ ReleaseFailed(j)
    <3>1. /\ phase' = [phase EXCEPT ![j] = "idle"] /\ key' = key
          /\ token' = [token EXCEPT ![j] = NoToken]
      BY <2>4 DEF SetNXFailed, NotAcquired, Crash, ReleaseFailed
    <3>2. j # i
      BY <1>t, <3>1
    <3> QED BY <1>t, <3>1, <3>2
  <2>5. CASE Released(j)
    <3>1. /\ phase' = [phase EXCEPT ![j] = "idle"] /\ key' = Release(token[j])
          /\ token' = [token EXCEPT ![j] = NoToken]
      BY <2>5 DEF Released
    <3>2. j # i
      BY <1>t, <3>1
    <3>3. token[j] # token[i] /\ token[j] \in Tokens \cup {NoToken}
      BY <1>t, <1>n, <3>2, DislockAssumption DEF BaseInv, TokenInv
    <3>4. key' = key
      BY <1>t, <3>1, <3>3, ReleaseKey
    <3> QED BY <1>t, <3>1, <3>2, <3>4
  <2> QED BY <1>1, <2>1, <2>2, <2>3, <2>4, <2>5 DEF Step
<1>2. ASSUME NEW m \in late, LateExecuted(m) \/ LateLost(m)
      PROVE  token'[i] = token[i] /\ Kept
  <2>1. token' = token
    BY <1>2 DEF LateExecuted, LateLost
  <2>2. m.token \in Tokens /\ m.cmd \in {"set", "del"}
    BY DEF BaseInv, TypeOK
  <2>3. CASE key' = key
    BY <2>1, <2>3
  <2>4. CASE m.cmd = "set" /\ key' = SetNX(m.token)
    BY <1>n, <2>1, <2>2, <2>4, SetNXKey
  <2>5. CASE m.cmd = "del" /\ key' = Release(m.token)
    <3>1. key.token # m.token
      BY <1>t, <2>5 DEF BaseInv, TokenInv
    <3> QED BY <2>1, <2>2, <2>5, <3>1, ReleaseKey
  <2> QED BY <1>2, <2>2, <2>3, <2>4, <2>5 DEF LateExecuted, LateLost, Execute
<1>3. ASSUME Tick PROVE token'[i] = token[i] /\ Kept
  <2>1. token' = token
    BY <1>3 DEF Tick
  <2>2. CASE key.ttl = 0
    BY <1>3, <2>1, <2>2 DEF Tick
  <2>3. CASE key.ttl \notin {0, 1}
    <3>1. key' = [key EXCEPT !.ttl = key.ttl - 1]
      BY <1>3, <2>3 DEF Tick
    <3> QED BY <1>t, <2>1, <3>1
  <2> QED BY <2>1, <2>2, <2>3
<1>4. ASSUME UNCHANGED vars PROVE token'[i] = token[i] /\ Kept
  BY <1>4 DEF vars
<1>5. token'[i] = token[i] /\ Kept
  BY <1>1, <1>2, <1>3, <1>4 DEF Next
<1> QED BY <1>t, <1>5 DEF Holds

(***************************************************************************)
(* A release, however late it is executed, never removes a lock another    *)
(* instance has since acquired (releaseScript, dislock.go:27-36); needs no *)
(* bound on the guarded work.                                              *)
(***************************************************************************)
THEOREM ReleaseIsSafe == Spec => NeverStolen
<1>1. BaseInv /\ [Next]_vars =>
        [\A i \in Instances :
            Holds(i) /\ phase'[i] = "work" => Holds(i)' \/ key.ttl = 1]_vars
  BY StolenStep
<1> QED BY <1>1, BaseAlways, PTL DEF Spec, NeverStolen

-----------------------------------------------------------------------------
(* With a TTL that covers the call and the run, the lock is a lease. *)

LEMMA LeaseInit == Init => LeaseInv
BY DEF Init, LeaseInv, LeaseOf, InCall

LEMMA LeaseNext ==
    ASSUME RunsFitTTL, BaseInv, LeaseInv, [Next]_vars, NEW i \in Instances
    PROVE  LeaseOf(i)'
<1>t. /\ phase \in [Instances -> Phases] /\ age \in [Instances -> Nat]
      /\ token \in [Instances -> Tokens \cup {NoToken}]
      /\ key.ttl \in 0 .. TTL /\ LeaseOf(i)
  BY DEF BaseInv, TypeOK, LeaseInv
<1>c. TTL \in Nat /\ CallTime \in Nat /\ MaxRun \in Nat /\ TTL > 0
  BY DislockAssumption
\* It is enough to look at steps of others that keep the key while i needs it
<1>s. ASSUME phase'[i] = phase[i], token'[i] = token[i], age'[i] = age[i],
             key' = key \/ phase[i] \notin {"won", "work"}
      PROVE  LeaseOf(i)'
  BY <1>t, <1>s DEF LeaseOf, InCall
<1>k. phase[i] \in {"won", "work"} => key # NoKey /\ token[i] \in Tokens
                                        /\ key.token = token[i]
  BY <1>t, NoKeyType DEF LeaseOf, BaseInv, TokenInv
<1>1. ASSUME NEW j \in Instances, Step(j) PROVE LeaseOf(i)'
  <2>1. CASE j # i
    <3>1. phase'[i] = phase[i] /\ token'[i] = token[i] /\ age'[i] = age[i]
      BY <1>1, <1>t, <2>1 DEF Step, TryLock, SetNXExecuted, SetNXRetried,
         SetNXFailed, NotAcquired, Acquired, Unlock, Released, ReleaseFailed,
         Crash
    <3>2. key' = key \/ phase[i] \notin {"won", "work"}
      <4> SUFFICES ASSUME phase[i] \in {"won", "work"} PROVE key' = key
        OBVIOUS
      <4>1. CASE SetNXExecuted(j)
        <5>1. phase[j] = "setnx" /\ key' = SetNX(token[j])
          BY <4>1 DEF SetNXExecuted
        <5>2. token[j] \in Tokens
          BY <1>t, <5>1 DEF BaseInv, TokenInv
        <5> QED BY <1>k, <5>1, <5>2, SetNXKey
      <4>2. CASE Released(j)
        <5>1. key' = Release(token[j])
          BY <4>2 DEF Released
        <5>2. token[j] # token[i] /\ token[j] \in Tokens \cup {NoToken}
          BY <1>t, <1>k, <2>1, DislockAssumption DEF BaseInv, TokenInv
        <5> QED BY <1>k, <5>1, <5>2, ReleaseKey
      <4> QED BY <1>1, <4>1, <4>2 DEF Step, TryLock, SetNXRetried,
                 SetNXFailed, NotAcquired, Acquired, Unlock, ReleaseFailed,
                 Crash
    <3> QED BY <1>s, <3>1, <3>2
  <2>2. CASE j = i /\ TryLock(i)
    <3>1. phase'[i] = "setnx" /\ age'[i] = 0
      BY <1>t, <2>2 DEF TryLock
    <3> QED BY <1>c, <3>1 DEF LeaseOf, InCall
  <2>3. CASE j = i /\ SetNXExecuted(i)
    <3>1. /\ phase[i] = "setnx" /\ key' = SetNX(token[i])
          /\ token'[i] = token[i] /\ age'[i] = age[i]
      BY <2>3 DEF SetNXExecuted
    <3>2. token[i] \in Tokens
      BY <1>t, <3>1 DEF BaseInv, TokenInv
    <3>3. age[i] <= CallTime /\ age[i] \in Nat
      BY <1>t, <3>1 DEF LeaseOf, InCall
    <3>4. CASE key = NoKey
      <4>1. phase'[i] = "won"
        BY <1>t, <2>3, <3>4 DEF SetNXExecuted
      <4>2. key'.token = token[i] /\ key'.ttl = TTL
        BY <3>1, <3>2, <3>4, SetNXKey
      <4> QED BY <1>c, <3>1, <3>3, <4>1, <4>2 DEF LeaseOf, InCall
    <3>5. CASE key # NoKey
      <4>1. phase'[i] = "refused"
        BY <1>t, <2>3, <3>5 DEF SetNXExecuted
      <4> QED BY <3>1, <3>3, <4>1 DEF LeaseOf, InCall
    <3> QED BY <3>4, <3>5
  <2>4. CASE j = i /\ SetNXRetried(i)
    BY <1>s, <2>4 DEF SetNXRetried
  <2>5. CASE /\ j = i
             /\ \/ SetNXFailed(i) \/ NotAcquired(i) \/ Released(i)
                \/ ReleaseFailed(i) \/ Crash(i) \/ Unlock(i)
    <3>1. phase'[i] \in {"idle", "unlock"}
      BY <1>t, <2>5 DEF SetNXFailed, NotAcquired, Released, ReleaseFailed,
         Crash, Unlock
    <3> QED BY <3>1 DEF LeaseOf, InCall
  <2>6. CASE j = i /\ Acquired(i)
    <3>1. /\ phase[i] = "won" /\ phase'[i] = "work" /\ age'[i] = 0
          /\ token'[i] = token[i] /\ key' = key
      BY <1>t, <2>6 DEF Acquired
    <3>2. age[i] <= CallTime /\ age[i] \in Nat
          /\ key.token = token[i] /\ key.ttl + age[i] >= TTL
      BY <1>t, <3>1 DEF LeaseOf, InCall
    <3> QED BY <1>t, <1>c, <3>1, <3>2 DEF LeaseOf, InCall
  <2> QED BY <1>1, <2>1, <2>2, <2>3, <2>4, <2>5, <2>6 DEF Step
<1>2. ASSUME NEW m \in late, LateExecuted(m) \/ LateLost(m) PROVE LeaseOf(i)'
  <2>1. UNCHANGED <<phase, token, age>>
    BY <1>2 DEF LateExecuted, LateLost
  <2>2. m.token \in Tokens /\ m.cmd \in {"set", "del"}
    BY DEF BaseInv, TypeOK
  <2>3. CASE phase[i] \in {"won", "work"}
    <3>1. CASE m.cmd = "set" /\ key' = SetNX(m.token)
      BY <1>k, <1>s, <2>1, <2>2, <2>3, <3>1, SetNXKey
    <3>2. CASE m.cmd = "del" /\ key' = Release(m.token)
      <4>1. key.token # m.token
        BY <1>k, <2>3, <3>2 DEF BaseInv, TokenInv
      <4> QED BY <1>s, <2>1, <2>2, <3>2, <4>1, ReleaseKey
    <3>3. CASE key' = key
      BY <1>s, <2>1, <3>3
    <3> QED BY <1>2, <2>2, <3>1, <3>2, <3>3 DEF LateExecuted, LateLost, Execute
  <2> QED BY <1>s, <2>1, <2>3
<1>3. ASSUME Tick PROVE LeaseOf(i)'
  <2>1. phase' = phase /\ token' = token
    BY <1>3 DEF Tick
  <2>2. /\ InCall(i) => age[i] < CallTime
        /\ phase[i] = "work" => age[i] < MaxRun
        /\ InCall(i) \/ phase[i] = "work" => age'[i] = age[i] + 1
    BY <1>3 DEF Tick
  <2>3. CASE ~InCall(i) /\ phase[i] # "work"
    BY <2>1, <2>3 DEF LeaseOf, InCall
  <2>4. CASE phase[i] \in {"setnx", "refused"}
    BY <1>t, <1>c, <2>1, <2>2, <2>4 DEF LeaseOf, InCall
  <2>5. CASE phase[i] \in {"won", "work"}
    <3>1. key.ttl > 1
      BY <1>t, <1>c, <2>2, <2>5 DEF LeaseOf, InCall, RunsFitTTL
    <3>2. key' = [key EXCEPT !.ttl = key.ttl - 1]
      BY <1>3, <3>1, <1>t DEF Tick
    <3>3. key'.token = key.token /\ key'.ttl = key.ttl - 1
      BY <3>2 DEF BaseInv, TypeOK
    <3> QED BY <1>t, <1>c, <2>1, <2>2, <2>5, <3>3 DEF LeaseOf, InCall
  <2> QED BY <1>t, <2>3, <2>4, <2>5 DEF Phases, InCall
<1>4. ASSUME UNCHANGED vars PROVE LeaseOf(i)'
  BY <1>4, <1>s DEF vars
<1> QED BY <1>1, <1>2, <1>3, <1>4 DEF Next

LEMMA Exclusive == BaseInv /\ LeaseInv => MutualExclusion
<1> SUFFICES ASSUME BaseInv, LeaseInv, NEW i \in Instances,
                    NEW j \in Instances, phase[i] = "work", phase[j] = "work"
             PROVE  i = j
  BY DEF MutualExclusion
<1>1. key.token = token[i] /\ key.token = token[j]
  BY DEF LeaseInv, LeaseOf
<1>2. token[i] # NoToken
  BY DEF BaseInv, TokenInv
<1> QED BY <1>1, <1>2 DEF BaseInv, TokenInv

Working == {i \in Instances : phase[i] = "work"}

\* Winning the key means nobody works: the key would still be theirs
LEMMA WonAlone ==
    ASSUME BaseInv, LeaseInv, NEW i \in Instances, phase[i] = "won",
           NEW j \in Instances
    PROVE  phase[j] # "work"
<1> SUFFICES ASSUME phase[j] = "work" PROVE FALSE
  OBVIOUS
<1>1. key.token = token[i] /\ key.token = token[j] /\ i # j
  BY DEF LeaseInv, LeaseOf
<1>2. token[i] # NoToken
  BY DEF BaseInv, TokenInv
<1> QED BY <1>1, <1>2 DEF BaseInv, TokenInv

LEMMA LeaseStep ==
    ASSUME BaseInv, LeaseInv, [Next]_vars
    PROVE  [\E i \in Instances : \/ Working = {} /\ Working' = {i}
                                 \/ i \in Working /\ Working' = Working \ {i}
           ]_Working
<1>t. phase \in [Instances -> Phases]
  BY DEF BaseInv, TypeOK
<1>1. ASSUME NEW i \in Instances, NEW p \in Phases \ {"work"},
             phase' = [phase EXCEPT ![i] = p]
      PROVE  Working' = Working \ {i}
  BY <1>t, <1>1 DEF Working, Phases
<1>2. ASSUME NEW i \in Instances, Acquired(i)
      PROVE  Working = {} /\ Working' = {i}
  <2>1. phase[i] = "won" /\ phase' = [phase EXCEPT ![i] = "work"]
    BY <1>2 DEF Acquired
  <2>2. Working = {}
    BY <2>1, WonAlone DEF Working
  <2>3. \A j \in Instances : phase'[j] = "work" <=> j = i
    BY <1>t, <2>1, <2>2 DEF Working
  <2> QED BY <2>2, <2>3 DEF Working
<1>3. ASSUME NEW i \in Instances, Step(i), ~Acquired(i)
      PROVE  Working' = Working \ {i} \/ Working' = Working
  <2>1. \/ phase' = phase
        \/ \E p \in Phases \ {"work"} : phase' = [phase EXCEPT ![i] = p]
    BY <1>3 DEF Step, TryLock, SetNXExecuted, SetNXRetried, SetNXFailed,
       NotAcquired, Unlock, Released, ReleaseFailed, Crash, Phases
  <2> QED BY <1>1, <2>1 DEF Working
<1>4. CASE UNCHANGED phase
  BY <1>4 DEF Working
<1>5. CASE \E i \in Instances : Step(i)
  <2>1. PICK i \in Instances : Step(i)
    BY <1>5
  <2>2. CASE Acquired(i)
    BY <1>2, <2>2
  <2>3. CASE ~Acquired(i) /\ i \in Working
    BY <1>3, <2>1, <2>3
  <2>4. CASE ~Acquired(i) /\ i \notin Working
    BY <1>3, <2>1, <2>4
  <2> QED BY <2>2, <2>3, <2>4
<1>6. CASE \E m \in late : LateExecuted(m) \/ LateLost(m)
  BY <1>4, <1>6 DEF LateExecuted, LateLost
<1>7. CASE Tick
  BY <1>4, <1>7 DEF Tick
<1>8. CASE UNCHANGED vars
  BY <1>4, <1>8 DEF vars
<1> QED BY <1>5, <1>6, <1>7, <1>8 DEF Next

(***************************************************************************)
(* The lock implements its promise (dislock.go:1-2): if the TTL exceeds    *)
(* the longest call and run together, the guarded work runs on at most one *)
(* instance at a time, whatever is lost, repeated, late or crashed.        *)
(***************************************************************************)
THEOREM ImplementsLease ==
    ASSUME RunsFitTTL
    PROVE  Spec => LeaseSpec
<1>1. BaseInv /\ LeaseInv /\ [Next]_vars => LeaseInv'
  BY LeaseNext DEF LeaseInv
<1>2. Spec => [](BaseInv /\ LeaseInv)
  BY <1>1, BaseAlways, LeaseInit, PTL DEF Spec
<1>3. Init => L!Init
  BY DEF Init, L!Init
<1>4. BaseInv /\ LeaseInv /\ [Next]_vars =>
        [L!Next]_({i \in Instances : phase[i] = "work"})
  BY LeaseStep DEF Working, L!Next, L!Take, L!Drop
<1> QED BY <1>2, <1>3, <1>4, PTL DEF Spec, LeaseSpec, L!Spec

(***************************************************************************)
(* The same promise as an invariant, for the callers that state it so.     *)
(***************************************************************************)
THEOREM Excludes ==
    ASSUME RunsFitTTL
    PROVE  Spec => []MutualExclusion
<1>1. BaseInv /\ LeaseInv /\ [Next]_vars => LeaseInv'
  BY LeaseNext DEF LeaseInv
<1> QED BY <1>1, BaseAlways, LeaseInit, Exclusive, PTL DEF Spec
=============================================================================
