------------------------------ MODULE Dislock ------------------------------
(***************************************************************************)
(* The distributed try-lock of src/libs/dislock, one lock key.  An         *)
(* acquisition is SET NX EX with a fresh token; a release is a             *)
(* compare-and-delete script.  Commands travel to Redis: an answer may be  *)
(* lost, go-redis then repeats the command or the caller gives up, and     *)
(* the first copy may still be executed much later.  Instances crash at    *)
(* any point.  Time advances in ticks; remaining lifetimes and ages are    *)
(* kept instead of a clock, so behaviours are unbounded and states finite. *)
(***************************************************************************)
EXTENDS Integers

CONSTANTS
    Instances,          \* instances that share one Redis
    Tokens,             \* stands for the UUIDs, reused only when forgotten
    NoToken,            \* no token
    TTL,                \* ttl argument of TryLock
    CallTime,           \* longest TryLock call: socket timeouts and retries
    MaxRun              \* longest run of the guarded work

ASSUME DislockAssumption ==
    /\ NoToken \notin Tokens
    /\ TTL \in Nat \ {0} /\ CallTime \in Nat /\ MaxRun \in Nat

VARIABLES
    key,                \* the Redis key: its token and remaining lifetime,
                        \* 0 when there is no key or it has no lifetime
    phase,              \* phase[i]: where instance i is in TryLock .. Unlock
    token,              \* token[i]: Lock.token of instance i's attempt
    age,                \* age[i]: ticks spent in the call, then in the work
    late                \* commands given up by a client, still in the network

vars == <<key, phase, token, age, late>>

Phases == {"idle", "setnx", "won", "refused", "work", "unlock"}
NoKey == [token |-> NoToken, ttl |-> 0]

\* "comfortably exceed the longest expected runtime of the guarded work"
RunsFitTTL == CallTime + MaxRun < TTL

InCall(i) == phase[i] \in {"setnx", "won", "refused"}

\* uuid.NewString: a token nobody knows
Fresh(t) ==
    /\ key.token # t
    /\ \A i \in Instances : token[i] # t
    /\ \A m \in late : m.token # t

\* Mutant: EX left out, so only a release removes the key
SetNXForever(t) == IF key = NoKey THEN [token |-> t, ttl |-> 0] ELSE key

\* Mutant: a lifetime that does not cover the work
SetNXShort(t) == IF key = NoKey THEN [token |-> t, ttl |-> 1] ELSE key

\* Redis: SET key t NX EX TTL
SetNX(t) == IF key = NoKey THEN [token |-> t, ttl |-> TTL] ELSE key

\* releaseScript: delete the key when it still holds the caller's token
Release(t) == IF key.token = t THEN NoKey ELSE key

Execute(m) == IF m.cmd = "set" THEN SetNX(m.token) ELSE Release(m.token)

\* TryLock sends SETNX with a new token
TryLock(i) ==
    /\ phase[i] = "idle"
    /\ \E t \in Tokens :
        /\ Fresh(t)
        /\ token' = [token EXCEPT ![i] = t]
    /\ phase' = [phase EXCEPT ![i] = "setnx"]
    /\ age' = [age EXCEPT ![i] = 0]
    /\ UNCHANGED <<key, late>>

\* Redis executes the command; the answer is on its way back
SetNXExecuted(i) ==
    /\ phase[i] = "setnx"
    /\ key' = SetNX(token[i])
    /\ phase' = [phase EXCEPT ![i] = IF key = NoKey THEN "won" ELSE "refused"]
    /\ UNCHANGED <<token, age, late>>

\* No answer in time: go-redis sends the command once more
SetNXRetried(i) ==
    /\ phase[i] = "setnx"
    /\ late' = late \cup {[cmd |-> "set", token |-> token[i]]}
    /\ UNCHANGED <<key, phase, token, age>>

\* TryLock returns the error of a call that was never answered
SetNXFailed(i) ==
    /\ phase[i] = "setnx"
    /\ late' = late \cup {[cmd |-> "set", token |-> token[i]]}
    /\ phase' = [phase EXCEPT ![i] = "idle"]
    /\ token' = [token EXCEPT ![i] = NoToken]
    /\ age' = [age EXCEPT ![i] = 0]
    /\ UNCHANGED key

\* TryLock returns ErrNotAcquired
NotAcquired(i) ==
    /\ phase[i] = "refused"
    /\ phase' = [phase EXCEPT ![i] = "idle"]
    /\ token' = [token EXCEPT ![i] = NoToken]
    /\ age' = [age EXCEPT ![i] = 0]
    /\ UNCHANGED <<key, late>>

\* TryLock returns the Lock and the caller starts the guarded work
Acquired(i) ==
    /\ phase[i] = "won"
    /\ phase' = [phase EXCEPT ![i] = "work"]
    /\ age' = [age EXCEPT ![i] = 0]
    /\ UNCHANGED <<key, token, late>>

\* The work ends and Unlock sends the release script
Unlock(i) ==
    /\ phase[i] = "work"
    /\ phase' = [phase EXCEPT ![i] = "unlock"]
    /\ age' = [age EXCEPT ![i] = 0]
    /\ UNCHANGED <<key, token, late>>

\* The script runs and its answer is received
Released(i) ==
    /\ phase[i] = "unlock"
    /\ key' = Release(token[i])
    /\ phase' = [phase EXCEPT ![i] = "idle"]
    /\ token' = [token EXCEPT ![i] = NoToken]
    /\ UNCHANGED <<age, late>>

\* Unlock logs the failure and relies on the TTL; the script may run later
ReleaseFailed(i) ==
    /\ phase[i] = "unlock"
    /\ late' = late \cup {[cmd |-> "del", token |-> token[i]]}
    /\ phase' = [phase EXCEPT ![i] = "idle"]
    /\ token' = [token EXCEPT ![i] = NoToken]
    /\ UNCHANGED <<key, age>>

\* The process dies; a command it had sent may still reach Redis
Crash(i) ==
    /\ phase[i] # "idle"
    /\ late' = late \cup
            CASE phase[i] = "setnx"  -> {[cmd |-> "set", token |-> token[i]]}
              [] phase[i] = "unlock" -> {[cmd |-> "del", token |-> token[i]]}
              [] OTHER               -> {}
    /\ phase' = [phase EXCEPT ![i] = "idle"]
    /\ token' = [token EXCEPT ![i] = NoToken]
    /\ age' = [age EXCEPT ![i] = 0]
    /\ UNCHANGED key

\* A command its client no longer waits for is executed, or lost
LateExecuted(m) ==
    /\ m \in late
    /\ key' = Execute(m)
    /\ late' = late \ {m}
    /\ UNCHANGED <<phase, token, age>>

LateLost(m) ==
    /\ m \in late
    /\ late' = late \ {m}
    /\ UNCHANGED <<key, phase, token, age>>

\* One tick: a key whose lifetime is over disappears.  A call and a run end
\* within CallTime and MaxRun.
Tick ==
    /\ \A i \in Instances :
        /\ InCall(i) => age[i] < CallTime
        /\ phase[i] = "work" => age[i] < MaxRun
    /\ key' = CASE key.ttl = 0 -> key
                [] key.ttl = 1 -> NoKey
                [] OTHER       -> [key EXCEPT !.ttl = key.ttl - 1]
    /\ age' = [i \in Instances |->
                IF InCall(i) \/ phase[i] = "work" THEN age[i] + 1 ELSE age[i]]
    /\ UNCHANGED <<phase, token, late>>

Init ==
    /\ key = NoKey
    /\ phase = [i \in Instances |-> "idle"]
    /\ token = [i \in Instances |-> NoToken]
    /\ age = [i \in Instances |-> 0]
    /\ late = {}

Step(i) ==
    \/ TryLock(i) \/ SetNXExecuted(i) \/ SetNXRetried(i) \/ SetNXFailed(i)
    \/ NotAcquired(i) \/ Acquired(i) \/ Unlock(i) \/ Released(i)
    \/ ReleaseFailed(i) \/ Crash(i)

Next ==
    \/ \E i \in Instances : Step(i)
    \/ \E m \in late : LateExecuted(m) \/ LateLost(m)
    \/ Tick

Spec == Init /\ [][Next]_vars

(***************************************************************************)
(* Time passes; calls and runs end (TryLock by the client's timeouts, the  *)
(* work by its context deadline).  Nothing obliges an instance to try for  *)
(* the lock again, nor a late command to arrive.                           *)
(***************************************************************************)
Ends(i) == SetNXExecuted(i) \/ SetNXFailed(i) \/ NotAcquired(i)
            \/ Acquired(i) \/ Unlock(i) \/ Released(i) \/ ReleaseFailed(i)

FairSpec ==
    /\ Spec
    /\ SF_vars(Tick)
    /\ \A i \in Instances : WF_vars(Ends(i))

-----------------------------------------------------------------------------
\* The key, the instances' attempts and the commands in flight have their types;
\* the key's remaining lifetime never exceeds the TTL.
TypeOK ==
    /\ key \in [token : Tokens \cup {NoToken}, ttl : 0 .. TTL]
    /\ phase \in [Instances -> Phases]
    /\ token \in [Instances -> Tokens \cup {NoToken}]
    /\ age \in [Instances -> Nat]
    /\ late \subseteq [cmd : {"set", "del"}, token : Tokens]

Holds(i) == phase[i] = "work" /\ key.token = token[i]

(***************************************************************************)
(* dislock.go:1-2, "a unit of work runs on exactly one of several          *)
(* load-balanced service instances": never two at once, although answers   *)
(* are lost, commands are repeated and arrive late, and holders crash.     *)
(* Needs RunsFitTTL.                                                       *)
(***************************************************************************)
MutualExclusion ==
    \A i, j \in Instances : phase[i] = "work" /\ phase[j] = "work" => i = j

(***************************************************************************)
(* dislock.go:4-6: a release "can never remove a lock another instance has *)
(* since acquired (e.g. after this holder's TTL expired mid-run)".  Needs  *)
(* no bound on the run: while i works and holds the key, only expiry takes *)
(* it away.                                                                *)
(***************************************************************************)
NeverStolen ==
    [][\A i \in Instances :
        Holds(i) /\ phase'[i] = "work" => Holds(i)' \/ key.ttl = 1]_vars

(***************************************************************************)
(* dislock.go:6, "Failed releases fall back to TTL expiry": whoever's      *)
(* token is in the key, crashed, timed out or never told that it won, the  *)
(* key is freed again.                                                     *)
(***************************************************************************)
KeyFreed == \A t \in Tokens : key.token = t ~> key.token # t

L == INSTANCE Lease WITH working <- {i \in Instances : phase[i] = "work"}

\* The lock implements the lease its callers rely on
LeaseSpec == L!Spec
=============================================================================
