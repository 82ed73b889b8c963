---------------------------- MODULE TradingHalt ----------------------------
(***************************************************************************)
(* The trading halt across the parts that keep it: operators who halt on   *)
(* the risk dashboard (atlas/api/routes/risk_governor.py) and resume       *)
(* through prometheus/kill_switch/core.py, the Redis client the API        *)
(* process runs on (atlas/core/redis_resilience.py: the server, or an      *)
(* in-process substitute while the server was unreachable at startup), and *)
(* the autonomous analysis loop that honours the key                       *)
(* (atlas/core/autonomous_rag_analysis.py).                                *)
(***************************************************************************)
EXTENDS Naturals

CONSTANTS
  Operators,    \* people who halt and resume trading, concurrently
  Universe,     \* assets the loop analyses in one cycle
  MaxOutages,   \* bound: times the Redis server becomes unreachable
  MaxRestarts,  \* bound: times the API process restarts
  MaxMisses     \* bound: reads of the key that fail or time out

ASSUME UniverseAssumption == Universe \in Nat \ {0}
ASSUME BoundAssumption == MaxOutages \in Nat /\ MaxRestarts \in Nat /\ MaxMisses \in Nat

VARIABLES
  up,         \* the Redis server can be reached
  proxy,      \* which store SwappableRedisProxy points to
  key,        \* prometheus:trading_halted, in either store
  channel,    \* newest event on prometheus:system_halt, in either store
  audit,      \* newest line of the audit log
  pc,         \* where the call of each operator is
  loop,       \* where the analysis loop is
  todo,       \* assets the cycle still has to analyse
  wrote,      \* history: the store that took the SET of each operator's halt
  standing,   \* history: stores that took a halt answered since the last resume
  after,      \* history: analyses begun since the halt was answered
  contested,  \* history: halts in progress that a resume has overlapped
  outages, restarts, misses

stores  == <<key, channel, audit>>
budget  == <<outages, restarts, misses>>
history == <<wrote, standing, after, contested>>
vars    == <<up, proxy, stores, pc, loop, todo, history, budget>>

-----------------------------------------------------------------------------
Stores == {"server", "fallback"}
Events == {"none", "HALT", "RESUME"}

HaltSteps   == {"halt.set", "halt.publish", "halt.audit"}
ResumeSteps == {"resume.delete", "resume.trigger", "resume.publish", "resume.audit"}

Reachable(s) == s = "fallback" \/ up

\* A cycle can begin Universe analyses before the key is read again, and each
\* failed read lets one more cycle run.
Allowance == Universe * (1 + MaxMisses)

TypeOK ==
  /\ up \in BOOLEAN
  /\ proxy \in Stores
  /\ key \in [Stores -> BOOLEAN]
  /\ channel \in [Stores -> Events]
  /\ audit \in Events
  /\ pc \in [Operators -> {"idle"} \cup HaltSteps \cup ResumeSteps]
  /\ loop \in {"check", "cycle", "sleep"}
  /\ todo \in 0..Universe
  /\ wrote \in [Operators -> Stores]
  /\ standing \subseteq Stores
  /\ after \in 0..(Allowance + 1)
  /\ contested \subseteq Operators
  /\ outages \in 0..MaxOutages
  /\ restarts \in 0..MaxRestarts
  /\ misses \in 0..MaxMisses

Init ==
  /\ up = TRUE
  /\ proxy = "server"
  /\ key \in {k \in [Stores -> BOOLEAN] : ~k["fallback"]}
  /\ channel = [s \in Stores |-> "none"]
  /\ audit = "none"
  /\ pc = [o \in Operators |-> "idle"]
  /\ loop = "check" /\ todo = 0
  /\ wrote = [o \in Operators |-> "server"]
  /\ standing = {} /\ after = 0 /\ contested = {}
  /\ outages = 0 /\ restarts = 0 /\ misses = 0

Goto(o, step) == pc' = [pc EXCEPT ![o] = step]

Resuming == \E o \in Operators : pc[o] \in ResumeSteps

\* A Redis or file call raises: the request is answered with an error.
Raise(o) == Goto(o, "idle") /\ UNCHANGED <<stores, history>>

-----------------------------------------------------------------------------
(* KillSwitch.halt, called by post_kill_switch_halt once the key is verified *)

RequestHalt(o) ==
  /\ pc[o] = "idle"
  /\ Goto(o, "halt.set")
  /\ contested' = IF Resuming THEN contested \cup {o} ELSE contested \ {o}
  /\ UNCHANGED <<up, proxy, stores, loop, todo, wrote, standing, after, budget>>

\* Mutation: a failed SET is logged and the halt goes on.
SetKey_Swallowed(o) ==
  /\ pc[o] = "halt.set"
  /\ key' = [key EXCEPT ![proxy] = Reachable(proxy) \/ @]
  /\ wrote' = [wrote EXCEPT ![o] = proxy]
  /\ Goto(o, "halt.publish")
  /\ UNCHANGED <<up, proxy, channel, audit, loop, todo, standing, after, contested, budget>>

SetKey(o) ==
  /\ pc[o] = "halt.set"
  /\ \/ /\ Reachable(proxy)
        /\ key' = [key EXCEPT ![proxy] = TRUE]
        /\ wrote' = [wrote EXCEPT ![o] = proxy]
        /\ Goto(o, "halt.publish")
        /\ UNCHANGED <<channel, audit, standing, after, contested>>
     \/ ~Reachable(proxy) /\ Raise(o)
  /\ UNCHANGED <<up, proxy, loop, todo, budget>>

PublishHalt(o) ==
  /\ pc[o] = "halt.publish"
  /\ \/ /\ Reachable(proxy)
        /\ channel' = [channel EXCEPT ![proxy] = "HALT"]
        /\ Goto(o, "halt.audit")
        /\ UNCHANGED <<key, audit, history>>
     \/ ~Reachable(proxy) /\ Raise(o)
  /\ UNCHANGED <<up, proxy, loop, todo, budget>>

\* _append_audit, and the answer.  A halt that overlaps a resume makes no
\* promise: either call may have had the last word.
AnswerHalt(o) ==
  /\ pc[o] = "halt.audit"
  /\ audit' = "HALT"
  /\ Goto(o, "idle")
  /\ standing' = IF o \in contested THEN standing ELSE standing \cup {wrote[o]}
  /\ UNCHANGED <<up, proxy, key, channel, loop, todo, wrote, after, contested, budget>>

-----------------------------------------------------------------------------
(* KillSwitch.resume with the right key: no route offers it, so it is called *)
(* with a client of the server                                               *)

RequestResume(o) ==
  /\ pc[o] = "idle"
  /\ Goto(o, "resume.delete")
  /\ standing' = {} /\ after' = 0
  /\ contested' = {p \in Operators : pc[p] \in HaltSteps}
  /\ UNCHANGED <<up, proxy, stores, loop, todo, wrote, budget>>

DeleteKey(o) ==
  /\ pc[o] = "resume.delete"
  /\ \/ /\ up
        /\ key' = [key EXCEPT !["server"] = FALSE]
        /\ Goto(o, "resume.trigger")
        /\ UNCHANGED <<channel, audit, history>>
     \/ ~up /\ Raise(o)
  /\ UNCHANGED <<up, proxy, loop, todo, budget>>

\* prometheus:resume_trigger is set for a minute; nothing reads it.
SetTrigger(o) ==
  /\ pc[o] = "resume.trigger"
  /\ \/ up /\ Goto(o, "resume.publish") /\ UNCHANGED <<stores, history>>
     \/ ~up /\ Raise(o)
  /\ UNCHANGED <<up, proxy, loop, todo, budget>>

PublishResume(o) ==
  /\ pc[o] = "resume.publish"
  /\ \/ /\ up
        /\ channel' = [channel EXCEPT !["server"] = "RESUME"]
        /\ Goto(o, "resume.audit")
        /\ UNCHANGED <<key, audit, history>>
     \/ ~up /\ Raise(o)
  /\ UNCHANGED <<up, proxy, loop, todo, budget>>

AnswerResume(o) ==
  /\ pc[o] = "resume.audit"
  /\ audit' = "RESUME"
  /\ Goto(o, "idle")
  /\ UNCHANGED <<up, proxy, key, channel, loop, todo, history, budget>>

-----------------------------------------------------------------------------
(* AutonomousRagAnalysis._loop *)

\* Mutation: the loop logs the halt and does not skip the cycle.
CycleOf_Ignoring(halted) == Universe

\* Mutation: one asset too many is scheduled.
CycleOf_Extra(halted) == IF halted THEN 0 ELSE Universe + 1

\* A halted loop skips the whole cycle.
CycleOf(halted) == IF halted THEN 0 ELSE Universe

Schedule(halted) ==
  /\ todo' = CycleOf(halted)
  /\ loop' = IF CycleOf(halted) = 0 THEN "sleep" ELSE "cycle"

CheckKey ==
  /\ loop = "check"
  /\ Reachable(proxy)
  /\ Schedule(key[proxy])
  /\ UNCHANGED <<up, proxy, stores, pc, history, budget>>

\* exists() fails or takes more than three seconds: as if there were no key.
MissKey ==
  /\ loop = "check"
  /\ misses < MaxMisses /\ misses' = misses + 1
  /\ Schedule(FALSE)
  /\ UNCHANGED <<up, proxy, stores, pc, history, outages, restarts>>

\* One orchestrator run; the key is not read again before the next cycle.  If its
\* outputs cannot be written the rest of the cycle is given up.
Analyse ==
  /\ loop = "cycle"
  /\ todo' \in {todo - 1, 0}
  /\ loop' = IF todo' = 0 THEN "sleep" ELSE "cycle"
  /\ after' = IF standing # {} /\ after <= Allowance THEN after + 1 ELSE after
  /\ UNCHANGED <<up, proxy, stores, pc, wrote, standing, contested, budget>>

Awake ==
  /\ loop = "sleep"
  /\ loop' = "check"
  /\ UNCHANGED <<up, proxy, stores, pc, todo, history, budget>>

-----------------------------------------------------------------------------
(* RedisRuntime *)

LoseServer ==
  /\ up /\ outages < MaxOutages
  /\ up' = FALSE /\ outages' = outages + 1
  /\ UNCHANGED <<proxy, stores, pc, loop, todo, history, restarts, misses>>

ServerReturns ==
  /\ ~up /\ up' = TRUE
  /\ UNCHANGED <<proxy, stores, pc, loop, todo, history, budget>>

\* Mutation: startup begins from a clean key.
Restart_ClearsKey ==
  /\ restarts < MaxRestarts /\ restarts' = restarts + 1
  /\ proxy' = IF up THEN "server" ELSE "fallback"
  /\ key' = [s \in Stores |-> FALSE]
  /\ channel' = [channel EXCEPT !["fallback"] = "none"]
  /\ pc' = [o \in Operators |-> IF pc[o] \in HaltSteps THEN "idle" ELSE pc[o]]
  /\ loop' = "check" /\ todo' = 0
  /\ UNCHANGED <<up, audit, history, outages, misses>>

\* create_redis_runtime at startup: the server if the probe succeeds, otherwise
\* an empty in-process store.  The calls of the old process are gone.
Restart ==
  /\ restarts < MaxRestarts /\ restarts' = restarts + 1
  /\ proxy' = IF up THEN "server" ELSE "fallback"
  /\ key' = [key EXCEPT !["fallback"] = FALSE]
  /\ channel' = [channel EXCEPT !["fallback"] = "none"]
  /\ pc' = [o \in Operators |-> IF pc[o] \in HaltSteps THEN "idle" ELSE pc[o]]
  /\ loop' = "check" /\ todo' = 0
  /\ UNCHANGED <<up, audit, history, outages, misses>>

\* _reconnect_loop: the proxy is swapped and the substitute is closed.
Reconnect ==
  /\ proxy = "fallback" /\ up
  /\ proxy' = "server"
  /\ key' = [key EXCEPT !["fallback"] = FALSE]
  /\ channel' = [channel EXCEPT !["fallback"] = "none"]
  /\ UNCHANGED <<up, audit, pc, loop, todo, history, budget>>

-----------------------------------------------------------------------------
Call(o) ==
  \/ SetKey(o)
  \/ PublishHalt(o)
  \/ AnswerHalt(o)
  \/ DeleteKey(o)
  \/ SetTrigger(o)
  \/ PublishResume(o)
  \/ AnswerResume(o)

Loop == CheckKey \/ Analyse \/ Awake

Next ==
  \/ \E o \in Operators : RequestHalt(o) \/ RequestResume(o) \/ Call(o)
  \/ Loop \/ MissKey
  \/ LoseServer \/ ServerReturns \/ Restart \/ Reconnect

Spec == Init /\ [][Next]_vars

\* Calls in progress go on, the loop runs, the server comes back and is found
\* again; nobody is obliged to halt, to resume or to fail.
Fairness ==
  /\ \A o \in Operators : WF_vars(Call(o))
  /\ WF_vars(Loop)
  /\ WF_vars(ServerReturns) /\ WF_vars(Reconnect)

FairSpec == Spec /\ Fairness

-----------------------------------------------------------------------------
(* Properties *)

\* A halt that was answered is in force where the loop looks for it until a
\* resume is asked for (KillSwitch.halt, AutonomousRagAnalysis._loop).
AnsweredHaltHolds == standing # {} => key[proxy]

\* As long as the process runs, a halt that was answered and is in force stays in
\* force, also across the swap to the server, until a resume is asked for: "Halt
\* state persists in Redis until explicitly cleared via an authenticated resume
\* command" (KillSwitch, _reconnect_loop).
HaltPersists ==
  [][standing # {} /\ standing' = standing /\ restarts' = restarts
       /\ key[proxy] => key'[proxy']]_vars

\* That promise is kept by a process that has not restarted since it found the
\* server at its startup, through every outage (KillSwitch.halt).
HaltHoldsUntilRestart == restarts = 0 => AnsweredHaltHolds

\* A halt the server took outlives every restart of the API and every outage: it
\* is there again when the process finds the server again (_reconnect_loop).
ServerHaltSurvives == "server" \in standing => key["server"]

\* Until the process restarts the loop finishes at most the cycle it is in when
\* a halt is answered, and one more per failed read of the key (_loop).
HaltStopsAnalyses == restarts = 0 /\ standing # {} => after <= Universe * (1 + misses)

\* A halt the server took and nobody resumes brings the loop to rest, also when
\* the process was restarted on the substitute in between (_loop, _reconnect_loop).
HaltReachesTheLoop == <>[]("server" \in standing) => <>[](todo = 0)

=============================================================================
