------------------------------ MODULE AgentRun ------------------------------
(***************************************************************************)
(* One run of fleet-agent (fleet-agent.py main) after its environment is   *)
(* made: claude -p in a session of its own, the time limit, SIGTERM to the *)
(* group, a second wait without a limit, and the line in delegate.log.     *)
(***************************************************************************)
EXTENDS Naturals

CONSTANT Minutes   \* the time limit, in ticks

ASSUME MinutesAssumption == Minutes \in Nat \ {0}

VARIABLES
  agent,    \* where fleet-agent is
  child,    \* the claude process
  printed,  \* what it has printed
  code,     \* its exit status
  kin,      \* a process it started, in its group, that holds the pipes
  stray,    \* the same out of SIGTERM's reach: in a group of its own, or started after it
  termed,   \* those of the group that SIGTERM has been sent to
  spent,    \* ticks since t0
  line      \* what delegate.log says of the run

agentVars == <<agent, child, printed, code, kin, stray, termed, spent, line>>

Group == {"child", "kin"}

AgentInit ==
  /\ agent = "communicate"
  /\ child = "runs"
  /\ printed = "nothing"
  /\ code = 0
  /\ kin = FALSE
  /\ stray = FALSE
  /\ termed = {}
  /\ spent = 0
  /\ line = "none"

\* What it prints: a result, a result with is_error, or no JSON.
ChildPrints ==
  /\ child = "runs" /\ printed = "nothing"
  /\ printed' \in {"result", "is_error", "garbage"}
  /\ UNCHANGED <<agent, child, code, kin, stray, termed, spent, line>>

ChildForks ==
  /\ child = "runs"
  /\ \/ termed = {} /\ kin' = TRUE /\ UNCHANGED stray
     \/ stray' = TRUE /\ UNCHANGED kin
  /\ UNCHANGED <<agent, child, printed, code, termed, spent, line>>

\* It may also catch SIGTERM and end with 0.
ChildEnds ==
  /\ child = "runs"
  /\ child' = "ended"
  /\ code' \in {0, 1}
  /\ UNCHANGED <<agent, printed, kin, stray, termed, spent, line>>

KinEnds ==
  /\ kin
  /\ kin' = FALSE
  /\ UNCHANGED <<agent, child, printed, code, stray, termed, spent, line>>

StrayEnds ==
  /\ stray
  /\ stray' = FALSE
  /\ UNCHANGED <<agent, child, printed, code, kin, termed, spent, line>>

AgentTick ==
  /\ spent < Minutes
  /\ spent' = spent + 1
  /\ UNCHANGED <<agent, child, printed, code, kin, stray, termed, line>>

-----------------------------------------------------------------------------
\* communicate returns when both pipes are at their end and the child has been waited for.
Done == child = "ended" /\ ~kin /\ ~stray

MutTimesOut ==
  /\ agent = "communicate" /\ spent = Minutes
  /\ agent' = "stopping"
  /\ termed' = {"child"}
  /\ UNCHANGED <<child, printed, code, kin, stray, spent, line>>

\* TimeoutExpired, also when the end came at the same moment; killpg reaches the group.
TimesOut ==
  /\ agent = "communicate" /\ spent = Minutes
  /\ agent' = "stopping"
  /\ termed' = Group
  /\ UNCHANGED <<child, printed, code, kin, stray, spent, line>>

MutOk == code = 0 /\ printed = "result"

\* ok, where timed_out is: it came here from the second communicate.
Ok == agent = "communicate" /\ code = 0 /\ printed = "result"

\* Either communicate returns; parse, append the line, print and exit.
Finishes ==
  /\ agent \in {"communicate", "stopping"} /\ Done
  /\ line' = IF Ok THEN "ok" ELSE "failed"
  /\ agent' = "exited"
  /\ UNCHANGED <<child, printed, code, kin, stray, termed, spent>>

\* The session that called it kills fleet-agent: the child is in a session of its own and goes on.
AgentKilled ==
  /\ agent \in {"communicate", "stopping"}
  /\ agent' = "killed"
  /\ UNCHANGED <<child, printed, code, kin, stray, termed, spent, line>>

AgentNext ==
  \/ ChildPrints \/ ChildForks \/ ChildEnds \/ KinEnds \/ StrayEnds \/ AgentTick
  \/ TimesOut \/ Finishes \/ AgentKilled

AgentSpec == AgentInit /\ [][AgentNext]_agentVars

-----------------------------------------------------------------------------
\* "Exit status is non-zero when the agent failed or ran out of time": a run is logged ok only
\* if the child ended in time, by itself, with status 0 and a result, whatever it printed or
\* did when it was stopped (main).
OkMeansDone == line = "ok" => termed = {} /\ Done /\ code = 0 /\ printed = "result"

\* --minutes is a limit: a run ends, or is killed, if those that SIGTERM is sent to heed it and
\* no process out of its reach keeps the pipes (main).
RunEnds == []<>(~stray) => <>(agent \in {"exited", "killed"})
=============================================================================
