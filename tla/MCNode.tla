------------------------------- MODULE MCNode -------------------------------
(***************************************************************************)
(* Six programs that share no state with one another: a behaviour runs     *)
(* one of them, `program`, and the variables of the others stay as they    *)
(* are.                                                                    *)
(***************************************************************************)
EXTENDS Telemetry, Sampler, AgentRun, FleetStatus, LiveSession, HubTunnel

VARIABLE program

otherThanTelemetry == <<sampleVars, agentVars, statusVars, liveVars, tunnelVars, program>>
nodeVars == <<vars, otherThanTelemetry>>

NodeInit ==
  /\ program \in {"telemetry", "sampler", "fleet-agent", "fleet-status", "live-session", "hub-ssh"}
  /\ Init /\ SampleInit /\ AgentInit /\ StatusInit /\ LiveInit /\ TunnelInit
  /\ program # "telemetry" => up
  /\ program # "sampler" => watched = 1
  /\ program # "live-session" => screens = CHOOSE s \in Scripts : TRUE
  /\ program # "hub-ssh" => links = [e \in Endpoints |-> "cut"]

NodeNext ==
  \/ program = "telemetry" /\ Next /\ UNCHANGED otherThanTelemetry
  \/ program = "sampler" /\ SampleNext
       /\ UNCHANGED <<vars, agentVars, statusVars, liveVars, tunnelVars, program>>
  \/ program = "fleet-agent" /\ AgentNext
       /\ UNCHANGED <<vars, sampleVars, statusVars, liveVars, tunnelVars, program>>
  \/ program = "fleet-status" /\ StatusNext
       /\ UNCHANGED <<vars, sampleVars, agentVars, liveVars, tunnelVars, program>>
  \/ program = "live-session" /\ LiveNext
       /\ UNCHANGED <<vars, sampleVars, agentVars, statusVars, tunnelVars, program>>
  \/ program = "hub-ssh" /\ TunnelNext
       /\ UNCHANGED <<vars, sampleVars, agentVars, statusVars, liveVars, program>>

\* What is fair in each program, where it runs; README, "Fairness".
NodeSpec ==
  /\ NodeInit /\ [][NodeNext]_nodeVars
  /\ WF_vars(program = "telemetry" /\ Round)
  /\ WF_sampleVars(program = "sampler" /\ Loop)
  /\ \A a \in Accounts : WF_sampleVars(program = "sampler" /\ ComeDue(a))
  /\ WF_agentVars(program = "fleet-agent" /\ AgentTick)
  /\ WF_agentVars(program = "fleet-agent" /\ (TimesOut \/ Finishes))
  /\ WF_agentVars(program = "fleet-agent" /\ "child" \in termed /\ ChildEnds)
  /\ WF_agentVars(program = "fleet-agent" /\ "kin" \in termed /\ KinEnds)
  /\ WF_liveVars(program = "live-session" /\ Main)
  /\ WF_liveVars(program = "live-session" /\ Draw)
  /\ WF_liveVars(program = "live-session" /\ Listens)
  /\ WF_liveVars(program = "live-session" /\ HandleKey)
  /\ WF_tunnelVars(program = "hub-ssh" /\ HubSsh)
  /\ WF_tunnelVars(program = "hub-ssh" /\ Reaps)
  /\ WF_tunnelVars(program = "hub-ssh" /\ TunnelTick)
  /\ SF_liveVars(program = "live-session" /\ LiveTick)

\* Every account is asked for again and again (Sampler.run).
AccountsAreSampled == program = "sampler" => EveryAccountAgain

\* A run of fleet-agent ends (main).
RunsEnd == program = "fleet-agent" => RunEnds

\* First-run prompts are passed (live-session).
PromptsArePassed == program = "live-session" => PassesPrompts

\* The tunnel comes back (hub-ssh).
TunnelComesBack == program = "hub-ssh" => TunnelReturns

MCSource == <<"claude-login", "token-headers">>
MCScripts == {<<"prompt", "prompt", "main">>, <<"prompt", "login">>, <<"trust">>, <<"prompt", "trust">>}
MCLoginScripts == {<<"login">>}
=============================================================================
