------------------------------ MODULE HubTunnel ------------------------------
(***************************************************************************)
(* A node's tunnel to the hub (relay/hub-ssh.sh under                      *)
(* fleet-relay-tunnel.service).  hub-ssh tries the hub's endpoints in      *)
(* order; the ssh it starts publishes the relay on a port of the hub.  A   *)
(* session that vanished holds that port until the hub's sshd reaps it     *)
(* (hub/sshd-client-alive.conf), and until then no other can have it.      *)
(*                                                                         *)
(* Time goes in ticks of 15 s, which is ServerAliveInterval and            *)
(* ClientAliveInterval; RestartSec and ConnectTimeout lie within one.      *)
(***************************************************************************)
EXTENDS Integers

CONSTANTS
  Fallbacks,      \* how many endpoints HUB_ENDPOINTS has after 0, the preferred one
  MaxNetChanges   \* bound on what happens to the network

ASSUME EndpointAssumption == Fallbacks \in Nat /\ MaxNetChanges \in Nat

Endpoints == 0..Fallbacks
While == 2        \* "ran for a while": 30 s
Deaf == 3         \* ServerAliveCountMax
MutMute == 2

Mute == 4         \* ClientAliveCountMax
Free == -1        \* no session holds the port

VARIABLES
  links,       \* between node and endpoint: "cut", "open", or ssh "hangs" before it is through
  ssh,         \* "down" (systemd waits), "connecting" or "up"
  ep,          \* the endpoint hub-ssh is at
  ran,         \* ticks since this ssh, or systemd's wait, began
  deaf,        \* keepalives of this ssh without an answer
  holder,      \* the hub: the endpoint of the session that holds the port
  gone,        \*   its ssh on the node has ended without the hub being told
  moved,       \*   the node's address is another one since
  mute,        \*   keepalives to it without an answer
  awake,       \* the node: asleep it runs nothing, and answers nothing
  slept,       \* history: it was, since the ssh that is up last heard of the hub
  netChanges

hubVars    == <<holder, gone, moved, mute>>
sleepVars   == <<awake, slept>>
tunnelVars == <<links, ssh, ep, ran, deaf, hubVars, sleepVars, netChanges>>

Capped(n, most) == IF n < most THEN n + 1 ELSE most

\* The two ends of the session that holds the port can hear one another.
Hears == awake /\ holder # Free /\ links[holder] = "open" /\ ~moved

TunnelInit ==
  /\ links \in [Endpoints -> {"cut", "hangs", "open"}]
  /\ ssh = "down" /\ ep = 0 /\ ran = 0 /\ deaf = 0
  /\ holder = Free /\ gone = FALSE /\ moved = FALSE /\ mute = 0
  /\ awake = TRUE /\ slept = FALSE
  /\ netChanges = 0

Released == holder' = Free /\ gone' = FALSE /\ moved' = FALSE /\ mute' = 0

\* systemd, RestartSec after hub-ssh ended: from the preferred endpoint.
Restarts ==
  /\ ssh = "down" /\ ran > 0
  /\ ssh' = "connecting" /\ ep' = 0 /\ ran' = 0
  /\ UNCHANGED <<links, deaf, hubVars, sleepVars, netChanges>>

\* ssh has ended: one that ran for a while ends hub-ssh, another goes on to the next
\* endpoint, and the last one ends hub-ssh too.
SshEnds ==
  /\ ran' = 0 /\ deaf' = 0 /\ slept' = FALSE
  /\ IF ran >= While \/ ep = Fallbacks THEN ssh' = "down" /\ ep' = ep
     ELSE ssh' = "connecting" /\ ep' = ep + 1

\* The port is free: the forward is set up.
Connects ==
  /\ ssh = "connecting" /\ links[ep] = "open" /\ holder = Free
  /\ ssh' = "up" /\ deaf' = 0
  /\ holder' = ep /\ gone' = FALSE /\ moved' = FALSE /\ mute' = 0
  /\ UNCHANGED <<links, ep, ran, sleepVars, netChanges>>

\* ConnectTimeout, or ExitOnForwardFailure when a session still holds the port.
Refused ==
  /\ ssh = "connecting"
  /\ links[ep] = "cut" \/ (links[ep] = "open" /\ holder # Free)
  /\ SshEnds
  /\ UNCHANGED <<links, hubVars, awake, netChanges>>

\* A login that waits for someone to confirm it in a browser may be closed some time.
HangEnds ==
  /\ awake /\ ssh = "connecting" /\ links[ep] = "hangs"
  /\ SshEnds
  /\ UNCHANGED <<links, hubVars, awake, netChanges>>

\* Three keepalives without an answer: ssh ends, and the hub hears nothing of it.
GivesUp ==
  /\ ssh = "up" /\ deaf = Deaf
  /\ SshEnds
  /\ gone' = (holder # Free)
  /\ UNCHANGED <<links, holder, moved, mute, awake, netChanges>>

\* The hub has reaped the session while the node slept, and answers that there is no such
\* connection.
IsTold ==
  /\ ssh = "up" /\ holder = Free /\ links[ep] = "open"
  /\ SshEnds
  /\ UNCHANGED <<links, hubVars, awake, netChanges>>

MutReaps ==
  /\ holder # Free
  /\ gone /\ Hears
  /\ Released
  /\ UNCHANGED <<links, ssh, ep, ran, deaf, sleepVars, netChanges>>

\* sshd on the hub ends a session after four keepalives without an answer, or when the
\* node answers that there is no such connection; ssh, if it is still there, hears
\* nothing of it.
Reaps ==
  /\ holder # Free
  /\ mute = Mute \/ (gone /\ Hears)
  /\ Released
  /\ UNCHANGED <<links, ssh, ep, ran, deaf, sleepVars, netChanges>>

\* The network: links come and go and the node's address changes, or the hub closes a
\* session that is up.
NetChanges ==
  /\ netChanges < MaxNetChanges /\ netChanges' = netChanges + 1
  /\ \/ /\ links' \in [Endpoints -> {"cut", "hangs", "open"}]
        /\ moved' \in {moved, holder # Free}
        /\ UNCHANGED <<ssh, ep, ran, deaf, holder, gone, mute, sleepVars>>
     \/ ssh = "up" /\ Hears /\ SshEnds /\ Released /\ UNCHANGED <<links, awake>>

\* The node is suspended, and runs on later with what it had.
Sleeps ==
  /\ awake /\ netChanges < MaxNetChanges /\ netChanges' = netChanges + 1
  /\ awake' = FALSE /\ slept' = (ssh = "up")
  /\ UNCHANGED <<links, ssh, ep, ran, deaf, hubVars>>

Wakes ==
  /\ ~awake /\ awake' = TRUE
  /\ UNCHANGED <<links, ssh, ep, ran, deaf, hubVars, slept, netChanges>>

\* 15 s.  Whatever takes less has happened before they are over, unless the node sleeps: then
\* ssh misses none of its keepalives, while `ran` goes by the clock on the wall.
TunnelTick ==
  /\ awake => /\ ssh = "connecting" => links[ep] = "hangs"
              /\ ssh = "down" => ran = 0
              /\ ssh = "up" => deaf < Deaf
  /\ ran' = Capped(ran, While)
  /\ deaf' = IF ~awake THEN deaf ELSE IF ssh = "up" /\ ~Hears THEN deaf + 1 ELSE 0
  /\ mute' = IF holder # Free /\ ~Hears THEN Capped(mute, Mute) ELSE 0
  /\ slept' = (slept /\ ~Hears)
  /\ UNCHANGED <<links, ssh, ep, holder, gone, moved, awake, netChanges>>

HubSsh == awake /\ (Restarts \/ Connects \/ Refused \/ GivesUp \/ IsTold)

TunnelNext == HubSsh \/ HangEnds \/ Reaps \/ NetChanges \/ Sleeps \/ Wakes \/ TunnelTick

TunnelSpec == TunnelInit /\ [][TunnelNext]_tunnelVars

-----------------------------------------------------------------------------
TunnelTypeOK ==
  /\ links \in [Endpoints -> {"cut", "hangs", "open"}]
  /\ ssh \in {"down", "connecting", "up"}
  /\ ep \in Endpoints
  /\ ran \in 0..While /\ deaf \in 0..Deaf /\ mute \in 0..Mute
  /\ holder \in Endpoints \cup {Free}
  /\ awake \in BOOLEAN /\ slept \in BOOLEAN
  /\ gone \in BOOLEAN /\ moved \in BOOLEAN
  /\ netChanges \in Nat

\* What makes ClientAlive safe for a node that is there: the hub does not take the port from
\* an ssh that still counts on it, however links and address change, because the node's
\* end gives up first (ServerAliveCountMax 3, ClientAliveCountMax 4).  A node that has been
\* asleep since ssh last heard of the hub counts on a port that may be gone.
UpKeepsThePort == ssh = "up" /\ ~slept => holder = ep /\ ~gone

\* hub/sshd-client-alive.conf "until then the node's reconnect fails ... This reaps a
\* dead session": once the node stays awake and the network has settled with an endpoint open,
\* and none where ssh hangs, the relay is published again, whatever session still holds the
\* port (hub-ssh, the unit, ClientAlive).
TunnelReturns ==
  <>[](awake /\ (\E e \in Endpoints : links[e] = "open") /\ \A e \in Endpoints : links[e] # "hangs")
    => []<>(ssh = "up" /\ Hears)

=============================================================================
