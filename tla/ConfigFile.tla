----------------------------- MODULE ConfigFile -----------------------------
(***************************************************************************)
(* ~/.fleet-bridge/config.json and everything that rewrites it: the three  *)
(* installers and the probe, which read it, change a block of their own    *)
(* and write it again in place, and delegate-session --failover, which     *)
(* writes config.json.tmp and renames it.  None of them takes a lock, and  *)
(* any of them may be killed, so files are inodes here, with names on top. *)
(*                                                                         *)
(* The file's blocks hold numbers: 0 for a block that is not there, and    *)
(* otherwise which rewrite gave it.  "accounts" are those of --usage.      *)
(* Failover and routing are 0 or 1; the accounts and the hub of "routing"  *)
(* are set by hand, before.                                                *)
(***************************************************************************)
EXTENDS Naturals

CONSTANTS
  Writers,    \* processes that rewrite the file
  Inodes,
  NoFile,
  Empty,      \* a file that has been truncated
  Torn,       \* a file with a mix of two writes
  MaxWrites   \* bound on rewrites

Blocks  == {"node", "envelope", "accounts", "proxy", "delegate", "failover", "routing"}
Config  == [Blocks -> Nat]

ASSUME FileAssumption == NoFile \notin Inodes /\ Empty \notin Config /\ Torn \notin Config
ASSUME WritesAssumption == MaxWrites \in Nat

VARIABLES
  inode,    \* what each file holds
  conf,     \* the inode that config.json names
  tmp,      \* the inode that config.json.tmp names
  wpc, kind,
  fd,       \* the inode each writer has open
  hold,     \* the blocks it is about to write
  writes,
  last,     \* history: what each block was last set to
  calm      \* history: rewrites have come one after another, and none left the file truncated

fileVars   == <<inode, conf, tmp>>
writerVars == <<wpc, kind, fd, hold, writes>>
configVars == <<fileVars, writerVars, last, calm>>

Blank   == [b \in Blocks |-> 0]
Switch  == {"on", "off"}
InPlace == {"relay", "proxy", "delegate", "probe"}
Kinds   == InPlace \cup Switch

Exists     == conf # NoFile
Unreadable == Exists /\ inode[conf] \in {Empty, Torn}

\* json.load with every error taken for an empty configuration.
Parsed == IF Exists /\ ~Unreadable THEN inode[conf] ELSE Blank

ConfigInit ==
  /\ \E r \in {0, 1} : last = [Blank EXCEPT !["routing"] = r]
  /\ \E i \in Inodes :
       /\ conf = IF last = Blank THEN NoFile ELSE i
       /\ inode = [j \in Inodes |-> IF j = i THEN last ELSE Empty]
  /\ tmp = NoFile
  /\ wpc = [p \in Writers |-> "idle"]
  /\ kind = [p \in Writers |-> "probe"]
  /\ fd = [p \in Writers |-> NoFile]
  /\ hold = [p \in Writers |-> Blank]
  /\ writes = 0
  /\ calm = TRUE

-----------------------------------------------------------------------------
\* The blocks a writer of kind k gives the file, from those it has read.  relay/install.sh
\* keeps an envelope that was found out before, and the accounts when it gets no --usage;
\* proxy/install.sh keeps its block unless it is told otherwise.
MutRewritten(k, old, n) ==
  CASE k = "relay"    -> {[old EXCEPT !["node"] = n, !["envelope"] = IF @ = 0 THEN n ELSE @,
                                      !["accounts"] = v] : v \in {old["accounts"], n}}
    [] k = "proxy"    -> {[old EXCEPT !["proxy"] = IF @ = 0 THEN n ELSE v] : v \in {old["proxy"], n}}
    [] k = "delegate" -> {[old EXCEPT !["delegate"] = n, !["failover"] = 0]}
    [] k = "probe"    -> {[old EXCEPT !["envelope"] = n]}
    [] OTHER          -> {[old EXCEPT !["failover"] = IF k = "on" THEN 1 ELSE 0]}

Rewritten(k, old, n) ==
  CASE k = "relay"    -> {[old EXCEPT !["node"] = n, !["envelope"] = IF @ = 0 THEN n ELSE @,
                                      !["accounts"] = v] : v \in {old["accounts"], n}}
    [] k = "proxy"    -> {[old EXCEPT !["proxy"] = IF @ = 0 THEN n ELSE v] : v \in {old["proxy"], n}}
    [] k = "delegate" -> {[old EXCEPT !["delegate"] = n]}
    [] k = "probe"    -> {[old EXCEPT !["envelope"] = n]}
    [] OTHER          -> {[old EXCEPT !["failover"] = IF k = "on" THEN 1 ELSE 0]}

\* A file that does not parse, or is not there, is no configuration to relay/install.sh,
\* proxy/install.sh and the probe.  delegate/install.sh takes only a missing file for one,
\* and the switch neither.
GivesUp(k) ==
  \/ k \in Switch /\ (~Exists \/ Unreadable)
  \/ k = "delegate" /\ Unreadable

\* The history of the blocks: what a writer of kind k that ends well was asked to set.
Asked(p) ==
  [b \in Blocks |->
     IF \/ b = "node" /\ kind[p] = "relay"
        \/ b = "envelope" /\ (kind[p] = "probe" \/ (kind[p] = "relay" /\ last[b] = 0))
        \/ b = "accounts" /\ kind[p] = "relay"
        \/ b = "proxy" /\ kind[p] = "proxy"
        \/ b = "delegate" /\ kind[p] = "delegate"
        \/ b = "failover" /\ kind[p] \in Switch
       THEN hold[p][b] ELSE last[b]]

\* A writer starts and reads the file.
ReadConfig(p, k) ==
  /\ wpc[p] = "idle"
  /\ writes < MaxWrites
  /\ ~GivesUp(k)
  /\ writes' = writes + 1
  /\ \E new \in Rewritten(k, Parsed, writes + 1) : hold' = [hold EXCEPT ![p] = new]
  /\ kind' = [kind EXCEPT ![p] = k]
  /\ wpc' = [wpc EXCEPT ![p] = "open"]
  /\ calm' = (calm /\ \A q \in Writers : wpc[q] = "idle")
  /\ UNCHANGED <<fileVars, fd, last>>

\* The name a writer of kind k opens.
Target(k) == IF k \in Switch THEN tmp ELSE conf

IsFree(i) == i # conf /\ i # tmp /\ \A p \in Writers : fd[p] # i

\* O_CREAT | O_TRUNC: from here until the write the file is empty.
OpenConfig(p) ==
  /\ wpc[p] = "open"
  /\ \E i \in Inodes :
       /\ IF Target(kind[p]) = NoFile THEN IsFree(i) ELSE i = Target(kind[p])
       /\ inode' = [inode EXCEPT ![i] = Empty]
       /\ fd' = [fd EXCEPT ![p] = i]
       /\ IF kind[p] \in Switch THEN tmp' = i /\ UNCHANGED conf
                                ELSE conf' = i /\ UNCHANGED tmp
  /\ wpc' = [wpc EXCEPT ![p] = "write"]
  /\ UNCHANGED <<kind, hold, writes, last, calm>>

\* The writer is done, or dead: its locals go.
Leave(p) ==
  /\ wpc' = [wpc EXCEPT ![p] = "idle"]
  /\ kind' = [kind EXCEPT ![p] = "probe"]
  /\ fd' = [fd EXCEPT ![p] = NoFile]
  /\ hold' = [hold EXCEPT ![p] = Blank]

\* json.dump and close.  When another writer has written since, what is longer of the
\* older text remains behind.
WriteConfig(p) ==
  /\ wpc[p] = "write"
  /\ \/ inode' = [inode EXCEPT ![fd[p]] = hold[p]]
     \/ inode[fd[p]] \notin {Empty, hold[p]} /\ inode' = [inode EXCEPT ![fd[p]] = Torn]
  /\ IF kind[p] \in Switch
       THEN wpc' = [wpc EXCEPT ![p] = "replace"] /\ UNCHANGED <<kind, fd, hold, last>>
       ELSE Leave(p) /\ last' = Asked(p)
  /\ UNCHANGED <<conf, tmp, writes, calm>>

\* os.replace: whatever config.json.tmp names by now; it raises when that is gone.
ReplaceConfig(p) ==
  /\ wpc[p] = "replace"
  /\ IF tmp = NoFile THEN UNCHANGED <<conf, tmp>> ELSE conf' = tmp /\ tmp' = NoFile
  /\ last' = Asked(p)
  /\ Leave(p)
  /\ UNCHANGED <<inode, writes, calm>>

\* A writer is killed; in place, between open and write, it leaves the file empty.
KillWriter(p) ==
  /\ wpc[p] # "idle"
  /\ calm' = (calm /\ ~(wpc[p] = "write" /\ kind[p] \in InPlace))
  /\ Leave(p)
  /\ UNCHANGED <<fileVars, writes, last>>

ConfigNext ==
  \/ \E p \in Writers, k \in Kinds : ReadConfig(p, k)
  \/ \E p \in Writers : OpenConfig(p) \/ WriteConfig(p) \/ ReplaceConfig(p) \/ KillWriter(p)

-----------------------------------------------------------------------------
ConfigTypeOK ==
  /\ inode \in [Inodes -> Config \cup {Empty, Torn}]
  /\ conf \in Inodes \cup {NoFile} /\ tmp \in Inodes \cup {NoFile}
  /\ conf = tmp => conf = NoFile
  /\ wpc \in [Writers -> {"idle", "open", "write", "replace"}]
  /\ kind \in [Writers -> Kinds]
  /\ fd \in [Writers -> Inodes \cup {NoFile}]
  /\ hold \in [Writers -> Config]
  /\ writes \in Nat
  /\ last \in Config
  /\ calm \in BOOLEAN

\* A writer has the file itself open and empty.
Truncated == \E p \in Writers : wpc[p] = "write" /\ kind[p] \in InPlace

\* "Keep what else the block holds" (delegate/install.sh), "kept when it already exists"
\* (proxy/install.sh): while rewrites come one after another, whichever they are, and none of
\* those in place is killed between truncating the file and writing it, the file parses and
\* every block is what was last asked for it.  A switch of failover may be killed anywhere, and
\* any writer before it opens the file.
BlocksAreKept == calm /\ ~Truncated => ~Unreadable /\ Parsed = last
=============================================================================
