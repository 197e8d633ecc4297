---------------------------- MODULE LiveSession ----------------------------
(***************************************************************************)
(* live-session.py: it runs Claude Code in a pseudo-terminal, reads its    *)
(* screen, presses Enter on first-run prompts, stops at the two it must    *)
(* not answer, and types /exit in the end.  A tick is 1.5 s.               *)
(***************************************************************************)
EXTENDS Naturals, Sequences, SequencesExt

CONSTANTS
  Scripts,     \* the screens Claude Code may go through, in order
  MaxEnters,   \* the 8 Enters of the loop
  Quick        \* Claude Code is done with a key, and has drawn what follows, within a tick

Pickers == {"login", "trust"}

ASSUME ScriptAssumption == Scripts \subseteq Seq({"prompt", "login", "trust", "main"}) \ {<<>>}
ASSUME EnterAssumption == MaxEnters \in Nat \ {0} /\ Quick \in BOOLEAN

VARIABLES
  screens,    \* what Claude Code shows and has yet to show
  undrawn,    \* texts of this screen it has not drawn
  listens,    \* it reads keys; before that they are lost
  alive,
  keys,       \* typed and not handled: "enter", or the "exit" typed in the end
  pty,        \* texts drawn and not read
  registered, \* some session has registered since t0
  loop,       \* where main is
  recent, enters, since, unanswered, ready,   \* its locals; since in ticks, 2 being over 3 s
  hit,        \* history: the keys that acted on a picker, and which
  hidden      \* history: pickers whose heading was drawn and did not stay in recent

claudeVars == <<screens, undrawn, listens, alive, registered>>
liveVars == <<claudeVars, keys, pty, loop, recent, enters, since, unanswered, ready, hit, hidden>>

\* The texts main looks for.
Sought == Pickers \cup {"prompt"}

\* A picker's heading comes before the "Enter to confirm" below it.
Texts(screen) == IF screen \in Pickers THEN <<screen, "prompt">> ELSE <<screen>>

LiveInit ==
  /\ screens \in Scripts
  /\ undrawn = Texts(Head(screens))
  /\ listens = FALSE /\ alive = TRUE /\ registered = FALSE
  /\ keys = <<>> /\ pty = {}
  /\ loop = "look"
  /\ recent = {} /\ enters = 0 /\ since = 2 /\ unanswered = FALSE /\ ready = FALSE
  /\ hit = {} /\ hidden = {}

-----------------------------------------------------------------------------
\* Claude Code.

Draw ==
  /\ alive /\ undrawn # <<>>
  /\ pty' = pty \cup {Head(undrawn)}
  /\ undrawn' = Tail(undrawn)
  /\ UNCHANGED <<screens, listens, alive, registered, keys, loop, recent, enters, since,
                 unanswered, ready, hit, hidden>>

\* The same again, as often as it likes (between two reads: inside main's step it would make
\* no difference).
Redraw ==
  /\ alive /\ undrawn = <<>>
  /\ loop = "look" /\ pty = {}
  /\ pty' = pty \cup ToSet(Texts(Head(screens)))
  /\ UNCHANGED <<claudeVars, keys, loop, recent, enters, since, unanswered, ready, hit, hidden>>

\* Anything else: a question about the terminal, a spinner, a clock.
Chatter ==
  /\ alive
  /\ loop = "look" /\ pty = {}
  /\ pty' = {"other"}
  /\ UNCHANGED <<claudeVars, keys, loop, recent, enters, since, unanswered, ready, hit, hidden>>

Listens ==
  /\ alive /\ ~listens
  /\ listens' = TRUE
  /\ UNCHANGED <<screens, undrawn, alive, registered, keys, pty, loop, recent, enters, since,
                 unanswered, ready, hit, hidden>>

\* A key is lost, or acts on the screen once that is drawn.
HandleKey ==
  /\ alive /\ keys # <<>>
  /\ listens => undrawn = <<>>
  /\ keys' = Tail(keys)
  /\ IF listens /\ Head(screens) = "prompt"
     THEN screens' = Tail(screens) /\ undrawn' = Texts(Head(screens'))
     ELSE UNCHANGED <<screens, undrawn>>
  /\ hit' = IF listens /\ Head(screens) \in Pickers THEN hit \cup {<<Head(keys), Head(screens)>>} ELSE hit
  /\ UNCHANGED <<listens, alive, registered, pty, loop, recent, enters, since, unanswered, ready,
                 hidden>>

\* A session registers: this one, or another that was started meanwhile.
Registers ==
  /\ ~registered
  /\ registered' = TRUE
  /\ UNCHANGED <<screens, undrawn, listens, alive, keys, pty, loop, recent, enters, since,
                 unanswered, ready, hit, hidden>>

ClaudeEnds ==
  /\ alive
  /\ alive' = FALSE
  /\ UNCHANGED <<screens, undrawn, listens, registered, keys, pty, loop, recent, enters, since,
                 unanswered, ready, hit, hidden>>

-----------------------------------------------------------------------------
\* main.

\* A chunk is an answer, whatever is in it.  A text that an escape runs through which two reads
\* share does not match, since ANSI.sub sees one read at a time, and one that lies further back
\* than 4000 bytes is gone.
Read ==
  /\ \E kept \in SUBSET ((recent \cup pty) \cap Sought) :
       /\ recent' = kept
       /\ hidden' = hidden \cup (((recent \cup pty) \cap Pickers) \ kept)
  /\ unanswered' = FALSE
  /\ pty' = {}

\* select and read; the end of file leaves the loop.
Look ==
  /\ loop = "look"
  /\ IF pty = {}
     THEN loop' = (IF alive THEN "act" ELSE "left") /\ UNCHANGED <<pty, recent, unanswered, hidden>>
     ELSE loop' = "act" /\ Read
  /\ UNCHANGED <<claudeVars, keys, enters, since, ready, hit>>

MutWantsEnter == (since >= 1 /\ "prompt" \in recent) \/ unanswered
MutNoRetry == since >= 1 /\ "prompt" \in recent

\* A prompt is on the screen for which no Enter is on its way, or an Enter changed nothing.
WantsEnter == (since >= 1 /\ "prompt" \in recent) \/ (unanswered /\ since >= 2)

Watching == ~ready /\ enters < MaxEnters

\* NEEDS ONBOARDING, NEEDS TRUST.
Stop ==
  /\ loop = "act" /\ Watching /\ recent \cap Pickers # {}
  /\ loop' = "left"
  /\ UNCHANGED <<claudeVars, keys, pty, recent, enters, since, unanswered, ready, hit, hidden>>

Press ==
  /\ loop = "act" /\ Watching /\ recent \cap Pickers = {} /\ WantsEnter
  /\ keys' = Append(keys, "enter")
  /\ enters' = enters + 1 /\ since' = 0 /\ recent' = {} /\ unanswered' = TRUE
  /\ ready' = (ready \/ registered)
  /\ loop' = "look"
  /\ UNCHANGED <<claudeVars, pty, hit, hidden>>

GoOn ==
  /\ loop = "act"
  /\ Watching => recent \cap Pickers = {} /\ ~WantsEnter
  /\ ready' = (ready \/ registered)
  /\ loop' = "look"
  /\ UNCHANGED <<claudeVars, keys, pty, recent, enters, since, unanswered, hit, hidden>>

Deadline ==
  /\ loop = "look"
  /\ loop' = "left"
  /\ UNCHANGED <<claudeVars, keys, pty, recent, enters, since, unanswered, ready, hit, hidden>>

\* Out of the loop, whatever the reason: "/exit" and Enter, 3 s, SIGTERM, waitpid.
TypeExit ==
  /\ loop = "left"
  /\ loop' = "leaving"
  /\ keys' = Append(keys, "exit")
  /\ UNCHANGED <<claudeVars, pty, recent, enters, since, unanswered, ready, hit, hidden>>

Leave ==
  /\ loop = "leaving"
  /\ loop' = "done"
  /\ alive' = FALSE
  /\ UNCHANGED <<screens, undrawn, listens, registered, keys, pty, recent, enters, since,
                 unanswered, ready, hit, hidden>>

\* 1.5 s: select waits for 0.5 s at most, so what was drawn has been read.
LiveTick ==
  /\ loop = "look" /\ since < 2 /\ pty = {}
  /\ Quick /\ alive => keys = <<>> /\ undrawn = <<>>
  /\ since' = since + 1
  /\ UNCHANGED <<claudeVars, keys, pty, loop, recent, enters, unanswered, ready, hit, hidden>>

Main == Look \/ Stop \/ Press \/ GoOn \/ TypeExit \/ Leave
Claude == Draw \/ Listens \/ HandleKey

LiveNext == Main \/ Claude \/ Redraw \/ Chatter \/ Registers \/ ClaudeEnds \/ Deadline \/ LiveTick

LiveSpec == LiveInit /\ [][LiveNext]_liveVars

-----------------------------------------------------------------------------
\* "Two are never answered, because Enter would do the wrong thing": no Enter that the loop
\* presses for a prompt, or again because the first one seemed lost, comes upon the login picker
\* or the trust dialog that follows, if Claude Code is Quick, unless the heading was drawn and
\* did not reach `recent` whole, or not for long (main).
PickersAreLeft == Quick => \A h \in hit : h[1] = "enter" => h[2] \in hidden

\* The same of whatever is typed, as the sentence says it: a picker the loop has seen gets no
\* key (main).
PickersGetNoKey == \A h \in hit : h[2] \notin recent

\* All of a prompt is drawn and read, and main knows of no reason to press Enter: its text did
\* not match, or something else was drawn after an Enter that was lost.
Overlooked ==
  /\ Head(screens) = "prompt" /\ undrawn = <<>> /\ pty = {}
  /\ "prompt" \notin recent /\ ~unanswered

\* "First-run prompts get their default answer", also when Enter was pressed before Claude Code
\* read its input: the prompts are passed, unless the Enters are used up, a session has
\* registered, the loop is left, or main overlooks the prompt as often as it is drawn (main).
PassesPrompts ==
  \/ <>(Head(screens) # "prompt" \/ enters = MaxEnters \/ ready \/ loop \notin {"look", "act"})
  \/ []<>Overlooked
=============================================================================
