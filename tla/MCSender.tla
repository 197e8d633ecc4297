------------------------------ MODULE MCSender ------------------------------
(***************************************************************************)
(* An instance of Sender for TLC: requests that are posted again and late. *)
(***************************************************************************)
EXTENDS Sender, MCRelay

MCSids1 == {1}

\* Replay: two good messages posted at different times and one with a bad signature.
ReplayMessages ==
  { Message(0, AnySession, AnyAccount, "a", TRUE),
    Message(1, AnySession, AnyAccount, "b", TRUE),
    Message(1, AnySession, AnyAccount, Blank, FALSE) }

HandlerSymmetry == Permutations(Handlers)
=============================================================================
