---------------------------- MODULE MCBrokerLoop ----------------------------
(* Small instances of BrokerLoop for TLC.                                   *)
EXTENDS BrokerLoop, TLC

Symmetry == Permutations(DataPeers) \cup Permutations(ControlPeers)

\* An action constraint: the world moves between turns only.  The broker
\* looks at the world when it selects, receives, sends and accepts.  A peer
\* that sends, connects or disconnects before its event of this turn is
\* handled could as well have done so before the turn began, and otherwise
\* when it ended; so could the shell and whoever sends a signal.
WorldBetweenTurns == World => turn = "select"

\* Bound of the instance with four peers: the shell does not exit (in the
\* other instances it does).
ShellLives == ~childGone
=============================================================================
