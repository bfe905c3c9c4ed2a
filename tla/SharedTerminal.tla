--------------------------- MODULE SharedTerminal ---------------------------
(***************************************************************************)
(* What a broker is to the people who look at one shared terminal, with    *)
(* nothing of sockets, frames, queues or events: everybody reads the same  *)
(* output, from the last Keep chunks before he came, one chunk after the   *)
(* other, until he leaves or is left behind; and the terminal has the size *)
(* that one of them wants.  BrokerLoop implements it.                      *)
(***************************************************************************)
EXTENDS Naturals

CONSTANTS
  Readers,
  Sizes,
  DefaultSize,
  Keep,         \* chunks of history that a newcomer gets
  Nobody

VARIABLES
  printed,     \* chunks printed so far
  readers,     \* who looks at the terminal
  at,          \* at[p]: the last chunk that reader p was given
  wanted,      \* wanted[p]: the size of the window of reader p
  controller,  \* the reader whose window counts
  size         \* the size the terminal has

terminalVars == <<printed, readers, at, wanted, controller, size>>

TerminalInit ==
  /\ printed = 0
  /\ readers = {} /\ at = [p \in {} |-> 0] /\ wanted = [p \in {} |-> DefaultSize]
  /\ controller = Nobody /\ size = DefaultSize

PrintChunk ==
  /\ printed' = printed + 1
  /\ UNCHANGED <<readers, at, wanted, controller, size>>

\* A newcomer gets all the history that is kept, and control if nobody has it.
Join(p) ==
  LET history == IF printed < Keep THEN printed ELSE Keep
  IN
  /\ p \notin readers
  /\ readers' = readers \cup {p}
  /\ at' = [q \in readers \cup {p} |-> IF q = p THEN printed - history ELSE at[q]]
  /\ wanted' = [q \in readers \cup {p} |-> IF q = p THEN DefaultSize ELSE wanted[q]]
  /\ IF controller = Nobody THEN controller' = p /\ size' = DefaultSize
                            ELSE UNCHANGED <<controller, size>>
  /\ UNCHANGED printed

\* The next chunk, and never one that was not printed.
Read(p) ==
  /\ p \in readers /\ at[p] < printed
  /\ at' = [at EXCEPT ![p] = @ + 1]
  /\ UNCHANGED <<printed, readers, wanted, controller, size>>

Want(p, s) ==
  /\ p \in readers
  /\ wanted' = [wanted EXCEPT ![p] = s]
  /\ size' = IF controller = p THEN s ELSE size
  /\ UNCHANGED <<printed, readers, at, controller>>

\* Who types gets control (docs/architecture.md:24).
Take(p) ==
  /\ p \in readers
  /\ controller' = p /\ size' = wanted[p]
  /\ UNCHANGED <<printed, readers, at, wanted>>

\* Control passes to somebody who stays, and with it the size.
Leave(p) ==
  /\ p \in readers
  /\ readers' = readers \ {p}
  /\ at' = [q \in readers \ {p} |-> at[q]]
  /\ wanted' = [q \in readers \ {p} |-> wanted[q]]
  /\ \/ controller # p /\ UNCHANGED <<controller, size>>
     \/ controller = p /\ readers = {p} /\ controller' = Nobody /\ UNCHANGED size
     \/ /\ controller = p
        /\ \E q \in readers \ {p} : controller' = q /\ size' = wanted[q]
  /\ UNCHANGED printed

\* The terminal ends for everybody at once.
End ==
  /\ readers' = {} /\ at' = [p \in {} |-> 0] /\ wanted' = [p \in {} |-> DefaultSize]
  /\ controller' = Nobody
  /\ UNCHANGED <<printed, size>>

TerminalNext ==
  \/ PrintChunk \/ End
  \/ \E p \in Readers :
       Join(p) \/ Read(p) \/ Take(p) \/ Leave(p) \/ \E s \in Sizes : Want(p, s)

TerminalSpec == TerminalInit /\ [][TerminalNext]_terminalVars
=============================================================================
