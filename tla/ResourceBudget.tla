--------------------------- MODULE ResourceBudget ---------------------------
(* The limits on memory, stated twice: the extension checks the settings    *)
(* when it is activated (configuredInteger in extension.ts and              *)
(* validateRuntimeResourceBudget in runtime-config.ts) and passes them on as *)
(* arguments, and pty_broker.py checks its arguments again (main).  A       *)
(* setting that only one of the two accepts would show up as a broker or an *)
(* attach client that does not start.  Both sides work with the real        *)
(* numbers here, so there is nothing to instantiate: everything the module  *)
(* says is proved.                                                          *)
EXTENDS Integers, TLAPS

KiB == 1024
MiB == 1024 * 1024

\* Constants of runtime-config.ts.
ProtocolHeaderBytes == 5
PendingDataClients == 2
ControlBufferBytes == 8 * 64 * KiB
MaxBrokerBufferBytes == 64 * MiB
MaxUserBufferBytes == 256 * MiB
MaxAttachOutputBytes == 100 * MiB
MaxUserAttachOutputBytes == 5 * 1024 * MiB

\* Constants of pty_broker.py.
HeaderSize == 5                \* struct "!cI"
MAX_FRAME_BYTES == MiB
MAX_PENDING_DATA_CLIENTS == 2
MAX_CONTROL_CLIENTS == 8
MAX_BROKER_BUFFER_BYTES == 64 * MiB
MAX_ATTACH_OUTPUT_BYTES == 100 * MiB
Truncated == 123               \* len(ATTACH_OUTPUT_TRUNCATED)

\* Number.MAX_SAFE_INTEGER
MaxSafeInteger == 8 * 1024 * 1024 * 1024 * 1024 * 1024 - 1

Between(low, n, high) == low <= n /\ n <= high

Settings == [tasks : Int, clients : Int, replay : Int, input : Int,
             output : Int, attach : Int, pty : Int]

\* The ranges in which activate takes a setting.
Configurable(s) ==
  /\ Between(1, s.tasks, 16) /\ Between(1, s.clients, 8)
  /\ Between(0, s.replay, MiB)
  /\ Between(5, s.input, MiB + 5) /\ Between(5, s.output, 8 * MiB)
  /\ Between(MiB + 256, s.attach, 100 * MiB)
  /\ Between(1, s.pty, MiB)

\* What one broker may buffer, as the extension adds it up.
PerBroker(s) ==
  (s.clients + PendingDataClients) * s.input + s.clients * s.output
    + s.replay + s.pty + ControlBufferBytes

\* validateRuntimeResourceBudget
WithinBudget(s) ==
  /\ s.replay + ProtocolHeaderBytes <= s.output
  /\ PerBroker(s) <= MaxBrokerBufferBytes
  /\ PerBroker(s) * s.tasks <= MaxUserBufferBytes
  /\ s.attach <= MaxAttachOutputBytes
  /\ s.tasks * s.clients * s.attach <= MaxUserAttachOutputBytes

\* What is used for a setting that is not given.
Defaults == [tasks |-> 12, clients |-> 4, replay |-> 512 * KiB,
             input |-> 256 * KiB, output |-> 2 * MiB, attach |-> 8 * MiB,
             pty |-> 256 * KiB]

\* The same sum in main().
BufferBudget(s) ==
  (s.clients + MAX_PENDING_DATA_CLIENTS) * s.input + s.clients * s.output
    + s.replay + s.pty + MAX_CONTROL_CLIENTS * 64 * KiB

\* The checks of main() for serve.
ServeAccepts(s) ==
  /\ Between(0, s.replay, MAX_FRAME_BYTES)
  /\ Between(1, s.clients, 64)
  /\ Between(HeaderSize, s.input, MAX_FRAME_BYTES + HeaderSize)
  /\ Between(HeaderSize, s.output, 16 * MAX_FRAME_BYTES)
  /\ Between(1, s.pty, 16 * MAX_FRAME_BYTES)
  /\ s.replay + HeaderSize <= s.output
  /\ BufferBudget(s) <= MAX_BROKER_BUFFER_BYTES

\* And for attach.
AttachAccepts(s) == Between(MAX_FRAME_BYTES + Truncated, s.attach, MAX_ATTACH_OUTPUT_BYTES)

----------------------------------------------------------------------------

\* What the extension accepts, the broker and the attach client accept: no
\* task fails to start, and no tab fails to attach, because of a setting.
THEOREM AcceptedStarts ==
  ASSUME NEW s \in Settings, Configurable(s), WithinBudget(s)
  PROVE  ServeAccepts(s) /\ AttachAccepts(s)
<1>1. ServeAccepts(s)
  BY SMT DEF ServeAccepts, Configurable, Between, WithinBudget, PerBroker, BufferBudget,
         Settings, MAX_FRAME_BYTES, HeaderSize, ProtocolHeaderBytes, PendingDataClients,
         MAX_PENDING_DATA_CLIENTS, ControlBufferBytes, MAX_CONTROL_CLIENTS,
         MaxBrokerBufferBytes, MAX_BROKER_BUFFER_BYTES, KiB, MiB
<1>2. AttachAccepts(s)
  BY SMT DEF AttachAccepts, Configurable, Between, WithinBudget, Settings, MAX_FRAME_BYTES,
         MaxAttachOutputBytes, MAX_ATTACH_OUTPUT_BYTES, Truncated, MiB
<1> QED BY <1>1, <1>2

\* An installation without settings starts: the defaults are accepted.
THEOREM DefaultsAccepted == Configurable(Defaults) /\ WithinBudget(Defaults)
  BY SMT DEF Configurable, Between, WithinBudget, Defaults, PerBroker,
         PendingDataClients, ControlBufferBytes, ProtocolHeaderBytes, MaxBrokerBufferBytes,
         MaxUserBufferBytes, MaxAttachOutputBytes, MaxUserAttachOutputBytes, KiB, MiB

\* The attach client always has room behind the truncation notice for the
\* whole of any frame it can receive, so the notice is never all that is left
\* of an overflow (payload[-available:] with available = 0 would be the whole
\* payload, which its queue would refuse in silence).
THEOREM RoomBehindNotice ==
  ASSUME NEW s \in Settings, Configurable(s), NEW n \in Nat, n <= MAX_FRAME_BYTES
  PROVE  n <= s.attach - Truncated /\ s.attach - Truncated > 0
  BY SMT DEF Settings, Configurable, Between, MAX_FRAME_BYTES, Truncated, MiB

\* However many of its tasks run, all brokers of a user together stay within
\* the budget, and so do all attach clients they admit.
THEOREM UserWithinBudget ==
  ASSUME NEW s \in Settings, Configurable(s), WithinBudget(s),
         NEW brokers \in 0..s.tasks, NEW clients \in 0..(s.tasks * s.clients)
  PROVE  /\ brokers * PerBroker(s) <= MaxUserBufferBytes
         /\ clients * s.attach <= MaxUserAttachOutputBytes
<1>1. PerBroker(s) \in Int
  BY SMT DEF Settings, PerBroker, PendingDataClients, ControlBufferBytes, KiB
<1>2. PerBroker(s) >= 0
  <2>1. \A a, b \in Int : a >= 0 /\ b >= 0 => a * b >= 0
    OBVIOUS
  <2>2. (s.clients + PendingDataClients) * s.input >= 0 /\ s.clients * s.output >= 0
    BY SMT, <2>1 DEF Settings, Configurable, Between, PendingDataClients
  <2> QED BY SMT, <2>2 DEF Settings, Configurable, Between, PerBroker,
                      PendingDataClients, ControlBufferBytes, KiB
<1>3. \A a, b, c \in Int : 0 <= a /\ a <= b /\ 0 <= c => a * c <= b * c
  OBVIOUS
<1>4. brokers * PerBroker(s) <= s.tasks * PerBroker(s)
  BY SMT, <1>1, <1>2, <1>3 DEF Settings
<1>5. s.tasks * PerBroker(s) = PerBroker(s) * s.tasks
  BY SMT, <1>1 DEF Settings
<1>6. clients * s.attach <= (s.tasks * s.clients) * s.attach
  <2>1. s.attach >= 0
    BY SMT DEF Settings, Configurable, Between, MiB
  <2>2. s.tasks * s.clients \in Int
    BY SMT DEF Settings
  <2> QED BY SMT, <1>3, <2>1, <2>2 DEF Settings
<1>7. PerBroker(s) * s.tasks <= MaxUserBufferBytes
  BY SMT DEF WithinBudget
<1>8. s.tasks * s.clients * s.attach <= MaxUserAttachOutputBytes
  BY SMT DEF WithinBudget
<1>9. brokers * PerBroker(s) <= MaxUserBufferBytes
  BY SMT, <1>1, <1>4, <1>5, <1>7 DEF Settings, MaxUserBufferBytes, MiB
<1>10. clients * s.attach <= MaxUserAttachOutputBytes
  BY SMT, <1>6, <1>8 DEF Settings, MaxUserAttachOutputBytes, MiB
<1> QED BY <1>9, <1>10

\* The sums and products of the extension are JavaScript numbers; for every
\* setting it takes they are exact.
THEOREM ArithmeticIsExact ==
  ASSUME NEW s \in Settings, Configurable(s)
  PROVE  /\ PerBroker(s) <= MaxSafeInteger
         /\ PerBroker(s) * s.tasks <= MaxSafeInteger
         /\ s.tasks * s.clients * s.attach <= MaxSafeInteger
<1>1. PerBroker(s) \in Int /\ 0 <= PerBroker(s) /\ PerBroker(s) <= 200 * MiB
  <2>1. s.clients \in {1, 2, 3, 4, 5, 6, 7, 8}
    BY SMT DEF Configurable, Between, Settings
  <2> QED BY SMT, <2>1 DEF Configurable, Between, Settings, PerBroker,
                      PendingDataClients, ControlBufferBytes, KiB, MiB
<1>2. /\ s.tasks \in 1..16 /\ s.clients \in 1..8
      /\ s.attach \in Int /\ 0 <= s.attach /\ s.attach <= 100 * MiB
  BY SMT DEF Configurable, Between, Settings, MiB
<1>3. \A m \in Int, n \in Int, k \in Int, l \in Int :
        0 <= m /\ m <= k /\ 0 <= n /\ n <= l => m * n <= k * l
  <2> SUFFICES ASSUME NEW m \in Int, NEW n \in Int, NEW k \in Int, NEW l \in Int,
                      0 <= m, m <= k, 0 <= n, n <= l
               PROVE  m * n <= k * l
    OBVIOUS
  <2>1. m * n <= k * n
    OBVIOUS
  <2>2. k * n <= k * l
    OBVIOUS
  <2> QED BY <2>1, <2>2
<1>4. PerBroker(s) * s.tasks <= (200 * MiB) * 16
  BY SMT, <1>1, <1>2, <1>3 DEF MiB
<1>5. s.tasks * s.clients <= 16 * 8 /\ s.tasks * s.clients >= 0
  <2>1. s.tasks * s.clients <= 16 * 8
    BY <1>2, <1>3
  <2>2. s.tasks * s.clients >= 0
    BY <1>2
  <2> QED BY <2>1, <2>2
<1>6. s.tasks * s.clients * s.attach <= (16 * 8) * (100 * MiB)
  <2>1. s.tasks * s.clients \in Int
    BY <1>2
  <2> QED BY SMT, <1>2, <1>3, <1>5, <2>1 DEF MiB
<1>7. PerBroker(s) <= MaxSafeInteger
  BY SMT, <1>1 DEF MaxSafeInteger, MiB
<1>8. PerBroker(s) * s.tasks <= MaxSafeInteger
  BY SMT, <1>1, <1>2, <1>4 DEF MaxSafeInteger, MiB
<1>9. s.tasks * s.clients * s.attach <= MaxSafeInteger
  BY SMT, <1>2, <1>6 DEF MaxSafeInteger, MiB
<1> QED BY <1>7, <1>8, <1>9
=============================================================================
