------------------------ MODULE MonitorCadenceProofs ------------------------
(* How far apart the readings of a healthy monitor get, for all constants.   *)
EXTENDS MonitorCadence, TLAPS

TypeOK ==
    /\ clock \in Nat
    /\ phase \in {"idle", "reading", "posting"}
    /\ nextPoll \in Nat /\ observedAt \in Nat
    /\ lastSuccessfulPostAt \in Nat /\ serverAt \in Nat

\* The last post completed at most a webhook timeout after its observation,
\* and the last reading left it younger than the heartbeat interval.
PostFresh ==
    /\ lastSuccessfulPostAt - serverAt <= WebhookTimeout
    /\ phase # "posting" => observedAt - lastSuccessfulPostAt < HeartbeatInterval

\* Where the clock is between the last reading and the next poll.
OnTime ==
    /\ phase = "idle" => clock <= nextPoll /\ nextPoll <= observedAt + PollInterval
    /\ phase = "reading" =>
          /\ nextPoll <= observedAt + 2 * PollInterval
          /\ nextPoll - PollInterval <= clock
          /\ clock <= nextPoll - PollInterval + RpcTimeout
    /\ phase = "posting" =>
          /\ observedAt <= clock /\ clock <= observedAt + WebhookTimeout
          /\ nextPoll <= observedAt + PollInterval
          /\ observedAt <= nextPoll - PollInterval + RpcTimeout

IInv == TypeOK /\ PostFresh /\ OnTime /\ HeartbeatAtNextPoll

\* A reading o, its successor p, a post completed at l and observed at v.
LEMMA Difference ==
    ASSUME NEW o \in Nat, NEW p \in Nat, NEW l \in Nat, NEW v \in Nat,
           NEW h \in Nat, NEW i \in Nat, NEW r \in Nat, NEW w \in Nat,
           p <= o + i + r, o < l + h, l <= v + w
    PROVE  p - v < h + i + r + w
  OBVIOUS

\* When the initial snapshot has been accepted, the invariant holds.
LEMMA InitEstablishes == ASSUME CadenceAssumption, Init PROVE IInv
  BY DEF CadenceAssumption, Init, IInv, TypeOK, PostFresh, OnTime, HeartbeatAtNextPoll

\* A poll, the end of a read or of a post, and the passing of time keep it.
LEMMA StepPreserves == ASSUME CadenceAssumption, IInv, [Next]_vars PROVE IInv'
<1> USE DEF CadenceAssumption, IInv, TypeOK
<1>1. CASE Poll
  BY <1>1 DEF Poll, PostFresh, OnTime, HeartbeatAtNextPoll
<1>2. CASE ReadCompletes
  <2>1. TypeOK'
    BY <1>2 DEF ReadCompletes
  <2>2. PostFresh'
    BY <1>2 DEF ReadCompletes, PostFresh, OnTime, HeartbeatDue
  <2>3. OnTime'
    BY <1>2 DEF ReadCompletes, OnTime, HeartbeatDue
  <2>4. HeartbeatAtNextPoll'
    <3>1. observedAt' <= observedAt + PollInterval + RpcTimeout
      BY <1>2 DEF ReadCompletes, OnTime
    <3>2. observedAt < lastSuccessfulPostAt + HeartbeatInterval
          /\ lastSuccessfulPostAt <= serverAt + WebhookTimeout
      BY <1>2 DEF ReadCompletes, PostFresh
    <3>3. serverAt' = serverAt /\ observedAt' \in Nat
      BY <1>2 DEF ReadCompletes
    <3>4. observedAt \in Nat /\ lastSuccessfulPostAt \in Nat /\ serverAt \in Nat
      OBVIOUS
    <3> QED
      BY <3>1, <3>2, <3>3, <3>4, Difference DEF HeartbeatAtNextPoll
  <2> QED BY <2>1, <2>2, <2>3, <2>4
<1>3. CASE PostAccepted
  BY <1>3 DEF PostAccepted, PostFresh, OnTime, HeartbeatAtNextPoll
<1>4. CASE Tick
  BY <1>4 DEF Tick, Deadline, PostFresh, OnTime, HeartbeatAtNextPoll
<1>5. CASE UNCHANGED vars
  BY <1>5 DEF vars, PostFresh, OnTime, HeartbeatAtNextPoll
<1> QED BY <1>1, <1>2, <1>3, <1>4, <1>5 DEF Next

\* Between the reading that first shows a recovery and the snapshot the server
\* holds there is less than the heartbeat interval, one poll interval and the two
\* timeouts, whatever these are.  For the code's eight minutes, its timeouts of
\* fifteen seconds and the default poll interval of two minutes that is half a
\* minute over the gap of ten minutes, and the bound is met to the last tick.
THEOREM HeartbeatComesInTime ==
    ASSUME CadenceAssumption PROVE Spec => []HeartbeatAtNextPoll
<1>1. Init => IInv
  BY InitEstablishes
<1>2. IInv /\ [Next]_vars => IInv'
  BY StepPreserves
<1>3. IInv => HeartbeatAtNextPoll
  BY DEF IInv
<1> QED BY <1>1, <1>2, <1>3, PTL DEF Spec
=============================================================================
