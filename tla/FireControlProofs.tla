-------------------------- MODULE FireControlProofs --------------------------
(***************************************************************************)
(* Proofs about FireControl, for every length of pulse, gap, interval and    *)
(* delay and every sample lag.                                              *)
(***************************************************************************)
EXTENDS FireControl, TLAPS

\* A step's time: its loop's, or its sample's.
StepTime(t) == t \in Times /\ t <= now /\ now <= t + MaxLag

\* What Owed can answer.
LEMMA OwedKind ==
    ASSUME NEW i, NEW t, NEW r
    PROVE  Owed(i, t, r) \in Kinds
  <1>1. CASE mode[i] = "DISABLED"
    BY <1>1 DEF Owed, Kinds
  <1>2. CASE mode[i] # "DISABLED" /\ ~fired[i]
    BY <1>2 DEF Owed, Kinds
  <1>3. CASE mode[i] # "DISABLED" /\ fired[i]
    BY <1>3 DEF Owed, Kinds
  <1> QED BY <1>1, <1>2, <1>3

\* The other channel is a channel, and not this one.
LEMMA OtherChannel ==
    ASSUME NEW i \in Channels
    PROVE  Other(i) \in Channels /\ Other(i) # i /\ \A j \in Channels : j # i => j = Other(i)
  BY DEF Channels, Other

\* Both kinds of step run the rules at a step's time.
LEMMA StepsAtStepTime ==
    ASSUME TypeOK, SampleStep \/ NoSampleStep
    PROVE  \E t, r : StepTime(t) /\ RunFireRules(t, r) /\ stamp' \in Times /\ turn' \in {"NONE", "SAMPLED", "DONE"}
  <1> USE FireControlConstants DEF StepTime, TypeOK, Times
  <1>1. CASE SampleStep
    <2>1. PICK t \in (now - MaxLag)..now, r \in Readings :
             t > stamp /\ stamp' = t /\ turn' = "SAMPLED" /\ RunFireRules(t, r)
      BY <1>1 DEF SampleStep
    <2> QED BY <2>1
  <1>2. CASE NoSampleStep
    BY <1>2 DEF NoSampleStep
  <1> QED BY <1>1, <1>2

-----------------------------------------------------------------------------
\* The type invariant: every clock the rules keep stays within the horizon,
\* and no channel but the two is ever named.
THEOREM TypeCorrect == Spec => []TypeOK
  <1> USE FireControlConstants
  <1>1. Init => TypeOK
    BY DEF Init, TypeOK, Times, Channels, Modes, NoCommand, Kinds, NotOwed
  <1>2. TypeOK /\ [Next]_vars => TypeOK'
    <2> SUFFICES ASSUME TypeOK, [Next]_vars PROVE TypeOK'
      OBVIOUS
    <2>1. ASSUME NEW t, NEW r, StepTime(t), RunFireRules(t, r),
                 stamp' \in Times, turn' \in {"NONE", "SAMPLED", "DONE"}
          PROVE  TypeOK'
      <3>1. mode' = mode /\ apogee_ms' = apogee_ms /\ now' = now /\ ended' = ended
        BY <2>1 DEF RunFireRules, plan
      <3>2. \A c \in Channels : PulseEndAt(c, t) \in Times /\ PulseEnded(c) \in BOOLEAN
        BY <2>1 DEF PulseEndAt, PulseEnded, NotedOver, TypeOK, StepTime
      <3>3. since' \in [Channels -> Times]
        <4>1. \A i \in Channels : OwedSince(i, t, r) \in Times
          BY DEF OwedSince, TypeOK, NotOwed, Times
        <4> QED BY <2>1, <4>1 DEF RunFireRules
      <3>4. ASSUME NEW i \in Channels, Deliver(i, t, r)
            PROVE  /\ fired' \in [Channels -> BOOLEAN] /\ pulse_ended' \in [Channels -> BOOLEAN]
                   /\ last_pulse_ms' \in [Channels -> Times] /\ last_pulse_end_ms' \in [Channels -> Times]
                   /\ active_channel' \in {0} \cup Channels /\ energised' \in {0} \cup Channels
                   /\ command' \in [channel : {0} \cup Channels, kind : Kinds, at : Times]
                   /\ started' \in [Channels -> Times]
        <4>1. energised' \in {0} \cup Channels /\ started' \in [Channels -> Times]
          BY <3>4 DEF Deliver, PyroFire, TypeOK
        <4>2. last_pulse_end_ms' \in [Channels -> Times]
          BY <3>2, <3>4 DEF Deliver
        <4>3. fired' \in [Channels -> BOOLEAN] /\ last_pulse_ms' \in [Channels -> Times]
          BY <2>1, <3>4 DEF Deliver, TypeOK, StepTime
        <4>4. command' \in [channel : {0} \cup Channels, kind : Kinds, at : Times]
          BY <2>1, <3>4, OwedKind DEF Deliver, StepTime
        <4>5. pulse_ended' \in [Channels -> BOOLEAN]
          BY <3>4, <3>2 DEF Deliver
        <4>6. active_channel' \in {0} \cup Channels
          BY <3>4 DEF Deliver
        <4> QED BY <4>1, <4>2, <4>3, <4>4, <4>5, <4>6
      <3>5. CASE \E i \in Channels : Deliver(i, t, r)
        BY <2>1, <3>1, <3>3, <3>4, <3>5 DEF TypeOK
      <3>6. CASE NoOrder(t, r)
        <4>1. last_pulse_end_ms' \in [Channels -> Times] /\ pulse_ended' \in [Channels -> BOOLEAN]
          BY <3>2, <3>6 DEF NoOrder
        <4>2. command' \in [channel : {0} \cup Channels, kind : Kinds, at : Times]
          BY <3>6 DEF NoOrder, NoCommand, Kinds, Times
        <4>3. active_channel' \in {0} \cup Channels
          BY <3>6 DEF NoOrder, TypeOK
        <4> QED BY <2>1, <3>1, <3>3, <3>6, <4>1, <4>2, <4>3 DEF TypeOK, NoOrder
      <3> QED BY <2>1, <3>5, <3>6 DEF RunFireRules
    <2>2. CASE SampleStep \/ NoSampleStep
      BY <2>1, <2>2, StepsAtStepTime
    <2>3. CASE EndLoop
      <3>1. now' \in Times /\ command' \in [channel : {0} \cup Channels, kind : Kinds, at : Times]
        BY <2>3 DEF EndLoop, TypeOK, Times, NoCommand, Kinds
      <3>2. energised' \in {0} \cup Channels /\ ended' \in [Channels -> Times]
        BY <2>3 DEF EndLoop, LetGo, HoldOn, TypeOK
      <3> QED BY <2>3, <3>1, <3>2 DEF EndLoop, TypeOK, plan
    <2>4. CASE UNCHANGED vars
      BY <2>4 DEF vars, plan, clocks, fire, seen, TypeOK
    <2> QED BY <2>2, <2>3, <2>4 DEF Next
  <1> QED BY <1>1, <1>2, PTL DEF Spec

-----------------------------------------------------------------------------
(***************************************************************************)
(* The rules know of the board only one flag, read before the step; what     *)
(* follows relates what they noted to what the board did.                    *)
(***************************************************************************)

\* A pulse under way is the one the rules follow.
PulseFollowed == energised # 0 => active_channel = energised

\* A pulse that is over and not yet noted ended before this loop; one that is
\* noted was noted at a time no more than a lag before the loop after its end.
EndNoted(c) ==
    /\ active_channel = c /\ energised = 0 => ended[c] < now
    /\ fired[c] /\ active_channel # c => ended[c] + 1 <= last_pulse_end_ms[c] + MaxLag

\* Quiet since the other channel, for an order that is not timed before the
\* end it is measured from.
QuietKept(i) ==
    /\ command.channel = i /\ fired[Other(i)]
    /\ command.at >= last_pulse_end_ms[Other(i)]
    => QuietBefore(i) >= FireGap + 1 - MaxLag

\* The inductive invariant under the gap: an order stands only within the loop
\* that gave it, with the board driving the channel it names.
PulseInv ==
    /\ TypeOK
    /\ PulseFollowed
    /\ \A c \in Channels : EndNoted(c)
    /\ \A i \in Channels : QuietKept(i)
    /\ NoFireRefused

\* What a step that orders a pulse establishes.
LEMMA DeliverKeeps ==
    ASSUME PulseInv, TypeOK', NEW t, NEW r, NEW i \in Channels, StepTime(t),
           Deliver(i, t, r), now' = now, ended' = ended
    PROVE  PulseInv'
  <1> USE FireControlConstants
  <1> DEFINE j == Other(i)
  <1>1. j \in Channels /\ j # i /\ \A c \in Channels : c # i => c = j
    BY OtherChannel
  <1>2. energised = 0 /\ GapPassed(i, t)
    BY DEF Deliver, Ordered
  <1>3. /\ energised' = i /\ started' = [started EXCEPT ![i] = now] /\ active_channel' = i
        /\ command' = [channel |-> i, kind |-> Owed(i, t, r), at |-> t]
        /\ fired' = [fired EXCEPT ![i] = TRUE]
    BY <1>2 DEF Deliver, PyroFire
  <1>4. last_pulse_end_ms'[j] = PulseEndAt(j, t) /\ fired'[j] = fired[j]
    BY <1>1, <1>3 DEF Deliver, PulseInv, TypeOK
  <1>5. ASSUME fired[j] PROVE ended[j] + 1 <= last_pulse_end_ms'[j] + MaxLag
    <2>1. CASE active_channel = j
      BY <1>1, <1>2, <1>4, <2>1 DEF PulseEndAt, NotedOver, PulseInv, EndNoted, StepTime, TypeOK, Times
    <2>2. CASE active_channel # j
      BY <1>1, <1>4, <1>5, <2>2 DEF PulseEndAt, NotedOver, PulseInv, EndNoted
    <2> QED BY <2>1, <2>2
  <1>6. PulseFollowed' /\ NoFireRefused'
    BY <1>3 DEF PulseFollowed, NoFireRefused, PulseInv, TypeOK
  <1>7. \A c \in Channels : EndNoted(c)'
    BY <1>1, <1>3, <1>4, <1>5 DEF EndNoted, Channels
  <1>8. QuietKept(i)'
    <2>1. ASSUME fired[j], t >= last_pulse_end_ms'[j]
          PROVE  now - ended[j] >= FireGap + 1 - MaxLag
      <3>1. Since(t, last_pulse_end_ms'[j]) >= FireGap
        BY <1>2, <1>4, <2>1 DEF GapPassed
      <3>2. t - last_pulse_end_ms'[j] >= FireGap
        BY <2>1, <3>1 DEF Since
      <3> QED BY <1>1, <1>5, <2>1, <3>2 DEF StepTime, PulseInv, TypeOK, Times
    <2> QED BY <1>3, <1>4, <2>1 DEF QuietKept, QuietBefore
  <1>9. QuietKept(j)'
    BY <1>1, <1>3 DEF QuietKept
  <1> QED BY <1>1, <1>6, <1>7, <1>8, <1>9 DEF PulseInv

LEMMA NoOrderKeeps ==
    ASSUME PulseInv, TypeOK', NEW t, NEW r, StepTime(t),
           NoOrder(t, r), now' = now, ended' = ended
    PROVE  PulseInv'
  <1> USE FireControlConstants
  <1>1. /\ energised' = energised /\ fired' = fired /\ command' = NoCommand
        /\ active_channel' = IF energised = 0 THEN 0 ELSE active_channel
    BY DEF NoOrder
  <1>2. PulseFollowed'
    BY <1>1 DEF PulseFollowed, PulseInv
  <1>3. ASSUME NEW c \in Channels PROVE EndNoted(c)'
    <2>1. last_pulse_end_ms'[c] = PulseEndAt(c, t)
      BY DEF NoOrder
    <2>2. CASE active_channel = c /\ energised = 0
      BY <1>1, <2>1, <2>2 DEF EndNoted, PulseEndAt, NotedOver, PulseInv, StepTime, TypeOK, Times, Channels
    <2>3. CASE ~(active_channel = c /\ energised = 0)
      BY <1>1, <2>1, <2>3 DEF EndNoted, PulseEndAt, NotedOver, PulseInv, PulseFollowed, Channels
    <2> QED BY <2>2, <2>3
  <1>4. NoFireRefused' /\ \A i \in Channels : QuietKept(i)'
    BY <1>1 DEF NoFireRefused, QuietKept, NoCommand, Channels
  <1> QED BY <1>2, <1>3, <1>4 DEF PulseInv

LEMMA EndLoopKeeps ==
    ASSUME PulseInv, TypeOK', EndLoop
    PROVE  PulseInv'
  <1> USE FireControlConstants
  <1>1. /\ now' = now + 1 /\ fired' = fired /\ command' = NoCommand
        /\ active_channel' = active_channel /\ last_pulse_end_ms' = last_pulse_end_ms
    BY DEF EndLoop
  <1>2. NoFireRefused' /\ \A i \in Channels : QuietKept(i)'
    BY <1>1 DEF NoFireRefused, QuietKept, NoCommand, Channels
  <1>3. CASE LetGo
    <2>1. energised \in Channels /\ energised' = 0 /\ ended' = [ended EXCEPT ![energised] = now]
      BY <1>3 DEF LetGo, PulseInv, TypeOK
    <2>2. PulseFollowed' /\ active_channel = energised
      BY <2>1 DEF PulseFollowed, PulseInv, Channels
    <2>3. \A c \in Channels : EndNoted(c)'
      BY <1>1, <2>1, <2>2 DEF EndNoted, PulseInv, TypeOK, Times
    <2> QED BY <1>2, <2>2, <2>3 DEF PulseInv
  <1>4. CASE HoldOn
    <2>1. PulseFollowed'
      BY <1>1, <1>4 DEF HoldOn, PulseFollowed, PulseInv
    <2>2. \A c \in Channels : EndNoted(c)'
      BY <1>1, <1>4 DEF HoldOn, EndNoted, PulseInv, TypeOK, Times
    <2> QED BY <1>2, <2>1, <2>2 DEF PulseInv
  <1> QED BY <1>3, <1>4 DEF EndLoop

LEMMA PulseInvAlways == Spec => []PulseInv
  <1> USE FireControlConstants
  <1>1. Init /\ TypeOK => PulseInv
    BY DEF Init, PulseInv, PulseFollowed, EndNoted, QuietKept, NoFireRefused, NoCommand, Channels, TypeOK, Times, Other
  <1>2. PulseInv /\ TypeOK' /\ [Next]_vars => PulseInv'
    <2> SUFFICES ASSUME PulseInv, TypeOK', [Next]_vars PROVE PulseInv'
      OBVIOUS
    <2>1. CASE SampleStep \/ NoSampleStep
      <3>1. PICK t, r : StepTime(t) /\ RunFireRules(t, r)
        BY <2>1, StepsAtStepTime DEF PulseInv
      <3> QED BY <3>1, DeliverKeeps, NoOrderKeeps DEF RunFireRules
    <2>2. CASE EndLoop
      BY <2>2, EndLoopKeeps
    <2>3. CASE UNCHANGED vars
      BY <2>3 DEF vars, plan, clocks, fire, seen, PulseInv, PulseFollowed, EndNoted, QuietKept, QuietBefore,
                  NoFireRefused, TypeOK
    <2> QED BY <2>1, <2>2, <2>3 DEF Next
  <1> QED BY <1>1, <1>2, TypeCorrect, PTL DEF Spec

\* Every pulse the rules record is one the board began, in that loop
\* [PYR-FIRE-01], however long the pulses and however late the samples.
THEOREM NoFireRefusedAlways == Spec => []NoFireRefused
  BY PulseInvAlways, PTL DEF PulseInv

\* The gap is short by no more than the lag of a sample, unless the order is
\* timed before the end it is measured from.
THEOREM GapKeptForwardAlways == Spec => []GapKeptForward
  <1>1. PulseInv => GapKeptForward
    BY DEF PulseInv, GapKeptForward, QuietKept
  <1> QED BY <1>1, PulseInvAlways, PTL

-----------------------------------------------------------------------------
(***************************************************************************)
(* How the times the rules keep sit against the loops things happened in.    *)
(***************************************************************************)

\* A pulse is recorded at its step's time, and began in that step's loop; one
\* the board is not driving has run its least length.
PulseTimed(c) ==
    /\ last_pulse_end_ms[c] <= now
    /\ fired[c] => last_pulse_ms[c] <= started[c] /\ started[c] <= last_pulse_ms[c] + MaxLag
    /\ fired[c] /\ energised # c => started[c] + PulseMin + 1 <= now

ClockInv ==
    /\ TypeOK
    /\ stamp <= now
    /\ command.channel # 0 => StepTime(command.at)
    /\ \A c \in Channels : PulseTimed(c)

\* A step of the rules keeps what is known of the clocks.
LEMMA RulesKeepClocks ==
    ASSUME ClockInv, TypeOK', NEW t, NEW r, StepTime(t), RunFireRules(t, r), stamp' <= now
    PROVE  ClockInv'
  <1> USE FireControlConstants
  <1>1. now' = now
    BY DEF RunFireRules
  <1>2. \A c \in Channels : PulseEndAt(c, t) <= now
    BY DEF PulseEndAt, ClockInv, PulseTimed, StepTime
  <1>3. ASSUME NEW i \in Channels, Deliver(i, t, r) PROVE ClockInv'
    <2>1. /\ energised = 0 /\ energised' = i /\ started' = [started EXCEPT ![i] = now]
          /\ command' = [channel |-> i, kind |-> Owed(i, t, r), at |-> t]
          /\ fired' = [fired EXCEPT ![i] = TRUE] /\ last_pulse_ms' = [last_pulse_ms EXCEPT ![i] = t]
          /\ last_pulse_end_ms' = [c \in Channels |-> PulseEndAt(c, t)]
      BY <1>3 DEF Deliver, Ordered, PyroFire
    <2>2. PulseTimed(i)'
      BY <1>1, <1>2, <2>1 DEF PulseTimed, ClockInv, TypeOK, StepTime
    <2>3. ASSUME NEW c \in Channels, c # i PROVE PulseTimed(c)'
      <3>1. started'[c] = started[c] /\ fired'[c] = fired[c] /\ last_pulse_ms'[c] = last_pulse_ms[c]
        BY <2>1, <2>3 DEF ClockInv, TypeOK
      <3>2. energised # c
        BY <2>1 DEF Channels
      <3> QED BY <1>1, <1>2, <2>1, <2>3, <3>1, <3>2 DEF PulseTimed, ClockInv
    <2>4. (command.channel # 0 => StepTime(command.at))'
      BY <1>1, <2>1 DEF StepTime
    <2> QED BY <1>1, <2>2, <2>3, <2>4 DEF ClockInv
  <1>4. CASE NoOrder(t, r)
    <2>1. \A c \in Channels : PulseTimed(c)'
      BY <1>1, <1>2, <1>4 DEF NoOrder, PulseTimed, ClockInv
    <2> QED BY <1>1, <1>4, <2>1 DEF NoOrder, NoCommand, ClockInv
  <1> QED BY <1>3, <1>4 DEF RunFireRules

LEMMA ClockInvAlways == Spec => []ClockInv
  <1> USE FireControlConstants
  <1>1. Init /\ TypeOK => ClockInv
    BY DEF Init, ClockInv, PulseTimed, NoCommand, TypeOK, Times
  <1>2. ClockInv /\ TypeOK' /\ [Next]_vars => ClockInv'
    <2> SUFFICES ASSUME ClockInv, TypeOK', [Next]_vars PROVE ClockInv'
      OBVIOUS
    <2>1. CASE SampleStep
      <3>1. PICK t \in (now - MaxLag)..now, r \in Readings : t > stamp /\ stamp' = t /\ RunFireRules(t, r)
        BY <2>1 DEF SampleStep
      <3>2. StepTime(t)
        BY <3>1 DEF StepTime, ClockInv, TypeOK, Times
      <3> QED BY <3>1, <3>2, RulesKeepClocks DEF ClockInv, TypeOK, Times
    <2>2. CASE NoSampleStep
      <3>1. StepTime(now) /\ RunFireRules(now, NoReading) /\ stamp' = stamp
        BY <2>2 DEF NoSampleStep, StepTime, ClockInv, TypeOK, Times
      <3> QED BY <3>1, RulesKeepClocks DEF ClockInv
    <2>3. CASE EndLoop
      <3>1. /\ now' = now + 1 /\ command' = NoCommand
            /\ UNCHANGED <<stamp, fired, last_pulse_ms, last_pulse_end_ms, started>>
        BY <2>3 DEF EndLoop
      <3>2. ASSUME NEW c \in Channels PROVE PulseTimed(c)'
        <4>1. PulseTimed(c)
          BY DEF ClockInv
        <4>2. CASE LetGo
          BY <3>1, <4>1, <4>2 DEF LetGo, PulseTimed, ClockInv, TypeOK, Times
        <4>3. CASE HoldOn
          BY <3>1, <4>1, <4>3 DEF HoldOn, PulseTimed, ClockInv, TypeOK, Times
        <4> QED BY <2>3, <4>2, <4>3 DEF EndLoop
      <3> QED BY <3>1, <3>2 DEF ClockInv, NoCommand, TypeOK, Times
    <2>4. CASE UNCHANGED vars
      BY <2>4 DEF vars, plan, clocks, fire, seen, ClockInv, PulseTimed, StepTime
    <2> QED BY <2>1, <2>2, <2>3, <2>4 DEF Next
  <1> QED BY <1>1, <1>2, TypeCorrect, PTL DEF Spec

\* With no sample lag, fire_gap separates the pulses of the two channels
\* [PYR-DEPLOY-02]: the lag is all that can take the gap away.
THEOREM GapKeptWithoutLag ==
    ASSUME MaxLag = 0
    PROVE  Spec => []GapKept
  <1> USE FireControlConstants
  <1>1. PulseInv /\ ClockInv => GapKept
    <2> SUFFICES ASSUME PulseInv, ClockInv, NEW i \in Channels, command.channel = i, fired[Other(i)]
                 PROVE  QuietBefore(i) >= FireGap
      BY DEF GapKept
    <2>1. i # 0 /\ Other(i) \in Channels
      BY OtherChannel DEF Channels
    <2>2. command.at >= last_pulse_end_ms[Other(i)]
      BY <2>1 DEF ClockInv, StepTime, PulseTimed, TypeOK, Times
    <2>3. QuietBefore(i) >= FireGap + 1
      BY <2>2 DEF PulseInv, QuietKept
    <2> QED BY <2>1, <2>3 DEF QuietBefore, PulseInv, TypeOK, Times
  <1> QED BY <1>1, PulseInvAlways, ClockInvAlways, PTL

\* One channel's pulses start refire_interval apart, less a sample's lag
\* [PYR-REFIRE-01], when no sample is older than a whole pulse.
THEOREM RefireSpacedAlways ==
    ASSUME MaxLag <= PulseMin + 1
    PROVE  Spec => RefireSpaced
  <1> USE FireControlConstants
  <1> DEFINE Spaced ==
        \A i \in Channels :
            fired[i] /\ command'.channel = i /\ started' # started => now - started[i] >= Interval - MaxLag
  <1>1. ClockInv /\ [Next]_vars => [Spaced]_vars
    <2> SUFFICES ASSUME ClockInv, Next, NEW i \in Channels,
                        fired[i], command'.channel = i, started' # started
                 PROVE  now - started[i] >= Interval - MaxLag
      OBVIOUS
    <2>1. SampleStep \/ NoSampleStep
      BY DEF Next, EndLoop
    <2>2. PICK t, r : StepTime(t) /\ RunFireRules(t, r)
      BY <2>1, StepsAtStepTime DEF ClockInv
    <2>3. PICK k \in Channels : Deliver(k, t, r)
      BY <2>2 DEF RunFireRules, NoOrder
    <2>4. Deliver(i, t, r)
      BY <2>3 DEF Deliver
    <2>5. energised # i /\ Owed(i, t, r) # "NONE"
      BY <2>4 DEF Deliver, Ordered, FirstInLine, Channels
    <2>6. Since(t, last_pulse_ms[i]) >= Interval
      <3>1. IntervalPassed(i, t)
        BY <2>5 DEF Owed
      <3> QED BY <3>1 DEF IntervalPassed
    <2>7. /\ last_pulse_ms[i] <= started[i] /\ started[i] <= last_pulse_ms[i] + MaxLag
          /\ started[i] + PulseMin + 1 <= now
      BY <2>5 DEF ClockInv, PulseTimed
    <2>8. {t, now, started[i], last_pulse_ms[i]} \subseteq Nat /\ t <= now /\ now <= t + MaxLag
      BY <2>2 DEF StepTime, ClockInv, TypeOK, Times
    <2>9. t >= last_pulse_ms[i]
      BY <2>7, <2>8
    <2>10. t - last_pulse_ms[i] >= Interval
      BY <2>6, <2>9 DEF Since
    <2> QED BY <2>7, <2>8, <2>10
  <1>2. Spec => [][Spaced]_vars
    BY <1>1, ClockInvAlways, PTL DEF Spec
  <1> QED BY <1>2 DEF RefireSpaced

\* A DELAY fires no sooner than its delay after an apogee its own ascent
\* declared [PYR-MODE-04]: whatever the samples' lag, no step is timed before
\* the sample that declared it.
THEOREM DelayKeptFromApogee ==
    ASSUME Starts = {"APOGEE"}
    PROVE  Spec => []DelayKept
  <1> USE FireControlConstants
  <1> DEFINE Inv == ClockInv /\ apogee_ms <= stamp /\ DelayKept
  <1>1. Init /\ ClockInv => Inv
    BY DEF Init, DelayKept, NoCommand, Channels
  <1>2. ASSUME ClockInv, apogee_ms <= stamp, NEW t, NEW r, StepTime(t), stamp <= t, RunFireRules(t, r)
        PROVE  DelayKept'
    <2>1. now' = now /\ mode' = mode /\ apogee_ms' = apogee_ms
      BY <1>2 DEF RunFireRules, plan
    <2>2. CASE NoOrder(t, r)
      BY <2>2 DEF NoOrder, NoCommand, DelayKept, Channels
    <2>3. ASSUME NEW i \in Channels, Deliver(i, t, r), Owed(i, t, r) = "FIRST", mode[i] = "DELAY"
          PROVE  now - apogee_ms >= Delay
      <3>1. TriggerMet(i, t, r)
        BY <2>3 DEF Owed
      <3>2. Since(t, apogee_ms) >= Delay
        BY <2>3, <3>1 DEF TriggerMet
      <3> QED BY <1>2, <3>2 DEF Since, StepTime, ClockInv, TypeOK, Times
    <2>4. CASE \E i \in Channels : Deliver(i, t, r)
      <3>1. PICK k \in Channels : Deliver(k, t, r)
        BY <2>4
      <3>2. command' = [channel |-> k, kind |-> Owed(k, t, r), at |-> t]
        BY <3>1 DEF Deliver
      <3>3. Owed(k, t, r) = "FIRST" /\ mode[k] = "DELAY" => now - apogee_ms >= Delay
        BY <2>3, <3>1
      <3> QED BY <2>1, <3>2, <3>3 DEF DelayKept
    <2> QED BY <1>2, <2>2, <2>4 DEF RunFireRules
  <1>3. Inv /\ ClockInv' /\ [Next]_vars => Inv'
    <2> SUFFICES ASSUME Inv, ClockInv', [Next]_vars PROVE Inv'
      OBVIOUS
    <2>1. CASE SampleStep
      <3>1. PICK t \in (now - MaxLag)..now, r \in Readings : t > stamp /\ stamp' = t /\ RunFireRules(t, r)
        BY <2>1 DEF SampleStep
      <3>2. StepTime(t) /\ stamp <= t
        BY <3>1 DEF StepTime, ClockInv, TypeOK, Times
      <3>3. apogee_ms' = apogee_ms
        BY <3>1 DEF RunFireRules, plan
      <3> QED BY <1>2, <3>1, <3>2, <3>3 DEF ClockInv, TypeOK, Times
    <2>2. CASE NoSampleStep
      <3>1. StepTime(now) /\ RunFireRules(now, NoReading) /\ stamp' = stamp
        BY <2>2 DEF NoSampleStep, StepTime, ClockInv, TypeOK, Times
      <3>2. apogee_ms' = apogee_ms
        BY <3>1 DEF RunFireRules, plan
      <3> QED BY <1>2, <3>1, <3>2 DEF ClockInv
    <2>3. CASE EndLoop
      BY <2>3 DEF EndLoop, plan, DelayKept, NoCommand, Channels
    <2>4. CASE UNCHANGED vars
      BY <2>4 DEF vars, plan, clocks, DelayKept
    <2> QED BY <2>1, <2>2, <2>3, <2>4 DEF Next
  <1> QED BY <1>1, <1>3, ClockInvAlways, PTL DEF Spec

-----------------------------------------------------------------------------
(***************************************************************************)
(* How long a channel that is owed can be made to wait: behind the other's   *)
(* pulse and gap, or behind what is left of its own.                         *)
(***************************************************************************)

\* A pulse is over, noted and followed by its gap within PulseAndGap: the
\* board lets go by PulseMax, and the next loop's first step notes it.
PulseBounded(c) ==
    /\ energised = c => fired[c] /\ now <= started[c] + PulseMax
    /\ active_channel = c => fired[c]
    /\ active_channel = c /\ energised = 0 => turn = "NONE" /\ now <= started[c] + PulseMax + 1
    /\ fired[c] /\ active_channel # c
          => pulse_ended[c] /\ last_pulse_end_ms[c] <= started[c] + PulseMax + 1
    /\ fired[c] => started[c] <= now

\* The times the rules keep tell which channel went last: no sample is so old
\* that a pulse is recorded before the one it followed.
InOrder(c) ==
    fired[c] /\ fired[Other(c)]
       => /\ started[c] # started[Other(c)]
          /\ started[c] < started[Other(c)] => last_pulse_ms[c] < last_pulse_ms[Other(c)]

\* Loop x is not yet through its steps.
Before(x) == now <= x /\ (turn # "NONE" => now < x)

\* What the steps that left i waiting say: it was owed again no sooner than
\* its interval (or by a sample older than its pulse, which the next loops
\* undo), and it waits behind the channel the line puts it behind.
WaitKept(i) ==
    since[i] # NotOwed
    => /\ since[i] <= now
       /\ fired[i] => since[i] >= started[i]
       /\ fired[i] => since[i] + MaxLag >= started[i] + Interval \/ Before(started[i] + MaxLag)
       /\ GoesBefore(Other(i), i) => fired[i] /\ Before(started[i] + PulseAndGap)
       /\ GoesBefore(i, Other(i))
             => /\ fired[Other(i)] /\ Before(started[Other(i)] + PulseAndGap)
                /\ \/ started[Other(i)] <= since[i]
                   \/ fired[i] /\ started[Other(i)] <= started[i] + PulseAndGap

BoardInv == PulseInv /\ ClockInv /\ \A c \in Channels : PulseBounded(c) /\ InOrder(c)
ServeInv == BoardInv /\ \A i \in Channels : WaitKept(i)

\* What the rules make of the pulse ends they have to look back on.
LEMMA EndBounded ==
    ASSUME BoardInv, NEW t, StepTime(t), energised = 0, NEW c \in Channels, fired[c]
    PROVE  PulseEnded(c) /\ PulseEndAt(c, t) <= started[c] + PulseMax + 1
  <1> USE FireControlConstants
  <1>1. PulseBounded(c) /\ TypeOK
    BY DEF BoardInv, PulseInv
  <1>2. CASE active_channel = c
    BY <1>1, <1>2 DEF PulseBounded, PulseEnded, PulseEndAt, NotedOver, StepTime, TypeOK, Times
  <1>3. CASE active_channel # c
    BY <1>1, <1>3 DEF PulseBounded, PulseEnded, PulseEndAt, NotedOver
  <1> QED BY <1>2, <1>3

\* A pulse and its gap are over at every step from PulseAndGap after its start.
LEMMA GapOver ==
    ASSUME BoardInv, NEW t, StepTime(t), energised = 0, NEW i \in Channels,
           fired[Other(i)] => now >= started[Other(i)] + PulseAndGap
    PROVE  GapPassed(i, t)
  <1> USE FireControlConstants
  <1> DEFINE j == Other(i)
  <1>1. j \in Channels
    BY OtherChannel
  <1>2. CASE ~fired[j]
    BY <1>2 DEF GapPassed
  <1>3. CASE fired[j]
    <2>1. PulseEnded(j) /\ PulseEndAt(j, t) <= started[j] + PulseMax + 1
      BY <1>1, <1>3, EndBounded
    <2>2. PulseEndAt(j, t) \in Nat /\ started[j] \in Nat /\ t \in Nat /\ now \in Nat
      BY <1>1 DEF PulseEndAt, BoardInv, PulseInv, TypeOK, Times, StepTime
    <2>3. t - PulseEndAt(j, t) >= FireGap
      BY <1>3, <2>1, <2>2 DEF PulseAndGap, StepTime
    <2>4. Since(t, PulseEndAt(j, t)) >= FireGap
      BY <2>2, <2>3 DEF Since
    <2> QED BY <2>1, <2>4 DEF GapPassed
  <1> QED BY <1>2, <1>3

\* Of two channels that have fired, the rules put first the one that began
\* earlier.
LEMMA LineTells ==
    ASSUME BoardInv, NEW i \in Channels, fired[i], GoesBefore(i, Other(i))
    PROVE  fired[Other(i)] /\ started[i] < started[Other(i)]
  <1>1. Other(i) \in Channels /\ Other(Other(i)) = i
    BY DEF Other, Channels
  <1>2. fired[Other(i)] /\ last_pulse_ms[i] <= last_pulse_ms[Other(i)]
    BY <1>1 DEF GoesBefore, BoardInv, PulseInv, TypeOK, Times
  <1>3. InOrder(Other(i))
    BY <1>1 DEF BoardInv
  <1> QED BY <1>1, <1>2, <1>3 DEF InOrder, BoardInv, PulseInv, TypeOK, Times

\* One of the two always goes before the other.
LEMMA LineTotal ==
    ASSUME TypeOK, NEW i \in Channels
    PROVE  /\ GoesBefore(i, Other(i)) \/ GoesBefore(Other(i), i)
           /\ ~(GoesBefore(i, Other(i)) /\ GoesBefore(Other(i), i))
  BY FireControlConstants DEF GoesBefore, Other, Channels, TypeOK, Times

\* A step that orders nothing though i is owed waits for the channel the line
\* puts i behind: for its pulse, or for the gap after it.
LEMMA HeldBack ==
    ASSUME BoardInv, NEW t, NEW r, StepTime(t), NoOrder(t, r),
           NEW i \in Channels, Owed(i, t, r) # "NONE"
    PROVE  /\ GoesBefore(i, Other(i)) => fired[Other(i)] /\ now < started[Other(i)] + PulseAndGap
           /\ GoesBefore(Other(i), i) => fired[i] /\ now < started[i] + PulseAndGap
  <1> USE FireControlConstants
  <1> DEFINE j == Other(i)
  <1>1. j \in Channels /\ Other(j) = i
    BY DEF Other, Channels
  <1>2. started[i] \in Nat /\ started[j] \in Nat /\ now \in Nat
    BY <1>1 DEF BoardInv, PulseInv, TypeOK, Times
  <1>3. PulseAndGap \in Nat /\ PulseMax < PulseAndGap
    BY DEF PulseAndGap
  <1>4. fired[i] /\ GoesBefore(i, j) => fired[j] /\ started[i] < started[j]
    BY LineTells
  <1>5. fired[j] /\ GoesBefore(j, i) => fired[i] /\ started[j] < started[i]
    BY <1>1, LineTells
  <1>6. energised \in {0, i, j}
    BY <1>1, OtherChannel DEF BoardInv, PulseInv, TypeOK
  <1>7. CASE energised = i
    <2>1. fired[i] /\ now <= started[i] + PulseMax
      BY <1>7 DEF BoardInv, PulseBounded
    <2>2. now < started[i] + PulseAndGap
      BY <1>2, <1>3, <2>1
    <2>3. GoesBefore(i, j) => fired[j] /\ now < started[j] + PulseAndGap
      BY <1>2, <1>3, <1>4, <2>1, <2>2
    <2> QED BY <2>1, <2>2, <2>3
  <1>8. CASE energised = j
    <2>1. fired[j] /\ now <= started[j] + PulseMax
      BY <1>1, <1>8 DEF BoardInv, PulseBounded
    <2>2. now < started[j] + PulseAndGap
      BY <1>2, <1>3, <2>1
    <2>3. GoesBefore(j, i) => fired[i] /\ now < started[i] + PulseAndGap
      BY <1>2, <1>3, <1>5, <2>1, <2>2
    <2> QED BY <2>1, <2>2, <2>3
  <1>9. CASE energised = 0
    <2>1. CASE FirstInLine(i, t, r)
      <3>1. ~GapPassed(i, t)
        BY <1>9, <2>1 DEF NoOrder, Ordered
      <3>2. fired[j] /\ now < started[j] + PulseAndGap
        BY <1>2, <1>3, <1>9, <3>1, GapOver
      <3>3. GoesBefore(j, i) => fired[i] /\ now < started[i] + PulseAndGap
        BY <1>2, <1>3, <1>5, <3>2
      <3> QED BY <3>2, <3>3
    <2>2. CASE ~FirstInLine(i, t, r)
      <3>1. Owed(j, t, r) # "NONE" /\ ~GoesBefore(i, j)
        BY <2>2 DEF FirstInLine
      <3>2. GoesBefore(j, i)
        BY <3>1, LineTotal DEF BoardInv, PulseInv
      <3>3. FirstInLine(j, t, r)
        BY <1>1, <3>1, <3>2 DEF FirstInLine
      <3>4. ~GapPassed(j, t)
        BY <1>1, <1>9, <3>3 DEF NoOrder, Ordered
      <3>5. fired[i] /\ now < started[i] + PulseAndGap
        BY <1>1, <1>2, <1>3, <1>9, <3>4, GapOver
      <3> QED BY <3>1, <3>5
    <2> QED BY <2>1, <2>2
  <1> QED BY <1>6, <1>7, <1>8, <1>9

\* The rules keep the pulses bounded and their record in order.
LEMMA RulesKeepPulses ==
    ASSUME MaxLag <= PulseMin, BoardInv, TypeOK', NEW t, NEW r, StepTime(t), RunFireRules(t, r)
    PROVE  \A c \in Channels : PulseBounded(c)' /\ InOrder(c)'
  <1> USE FireControlConstants
  <1>1. now' = now /\ TypeOK
    BY DEF RunFireRules, BoardInv, PulseInv
  <1>2. ASSUME NEW k \in Channels, Deliver(k, t, r) PROVE \A c \in Channels : PulseBounded(c)' /\ InOrder(c)'
    <2> DEFINE o == Other(k)
    <2>1. o \in Channels /\ o # k /\ Other(o) = k /\ \A c \in Channels : c # k => c = o
      BY DEF Other, Channels
    <2>2. /\ energised = 0 /\ energised' = k /\ started' = [started EXCEPT ![k] = now] /\ active_channel' = k
          /\ fired' = [fired EXCEPT ![k] = TRUE] /\ last_pulse_ms' = [last_pulse_ms EXCEPT ![k] = t]
          /\ last_pulse_end_ms' = [c \in Channels |-> PulseEndAt(c, t)]
          /\ pulse_ended' = [c \in Channels |-> c # k /\ PulseEnded(c)]
      BY <1>2 DEF Deliver, Ordered, PyroFire
    <2>3. /\ fired'[k] = TRUE /\ started'[k] = now /\ last_pulse_ms'[k] = t
          /\ fired'[o] = fired[o] /\ started'[o] = started[o] /\ last_pulse_ms'[o] = last_pulse_ms[o]
      BY <1>1, <2>1, <2>2 DEF TypeOK
    <2>4. PulseBounded(k)'
      BY <1>1, <2>2, <2>3 DEF PulseBounded, TypeOK, Times, Channels
    <2>5. PulseBounded(o)'
      <3>1. fired[o] => PulseEnded(o) /\ PulseEndAt(o, t) <= started[o] + PulseMax + 1
        BY <2>1, <2>2, EndBounded
      <3>2. fired[o] => started[o] <= now
        BY <2>1 DEF BoardInv, PulseBounded
      <3>3. last_pulse_end_ms'[o] = PulseEndAt(o, t)
        BY <2>1, <2>2
      <3>4. PulseEnded(o) => pulse_ended'[o]
        <4>1. pulse_ended'[o] = (o # k /\ PulseEnded(o))
          BY <2>1, <2>2, Zenon
        <4> QED BY <2>1, <4>1
      <3>5. energised' # o /\ active_channel' # o
        BY <2>1, <2>2
      <3> QED BY <1>1, <2>3, <3>1, <3>2, <3>3, <3>4, <3>5 DEF PulseBounded
    <2>6. fired[o] => started[o] < now /\ last_pulse_ms[o] < t
      <3>1. PulseTimed(o) /\ energised # o
        BY <2>1, <2>2 DEF BoardInv, ClockInv, Channels
      <3>2. {started[o], last_pulse_ms[o], now, t} \subseteq Nat
        BY <1>1, <2>1 DEF TypeOK, Times, StepTime
      <3>3. fired[o] => last_pulse_ms[o] <= started[o] /\ started[o] + PulseMin + 1 <= now
        BY <3>1 DEF PulseTimed
      <3>4. now <= t + MaxLag
        BY DEF StepTime
      <3> QED BY <3>2, <3>3, <3>4
    <2>7. InOrder(k)' /\ InOrder(o)'
      <3>1. {started[o], last_pulse_ms[o], now, t} \subseteq Nat
        BY <1>1, <2>1 DEF TypeOK, Times, StepTime
      <3>2. InOrder(k)'
        BY <2>1, <2>3, <2>6, <3>1 DEF InOrder
      <3>3. InOrder(o)'
        BY <2>1, <2>3, <2>6, <3>1 DEF InOrder
      <3> QED BY <3>2, <3>3
    <2> QED BY <2>1, <2>4, <2>5, <2>7
  <1>3. ASSUME NoOrder(t, r), NEW c \in Channels PROVE PulseBounded(c)' /\ InOrder(c)'
    <2>1. /\ fired' = fired /\ started' = started /\ last_pulse_ms' = last_pulse_ms /\ energised' = energised
          /\ active_channel' = IF energised = 0 THEN 0 ELSE active_channel
          /\ last_pulse_end_ms'[c] = PulseEndAt(c, t) /\ pulse_ended'[c] = PulseEnded(c)
      BY <1>3 DEF NoOrder
    <2>2. InOrder(c)'
      BY <2>1 DEF InOrder, BoardInv
    <2>3. PulseBounded(c)
      BY DEF BoardInv
    <2>4. CASE energised = 0
      <3>1. fired[c] => PulseEnded(c) /\ PulseEndAt(c, t) <= started[c] + PulseMax + 1
        BY <2>4, EndBounded
      <3> QED BY <1>1, <2>1, <2>2, <2>3, <2>4, <3>1 DEF PulseBounded, Channels
    <2>5. CASE energised # 0
      <3>1. PulseEndAt(c, t) = last_pulse_end_ms[c] /\ PulseEnded(c) = pulse_ended[c]
        BY <1>1, <2>5 DEF PulseEndAt, PulseEnded, NotedOver, TypeOK
      <3> QED BY <1>1, <2>1, <2>2, <2>3, <2>5, <3>1 DEF PulseBounded
    <2> QED BY <2>4, <2>5
  <1> QED BY <1>2, <1>3 DEF RunFireRules

\* A step that leaves i waiting keeps what is known of its wait.
LEMMA RulesKeepWait ==
    ASSUME MaxLag <= PulseMin, Interval > 2 * MaxLag, ServeInv, TypeOK', NEW t, NEW r, StepTime(t),
           RunFireRules(t, r), turn' # "NONE", NEW i \in Channels
    PROVE  WaitKept(i)'
  <1> USE FireControlConstants
  <1> DEFINE j == Other(i)
  <1> SUFFICES ASSUME since'[i] # NotOwed PROVE WaitKept(i)'
    BY DEF WaitKept
  <1>1. j \in Channels /\ j # i /\ Other(j) = i /\ \A c \in Channels : c # i => c = j
    BY DEF Other, Channels
  <1>2. now' = now /\ TypeOK /\ BoardInv /\ WaitKept(i)
    BY DEF RunFireRules, ServeInv, BoardInv, PulseInv
  <1>3. /\ command'.channel # i /\ Owed(i, t, r) # "NONE"
        /\ since'[i] = IF since[i] = NotOwed THEN now ELSE since[i]
    <2>1. since'[i] = OwedSince(i, t, r)
      BY DEF RunFireRules
    <2> QED BY <2>1 DEF OwedSince
  <1>4. Deliver(j, t, r) \/ NoOrder(t, r)
    <2>1. ~Deliver(i, t, r)
      BY <1>3 DEF Deliver
    <2> QED BY <1>1, <2>1 DEF RunFireRules
  <1>5. fired'[i] = fired[i] /\ started'[i] = started[i] /\ last_pulse_ms'[i] = last_pulse_ms[i]
    <2>1. CASE Deliver(j, t, r)
      BY <1>1, <1>2, <2>1 DEF Deliver, PyroFire, TypeOK
    <2>2. CASE NoOrder(t, r)
      BY <2>2 DEF NoOrder
    <2> QED BY <1>4, <2>1, <2>2
  <1>6. {now, t, since[i], since'[i], started[i], last_pulse_ms[i]} \subseteq Nat
    BY <1>2 DEF TypeOK, Times, StepTime
  <1>7. since'[i] <= now
    BY <1>2, <1>3, <1>6 DEF WaitKept
  <1>8. fired[i] => started[i] <= since'[i]
    BY <1>2, <1>3, <1>6 DEF WaitKept, BoardInv, PulseBounded
  <1>9. fired[i] => since'[i] + MaxLag >= started[i] + Interval \/ now < started[i] + MaxLag
    <2> SUFFICES ASSUME fired[i], now >= started[i] + MaxLag
                 PROVE  since'[i] + MaxLag >= started[i] + Interval
      BY <1>6
    <2>1. Since(t, last_pulse_ms[i]) >= Interval
      <3>1. IntervalPassed(i, t)
        BY <1>3 DEF Owed
      <3> QED BY <3>1 DEF IntervalPassed
    <2>2. /\ last_pulse_ms[i] <= started[i] /\ started[i] <= last_pulse_ms[i] + MaxLag
          /\ t <= now /\ now <= t + MaxLag
      BY DEF StepTime, BoardInv, ServeInv, ClockInv, PulseTimed
    <2>3. t >= last_pulse_ms[i]
      BY <1>6, <2>2
    <2>4. t >= last_pulse_ms[i] + Interval
      BY <1>6, <2>1, <2>3 DEF Since
    <2>5. now + MaxLag >= started[i] + Interval /\ now > started[i] + MaxLag
      BY <1>6, <2>2, <2>4
    <2>6. since[i] # NotOwed => since[i] + MaxLag >= started[i] + Interval
      BY <1>2, <1>6, <2>5 DEF WaitKept, Before
    <2> QED BY <1>3, <2>5, <2>6
  <1>10. PulseAndGap \in Nat /\ PulseAndGap > 0
    BY DEF PulseAndGap
  <1>11. ASSUME GoesBefore(j, i)' => fired'[i] /\ now < started'[i] + PulseAndGap,
                GoesBefore(i, j)' => /\ fired'[j] /\ now < started'[j] + PulseAndGap
                                     /\ \/ started'[j] <= since'[i]
                                        \/ fired'[i] /\ started'[j] <= started'[i] + PulseAndGap
         PROVE  WaitKept(i)'
    <2>1. started'[j] \in Nat /\ started'[i] \in Nat
      BY <1>1 DEF TypeOK, Times
    <2>2. fired'[i] => since'[i] + MaxLag >= started'[i] + Interval \/ Before(started[i] + MaxLag)'
      BY <1>2, <1>5, <1>6, <1>9, <2>1 DEF Before
    <2>3. GoesBefore(j, i)' => fired'[i] /\ Before(started[i] + PulseAndGap)'
      BY <1>2, <1>6, <1>10, <1>11, <2>1 DEF Before
    <2>4. GoesBefore(i, j)' => fired'[j] /\ Before(started[j] + PulseAndGap)'
      BY <1>2, <1>6, <1>10, <1>11, <2>1 DEF Before
    <2> QED BY <1>2, <1>5, <1>7, <1>8, <1>11, <2>2, <2>3, <2>4 DEF WaitKept
  <1>12. CASE NoOrder(t, r)
    <2>1. UNCHANGED <<fired, started, last_pulse_ms>>
      BY <1>12 DEF NoOrder
    <2>2. GoesBefore(j, i) => fired[i] /\ now < started[i] + PulseAndGap
      BY <1>2, <1>3, <1>12, HeldBack
    <2>3. GoesBefore(i, j) => fired[j] /\ now < started[j] + PulseAndGap
      BY <1>2, <1>3, <1>12, HeldBack
    <2>4. GoesBefore(i, j)
            => started[j] <= since'[i] \/ (fired[i] /\ started[j] <= started[i] + PulseAndGap)
      <3>1. CASE since[i] = NotOwed
        BY <1>1, <1>2, <1>3, <2>3, <3>1 DEF BoardInv, PulseBounded
      <3>2. CASE since[i] # NotOwed
        BY <1>2, <1>3, <3>2 DEF WaitKept
      <3> QED BY <3>1, <3>2
    <2>5. GoesBefore(j, i)' = GoesBefore(j, i) /\ GoesBefore(i, j)' = GoesBefore(i, j)
      BY <2>1 DEF GoesBefore
    <2> QED BY <2>1, <2>2, <2>3, <2>4, <2>5, <1>11
  <1>13. CASE Deliver(j, t, r)
    <2>1. energised = 0 /\ FirstInLine(j, t, r)
      BY <1>13 DEF Deliver, Ordered
    <2>2. fired'[j] = TRUE /\ started'[j] = now /\ last_pulse_ms'[j] = t
      BY <1>1, <1>2, <1>13, <2>1 DEF Deliver, PyroFire, TypeOK
    <2>3. GoesBefore(j, i)
      BY <1>1, <1>3, <2>1 DEF FirstInLine
    <2>4. fired[i] => last_pulse_ms[i] < t
      <3>1. PulseTimed(i) /\ energised # i
        BY <1>2, <2>1 DEF BoardInv, ClockInv, Channels
      <3>2. fired[i] => last_pulse_ms[i] <= started[i] /\ started[i] + PulseMin + 1 <= now
        BY <3>1 DEF PulseTimed
      <3> QED BY <1>6, <3>2 DEF StepTime
    <2>5. ~GoesBefore(j, i)'
      BY <1>1, <1>5, <1>6, <2>2, <2>4 DEF GoesBefore
    <2>6. started'[j] <= since'[i] \/ (fired[i] /\ started'[j] <= started[i] + PulseAndGap)
      <3>1. CASE since[i] = NotOwed
        BY <1>3, <1>6, <2>2, <3>1
      <3>2. CASE since[i] # NotOwed
        BY <1>2, <2>2, <2>3, <3>2 DEF WaitKept, Before
      <3> QED BY <3>1, <3>2
    <2>7. now < started'[j] + PulseAndGap
      BY <1>6, <1>10, <2>2
    <2> QED BY <1>5, <2>2, <2>5, <2>6, <2>7, <1>11
  <1> QED BY <1>4, <1>12, <1>13

\* A loop that ends leaves every wait where it was, one loop longer.
LEMMA EndLoopKeepsServe ==
    ASSUME ServeInv, TypeOK', EndLoop
    PROVE  /\ \A c \in Channels : PulseBounded(c)' /\ InOrder(c)'
           /\ \A i \in Channels : WaitKept(i)'
  <1> USE FireControlConstants
  <1>1. /\ now' = now + 1 /\ turn # "NONE" /\ turn' = "NONE" /\ now \in Nat /\ TypeOK
        /\ UNCHANGED <<fired, pulse_ended, last_pulse_ms, last_pulse_end_ms, active_channel, started, since>>
    BY DEF EndLoop, ServeInv, BoardInv, PulseInv, TypeOK, Times
  <1>2. ASSUME NEW c \in Channels PROVE InOrder(c)'
    BY <1>1 DEF InOrder, ServeInv, BoardInv
  <1>3. ASSUME NEW c \in Channels PROVE PulseBounded(c)'
    <2>1. PulseBounded(c) /\ started[c] \in Nat /\ PulseFollowed /\ energised \in {0} \cup Channels
      BY <1>1 DEF ServeInv, BoardInv, PulseInv, TypeOK, Times
    <2>2. CASE LetGo
      <3>1. energised # 0 /\ energised' = 0 /\ active_channel = energised
        BY <2>1, <2>2 DEF LetGo, PulseFollowed
      <3>2. active_channel = c => now <= started[c] + PulseMax
        BY <2>1, <3>1 DEF PulseBounded
      <3> QED BY <1>1, <2>1, <3>1, <3>2 DEF PulseBounded, Channels
    <2>3. CASE HoldOn
      <3>1. energised' = energised /\ (energised = c => now - started[c] < PulseMax)
        BY <2>3 DEF HoldOn, Channels
      <3> QED BY <1>1, <2>1, <3>1 DEF PulseBounded, Channels
    <2> QED BY <2>2, <2>3 DEF EndLoop
  <1>4. ASSUME NEW i \in Channels PROVE WaitKept(i)'
    <2>1. WaitKept(i) /\ Other(i) \in Channels
      BY OtherChannel DEF ServeInv
    <2>2. {started[i], started[Other(i)], since[i], PulseAndGap} \subseteq Nat
      BY <1>1, <2>1 DEF TypeOK, Times, PulseAndGap
    <2>3. GoesBefore(Other(i), i)' = GoesBefore(Other(i), i) /\ GoesBefore(i, Other(i))' = GoesBefore(i, Other(i))
      BY <1>1 DEF GoesBefore
    <2> QED BY <1>1, <2>1, <2>2, <2>3 DEF WaitKept, Before
  <1> QED BY <1>2, <1>3, <1>4

LEMMA ServeInvAlways ==
    ASSUME MaxLag <= PulseMin, Interval > 2 * MaxLag
    PROVE  Spec => []ServeInv
  <1> USE FireControlConstants
  <1>1. Init /\ PulseInv /\ ClockInv => ServeInv
    BY DEF Init, ServeInv, BoardInv, PulseBounded, InOrder, WaitKept, Channels, Other, NotOwed
  <1>2. ServeInv /\ PulseInv' /\ ClockInv' /\ [Next]_vars => ServeInv'
    <2> SUFFICES ASSUME ServeInv, PulseInv', ClockInv', [Next]_vars PROVE ServeInv'
      OBVIOUS
    <2>1. TypeOK' /\ BoardInv /\ TypeOK
      BY DEF PulseInv, ServeInv, BoardInv
    <2>2. ASSUME NEW t, NEW r, StepTime(t), RunFireRules(t, r), turn' # "NONE" PROVE ServeInv'
      BY <2>1, <2>2, RulesKeepPulses, RulesKeepWait DEF ServeInv, BoardInv
    <2>3. CASE SampleStep
      <3>1. PICK t \in (now - MaxLag)..now, r \in Readings :
               t > stamp /\ turn' = "SAMPLED" /\ RunFireRules(t, r)
        BY <2>3 DEF SampleStep
      <3>2. StepTime(t)
        BY <2>1, <3>1 DEF StepTime, TypeOK, Times
      <3> QED BY <2>2, <3>1, <3>2
    <2>4. CASE NoSampleStep
      <3>1. StepTime(now) /\ RunFireRules(now, NoReading) /\ turn' = "DONE"
        BY <2>1, <2>4 DEF NoSampleStep, StepTime, TypeOK, Times
      <3> QED BY <2>2, <3>1
    <2>5. CASE EndLoop
      BY <2>1, <2>5, EndLoopKeepsServe DEF ServeInv, BoardInv
    <2>6. CASE UNCHANGED vars
      <3>1. UNCHANGED <<plan, now, stamp, turn, fired, pulse_ended, last_pulse_ms, last_pulse_end_ms,
                        active_channel, energised, started, since>>
        BY <2>6 DEF vars, clocks, fire, seen
      <3>2. \A c \in Channels : PulseBounded(c)' /\ InOrder(c)'
        BY <2>1, <3>1 DEF BoardInv, PulseBounded, InOrder
      <3>3. \A i, k \in Channels : GoesBefore(i, k)' = GoesBefore(i, k)
        BY <3>1 DEF GoesBefore
      <3>4. \A i \in Channels : WaitKept(i)'
        BY <3>1, <3>3, OtherChannel DEF ServeInv, WaitKept, Before
      <3> QED BY <3>2, <3>4 DEF ServeInv, BoardInv
    <2> QED BY <2>3, <2>4, <2>5, <2>6 DEF Next
  <1> QED BY <1>1, <1>2, PulseInvAlways, ClockInvAlways, PTL DEF Spec

\* Neither channel starves the other [PYR-DEPLOY-02]: one owed a pulse at
\* every step has it within WaitBound, if no sample is older than a pulse is
\* long or than half the interval.
THEOREM ServedInTimeAlways ==
    ASSUME MaxLag <= PulseMin, Interval > 2 * MaxLag
    PROVE  Spec => []ServedInTime
  <1> USE FireControlConstants
  <1>1. ServeInv => ServedInTime
    <2> SUFFICES ASSUME ServeInv, NEW i \in Channels, since[i] # NotOwed
                 PROVE  now - since[i] <= WaitBound
      BY DEF ServedInTime
    <2>1. WaitKept(i) /\ TypeOK /\ Other(i) \in Channels
      BY OtherChannel DEF ServeInv, BoardInv, PulseInv
    <2>2. {now, since[i], started[i], started[Other(i)]} \subseteq Nat
      BY <2>1 DEF TypeOK, Times
    <2>3. /\ PulseAndGap \in Nat /\ WaitBound \in Int /\ MaxLag < PulseAndGap /\ WaitBound >= PulseAndGap
          /\ WaitBound >= 2 * PulseAndGap - (Interval - MaxLag)
      BY DEF PulseAndGap, WaitBound
    <2>4. CASE GoesBefore(Other(i), i)
      BY <2>1, <2>2, <2>3, <2>4 DEF WaitKept, Before
    <2>5. CASE GoesBefore(i, Other(i))
      <3>1. now <= started[Other(i)] + PulseAndGap
        BY <2>1, <2>5 DEF WaitKept, Before
      <3>2. CASE started[Other(i)] <= since[i]
        BY <2>2, <2>3, <3>1, <3>2
      <3>3. CASE fired[i] /\ started[Other(i)] <= started[i] + PulseAndGap
        <4>1. since[i] + MaxLag >= started[i] + Interval \/ now <= started[i] + MaxLag
          BY <2>1, <3>3 DEF WaitKept, Before
        <4>2. since[i] >= started[i]
          BY <2>1, <3>3 DEF WaitKept
        <4> QED BY <2>2, <2>3, <3>1, <3>3, <4>1, <4>2
      <3> QED BY <2>1, <2>5, <3>2, <3>3 DEF WaitKept
    <2> QED BY <2>1, <2>4, <2>5, LineTotal
  <1> QED BY <1>1, ServeInvAlways, PTL
=============================================================================
