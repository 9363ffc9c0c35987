---------------------------- MODULE ScopeProofs -----------------------------
(***************************************************************************)
(* The two logic analysers.  The plain one (Scope) and the host's program  *)
(* mark the sample that triggered; the words of the compressed one (Scopc) *)
(* stand for exactly the samples that it took.                             *)
(***************************************************************************)
EXTENDS Scope, Scopc, TLAPS

-----------------------------------------------------------------------------
\* wbscope.v and the host's SCOPE.  The addresses of the memory; x modulo its size, for
\* x below twice that; and the place that was written k clocks ago.
Places == 0 .. Slots - 1
Wrapped(x) == IF x >= Slots THEN x - Slots ELSE x
Ago(k) == IF k <= waddr THEN waddr - k ELSE (waddr - k) + Slots

ScopeTypes ==
  /\ br_config \in [reset : BOOLEAN, manual : BOOLEAN, disable : BOOLEAN]
  /\ r_reset_complete \in BOOLEAN /\ q_reset_complete \in BOOLEAN /\ qq_reset_complete \in BOOLEAN
  /\ q_iflags.reset \in BOOLEAN /\ r_iflags.reset \in BOOLEAN
  /\ dr_triggered \in BOOLEAN /\ dr_primed \in BOOLEAN /\ dr_stopped \in BOOLEAN
  /\ data_pipe \in BOOLEAN /\ busy \in BOOLEAN
  /\ q_oflags.stopped \in BOOLEAN /\ r_oflags.stopped \in BOOLEAN
  /\ counter \in Nat /\ waddr \in Places /\ raddr \in Places /\ br_holdoff \in Nat
  /\ mem \in [Places -> BOOLEAN] /\ m_data \in Seq(BOOLEAN)
  /\ hpc \in {"none", "rawread", "print", "writevcd", "done"}

\* A reset goes to the clock of the data and back through six registers, and its end
\* follows it: there is one boundary between them.
Rising ==
  /\ q_iflags.reset => br_config.reset
  /\ r_iflags.reset => q_iflags.reset
  /\ r_reset_complete => r_iflags.reset
  /\ q_reset_complete => r_reset_complete
  /\ qq_reset_complete => q_reset_complete
Falling ==
  /\ br_config.reset => q_iflags.reset
  /\ q_iflags.reset => r_iflags.reset
  /\ r_iflags.reset => r_reset_complete
  /\ r_reset_complete => q_reset_complete
  /\ q_reset_complete => qq_reset_complete

\* The recorder after a clock of its reset; and whether it has had its reset since
\* the control register, and the holdoff with it, was written.
Fresh ==
  /\ ~dr_triggered /\ ~dr_primed /\ ~dr_stopped /\ ~data_pipe /\ waddr = 0 /\ counter = 0
Clean == br_config.reset => r_reset_complete

\* A recording: before the trigger, what was written since the reset did not trigger,
\* and that is all of the memory if the scope is primed; the one that did is in the
\* pipe, and later in the place that was written as many clocks ago as were counted.
BeforeTrigger == ~dr_triggered => counter = 0 /\ \A a \in 0 .. waddr - 1 : ~mem[a]
Primed == dr_primed /\ (~dr_triggered \/ counter = 0) => \A a \in Places : ~mem[a]
Triggered ==
  dr_triggered /\ counter > 0 =>
    \A a \in Places : mem[a] <=> counter <= Slots /\ a = Ago(counter)
Recording ==
  /\ dr_triggered => dr_primed
  /\ BeforeTrigger /\ Primed /\ Triggered
  /\ data_pipe <=> dr_triggered /\ counter = 0
  /\ dr_stopped <=> dr_triggered /\ counter = br_holdoff + 1
  /\ counter <= br_holdoff + 1

\* The flags that the bus sees are late and, once its reset is over, right.
Flags ==
  /\ br_config.reset /\ ~busy => ~q_oflags.stopped /\ ~r_oflags.stopped
  /\ ~br_config.reset => /\ r_oflags.stopped => q_oflags.stopped
                         /\ q_oflags.stopped => dr_stopped

\* The host has read the first places from the oldest on.
Reading ==
  hpc # "none" =>
    /\ ~br_config.reset /\ r_oflags.stopped /\ m_scoplen = Slots /\ m_holdoff = br_holdoff
    /\ IF hpc = "rawread" THEN Len(m_data) < Slots ELSE Len(m_data) = Slots
    /\ hpc \in {"writevcd", "done"} => trigger_at \in {offset, NoMark}
    /\ whole => /\ hpc = "rawread" => raddr = Len(m_data)
                /\ \A i \in 1 .. Len(m_data) : m_data[i] <=> mem[Wrapped((i - 1) + waddr)]

ScopeInv ==
  /\ ScopeTypes /\ (Rising \/ Falling) /\ (r_reset_complete => Fresh) /\ (Clean => Recording)
  /\ Flags /\ Reading

-----------------------------------------------------------------------------
LEMMA WrapsOnce ==
  ASSUME NEW x \in 0 .. 2 * Slots - 1
  PROVE  x % Slots = Wrapped(x) /\ Wrapped(x) \in Places
  <1> DEFINE n == Slots
  <1>0. n \in Nat /\ n > 0
    BY ScopeAssumption
  <1> HIDE DEF n
  <1>1. x \in 0 .. 2 * n - 1
    BY DEF n
  <1>2. x % n = IF x >= n THEN x - n ELSE x
    BY <1>0, <1>1
  <1> QED
    BY <1>0, <1>1, <1>2 DEF n, Wrapped, Places

LEMMA PlacesBelow ==
  ASSUME NEW w \in Places, NEW a \in 0 .. w - 1
  PROVE  a \in Places
  BY ScopeAssumption DEF Places

\* A recorder that has stopped is not in reset, and stays as it is.
LEMMA StaysStopped ==
  ASSUME ScopeInv, ~br_config.reset, dr_stopped, NEW i_trigger \in BOOLEAN, DataClock(i_trigger)
  PROVE  /\ ~r_iflags.reset /\ dr_stopped' = TRUE /\ dr_triggered' = TRUE
         /\ UNCHANGED <<mem, waddr, counter>>
  <1>1. ~r_reset_complete
    BY DEF ScopeInv, Fresh
  <1>2. ~r_iflags.reset
    BY <1>1 DEF ScopeInv, Rising, Falling
  <1>3. dr_triggered /\ counter = br_holdoff + 1 /\ br_holdoff \in Nat
    BY DEF ScopeInv, Clean, Recording, ScopeTypes
  <1>4. Stops
    BY <1>3 DEF Stops
  <1> QED
    BY <1>2, <1>3, <1>4 DEF DataClock

\* A clock of the recorder moves its address on.
LEMMA NextPlace ==
  ASSUME ScopeTypes
  PROVE  /\ (waddr + 1) % Slots = IF waddr = Slots - 1 THEN 0 ELSE waddr + 1
         /\ (waddr + 1) % Slots \in Places
  <1> DEFINE n == Slots
             x == waddr + 1
  <1>1. n \in Nat /\ n > 0 /\ waddr \in 0 .. n - 1
    BY ScopeAssumption DEF ScopeTypes, Places
  <1>2. x \in 0 .. 2 * n - 1
    BY <1>1
  <1> HIDE DEF n, x
  <1>3. x % Slots = Wrapped(x) /\ Wrapped(x) \in Places
    BY <1>2, WrapsOnce DEF n
  <1>4. Wrapped(x) = IF waddr = n - 1 THEN 0 ELSE waddr + 1
    BY <1>1 DEF Wrapped, x, n
  <1> QED
    BY <1>3, <1>4 DEF x, n

\* What a clock of a recorder that runs does, field by field.
LEMMA Records ==
  ASSUME ScopeTypes, NEW i_trigger \in BOOLEAN, DataClock(i_trigger), ~r_iflags.reset, ~dr_stopped
  PROVE  /\ dr_triggered' <=> dr_triggered \/ dw_trigger(i_trigger)
         /\ counter' = IF dr_triggered THEN counter + 1 ELSE counter
         /\ dr_stopped' <=> dr_triggered /\ counter >= br_holdoff
         /\ waddr' = IF waddr = Slots - 1 THEN 0 ELSE waddr + 1
         /\ dr_primed' <=> dr_primed \/ waddr = Slots - 1
         /\ data_pipe' <=> ~dr_triggered /\ dw_trigger(i_trigger)
         /\ \A a \in Places : mem'[a] = IF a = waddr THEN data_pipe ELSE mem[a]
         /\ br_holdoff' = br_holdoff
  <1>1. waddr' = (waddr + 1) % Slots
    BY Zenon DEF DataClock
  <1>2. waddr' = IF waddr = Slots - 1 THEN 0 ELSE waddr + 1
    BY <1>1, NextPlace, Zenon
  <1>3. mem' = [mem EXCEPT ![waddr] = data_pipe] /\ mem \in [Places -> BOOLEAN]
    BY Zenon DEF DataClock, ScopeTypes
  <1>4. \A a \in Places : mem'[a] = IF a = waddr THEN data_pipe ELSE mem[a]
    BY <1>3, Zenon
  <1>5. counter' = IF dr_triggered THEN counter + 1 ELSE counter
    BY Zenon DEF DataClock
  <1>6. dr_triggered' = (~r_iflags.reset /\ (dr_triggered \/ dw_trigger(i_trigger)))
    BY Zenon DEF DataClock
  <1>7. dr_stopped' = (dr_triggered /\ ~r_iflags.reset /\ Stops)
    BY Zenon DEF DataClock
  <1>8. dr_primed' = (~r_iflags.reset /\ (dr_primed \/ (~dr_stopped /\ waddr = Slots - 1)))
    BY Zenon DEF DataClock
  <1>9. data_pipe' = (~r_iflags.reset /\ ~dr_triggered /\ dw_trigger(i_trigger))
    BY Zenon DEF DataClock
  <1>10. br_holdoff' = br_holdoff
    BY Zenon DEF DataClock, config
  <1> QED
    BY <1>2, <1>4, <1>5, <1>6, <1>7, <1>8, <1>9, <1>10, Zenon DEF Stops

LEMMA DataTypes ==
  ASSUME ScopeTypes, NEW i_trigger \in BOOLEAN, DataClock(i_trigger)
  PROVE  ScopeTypes'
  <1>1. waddr' \in Places
    BY NextPlace, ScopeAssumption DEF DataClock, ScopeTypes, Places
  <1>2. mem' \in [Places -> BOOLEAN]
    BY Zenon DEF DataClock, ScopeTypes
  <1>3. counter' \in Nat
    BY DEF DataClock, ScopeTypes
  <1>4. /\ r_reset_complete' \in BOOLEAN /\ q_iflags'.reset \in BOOLEAN /\ r_iflags'.reset \in BOOLEAN
        /\ dr_triggered' \in BOOLEAN /\ dr_primed' \in BOOLEAN /\ dr_stopped' \in BOOLEAN
        /\ data_pipe' \in BOOLEAN
    BY DEF DataClock, ScopeTypes
  <1>5. UNCHANGED <<br_config, br_holdoff, q_reset_complete, qq_reset_complete, q_oflags, r_oflags,
                    raddr, busy, hpc, m_data>>
    BY DEF DataClock, config, bus, host
  <1> QED
    BY <1>1, <1>2, <1>3, <1>4, <1>5 DEF ScopeTypes

\* A recording that runs stays one, clock by clock: before it is primed, ...
LEMMA RecordsUnprimed ==
  ASSUME ScopeTypes, Recording, NEW i_trigger \in BOOLEAN, DataClock(i_trigger),
         ~r_iflags.reset, ~dr_stopped, ~dr_primed
  PROVE  Recording'
  <1>1. ~dr_triggered /\ ~dw_trigger(i_trigger) /\ counter = 0 /\ ~data_pipe
    BY DEF Recording, BeforeTrigger, dw_trigger
  <1>2. ~dr_triggered' /\ ~data_pipe' /\ ~dr_stopped' /\ counter' = 0
    BY <1>1, Records
  <1>3. ASSUME NEW a \in Places, a <= waddr PROVE ~mem'[a]
    <2>1. CASE a = waddr
      BY <1>1, <2>1, Records
    <2>2. CASE a # waddr
      <3>1. a \in 0 .. waddr - 1
        BY <1>3, <2>2 DEF Places, ScopeTypes
      <3>2. ~mem[a]
        BY <1>1, <3>1 DEF Recording, BeforeTrigger
      <3> QED
        BY <2>2, <3>2, Records
    <2> QED
      BY <2>1, <2>2
  <1>4. waddr \in Places /\ waddr' = (IF waddr = Slots - 1 THEN 0 ELSE waddr + 1)
    BY Records DEF ScopeTypes
  <1>5. ASSUME NEW a \in 0 .. waddr' - 1 PROVE ~mem'[a]
    <2>1. a \in Places /\ a <= waddr
      BY <1>4, <1>5, ScopeAssumption DEF Places
    <2> QED
      BY <1>3, <2>1
  <1>6. ASSUME dr_primed', NEW a \in Places PROVE ~mem'[a]
    <2>1. waddr = Slots - 1
      BY <1>6, Records
    <2>2. a <= waddr
      BY <2>1, ScopeAssumption DEF Places
    <2> QED
      BY <1>3, <2>2
  <1>7. br_holdoff' = br_holdoff /\ br_holdoff \in Nat
    BY Records DEF ScopeTypes
  <1>8. BeforeTrigger' /\ Primed' /\ Triggered'
    BY <1>2, <1>5, <1>6 DEF BeforeTrigger, Primed, Triggered
  <1> QED
    BY <1>2, <1>7, <1>8 DEF Recording

\* ... until the trigger, ...
LEMMA RecordsPrimed ==
  ASSUME ScopeTypes, Recording, NEW i_trigger \in BOOLEAN, DataClock(i_trigger),
         ~r_iflags.reset, ~dr_stopped, dr_primed, ~dr_triggered
  PROVE  Recording'
  <1>1. counter = 0 /\ ~data_pipe /\ \A a \in Places : ~mem[a]
    BY DEF Recording, BeforeTrigger, Primed
  <1>2. dr_primed' /\ ~dr_stopped' /\ counter' = 0 /\ (data_pipe' <=> dr_triggered')
    BY <1>1, Records
  <1>3. \A a \in Places : ~mem'[a]
    BY <1>1, Records
  <1>4. waddr' \in Places
    BY DataTypes DEF ScopeTypes
  <1>5. ASSUME NEW a \in 0 .. waddr' - 1 PROVE ~mem'[a]
    <2>1. a \in Places
      BY <1>4, <1>5, PlacesBelow
    <2> QED
      BY <1>3, <2>1
  <1>6. br_holdoff' = br_holdoff /\ br_holdoff \in Nat
    BY Records DEF ScopeTypes
  <1>7. BeforeTrigger' /\ Primed' /\ Triggered'
    BY <1>2, <1>3, <1>5 DEF BeforeTrigger, Primed, Triggered
  <1> QED
    BY <1>2, <1>6, <1>7 DEF Recording

\* ... when the sample that triggered is written, ...
LEMMA RecordsTrigger ==
  ASSUME ScopeTypes, Recording, NEW i_trigger \in BOOLEAN, DataClock(i_trigger),
         ~r_iflags.reset, ~dr_stopped, dr_triggered
  PROVE  /\ dr_primed' /\ dr_triggered' /\ ~data_pipe' /\ counter' = counter + 1
         /\ Triggered' => Recording'
  <1>1. dr_primed' /\ dr_triggered' /\ ~data_pipe' /\ counter' = counter + 1
    BY Records DEF Recording
  <1>2. /\ br_holdoff' = br_holdoff /\ br_holdoff \in Nat /\ counter \in Nat
        /\ counter <= br_holdoff + 1 /\ counter # br_holdoff + 1
    BY Records DEF ScopeTypes, Recording
  <1>3. dr_stopped' <=> counter' = br_holdoff' + 1
    BY <1>1, <1>2, Records
  <1>4. counter' > 0 /\ counter' <= br_holdoff' + 1
    BY <1>1, <1>2
  <1>5. BeforeTrigger' /\ Primed'
    BY <1>1, <1>4 DEF BeforeTrigger, Primed
  <1> QED
    BY <1>1, <1>3, <1>4, <1>5 DEF Recording

LEMMA RecordsFirst ==
  ASSUME ScopeTypes, Recording, NEW i_trigger \in BOOLEAN, DataClock(i_trigger),
         ~r_iflags.reset, ~dr_stopped, dr_triggered, counter = 0
  PROVE  Recording'
  <1>1. dr_primed /\ data_pipe /\ \A a \in Places : ~mem[a]
    BY DEF Recording, Primed
  <1>2. \A a \in Places : mem'[a] <=> a = waddr
    BY <1>1, Records
  <1>3. counter' = 1 /\ 1 <= Slots
    BY RecordsTrigger, ScopeAssumption
  <1>4. waddr = Ago(1)'
    <2>1. waddr \in 0 .. Slots - 1 /\ waddr' = (IF waddr = Slots - 1 THEN 0 ELSE waddr + 1)
      BY Records DEF ScopeTypes, Places
    <2> QED
      BY <2>1, ScopeAssumption DEF Ago
  <1>5. Triggered'
    BY <1>2, <1>3, <1>4 DEF Triggered
  <1> QED
    BY <1>5, RecordsTrigger

\* ... and after it, when its place is as far back as clocks were counted.
LEMMA RecordsLater ==
  ASSUME ScopeTypes, Recording, NEW i_trigger \in BOOLEAN, DataClock(i_trigger),
         ~r_iflags.reset, ~dr_stopped, dr_triggered, counter # 0
  PROVE  Recording'
  <1>1. ~data_pipe /\ counter \in Nat /\ counter > 0 /\ counter' = counter + 1
    BY RecordsTrigger DEF Recording, ScopeTypes
  <1>2. ASSUME NEW a \in Places
        PROVE  (a # waddr /\ counter <= Slots /\ a = Ago(counter))
                 <=> (counter' <= Slots /\ a = Ago(counter)')
    <2>1. waddr \in 0 .. Slots - 1 /\ waddr' = (IF waddr = Slots - 1 THEN 0 ELSE waddr + 1)
      BY Records DEF ScopeTypes, Places
    <2>2. a \in 0 .. Slots - 1 /\ Slots \in Nat
      BY ScopeAssumption DEF Places
    <2>3. CASE waddr = Slots - 1
      BY <1>1, <2>1, <2>2, <2>3 DEF Ago
    <2>4. CASE waddr # Slots - 1
      BY <1>1, <2>1, <2>2, <2>4 DEF Ago
    <2> QED
      BY <2>3, <2>4
  <1>3. ASSUME NEW a \in Places
        PROVE  mem'[a] <=> (a # waddr /\ counter <= Slots /\ a = Ago(counter))
    <2>1. mem[a] <=> counter <= Slots /\ a = Ago(counter)
      BY <1>1 DEF Recording, Triggered
    <2>2. mem'[a] = IF a = waddr THEN data_pipe ELSE mem[a]
      BY Records
    <2> QED
      BY <1>1, <2>1, <2>2
  <1>4. Triggered'
    BY <1>2, <1>3 DEF Triggered
  <1> QED
    BY <1>4, RecordsTrigger

-----------------------------------------------------------------------------
\* The steps.
LEMMA DataStep ==
  ASSUME ScopeInv, NEW i_trigger \in BOOLEAN, DataClock(i_trigger)
  PROVE  ScopeInv'
  <1>0. ScopeTypes /\ ScopeTypes'
    BY DataTypes DEF ScopeInv
  <1>1. /\ q_iflags' = br_config /\ r_iflags' = q_iflags /\ r_reset_complete' = r_iflags.reset
        /\ UNCHANGED <<br_config, br_holdoff, q_reset_complete, qq_reset_complete, q_oflags, r_oflags,
                       raddr, busy, hpc, m_scoplen, m_holdoff, m_data, trigger_at, whole>>
    BY DEF DataClock, config, bus, host
  <1>2. (Rising => Rising') /\ (Falling => Falling')
    BY <1>1 DEF Rising, Falling
  <1>3. r_reset_complete' => Fresh'
    <2> SUFFICES ASSUME r_iflags.reset PROVE Fresh'
      BY <1>1
    <2> QED
      BY DEF DataClock, Fresh
  <1>4. Clean' => Recording'
    <2> SUFFICES ASSUME Clean' PROVE Recording'
      OBVIOUS
    <2>1. CASE r_iflags.reset
      <3>1. Fresh' /\ ScopeTypes'
        BY <1>0, <1>1, <1>3, <2>1
      <3>2. /\ ~dr_triggered' /\ ~dr_primed' /\ ~dr_stopped' /\ ~data_pipe' /\ waddr' = 0
            /\ counter' = 0 /\ br_holdoff' = br_holdoff /\ br_holdoff \in Nat
        BY <1>0, <1>1, <3>1 DEF ScopeTypes, Fresh
      <3>3. BeforeTrigger' /\ Primed' /\ Triggered'
        BY <3>2 DEF BeforeTrigger, Primed, Triggered
      <3>4. counter' <= br_holdoff' + 1
        BY <3>2
      <3> QED
        BY <3>2, <3>3, <3>4, Zenon DEF Recording
    <2>2. CASE ~r_iflags.reset
      <3>1. Clean
        BY <1>1, <2>2 DEF Clean
      <3>2. Recording
        BY <3>1 DEF ScopeInv
      <3>3. CASE dr_stopped
        <4>1. ~br_config.reset
          BY <1>1, <2>2 DEF Clean
        <4>2. /\ dr_stopped' = TRUE /\ dr_triggered' = TRUE /\ UNCHANGED <<mem, waddr, counter>>
          BY <3>3, <4>1, StaysStopped
        <4>3. dr_triggered /\ counter = br_holdoff + 1 /\ counter > 0 /\ dr_primed
          BY <1>0, <3>2, <3>3 DEF Recording, ScopeTypes
        <4>4. ~data_pipe' /\ dr_primed'
          BY <2>2, <4>3 DEF DataClock
        <4>5. Triggered' /\ BeforeTrigger' /\ Primed'
          BY <3>2, <4>2, <4>3 DEF Recording, Triggered, BeforeTrigger, Primed, Ago
        <4> QED
          BY <1>1, <4>2, <4>3, <4>4, <4>5 DEF Recording
      <3>4. CASE ~dr_stopped /\ ~dr_primed
        BY <1>0, <2>2, <3>2, <3>4, RecordsUnprimed
      <3>5. CASE ~dr_stopped /\ dr_primed /\ ~dr_triggered
        BY <1>0, <2>2, <3>2, <3>5, RecordsPrimed
      <3>6. CASE ~dr_stopped /\ dr_triggered /\ counter = 0
        BY <1>0, <2>2, <3>2, <3>6, RecordsFirst
      <3>7. CASE ~dr_stopped /\ dr_triggered /\ counter # 0
        BY <1>0, <2>2, <3>2, <3>7, RecordsLater
      <3> QED
        BY <3>3, <3>4, <3>5, <3>6, <3>7
    <2> QED
      BY <2>1, <2>2
  <1>5. Flags'
    <2>1. ~br_config.reset /\ q_oflags.stopped => dr_stopped'
      BY StaysStopped DEF ScopeInv, Flags
    <2> QED
      BY <1>1, <2>1 DEF ScopeInv, Flags
  <1>6. Reading'
    <2> SUFFICES ASSUME hpc # "none" PROVE Reading'
      BY <1>1 DEF Reading
    <2>1. ~br_config.reset /\ dr_stopped
      BY DEF ScopeInv, Reading, Flags
    <2>2. UNCHANGED <<mem, waddr>>
      BY <2>1, StaysStopped
    <2> QED
      BY <1>1, <2>2 DEF ScopeInv, Reading, Wrapped, offset, getaddresslen
  <1> QED
    BY <1>0, <1>2, <1>3, <1>4, <1>5, <1>6 DEF ScopeInv

LEMMA BusTypes ==
  ASSUME ScopeInv, raddr' \in Places, busy' \in BOOLEAN,
         br_config' \in [reset : BOOLEAN, manual : BOOLEAN, disable : BOOLEAN],
         q_reset_complete' \in BOOLEAN, qq_reset_complete' \in BOOLEAN,
         q_oflags'.stopped \in BOOLEAN, r_oflags'.stopped \in BOOLEAN, br_holdoff' \in Nat,
         UNCHANGED <<q_iflags, r_iflags, r_reset_complete, dr_triggered, dr_primed,
                     dr_stopped, counter, waddr, mem, data_pipe, hpc, m_data>>
  PROVE  ScopeTypes'
  BY DEF ScopeInv, ScopeTypes

LEMMA BusStepKeeps ==
  ASSUME ScopeInv, BusClock
  PROVE  ScopeInv'
  <1>1. /\ q_reset_complete' = r_reset_complete /\ qq_reset_complete' = q_reset_complete
        /\ busy' = FALSE
        /\ UNCHANGED <<br_holdoff, q_iflags, r_iflags, r_reset_complete, dr_triggered, dr_primed,
                       dr_stopped, counter, waddr, mem, data_pipe, hpc, m_scoplen, m_holdoff,
                       m_data, trigger_at, whole>>
    BY DEF BusClock, data, host
  <1>2. /\ br_config' \in [reset : BOOLEAN, manual : BOOLEAN, disable : BOOLEAN]
        /\ br_config'.reset <=> br_config.reset /\ ~qq_reset_complete
    <2>1. br_config \in [reset : BOOLEAN, manual : BOOLEAN, disable : BOOLEAN]
      BY DEF ScopeInv, ScopeTypes
    <2>2. br_config' = [br_config EXCEPT !.reset = br_config.reset /\ ~qq_reset_complete]
      BY DEF BusClock
    <2> QED
      BY <2>1, <2>2
  <1>3. CASE br_config.reset
    <2>0. q_oflags' = NoFlags /\ r_oflags' = NoFlags /\ raddr' = 0
      BY <1>3, Zenon DEF BusClock
    <2>1. q_oflags'.stopped = FALSE /\ r_oflags'.stopped = FALSE /\ hpc = "none"
      BY <1>3, <2>0 DEF NoFlags, ScopeInv, Reading
    <2>2. ScopeTypes'
      <3>1. 0 \in Places
        BY ScopeAssumption DEF Places
      <3> QED
        BY <1>1, <1>2, <2>0, <2>1, <3>1, BusTypes DEF ScopeInv, ScopeTypes
    <2>3. Rising' \/ Falling'
      BY <1>1, <1>2 DEF ScopeInv, ScopeTypes, Rising, Falling
    <2>4. r_reset_complete' => Fresh'
      BY <1>1 DEF ScopeInv, Fresh
    <2>5. Clean' => Clean
      BY <1>1, <1>2 DEF ScopeInv, Clean, Rising, Falling
    <2>6. Recording => Recording'
      BY <1>1 DEF Recording, BeforeTrigger, Primed, Triggered, Ago
    <2>7. Flags' /\ Reading'
      BY <1>1, <2>1 DEF Flags, Reading
    <2> QED
      BY <2>2, <2>3, <2>4, <2>5, <2>6, <2>7 DEF ScopeInv
  <1>4. CASE ~br_config.reset
    <2>1. /\ q_oflags'.stopped = dr_stopped /\ r_oflags' = q_oflags /\ raddr' = raddr
          /\ ~br_config'.reset
      BY <1>2, <1>4 DEF BusClock
    <2>2. ScopeTypes'
      BY <1>1, <1>2, <2>1, BusTypes DEF ScopeInv, ScopeTypes
    <2>3. Rising' \/ Falling'
      BY <1>1, <1>2 DEF ScopeInv, ScopeTypes, Rising, Falling
    <2>4. r_reset_complete' => Fresh'
      BY <1>1 DEF ScopeInv, Fresh
    <2>5. Clean' => Clean
      BY <1>4 DEF Clean
    <2>6. Recording => Recording'
      BY <1>1 DEF Recording, BeforeTrigger, Primed, Triggered, Ago
    <2>7. Flags'
      BY <1>1, <1>4, <2>1 DEF ScopeInv, Flags
    <2>8. Reading'
      <3>1. hpc # "none" => r_oflags'.stopped
        BY <1>4, <2>1 DEF ScopeInv, Reading, Flags
      <3> QED
        BY <1>1, <2>1, <3>1 DEF ScopeInv, Reading, Wrapped, offset, getaddresslen
    <2> QED
      BY <2>2, <2>3, <2>4, <2>5, <2>6, <2>7, <2>8 DEF ScopeInv
  <1> QED
    BY <1>3, <1>4

LEMMA WriteStep ==
  ASSUME ScopeInv, WriteControl
  PROVE  ScopeInv'
  <1>1. /\ hpc = "none" /\ Settled /\ br_holdoff' \in Holdoffs /\ raddr' = 0 /\ busy' = TRUE
        /\ UNCHANGED <<q_iflags, r_iflags, r_reset_complete, dr_triggered, dr_primed,
                       dr_stopped, counter, waddr, mem, data_pipe, q_reset_complete,
                       qq_reset_complete, q_oflags, r_oflags, hpc, m_data>>
    BY DEF WriteControl, data, bus, host
  <1>2. PICK m \in BOOLEAN, d \in BOOLEAN :
          br_config' = [reset |-> TRUE, manual |-> m, disable |-> d]
    BY Zenon DEF WriteControl
  <1>3. /\ br_config' \in [reset : BOOLEAN, manual : BOOLEAN, disable : BOOLEAN]
        /\ br_config'.reset = TRUE
    BY <1>2
  <1>4. ScopeTypes'
    <2>1. 0 \in Places /\ br_holdoff' \in Nat
      BY <1>1, ScopeAssumption DEF Places
    <2> QED
      BY <1>1, <1>3, <2>1, BusTypes DEF ScopeInv, ScopeTypes
  <1>5. Rising' /\ ~r_reset_complete'
    BY <1>1, <1>3 DEF Settled, Rising
  <1>6. ~Clean'
    BY <1>3, <1>5 DEF Clean
  <1>7. Flags' /\ Reading'
    BY <1>1, <1>3 DEF Flags, Reading
  <1> QED
    BY <1>4, <1>5, <1>6, <1>7 DEF ScopeInv

\* The host leaves recorder and control register alone.
LEMMA HostKeeps ==
  ASSUME ScopeInv, UNCHANGED <<config, data, bus>>, busy => busy'
  PROVE  /\ Rising' \/ Falling'
         /\ (r_reset_complete' => Fresh') /\ (Clean' => Recording') /\ Flags'
  <1>1. UNCHANGED <<br_config, br_holdoff, q_iflags, r_iflags, r_reset_complete, dr_triggered,
                    dr_primed, dr_stopped, counter, waddr, mem, data_pipe, q_reset_complete,
                    qq_reset_complete, q_oflags, r_oflags>>
    BY DEF config, data, bus
  <1>2. Rising' \/ Falling'
    BY <1>1 DEF ScopeInv, Rising, Falling
  <1>3. r_reset_complete' => Fresh'
    BY <1>1 DEF ScopeInv, Fresh
  <1>4. Clean' => Clean
    BY <1>1 DEF Clean
  <1>5. Recording => Recording'
    BY <1>1 DEF Recording, BeforeTrigger, Primed, Triggered, Ago
  <1>6. Flags'
    BY <1>1 DEF ScopeInv, Flags
  <1> QED
    BY <1>2, <1>3, <1>4, <1>5, <1>6 DEF ScopeInv

LEMMA HostTypes ==
  ASSUME ScopeInv, UNCHANGED <<config, data, bus>>, busy' \in BOOLEAN, raddr' \in Places,
         m_data' \in Seq(BOOLEAN), hpc' \in {"none", "rawread", "print", "writevcd", "done"}
  PROVE  ScopeTypes'
  BY DEF ScopeInv, ScopeTypes, config, data, bus

LEMMA ReadyStep ==
  ASSUME ScopeInv, ready
  PROVE  ScopeInv'
  <1>1. /\ ~busy /\ m_scoplen' = Slots /\ m_holdoff' = br_holdoff /\ m_data' = <<>>
        /\ whole' = (raddr = 0) /\ r_oflags.stopped /\ hpc' = "rawread"
        /\ UNCHANGED <<config, data, bus, raddr, busy>>
    BY DEF ready
  <1>2. UNCHANGED <<br_config, br_holdoff, r_oflags>>
    BY <1>1 DEF config, bus
  <1>3. ~br_config.reset
    BY <1>1 DEF ScopeInv, Flags
  <1>4. <<>> \in Seq(BOOLEAN) /\ Len(<<>>) = 0 /\ 0 < Slots
    BY ScopeAssumption
  <1>5. ScopeTypes'
    BY <1>1, <1>4, HostTypes DEF ScopeInv, ScopeTypes
  <1>6. Reading'
    <2>1. whole' => raddr' = Len(m_data')
      BY <1>1, <1>4
    <2> QED
      BY <1>1, <1>2, <1>3, <1>4, <2>1 DEF Reading
  <1> QED
    BY <1>1, <1>5, <1>6, HostKeeps DEF ScopeInv

LEMMA RawreadStep ==
  ASSUME ScopeInv, rawread
  PROVE  ScopeInv'
  <1> DEFINE p == raddr + waddr
             v == mem[p % Slots]
  <1>1. /\ hpc = "rawread" /\ busy' = TRUE /\ m_scoplen = Slots /\ Len(m_data) < Slots
        /\ ~br_config.reset /\ r_oflags.stopped /\ m_holdoff = br_holdoff
        /\ UNCHANGED <<config, data, bus, m_scoplen, m_holdoff, whole>>
    BY DEF rawread, ScopeInv, Reading
  <1>2. /\ m_data' = Append(m_data, v) /\ raddr' = (raddr + 1) % Slots
        /\ hpc' = IF Len(m_data) + 1 = m_scoplen THEN "print" ELSE "rawread"
    BY <1>1, Zenon DEF rawread
  <1>3. /\ Slots \in Nat /\ Slots > 0 /\ raddr \in 0 .. Slots - 1 /\ waddr \in 0 .. Slots - 1
        /\ m_data \in Seq(BOOLEAN) /\ Len(m_data) \in Nat
    BY ScopeAssumption DEF ScopeInv, ScopeTypes, Places
  <1>4. p % Slots = Wrapped(p) /\ Wrapped(p) \in Places
    <2>1. p \in 0 .. 2 * Slots - 1
      BY <1>3
    <2> HIDE DEF p
    <2> QED
      BY <2>1, WrapsOnce
  <1>5. raddr' = Wrapped(raddr + 1) /\ raddr' \in Places
    <2> DEFINE x == raddr + 1
    <2>1. x \in 0 .. 2 * Slots - 1
      BY <1>3
    <2> HIDE DEF x
    <2>2. x % Slots = Wrapped(x) /\ Wrapped(x) \in Places
      BY <2>1, WrapsOnce
    <2> QED
      BY <1>2, <2>2 DEF x
  <1>6. v = mem[Wrapped(p)] /\ v \in BOOLEAN
    BY <1>4 DEF ScopeInv, ScopeTypes
  <1> HIDE DEF v, p
  <1>7. /\ m_data' \in Seq(BOOLEAN) /\ Len(m_data') = Len(m_data) + 1
        /\ \A i \in 1 .. Len(m_data) : m_data'[i] = m_data[i]
        /\ m_data'[Len(m_data) + 1] = v
    BY <1>2, <1>3, <1>6
  <1>8. ScopeTypes'
    <2>1. hpc' \in {"none", "rawread", "print", "writevcd", "done"} /\ busy' \in BOOLEAN
      BY <1>1, <1>2
    <2> QED
      BY <1>1, <1>5, <1>7, <2>1, HostTypes
  <1>9. UNCHANGED <<br_config, br_holdoff, r_oflags, mem, waddr>>
    BY <1>1 DEF config, data, bus
  <1>10. IF hpc' = "rawread" THEN Len(m_data') < Slots ELSE Len(m_data') = Slots
    BY <1>1, <1>2, <1>3, <1>7
  <1>11. ASSUME whole
         PROVE  /\ hpc' = "rawread" => raddr' = Len(m_data')
                /\ \A i \in 1 .. Len(m_data') : m_data'[i] <=> mem[Wrapped((i - 1) + waddr)]
    <2>1. raddr = Len(m_data) /\ \A i \in 1 .. Len(m_data) : m_data[i] <=> mem[Wrapped((i - 1) + waddr)]
      BY <1>1, <1>11 DEF ScopeInv, Reading
    <2>2. hpc' = "rawread" => raddr' = Len(m_data')
      BY <1>1, <1>2, <1>3, <1>5, <1>7, <2>1 DEF Wrapped
    <2>3. ASSUME NEW i \in 1 .. Len(m_data') PROVE m_data'[i] <=> mem[Wrapped((i - 1) + waddr)]
      <3>1. CASE i = Len(m_data) + 1
        <4>1. (i - 1) + waddr = p
          BY <1>3, <2>1, <3>1 DEF p
        <4> QED
          BY <1>6, <1>7, <3>1, <4>1
      <3>2. CASE i # Len(m_data) + 1
        <4>1. i \in 1 .. Len(m_data)
          BY <1>3, <1>7, <2>3, <3>2
        <4> QED
          BY <1>7, <2>1, <4>1
      <3> QED
        BY <3>1, <3>2
    <2> QED
      BY <2>2, <2>3
  <1>12. Reading'
    <2>1. hpc' # "writevcd" /\ hpc' # "done"
      BY <1>2
    <2>2. \A i : Wrapped((i - 1) + waddr)' = Wrapped((i - 1) + waddr)
      BY <1>9 DEF Wrapped
    <2> QED
      BY <1>1, <1>9, <1>10, <1>11, <2>1, <2>2 DEF Reading
  <1> QED
    BY <1>1, <1>8, <1>12, HostKeeps DEF ScopeInv

\* The other steps of the host read nothing.
LEMMA OtherStep ==
  ASSUME ScopeInv, NotReady \/ print \/ writevcd \/ closeup
  PROVE  ScopeInv'
  <1>1. UNCHANGED <<config, data, bus, raddr, busy>>
    BY DEF NotReady, print, writevcd, closeup
  <1>2. UNCHANGED <<br_config, br_holdoff, r_oflags, mem, waddr>>
    BY <1>1 DEF config, data, bus
  <1>3. ScopeTypes' /\ Reading'
    <2>1. CASE NotReady
      <3>1. hpc' = "none" /\ m_data' = m_data
        BY <2>1 DEF NotReady
      <3> QED
        BY <1>1, <3>1, HostTypes DEF ScopeInv, ScopeTypes, Reading
    <2>2. CASE print
      <3>1. /\ hpc = "print" /\ hpc' = "writevcd" /\ trigger_at' \in {offset, NoMark}
            /\ UNCHANGED <<m_scoplen, m_holdoff, m_data, whole>>
        BY <2>2 DEF print
      <3>2. offset' = offset
        BY <3>1 DEF offset, getaddresslen
      <3>3. ScopeTypes'
        BY <1>1, <3>1, HostTypes DEF ScopeInv, ScopeTypes
      <3> QED
        BY <1>2, <3>1, <3>2, <3>3 DEF ScopeInv, Reading, Wrapped
    <2>3. CASE writevcd
      <3>1. /\ hpc = "writevcd" /\ hpc' = "done" /\ trigger_at' = offset
            /\ UNCHANGED <<m_scoplen, m_holdoff, m_data, whole>>
        BY <2>3 DEF writevcd
      <3>2. offset' = offset
        BY <3>1 DEF offset, getaddresslen
      <3>3. ScopeTypes'
        BY <1>1, <3>1, HostTypes DEF ScopeInv, ScopeTypes
      <3> QED
        BY <1>2, <3>1, <3>2, <3>3 DEF ScopeInv, Reading, Wrapped
    <2>4. CASE closeup
      <3>1. hpc' = "none" /\ m_data' = <<>>
        BY <2>4 DEF closeup
      <3>2. <<>> \in Seq(BOOLEAN)
        OBVIOUS
      <3> QED
        BY <1>1, <3>1, <3>2, HostTypes DEF ScopeInv, ScopeTypes, Reading
    <2> QED
      BY <2>1, <2>2, <2>3, <2>4
  <1> QED
    BY <1>1, <1>3, HostKeeps DEF ScopeInv

LEMMA ScopeStarts == ScopeInit => ScopeInv
  <1> SUFFICES ASSUME ScopeInit PROVE ScopeInv
    OBVIOUS
  <1>1. 0 \in Places /\ br_holdoff \in Nat
    BY ScopeAssumption DEF ScopeInit, Places
  <1>2. br_config.reset /\ ~q_iflags.reset /\ ~r_iflags.reset /\ ~r_reset_complete /\ hpc = "none"
        /\ ~q_oflags.stopped /\ ~r_oflags.stopped
    BY DEF ScopeInit, None, NoFlags
  <1>3. mem \in [Places -> BOOLEAN] /\ m_data \in Seq(BOOLEAN)
    BY DEF ScopeInit, Places
  <1>4. ScopeTypes
    BY <1>1, <1>3 DEF ScopeInit, ScopeTypes, None, NoFlags
  <1>5. Rising
    BY <1>2 DEF ScopeInit, Rising
  <1> QED
    BY <1>2, <1>4, <1>5 DEF ScopeInv, Clean, Flags, Reading

LEMMA MarkedByInv == ScopeInv => TriggerMarked
  <1> SUFFICES ASSUME ScopeInv, hpc \in {"writevcd", "done"}, whole, trigger_at # NoMark,
                      NEW i \in 1 .. Len(m_data)
               PROVE  m_data[i] <=> i - 1 = trigger_at
    BY DEF TriggerMarked
  <1>1. /\ ~br_config.reset /\ r_oflags.stopped /\ Len(m_data) = Slots
        /\ trigger_at = (Slots - br_holdoff) - 1
        /\ m_data[i] <=> mem[Wrapped((i - 1) + waddr)]
    <2>1. /\ ~br_config.reset /\ r_oflags.stopped /\ Len(m_data) = Slots
          /\ trigger_at = offset /\ m_scoplen = Slots /\ m_holdoff = br_holdoff
          /\ m_data[i] <=> mem[Wrapped((i - 1) + waddr)]
      BY DEF ScopeInv, Reading
    <2> QED
      BY <2>1 DEF offset, getaddresslen
  <1>2. dr_stopped /\ Recording
    BY <1>1 DEF ScopeInv, Flags, Clean
  <1>3. /\ Slots \in Nat /\ Slots > 0 /\ waddr \in 0 .. Slots - 1 /\ br_holdoff \in Nat
        /\ i \in 1 .. Slots
    BY <1>1, ScopeAssumption DEF ScopeInv, ScopeTypes, Places
  <1> DEFINE a == Wrapped((i - 1) + waddr)
             past == br_holdoff + 1
  <1>4. a \in Places
    BY <1>3 DEF Wrapped, Places
  <1>5. dr_triggered /\ counter = past /\ counter > 0
    BY <1>2, <1>3 DEF Recording
  <1>6. mem[a] <=> past <= Slots /\ a = Ago(past)
    <2> HIDE DEF a, past
    <2> QED
      BY <1>2, <1>4, <1>5 DEF Recording, Triggered
  <1>7. past <= Slots /\ a = Ago(past) <=> i - 1 = (Slots - br_holdoff) - 1
    <2>1. CASE past > Slots
      BY <1>3, <2>1
    <2>2. CASE past <= Slots /\ past <= waddr
      BY <1>3, <2>2 DEF Wrapped, Ago
    <2>3. CASE past <= Slots /\ past > waddr
      BY <1>3, <2>3 DEF Wrapped, Ago
    <2> QED
      BY <1>3, <2>1, <2>2, <2>3
  <1> QED
    BY <1>1, <1>6, <1>7

\* wbscope.v, scopecls.cpp: for every size of the memory and every holdoff, the sample that
\* print() and writevcd() mark is the one that fired the trigger, and no other one is,
\* whatever the order of the two clocks and however often the scope is started again;
\* with a holdoff beyond the memory, nothing that was kept is.
THEOREM TriggerIsMarked == ScopeSpec => []TriggerMarked
  <1>1. ScopeInv /\ [ScopeNext]_scopevars => ScopeInv'
    <2>1. ScopeInv /\ ScopeNext => ScopeInv'
      BY DataStep, BusStepKeeps, WriteStep, ReadyStep, RawreadStep, OtherStep DEF ScopeNext
    <2>2. ScopeInv /\ UNCHANGED scopevars => ScopeInv'
      <3> SUFFICES ASSUME ScopeInv, UNCHANGED scopevars PROVE ScopeInv'
        OBVIOUS
      <3>1. UNCHANGED <<config, data, bus, raddr, busy, hpc, m_scoplen, m_holdoff, m_data,
                        trigger_at, whole>>
        BY DEF scopevars, host
      <3>2. UNCHANGED <<br_config, br_holdoff, r_oflags, mem, waddr>>
        BY <3>1 DEF config, data, bus
      <3>3. ScopeTypes'
        BY <3>1, HostTypes DEF ScopeInv, ScopeTypes
      <3>4. Reading'
        BY <3>1, <3>2 DEF ScopeInv, Reading, Wrapped, offset, getaddresslen
      <3> QED
        BY <3>1, <3>3, <3>4, HostKeeps DEF ScopeInv
    <2> QED
      BY <2>1, <2>2
  <1> QED
    BY <1>1, ScopeStarts, MarkedByInv, PTL DEF ScopeSpec

-----------------------------------------------------------------------------
\* wbscopc.v.  The sample that the samples of the word w are like, if v is the one before,
\* and how many they are: a run with nothing before it stands for none.
Value(w, v) == IF w.adr THEN v ELSE w.val
Count(w, v) == IF w.adr /\ v = -1 THEN 0 ELSE Stands(w)

\* The words on their way to the memory are r_data, lst and imm: whether the first two
\* are to be recorded, and what the samples are like before lst, before imm and after it.
RCount == IF wr.record_ce /\ ~Stale THEN Stands(wr.r_data) ELSE 0
RValue == IF wr.record_ce /\ ~Stale THEN Value(wr.r_data, due.last) ELSE due.last
LCount == IF Keeps THEN Count(c.lst, RValue) ELSE 0
LValue == IF Keeps THEN Value(c.lst, RValue) ELSE RValue
ICount == Count(c.imm, LValue)
IValue == Value(c.imm, LValue)

IsWord(w) == w.adr \in BOOLEAN /\ w.val \in Nat

\* The words on their way stand for the samples that are due.
Accounted ==
  /\ due.q \in Seq(Nat) /\ due.last \in Nat \cup {-1}
  /\ IsWord(wr.r_data) /\ IsWord(c.lst) /\ IsWord(c.imm)
  /\ Len(due.q) = RCount + LCount + ICount
  /\ \A i \in 1 .. RCount : due.q[i] = RValue
  /\ \A i \in RCount + 1 .. RCount + LCount : due.q[i] = LValue
  /\ \A i \in RCount + LCount + 1 .. Len(due.q) : due.q[i] = IValue
  /\ ~c.new_data => IValue = wr.qd_data

\* The counter of a run is the word's, and the word is ended before the counter
\* overflows.
Paced ==
  /\ c.ck_addr \in 0 .. MAX_STEP
  /\ c.imm.adr => ~c.dr_force_inhibit /\ (c.ck_addr = c.imm.val + 1 \/ Writes)
  /\ ~c.imm.adr => c.ck_addr = 0
  /\ c.ck_addr = MAX_STEP => c.dr_run_timeout

\* What stops the recording goes on.
Stopping ==
  /\ c.dr_stop_pipe[3] => c.dr_stop_pipe[2]
  /\ c.dr_stop_pipe[2] => c.dr_stop_pipe[1]
  /\ c.dr_stop_pipe[1] => c.dr_stopped
  /\ c.dr_stopped => c.dr_triggered

ScopcTypes ==
  /\ br.reset \in BOOLEAN /\ DOMAIN br = {"reset", "manual", "disable", "br_holdoff"}
  /\ wr.qd_data \in Nat /\ wr.record_ce \in BOOLEAN
  /\ c.new_data \in BOOLEAN /\ c.dr_force_write \in BOOLEAN /\ c.dr_stopped \in BOOLEAN
  /\ c.dr_triggered \in BOOLEAN /\ c.dr_force_inhibit \in BOOLEAN /\ c.dr_run_timeout \in BOOLEAN
  /\ c.dr_stop_pipe \in [1 .. DLYSTOP -> BOOLEAN]

ScopcInv ==
  /\ ScopcTypes /\ IsWord(c.lst) /\ IsWord(c.imm) /\ Paced /\ Stopping
  /\ Accounted \/ (c.dr_stop_pipe[3] /\ ~wr.record_ce)

-----------------------------------------------------------------------------
\* What an edge of the clock does to the registers that a reset reaches.
LEMMA RegistersReset ==
  ASSUME c = Cleared
  PROVE  /\ c.dr_triggered = FALSE /\ c.dr_stopped = FALSE
         /\ c.dr_stop_pipe = [i \in 1 .. DLYSTOP |-> FALSE]
         /\ c.dr_force_write = TRUE /\ c.dr_force_inhibit = FALSE /\ c.ck_addr = 0
         /\ c.dr_run_timeout = TRUE /\ c.new_data = TRUE /\ c.imm = Run(0) /\ c.lst = Run(0)
  BY DEF Cleared

LEMMA RegistersMove ==
  ASSUME NEW i_trigger \in BOOLEAN, NEW i_data \in {0, 1}, c' = Recorded(i_trigger, i_data)
  PROVE  /\ c'.dr_triggered = (c.dr_triggered \/ dw_triggerc(i_trigger))
         /\ c'.dr_stopped = (c.dr_triggered /\ (c.dr_stopped \/ c.holdoff_counter >= br.br_holdoff))
         /\ c'.dr_stop_pipe = [i \in 1 .. DLYSTOP |-> IF i = 1 THEN c.dr_stopped
                                                    ELSE c.dr_stop_pipe[i - 1]]
         /\ c'.dr_force_write = Forces(i_trigger)
         /\ c'.dr_force_inhibit = c.dr_force_write
         /\ c'.ck_addr = IF Writes THEN 0 ELSE (c.ck_addr + 1) % Steps
         /\ c'.dr_run_timeout = RunEnds
         /\ c'.new_data = (i_data # wr.qd_data)
         /\ c'.imm = IF Writes THEN Sample(wr.qd_data, c.fires) ELSE Run(c.ck_addr)
         /\ c'.lst = c.imm
  BY Zenon DEF Recorded

LEMMA WayMoves ==
  ASSUME NEW i_data \in {0, 1}, wr' = Unreset(i_data)
  PROVE  /\ wr'.qd_data = i_data
         /\ wr'.record_ce = (Keeps /\ ~c.dr_stop_pipe[3])
         /\ wr'.r_data = IF Keeps THEN c.lst ELSE Sample(wr.qd_data, FALSE)
  BY Zenon DEF Unreset

LEMMA SampleIsWord ==
  ASSUME NEW v \in Nat, NEW f PROVE Sample(v, f).adr = FALSE /\ Sample(v, f).val = v
  BY DEF Sample

LEMMA RunIsWord ==
  ASSUME NEW n \in Nat PROVE Run(n).adr = TRUE /\ Run(n).val = n
  BY DEF Run

LEMMA LastComes ==
  ASSUME NEW s \in Seq(Nat), NEW d \in Nat
  PROVE  /\ Append(s, d) \in Seq(Nat) /\ Len(Append(s, d)) = Len(s) + 1
         /\ \A i \in 1 .. Len(s) : Append(s, d)[i] = s[i]
         /\ Append(s, d)[Len(s) + 1] = d
  OBVIOUS

\* Taking the first samples and adding one.
LEMMA OneComes ==
  ASSUME NEW q \in Seq(Nat), NEW k \in Nat, k <= Len(q), NEW d \in Nat
  PROVE  LET p == Append(SubSeq(q, k + 1, Len(q)), d)
         IN  /\ p \in Seq(Nat) /\ Len(p) = Len(q) - k + 1
             /\ \A i \in 1 .. Len(q) - k : p[i] = q[k + i]
             /\ p[Len(q) - k + 1] = d
  <1> DEFINE s == SubSeq(q, k + 1, Len(q))
  <1>1. s \in Seq(Nat)
    OBVIOUS
  <1>2. Len(s) = Len(q) - k
    OBVIOUS
  <1>3. \A i \in 1 .. Len(q) - k : s[i] = q[k + i]
    OBVIOUS
  <1> HIDE DEF s
  <1>4. /\ Append(s, d) \in Seq(Nat) /\ Len(Append(s, d)) = Len(s) + 1
        /\ \A i \in 1 .. Len(s) : Append(s, d)[i] = s[i]
        /\ Append(s, d)[Len(s) + 1] = d
    BY <1>1, LastComes
  <1>5. /\ Append(s, d) \in Seq(Nat) /\ Len(Append(s, d)) = Len(q) - k + 1
        /\ \A i \in 1 .. Len(q) - k : Append(s, d)[i] = q[k + i]
        /\ Append(s, d)[Len(q) - k + 1] = d
    BY <1>2, <1>3, <1>4, Zenon
  <1> QED
    BY <1>5, Zenon DEF s

LEMMA WordCounts ==
  ASSUME NEW w, IsWord(w), NEW v \in Nat \cup {-1}
  PROVE  Stands(w) \in Nat /\ Count(w, v) \in Nat /\ Value(w, v) \in Nat \cup {-1}
  <1>1. w.adr \in BOOLEAN /\ w.val \in Nat /\ w.val + 1 \in Nat /\ 0 \in Nat /\ 1 \in Nat
    BY DEF IsWord
  <1> QED
    BY <1>1, Zenon DEF Stands, Count, Value

LEMMA CountsAreNat ==
  ASSUME Accounted
  PROVE  /\ RCount \in Nat /\ LCount \in Nat /\ ICount \in Nat
         /\ RValue \in Nat \cup {-1} /\ LValue \in Nat \cup {-1} /\ IValue \in Nat \cup {-1}
  <1>0. /\ IsWord(wr.r_data) /\ IsWord(c.lst) /\ IsWord(c.imm) /\ due.last \in Nat \cup {-1}
        /\ 0 \in Nat
    BY Zenon DEF Accounted
  <1>1. RCount \in Nat /\ RValue \in Nat \cup {-1}
    BY <1>0, WordCounts, Zenon DEF RCount, RValue
  <1>2. LCount \in Nat /\ LValue \in Nat \cup {-1}
    BY <1>0, <1>1, WordCounts, Zenon DEF LCount, LValue
  <1>3. ICount \in Nat /\ IValue \in Nat \cup {-1}
    BY <1>0, <1>2, WordCounts, Zenon DEF ICount, IValue
  <1> QED
    BY <1>1, <1>2, <1>3

\* The samples that are due after an edge of the clock.
LEMMA DueMoves ==
  ASSUME Accounted, NEW i_trigger, NEW i_data, Clock(i_trigger, i_data),
         ~br.reset, ~c.dr_stop_pipe[3], wr.qd_data \in Nat, wr.record_ce \in BOOLEAN
  PROVE  /\ due'.q = Append(SubSeq(due.q, RCount + 1, Len(due.q)), wr.qd_data)
         /\ due'.last = RValue
  <1>1. due' = [q |-> Append(Settle.q, wr.qd_data), last |-> Settle.last]
    BY DEF Clock
  <1>2. due'.q = Append(Settle.q, wr.qd_data) /\ due'.last = Settle.last
    BY <1>1
  <1>3. CASE wr.record_ce /\ ~Stale
    <2>1. Settle = [q |-> SubSeq(due.q, Stands(wr.r_data) + 1, Len(due.q)),
                    last |-> IF wr.r_data.adr THEN due.last ELSE wr.r_data.val]
      BY <1>3, Zenon DEF Settle
    <2>2. /\ Settle.q = SubSeq(due.q, Stands(wr.r_data) + 1, Len(due.q))
          /\ Settle.last = IF wr.r_data.adr THEN due.last ELSE wr.r_data.val
      BY <2>1, Zenon
    <2>3. RCount = Stands(wr.r_data) /\ RValue = Value(wr.r_data, due.last)
      BY <1>3, Zenon DEF RCount, RValue
    <2> QED
      BY <1>2, <2>2, <2>3, Zenon DEF Value
  <1>4. CASE ~(wr.record_ce /\ ~Stale)
    <2>1. Settle = due
      BY <1>4, Zenon DEF Settle
    <2>2. RCount = 0 /\ RValue = due.last
      BY <1>4, Zenon DEF RCount, RValue
    <2>3. SubSeq(due.q, 0 + 1, Len(due.q)) = due.q
      BY DEF Accounted
    <2> QED
      BY <1>2, <2>1, <2>2, <2>3, Zenon
  <1> QED
    BY <1>3, <1>4, Zenon

\* The words move on.
LEMMA WordsMove ==
  ASSUME Accounted, Paced, ScopcTypes, NEW i_trigger \in BOOLEAN, NEW i_data \in {0, 1},
         Clock(i_trigger, i_data), ~br.reset, ~c.dr_stop_pipe[3]
  PROVE  /\ IsWord(wr.r_data)' /\ IsWord(c.lst)' /\ IsWord(c.imm)'
         /\ RCount' = LCount /\ RValue' = LValue
         /\ LCount' + ICount' = ICount + 1 /\ LCount' \in {0, ICount} /\ ICount' \in Nat
         /\ LCount' # 0 => LValue' = IValue
         /\ LCount' = 0 /\ ICount' > 1 => IValue' = IValue
         /\ IValue' = wr.qd_data
  <1>1. /\ c'.ck_addr = IF Writes THEN 0 ELSE (c.ck_addr + 1) % Steps
        /\ c'.imm = IF Writes THEN Sample(wr.qd_data, c.fires) ELSE Run(c.ck_addr)
        /\ c'.lst = c.imm
    BY RegistersMove, Zenon DEF Clock
  <1>2. /\ wr'.record_ce = (Keeps /\ ~c.dr_stop_pipe[3])
        /\ wr'.r_data = IF Keeps THEN c.lst ELSE Sample(wr.qd_data, FALSE)
    BY WayMoves, Zenon DEF Clock
  <1>3. wr.qd_data \in Nat /\ c.ck_addr \in Nat
    BY ScopcAssumption DEF ScopcTypes, Paced, MAX_STEP
  <1>4. /\ (c'.imm.adr <=> ~Writes) /\ c'.imm.adr \in BOOLEAN /\ c'.imm.val = IF Writes THEN wr.qd_data ELSE c.ck_addr
    <2>1. CASE Writes
      <3>1. Sample(wr.qd_data, c.fires).adr = FALSE /\ Sample(wr.qd_data, c.fires).val = wr.qd_data
        BY <1>3, SampleIsWord, Zenon
      <3> QED
        BY <1>1, <2>1, <3>1, Zenon
    <2>2. CASE ~Writes
      BY <1>1, <1>3, <2>2, RunIsWord, Zenon
    <2> QED
      BY <2>1, <2>2
  <1>5. IsWord(wr.r_data)' /\ IsWord(c.lst)' /\ IsWord(c.imm)'
    <2>1. IsWord(c.imm)'
      BY <1>3, <1>4 DEF IsWord
    <2>2. IsWord(c.lst)'
      BY <1>1 DEF Accounted, IsWord
    <2>3. IsWord(wr.r_data)'
      <3>1. CASE Keeps
        BY <1>2, <3>1 DEF Accounted, IsWord
      <3>2. CASE ~Keeps
        <4>1. wr'.r_data = Sample(wr.qd_data, FALSE)
          BY <1>2, <3>2, Zenon
        <4>2. wr'.r_data.adr = FALSE /\ wr'.r_data.val = wr.qd_data
          <5>1. Sample(wr.qd_data, FALSE).adr = FALSE /\ Sample(wr.qd_data, FALSE).val = wr.qd_data
            BY <1>3, SampleIsWord, Zenon
          <5> QED
            BY <4>1, <5>1, Zenon
        <4> QED
          BY <4>2, <1>3, Zenon DEF IsWord
      <3> QED
        BY <3>1, <3>2
    <2> QED
      BY <2>1, <2>2, <2>3
  <1>6. due'.q # <<>> /\ due'.last = RValue
    <2>1. due'.q = Append(SubSeq(due.q, RCount + 1, Len(due.q)), wr.qd_data) /\ due'.last = RValue
      BY DueMoves, Zenon DEF ScopcTypes
    <2>2. SubSeq(due.q, RCount + 1, Len(due.q)) \in Seq(Nat)
      <3>1. RCount \in Nat /\ due.q \in Seq(Nat)
        BY CountsAreNat, Zenon DEF Accounted
      <3> QED
        BY <3>1
    <2>3. \A s \in Seq(Nat), d \in Nat : Append(s, d) # <<>>
      OBVIOUS
    <2> QED
      BY <2>1, <2>2, <2>3, <1>3, Zenon
  <1>7. RCount' = LCount /\ RValue' = LValue
    <2>1. CASE Keeps
      <3>1. wr'.record_ce /\ wr'.r_data = c.lst
        BY <1>2, <2>1, Zenon
      <3>2. Stale' <=> c.lst.adr /\ RValue = -1
        BY <3>1, <1>6, Zenon DEF Stale
      <3>3. CASE c.lst.adr /\ RValue = -1
        <4>1. RCount' = 0 /\ RValue' = RValue
          BY <3>2, <3>3, <1>6, Zenon DEF RCount, RValue
        <4> QED
          BY <4>1, <3>3, <2>1, Zenon DEF LCount, LValue, Count, Value
      <3>4. CASE ~(c.lst.adr /\ RValue = -1)
        <4>1. RCount' = Stands(c.lst) /\ RValue' = Value(c.lst, RValue)
          BY <3>1, <3>2, <3>4, <1>6, Zenon DEF RCount, RValue, Value, Stands
        <4> QED
          BY <4>1, <3>4, <2>1, Zenon DEF LCount, LValue, Count
      <3> QED
        BY <3>3, <3>4, Zenon
    <2>2. CASE ~Keeps
      <3>1. ~wr'.record_ce
        BY <1>2, <2>2, Zenon
      <3>2. RCount' = 0 /\ RValue' = RValue
        BY <3>1, <1>6, Zenon DEF RCount, RValue
      <3> QED
        BY <3>2, <2>2, Zenon DEF LCount, LValue
    <2> QED
      BY <2>1, <2>2, Zenon
  <1>8. Keeps' <=> ~c.imm.adr \/ ~c'.imm.adr
    BY <1>1, Zenon DEF Keeps
  <1>9. CASE Writes
    <2>1. LCount' = Count(c.imm, LValue) /\ LValue' = Value(c.imm, LValue)
      BY <1>1, <1>4, <1>7, <1>8, <1>9, Zenon DEF LCount, LValue, Count, Value, Stands
    <2>2. ICount' = 1 /\ IValue' = wr.qd_data
      BY <1>4, <1>9, Zenon DEF ICount, IValue, Count, Value, Stands
    <2>3. LCount' = ICount /\ LValue' = IValue
      BY <2>1, Zenon DEF ICount, IValue
    <2>4. ICount \in Nat
      BY CountsAreNat
    <2> QED
      BY <1>5, <1>7, <2>2, <2>3, <2>4
  <1>10. CASE ~Writes
    <2>1. IValue = wr.qd_data /\ IValue # -1
      BY <1>3, <1>10 DEF Accounted, Writes
    <2>2. CASE ~c.imm.adr
      <3>1. LCount' = Count(c.imm, LValue) /\ LValue' = Value(c.imm, LValue)
        BY <1>1, <1>4, <1>7, <1>8, <2>2, Zenon DEF LCount, LValue, Count, Value, Stands
      <3>2. LCount' = ICount /\ LValue' = IValue
        BY <3>1, Zenon DEF ICount, IValue
      <3>3. ICount = 1
        BY <2>2, Zenon DEF ICount, Count, Stands
      <3>4. c.ck_addr = 0
        BY <2>2, Zenon DEF Paced
      <3>5. c'.imm.adr /\ c'.imm.val = 0
        BY <1>4, <1>10, <3>4, Zenon
      <3>6. ICount' = 0 + 1 /\ IValue' = LValue'
        BY <3>5, <3>2, <2>1, Zenon DEF ICount, IValue, Count, Value, Stands
      <3> QED
        BY <1>5, <1>7, <2>1, <3>2, <3>3, <3>6
    <2>3. CASE c.imm.adr
      <3>1. ~Keeps' /\ c'.imm.adr
        BY <1>4, <1>8, <1>10, <2>3, Zenon
      <3>2. LCount' = 0 /\ LValue' = LValue
        BY <1>7, <3>1, Zenon DEF LCount, LValue
      <3>3. LValue = IValue
        BY <2>3, Zenon DEF IValue, Value
      <3>4. ICount = c.imm.val + 1
        BY <2>1, <2>3, <3>3, Zenon DEF ICount, Count, Stands
      <3>5. c'.imm.val = c.imm.val + 1
        BY <1>4, <1>10, <2>3, Zenon DEF Paced
      <3>6. ICount' = c'.imm.val + 1 /\ IValue' = LValue'
        BY <2>1, <3>1, <3>2, <3>3, Zenon DEF ICount, IValue, Count, Value, Stands
      <3>7. c.imm.val \in Nat
        BY DEF Accounted, IsWord
      <3> QED
        BY <1>5, <1>7, <2>1, <3>2, <3>3, <3>4, <3>5, <3>6, <3>7
    <2> QED
      BY <2>2, <2>3, Zenon
  <1> QED
    BY <1>9, <1>10, Zenon

\* An edge of the clock keeps the words and the samples together.
LEMMA AccountedStays ==
  ASSUME Accounted, Paced, ScopcTypes, NEW i_trigger \in BOOLEAN, NEW i_data \in {0, 1},
         Clock(i_trigger, i_data), ~br.reset, ~c.dr_stop_pipe[3]
  PROVE  Accounted'
  <1> DEFINE k == RCount
             l == LCount
             m == ICount
             x == LValue
             y == IValue
             d == wr.qd_data
             p == due'.q
  <1>1. /\ k \in Nat /\ l \in Nat /\ m \in Nat /\ x \in Nat \cup {-1} /\ RValue \in Nat \cup {-1}
        /\ d \in Nat
    BY CountsAreNat DEF ScopcTypes
  <1>2. p = Append(SubSeq(due.q, k + 1, Len(due.q)), d) /\ due'.last = RValue
    BY DueMoves, Zenon DEF ScopcTypes
  <1>3. /\ due.q \in Seq(Nat) /\ Len(due.q) = k + l + m
        /\ \A i \in k + 1 .. k + l : due.q[i] = x
        /\ \A i \in k + l + 1 .. Len(due.q) : due.q[i] = y
    BY Zenon DEF Accounted
  <1>4. /\ IsWord(wr.r_data)' /\ IsWord(c.lst)' /\ IsWord(c.imm)'
        /\ RCount' = l /\ RValue' = x
        /\ LCount' + ICount' = m + 1 /\ LCount' \in {0, m} /\ ICount' \in Nat
        /\ LCount' # 0 => LValue' = y
        /\ LCount' = 0 /\ ICount' > 1 => IValue' = y
        /\ IValue' = d
    BY WordsMove, Zenon
  <1>5. wr'.qd_data = i_data /\ c'.new_data = (i_data # wr.qd_data)
    BY WayMoves, RegistersMove, Zenon DEF Clock
  <1> HIDE DEF k, l, m, x, y, d, p
  <1>6. /\ p \in Seq(Nat) /\ Len(p) = l + m + 1
        /\ \A i \in 1 .. l : p[i] = x
        /\ \A i \in l + 1 .. l + m : p[i] = y
        /\ p[l + m + 1] = d
    <2>1. k <= Len(due.q) /\ Len(due.q) - k = l + m
      BY <1>1, <1>3
    <2>2. /\ p \in Seq(Nat) /\ Len(p) = Len(due.q) - k + 1
          /\ \A i \in 1 .. Len(due.q) - k : p[i] = due.q[k + i]
          /\ p[Len(due.q) - k + 1] = d
      <3> DEFINE a == Append(SubSeq(due.q, k + 1, Len(due.q)), d)
      <3>1. due.q \in Seq(Nat) /\ k \in Nat /\ d \in Nat /\ k <= Len(due.q)
        BY <1>1, <1>3, <2>1, Zenon
      <3>2. /\ a \in Seq(Nat) /\ Len(a) = Len(due.q) - k + 1
            /\ \A i \in 1 .. Len(due.q) - k : a[i] = due.q[k + i]
            /\ a[Len(due.q) - k + 1] = d
        BY <3>1, OneComes
      <3>3. p = a
        BY <1>2, Zenon
      <3> HIDE DEF a
      <3> QED
        BY <3>2, <3>3, Zenon
    <2>3. /\ p \in Seq(Nat) /\ Len(p) = l + m + 1 /\ \A i \in 1 .. l + m : p[i] = due.q[k + i]
          /\ p[l + m + 1] = d
      BY <2>1, <2>2, Zenon
    <2>4. ASSUME NEW i \in 1 .. l PROVE p[i] = x
      <3>1. i \in 1 .. l + m /\ k + i \in k + 1 .. k + l
        BY <1>1
      <3> QED
        BY <1>3, <2>3, <3>1, Zenon
    <2>5. ASSUME NEW i \in l + 1 .. l + m PROVE p[i] = y
      <3>1. i \in 1 .. l + m /\ k + i \in k + l + 1 .. k + l + m
        BY <1>1
      <3> QED
        BY <1>3, <2>3, <3>1, Zenon
    <2> QED
      BY <2>3, <2>4, <2>5, Zenon
  <1>7. Len(p) = RCount' + LCount' + ICount'
    <2>1. \A a, b \in Nat : a + b = m + 1 => l + m + 1 = l + a + b
      BY <1>1
    <2>2. 0 \in Nat
      OBVIOUS
    <2>3. LCount' \in Nat /\ ICount' \in Nat /\ LCount' + ICount' = m + 1
      BY <1>1, <1>4, <2>2, Zenon
    <2>4. l + m + 1 = l + LCount' + ICount'
      BY <1>1, <2>1, <2>3, Zenon
    <2> QED
      BY <1>4, <1>6, <2>4, Zenon
  <1>8. \A i \in 1 .. RCount' : p[i] = RValue'
    BY <1>4, <1>6, Zenon
  <1>9. \A i \in RCount' + 1 .. RCount' + LCount' : p[i] = LValue'
    <2>1. CASE LCount' = 0
      <3>1. RCount' + 1 .. RCount' + LCount' = {}
        BY <1>1, <1>4, <2>1
      <3> QED
        BY <3>1, Zenon
    <2>2. CASE LCount' # 0
      <3>1. LCount' = m /\ LValue' = y
        BY <1>4, <2>2, Zenon
      <3> QED
        BY <1>4, <1>6, <3>1, Zenon
    <2> QED
      BY <2>1, <2>2
  <1>10. \A i \in RCount' + LCount' + 1 .. Len(p) : p[i] = IValue'
    <2> SUFFICES ASSUME NEW i \in RCount' + LCount' + 1 .. Len(p) PROVE p[i] = IValue'
      OBVIOUS
    <2>1. CASE i = l + m + 1
      BY <1>4, <1>6, <2>1, Zenon
    <2>2. CASE i # l + m + 1
      <3>1. CASE LCount' = m
        <4>1. RCount' + LCount' + 1 .. Len(p) = {l + m + 1}
          BY <1>1, <1>4, <1>6, <3>1
        <4> QED
          BY <4>1, <2>2
      <3>2. CASE LCount' = 0
        <4>1. RCount' + LCount' + 1 .. Len(p) = l + 1 .. l + m + 1
          BY <1>1, <1>4, <1>6, <3>2
        <4>2. i \in l + 1 .. l + m /\ m > 0
          <5>1. i \in l + 1 .. l + m + 1
            BY <4>1, Zenon
          <5> QED
            BY <5>1, <1>1, <2>2
        <4>3. ICount' = m + 1
          <5>1. \A a, b \in Nat : 0 + a = b + 1 => a = b + 1
            OBVIOUS
          <5> QED
            BY <5>1, <1>4, <1>1, <3>2, Zenon
        <4>4. IValue' = y
          BY <1>4, <1>1, <3>2, <4>2, <4>3
        <4> QED
          BY <1>6, <4>2, <4>4, Zenon
      <3> QED
        BY <1>4, <3>1, <3>2, Zenon
    <2> QED
      BY <2>1, <2>2
  <1>11. ~c'.new_data => IValue' = wr'.qd_data
    BY <1>4, <1>5, Zenon DEF d
  <1>12. due'.last \in Nat \cup {-1}
    BY <1>1, <1>2
  <1> QED
    BY <1>4, <1>6, <1>7, <1>8, <1>9, <1>10, <1>11, <1>12, Zenon DEF Accounted, p

\* An edge of the clock ends a run in time.
LEMMA PacedStays ==
  ASSUME Paced, ScopcTypes, NEW i_trigger \in BOOLEAN, NEW i_data \in {0, 1},
         Clock(i_trigger, i_data), ~br.reset
  PROVE  Paced'
  <1>1. /\ c'.dr_force_write = Forces(i_trigger)
        /\ c'.dr_force_inhibit = c.dr_force_write
        /\ c'.ck_addr = IF Writes THEN 0 ELSE (c.ck_addr + 1) % Steps
        /\ c'.dr_run_timeout = RunEnds
        /\ c'.imm = IF Writes THEN Sample(wr.qd_data, c.fires) ELSE Run(c.ck_addr)
    BY RegistersMove, Zenon DEF Clock
  <1>2. Steps \in Nat /\ Steps > 1 /\ MAX_STEP = Steps - 1
    BY ScopcAssumption DEF MAX_STEP
  <1>3. wr.qd_data \in Nat /\ c.ck_addr \in Nat /\ c.ck_addr \in 0 .. MAX_STEP
    BY <1>2 DEF ScopcTypes, Paced
  <1>4. CASE Writes
    <2>1. Sample(wr.qd_data, c.fires).adr = FALSE
      BY DEF Sample
    <2>2. ~c'.imm.adr /\ c'.ck_addr = 0
      BY <1>1, <1>4, <2>1, Zenon
    <2>3. 0 \in 0 .. MAX_STEP /\ 0 # MAX_STEP
      BY <1>2
    <2> QED
      BY <2>2, <2>3, Zenon DEF Paced
  <1>5. CASE ~Writes
    <2>1. Run(c.ck_addr).adr = TRUE /\ Run(c.ck_addr).val = c.ck_addr
      BY <1>3, RunIsWord, Zenon
    <2>2. c'.imm.adr /\ c'.imm.val = c.ck_addr /\ c'.ck_addr = (c.ck_addr + 1) % Steps
      BY <1>1, <1>5, <2>1, Zenon
    <2>3. ~c'.dr_force_inhibit
      BY <1>1, <1>5, Zenon DEF Writes
    <2>4. CASE c.ck_addr = MAX_STEP
      <3>1. c.imm.adr
        BY <1>2, <2>4 DEF Paced
      <3>2. c.dr_run_timeout /\ ~c.dr_force_inhibit /\ ~c.dr_force_write
        BY <2>4, <3>1, <1>5, Zenon DEF Paced, Writes
      <3>3. c'.dr_force_write
        BY <1>1, <3>2, Zenon DEF Forces
      <3>4. (c.ck_addr + 1) % Steps = 0
        BY <1>2, <2>4
      <3>5. c'.ck_addr = 0
        BY <2>2, <3>4, Zenon
      <3>6. 0 \in 0 .. MAX_STEP /\ 0 # MAX_STEP
        BY <1>2
      <3> QED
        BY <2>2, <2>3, <3>3, <3>5, <3>6, Zenon DEF Paced, Writes
    <2>5. CASE c.ck_addr # MAX_STEP
      <3>1. (c.ck_addr + 1) % Steps = c.ck_addr + 1
        BY <1>2, <1>3, <2>5
      <3>2. c.ck_addr + 1 \in 0 .. MAX_STEP /\ c.ck_addr + 1 # 0
        BY <1>2, <1>3, <2>5
      <3>3. c'.ck_addr = c'.imm.val + 1 /\ c'.ck_addr = c.ck_addr + 1
        BY <2>2, <3>1, Zenon
      <3>4. c.ck_addr + 1 = MAX_STEP => RunEnds
        BY <1>2, <1>3 DEF RunEnds
      <3>5. c'.ck_addr = MAX_STEP => c'.dr_run_timeout
        BY <1>1, <3>3, <3>4, Zenon
      <3> QED
        BY <2>2, <2>3, <3>2, <3>3, <3>5, Zenon DEF Paced
    <2> QED
      BY <2>4, <2>5, Zenon
  <1> QED
    BY <1>4, <1>5, Zenon

\* An edge of the clock keeps the recording stopped.
LEMMA StoppingStays ==
  ASSUME Stopping, ScopcTypes, NEW i_trigger \in BOOLEAN, NEW i_data \in {0, 1},
         Clock(i_trigger, i_data)
  PROVE  ScopcTypes' /\ Stopping'
  <1>1. /\ wr'.qd_data = i_data
        /\ wr'.record_ce = (Keeps /\ ~c.dr_stop_pipe[3])
    BY WayMoves, Zenon DEF Clock
  <1>2. wr'.qd_data \in Nat /\ wr'.record_ce \in BOOLEAN
    <2>1. i_data \in Nat
      OBVIOUS
    <2> QED
      BY <1>1, <2>1, Zenon
  <1>3. br'.reset = FALSE /\ DOMAIN br' = DOMAIN br
    BY DEF Clock, ScopcTypes
  <1>4. CASE br.reset
    <2>1. c' = Cleared
      BY <1>4, Zenon DEF Clock
    <2>2. /\ c'.dr_triggered = FALSE /\ c'.dr_stopped = FALSE
          /\ c'.dr_stop_pipe = [i \in 1 .. DLYSTOP |-> FALSE]
          /\ c'.dr_force_write = TRUE /\ c'.dr_force_inhibit = FALSE
          /\ c'.dr_run_timeout = TRUE /\ c'.new_data = TRUE
      BY <2>1 DEF Cleared
    <2>3. c'.dr_stop_pipe \in [1 .. DLYSTOP -> BOOLEAN]
      BY <2>2, Zenon
    <2>4. ~c'.dr_stop_pipe[1] /\ ~c'.dr_stop_pipe[2] /\ ~c'.dr_stop_pipe[3]
      BY <2>2 DEF DLYSTOP
    <2>5. Stopping'
      BY <2>2, <2>4, Zenon DEF Stopping
    <2>6. ScopcTypes'
      BY <1>2, <1>3, <2>2, <2>3, Zenon DEF ScopcTypes
    <2> QED
      BY <2>5, <2>6
  <1>5. CASE ~br.reset
    <2>1. c' = Recorded(i_trigger, i_data)
      BY <1>5, Zenon DEF Clock
    <2>2. /\ c'.dr_triggered = (c.dr_triggered \/ dw_triggerc(i_trigger))
          /\ c'.dr_stopped = (c.dr_triggered /\ (c.dr_stopped \/ c.holdoff_counter >= br.br_holdoff))
          /\ c'.dr_stop_pipe = [i \in 1 .. DLYSTOP |-> IF i = 1 THEN c.dr_stopped
                                                     ELSE c.dr_stop_pipe[i - 1]]
          /\ c'.dr_force_write = Forces(i_trigger)
          /\ c'.dr_force_inhibit = c.dr_force_write
          /\ c'.dr_run_timeout = RunEnds
          /\ c'.new_data = (i_data # wr.qd_data)
      BY <2>1, RegistersMove, Zenon
    <2>3. c'.dr_stop_pipe \in [1 .. DLYSTOP -> BOOLEAN]
      <3>1. ASSUME NEW i \in 1 .. DLYSTOP
            PROVE  (IF i = 1 THEN c.dr_stopped ELSE c.dr_stop_pipe[i - 1]) \in BOOLEAN
        <4>1. i # 1 => i - 1 \in 1 .. DLYSTOP
          BY DEF DLYSTOP
        <4> QED
          BY <4>1, Zenon DEF ScopcTypes
      <3> QED
        BY <2>2, <3>1, Zenon
    <2>4. /\ c'.dr_stop_pipe[1] = c.dr_stopped /\ c'.dr_stop_pipe[2] = c.dr_stop_pipe[1]
          /\ c'.dr_stop_pipe[3] = c.dr_stop_pipe[2]
      BY <2>2 DEF DLYSTOP
    <2>5. Stopping'
      BY <2>2, <2>4, Zenon DEF Stopping
    <2>6. Forces(i_trigger) \in BOOLEAN /\ RunEnds \in BOOLEAN
      BY DEF Forces, RunEnds
    <2>7. ScopcTypes'
      BY <1>2, <1>3, <2>2, <2>3, <2>6, Zenon DEF ScopcTypes
    <2> QED
      BY <2>5, <2>7
  <1> QED
    BY <1>4, <1>5, Zenon

\* After a reset there is no word yet.
LEMMA ResetAccounts ==
  ASSUME ScopcTypes, NEW i_trigger \in BOOLEAN, NEW i_data \in {0, 1},
         Clock(i_trigger, i_data), br.reset, IsWord(c.lst)
  PROVE  Paced' /\ Accounted'
  <1>1. c' = Cleared /\ due' = NoneDue
    BY Zenon DEF Clock
  <1>2. /\ c'.dr_force_inhibit = FALSE /\ c'.ck_addr = 0
        /\ c'.dr_run_timeout = TRUE /\ c'.new_data = TRUE /\ c'.imm = Run(0) /\ c'.lst = Run(0)
    BY <1>1 DEF Cleared
  <1>3. Run(0).adr = TRUE /\ Run(0).val = 0
    BY RunIsWord, Zenon
  <1>4. c'.imm.adr = TRUE /\ c'.imm.val = 0 /\ c'.lst.adr = TRUE /\ c'.lst.val = 0
    BY <1>2, <1>3, Zenon
  <1>5. due'.q = <<>> /\ due'.last = -1
    BY <1>1 DEF NoneDue
  <1>6. Paced'
    <2>1. 0 \in 0 .. MAX_STEP
      BY ScopcAssumption DEF MAX_STEP
    <2> QED
      BY <1>2, <1>4, <2>1, Zenon DEF Paced, Writes
  <1>7. IsWord(wr.r_data)'
    <2>1. wr'.r_data = IF Keeps THEN c.lst ELSE Sample(wr.qd_data, FALSE)
      BY WayMoves, Zenon DEF Clock
    <2>2. Sample(wr.qd_data, FALSE).adr = FALSE /\ Sample(wr.qd_data, FALSE).val = wr.qd_data
      BY SampleIsWord, Zenon DEF ScopcTypes
    <2>3. IsWord(c.lst) /\ wr.qd_data \in Nat
      BY DEF ScopcTypes
    <2>4. CASE Keeps
      BY <2>1, <2>3, <2>4, Zenon DEF IsWord
    <2>5. CASE ~Keeps
      <3>1. wr'.r_data = Sample(wr.qd_data, FALSE)
        BY <2>1, <2>5, Zenon
      <3> QED
        BY <3>1, <2>2, <2>3, Zenon DEF IsWord
    <2> QED
      BY <2>4, <2>5, Zenon
  <1>8. Stale' /\ ~Keeps'
    BY <1>4, <1>5, Zenon DEF Stale, Keeps
  <1>9. RCount' = 0 /\ RValue' = -1
    BY <1>5, <1>8, Zenon DEF RCount, RValue
  <1>10. LCount' = 0 /\ LValue' = -1
    BY <1>8, <1>9, Zenon DEF LCount, LValue
  <1>11. ICount' = 0 /\ IValue' = -1
    BY <1>4, <1>10, Zenon DEF ICount, IValue, Count, Value
  <1>12. IsWord(c.imm)' /\ IsWord(c.lst)'
    <2>1. 0 \in Nat
      OBVIOUS
    <2> QED
      BY <1>4, <2>1, Zenon DEF IsWord
  <1>13. /\ due'.q \in Seq(Nat) /\ due'.last \in Nat \cup {-1} /\ Len(due'.q) = 0
         /\ 0 = 0 + 0 + 0 /\ 1 .. 0 = {} /\ 0 + 1 .. 0 + 0 = {} /\ 0 + 0 + 1 .. 0 = {}
    BY <1>5
  <1>14. Accounted'
    BY <1>2, <1>7, <1>9, <1>10, <1>11, <1>12, <1>13, Zenon DEF Accounted
  <1> QED
    BY <1>6, <1>14

\* A clock that resets nothing.
LEMMA WordsStay ==
  ASSUME Paced, ScopcTypes, NEW i_trigger \in BOOLEAN, NEW i_data \in {0, 1},
         Clock(i_trigger, i_data), ~br.reset, IsWord(c.imm)
  PROVE  IsWord(c.lst)' /\ IsWord(c.imm)'
  <1>1. /\ c'.imm = IF Writes THEN Sample(wr.qd_data, c.fires) ELSE Run(c.ck_addr)
        /\ c'.lst = c.imm
    BY RegistersMove, Zenon DEF Clock
  <1>2. wr.qd_data \in Nat /\ c.ck_addr \in Nat
    BY ScopcAssumption DEF ScopcTypes, Paced, MAX_STEP
  <1>3. /\ Sample(wr.qd_data, c.fires).adr = FALSE /\ Sample(wr.qd_data, c.fires).val = wr.qd_data
        /\ Run(c.ck_addr).adr = TRUE /\ Run(c.ck_addr).val = c.ck_addr
    <2>1. Sample(wr.qd_data, c.fires).adr = FALSE /\ Sample(wr.qd_data, c.fires).val = wr.qd_data
      BY <1>2, SampleIsWord, Zenon
    <2>2. Run(c.ck_addr).adr = TRUE /\ Run(c.ck_addr).val = c.ck_addr
      BY <1>2, RunIsWord, Zenon
    <2> QED
      BY <2>1, <2>2
  <1>4. IsWord(c.imm)'
    <2>1. CASE Writes
      <3>1. c'.imm = Sample(wr.qd_data, c.fires)
        BY <1>1, <2>1, Zenon
      <3> QED
        BY <3>1, <1>2, <1>3, Zenon DEF IsWord
    <2>2. CASE ~Writes
      <3>1. c'.imm = Run(c.ck_addr)
        BY <1>1, <2>2, Zenon
      <3> QED
        BY <3>1, <1>2, <1>3, Zenon DEF IsWord
    <2> QED
      BY <2>1, <2>2, Zenon
  <1> QED
    BY <1>1, <1>4, Zenon DEF IsWord

LEMMA ScopcStarts == ScopcInit => ScopcInv
  <1> SUFFICES ASSUME ScopcInit PROVE ScopcInv
    OBVIOUS
  <1>1. /\ c.dr_triggered = FALSE /\ c.dr_stopped = FALSE
        /\ c.dr_stop_pipe = [i \in 1 .. DLYSTOP |-> FALSE]
        /\ c.dr_force_write = TRUE /\ c.dr_force_inhibit = FALSE /\ c.ck_addr = 0
        /\ c.dr_run_timeout = TRUE /\ c.new_data = TRUE /\ c.imm = Run(0) /\ c.lst = Run(0)
    BY RegistersReset, Zenon DEF ScopcInit
  <1>2. wr.qd_data = 0 /\ wr.record_ce = FALSE /\ wr.r_data = Run(0)
    BY DEF ScopcInit
  <1>3. due.q = <<>> /\ due.last = -1
    BY DEF ScopcInit, NoneDue
  <1>4. br.reset = TRUE /\ DOMAIN br = {"reset", "manual", "disable", "br_holdoff"}
    <2>1. PICK h \in Delayed :
            br = [reset |-> TRUE, manual |-> FALSE, disable |-> FALSE, br_holdoff |-> h]
      BY Zenon DEF ScopcInit
    <2> QED
      BY <2>1
  <1>5. Run(0).adr = TRUE /\ Run(0).val = 0 /\ 0 \in Nat
    BY RunIsWord, Zenon
  <1>6. ScopcTypes
    BY <1>1, <1>2, <1>4, <1>5, Zenon DEF ScopcTypes
  <1>7. IsWord(c.lst) /\ IsWord(c.imm) /\ IsWord(wr.r_data)
    BY <1>1, <1>2, <1>5, Zenon DEF IsWord
  <1>8. Paced
    <2>1. 0 \in 0 .. MAX_STEP
      BY ScopcAssumption DEF MAX_STEP
    <2> QED
      BY <1>1, <1>5, <2>1, Zenon DEF Paced, Writes
  <1>9. Stopping
    <2>1. ~c.dr_stop_pipe[1] /\ ~c.dr_stop_pipe[2] /\ ~c.dr_stop_pipe[3]
      BY <1>1 DEF DLYSTOP
    <2> QED
      BY <1>1, <2>1, Zenon DEF Stopping
  <1>10. Accounted
    <2>1. RCount = 0 /\ RValue = -1
      BY <1>2, <1>3, Zenon DEF RCount, RValue
    <2>2. LCount = 0 /\ LValue = -1
      BY <1>1, <1>5, <2>1, Zenon DEF LCount, LValue, Keeps
    <2>3. ICount = 0 /\ IValue = -1
      BY <1>1, <1>5, <2>2, Zenon DEF ICount, IValue, Count, Value
    <2>4. /\ due.q \in Seq(Nat) /\ due.last \in Nat \cup {-1} /\ Len(due.q) = 0
          /\ 0 = 0 + 0 + 0 /\ 1 .. 0 = {} /\ 0 + 1 .. 0 + 0 = {} /\ 0 + 0 + 1 .. 0 = {}
      BY <1>3
    <2> QED
      BY <1>1, <1>7, <2>1, <2>2, <2>3, <2>4, Zenon DEF Accounted
  <1> QED
    BY <1>6, <1>7, <1>8, <1>9, <1>10, Zenon DEF ScopcInv

\* The program on the host changes nothing of this.
LEMMA ScopcRests ==
  ASSUME ScopcInv, c' = c, wr' = wr, due' = due, br'.reset \in BOOLEAN, DOMAIN br' = DOMAIN br
  PROVE  ScopcInv'
  <1>1. ScopcTypes' /\ IsWord(c.lst)' /\ IsWord(c.imm)' /\ Stopping'
    <2>1. ScopcTypes'
      BY Zenon DEF ScopcInv, ScopcTypes
    <2>2. IsWord(c.lst)' /\ IsWord(c.imm)'
      BY Zenon DEF ScopcInv, IsWord
    <2>3. Stopping'
      BY Zenon DEF ScopcInv, Stopping
    <2> QED
      BY <2>1, <2>2, <2>3, Zenon
  <1>2. Paced'
    BY Zenon DEF ScopcInv, Paced, Writes
  <1>3. Accounted => Accounted'
    <2>1. RCount' = RCount /\ RValue' = RValue
      BY Zenon DEF RCount, RValue, Stale, Stands, Value
    <2>2. LCount' = LCount /\ LValue' = LValue
      BY <2>1, Zenon DEF LCount, LValue, Keeps, Count, Stands, Value
    <2>3. ICount' = ICount /\ IValue' = IValue
      BY <2>2, Zenon DEF ICount, IValue, Count, Stands, Value
    <2> QED
      BY <2>1, <2>2, <2>3, Zenon DEF Accounted, IsWord
  <1> QED
    BY <1>1, <1>2, <1>3, Zenon DEF ScopcInv

LEMMA ScopcClock ==
  ASSUME ScopcInv, NEW i_trigger \in BOOLEAN, NEW i_data \in {0, 1}, Clock(i_trigger, i_data)
  PROVE  ScopcInv'
  <1>1. ScopcTypes /\ IsWord(c.lst) /\ IsWord(c.imm) /\ Paced /\ Stopping
    BY Zenon DEF ScopcInv
  <1>2. ScopcTypes' /\ Stopping'
    BY <1>1, StoppingStays
  <1>3. CASE br.reset
    <2>1. Paced' /\ Accounted'
      BY <1>1, <1>3, ResetAccounts
    <2> QED
      BY <1>2, <2>1, Zenon DEF ScopcInv, Accounted
  <1>4. CASE ~br.reset
    <2>1. Paced' /\ IsWord(c.lst)' /\ IsWord(c.imm)'
      BY <1>1, <1>4, PacedStays, WordsStay
    <2>2. CASE c.dr_stop_pipe[3]
      <3>1. ~wr'.record_ce
        BY <2>2, WayMoves, Zenon DEF Clock
      <3>2. c' = Recorded(i_trigger, i_data)
        BY <1>4, Zenon DEF Clock
      <3>3. c'.dr_stop_pipe = [i \in 1 .. DLYSTOP |-> IF i = 1 THEN c.dr_stopped
                                                    ELSE c.dr_stop_pipe[i - 1]]
        BY <3>2, RegistersMove
      <3>4. c'.dr_stop_pipe[3] = c.dr_stop_pipe[2]
        <4>1. 3 \in 1 .. DLYSTOP /\ 3 # 1 /\ 3 - 1 = 2
          BY DEF DLYSTOP
        <4> QED
          BY <3>3, <4>1, Zenon
      <3>5. c.dr_stop_pipe[2]
        BY <1>1, <2>2, Zenon DEF Stopping
      <3> QED
        BY <1>2, <2>1, <3>1, <3>4, <3>5, Zenon DEF ScopcInv
    <2>3. CASE ~c.dr_stop_pipe[3]
      <3>1. Accounted
        BY <2>3, Zenon DEF ScopcInv
      <3>2. Accounted'
        BY <1>1, <1>4, <2>3, <3>1, AccountedStays
      <3> QED
        BY <1>2, <2>1, <3>2, Zenon DEF ScopcInv
    <2> QED
      BY <2>2, <2>3, Zenon
  <1> QED
    BY <1>3, <1>4, Zenon

LEMMA ScopcSteps == ScopcInv /\ [ScopcNext]_scopcvars => ScopcInv'
  <1> SUFFICES ASSUME ScopcInv, [ScopcNext]_scopcvars PROVE ScopcInv'
    OBVIOUS
  <1>0. DOMAIN br = {"reset", "manual", "disable", "br_holdoff"} /\ br.reset \in BOOLEAN
    BY Zenon DEF ScopcInv, ScopcTypes
  <1>1. ASSUME NEW i_trigger \in BOOLEAN, NEW i_data \in {0, 1}, Clock(i_trigger, i_data)
        PROVE  ScopcInv'
    BY <1>1, ScopcClock
  <1>2. CASE WriteControlc
    <2>1. PICK m, d \in BOOLEAN, h \in Delayed :
            br' = [reset |-> TRUE, manual |-> m, disable |-> d, br_holdoff |-> h]
      BY <1>2, Zenon DEF WriteControlc
    <2>2. br'.reset = TRUE /\ DOMAIN br' = {"reset", "manual", "disable", "br_holdoff"}
      BY <2>1
    <2>3. c' = c /\ wr' = wr /\ due' = due
      BY <1>2, Zenon DEF WriteControlc
    <2> QED
      BY <1>0, <2>2, <2>3, ScopcRests, Zenon
  <1>3. CASE readyc \/ rawreadc \/ printc \/ writevcdc \/ closeupc
    <2>1. c' = c /\ wr' = wr /\ due' = due /\ br' = br
      BY <1>3, Zenon DEF readyc, rawreadc, printc, writevcdc, closeupc
    <2> QED
      BY <1>0, <2>1, ScopcRests, Zenon
  <1>4. CASE UNCHANGED scopcvars
    <2>1. c' = c /\ wr' = wr /\ due' = due /\ br' = br
      BY <1>4, Zenon DEF scopcvars
    <2> QED
      BY <1>0, <2>1, ScopcRests, Zenon
  <1> QED
    BY <1>1, <1>2, <1>3, <1>4, Zenon DEF ScopcNext

\* Every word that the compressed scope records (wbscopc.v, lst and imm) stands for
\* exactly the samples that follow those of the word before, for every length of a run,
\* holdoff and memory: also at the run's timeout, where dr_force_write must come before
\* ck_addr overflows.
THEOREM WordsAreExact == ScopcSpec => []RunsExact
  <1>1. ScopcInv => RunsExact
    <2> SUFFICES ASSUME ScopcInv, wr.record_ce, ~Stale
                 PROVE  /\ Stands(wr.r_data) <= Len(due.q)
                        /\ \A i \in 1 .. Stands(wr.r_data) :
                             due.q[i] = IF wr.r_data.adr THEN due.last ELSE wr.r_data.val
      BY Zenon DEF RunsExact
    <2>1. Accounted
      BY Zenon DEF ScopcInv
    <2>2. RCount = Stands(wr.r_data) /\ RValue = Value(wr.r_data, due.last)
      BY Zenon DEF RCount, RValue
    <2>3. RCount \in Nat /\ LCount \in Nat /\ ICount \in Nat
      BY <2>1, CountsAreNat
    <2>4. Len(due.q) = RCount + LCount + ICount /\ \A i \in 1 .. RCount : due.q[i] = RValue
      BY <2>1, Zenon DEF Accounted
    <2>5. RCount <= Len(due.q)
      BY <2>3, <2>4
    <2> QED
      BY <2>2, <2>4, <2>5, Zenon DEF Value
  <1> QED
    BY <1>1, ScopcStarts, ScopcSteps, PTL DEF ScopcSpec
=============================================================================
