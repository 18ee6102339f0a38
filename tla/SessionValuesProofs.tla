------------------------ MODULE SessionValuesProofs -------------------------
(***************************************************************************)
(* Proofs about SessionValues, for every width of a time stamp, every      *)
(* window and every bound of the clock that the width can hold.            *)
(***************************************************************************)
EXTENDS SessionValues, SequenceTheorems, TLAPS

-----------------------------------------------------------------------------
(* Unsigned subtraction *)

\* 2^Width is a positive number that no time, even with the window, reaches.
LEMMA Modulus == 2 ^ Width \in Nat /\ 2 ^ Width > MaxTime + Window
  BY WidthAssumption

\* Minus is the difference, or wraps once.
LEMMA MinusIs ==
    ASSUME NEW a \in Stamps, NEW b \in Stamps
    PROVE  /\ Minus(a, b) \in Stamps
           /\ Minus(a, b) = IF b <= a THEN a - b ELSE a - b + 2 ^ Width
<1> DEFINE M == 2 ^ Width
<1>1. M \in Nat \ {0} /\ a \in Int /\ b \in Int /\ 0 <= a /\ a < M /\ 0 <= b /\ b < M
  BY Modulus, WidthAssumption DEF Stamps
<1>2. Minus(a, b) = (a - b) % M
  BY DEF Minus
<1> HIDE DEF M
<1>3. b <= a => (a - b) % M = a - b
  BY <1>1
<1>4. a < b => (a - b) % M = a - b + M
  BY <1>1
<1>5. Minus(a, b) = IF b <= a THEN a - b ELSE a - b + M
  BY <1>1, <1>2, <1>3, <1>4
<1>6. Minus(a, b) \in 0 .. M - 1
  BY <1>1, <1>5
<1> QED
  BY <1>5, <1>6 DEF M, Stamps

\* A time is a stamp.
LEMMA TimesAreStamps == 0 .. MaxTime \subseteq Stamps
  BY Modulus, WidthAssumption DEF Stamps

\* A stamp that is no more than the window before two times keeps them within
\* the window of each other, also if it is of the future and Minus wraps.
LEMMA WindowCarries ==
    ASSUME NEW a \in 0 .. MaxTime, NEW b \in 0 .. MaxTime, NEW s \in Stamps, a < b,
           Minus(a, s) <= Window, Minus(b, s) <= Window
    PROVE  b - a <= Window
<1> DEFINE M == 2 ^ Width
<1>1. /\ M \in Nat /\ MaxTime + Window < M /\ MaxTime \in Nat /\ Window \in Nat
      /\ a \in Int /\ b \in Int /\ 0 <= a /\ b <= MaxTime
      /\ s \in Int /\ 0 <= s /\ s < M
  BY Modulus, WidthAssumption DEF Stamps
<1>2. /\ Minus(a, s) = IF s <= a THEN a - s ELSE a - s + M
      /\ Minus(b, s) = IF s <= b THEN b - s ELSE b - s + M
  BY TimesAreStamps, MinusIs
<1> HIDE DEF M
<1>3. CASE s <= a
  BY <1>1, <1>2, <1>3
<1>4. CASE a < s /\ s <= b
  BY <1>1, <1>2, <1>4
<1>5. CASE b < s
  BY <1>1, <1>2, <1>5
<1> QED
  BY <1>1, <1>3, <1>4, <1>5

-----------------------------------------------------------------------------
(* The inductive invariant *)

\* Samples are taken at increasing times, so there is one for each unit of time
\* at most.
Ordered ==
    /\ \A i, j \in 1 .. Len(at) : i < j => at[i] < at[j]
    /\ \A i \in 1 .. Len(at) : i - 1 <= at[i] /\ at[i] <= now

\* Where the stamp of the previous counters is theirs.
Stamped1 == m_cnt1 # 0 => m_cnt1 < Len(at) /\ m_timestamp1 = at[m_cnt1]

\* How far back the previous counters may be.
Near ==
    /\ m_cnt1 # 0 => at[Len(at)] - at[m_cnt1] <= Window \/ m_cnt1 = Len(at) - 1
    /\ m_cnt1 = 0 /\ Len(at) > 1 =>
          at[Len(at)] - at[2] <= Window /\ Minus(at[2], m_timestamp1) <= Window

\* What pairs counters with stamps at each step of updateCounters.
Paired ==
    /\ pump # "idle" => Len(at) > 0
    /\ pump = "idle" => /\ m_cnt0 = Len(at) /\ Stamped1 /\ Near
                        /\ Len(at) > 0 => m_timestamp0 = at[Len(at)]
    /\ pump = "swap" => /\ m_cnt0 = Len(at) - 1
                        /\ Len(at) > 1 => m_timestamp0 = at[Len(at) - 1]
    /\ pump = "stamp" => /\ m_cnt1 = Len(at) - 1
                         /\ Len(at) > 1 => m_timestamp0 = at[Len(at) - 1]
    /\ pump = "assign" => Stamped1 /\ Near
    /\ pump = "restamp" => m_cnt0 = Len(at) /\ Stamped1 /\ Near

\* A report that no update overlapped was read from one pair of counters.
Read ==
    /\ reader = "subtract" /\ ~raced =>
          pump = "idle" /\ seconds = Minus(m_timestamp0, m_timestamp1)
    /\ reader = "done" /\ ~raced /\ rate.from # 0 => rate.to \in 1 .. Len(at)

Inv == TypeOK /\ Ordered /\ Paired /\ Read /\ RateIsAverage

-----------------------------------------------------------------------------
(* It is inductive. *)

\* The samples never outnumber Samples.
LEMMA SamplesFit ==
    ASSUME TypeOK, Ordered
    PROVE  Len(at) \in Nat /\ Len(at) <= MaxTime + 1 /\ Len(at) \in Samples
<1>1. Len(at) \in Nat /\ now \in 0 .. MaxTime /\ at \in Seq(0 .. MaxTime) /\ MaxTime \in Nat
  BY WidthAssumption DEF TypeOK
<1>2. Len(at) > 0 => Len(at) - 1 <= at[Len(at)] /\ at[Len(at)] <= now /\ at[Len(at)] \in Nat
  BY <1>1 DEF Ordered
<1> QED
  BY <1>1, <1>2 DEF Samples

\* The first state.
LEMMA InvInit == Init => Inv
<1> SUFFICES ASSUME Init PROVE Inv
  OBVIOUS
<1>1. TypeOK
  <2>1. 0 \in Samples /\ 0 \in Stamps /\ 0 \in 0 .. MaxTime
    BY Modulus, WidthAssumption DEF Samples, Stamps
  <2>2. rate \in [to : Samples, from : Samples, seconds : Stamps]
    BY <2>1 DEF Init
  <2>3. at \in Seq(0 .. MaxTime)
    BY DEF Init
  <2> QED
    BY <2>1, <2>2, <2>3 DEF Init, TypeOK
<1>2. Len(at) = 0
  BY DEF Init
<1> QED
  BY <1>1, <1>2 DEF Init, Inv, Ordered, Paired, Stamped1, Near, Read, RateIsAverage

\* The stages of updateCounters after the first leave the samples alone, and a
\* report under way is spoiled by them.
LEMMA InvStep ==
    ASSUME Inv, NEW a, NEW b, Step(a, b), a # "idle", m_cnt0' \in Samples, m_cnt1' \in Samples,
           m_timestamp0' \in Stamps, m_timestamp1' \in Stamps,
           b \in {"idle", "swap", "stamp", "assign", "restamp"}
    PROVE  TypeOK' /\ Ordered' /\ Read' /\ RateIsAverage'
<1>1. UNCHANGED <<reader, seconds, rate, now, at>> /\ pump = a /\ pump' = b
      /\ raced' = (raced \/ reader = "subtract")
  BY DEF Step, Race
<1>2. raced' \in BOOLEAN
  BY <1>1
<1>3. TypeOK'
  BY <1>1, <1>2 DEF Inv, TypeOK
<1>4. Ordered'
  BY <1>1 DEF Inv, Ordered
<1>5. Read' /\ RateIsAverage'
  BY <1>1 DEF Inv, Read, RateIsAverage
<1> QED
  BY <1>3, <1>4, <1>5

\* A new sample.
LEMMA InvBegin == Inv /\ BeginUpdate => Inv'
<1> SUFFICES ASSUME Inv, BeginUpdate PROVE Inv'
  OBVIOUS
<1> DEFINE N == Len(at)
<1>1. /\ at \in Seq(0 .. MaxTime) /\ N \in Nat /\ now \in 0 .. MaxTime /\ MaxTime \in Nat
      /\ Window \in Nat
  BY WidthAssumption DEF Inv, TypeOK
<1>2. /\ at' = Append(at, now) /\ at' \in Seq(0 .. MaxTime) /\ Len(at') = N + 1
      /\ at'[N + 1] = now /\ \A i \in 1 .. N : at'[i] = at[i]
  BY <1>1 DEF BeginUpdate
<1>3. UNCHANGED <<values, reader, seconds, rate, now>> /\ pump = "idle"
      /\ raced' = (raced \/ reader = "subtract")
      /\ pump' = IF Minus(now, m_timestamp1) > Window THEN "swap" ELSE "assign"
  BY DEF BeginUpdate, Race
<1>4. \A i \in 1 .. N : at[i] \in 0 .. MaxTime /\ at[i] < now /\ i - 1 <= at[i]
  BY <1>1 DEF BeginUpdate, Inv, Ordered
<1>5. TypeOK'
  <2>1. raced' \in BOOLEAN /\ pump' \in {"swap", "assign"}
    BY <1>3
  <2> QED
    BY <1>2, <1>3, <2>1 DEF Inv, TypeOK, values
<1>6. Ordered'
  <2>1. ASSUME NEW i \in 1 .. N + 1, NEW j \in 1 .. N + 1, i < j PROVE at'[i] < at'[j]
    <3>1. CASE j = N + 1
      BY <1>1, <1>2, <1>4, <2>1, <3>1
    <3>2. CASE j # N + 1
      <4>1. i \in 1 .. N /\ j \in 1 .. N
        BY <1>1, <2>1, <3>2
      <4>2. at[i] < at[j]
        BY <2>1, <4>1 DEF Inv, Ordered
      <4> QED
        BY <1>2, <4>1, <4>2
    <3> QED
      BY <3>1, <3>2
  <2>2. ASSUME NEW i \in 1 .. N + 1 PROVE i - 1 <= at'[i] /\ at'[i] <= now'
    <3>1. CASE i = N + 1
      <4>1. CASE N = 0
        BY <1>1, <1>2, <1>3, <3>1, <4>1
      <4>2. CASE N # 0
        <5>1. N \in 1 .. N
          BY <1>1, <4>2
        <5>2. at[N] \in Int /\ at[N] < now /\ N - 1 <= at[N]
          BY <1>1, <1>4, <5>1
        <5> QED
          BY <1>1, <1>2, <1>3, <3>1, <5>2
      <4> QED
        BY <4>1, <4>2
    <3>2. CASE i # N + 1
      BY <1>1, <1>2, <1>3, <1>4, <3>2
    <3> QED
      BY <3>1, <3>2
  <2> QED
    BY <1>2, <2>1, <2>2 DEF Ordered
<1>7. Read' /\ RateIsAverage'
  <2>1. reader' = "subtract" => raced'
    BY <1>3
  <2>2. reader' = "done" /\ ~raced' => reader = "done" /\ ~raced
    BY <1>3
  <2>3. reader = "done" /\ ~raced /\ rate.from # 0 =>
            rate.to \in 1 .. N /\ rate.from \in 1 .. N
    BY <1>1 DEF Inv, Read, RateIsAverage, TypeOK, Samples
  <2> QED
    BY <1>1, <1>2, <1>3, <2>1, <2>2, <2>3 DEF Inv, Read, RateIsAverage
<1>8. Paired'
  <2>0. m_timestamp0 \in Stamps /\ m_timestamp1 \in Stamps /\ m_cnt1 \in Nat /\ now \in Stamps
    BY <1>1, TimesAreStamps, WidthAssumption DEF Inv, TypeOK, Samples
  <2>1. m_cnt0 = N /\ Stamped1 /\ Near /\ (N > 0 => m_timestamp0 = at[N])
    BY <1>3 DEF Inv, Paired
  <2>2. CASE pump' = "swap"
    BY <1>1, <1>2, <1>3, <2>1, <2>2 DEF Paired, values
  <2>3. CASE pump' = "assign"
    <3>1. Minus(now, m_timestamp1) \in Int /\ Minus(now, m_timestamp1) <= Window
      BY <1>1, <1>3, <2>0, <2>3, MinusIs, Modulus DEF Stamps
    <3>2. Stamped1'
      BY <1>1, <1>2, <1>3, <2>0, <2>1 DEF Stamped1, values
    <3>3. m_cnt1 # 0 => now - at[m_cnt1] <= Window
      <4> SUFFICES ASSUME m_cnt1 # 0 PROVE now - at[m_cnt1] <= Window
        OBVIOUS
      <4>1. m_cnt1 \in 1 .. N /\ m_timestamp1 = at[m_cnt1]
        BY <1>1, <2>0, <2>1 DEF Stamped1
      <4>2. m_timestamp1 \in Int /\ m_timestamp1 < now
        BY <1>1, <1>4, <4>1
      <4>3. Minus(now, m_timestamp1) = now - m_timestamp1
        BY <2>0, <4>2, <1>1, MinusIs
      <4> QED
        BY <3>1, <4>1, <4>3
    <3>4. ASSUME m_cnt1 = 0, N # 0
          PROVE  now - at'[2] <= Window /\ Minus(at'[2], m_timestamp1) <= Window
      <4>1. CASE N = 1
        BY <1>1, <1>2, <3>1, <4>1
      <4>2. CASE N > 1
        <5>1. at'[2] = at[2] /\ at[2] \in 0 .. MaxTime /\ at[2] < now
          BY <1>1, <1>2, <1>4, <4>2
        <5>2. Minus(at[2], m_timestamp1) <= Window
          BY <2>1, <3>4, <4>2 DEF Near
        <5>8. now - at[2] <= Window
          BY <1>1, <2>0, <3>1, <5>1, <5>2, WindowCarries
        <5> QED
          BY <5>1, <5>2, <5>8
      <4>3. N \in Nat /\ N # 0
        BY <1>1, <3>4
      <4>4. N = 1 \/ N > 1
        <5> HIDE DEF N
        <5> QED
          BY <4>3
      <4> QED
        BY <4>1, <4>2, <4>4
    <3>5. Near'
      BY <1>1, <1>2, <1>3, <2>0, <2>1, <3>3, <3>4 DEF Near, Stamped1, values
    <3> QED
      BY <1>1, <1>2, <2>3, <3>2, <3>5 DEF Paired
  <2> QED
    BY <1>3, <2>2, <2>3
<1> QED
  BY <1>5, <1>6, <1>7, <1>8 DEF Inv

\* The rest of updateCounters: only Stamp and Assign make the previous counters
\* sample Len(at) - 1 or keep them, and each stamp follows its counters.
LEMMA InvUpdate == Inv /\ (Swap \/ Stamp \/ Assign \/ Restamp) => Inv'
<1> SUFFICES ASSUME Inv, Swap \/ Stamp \/ Assign \/ Restamp PROVE Inv'
  OBVIOUS
<1> DEFINE N == Len(at)
<1>1. /\ N \in Nat /\ N \in Samples /\ at \in Seq(0 .. MaxTime)
      /\ m_cnt0 \in Samples /\ m_cnt1 \in Samples
      /\ m_timestamp0 \in Stamps /\ m_timestamp1 \in Stamps
  BY SamplesFit DEF Inv, TypeOK
<1>2. pump # "idle" /\ N > 0
  BY DEF Inv, Paired, Swap, Stamp, Assign, Restamp, Step
<1>3. at[N] \in 0 .. MaxTime /\ at[N] \in Stamps /\ Window \in Nat
  BY <1>1, <1>2, TimesAreStamps, WidthAssumption
<1>4. UNCHANGED at
  BY DEF Swap, Stamp, Assign, Restamp, Step
<1>5. CASE Swap
  <2>1. TypeOK' /\ Ordered' /\ Read' /\ RateIsAverage'
    BY <1>1, <1>2, <1>5, InvStep DEF Swap, Step
  <2>2. Paired'
    BY <1>2, <1>4, <1>5 DEF Inv, Paired, Swap, Step
  <2> QED
    BY <2>1, <2>2 DEF Inv
<1>6. CASE Stamp
  <2>1. TypeOK' /\ Ordered' /\ Read' /\ RateIsAverage'
    BY <1>1, <1>2, <1>6, InvStep DEF Stamp, Step
  <2>2. m_cnt1 = N - 1 /\ (N > 1 => m_timestamp0 = at[N - 1])
    BY <1>6 DEF Inv, Paired, Stamp, Step
  <2>3. m_cnt1' = m_cnt1 /\ m_timestamp1' = m_timestamp0 /\ pump' = "assign"
    BY <1>6 DEF Stamp, Step
  <2>4. m_cnt1 # 0 => N > 1 /\ m_cnt1 < N
    BY <1>1, <1>2, <2>2
  <2>5. Stamped1'
    BY <1>4, <2>2, <2>3, <2>4 DEF Stamped1
  <2>6. m_cnt1 = 0 => ~(N > 1)
    <3> HIDE DEF N
    <3> QED
      BY <1>1, <2>2
  <2>7. Near'
    BY <1>4, <2>2, <2>3, <2>6 DEF Near
  <2> QED
    BY <1>2, <1>4, <2>1, <2>3, <2>5, <2>7 DEF Inv, Paired
<1>7. CASE Assign
  <2>1. TypeOK' /\ Ordered' /\ Read' /\ RateIsAverage'
    BY <1>1, <1>2, <1>7, InvStep DEF Assign, Step
  <2>2. Stamped1 /\ Near
    BY <1>7 DEF Inv, Paired, Assign, Step
  <2>3. UNCHANGED <<m_cnt1, m_timestamp1>> /\ m_cnt0' = N /\ pump' = "restamp"
    BY <1>7 DEF Assign, Step
  <2>4. Stamped1' /\ Near'
    BY <1>4, <2>2, <2>3 DEF Stamped1, Near, Minus
  <2> QED
    BY <1>2, <1>4, <2>1, <2>3, <2>4 DEF Inv, Paired
<1>8. CASE Restamp
  <2>1. TypeOK' /\ Ordered' /\ Read' /\ RateIsAverage'
    BY <1>1, <1>2, <1>3, <1>8, InvStep DEF Restamp, Step, t
  <2>2. m_cnt0 = N /\ Stamped1 /\ Near
    BY <1>8 DEF Inv, Paired, Restamp, Step
  <2>3. UNCHANGED <<m_cnt0, m_cnt1, m_timestamp1>> /\ m_timestamp0' = at[N] /\ pump' = "idle"
    BY <1>8 DEF Restamp, Step, t
  <2>4. Stamped1' /\ Near'
    BY <1>4, <2>2, <2>3 DEF Stamped1, Near, Minus
  <2> QED
    BY <1>4, <2>1, <2>2, <2>3, <2>4 DEF Inv, Paired
<1> QED
  BY <1>5, <1>6, <1>7, <1>8

\* A report reads its two halves with no lock.
LEMMA InvRead == Inv /\ (ReadTimes \/ ReadCounters) => Inv'
<1> SUFFICES ASSUME Inv, ReadTimes \/ ReadCounters PROVE Inv'
  OBVIOUS
<1> DEFINE N == Len(at)
<1>1. /\ N \in Nat /\ N \in Samples /\ at \in Seq(0 .. MaxTime)
      /\ m_cnt0 \in Samples /\ m_cnt1 \in Samples /\ m_cnt1 \in Nat
      /\ m_timestamp0 \in Stamps /\ m_timestamp1 \in Stamps /\ seconds \in Stamps
  BY SamplesFit, WidthAssumption DEF Inv, TypeOK, Samples
<1>2. UNCHANGED <<m_cnt0, m_cnt1, m_timestamp0, m_timestamp1, pump, now, at>>
  BY DEF ReadTimes, ReadCounters, values
<1>3. Ordered'
  BY <1>2 DEF Inv, Ordered
<1>4. Paired'
  BY <1>2 DEF Inv, Paired, Stamped1, Near, Minus
<1>5. CASE ReadTimes
  <2>1. seconds' \in Stamps /\ raced' \in BOOLEAN
    BY <1>1, <1>5, MinusIs DEF ReadTimes
  <2>2. TypeOK'
    BY <1>2, <1>5, <2>1 DEF Inv, TypeOK, ReadTimes
  <2>3. Read' /\ RateIsAverage'
    BY <1>2, <1>5 DEF ReadTimes, Read, RateIsAverage, Minus
  <2> QED
    BY <1>3, <1>4, <2>2, <2>3 DEF Inv
<1>6. CASE ReadCounters
  <2>1. /\ reader' = "done" /\ rate' = [to |-> m_cnt0, from |-> m_cnt1, seconds |-> seconds]
        /\ UNCHANGED <<seconds, raced>> /\ reader = "subtract"
    BY <1>6 DEF ReadCounters
  <2>2. TypeOK'
    <3>1. rate' \in [to : Samples, from : Samples, seconds : Stamps]
      BY <1>1, <2>1
    <3> QED
      BY <1>2, <2>1, <3>1 DEF Inv, TypeOK
  <2>3. ASSUME ~raced, m_cnt1 # 0
        PROVE  /\ m_cnt0 \in 1 .. N /\ m_cnt1 < m_cnt0
               /\ seconds = at[m_cnt0] - at[m_cnt1] /\ seconds > 0
    <3>1. pump = "idle" /\ seconds = Minus(m_timestamp0, m_timestamp1)
      BY <2>1, <2>3 DEF Inv, Read
    <3>2. /\ m_cnt0 = N /\ m_cnt1 < N /\ m_timestamp1 = at[m_cnt1]
          /\ N > 0 => m_timestamp0 = at[N]
      BY <2>3, <3>1 DEF Inv, Paired, Stamped1
    <3>3. N \in 1 .. N /\ m_cnt1 \in 1 .. N
      BY <1>1, <2>3, <3>2
    <3>4. at[m_cnt1] < at[N] /\ at[m_cnt1] \in Int /\ at[N] \in Int
      <4>1. at[m_cnt1] \in 0 .. MaxTime /\ at[N] \in 0 .. MaxTime
        BY <1>1, <3>3, ElementOfSeq, WidthAssumption
      <4>2. at[m_cnt1] < at[N]
        BY <3>2, <3>3 DEF Inv, Ordered
      <4> QED
        BY <4>1, <4>2
    <3>5. seconds = at[N] - at[m_cnt1]
      BY <1>1, <3>1, <3>2, <3>3, <3>4, MinusIs
    <3> QED
      BY <3>2, <3>3, <3>4, <3>5
  <2>4. Read' /\ RateIsAverage'
    BY <1>2, <2>1, <2>3 DEF Read, RateIsAverage
  <2> QED
    BY <1>3, <1>4, <2>2, <2>4 DEF Inv
<1> QED
  BY <1>5, <1>6

\* Every step of the specification.
LEMMA InvNext == Inv /\ [Next]_vars => Inv'
<1> SUFFICES ASSUME Inv, [Next]_vars PROVE Inv'
  OBVIOUS
<1>1. CASE Tick
  <2>1. UNCHANGED <<values, report, pump, at>> /\ now' \in 0 .. MaxTime /\ now <= now'
        /\ now \in Int
    BY <1>1, WidthAssumption DEF Tick, Inv, TypeOK
  <2>2. TypeOK'
    BY <2>1 DEF Inv, TypeOK, values, report
  <2>3. Ordered'
    <3>1. \A i \in 1 .. Len(at) : at[i] \in Int
      <4>1. at \in Seq(0 .. MaxTime)
        BY DEF Inv, TypeOK
      <4> QED
        BY <4>1, ElementOfSeq, WidthAssumption
    <3> QED
      BY <2>1, <3>1 DEF Inv, Ordered
  <2>4. Paired' /\ Read' /\ RateIsAverage'
    BY <2>1 DEF Inv, Paired, Stamped1, Near, Read, RateIsAverage, Minus, values, report
  <2> QED
    BY <2>2, <2>3, <2>4 DEF Inv
<1>2. CASE BeginUpdate
  BY <1>2, InvBegin
<1>3. CASE Swap \/ Stamp \/ Assign \/ Restamp
  BY <1>3, InvUpdate
<1>4. CASE ReadTimes \/ ReadCounters
  BY <1>4, InvRead
<1>5. CASE UNCHANGED vars
  BY <1>5 DEF Inv, TypeOK, Ordered, Paired, Stamped1, Near, Read, RateIsAverage, Minus,
              vars, values, report
<1> QED
  BY <1>1, <1>2, <1>3, <1>4, <1>5 DEF Next

\* The invariant holds throughout.
LEMMA InvAlways == Spec => []Inv
  BY InvInit, InvNext, PTL DEF Spec

-----------------------------------------------------------------------------
(* What it says of the rates *)

\* The variables of sessionValues and of a report keep their types, whatever the
\* uninitialised stamps held: no subtraction leaves the range of its width.
THEOREM TypeCorrect == Spec => []TypeOK
<1>1. Inv => TypeOK
  BY DEF Inv
<1> QED
  BY <1>1, InvAlways, PTL

\* Every rate that getSessionStats reports without overlapping updateCounters is
\* the difference of two samples over the time between them, which is not 0.
THEOREM RatesAreAverages == Spec => []RateIsAverage
<1>1. Inv => RateIsAverage
  BY DEF Inv
<1> QED
  BY <1>1, InvAlways, PTL

\* Between updates a rate looks back over at most the window of updateCounters,
\* or to the sample before the last.
THEOREM RatesAreRecent == Spec => []WindowBounded
<1>1. Inv => WindowBounded
  <2> SUFFICES ASSUME Inv, pump = "idle", m_cnt0 # 0, m_cnt1 # 0
               PROVE  m_timestamp0 - m_timestamp1 <= Window \/ m_cnt1 = m_cnt0 - 1
    BY DEF WindowBounded, Warm
  <2>1. m_cnt0 = Len(at) /\ m_timestamp0 = at[Len(at)] /\ m_timestamp1 = at[m_cnt1]
    BY DEF Inv, Paired, Stamped1, TypeOK
  <2>2. at[Len(at)] - at[m_cnt1] <= Window \/ m_cnt1 = Len(at) - 1
    BY DEF Inv, Paired, Near
  <2> QED
    BY <2>1, <2>2
<1> QED
  BY <1>1, InvAlways, PTL

\* The zeros and the uninitialised stamps of the constructor are gone once a
\* sample comes more than the window after the second one.
THEOREM RatesWarmUp == Spec => []WarmsUp
<1>1. Inv => WarmsUp
  <2> SUFFICES ASSUME Inv, pump = "idle", Len(at) > 2, at[Len(at)] - at[2] > Window
               PROVE  m_cnt0 # 0 /\ m_cnt1 # 0
    BY DEF WarmsUp, Warm, t
  <2>1. m_cnt0 = Len(at) /\ Len(at) \in Nat /\ Len(at) > 1
    BY DEF Inv, Paired, TypeOK
  <2>2. at[Len(at)] - at[2] \in Int /\ Window \in Nat
    BY <2>1, WidthAssumption DEF Inv, TypeOK
  <2>3. m_cnt1 = 0 => at[Len(at)] - at[2] <= Window
    BY <2>1 DEF Inv, Paired, Near
  <2> QED
    BY <2>1, <2>2, <2>3
<1> QED
  BY <1>1, InvAlways, PTL
=============================================================================
