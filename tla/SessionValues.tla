---------------------------- MODULE SessionValues ---------------------------
(***************************************************************************)
(* The transfer rates of kedge: class sessionValues (session_values.hpp),  *)
(* which the pump thread feeds from session_stats_alert (handle_alert in   *)
(* sheath.cpp) while io threads and the caller loop read it                *)
(* (getSessionStats, getSyncStats), with no lock between them.             *)
(*                                                                         *)
(* A set of counters is abstracted to the number of the sample it was      *)
(* assigned from, 0 for the zeros of the constructor.  Time is in units    *)
(* of a second where the code has microseconds; two samples never have the *)
(* same time.  A time stamp is unsigned, modulo 2^Width, and starts with   *)
(* any value: the constructor leaves m_timestamp uninitialised.  A racing  *)
(* read sees the old or the new value: the counters are aligned words and  *)
(* all vectors have one size.  Readers do not disturb each other, so there *)
(* is one.                                                                 *)
(***************************************************************************)
EXTENDS Naturals, Integers, Sequences

CONSTANTS
    Width,   \* bits of a time stamp
    Window,  \* the time the previous counters are kept for (2 seconds)
    MaxTime  \* bound: the clock, which does not wrap

\* Not even in a window after its bound.
ASSUME WidthAssumption ==
    Width \in Nat /\ Window \in Nat /\ MaxTime \in Nat /\ MaxTime + Window < 2 ^ Width

VARIABLES
    m_cnt0, m_cnt1, m_timestamp0, m_timestamp1,
    pump,     \* where updateCounters is
    reader,   \* where getSessionStats is
    seconds,  \* its m_timestamp[0] - m_timestamp[1]
    rate,     \* of the last report: the samples subtracted, and seconds
    now,
    at,       \* at[k]: the time of sample k
    raced     \* the report overlapped an update

values == <<m_cnt0, m_cnt1, m_timestamp0, m_timestamp1>>
report == <<reader, seconds, rate, raced>>
vars   == <<values, report, pump, now, at>>

Stamps  == 0 .. 2 ^ Width - 1
Samples == 0 .. MaxTime + 1

TypeOK ==
    /\ m_cnt0 \in Samples /\ m_cnt1 \in Samples
    /\ m_timestamp0 \in Stamps /\ m_timestamp1 \in Stamps
    /\ pump \in {"idle", "swap", "stamp", "assign", "restamp"}
    /\ reader \in {"idle", "subtract", "done"}
    /\ seconds \in Stamps
    /\ rate \in [to : Samples, from : Samples, seconds : Stamps]
    /\ now \in 0 .. MaxTime /\ at \in Seq(0 .. MaxTime)
    /\ raced \in BOOLEAN

Init ==
    /\ m_cnt0 = 0 /\ m_cnt1 = 0
    /\ m_timestamp0 \in Stamps /\ m_timestamp1 \in Stamps
    /\ pump = "idle"
    /\ reader = "idle" /\ seconds = 0 /\ rate = [to |-> 0, from |-> 0, seconds |-> 0]
    /\ now = 0 /\ at = <<>>
    /\ raced = FALSE

\* Mutant of Minus: signed subtraction.
MinusSigned(a, b) == a - b

\* Subtraction of std::uint64_t.
Minus(a, b) == (a - b) % 2 ^ Width

Tick == now < MaxTime /\ now' = now + 1 /\ UNCHANGED <<values, report, pump, at>>

-----------------------------------------------------------------------------
(* updateCounters(sc, t), where sc is sample Len(at) and t its time *)

t == at[Len(at)]

\* A report under way is no longer of one update.
Race == raced' = (raced \/ reader = "subtract")

\* Mutant of BeginUpdate: measures the age of the current counters.
BeginUpdateByNewest ==
    /\ pump = "idle"
    /\ \A k \in 1 .. Len(at) : at[k] < now
    /\ at' = Append(at, now)
    /\ pump' = IF Minus(now, m_timestamp0) > Window THEN "swap" ELSE "assign"
    /\ Race
    /\ UNCHANGED <<values, reader, seconds, rate, now>>

\* Mutant of BeginUpdate: compares without the wrap, so that a stamp in the future stays.
BeginUpdateOrdered ==
    /\ pump = "idle"
    /\ \A k \in 1 .. Len(at) : at[k] < now
    /\ at' = Append(at, now)
    /\ pump' = IF now > m_timestamp1 + Window THEN "swap" ELSE "assign"
    /\ Race
    /\ UNCHANGED <<values, reader, seconds, rate, now>>

\* A session_stats_alert, of a time after the last one's; the condition of
\* updateCounters decides whether the previous counters move.
BeginUpdate ==
    /\ pump = "idle"
    /\ \A k \in 1 .. Len(at) : at[k] < now
    /\ at' = Append(at, now)
    /\ pump' = IF Minus(now, m_timestamp1) > Window THEN "swap" ELSE "assign"
    /\ Race
    /\ UNCHANGED <<values, reader, seconds, rate, now>>

Step(from, to) == pump = from /\ pump' = to /\ Race /\ UNCHANGED <<reader, seconds, rate, now, at>>

Swap ==
    /\ Step("swap", "stamp")
    /\ m_cnt1' = m_cnt0 /\ m_cnt0' = m_cnt1
    /\ UNCHANGED <<m_timestamp0, m_timestamp1>>

\* Mutant of Stamp: stamps the previous counters with the time of the new ones.
StampNow ==
    /\ Step("stamp", "assign")
    /\ m_timestamp1' = t
    /\ UNCHANGED <<m_cnt0, m_cnt1, m_timestamp0>>

Stamp ==
    /\ Step("stamp", "assign")
    /\ m_timestamp1' = m_timestamp0
    /\ UNCHANGED <<m_cnt0, m_cnt1, m_timestamp0>>

Assign ==
    /\ Step("assign", "restamp")
    /\ m_cnt0' = Len(at)
    /\ UNCHANGED <<m_cnt1, m_timestamp0, m_timestamp1>>

Restamp ==
    /\ Step("restamp", "idle")
    /\ m_timestamp0' = t
    /\ UNCHANGED <<m_cnt0, m_cnt1, m_timestamp1>>

-----------------------------------------------------------------------------
(* getSessionStats: the time between the counters, then their difference *)

ReadTimes ==
    /\ reader # "subtract" /\ reader' = "subtract"
    /\ seconds' = Minus(m_timestamp0, m_timestamp1)
    /\ raced' = (pump # "idle")
    /\ UNCHANGED <<values, rate, pump, now, at>>

ReadCounters ==
    /\ reader = "subtract" /\ reader' = "done"
    /\ rate' = [to |-> m_cnt0, from |-> m_cnt1, seconds |-> seconds]
    /\ UNCHANGED <<values, seconds, raced, pump, now, at>>

-----------------------------------------------------------------------------

Next ==
    \/ Tick
    \/ BeginUpdate \/ Swap \/ Stamp \/ Assign \/ Restamp
    \/ ReadTimes \/ ReadCounters

Spec == Init /\ [][Next]_vars

-----------------------------------------------------------------------------
(* Properties *)

\* Both sets of counters are samples.
Warm == m_cnt0 # 0 /\ m_cnt1 # 0

\* A rate is the average between two samples that were taken: the difference of
\* the counters is divided by the time that passed between them, which is not 0.
\* (Unless the report overlapped an update or came before two samples.)
RateIsAverage ==
    reader = "done" /\ ~raced /\ rate.from # 0 =>
        /\ rate.from < rate.to
        /\ rate.seconds = at[rate.to] - at[rate.from]
        /\ rate.seconds > 0

\* Between updates the rate looks back over at most the window, or over the time
\* since the last sample if that is longer.
WindowBounded ==
    pump = "idle" /\ Warm =>
        \/ m_timestamp0 - m_timestamp1 <= Window
        \/ m_cnt1 = m_cnt0 - 1

\* Whatever the uninitialised time stamps held, they and the zeros are gone
\* once a sample comes more than the window after the second one.
WarmsUp ==
    pump = "idle" /\ Len(at) > 2 /\ t - at[2] > Window => Warm
=============================================================================
