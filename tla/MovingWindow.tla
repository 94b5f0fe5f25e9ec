---------------------------- MODULE MovingWindow ----------------------------
(***************************************************************************)
(* The moving windows of common/moving_window.hpp: values sampled into     *)
(* time slots of equal length, a ring buffer of closed slots, the current  *)
(* slot, and the series derived from a window with apply, apply2, apply3.  *)
(*                                                                         *)
(* The four windows of common/ohlc.hpp and an average are fed the same     *)
(* events; the derived series hang off the closing prices.  Values are     *)
(* integers, so the average is the integer quotient.                       *)
(***************************************************************************)
EXTENDS Integers, Sequences, FiniteSetsExt

CONSTANTS Capacity,        \* slots of buffer_: history duration / interval
          Interval,        \* length of a slot, in microseconds
          InitValue,       \* the value slots have before anything was observed
          Op(_),           \* functor of apply and apply3, on an array of values
          SampleOp(_, _),  \* functor of apply2, on arrays of times and values
          Values,          \* values observed
          MaxTime,         \* bound: latest timestamp
          MaxEvents        \* bound: number of events

ASSUME MovingWindowAssumption ==
  /\ Capacity \in Nat \ {0}
  /\ Interval \in Nat \ {0}
  /\ InitValue \in Int
  /\ Values \subseteq Int
  /\ MaxTime \in Nat \ {0}
  /\ MaxEvents \in Nat

VARIABLES window,   \* window[s]: the moving_window of series s
          derived,  \* derived[d]: the moving_window that an apply created
          events    \* history: the events observed

vars == <<window, derived, events>>

Bar     == {"open", "close", "high", "low"}
Series  == Bar \cup {"avg"}
Derived == {"apply", "apply2", "apply3"}

Positions == 0..(Capacity - 1)

\* A moving_window: the ring's storage and the position of its oldest slot,
\* current_value_, current_ts_, and what the samplers open and avg remember.
Window == [buffer : [Positions -> Int], first : Positions, value : Int,
           ts : 0..MaxTime, collected : Nat,
           open_ : Int, count : Nat, sum : Int]

TypeOK ==
  /\ window \in [Series -> Window]
  /\ derived \in [Derived -> Window]
  /\ events \in Seq([t : 1..MaxTime, v : Values])

\* The constructor fills the buffer with the initial value.
NewWindow ==
  [buffer |-> [i \in Positions |-> InitValue], first |-> 0, value |-> InitValue,
   ts |-> 0, collected |-> 0, open_ |-> InitValue, count |-> 0, sum |-> InitValue]

Init ==
  /\ window = [s \in Series |-> NewWindow]
  /\ derived = [d \in Derived |-> NewWindow]
  /\ events = << >>
-----------------------------------------------------------------------------
(***************************************************************************)
(* Time slots and the ring                                                 *)
(***************************************************************************)

\* align_at_zero::get_time
GetTime(ts, offset) == ts - (ts % Interval) - offset * Interval

\* Mutant: the distance of the timestamps, not of their slots.
CountUnaligned(last, t) ==
  IF t < last THEN 0 ELSE (t - last) \div Interval

CountWindows(last, t) ==
  IF t < last THEN 0 ELSE (GetTime(t, 0) - GetTime(last, 0)) \div Interval

\* The position of the oldest slot after n calls of push_back.
Advance(first, n) == (first + n) % Capacity

\* The storage after n calls of push_back(v): they overwrite the oldest slots.
PushBack(w, n) ==
  [i \in Positions |-> IF (i + Capacity - w.first) % Capacity < n
                         THEN w.value ELSE w.buffer[i]]

\* The slot k intervals ago, 0 < k <= Capacity.
Slot(w, k) == w.buffer[(w.first + Capacity - k) % Capacity]

\* operator[]
Index(w, i) ==
  CASE i = 0 -> w.value
    [] i < 0 -> Slot(w, 0 - i)
    [] OTHER -> InitValue

\* copy_last_data: the ring's storage has two contiguous parts, array_one from
\* the oldest slot to the end and array_two from the start; the newest slots
\* are at the end of array_two.
CopyLastData(w, length) ==
  LET remain == length - 1
      copy2  == IF w.first < remain THEN w.first ELSE remain
      copy1  == remain - copy2
  IN  [j \in 1..length |->
         CASE j = length -> w.value
           [] copy1 < j /\ j < length -> w.buffer[w.first - copy2 + j - copy1 - 1]
           [] j <= copy1 -> w.buffer[Capacity - copy1 + j - 1]]

\* copy_last_slow, with reverse iterators.
CopyLastSlow(w, length) ==
  [j \in 1..length |-> IF j = length THEN w.value ELSE Slot(w, length - j)]

\* generate_time_array
GenerateTimeArray(w, length) == [j \in 1..length |-> GetTime(w.ts, length - j)]
-----------------------------------------------------------------------------
(***************************************************************************)
(* operator()                                                              *)
(***************************************************************************)
Larger(a, b)  == IF a < b THEN b ELSE a
Smaller(a, b) == IF b < a THEN b ELSE a

\* Mutant: the opening value is not replaced when a new slot starts.
SampleOpenOnce(s, w, new, now) ==
  CASE s = "open" -> IF w.ts = 0 THEN now ELSE w.open_
    [] s = "high" -> IF new THEN now ELSE Larger(w.value, now)
    [] s = "low"  -> IF new THEN now ELSE Smaller(w.value, now)
    [] s = "avg"  -> IF new THEN now ELSE (w.sum + now) \div (w.count + 1)
    [] OTHER      -> now

\* The samplers: latest and close keep the newest value.
Sample(s, w, new, now) ==
  CASE s = "open" -> IF new THEN now ELSE w.open_
    [] s = "high" -> IF new THEN now ELSE Larger(w.value, now)
    [] s = "low"  -> IF new THEN now ELSE Smaller(w.value, now)
    [] s = "avg"  -> IF new THEN now ELSE (w.sum + now) \div (w.count + 1)
    [] OTHER      -> now

\* No slots are filled in at the start.
Windows(w, t) == IF w.ts > 0 THEN CountWindows(w.ts, t) ELSE 0

NewPeriod(w, t) == Windows(w, t) > 0 \/ w.ts = 0

\* Mutant: the value is sampled before the finished slot is pushed.
UpdateSampleFirst(s, w, t, now) ==
  LET n   == Windows(w, t)
      new == NewPeriod(w, t)
      val == Sample(s, w, new, now)
  IN  [buffer |-> PushBack([w EXCEPT !.value = val], n), first |-> Advance(w.first, n),
       value |-> val, ts |-> t, collected |-> w.collected + n,
       open_ |-> IF new THEN now ELSE w.open_,
       count |-> IF new THEN 1 ELSE w.count + 1,
       sum |-> IF new THEN now ELSE w.sum + now]

\* The window after an event: finished slots are pushed, missing ones filled in
\* with the last value; the sampler combines the value with the current slot's.
Update(s, w, t, now) ==
  LET n   == Windows(w, t)
      new == NewPeriod(w, t)
  IN  [buffer |-> PushBack(w, n), first |-> Advance(w.first, n),
       value |-> Sample(s, w, new, now), ts |-> t, collected |-> w.collected + n,
       open_ |-> IF new THEN now ELSE w.open_,
       count |-> IF new THEN 1 ELSE w.count + 1,
       sum |-> IF new THEN now ELSE w.sum + now]

\* capacity(): the closed slots and the current one.
Length == Capacity + 1

\* The dependent indicators: apply reads the series, the others get arrays.
Derive(d, w) ==
  CASE d = "apply"  -> Op([j \in 1..Length |-> Index(w, j - Length)])
    [] d = "apply3" -> Op(CopyLastData(w, Length))
    [] d = "apply2" -> SampleOp(GenerateTimeArray(w, Length), CopyLastData(w, Length))

\* Mutant: indicators are computed from the series before the event.
OnDerivingFirst(t, v) ==
  /\ Len(events) < MaxEvents
  /\ window' = [s \in Series |-> Update(s, window[s], t, v)]
  /\ derived' = [d \in Derived |->
                   Update("latest", derived[d], t, Derive(d, window["close"]))]
  /\ events' = Append(events, [t |-> t, v |-> v])

\* ohlc::on: each window takes the event; what its dependents compute from the
\* updated window is in turn an event of theirs.
On(t, v) ==
  /\ Len(events) < MaxEvents
  /\ window' = [s \in Series |-> Update(s, window[s], t, v)]
  /\ derived' = [d \in Derived |->
                   Update("latest", derived[d], t, Derive(d, window'["close"]))]
  /\ events' = Append(events, [t |-> t, v |-> v])

Next == \E t \in 1..MaxTime, v \in Values : On(t, v)

Spec == Init /\ [][Next]_vars
-----------------------------------------------------------------------------
(***************************************************************************)
(* Reference: what the slots should hold, from the history of events,      *)
(* which are in the order of time.                                         *)
(***************************************************************************)
Bin(t) == t \div Interval

\* The events among the first n of E in slot b or before it.
UpTo(E, n, b) == {i \in 1..n : Bin(E[i].t) <= b}

\* The events of the last slot, up to slot b, in which there were any.
Latest(E, n, b) ==
  LET e == UpTo(E, n, b)
  IN  {i \in e : Bin(E[i].t) = Bin(E[Max(e)].t)}

\* The sum of the values of the first n events, for every n.
Sums(E) ==
  LET sum[n \in 0..Len(E)] == IF n = 0 THEN 0 ELSE sum[n - 1] + E[n].v
  IN  sum

\* The value of series s in slot b after the first n events.  The events of a
\* slot follow each other, so their sum is a difference of two sums.
Expected(E, s, n, b) ==
  LET e == Latest(E, n, b)
      V == {E[i].v : i \in e}
  IN  IF UpTo(E, n, b) = {} THEN InitValue ELSE
      CASE s = "open"  -> E[Min(e)].v
        [] s = "close" -> E[Max(e)].v
        [] s = "high"  -> Max(V)
        [] s = "low"   -> Min(V)
        [] s = "avg"   -> (Sums(E)[Max(e)] - Sums(E)[Min(e) - 1])
                            \div (Max(e) - Min(e) + 1)

\* The value of a derived series: computed at the last event of the slot, from
\* the closing prices known then.
ExpectedDerived(E, d, b) ==
  LET n == Max(UpTo(E, Len(E), b))
      c == Bin(E[n].t)
      closes == [j \in 1..Length |-> Expected(E, "close", n, c - (Length - j))]
      times  == [j \in 1..Length |-> (c - (Length - j)) * Interval]
  IN  IF UpTo(E, Len(E), b) = {} THEN InitValue
      ELSE IF d = "apply2" THEN SampleOp(times, closes) ELSE Op(closes)

\* No event was older than the one before it.
InOrder == \A i \in 2..Len(events) : events[i - 1].t <= events[i].t

\* The slot the window is in.
Now == Bin(window["close"].ts)
-----------------------------------------------------------------------------
(***************************************************************************)
(* Properties                                                              *)
(***************************************************************************)

\* moving_window::operator[] after any sequence of events in the order of time:
\* the value k slots back is the sample of the events of that slot, or of the
\* last slot before it that had any, or the initial value.
HistoryMatchesEvents ==
  events # << >> /\ InOrder =>
    \A s \in Series, k \in 0..Capacity :
      Index(window[s], 0 - k) = Expected(events, s, Len(events), Now - k)

\* The indicators that apply, apply2 and apply3 attach to a window keep in each
\* slot what their functor made of the window's values at the slot's last event.
DerivedFollows ==
  events # << >> /\ InOrder =>
    \A d \in Derived, k \in 0..Capacity :
      Index(derived[d], 0 - k) = ExpectedDerived(events, d, Now - k)

\* copy_last_data, which copies the two parts of the ring's storage with memcpy,
\* and copy_last_slow, which iterates, give the same array for every length.
CopiesAgree ==
  \A s \in Series, length \in 1..Length :
    CopyLastData(window[s], length) = CopyLastSlow(window[s], length)

\* The bars of ohlc: in every position of the rings, which the four windows
\* advance separately, and in the current slot, low <= open, close <= high.
BarsBracket ==
  /\ \A i \in Positions, s \in {"open", "close"} :
       /\ window["low"].buffer[i] <= window[s].buffer[i]
       /\ window[s].buffer[i] <= window["high"].buffer[i]
  /\ \A s \in {"open", "close"} :
       /\ window["low"].value <= window[s].value
       /\ window[s].value <= window["high"].value

\* A slot that get_time dates before the current interval is finished ("-1 means
\* the previous interval"): an event that is not older than the one before it,
\* whatever came earlier, closes the current slot with the value it had and
\* leaves the finished ones alone as long as they are in the buffer.
ClosedSlotsStable ==
  [][window["close"].ts \in 1..window'["close"].ts =>
       \A s \in Series, k \in 0..Capacity :
         LET b == Now - k
         IN  Now' - b \in 1..Capacity
               => Slot(window[s]', Now' - b) = Index(window[s], 0 - k)]_vars
=============================================================================
