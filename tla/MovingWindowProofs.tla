------------------------- MODULE MovingWindowProofs -------------------------
(***************************************************************************)
(* Proofs about MovingWindow for every capacity, interval, set of values   *)
(* and functors: the windows keep their type, the two ways of copying them *)
(* agree, the bars of ohlc are consistent, only a late event changes the   *)
(* value of a finished slot, and without late events every slot, derived   *)
(* ones too, holds what the history of events says.                        *)
(***************************************************************************)
EXTENDS MovingWindow, WellFoundedInduction, TLAPS

USE MovingWindowAssumption

\* A remainder is a position of the ring.
LEMMA ModRange ==
  ASSUME NEW a \in Nat, NEW c \in Nat \ {0}
  PROVE  a % c \in 0..(c - 1)
OBVIOUS

\* A position inside the ring is its own remainder.
LEMMA ModSmall ==
  ASSUME NEW c \in Nat \ {0}, NEW a \in 0..(c - 1)
  PROVE  a % c = a
OBVIOUS

\* A position that ran off the end of the ring once comes back by one round.
LEMMA ModWrap ==
  ASSUME NEW c \in Nat \ {0}, NEW a \in c..(2 * c - 1)
  PROVE  a % c = a - c
OBVIOUS

\* align_at_zero: the start of a time slot is the slot's number times the
\* interval, so count_windows is the difference of the numbers.
LEMMA CountIsBinDifference ==
  ASSUME NEW last \in Nat, NEW t \in Nat, last <= t
  PROVE  /\ CountWindows(last, t) = Bin(t) - Bin(last)
         /\ CountWindows(last, t) \in Nat
<1>1. /\ GetTime(t, 0) = Interval * Bin(t)
      /\ GetTime(last, 0) = Interval * Bin(last)
  BY DEF GetTime, Bin
<1>2. Bin(t) \in Nat /\ Bin(last) \in Nat /\ Bin(last) <= Bin(t)
  BY DEF Bin
<1>3. GetTime(t, 0) - GetTime(last, 0) = Interval * (Bin(t) - Bin(last))
  BY <1>1, <1>2
<1>4. (Interval * (Bin(t) - Bin(last))) \div Interval = Bin(t) - Bin(last)
  BY <1>2
<1> QED
  BY <1>2, <1>3, <1>4 DEF CountWindows

\* The number of slots an event closes is a natural number.
LEMMA WindowsNat ==
  ASSUME NEW w \in Window, NEW t \in 1..MaxTime
  PROVE  Windows(w, t) \in Nat
<1>1. w.ts \in Nat /\ t \in Nat
  BY DEF Window
<1>2. CASE w.ts > 0 /\ w.ts <= t
  BY <1>1, <1>2, CountIsBinDifference DEF Windows
<1>3. CASE ~(w.ts > 0 /\ w.ts <= t)
  BY <1>1, <1>3 DEF Windows, CountWindows
<1> QED
  BY <1>2, <1>3

\* A new window is a window.
LEMMA NewWindowType == NewWindow \in Window
  BY DEF NewWindow, Window, Positions

\* The fields of an updated window.
LEMMA UpdateFields ==
  ASSUME NEW s, NEW w, NEW t, NEW now
  PROVE  /\ Update(s, w, t, now).buffer = PushBack(w, Windows(w, t))
         /\ Update(s, w, t, now).first = Advance(w.first, Windows(w, t))
         /\ Update(s, w, t, now).value = Sample(s, w, NewPeriod(w, t), now)
         /\ Update(s, w, t, now).ts = t
         /\ Update(s, w, t, now).open_ = IF NewPeriod(w, t) THEN now ELSE w.open_
         /\ Update(s, w, t, now).count = IF NewPeriod(w, t) THEN 1 ELSE w.count + 1
         /\ Update(s, w, t, now).sum = IF NewPeriod(w, t) THEN now ELSE w.sum + now
<1> DEFINE buffer == PushBack(w, Windows(w, t))
           first == Advance(w.first, Windows(w, t))
           value == Sample(s, w, NewPeriod(w, t), now)
           collected == w.collected + Windows(w, t)
           open == IF NewPeriod(w, t) THEN now ELSE w.open_
           count == IF NewPeriod(w, t) THEN 1 ELSE w.count + 1
           sum == IF NewPeriod(w, t) THEN now ELSE w.sum + now
<1>1. Update(s, w, t, now) =
        [buffer |-> buffer, first |-> first, value |-> value, ts |-> t,
         collected |-> collected, open_ |-> open, count |-> count, sum |-> sum]
  BY Zenon DEF Update
<1>2. /\ Update(s, w, t, now).buffer = buffer
      /\ Update(s, w, t, now).first = first
      /\ Update(s, w, t, now).value = value
      /\ Update(s, w, t, now).ts = t
      /\ Update(s, w, t, now).open_ = open
      /\ Update(s, w, t, now).count = count
      /\ Update(s, w, t, now).sum = sum
  <2> HIDE DEF buffer, first, value, collected, open, count, sum
  <2> QED
    BY <1>1
<1> QED
  BY Zenon, <1>2

\* operator() of a window, whatever its sampler, gives a window.
LEMMA UpdateType ==
  ASSUME NEW s, NEW w \in Window, NEW t \in 1..MaxTime, NEW now \in Int
  PROVE  Update(s, w, t, now) \in Window
<1> DEFINE n == Windows(w, t)
           new == NewPeriod(w, t)
<1>0. /\ w.value \in Int /\ w.buffer \in [Positions -> Int] /\ w.first \in Positions
      /\ w.collected \in Nat /\ w.open_ \in Int /\ w.count \in Nat /\ w.sum \in Int
  BY DEF Window
<1>1. n \in Nat
  BY WindowsNat
<1>2. PushBack(w, n) \in [Positions -> Int]
  BY <1>0 DEF PushBack
<1>3. Advance(w.first, n) \in Positions
  <2>1. w.first + n \in Nat
    BY <1>0, <1>1 DEF Positions
  <2> QED
    BY <2>1, ModRange DEF Advance, Positions
<1>4. Sample(s, w, new, now) \in Int
  <2> HIDE DEF new
  <2>1. (w.sum + now) \div (w.count + 1) \in Int
    BY <1>0
  <2>2. Larger(w.value, now) \in Int /\ Smaller(w.value, now) \in Int
    BY <1>0 DEF Larger, Smaller
  <2> QED
    BY <1>0, <2>1, <2>2 DEF Sample
<1>5. w.collected + n \in Nat /\ t \in 0..MaxTime
  BY <1>0, <1>1
<1>6. /\ (IF new THEN now ELSE w.open_) \in Int
      /\ (IF new THEN 1 ELSE w.count + 1) \in Nat
      /\ (IF new THEN now ELSE w.sum + now) \in Int
  BY <1>0
<1> HIDE DEF n, new
<1> QED
  BY <1>2, <1>3, <1>4, <1>5, <1>6 DEF Update, Window, n, new
-----------------------------------------------------------------------------
(***************************************************************************)
(* Types                                                                   *)
(***************************************************************************)

\* The windows that are fed with events, without the derived ones.
WindowsOK ==
  /\ window \in [Series -> Window]
  /\ events \in Seq([t : 1..MaxTime, v : Values])

\* A step keeps the types of the windows that are fed with events.
LEMMA WindowsStep ==
  ASSUME WindowsOK, [Next]_vars
  PROVE  WindowsOK'
<1>1. CASE UNCHANGED vars
  BY <1>1 DEF WindowsOK, vars
<1>2. ASSUME NEW t \in 1..MaxTime, NEW v \in Values, On(t, v)
      PROVE  WindowsOK'
  <2>1. \A s \in Series : window[s] \in Window
    BY DEF WindowsOK
  <2>2. \A s \in Series : Update(s, window[s], t, v) \in Window
    BY <2>1, UpdateType
  <2>3. window' \in [Series -> Window]
    BY <1>2, <2>2 DEF On
  <2>5. events' \in Seq([t : 1..MaxTime, v : Values])
    BY <1>2 DEF On, WindowsOK
  <2> QED
    BY <2>3, <2>5 DEF WindowsOK
<1> QED
  BY <1>1, <1>2 DEF Next

\* They have their types at the start and for ever.
LEMMA WindowsCorrect == Spec => []WindowsOK
<1>1. Init => WindowsOK
  BY NewWindowType DEF Init, WindowsOK
<1>2. WindowsOK /\ [Next]_vars => WindowsOK'
  BY WindowsStep
<1> QED
  BY <1>1, <1>2, PTL DEF Spec

\* The windows of moving_window.hpp, derived ones included, stay windows: the
\* ring's position stays in its storage and every slot holds a number, if the
\* functors return numbers.
THEOREM TypeCorrect ==
  ASSUME \A a : Op(a) \in Int, \A u, a : SampleOp(u, a) \in Int
  PROVE  Spec => []TypeOK
<1>1. Init => TypeOK
  BY NewWindowType DEF Init, TypeOK
<1>2. TypeOK /\ [Next]_vars => TypeOK'
  <2> SUFFICES ASSUME TypeOK, [Next]_vars PROVE TypeOK'
    OBVIOUS
  <2>1. WindowsOK'
    BY WindowsStep DEF TypeOK, WindowsOK
  <2>2. CASE UNCHANGED vars
    BY <2>2 DEF TypeOK, vars
  <2>3. ASSUME NEW t \in 1..MaxTime, NEW v \in Values, On(t, v)
        PROVE  derived' \in [Derived -> Window]
    <3>1. \A d \in Derived : Derive(d, window'["close"]) \in Int
      BY DEF Derive, Derived
    <3>2. \A d \in Derived :
            Update("latest", derived[d], t, Derive(d, window'["close"])) \in Window
      BY <3>1, UpdateType DEF TypeOK
    <3> QED
      BY <2>3, <3>2 DEF On
  <2> QED
    BY <2>1, <2>2, <2>3 DEF Next, TypeOK, WindowsOK
<1> QED
  BY <1>1, <1>2, PTL DEF Spec
-----------------------------------------------------------------------------
(***************************************************************************)
(* copy_last_data                                                          *)
(***************************************************************************)

\* The k-th slot back is before the oldest one in the storage, in array_two, or
\* in array_one, at the other end.
LEMMA SlotPosition ==
  ASSUME NEW w \in Window, NEW k \in 1..Capacity
  PROVE  Slot(w, k) = IF k <= w.first THEN w.buffer[w.first - k]
                                      ELSE w.buffer[w.first + Capacity - k]
<1>1. w.first \in 0..(Capacity - 1)
  BY DEF Window, Positions
<1>2. CASE k <= w.first
  <2>1. w.first + Capacity - k \in Capacity..(2 * Capacity - 1)
    BY <1>1, <1>2
  <2>2. (w.first + Capacity - k) % Capacity = w.first - k
    BY <1>1, <1>2, <2>1, ModWrap
  <2> QED
    BY <1>2, <2>2 DEF Slot
<1>3. CASE ~(k <= w.first)
  <2>1. w.first + Capacity - k \in 0..(Capacity - 1)
    BY <1>1, <1>3
  <2>2. (w.first + Capacity - k) % Capacity = w.first + Capacity - k
    BY <2>1, ModSmall
  <2> QED
    BY <1>3, <2>2 DEF Slot
<1> QED
  BY <1>2, <1>3

\* Copying the ring's two parts gives what iterating backwards gives.
LEMMA CopyLastDataCorrect ==
  ASSUME NEW w \in Window, NEW length \in 1..Length
  PROVE  CopyLastData(w, length) = CopyLastSlow(w, length)
<1> DEFINE remain == length - 1
           copy2  == IF w.first < remain THEN w.first ELSE remain
           copy1  == remain - copy2
           fast(j) == CASE j = length -> w.value
             [] copy1 < j /\ j < length -> w.buffer[w.first - copy2 + j - copy1 - 1]
             [] j <= copy1 -> w.buffer[Capacity - copy1 + j - 1]
           slow(j) == IF j = length THEN w.value ELSE Slot(w, length - j)
<1>1. w.first \in 0..(Capacity - 1) /\ length \in 1..(Capacity + 1)
  BY DEF Window, Positions, Length
<1>2. ASSUME NEW j \in 1..length
      PROVE  fast(j) = slow(j)
  <2>0. copy1 \in Nat /\ copy2 \in Nat /\ copy1 + copy2 = length - 1 /\ copy2 <= w.first
    BY <1>1
  <2>1. CASE j = length
    BY <2>1, <2>0
  <2>2. CASE copy1 < j /\ j < length
    <3>1. length - j \in 1..Capacity /\ length - j <= w.first
      BY <1>1, <2>0, <2>2
    <3>2. w.first - copy2 + j - copy1 - 1 = w.first - (length - j)
      BY <1>1, <2>0
    <3> QED
      BY <2>0, <2>2, <3>1, <3>2, SlotPosition
  <2>3. CASE j <= copy1
    <3>1. /\ length - j \in 1..Capacity
          /\ ~(length - j <= w.first)
          /\ copy2 = w.first
      BY <1>1, <2>0, <2>3
    <3>2. Capacity - copy1 + j - 1 = w.first + Capacity - (length - j)
      BY <1>1, <2>0, <3>1
    <3>3. j # length /\ ~(copy1 < j)
      BY <1>1, <2>0, <2>3
    <3> QED
      BY <2>3, <3>1, <3>2, <3>3, SlotPosition
  <2> QED
    BY <2>0, <2>1, <2>2, <2>3
<1>3. CopyLastData(w, length) = [j \in 1..length |-> fast(j)]
  BY DEF CopyLastData
<1>4. CopyLastSlow(w, length) = [j \in 1..length |-> slow(j)]
  BY DEF CopyLastSlow
<1> HIDE DEF fast, slow
<1> QED
  BY <1>2, <1>3, <1>4

\* copy_last_data and copy_last_slow agree for every length, on the windows of
\* every run and for every capacity of the ring.
THEOREM CopiesAlwaysAgree == Spec => []CopiesAgree
<1>1. WindowsOK => CopiesAgree
  BY CopyLastDataCorrect DEF WindowsOK, CopiesAgree
<1> QED
  BY <1>1, WindowsCorrect, PTL
-----------------------------------------------------------------------------
(***************************************************************************)
(* The windows of one ohlc                                                 *)
(***************************************************************************)

\* "assume the sizes are all the same": the windows, which advance separately,
\* are at the same time and at the same position of their rings.
InStep ==
  \A s \in Series : /\ window[s].ts = window["open"].ts
                    /\ window[s].first = window["open"].first

\* What sampler::open remembers is the current value of its window.
OpenRemembers == window["open"].open_ = window["open"].value

\* The bars are consistent because the windows are in step.
BarInv == WindowsOK /\ InStep /\ OpenRemembers /\ BarsBracket

\* Windows at the same time close the same number of slots.
LEMMA SameWindows ==
  ASSUME NEW w \in Window, NEW u \in Window, NEW t \in 1..MaxTime, w.ts = u.ts
  PROVE  Windows(w, t) = Windows(u, t) /\ NewPeriod(w, t) = NewPeriod(u, t)
  BY DEF Windows, NewPeriod

\* A step keeps the windows in step.
LEMMA InStepStep ==
  ASSUME WindowsOK, InStep, [Next]_vars
  PROVE  InStep'
<1>1. CASE UNCHANGED vars
  BY <1>1 DEF InStep, vars
<1>2. ASSUME NEW t \in 1..MaxTime, NEW v \in Values, On(t, v)
      PROVE  InStep'
  <2> SUFFICES ASSUME NEW s \in Series
               PROVE  /\ window'[s].ts = window'["open"].ts
                      /\ window'[s].first = window'["open"].first
    BY DEF InStep
  <2>1. "open" \in Series
    BY DEF Series, Bar
  <2>2. /\ window'[s] = Update(s, window[s], t, v)
        /\ window'["open"] = Update("open", window["open"], t, v)
    BY <1>2, <2>1 DEF On
  <2>3. Windows(window[s], t) = Windows(window["open"], t)
    BY <2>1, SameWindows DEF WindowsOK, InStep
  <2> QED
    BY <2>2, <2>3 DEF Update, InStep
<1> QED
  BY <1>1, <1>2 DEF Next

\* A step keeps the bars consistent.
LEMMA BarStep ==
  ASSUME BarInv, [Next]_vars
  PROVE  OpenRemembers' /\ BarsBracket'
<1>1. CASE UNCHANGED vars
  BY <1>1 DEF BarInv, OpenRemembers, BarsBracket, vars
<1>2. ASSUME NEW t \in 1..MaxTime, NEW v \in Values, On(t, v)
      PROVE  OpenRemembers' /\ BarsBracket'
  <2> DEFINE n == Windows(window["open"], t)
             new == NewPeriod(window["open"], t)
  <2>0. \A s \in Bar : s \in Series
    BY DEF Series
  <2>1. \A s \in Bar : window'[s] = Update(s, window[s], t, v)
    BY <1>2, <2>0 DEF On
  <2>2. \A s \in Bar : Windows(window[s], t) = n /\ NewPeriod(window[s], t) = new
    <3>1. \A s \in Bar : window[s] \in Window /\ window[s].ts = window["open"].ts
      BY <2>0 DEF BarInv, WindowsOK, InStep
    <3>2. "open" \in Bar
      BY DEF Bar
    <3> QED
      BY <3>1, <3>2, SameWindows
  <2> HIDE DEF n, new
  <2>3. \A s \in Bar : /\ window'[s].buffer = PushBack(window[s], n)
                       /\ window'[s].value = Sample(s, window[s], new, v)
                       /\ window'[s].open_ = IF new THEN v ELSE window[s].open_
    <3> SUFFICES ASSUME NEW s \in Bar
                 PROVE  /\ window'[s].buffer = PushBack(window[s], n)
                        /\ window'[s].value = Sample(s, window[s], new, v)
                        /\ window'[s].open_ = IF new THEN v ELSE window[s].open_
      OBVIOUS
    <3> DEFINE m == Windows(window[s], t)
               fresh == NewPeriod(window[s], t)
    <3>1. m = n /\ fresh = new
      BY <2>2
    <3>2. /\ window'[s].buffer = PushBack(window[s], m)
          /\ window'[s].value = Sample(s, window[s], fresh, v)
          /\ window'[s].open_ = IF fresh THEN v ELSE window[s].open_
      BY <2>1, UpdateFields
    <3> HIDE DEF m, fresh
    <3> QED
      BY <3>1, <3>2
  <2>4. /\ v \in Int
        /\ \A s \in Bar : /\ window[s].value \in Int
                          /\ window[s].buffer \in [Positions -> Int]
                          /\ window[s].first = window["open"].first
    BY <2>0 DEF BarInv, WindowsOK, InStep, Window
  <2>5. /\ window'["open"].value = IF new THEN v ELSE window["open"].open_
        /\ window'["close"].value = v
        /\ window'["high"].value = IF new THEN v ELSE Larger(window["high"].value, v)
        /\ window'["low"].value = IF new THEN v ELSE Smaller(window["low"].value, v)
    BY <2>3 DEF Bar, Sample
  <2>6. OpenRemembers'
    BY <2>3, <2>5 DEF OpenRemembers, Bar
  <2>7. ASSUME NEW s \in {"open", "close"}
        PROVE  /\ window'["low"].value <= window'[s].value
               /\ window'[s].value <= window'["high"].value
    <3>1. /\ window["low"].value <= window["open"].open_
          /\ window["open"].open_ <= window["high"].value
      BY DEF BarInv, BarsBracket, OpenRemembers
    <3> QED
      BY <2>4, <2>5, <3>1 DEF Larger, Smaller, Bar, BarInv, OpenRemembers
  <2>8. ASSUME NEW s \in {"open", "close"}, NEW i \in Positions
        PROVE  /\ window'["low"].buffer[i] <= window'[s].buffer[i]
               /\ window'[s].buffer[i] <= window'["high"].buffer[i]
    <3> DEFINE over == (i + Capacity - window["open"].first) % Capacity < n
    <3>1. \A b \in Bar :
            window'[b].buffer[i] = IF over THEN window[b].value ELSE window[b].buffer[i]
      BY <2>3, <2>4 DEF PushBack
    <3>2. /\ window["low"].buffer[i] <= window[s].buffer[i]
          /\ window[s].buffer[i] <= window["high"].buffer[i]
          /\ window["low"].value <= window[s].value
          /\ window[s].value <= window["high"].value
      BY DEF BarInv, BarsBracket
    <3> HIDE DEF over
    <3> QED
      BY <3>1, <3>2 DEF Bar
  <2> QED
    BY <2>6, <2>7, <2>8 DEF BarsBracket
<1> QED
  BY <1>1, <1>2 DEF Next

\* ohlc: in every closed slot and in the current one, low <= open, close <= high,
\* for every capacity, interval and order of timestamps, late ones included.
THEOREM BarsAlwaysBracket == Spec => []BarsBracket
<1>1. Init => BarInv
  <2> SUFFICES ASSUME Init PROVE BarInv
    OBVIOUS
  <2>1. \A s \in Series : window[s] = NewWindow
    BY DEF Init
  <2>2. InStep /\ OpenRemembers /\ BarsBracket
    BY <2>1 DEF InStep, OpenRemembers, BarsBracket, NewWindow, Series, Bar
  <2> QED
    BY <2>2, NewWindowType DEF BarInv, WindowsOK, Init
<1>2. BarInv /\ [Next]_vars => BarInv'
  BY WindowsStep, InStepStep, BarStep DEF BarInv
<1>3. BarInv => BarsBracket
  BY DEF BarInv
<1> QED
  BY <1>1, <1>2, <1>3, PTL DEF Spec
-----------------------------------------------------------------------------
(***************************************************************************)
(* Finished slots                                                          *)
(***************************************************************************)

\* An event that closes n slots moves the slot k back to k + n back, unchanged.
LEMMA SlotMoves ==
  ASSUME NEW w \in Window, NEW n \in Nat, NEW k \in 1..Capacity, k + n <= Capacity,
         NEW u \in Window,
         u.buffer = PushBack(w, n), u.first = Advance(w.first, n)
  PROVE  Slot(u, k + n) = Slot(w, k)
<1> DEFINE p == IF k <= w.first THEN w.first - k ELSE w.first + Capacity - k
<1>0. w.first \in 0..(Capacity - 1)
  BY DEF Window, Positions
<1>1. p \in Positions /\ Slot(w, k) = w.buffer[p]
  BY <1>0, SlotPosition DEF Positions
<1>2. Slot(u, k + n) = u.buffer[p]
  <2>0. k + n \in 1..Capacity
    OBVIOUS
  <2>1. CASE w.first + n < Capacity
    <3>1. u.first = w.first + n
      BY <1>0, <2>1, ModSmall DEF Advance
    <3>2. IF k + n <= u.first THEN u.first - (k + n) = p
                              ELSE u.first + Capacity - (k + n) = p
      BY <1>0, <3>1
    <3> QED
      BY <2>0, <3>2, SlotPosition
  <2>2. CASE ~(w.first + n < Capacity)
    <3>0. w.first + n \in Capacity..(2 * Capacity - 1)
      BY <1>0, <2>2
    <3>1. u.first = w.first + n - Capacity
      <4>1. (w.first + n) % Capacity = w.first + n - Capacity
        BY <1>0, <3>0, ModWrap
      <4> QED
        BY <4>1 DEF Advance
    <3>2. IF k + n <= u.first THEN u.first - (k + n) = p
                              ELSE u.first + Capacity - (k + n) = p
      BY <1>0, <2>2, <3>1
    <3> QED
      BY <2>0, <3>2, SlotPosition
  <2> QED
    BY <2>1, <2>2
<1>3. (p + Capacity - w.first) % Capacity = Capacity - k
  <2>1. CASE k <= w.first
    <3>1. p + Capacity - w.first = Capacity - k /\ Capacity - k \in 0..(Capacity - 1)
      BY <1>0, <2>1
    <3> QED
      BY <3>1, ModSmall
  <2>2. CASE ~(k <= w.first)
    <3>1. /\ p + Capacity - w.first = 2 * Capacity - k
          /\ 2 * Capacity - k \in Capacity..(2 * Capacity - 1)
      BY <1>0, <2>2
    <3> QED
      BY <3>1, ModWrap
  <2> QED
    BY <2>1, <2>2
<1> HIDE DEF p
<1>4. u.buffer[p] = w.buffer[p]
  BY <1>1, <1>3 DEF PushBack
<1> QED
  BY <1>1, <1>2, <1>4

\* An event that closes n slots leaves the value that was current n slots back.
LEMMA SlotCloses ==
  ASSUME NEW w \in Window, NEW n \in 1..Capacity, NEW u \in Window,
         u.buffer = PushBack(w, n), u.first = Advance(w.first, n)
  PROVE  Slot(u, n) = w.value
<1>0. w.first \in 0..(Capacity - 1) /\ w.first \in Positions
  BY DEF Window, Positions
<1>1. Slot(u, n) = u.buffer[w.first]
  <2>1. CASE w.first + n < Capacity
    <3>1. u.first = w.first + n
      BY <1>0, <2>1, ModSmall DEF Advance
    <3> QED
      BY <1>0, <3>1, SlotPosition
  <2>2. CASE ~(w.first + n < Capacity)
    <3>0. w.first + n \in Capacity..(2 * Capacity - 1)
      BY <1>0, <2>2
    <3>1. u.first = w.first + n - Capacity
      BY <1>0, <3>0, ModWrap DEF Advance
    <3>2. ~(n <= u.first) /\ u.first + Capacity - n = w.first
      BY <1>0, <3>1
    <3> QED
      BY <3>2, SlotPosition
  <2> QED
    BY <2>1, <2>2
<1>2. (w.first + Capacity - w.first) % Capacity = 0
  BY <1>0, ModWrap
<1> QED
  BY <1>0, <1>1, <1>2 DEF PushBack

\* An event that is not older than the one before it closes the current slot
\* with its value and changes no slot that get_time dates before the current
\* interval, as long as the slot is in the buffer.
THEOREM ClosedSlotsKeepTheirValue == Spec => ClosedSlotsStable
<1>1. Init => WindowsOK /\ InStep
  BY NewWindowType DEF Init, WindowsOK, InStep, Series, Bar
<1>2. WindowsOK /\ InStep /\ [Next]_vars => (WindowsOK /\ InStep)'
  BY WindowsStep, InStepStep
<1>3. ASSUME WindowsOK, InStep, [Next]_vars
      PROVE  [window["close"].ts \in 1..window'["close"].ts =>
                \A s \in Series, k \in 0..Capacity :
                  LET b == Now - k
                  IN  Now' - b \in 1..Capacity
                        => Slot(window[s]', Now' - b) = Index(window[s], 0 - k)]_vars
  <2> SUFFICES ASSUME NEW t \in 1..MaxTime, NEW v \in Values, On(t, v),
                      window["close"].ts \in 1..window'["close"].ts,
                      NEW s \in Series, NEW k \in 0..Capacity,
                      Now' - (Now - k) \in 1..Capacity
               PROVE  Slot(window[s]', Now' - (Now - k)) = Index(window[s], 0 - k)
    BY <1>3 DEF Next
  <2> DEFINE n == Windows(window[s], t)
  <2>0. /\ "close" \in Series /\ "open" \in Series
        /\ window[s] \in Window /\ window["close"] \in Window
    BY <1>3 DEF Series, Bar, WindowsOK
  <2>1. window[s].ts = window["close"].ts /\ window[s].ts \in Nat
    BY <1>3, <2>0 DEF InStep, Window
  <2>2. /\ window'[s] = Update(s, window[s], t, v)
        /\ window'["close"].ts = t
    BY <2>0 DEF On, Update
  <2>3. window[s].ts <= t /\ window[s].ts > 0
    BY <2>1, <2>2
  <2>4. n = Now' - Now /\ n \in Nat
    BY <2>1, <2>2, <2>3, CountIsBinDifference DEF Windows, Now
  <2>5. Now \in Int /\ Now' \in Int
    BY <2>1, <2>2 DEF Now, Bin
  <2>6. window'[s] \in Window
    BY <2>0, <2>2, UpdateType
  <2>7. /\ window'[s].buffer = PushBack(window[s], n)
        /\ window'[s].first = Advance(window[s].first, n)
    BY <2>2 DEF Update
  <2> HIDE DEF n
  <2>8. Now' - (Now - k) = k + n /\ k + n \in 1..Capacity
    <3> HIDE DEF Now
    <3>1. Now' - (Now - k) = k + n
      BY <2>4, <2>5
    <3> QED
      BY <2>4, <3>1
  <2>9. CASE k = 0
    <3>1. Now' - (Now - k) = n /\ n \in 1..Capacity /\ 0 - k = 0
      BY <2>4, <2>8, <2>9
    <3>2. Slot(window'[s], n) = window[s].value
      BY <2>0, <2>6, <2>7, <3>1, SlotCloses
    <3> QED
      BY <3>1, <3>2 DEF Index
  <2>10. CASE k # 0
    <3>1. k \in 1..Capacity /\ k + n <= Capacity
      BY <2>4, <2>8, <2>10
    <3>2. Slot(window'[s], k + n) = Slot(window[s], k)
      BY <2>0, <2>4, <2>6, <2>7, <3>1, SlotMoves
    <3>3. Index(window[s], 0 - k) = Slot(window[s], k)
      BY <3>1 DEF Index
    <3> QED
      BY <2>8, <3>2, <3>3
  <2> QED
    BY <2>9, <2>10
<1> QED
  BY <1>1, <1>2, <1>3, PTL DEF Spec, ClosedSlotsStable
-----------------------------------------------------------------------------
(***************************************************************************)
(* The reference: what the history of events says of a slot                *)
(***************************************************************************)

\* The greatest element of a set is its Max, the least one its Min.
LEMMA MaxIs ==
  ASSUME NEW S \in SUBSET Int, NEW m \in S, \A y \in S : y <= m
  PROVE  Max(S) = m
<1>1. \A x \in S : (\A y \in S : x >= y) => x = m
  OBVIOUS
<1>2. \A y \in S : m >= y
  OBVIOUS
<1> QED
  BY <1>1, <1>2 DEF Max

LEMMA MinIs ==
  ASSUME NEW S \in SUBSET Int, NEW m \in S, \A y \in S : m <= y
  PROVE  Min(S) = m
<1>1. \A x \in S : (\A y \in S : x =< y) => x = m
  OBVIOUS
<1> QED
  BY <1>1 DEF Min

\* A set of event numbers has a least and a greatest element.
LEMMA NatMin ==
  ASSUME NEW S \in SUBSET Nat, S # {}
  PROVE  \E m \in S : \A y \in S : m <= y
<1>1. PICK m \in S : \A y \in S : ~(<<y, m>> \in OpToRel(<, Nat))
  BY NatLessThanWellFounded, WFMin
<1>2. \A y \in Nat : y < m => <<y, m>> \in OpToRel(<, Nat)
  BY Zenon DEF OpToRel
<1>3. \A y \in S : ~(y < m)
  BY <1>1, <1>2
<1> QED
  BY <1>3

LEMMA BoundedMax ==
  ASSUME NEW n \in Nat, NEW S \in SUBSET (1..n), S # {}
  PROVE  \E m \in S : \A y \in S : y <= m
<1> DEFINE U == {j \in Nat : \A y \in S : y <= j}
<1>1. U \in SUBSET Nat /\ n \in U
  OBVIOUS
<1>2. PICK m \in U : \A y \in U : m <= y
  BY <1>1, NatMin
<1>3. CASE m \in S
  BY <1>2, <1>3
<1>4. CASE m \notin S
  <2>1. \A y \in S : y \in Nat /\ y <= m /\ y # m
    BY <1>2, <1>4
  <2>2. m - 1 \in U
    <3>1. PICK y \in S : TRUE
      OBVIOUS
    <3>2. m \in Nat /\ y >= 1 /\ y <= m
      BY <1>2, <2>1, <3>1
    <3> QED
      BY <2>1, <3>2
  <2> QED
    BY <1>2, <2>2
<1> QED
  BY <1>3, <1>4

\* Max and Min of a set of event numbers are in it.
LEMMA EventBounds ==
  ASSUME NEW n \in Nat, NEW S \in SUBSET (1..n), S # {}
  PROVE  /\ Max(S) \in S /\ \A y \in S : y <= Max(S)
         /\ Min(S) \in S /\ \A y \in S : Min(S) <= y
<1>1. PICK m \in S : \A y \in S : y <= m
  BY BoundedMax
<1>2. S \in SUBSET Int /\ S \in SUBSET Nat
  OBVIOUS
<1>3. PICK l \in S : \A y \in S : l <= y
  BY <1>2, NatMin
<1>4. Max(S) = m /\ Min(S) = l
  BY <1>1, <1>2, <1>3, MaxIs, MinIs
<1> QED
  BY <1>1, <1>3, <1>4

\* The sums exist: they are built up one event at a time.
LEMMA SumsExist ==
  ASSUME NEW E, NEW N \in Nat
  PROVE  \E g : g = [i \in 0..N |-> IF i = 0 THEN 0 ELSE g[i - 1] + E[i].v]
<1> DEFINE Good(n) == \E g : g = [i \in 0..n |-> IF i = 0 THEN 0 ELSE g[i - 1] + E[i].v]
           Bad == {n \in Nat : ~Good(n)}
<1>1. Good(0)
  <2> DEFINE g == [i \in 0..0 |-> 0]
  <2>1. g = [i \in 0..0 |-> IF i = 0 THEN 0 ELSE g[i - 1] + E[i].v]
    OBVIOUS
  <2> QED
    BY <2>1
<1>2. ASSUME NEW n \in Nat, Good(n)
      PROVE  Good(n + 1)
  <2>1. PICK g : g = [i \in 0..n |-> IF i = 0 THEN 0 ELSE g[i - 1] + E[i].v]
    BY <1>2
  <2> DEFINE h == [i \in 0..(n + 1) |-> IF i <= n THEN g[i] ELSE g[n] + E[i].v]
  <2>2. ASSUME NEW i \in 0..(n + 1)
        PROVE  h[i] = IF i = 0 THEN 0 ELSE h[i - 1] + E[i].v
    <3>1. CASE i = 0
      <4>1. h[0] = g[0] /\ g[0] = 0
        BY <2>1
      <4> QED
        BY <3>1, <4>1
    <3>2. CASE i \in 1..n
      <4>1. h[i] = g[i] /\ h[i - 1] = g[i - 1]
        BY <3>2
      <4>2. g[i] = g[i - 1] + E[i].v
        BY <2>1, <3>2
      <4> QED
        BY <3>2, <4>1, <4>2
    <3>3. CASE i = n + 1
      <4>1. h[i] = g[n] + E[i].v /\ h[i - 1] = g[n] /\ i # 0
        BY <3>3
      <4> QED
        BY <4>1
    <3> QED
      BY <3>1, <3>2, <3>3
  <2> HIDE DEF h
  <2>3. h = [i \in 0..(n + 1) |-> h[i]]
    BY DEF h
  <2>4. h = [i \in 0..(n + 1) |-> IF i = 0 THEN 0 ELSE h[i - 1] + E[i].v]
    BY <2>2, <2>3
  <2> QED
    BY <2>4
<1>3. Bad = {}
  <2> SUFFICES ASSUME Bad # {} PROVE FALSE
    OBVIOUS
  <2> HIDE DEF Good
  <2>1. PICK m \in Bad : \A y \in Bad : m <= y
    BY NatMin
  <2>2. m \in Nat /\ ~Good(m) /\ m # 0
    BY <1>1, <2>1
  <2>3. m - 1 \in Nat /\ Good(m - 1)
    BY <2>1, <2>2
  <2>4. Good((m - 1) + 1)
    BY <1>2, <2>3
  <2>5. (m - 1) + 1 = m
    BY <2>2
  <2> QED
    BY <2>2, <2>4, <2>5
<1> HIDE DEF Good
<1>4. Good(N)
  BY <1>3
<1> QED
  BY <1>4 DEF Good

\* Sums is defined by its equation.
LEMMA SumsAre ==
  ASSUME NEW E, Len(E) \in Nat
  PROVE  /\ Sums(E)[0] = 0
         /\ \A i \in 1..Len(E) : Sums(E)[i] = Sums(E)[i - 1] + E[i].v
<1>1. PICK N : N = Len(E) /\ N \in Nat
  OBVIOUS
<1>2. \E g : g = [i \in 0..Len(E) |-> IF i = 0 THEN 0 ELSE g[i - 1] + E[i].v]
  BY <1>1, SumsExist
<1>3. Sums(E) = [i \in 0..Len(E) |-> IF i = 0 THEN 0 ELSE Sums(E)[i - 1] + E[i].v]
  BY Zenon, <1>2 DEF Sums
<1> HIDE <1>2
<1>4. 0 \in 0..Len(E) /\ \A i \in 1..Len(E) : i \in 0..Len(E) /\ i # 0
  OBVIOUS
<1>5. Sums(E)[0] = 0
  BY <1>3, <1>4
<1>6. ASSUME NEW i \in 1..Len(E)
      PROVE  Sums(E)[i] = Sums(E)[i - 1] + E[i].v
  BY <1>3, <1>4
<1> QED
  BY <1>5, <1>6

Event == [t : 1..MaxTime, v : Values]

\* F is E with more events at its end.
Extends(F, E) ==
  /\ E \in Seq(Event) /\ F \in Seq(Event)
  /\ Len(E) <= Len(F)
  /\ \A i \in 1..Len(E) : F[i] = E[i]

\* A slot has a number.
LEMMA BinType ==
  ASSUME NEW t \in Nat
  PROVE  Bin(t) \in Nat
  BY DEF Bin

\* What is known of the events of a sequence.
LEMMA EventFields ==
  ASSUME NEW E \in Seq(Event), NEW i \in 1..Len(E)
  PROVE  E[i].t \in Nat /\ E[i].v \in Int /\ Bin(E[i].t) \in Nat
<1>1. E[i] \in Event
  OBVIOUS
<1>2. E[i].t \in 1..MaxTime /\ E[i].v \in Values
  BY <1>1 DEF Event
<1>3. E[i].t \in Nat /\ E[i].v \in Int
  <2>1. 1..MaxTime \subseteq Nat /\ Values \subseteq Int
    OBVIOUS
  <2> QED
    BY Zenon, <1>2, <2>1
<1> QED
  BY <1>3, BinType

\* An event is added at the end.
LEMMA AppendExtends ==
  ASSUME NEW E \in Seq(Event), NEW e \in Event, NEW F, F = Append(E, e)
  PROVE  Extends(F, E) /\ Len(F) = Len(E) + 1 /\ F[Len(F)] = e
  BY DEF Extends

\* Later events do not change the sums.
LEMMA SumsSame ==
  ASSUME NEW E, NEW F, Extends(F, E), NEW i \in 0..Len(E)
  PROVE  Sums(F)[i] = Sums(E)[i]
<1> DEFINE Bad == {j \in 0..Len(E) : Sums(F)[j] # Sums(E)[j]}
<1>0. Len(E) \in Nat /\ Len(F) \in Nat
  BY DEF Extends
<1>1. /\ Sums(E)[0] = 0
      /\ \A j \in 1..Len(E) : Sums(E)[j] = Sums(E)[j - 1] + E[j].v
  BY <1>0, SumsAre
<1>2. /\ Sums(F)[0] = 0
      /\ \A j \in 1..Len(F) : Sums(F)[j] = Sums(F)[j - 1] + F[j].v
  BY <1>0, SumsAre
<1>3. \A j \in 1..Len(E) : j \in 1..Len(F) /\ F[j] = E[j]
  BY <1>0 DEF Extends
<1>4. Bad = {}
  <2> SUFFICES ASSUME Bad # {} PROVE FALSE
    OBVIOUS
  <2>0. Bad \in SUBSET Nat
    BY <1>0
  <2>1. PICK m \in Bad : \A y \in Bad : m <= y
    BY <2>0, NatMin
  <2>2. m \in 1..Len(E) /\ m - 1 \in 0..Len(E)
    BY <1>0, <1>1, <1>2, <2>1
  <2>3. Sums(F)[m - 1] = Sums(E)[m - 1]
    BY <2>1, <2>2
  <2>4. /\ Sums(E)[m] = Sums(E)[m - 1] + E[m].v
        /\ Sums(F)[m] = Sums(F)[m - 1] + F[m].v
        /\ F[m] = E[m]
    BY <1>1, <1>2, <1>3, <2>2
  <2> QED
    BY <2>1, <2>3, <2>4
<1> QED
  BY <1>4

\* The sums are numbers.
LEMMA SumsType ==
  ASSUME NEW E \in Seq(Event), NEW i \in 0..Len(E)
  PROVE  Sums(E)[i] \in Int
<1> DEFINE Bad == {j \in 0..Len(E) : Sums(E)[j] \notin Int}
<1>1. /\ Sums(E)[0] = 0
      /\ \A j \in 1..Len(E) : Sums(E)[j] = Sums(E)[j - 1] + E[j].v
  BY SumsAre
<1>2. Bad = {}
  <2> SUFFICES ASSUME Bad # {} PROVE FALSE
    OBVIOUS
  <2>0. Bad \in SUBSET Nat
    OBVIOUS
  <2>1. PICK m \in Bad : \A y \in Bad : m <= y
    BY <2>0, NatMin
  <2>2. m \in 1..Len(E) /\ m - 1 \in 0..Len(E)
    BY <1>1, <2>1
  <2>3. Sums(E)[m - 1] \in Int /\ E[m].v \in Int
    BY <2>1, <2>2, EventFields
  <2> QED
    BY <1>1, <2>1, <2>2, <2>3
<1> QED
  BY <1>2

\* What a slot should hold depends only on the events up to it.
LEMMA ExpectedSame ==
  ASSUME NEW E, NEW F, Extends(F, E), NEW n \in Nat, NEW m \in Nat, NEW b \in Int,
         NEW a \in Int, n <= Len(E), UpTo(F, m, a) = UpTo(E, n, b), NEW s \in Series
  PROVE  Expected(F, s, m, a) = Expected(E, s, n, b)
<1> DEFINE u == UpTo(E, n, b)
           e == Latest(E, n, b)
<1>0. Len(E) \in Nat /\ Len(F) \in Nat
  BY DEF Extends
<1>1. u \in SUBSET (1..n) /\ u \in SUBSET (1..Len(E))
  BY <1>0 DEF UpTo
<1>2. CASE u = {}
  BY <1>2 DEF Expected
<1>3. CASE u # {}
  <2>1. Max(u) \in u
    BY <1>1, <1>3, EventBounds
  <2>2. \A i \in u : F[i] = E[i]
    BY <1>1 DEF Extends
  <2>3. Latest(F, m, a) = e
    BY <2>1, <2>2 DEF Latest
  <2>4. e \in SUBSET u /\ Max(u) \in e
    BY <2>1 DEF Latest
  <2>5. e \in SUBSET (1..Len(E)) /\ e # {}
    BY <1>1, <2>4
  <2>6. Max(e) \in e /\ Min(e) \in e
    BY <1>0, <2>5, EventBounds
  <2> HIDE DEF u, e
  <2>7. F[Max(e)] = E[Max(e)] /\ F[Min(e)] = E[Min(e)]
    BY <2>2, <2>4, <2>6
  <2>8. {F[i].v : i \in e} = {E[i].v : i \in e}
    BY <2>2, <2>4
  <2>9. Max(e) \in 0..Len(E) /\ Min(e) - 1 \in 0..Len(E)
    <3>1. Max(e) \in 1..Len(E) /\ Min(e) \in 1..Len(E)
      BY <2>5, <2>6
    <3> QED
      BY <1>0, <3>1
  <2>10. /\ Sums(F)[Max(e)] = Sums(E)[Max(e)]
         /\ Sums(F)[Min(e) - 1] = Sums(E)[Min(e) - 1]
    BY <2>9, SumsSame
  <2>11. Expected(F, s, m, a) =
           CASE s = "open"  -> F[Min(e)].v
             [] s = "close" -> F[Max(e)].v
             [] s = "high"  -> Max({F[i].v : i \in e})
             [] s = "low"   -> Min({F[i].v : i \in e})
             [] s = "avg"   -> (Sums(F)[Max(e)] - Sums(F)[Min(e) - 1])
                                 \div (Max(e) - Min(e) + 1)
    BY Zenon, <1>3, <2>3 DEF Expected, u
  <2>12. Expected(E, s, n, b) =
           CASE s = "open"  -> E[Min(e)].v
             [] s = "close" -> E[Max(e)].v
             [] s = "high"  -> Max({E[i].v : i \in e})
             [] s = "low"   -> Min({E[i].v : i \in e})
             [] s = "avg"   -> (Sums(E)[Max(e)] - Sums(E)[Min(e) - 1])
                                 \div (Max(e) - Min(e) + 1)
    BY Zenon, <1>3 DEF Expected, u, e
  <2> QED
    BY Zenon, <2>7, <2>8, <2>10, <2>11, <2>12
<1> QED
  BY <1>2, <1>3

\* The events of the newest slot of E are those from m on.
Newest(E, m) ==
  /\ E \in Seq(Event)
  /\ m \in 1..Len(E)
  /\ \A i \in 1..Len(E) : /\ Bin(E[i].t) <= Bin(E[Len(E)].t)
                          /\ Bin(E[i].t) = Bin(E[Len(E)].t) <=> m <= i

\* From the newest slot on, the events that count are those of the newest slot.
LEMMA NewestIs ==
  ASSUME NEW E, NEW m, Newest(E, m), NEW b \in Int, Bin(E[Len(E)].t) <= b
  PROVE  /\ UpTo(E, Len(E), b) = 1..Len(E)
         /\ Max(UpTo(E, Len(E), b)) = Len(E)
         /\ Latest(E, Len(E), b) = m..Len(E)
         /\ Max(m..Len(E)) = Len(E)
         /\ Min(m..Len(E)) = m
<1>1. PICK N : N = Len(E)
  OBVIOUS
<1>2. N \in Nat /\ m \in 1..N /\ N \in 1..N
  BY <1>1 DEF Newest
<1>3. \A i \in 1..N : Bin(E[i].t) \in Nat
  BY <1>1, EventFields DEF Newest
<1>4. \A i \in 1..N : /\ Bin(E[i].t) <= Bin(E[N].t)
                      /\ Bin(E[i].t) = Bin(E[N].t) <=> m <= i
  BY <1>1 DEF Newest
<1>5. UpTo(E, N, b) = 1..N
  BY <1>1, <1>2, <1>3, <1>4 DEF UpTo
<1>6. Max(1..N) = N
  <2>1. 1..N \in SUBSET Int /\ \A y \in 1..N : y <= N
    BY <1>2
  <2> QED
    BY <1>2, <2>1, MaxIs
<1>7. Latest(E, N, b) = m..N
  <2>1. Latest(E, N, b) = {i \in 1..N : Bin(E[i].t) = Bin(E[N].t)}
    BY <1>5, <1>6 DEF Latest
  <2> QED
    BY <1>2, <1>4, <2>1
<1>8. /\ m..N \in SUBSET Int /\ m \in m..N /\ N \in m..N
      /\ \A y \in m..N : m <= y /\ y <= N
  BY <1>2
<1>9. Max(m..N) = N /\ Min(m..N) = m
  BY <1>8, MaxIs, MinIs
<1> QED
  BY <1>1, <1>5, <1>6, <1>7, <1>9

\* What the newest slot should hold, as long as nothing comes.
LEMMA ExpectedNewest ==
  ASSUME NEW E, NEW m, Newest(E, m), NEW b \in Int, Bin(E[Len(E)].t) <= b
  PROVE  /\ Expected(E, "open", Len(E), b) = E[m].v
         /\ Expected(E, "close", Len(E), b) = E[Len(E)].v
         /\ Expected(E, "high", Len(E), b) = Max({E[i].v : i \in m..Len(E)})
         /\ Expected(E, "low", Len(E), b) = Min({E[i].v : i \in m..Len(E)})
         /\ Expected(E, "avg", Len(E), b) =
              (Sums(E)[Len(E)] - Sums(E)[m - 1]) \div (Len(E) - m + 1)
<1>1. PICK N : N = Len(E)
  OBVIOUS
<1>2. m \in UpTo(E, N, b)
  BY <1>1, NewestIs DEF Newest
<1>3. UpTo(E, N, b) # {}
  BY <1>2
<1>4. Latest(E, N, b) = m..N /\ Max(m..N) = N /\ Min(m..N) = m
  BY <1>1, NewestIs
<1>5. ASSUME NEW s
      PROVE  Expected(E, s, N, b) =
           CASE s = "open"  -> E[m].v
             [] s = "close" -> E[N].v
             [] s = "high"  -> Max({E[i].v : i \in m..N})
             [] s = "low"   -> Min({E[i].v : i \in m..N})
             [] s = "avg"   -> (Sums(E)[N] - Sums(E)[m - 1]) \div (N - m + 1)
  BY Zenon, <1>3, <1>4 DEF Expected
<1>6. /\ Expected(E, "open", N, b) = E[m].v
      /\ Expected(E, "close", N, b) = E[N].v
      /\ Expected(E, "high", N, b) = Max({E[i].v : i \in m..N})
      /\ Expected(E, "low", N, b) = Min({E[i].v : i \in m..N})
      /\ Expected(E, "avg", N, b) = (Sums(E)[N] - Sums(E)[m - 1]) \div (N - m + 1)
  BY <1>5
<1> QED
  BY <1>1, <1>6

\* E and F say the same of slot b.
SameSlot(F, E, b) ==
  /\ UpTo(F, Len(F), b) = UpTo(E, Len(E), b)
  /\ \A s \in Series : Expected(F, s, Len(F), b) = Expected(E, s, Len(E), b)
  /\ \A d \in Derived : ExpectedDerived(F, d, b) = ExpectedDerived(E, d, b)

\* Slots before that of a new event keep what they should hold.
LEMMA EarlierSlots ==
  ASSUME NEW E \in Seq(Event), NEW e \in Event, NEW F, F = Append(E, e),
         NEW b \in Int, b < Bin(e.t)
  PROVE  SameSlot(F, E, b)
<1>0. Extends(F, E) /\ Len(F) = Len(E) + 1 /\ F[Len(F)] = e
  BY AppendExtends
<1>1. PICK N : N = Len(E) /\ N \in Nat /\ Len(F) = N + 1
  BY <1>0
<1>2. UpTo(F, N + 1, b) = UpTo(E, N, b)
  <2>1. \A i \in 1..N : F[i] = E[i]
    BY <1>0, <1>1 DEF Extends
  <2>2. Bin(e.t) \in Int
    BY DEF Bin, Event
  <2>3. ~(Bin(F[N + 1].t) <= b)
    BY <1>0, <1>1, <2>2
  <2> QED
    BY <1>1, <2>1, <2>3 DEF UpTo
<1>3. ASSUME NEW s \in Series
      PROVE  Expected(F, s, N + 1, b) = Expected(E, s, N, b)
  BY <1>0, <1>1, <1>2, ExpectedSame
<1>4. ASSUME NEW d \in Derived
      PROVE  ExpectedDerived(F, d, b) = ExpectedDerived(E, d, b)
  <2> DEFINE u == UpTo(E, N, b)
  <2>1. CASE u = {}
    BY <1>1, <1>2, <2>1 DEF ExpectedDerived
  <2>2. CASE u # {}
    <3>1. u \in SUBSET (1..N)
      BY DEF UpTo
    <3>2. Max(u) \in u
      BY <1>1, <2>2, <3>1, EventBounds
    <3>3. PICK n \in 1..N : n = Max(u)
      BY <3>1, <3>2
    <3>4. F[n] = E[n] /\ Bin(E[n].t) \in Nat
      BY <1>0, <1>1, <3>3, EventFields DEF Extends
    <3>5. PICK c \in Int : c = Bin(E[n].t)
      BY <3>4
    <3>6. Length \in Nat
      BY DEF Length
    <3>7. ASSUME NEW j \in 1..Length
          PROVE  Expected(F, "close", n, c - (Length - j)) =
                   Expected(E, "close", n, c - (Length - j))
      <4>1. PICK a \in Int : a = c - (Length - j)
        BY <3>5, <3>6
      <4>2. UpTo(F, n, a) = UpTo(E, n, a)
        <5>1. \A i \in 1..n : F[i] = E[i]
          BY <1>0, <1>1, <3>3 DEF Extends
        <5> QED
          BY <5>1 DEF UpTo
      <4>3. "close" \in Series /\ n \in Nat /\ n <= Len(E)
        BY <1>1, <3>3 DEF Series, Bar
      <4>4. Expected(F, "close", n, a) = Expected(E, "close", n, a)
        BY <1>0, <4>2, <4>3, ExpectedSame
      <4> QED
        BY <4>1, <4>4
    <3> DEFINE closesF == [j \in 1..Length |-> Expected(F, "close", n, c - (Length - j))]
               closesE == [j \in 1..Length |-> Expected(E, "close", n, c - (Length - j))]
               times   == [j \in 1..Length |-> (c - (Length - j)) * Interval]
    <3>8. closesF = closesE
      BY <3>7
    <3>9. ExpectedDerived(F, d, b) =
            IF d = "apply2" THEN SampleOp(times, closesF) ELSE Op(closesF)
      BY Zenon, <1>1, <1>2, <2>2, <3>3, <3>4, <3>5 DEF ExpectedDerived
    <3>10. ExpectedDerived(E, d, b) =
            IF d = "apply2" THEN SampleOp(times, closesE) ELSE Op(closesE)
      BY Zenon, <1>1, <2>2, <3>3, <3>5 DEF ExpectedDerived
    <3> HIDE DEF closesF, closesE, times
    <3> QED
      BY Zenon, <3>8, <3>9, <3>10
  <2> QED
    BY <2>1, <2>2
<1> QED
  BY <1>1, <1>2, <1>3, <1>4 DEF SameSlot
-----------------------------------------------------------------------------
(***************************************************************************)
(* The windows hold what the reference says                                *)
(***************************************************************************)

\* The oldest slot moves round the ring at most once if few slots are closed.
LEMMA AdvanceOnce ==
  ASSUME NEW first \in 0..(Capacity - 1), NEW n \in Nat, n < Capacity
  PROVE  Advance(first, n) = IF first + n < Capacity THEN first + n
                                                     ELSE first + n - Capacity
<1>1. CASE first + n < Capacity
  BY <1>1, ModSmall DEF Advance
<1>2. CASE ~(first + n < Capacity)
  <2>1. first + n \in Capacity..(2 * Capacity - 1)
    BY <1>2
  <2>2. (first + n) % Capacity = first + n - Capacity
    BY <2>1, ModWrap
  <2> QED
    BY <1>2, <2>2 DEF Advance
<1> QED
  BY <1>1, <1>2

\* After n slots were closed the newest n hold the value that was current, the
\* others the value they had.
LEMMA SlotAfter ==
  ASSUME NEW w \in Window, NEW n \in Nat, NEW k \in 1..Capacity, NEW u \in Window,
         u.buffer = PushBack(w, n), u.first = Advance(w.first, n)
  PROVE  Slot(u, k) = IF k <= n THEN w.value ELSE Slot(w, k - n)
<1>0. w.first \in 0..(Capacity - 1) /\ u.first \in 0..(Capacity - 1)
  BY DEF Window, Positions
<1>1. CASE k > n
  <2>1. k - n \in 1..Capacity /\ (k - n) + n <= Capacity /\ (k - n) + n = k
    BY <1>1
  <2>2. Slot(u, (k - n) + n) = Slot(w, k - n)
    BY <2>1, SlotMoves
  <2> QED
    BY <1>1, <2>1, <2>2
<1>2. CASE k <= n
  <2> DEFINE p == IF k <= u.first THEN u.first - k ELSE u.first + Capacity - k
  <2>1. p \in Positions /\ Slot(u, k) = u.buffer[p]
    BY <1>0, SlotPosition DEF Positions
  <2>2. (p + Capacity - w.first) % Capacity < n
    <3>1. CASE n >= Capacity
      <4>1. p + Capacity - w.first \in Nat
        BY <1>0, <2>1 DEF Positions
      <4>2. (p + Capacity - w.first) % Capacity \in 0..(Capacity - 1)
        BY <4>1, ModRange
      <4> QED
        BY <3>1, <4>2
    <3>2. CASE n < Capacity
      <4>1. u.first = IF w.first + n < Capacity THEN w.first + n
                                               ELSE w.first + n - Capacity
        BY <1>0, <3>2, AdvanceOnce
      <4>2. \/ p + Capacity - w.first = n - k
            \/ p + Capacity - w.first = n - k + Capacity
        BY <1>0, <1>2, <3>2, <4>1
      <4>3. n - k \in 0..(Capacity - 1)
        BY <1>2, <3>2
      <4>4. (n - k) % Capacity = n - k
        BY <4>3, ModSmall
      <4>5. (n - k + Capacity) % Capacity = n - k
        <5>1. n - k + Capacity \in Capacity..(2 * Capacity - 1)
          BY <4>3
        <5>2. (n - k + Capacity) % Capacity = n - k + Capacity - Capacity
          BY <5>1, ModWrap
        <5> QED
          BY <4>3, <5>2
      <4>6. (p + Capacity - w.first) % Capacity = n - k
        BY <4>2, <4>4, <4>5
      <4> QED
        BY <4>6
    <3> QED
      BY <3>1, <3>2
  <2> HIDE DEF p
  <2>3. u.buffer[p] = w.value
    BY <2>1, <2>2 DEF PushBack
  <2> QED
    BY <1>2, <2>1, <2>3
<1> QED
  BY <1>1, <1>2

\* The slots of w, which is in slot c, hold what R says.
Matches(w, R, c) == \A k \in 0..Capacity : Index(w, 0 - k) = R[c - k]

\* R says the same of slot c and those after it.
Steady(R, c) == \A b \in Int : c <= b => R[b] = R[c]

\* R2 says of the slots before c what R says.
AgreeBefore(R2, R, c) == \A b \in Int : b < c => R2[b] = R[b]

\* A window w whose slots hold what R says of each slot up to c, the current one,
\* holds after an event in slot c2 what R2 says, if the event is in a slot not
\* before c and changes nothing of what earlier slots should hold.
LEMMA SlotsFollow ==
  ASSUME NEW w \in Window, NEW u \in Window, NEW c \in Int, NEW c2 \in Int, c <= c2,
         u.buffer = PushBack(w, c2 - c), u.first = Advance(w.first, c2 - c),
         NEW R, NEW R2,
         Matches(w, R, c), Steady(R, c), AgreeBefore(R2, R, c2),
         NEW k \in 1..Capacity
  PROVE  Index(u, 0 - k) = R2[c2 - k]
<1>1. c2 - c \in Nat
  OBVIOUS
<1>2. Slot(u, k) = IF k <= c2 - c THEN w.value ELSE Slot(w, k - (c2 - c))
  BY <1>1, SlotAfter
<1>3. Index(u, 0 - k) = Slot(u, k)
  <2>1. 0 - k < 0 /\ 0 - (0 - k) = k
    OBVIOUS
  <2> QED
    BY <2>1 DEF Index
<1>4. R2[c2 - k] = R[c2 - k]
  BY DEF AgreeBefore
<1>5. CASE k <= c2 - c
  <2>1. R[c2 - k] = R[c]
    BY <1>5 DEF Steady
  <2>2. Index(w, 0) = w.value
    BY DEF Index
  <2>3. R[c] = w.value
    <3>1. 0 \in 0..Capacity /\ 0 - 0 = 0 /\ c - 0 = c
      OBVIOUS
    <3>2. Index(w, 0 - 0) = R[c - 0]
      BY <3>1 DEF Matches
    <3> QED
      BY <2>2, <3>1, <3>2
  <2> QED
    BY <1>2, <1>3, <1>4, <1>5, <2>1, <2>3
<1>6. CASE ~(k <= c2 - c)
  <2> DEFINE j == k - (c2 - c)
  <2>1. j \in 1..Capacity /\ j \in 0..Capacity /\ c - j = c2 - k
    BY <1>1, <1>6
  <2>2. Index(w, 0 - j) = R[c - j]
    BY <2>1 DEF Matches
  <2>3. Index(w, 0 - j) = Slot(w, j)
    <3>1. 0 - j < 0 /\ 0 - (0 - j) = j
      BY <2>1
    <3> QED
      BY <3>1 DEF Index
  <2> QED
    BY <1>2, <1>3, <1>4, <1>6, <2>1, <2>2, <2>3
<1> QED
  BY <1>5, <1>6

\* The current values of the windows W are the samples of the events from m on.
SlotHolds(E, W, m) ==
  /\ W["open"].value = E[m].v /\ W["open"].open_ = E[m].v
  /\ W["close"].value = E[Len(E)].v
  /\ \E i \in m..Len(E) : W["high"].value = E[i].v
  /\ \A i \in m..Len(E) : E[i].v <= W["high"].value
  /\ \E i \in m..Len(E) : W["low"].value = E[i].v
  /\ \A i \in m..Len(E) : W["low"].value <= E[i].v
  /\ W["avg"].sum = Sums(E)[Len(E)] - Sums(E)[m - 1]
  /\ W["avg"].count = Len(E) - m + 1
  /\ W["avg"].value = W["avg"].sum \div W["avg"].count

\* Such values are what the reference expects.
LEMMA HoldsExpected ==
  ASSUME NEW E, NEW W, NEW m, Newest(E, m), SlotHolds(E, W, m),
         NEW b \in Int, Bin(E[Len(E)].t) <= b, NEW s \in Series
  PROVE  W[s].value = Expected(E, s, Len(E), b)
<1>1. PICK N : N = Len(E)
  OBVIOUS
<1> DEFINE V == {E[i].v : i \in m..N}
<1>2. E \in Seq(Event) /\ N \in Nat /\ m \in 1..N
  BY <1>1 DEF Newest
<1>3. \A i \in m..N : E[i].v \in Int
  BY <1>1, <1>2, EventFields
<1>4. V \in SUBSET Int
  BY <1>3
<1>5. Max(V) = W["high"].value
  <2>1. /\ \E i \in m..N : W["high"].value = E[i].v
        /\ \A i \in m..N : E[i].v <= W["high"].value
    BY <1>1 DEF SlotHolds
  <2>2. W["high"].value \in V /\ \A y \in V : y <= W["high"].value
    BY <2>1
  <2> HIDE DEF V
  <2> QED
    BY <1>4, <2>2, MaxIs
<1>6. Min(V) = W["low"].value
  <2>1. /\ \E i \in m..N : W["low"].value = E[i].v
        /\ \A i \in m..N : W["low"].value <= E[i].v
    BY <1>1 DEF SlotHolds
  <2>2. W["low"].value \in V /\ \A y \in V : W["low"].value <= y
    BY <2>1
  <2> HIDE DEF V
  <2> QED
    BY <1>4, <2>2, MinIs
<1>7. /\ Expected(E, "open", N, b) = E[m].v
      /\ Expected(E, "close", N, b) = E[N].v
      /\ Expected(E, "high", N, b) = Max(V)
      /\ Expected(E, "low", N, b) = Min(V)
      /\ Expected(E, "avg", N, b) = (Sums(E)[N] - Sums(E)[m - 1]) \div (N - m + 1)
  BY <1>1, ExpectedNewest
<1>8. /\ W["open"].value = E[m].v
      /\ W["close"].value = E[N].v
      /\ W["avg"].value = (Sums(E)[N] - Sums(E)[m - 1]) \div (N - m + 1)
  BY <1>1 DEF SlotHolds
<1> HIDE DEF V
<1> QED
  BY <1>1, <1>5, <1>6, <1>7, <1>8 DEF Series, Bar

\* The windows W after an event.
Fed(W, t, v) == [s \in Series |-> Update(s, W[s], t, v)]

\* The first event of a slot.
LEMMA NewSlotHolds ==
  ASSUME NEW E \in Seq(Event), NEW t \in 1..MaxTime, NEW v \in Values, NEW F,
         F = Append(E, [t |-> t, v |-> v]), NEW W \in [Series -> Window],
         \A s \in Series : NewPeriod(W[s], t),
         \A i \in 1..Len(E) : Bin(E[i].t) < Bin(t)
  PROVE  Newest(F, Len(F)) /\ SlotHolds(F, Fed(W, t, v), Len(F))
<1>1. [t |-> t, v |-> v] \in Event
  BY DEF Event
<1>2. Extends(F, E) /\ Len(F) = Len(E) + 1 /\ F[Len(F)] = [t |-> t, v |-> v]
  BY <1>1, AppendExtends
<1>3. PICK N : N = Len(E) /\ N \in Nat /\ Len(F) = N + 1
  BY <1>2
<1>4. F[N + 1].t = t /\ F[N + 1].v = v /\ v \in Int
  BY <1>2, <1>3
<1>5. Newest(F, N + 1)
  <2>1. \A i \in 1..N : F[i] = E[i] /\ Bin(E[i].t) \in Nat
    BY <1>2, <1>3, EventFields DEF Extends
  <2>2. Bin(t) \in Nat /\ Bin(F[N + 1].t) = Bin(t)
    <3>1. t \in Nat
      OBVIOUS
    <3> QED
      BY <1>4, <3>1, BinType
  <2>3. ASSUME NEW i \in 1..(N + 1)
        PROVE  /\ Bin(F[i].t) <= Bin(F[N + 1].t)
               /\ Bin(F[i].t) = Bin(F[N + 1].t) <=> N + 1 <= i
    <3>1. CASE i \in 1..N
      <4>1. Bin(F[i].t) < Bin(t) /\ Bin(F[i].t) \in Nat
        BY <1>3, <2>1, <3>1
      <4>2. ~(N + 1 <= i)
        BY <1>3, <3>1
      <4>3. PICK x \in Nat, y \in Nat : x = Bin(F[i].t) /\ y = Bin(F[N + 1].t) /\ x < y
        BY <2>2, <4>1
      <4>4. x <= y /\ x # y
        BY ONLY <4>3
      <4> QED
        BY <4>2, <4>3, <4>4
    <3>2. CASE i = N + 1
      BY <1>3, <1>4, <2>2, <3>2
    <3> QED
      BY <1>3, <3>1, <3>2
  <2>4. F \in Seq(Event) /\ N + 1 \in 1..(N + 1)
    BY <1>2, <1>3 DEF Extends
  <2> QED
    BY <1>3, <2>3, <2>4 DEF Newest
<1>6. ASSUME NEW s \in Series
      PROVE  /\ Fed(W, t, v)[s].value = Sample(s, W[s], TRUE, v)
             /\ Fed(W, t, v)[s].open_ = v
             /\ Fed(W, t, v)[s].count = 1
             /\ Fed(W, t, v)[s].sum = v
  <2>1. Fed(W, t, v)[s] = Update(s, W[s], t, v)
    BY DEF Fed
  <2>2. NewPeriod(W[s], t) = TRUE
    BY DEF NewPeriod
  <2> DEFINE new == NewPeriod(W[s], t)
             w == W[s]
  <2>3. /\ Update(s, w, t, v).value = Sample(s, w, new, v)
        /\ Update(s, w, t, v).open_ = IF new THEN v ELSE w.open_
        /\ Update(s, w, t, v).count = IF new THEN 1 ELSE w.count + 1
        /\ Update(s, w, t, v).sum = IF new THEN v ELSE w.sum + v
    BY UpdateFields
  <2> HIDE DEF new
  <2>4. new = TRUE
    BY <2>2 DEF new
  <2> QED
    BY <2>1, <2>3, <2>4
<1>7. \A s \in Series : Sample(s, W[s], TRUE, v) = v
  BY DEF Sample, Series, Bar
<1>8. Sums(F)[N + 1] = Sums(F)[N] + v /\ Sums(F)[N] \in Int
  <2>1. F \in Seq(Event) /\ N + 1 \in 1..Len(F) /\ N \in 0..Len(F)
    BY <1>2, <1>3 DEF Extends
  <2>2. Sums(F)[N + 1] = Sums(F)[N + 1 - 1] + F[N + 1].v
    <3>1. Len(F) \in Nat
      BY <1>3
    <3>2. \A i \in 1..Len(F) : Sums(F)[i] = Sums(F)[i - 1] + F[i].v
      BY <3>1, SumsAre
    <3> QED
      BY <2>1, <3>2
  <2>3. Sums(F)[N] \in Int
    BY <2>1, SumsType
  <2>4. N + 1 - 1 = N
    BY <1>3
  <2> QED
    BY <1>4, <2>2, <2>3, <2>4
<1>9. v \div 1 = v
  BY <1>4
<1>10. /\ Fed(W, t, v)["open"].value = v /\ Fed(W, t, v)["open"].open_ = v
       /\ Fed(W, t, v)["close"].value = v
       /\ Fed(W, t, v)["high"].value = v
       /\ Fed(W, t, v)["low"].value = v
       /\ Fed(W, t, v)["avg"].value = v
       /\ Fed(W, t, v)["avg"].sum = v
       /\ Fed(W, t, v)["avg"].count = 1
  BY <1>6, <1>7 DEF Series, Bar
<1>11. (N + 1)..(N + 1) = {N + 1} /\ (N + 1) - 1 = N /\ (N + 1) - (N + 1) + 1 = 1
  BY <1>3
<1>12. (Sums(F)[N] + v) - Sums(F)[N] = v
  BY <1>4, <1>8
<1>13. v <= v
  BY <1>4
<1>14. SlotHolds(F, Fed(W, t, v), N + 1)
  BY <1>3, <1>4, <1>8, <1>9, <1>10, <1>11, <1>12, <1>13 DEF SlotHolds
<1> QED
  BY <1>3, <1>5, <1>14

\* Another event of the current slot.
LEMMA SameSlotHolds ==
  ASSUME NEW E, NEW m, Newest(E, m), NEW W \in [Series -> Window], SlotHolds(E, W, m),
         NEW t \in 1..MaxTime, NEW v \in Values, NEW F,
         F = Append(E, [t |-> t, v |-> v]),
         \A s \in Series : ~NewPeriod(W[s], t),
         Bin(E[Len(E)].t) = Bin(t)
  PROVE  Newest(F, m) /\ SlotHolds(F, Fed(W, t, v), m)
<1>0. E \in Seq(Event)
  BY DEF Newest
<1>1. [t |-> t, v |-> v] \in Event
  BY DEF Event
<1>2. Extends(F, E) /\ Len(F) = Len(E) + 1 /\ F[Len(F)] = [t |-> t, v |-> v]
  BY <1>0, <1>1, AppendExtends
<1>3. PICK N : N = Len(E) /\ N \in Nat /\ Len(F) = N + 1
  BY <1>0, <1>2
<1>4. F[N + 1].t = t /\ F[N + 1].v = v /\ v \in Int
  BY <1>2, <1>3
<1>5. m \in 1..N /\ N \in 1..N /\ \A i \in 1..N : F[i] = E[i]
  BY <1>2, <1>3 DEF Newest, Extends
<1>6. Newest(F, m)
  <2>1. \A i \in 1..N : /\ Bin(F[i].t) <= Bin(t)
                        /\ Bin(F[i].t) = Bin(t) <=> m <= i
    BY <1>3, <1>5 DEF Newest
  <2>2. Bin(t) \in Nat /\ Bin(F[N + 1].t) = Bin(t)
    <3>1. t \in Nat
      OBVIOUS
    <3> QED
      BY <1>4, <3>1, BinType
  <2>3. m <= N + 1 /\ m \in 1..(N + 1) /\ \A i \in 1..(N + 1) : i \in 1..N \/ i = N + 1
    BY <1>3, <1>5
  <2>4. Bin(t) <= Bin(t)
    BY ONLY <2>2
  <2>5. \A i \in 1..(N + 1) : /\ Bin(F[i].t) <= Bin(F[N + 1].t)
                              /\ Bin(F[i].t) = Bin(F[N + 1].t) <=> m <= i
    BY ONLY <2>1, <2>2, <2>3, <2>4
  <2> QED
    BY <1>2, <1>3, <2>3, <2>5 DEF Newest, Extends
<1>7. ASSUME NEW s \in Series
      PROVE  /\ Fed(W, t, v)[s].value = Sample(s, W[s], FALSE, v)
             /\ Fed(W, t, v)[s].open_ = W[s].open_
             /\ Fed(W, t, v)[s].count = W[s].count + 1
             /\ Fed(W, t, v)[s].sum = W[s].sum + v
  <2>1. Fed(W, t, v)[s] = Update(s, W[s], t, v)
    BY DEF Fed
  <2>2. NewPeriod(W[s], t) = FALSE
    BY DEF NewPeriod
  <2> DEFINE new == NewPeriod(W[s], t)
             w == W[s]
  <2>3. /\ Update(s, w, t, v).value = Sample(s, w, new, v)
        /\ Update(s, w, t, v).open_ = IF new THEN v ELSE w.open_
        /\ Update(s, w, t, v).count = IF new THEN 1 ELSE w.count + 1
        /\ Update(s, w, t, v).sum = IF new THEN v ELSE w.sum + v
    BY UpdateFields
  <2> HIDE DEF new
  <2>4. new = FALSE
    BY <2>2 DEF new
  <2> QED
    BY <2>1, <2>3, <2>4
<1>8. /\ Fed(W, t, v)["open"].value = W["open"].open_
      /\ Fed(W, t, v)["open"].open_ = W["open"].open_
      /\ Fed(W, t, v)["close"].value = v
      /\ Fed(W, t, v)["high"].value = Larger(W["high"].value, v)
      /\ Fed(W, t, v)["low"].value = Smaller(W["low"].value, v)
      /\ Fed(W, t, v)["avg"].value = (W["avg"].sum + v) \div (W["avg"].count + 1)
      /\ Fed(W, t, v)["avg"].sum = W["avg"].sum + v
      /\ Fed(W, t, v)["avg"].count = W["avg"].count + 1
  <2>1. \A s \in Series :
          /\ Fed(W, t, v)[s].value = Sample(s, W[s], FALSE, v)
          /\ Fed(W, t, v)[s].open_ = W[s].open_
          /\ Fed(W, t, v)[s].count = W[s].count + 1
          /\ Fed(W, t, v)[s].sum = W[s].sum + v
    BY <1>7
  <2> QED
    BY ONLY <2>1 DEF Sample, Series, Bar
<1>9. /\ Sums(F)[N + 1] = Sums(E)[N] + v /\ Sums(F)[m - 1] = Sums(E)[m - 1]
      /\ Sums(E)[N] \in Int /\ Sums(E)[m - 1] \in Int
  <2>1. N + 1 \in 1..Len(F) /\ N \in 0..Len(E) /\ m - 1 \in 0..Len(E) /\ N + 1 - 1 = N
    BY <1>3, <1>5
  <2>2. \A i \in 1..Len(F) : Sums(F)[i] = Sums(F)[i - 1] + F[i].v
    <3>1. Len(F) \in Nat
      BY <1>3
    <3> QED
      BY <3>1, SumsAre
  <2>3. Sums(F)[N] = Sums(E)[N] /\ Sums(F)[m - 1] = Sums(E)[m - 1]
    BY <1>2, <2>1, SumsSame
  <2>4. Sums(E)[N] \in Int /\ Sums(E)[m - 1] \in Int
    BY <1>0, <2>1, SumsType
  <2>5. Sums(F)[N + 1] = Sums(F)[N + 1 - 1] + F[N + 1].v
    BY <2>1, <2>2
  <2> QED
    BY <1>4, <2>1, <2>3, <2>4, <2>5
<1>10. \A i \in m..(N + 1) : i \in m..N \/ i = N + 1
  BY <1>3, <1>5
<1>11. /\ m \in m..(N + 1) /\ N + 1 \in m..(N + 1)
       /\ \A i \in m..N : i \in m..(N + 1) /\ F[i] = E[i]
  BY <1>3, <1>5
<1>12. \A i \in m..N : E[i].v \in Int
  BY <1>0, <1>3, <1>5, EventFields
<1>13. /\ \E i \in m..(N + 1) : Larger(W["high"].value, v) = F[i].v
       /\ \A i \in m..(N + 1) : F[i].v <= Larger(W["high"].value, v)
  <2>1. PICK h \in Int : /\ h = W["high"].value
                         /\ \E i \in m..N : h = E[i].v
                         /\ \A i \in m..N : E[i].v <= h
    BY <1>3, <1>12 DEF SlotHolds
  <2>2. v <= Larger(h, v) /\ h <= Larger(h, v) /\ Larger(h, v) \in {h, v}
    BY ONLY <1>4, <2>1 DEF Larger
  <2>3. \A i \in m..N : E[i].v <= Larger(h, v)
    BY ONLY <1>4, <1>12, <2>1, <2>2
  <2> QED
    BY ONLY <1>4, <1>10, <1>11, <2>1, <2>2, <2>3
<1>14. /\ \E i \in m..(N + 1) : Smaller(W["low"].value, v) = F[i].v
       /\ \A i \in m..(N + 1) : Smaller(W["low"].value, v) <= F[i].v
  <2>1. PICK l \in Int : /\ l = W["low"].value
                         /\ \E i \in m..N : l = E[i].v
                         /\ \A i \in m..N : l <= E[i].v
    BY <1>3, <1>12 DEF SlotHolds
  <2>2. Smaller(l, v) <= v /\ Smaller(l, v) <= l /\ Smaller(l, v) \in {l, v}
    BY ONLY <1>4, <2>1 DEF Smaller
  <2>3. \A i \in m..N : Smaller(l, v) <= E[i].v
    BY ONLY <1>4, <1>12, <2>1, <2>2
  <2> QED
    BY ONLY <1>4, <1>10, <1>11, <2>1, <2>2, <2>3
<1>15. /\ W["avg"].sum + v = Sums(F)[N + 1] - Sums(F)[m - 1]
       /\ W["avg"].count + 1 = (N + 1) - m + 1
  <2>1. /\ W["avg"].sum = Sums(E)[N] - Sums(E)[m - 1]
        /\ W["avg"].count = N - m + 1
    BY <1>3 DEF SlotHolds
  <2> QED
    BY ONLY <1>3, <1>4, <1>5, <1>9, <2>1
<1>16. W["open"].open_ = F[m].v
  BY <1>3, <1>5 DEF SlotHolds
<1>17. SlotHolds(F, Fed(W, t, v), m)
  <2> HIDE DEF Fed, Larger, Smaller
  <2> QED
    BY ONLY <1>3, <1>4, <1>8, <1>13, <1>14, <1>15, <1>16 DEF SlotHolds
<1> QED
  BY <1>6, <1>17

\* The slot the windows are in before an event at t; a window that has seen
\* nothing starts in the slot of the event.
SlotBefore(E, t) == IF E = << >> THEN Bin(t) ELSE Bin(E[Len(E)].t)

\* The windows W and the derived ones D hold what the events E say.
Follows(E, W, D) ==
  IF E = << >>
  THEN (\A s \in Series : W[s] = NewWindow) /\ (\A d \in Derived : D[d] = NewWindow)
  ELSE /\ \A s \in Series : W[s].ts = E[Len(E)].t
       /\ \A d \in Derived : D[d].ts = E[Len(E)].t
       /\ \E m : Newest(E, m) /\ SlotHolds(E, W, m)
       /\ \A s \in Series, k \in 0..Capacity :
            Index(W[s], 0 - k) = Expected(E, s, Len(E), Bin(E[Len(E)].t) - k)
       /\ \A d \in Derived, k \in 0..Capacity :
            Index(D[d], 0 - k) = ExpectedDerived(E, d, Bin(E[Len(E)].t) - k)

\* An event at t or later than what E has.
NotLate(E, t) == E # << >> => E[Len(E)].t <= t

\* The slots an event closes.
LEMMA SlotsClosed ==
  ASSUME NEW E \in Seq(Event), NEW t \in 1..MaxTime, NotLate(E, t),
         NEW w \in Window, w.ts = IF E = << >> THEN 0 ELSE E[Len(E)].t
  PROVE  /\ SlotBefore(E, t) \in Nat /\ Bin(t) \in Nat /\ SlotBefore(E, t) <= Bin(t)
         /\ Windows(w, t) = Bin(t) - SlotBefore(E, t)
         /\ NewPeriod(w, t) <=> (E = << >> \/ SlotBefore(E, t) < Bin(t))
<1>1. t \in Nat /\ Bin(t) \in Nat
  <2>1. t \in Nat
    OBVIOUS
  <2> QED
    BY <2>1, BinType
<1>2. CASE E = << >>
  <2>1. w.ts = 0 /\ SlotBefore(E, t) = Bin(t)
    BY <1>2 DEF SlotBefore
  <2>2. Windows(w, t) = 0 /\ NewPeriod(w, t)
    BY <2>1 DEF Windows, NewPeriod
  <2>3. Bin(t) <= Bin(t) /\ Bin(t) - Bin(t) = 0
    BY ONLY <1>1
  <2> QED
    BY ONLY <1>1, <1>2, <2>1, <2>2, <2>3
<1>3. CASE E # << >>
  <2>1. Len(E) \in 1..Len(E)
    BY <1>3
  <2>2. E[Len(E)].t \in 1..MaxTime
    <3>1. E[Len(E)] \in Event
      BY <2>1
    <3> QED
      BY <3>1 DEF Event
  <2>3. PICK a \in 1..MaxTime : a = E[Len(E)].t
    BY <2>2
  <2>4. w.ts = a /\ a \in Nat /\ a > 0 /\ a <= t
    BY <1>3, <2>3 DEF NotLate
  <2>5. Windows(w, t) = CountWindows(a, t)
    BY <2>4 DEF Windows
  <2>6. CountWindows(a, t) = Bin(t) - Bin(a) /\ CountWindows(a, t) \in Nat
    BY <1>1, <2>4, CountIsBinDifference
  <2>7. Bin(a) \in Nat /\ SlotBefore(E, t) = Bin(a)
    BY <1>3, <2>3, <2>4, BinType DEF SlotBefore
  <2>8. NewPeriod(w, t) <=> Windows(w, t) > 0
    BY <2>4 DEF NewPeriod
  <2>9. PICK x \in Nat, y \in Nat : x = Bin(a) /\ y = Bin(t) /\ y - x \in Nat
    BY <1>1, <2>6, <2>7
  <2>10. x <= y /\ (y - x > 0 <=> x < y)
    BY ONLY <2>9
  <2> QED
    BY ONLY <1>1, <1>3, <2>5, <2>6, <2>7, <2>8, <2>9, <2>10
<1> QED
  BY <1>2, <1>3

\* The closed slots of a window hold what they should after an event.
LEMMA ClosedFollow ==
  ASSUME NEW E \in Seq(Event), NEW t \in 1..MaxTime, NotLate(E, t),
         NEW w \in Window, w.ts = IF E = << >> THEN 0 ELSE E[Len(E)].t,
         NEW s, NEW now \in Int, NEW R, NEW R2,
         Matches(w, R, SlotBefore(E, t)), Steady(R, SlotBefore(E, t)),
         AgreeBefore(R2, R, Bin(t)),
         NEW k \in 1..Capacity
  PROVE  Index(Update(s, w, t, now), 0 - k) = R2[Bin(t) - k]
<1>1. PICK c \in Int, c2 \in Int : c = SlotBefore(E, t) /\ c2 = Bin(t) /\ c <= c2
  BY SlotsClosed
<1>2. PICK u \in Window : u = Update(s, w, t, now)
  BY UpdateType
<1>3. Windows(w, t) = c2 - c
  BY <1>1, SlotsClosed
<1>4. u.buffer = PushBack(w, c2 - c) /\ u.first = Advance(w.first, c2 - c)
  BY <1>2, <1>3, UpdateFields
<1>5. Matches(w, R, c) /\ Steady(R, c) /\ AgreeBefore(R2, R, c2)
  BY <1>1
<1>6. Index(u, 0 - k) = R2[c2 - k]
  BY <1>1, <1>4, <1>5, SlotsFollow
<1> QED
  BY <1>1, <1>2, <1>6

\* Slots in which nothing happened yet are expected to be like the newest one,
\* or to have the initial value.
LEMMA ExpectedLater ==
  ASSUME NEW E \in Seq(Event), E # << >> => \E m : Newest(E, m),
         NEW c \in Int, E # << >> => c = Bin(E[Len(E)].t),
         NEW b \in Int, c <= b
  PROVE  /\ \A s \in Series : Expected(E, s, Len(E), b) = Expected(E, s, Len(E), c)
         /\ \A d \in Derived : ExpectedDerived(E, d, b) = ExpectedDerived(E, d, c)
<1>1. UpTo(E, Len(E), b) = UpTo(E, Len(E), c)
  <2>1. CASE E = << >>
    BY <2>1 DEF UpTo
  <2>2. CASE E # << >>
    <3>1. PICK m : Newest(E, m)
      BY <2>2
    <3>2. c <= c
      OBVIOUS
    <3> QED
      BY <2>2, <3>1, <3>2, NewestIs
  <2> QED
    BY <2>1, <2>2
<1>2. ASSUME NEW s \in Series
      PROVE  Expected(E, s, Len(E), b) = Expected(E, s, Len(E), c)
  <2>1. Extends(E, E) /\ Len(E) \in Nat /\ Len(E) <= Len(E)
    BY DEF Extends
  <2> QED
    BY <1>1, <2>1, ExpectedSame
<1>3. ASSUME NEW d \in Derived
      PROVE  ExpectedDerived(E, d, b) = ExpectedDerived(E, d, c)
  BY Zenon, <1>1 DEF ExpectedDerived
<1> QED
  BY <1>2, <1>3

\* The derived windows D after an event of the windows U they are attached to.
Driven(D, U, t) ==
  [d \in Derived |-> Update("latest", D[d], t, Derive(d, U["close"]))]

\* align_at_zero: the time at which a slot starts.
LEMMA SlotStart ==
  ASSUME NEW t \in Nat
  PROVE  t - (t % Interval) = Bin(t) * Interval
  BY DEF Bin

\* What is derived at an event is what the reference derives from the closing
\* prices of that moment.
LEMMA DerivedNow ==
  ASSUME NEW F, NEW m, Newest(F, m), NEW w \in Window, w.ts = F[Len(F)].t,
         \A k \in 0..Capacity :
           Index(w, 0 - k) = Expected(F, "close", Len(F), Bin(F[Len(F)].t) - k),
         NEW d \in Derived
  PROVE  Derive(d, w) = ExpectedDerived(F, d, Bin(F[Len(F)].t))
<1>1. PICK N : N = Len(F) /\ N \in Nat /\ N \in 1..N
  BY DEF Newest
<1>2. PICK t \in Nat, c \in Nat : t = F[N].t /\ c = Bin(t)
  BY <1>1, EventFields DEF Newest
<1>3. c <= c
  BY <1>2
<1>4. UpTo(F, N, c) = 1..N /\ Max(UpTo(F, N, c)) = N
  BY <1>1, <1>2, <1>3, NewestIs
<1>5. UpTo(F, N, c) # {}
  BY <1>1, <1>4
<1> DEFINE closes == [j \in 1..Length |-> Expected(F, "close", N, c - (Length - j))]
           times  == [j \in 1..Length |-> (c - (Length - j)) * Interval]
<1>6. ExpectedDerived(F, d, c) = IF d = "apply2" THEN SampleOp(times, closes) ELSE Op(closes)
  BY Zenon, <1>1, <1>2, <1>4, <1>5 DEF ExpectedDerived
<1>7. Length \in Nat /\ Length = Capacity + 1
  BY DEF Length
<1>8. ASSUME NEW j \in 1..Length
      PROVE  Index(w, j - Length) = Expected(F, "close", N, c - (Length - j))
  <2>1. PICK k \in 0..Capacity : k = Length - j /\ 0 - k = j - Length
    BY <1>7
  <2> QED
    BY <1>1, <1>2, <2>1
<1>9. ASSUME NEW j \in 1..Length
      PROVE  (IF j = Length THEN w.value ELSE Slot(w, Length - j)) = Index(w, j - Length)
  <2>1. CASE j = Length
    BY <1>7, <2>1 DEF Index
  <2>2. CASE j # Length
    <3>1. j - Length < 0 /\ 0 - (j - Length) = Length - j
      BY <1>7, <2>2
    <3> QED
      BY <2>2, <3>1 DEF Index
  <2> QED
    BY <2>1, <2>2
<1>10. [j \in 1..Length |-> Index(w, j - Length)] = closes
  BY <1>8
<1>11. CopyLastData(w, Length) = closes
  <2>1. Length \in 1..Length
    BY <1>7
  <2>2. CopyLastData(w, Length) = CopyLastSlow(w, Length)
    BY <2>1, CopyLastDataCorrect
  <2>3. CopyLastSlow(w, Length) = [j \in 1..Length |-> Index(w, j - Length)]
    BY <1>9 DEF CopyLastSlow
  <2> QED
    BY <1>10, <2>2, <2>3
<1>12. GenerateTimeArray(w, Length) = times
  <2>1. ASSUME NEW j \in 1..Length
        PROVE  GetTime(w.ts, Length - j) = (c - (Length - j)) * Interval
    <3>1. PICK o \in Nat : o = Length - j
      BY <1>7
    <3>2. t - (t % Interval) = c * Interval
      BY <1>2, SlotStart
    <3>3. (c - o) * Interval = c * Interval - o * Interval
      BY <1>2
    <3>4. GetTime(t, o) = (c - o) * Interval
      BY <3>2, <3>3 DEF GetTime
    <3> QED
      BY <1>1, <1>2, <3>1, <3>4
  <2> QED
    BY <2>1 DEF GenerateTimeArray
<1> HIDE DEF closes, times
<1>13. Derive(d, w) = IF d = "apply2" THEN SampleOp(times, closes) ELSE Op(closes)
  <2>1. CASE d = "apply"
    BY Zenon, <1>10, <2>1 DEF Derive
  <2>2. CASE d = "apply2"
    BY <1>11, <1>12, <2>2 DEF Derive
  <2>3. CASE d = "apply3"
    BY <1>11, <2>3 DEF Derive
  <2> QED
    BY <2>1, <2>2, <2>3 DEF Derived
<1> QED
  BY Zenon, <1>1, <1>2, <1>6, <1>13

\* The functors of apply, apply2 and apply3 return numbers.
FunctorsReturnNumbers == (\A a : Op(a) \in Int) /\ (\A u, a : SampleOp(u, a) \in Int)

\* A new window holds the initial value in every slot.
LEMMA NewIsEmpty ==
  ASSUME NEW k \in 0..Capacity
  PROVE  Index(NewWindow, 0 - k) = InitValue
<1>1. CASE k = 0
  BY <1>1 DEF Index, NewWindow
<1>2. CASE k # 0
  <2>1. 0 - k < 0 /\ 0 - (0 - k) = k /\ k \in 1..Capacity
    BY <1>2
  <2>2. Index(NewWindow, 0 - k) = Slot(NewWindow, k)
    BY <2>1 DEF Index
  <2>3. Slot(NewWindow, k) = NewWindow.buffer[Capacity - k]
    <3>1. NewWindow.first = 0
      BY DEF NewWindow
    <3> QED
      BY <2>1, <3>1, NewWindowType, SlotPosition
  <2>4. Capacity - k \in Positions
    BY <2>1 DEF Positions
  <2> QED
    BY <2>2, <2>3, <2>4 DEF NewWindow
<1> QED
  BY <1>1, <1>2

\* An event that is not late: the windows hold what they should again.
LEMMA FollowsStep ==
  ASSUME NEW E \in Seq(Event), NEW t \in 1..MaxTime, NEW v \in Values, NotLate(E, t),
         NEW F, F = Append(E, [t |-> t, v |-> v]),
         NEW W \in [Series -> Window], NEW D \in [Derived -> Window],
         FunctorsReturnNumbers, Follows(E, W, D)
  PROVE  Follows(F, Fed(W, t, v), Driven(D, Fed(W, t, v), t))
<1> DEFINE U == Fed(W, t, v)
           G == Driven(D, Fed(W, t, v), t)
<1>1. [t |-> t, v |-> v] \in Event
  BY DEF Event
<1>2. Extends(F, E) /\ Len(F) = Len(E) + 1 /\ F[Len(F)] = [t |-> t, v |-> v]
  BY <1>1, AppendExtends
<1>3. F # << >> /\ F[Len(F)].t = t /\ v \in Int /\ "close" \in Series
  <2>1. Len(F) # 0
    BY <1>2
  <2> QED
    BY <1>2, <2>1 DEF Series, Bar
<1>3a. ASSUME NEW b \in Int, b < Bin(t)
      PROVE  SameSlot(F, E, b)
  <2>1. PICK e \in Event : e = [t |-> t, v |-> v]
    BY <1>1
  <2>2. F = Append(E, e) /\ b < Bin(e.t)
    BY <1>3a, <2>1
  <2> QED
    BY <2>2, EarlierSlots
<1>4. PICK c \in Nat, c2 \in Nat : c = SlotBefore(E, t) /\ c2 = Bin(t) /\ c <= c2
  <2>1. PICK w \in Window : w.ts = IF E = << >> THEN 0 ELSE E[Len(E)].t
    <3>1. W["close"] \in Window
      BY <1>3
    <3> QED
      BY <1>3, <3>1 DEF Follows, NewWindow
  <2> QED
    BY <2>1, SlotsClosed
<1>5. /\ \A s \in Series : /\ W[s] \in Window
                           /\ W[s].ts = IF E = << >> THEN 0 ELSE E[Len(E)].t
      /\ \A d \in Derived : /\ D[d] \in Window
                            /\ D[d].ts = IF E = << >> THEN 0 ELSE E[Len(E)].t
  BY DEF Follows, NewWindow
<1>6. /\ \A s \in Series : U[s] = Update(s, W[s], t, v)
      /\ \A d \in Derived : G[d] = Update("latest", D[d], t, Derive(d, U["close"]))
      /\ \A d \in Derived : Derive(d, U["close"]) \in Int
  <2>1. \A s \in Series : U[s] = Update(s, W[s], t, v)
    BY DEF Fed
  <2>2. \A d \in Derived : G[d] = Update("latest", D[d], t, Derive(d, U["close"]))
    BY DEF Driven
  <2>3. \A d \in Derived : Derive(d, U["close"]) \in Int
    <3> HIDE DEF U
    <3> QED
      BY DEF Derive, Derived, FunctorsReturnNumbers
  <2> QED
    BY <2>1, <2>2, <2>3
<1> HIDE DEF U, G
<1>7. \A s \in Series : U[s] \in Window /\ U[s].ts = t
  BY <1>3, <1>5, <1>6, UpdateType, UpdateFields
<1>8. \A d \in Derived : G[d].ts = t /\ G[d].value = Derive(d, U["close"])
  <2> TAKE d \in Derived
  <2>1. /\ G[d].ts = t
        /\ G[d].value = Sample("latest", D[d], NewPeriod(D[d], t), Derive(d, U["close"]))
    BY <1>6, UpdateFields
  <2>2. Sample("latest", D[d], NewPeriod(D[d], t), Derive(d, U["close"]))
          = Derive(d, U["close"])
    BY DEF Sample
  <2> QED
    BY <2>1, <2>2
<1>9. \E m : Newest(F, m) /\ SlotHolds(F, U, m)
  <2>1. \A s \in Series : NewPeriod(W[s], t) <=> (E = << >> \/ c < c2)
    BY <1>4, <1>5, SlotsClosed
  <2>2. CASE E = << >> \/ c < c2
    <3>1. \A i \in 1..Len(E) : Bin(E[i].t) < Bin(t)
      <4>1. CASE E = << >>
        BY <4>1
      <4>2. CASE E # << >> /\ c < c2
        <5>1. PICK m : Newest(E, m)
          BY <4>2 DEF Follows
        <5>2. c = Bin(E[Len(E)].t)
          BY <1>4, <4>2 DEF SlotBefore
        <5>3. \A i \in 1..Len(E) : Bin(E[i].t) <= c /\ Bin(E[i].t) \in Nat
          BY <5>1, <5>2, EventFields DEF Newest
        <5> QED
          BY ONLY <1>4, <4>2, <5>3
      <4> QED
        BY <2>2, <4>1, <4>2
    <3>2. \A s \in Series : NewPeriod(W[s], t)
      BY <2>1, <2>2
    <3>3. Newest(F, Len(F)) /\ SlotHolds(F, Fed(W, t, v), Len(F))
      BY <3>1, <3>2, NewSlotHolds
    <3> QED
      BY <3>3 DEF U
  <2>3. CASE ~(E = << >> \/ c < c2)
    <3>1. PICK m : Newest(E, m) /\ SlotHolds(E, W, m)
      BY <2>3 DEF Follows
    <3>2. Bin(E[Len(E)].t) = Bin(t)
      <4>1. c = c2
        BY ONLY <1>4, <2>3
      <4> QED
        BY <1>4, <2>3, <4>1 DEF SlotBefore
    <3>3. \A s \in Series : ~NewPeriod(W[s], t)
      BY <2>1, <2>3
    <3>4. Newest(F, m) /\ SlotHolds(F, Fed(W, t, v), m)
      BY <3>1, <3>2, <3>3, SameSlotHolds
    <3> QED
      BY <3>4 DEF U
  <2> QED
    BY <2>2, <2>3
<1>10. /\ E # << >> => \E m : Newest(E, m)
       /\ E # << >> => c = Bin(E[Len(E)].t)
  BY <1>4 DEF Follows, SlotBefore
<1>11. ASSUME NEW s \in Series, NEW k \in 1..Capacity
       PROVE  Index(U[s], 0 - k) = Expected(F, s, Len(F), c2 - k)
  <2> DEFINE R == [b \in Int |-> Expected(E, s, Len(E), b)]
             R2 == [b \in Int |-> Expected(F, s, Len(F), b)]
  <2>1. Matches(W[s], R, c)
    <3> SUFFICES ASSUME NEW j \in 0..Capacity
                 PROVE  Index(W[s], 0 - j) = Expected(E, s, Len(E), c - j)
      BY DEF Matches
    <3>1. CASE E = << >>
      <4>1. UpTo(E, Len(E), c - j) = {}
        BY <3>1 DEF UpTo
      <4>2. Expected(E, s, Len(E), c - j) = InitValue
        BY Zenon, <4>1 DEF Expected
      <4>3. Index(NewWindow, 0 - j) = InitValue
        BY NewIsEmpty
      <4> QED
        BY <3>1, <4>2, <4>3 DEF Follows
    <3>2. CASE E # << >>
      BY <1>10, <3>2 DEF Follows
    <3> QED
      BY <3>1, <3>2
  <2>2. Steady(R, c)
    BY <1>10, ExpectedLater DEF Steady
  <2>3. AgreeBefore(R2, R, c2)
    <3> SUFFICES ASSUME NEW b \in Int, b < c2
                 PROVE  Expected(F, s, Len(F), b) = Expected(E, s, Len(E), b)
      BY DEF AgreeBefore
    <3> QED
      BY <1>3a, <1>4 DEF SameSlot
  <2> HIDE DEF R, R2
  <2>4. Index(Update(s, W[s], t, v), 0 - k) = R2[Bin(t) - k]
    BY <1>3, <1>4, <1>5, <2>1, <2>2, <2>3, ClosedFollow
  <2> QED
    BY <1>4, <1>6, <2>4 DEF R2
<1>12. ASSUME NEW s \in Series, NEW k \in 0..Capacity
       PROVE  Index(U[s], 0 - k) = Expected(F, s, Len(F), c2 - k)
  <2>1. CASE k = 0
    <3>1. PICK m : Newest(F, m) /\ SlotHolds(F, U, m)
      BY <1>9
    <3>2. c2 <= c2 /\ c2 \in Int /\ c2 = Bin(F[Len(F)].t)
      BY <1>3, <1>4
    <3>3. U[s].value = Expected(F, s, Len(F), c2)
      BY <3>1, <3>2, HoldsExpected
    <3>4. Index(U[s], 0) = U[s].value /\ 0 - k = 0 /\ c2 - k = c2
      BY <1>4, <2>1 DEF Index
    <3> QED
      BY <3>3, <3>4
  <2>2. CASE k # 0
    BY <1>11, <2>2
  <2> QED
    BY <2>1, <2>2
<1>13. ASSUME NEW d \in Derived, NEW k \in 1..Capacity
       PROVE  Index(G[d], 0 - k) = ExpectedDerived(F, d, c2 - k)
  <2> DEFINE R == [b \in Int |-> ExpectedDerived(E, d, b)]
             R2 == [b \in Int |-> ExpectedDerived(F, d, b)]
  <2>1. Matches(D[d], R, c)
    <3> SUFFICES ASSUME NEW j \in 0..Capacity
                 PROVE  Index(D[d], 0 - j) = ExpectedDerived(E, d, c - j)
      BY DEF Matches
    <3>1. CASE E = << >>
      <4>1. UpTo(E, Len(E), c - j) = {}
        BY <3>1 DEF UpTo
      <4>2. ExpectedDerived(E, d, c - j) = InitValue
        BY Zenon, <4>1 DEF ExpectedDerived
      <4>3. Index(NewWindow, 0 - j) = InitValue
        BY NewIsEmpty
      <4> QED
        BY <3>1, <4>2, <4>3 DEF Follows
    <3>2. CASE E # << >>
      BY <1>10, <3>2 DEF Follows
    <3> QED
      BY <3>1, <3>2
  <2>2. Steady(R, c)
    BY <1>10, ExpectedLater DEF Steady
  <2>3. AgreeBefore(R2, R, c2)
    <3> SUFFICES ASSUME NEW b \in Int, b < c2
                 PROVE  ExpectedDerived(F, d, b) = ExpectedDerived(E, d, b)
      BY DEF AgreeBefore
    <3> QED
      BY <1>3a, <1>4 DEF SameSlot
  <2> HIDE DEF R, R2
  <2>4. Index(Update("latest", D[d], t, Derive(d, U["close"])), 0 - k) = R2[Bin(t) - k]
    BY <1>4, <1>5, <1>6, <2>1, <2>2, <2>3, ClosedFollow
  <2> QED
    BY <1>4, <1>6, <2>4 DEF R2
<1>14. ASSUME NEW d \in Derived, NEW k \in 0..Capacity
       PROVE  Index(G[d], 0 - k) = ExpectedDerived(F, d, c2 - k)
  <2>1. CASE k = 0
    <3>1. PICK m : Newest(F, m)
      BY <1>9
    <3>2. PICK w \in Window : w = U["close"]
      BY <1>3, <1>7
    <3>3. w.ts = F[Len(F)].t /\ c2 = Bin(F[Len(F)].t)
      BY <1>3, <1>4, <1>7, <3>2
    <3>4. \A j \in 0..Capacity :
            Index(w, 0 - j) = Expected(F, "close", Len(F), Bin(F[Len(F)].t) - j)
      BY <1>3, <1>12, <3>2, <3>3
    <3>5. Derive(d, w) = ExpectedDerived(F, d, Bin(F[Len(F)].t))
      BY <3>1, <3>3, <3>4, DerivedNow
    <3>6. Index(G[d], 0) = G[d].value /\ 0 - k = 0 /\ c2 - k = c2
      BY <1>4, <2>1 DEF Index
    <3> QED
      BY <1>8, <3>2, <3>3, <3>5, <3>6
  <2>2. CASE k # 0
    BY <1>13, <2>2
  <2> QED
    BY <2>1, <2>2
<1>15. c2 = Bin(F[Len(F)].t)
  BY <1>3, <1>4
<1>16. Follows(F, U, G)
  BY <1>3, <1>7, <1>8, <1>9, <1>12, <1>14, <1>15 DEF Follows
<1> QED
  BY <1>16 DEF U, G

\* As long as no event was late the windows hold what the events say.
FollowsInv == TypeOK /\ (InOrder => Follows(events, window, derived))

\* A step keeps it.
LEMMA FollowsInvStep ==
  ASSUME FunctorsReturnNumbers, FollowsInv, TypeOK', [Next]_vars
  PROVE  FollowsInv'
<1>1. CASE UNCHANGED vars
  BY <1>1 DEF FollowsInv, TypeOK, InOrder, Follows, vars
<1>2. ASSUME NEW t \in 1..MaxTime, NEW v \in Values, On(t, v), InOrder'
      PROVE  Follows(events', window', derived')
  <2>1. PICK E, W, D : E = events /\ W = window /\ D = derived
    OBVIOUS
  <2>2. E \in Seq(Event) /\ W \in [Series -> Window] /\ D \in [Derived -> Window]
    BY <2>1 DEF FollowsInv, TypeOK, Event
  <2>3. PICK F : F = Append(E, [t |-> t, v |-> v])
    OBVIOUS
  <2>4. events' = F /\ window' = Fed(W, t, v) /\ derived' = Driven(D, Fed(W, t, v), t)
    BY <1>2, <2>1, <2>3 DEF On, Fed, Driven
  <2>5. [t |-> t, v |-> v] \in Event
    BY DEF Event
  <2>6. Extends(F, E) /\ Len(F) = Len(E) + 1 /\ F[Len(F)] = [t |-> t, v |-> v]
    BY <2>2, <2>3, <2>5, AppendExtends
  <2>7. \A i \in 2..Len(F) : F[i - 1].t <= F[i].t
    BY <1>2, <2>4 DEF InOrder
  <2>8. InOrder
    <3>1. \A i \in 2..Len(E) : /\ i \in 2..Len(F)
                               /\ F[i] = E[i] /\ F[i - 1] = E[i - 1]
      BY <2>2, <2>6 DEF Extends
    <3> QED
      BY <2>1, <2>7, <3>1 DEF InOrder
  <2>9. NotLate(E, t)
    <3> SUFFICES ASSUME E # << >> PROVE E[Len(E)].t <= t
      BY DEF NotLate
    <3>1. Len(F) \in 2..Len(F) /\ Len(F) - 1 = Len(E) /\ Len(E) \in 1..Len(E)
      BY <2>2, <2>6
    <3>2. F[Len(F) - 1].t <= F[Len(F)].t
      BY <2>7, <3>1
    <3>3. F[Len(E)] = E[Len(E)]
      BY <2>6, <3>1 DEF Extends
    <3> QED
      BY <2>6, <3>1, <3>2, <3>3
  <2>10. Follows(E, W, D)
    BY <2>1, <2>8 DEF FollowsInv
  <2>11. Follows(F, Fed(W, t, v), Driven(D, Fed(W, t, v), t))
    BY <2>2, <2>3, <2>9, <2>10, FollowsStep
  <2> QED
    BY <2>4, <2>11
<1> QED
  BY <1>1, <1>2 DEF Next, FollowsInv

\* The invariant says what the two properties say.
LEMMA FollowsSays ==
  ASSUME FollowsInv
  PROVE  HistoryMatchesEvents /\ DerivedFollows
<1>1. CASE events # << >> /\ InOrder
  <2>1. Follows(events, window, derived)
    BY <1>1 DEF FollowsInv
  <2>2. "close" \in Series
    BY DEF Series, Bar
  <2>3. Now = Bin(events[Len(events)].t)
    BY <1>1, <2>1, <2>2 DEF Follows, Now
  <2> QED
    BY <1>1, <2>1, <2>3 DEF Follows, HistoryMatchesEvents, DerivedFollows
<1>2. CASE ~(events # << >> /\ InOrder)
  BY <1>2 DEF HistoryMatchesEvents, DerivedFollows
<1> QED
  BY <1>1, <1>2

\* The invariant holds from the start and for ever.
LEMMA AlwaysFollows ==
  ASSUME FunctorsReturnNumbers
  PROVE  Spec => []FollowsInv
<1>1. Spec => []TypeOK
  BY TypeCorrect DEF FunctorsReturnNumbers
<1>2. Init => (TypeOK => FollowsInv)
  BY DEF Init, FollowsInv, Follows
<1>3. FollowsInv /\ TypeOK' /\ [Next]_vars => FollowsInv'
  BY FollowsInvStep
<1> QED
  BY <1>1, <1>2, <1>3, PTL DEF Spec

\* moving_window::operator[]: after any events in the order of time every slot
\* holds the sample (first, last, greatest, least value, average) of the events
\* of its interval, or of the last interval before it that had any, or the initial
\* value, for every capacity, interval and number of events.
THEOREM SlotsMatchEvents ==
  ASSUME FunctorsReturnNumbers
  PROVE  Spec => []HistoryMatchesEvents
<1>1. FollowsInv => HistoryMatchesEvents
  BY FollowsSays
<1> QED
  BY <1>1, AlwaysFollows, PTL

\* apply, apply2 and apply3: after any events in the order of time every slot of a
\* derived window holds what the functor makes of the closing prices, and of the
\* times of their slots, that were known at the last event of the slot.
THEOREM DerivedAlwaysFollows ==
  ASSUME FunctorsReturnNumbers
  PROVE  Spec => []DerivedFollows
<1>1. FollowsInv => DerivedFollows
  BY FollowsSays
<1> QED
  BY <1>1, AlwaysFollows, PTL
=============================================================================
