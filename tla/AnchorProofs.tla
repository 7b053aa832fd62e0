---------------------------- MODULE AnchorProofs ----------------------------
(***************************************************************************)
(* Theorems about Anchor, for every layout of epochs, every number of      *)
(* operators and behaviours of any length: the anchors of L2 blocks never  *)
(* go back, and the inbox accepts them until the epoch they may be         *)
(* proposed in ends.                                                       *)
(***************************************************************************)
EXTENDS Anchor, SequenceTheorems, TLAPS

-----------------------------------------------------------------------------
(* Slots and epochs.                                                       *)

\* A number has one quotient and one remainder.
LEMMA OneRemainder ==
    ASSUME NEW S \in Nat \ {0}, NEW n \in Nat, NEW e \in Nat, NEW s \in 0..(S - 1),
           n = e * S + s
    PROVE  n \div S = e /\ n % S = s
  <1> DEFINE q == n \div S
             r == n % S
  <1>1. S \in Nat /\ S > 0
    OBVIOUS
  <1>2. q \in Int /\ r \in 0..(S - 1) /\ n = q * S + r
    BY <1>1
  <1> HIDE DEF q, r
  <1>3. e * S + s = q * S + r /\ s \in 0..(S - 1)
    BY <1>2
  <1>4. (q - e) * S = s - r
    BY <1>1, <1>2, <1>3
  <1>5. q - e < 1
    <2>1. SUFFICES ASSUME q - e >= 1 PROVE FALSE
      BY <1>2
    <2>2. (q - e) * S >= S
      BY <1>1, <1>2, <2>1
    <2> QED
      BY <1>1, <1>2, <1>3, <1>4, <2>2
  <1>6. q - e > -1
    <2>1. SUFFICES ASSUME q - e <= -1 PROVE FALSE
      BY <1>2
    <2>2. (q - e) * S <= -S
      BY <1>1, <1>2, <2>1
    <2> QED
      BY <1>1, <1>2, <1>3, <1>4, <2>2
  <1>7. q = e
    BY <1>2, <1>5, <1>6
  <1>8. r = s
    BY <1>1, <1>2, <1>3, <1>7
  <1> QED
    BY <1>7, <1>8 DEF q, r

\* A slot has one position.
LEMMA Position ==
    ASSUME NEW n \in Nat, NEW e \in Nat, NEW s \in 0..(SlotsPerEpoch - 1),
           n = e * SlotsPerEpoch + s
    PROVE  At(n) = [epoch |-> e, slot |-> s]
  BY SlotsAssumption, OneRemainder DEF At

\* The epoch and slot of a position.
LEMMA PositionType ==
    ASSUME NEW n \in Nat
    PROVE  /\ At(n).epoch \in Nat /\ At(n).slot \in 0..(SlotsPerEpoch - 1)
           /\ n = At(n).epoch * SlotsPerEpoch + At(n).slot
  <1>1. SlotsPerEpoch \in Nat /\ SlotsPerEpoch > 0
    BY SlotsAssumption
  <1>2. /\ n \div SlotsPerEpoch \in Int /\ n % SlotsPerEpoch \in 0..(SlotsPerEpoch - 1)
        /\ n = (n \div SlotsPerEpoch) * SlotsPerEpoch + (n % SlotsPerEpoch)
    BY <1>1
  <1>3. n \div SlotsPerEpoch >= 0
    BY <1>1, <1>2
  <1>4. At(n).epoch = n \div SlotsPerEpoch /\ At(n).slot = n % SlotsPerEpoch
    BY DEF At
  <1> HIDE DEF At
  <1>5. n \div SlotsPerEpoch \in Nat
    BY <1>2, <1>3
  <1> QED
    BY <1>2, <1>4, <1>5

\* The slot after the last one of an epoch is the first of the next.
LEMMA NextPosition ==
    ASSUME NEW n \in Nat
    PROVE  At(n + 1) = IF At(n).slot = SlotsPerEpoch - 1
                       THEN [epoch |-> At(n).epoch + 1, slot |-> 0]
                       ELSE [epoch |-> At(n).epoch, slot |-> At(n).slot + 1]
  <1> DEFINE e == At(n).epoch
             s == At(n).slot
             S == SlotsPerEpoch
  <1>1. S \in Nat /\ S > 0
    BY SlotsAssumption
  <1>2. e \in Nat /\ s \in 0..(S - 1) /\ n = e * S + s
    BY PositionType
  <1> HIDE DEF e, s, S
  <1>3. CASE s = S - 1
    <2>1. n + 1 = (e + 1) * S + 0
      BY <1>1, <1>2, <1>3
    <2>2. At(n + 1) = [epoch |-> e + 1, slot |-> 0]
      BY <1>1, <1>2, <2>1, Position DEF S
    <2> QED
      BY <1>3, <2>2 DEF e, s, S
  <1>4. CASE s # S - 1
    <2>1. n + 1 = e * S + (s + 1) /\ s + 1 \in 0..(S - 1)
      BY <1>1, <1>2, <1>4
    <2>2. At(n + 1) = [epoch |-> e, slot |-> s + 1]
      BY <1>1, <1>2, <2>1, Position DEF S
    <2> QED
      BY <1>4, <2>2 DEF e, s, S
  <1> QED
    BY <1>3, <1>4

\* Later slots are of later epochs.
LEMMA LaterEpoch ==
    ASSUME NEW m \in Nat, NEW n \in Nat, m <= n
    PROVE  At(m).epoch <= At(n).epoch
  <1> DEFINE S == SlotsPerEpoch
             d == At(m).epoch
             e == At(n).epoch
  <1>1. S \in Nat /\ S > 0
    BY SlotsAssumption
  <1>2. /\ d \in Nat /\ e \in Nat /\ At(m).slot \in 0..(S - 1) /\ At(n).slot \in 0..(S - 1)
        /\ m = d * S + At(m).slot /\ n = e * S + At(n).slot
    BY PositionType
  <1> HIDE DEF S, d, e
  <1>3. SUFFICES ASSUME d >= e + 1 PROVE FALSE
    BY <1>2 DEF d, e
  <1>4. d * S >= (e + 1) * S /\ (e + 1) * S = e * S + S
    BY <1>1, <1>2, <1>3
  <1> QED
    BY <1>1, <1>2, <1>4

\* The epoch of a position's window is the one HandoverSlots later.
LEMMA WindowIsLater ==
    ASSUME NEW n \in Nat
    PROVE  WindowEpoch(At(n)) = At(n + HandoverSlots).epoch
  <1> DEFINE S == SlotsPerEpoch
             e == At(n).epoch
             s == At(n).slot
  <1>1. S \in Nat /\ S > 0 /\ HandoverSlots \in 0..S
    BY SlotsAssumption
  <1>2. e \in Nat /\ s \in 0..(S - 1) /\ n = e * S + s
    BY PositionType
  <1> HIDE DEF S, e, s
  <1>4. CASE s >= S - HandoverSlots
    <2>1. n + HandoverSlots = (e + 1) * S + (s + HandoverSlots - S)
      BY <1>1, <1>2
    <2>2. s + HandoverSlots - S \in 0..(S - 1) /\ n + HandoverSlots \in Nat
      BY <1>1, <1>2, <1>4
    <2>3. At(n + HandoverSlots).epoch = e + 1
      BY <1>1, <1>2, <2>1, <2>2, Position DEF S
    <2> QED
      BY <1>4, <2>3 DEF WindowEpoch, WithinHandoverPeriod, e, s, S
  <1>5. CASE ~(s >= S - HandoverSlots)
    <2>1. n + HandoverSlots = e * S + (s + HandoverSlots)
      BY <1>1, <1>2
    <2>2. s + HandoverSlots \in 0..(S - 1) /\ n + HandoverSlots \in Nat
      BY <1>1, <1>2, <1>5
    <2>3. At(n + HandoverSlots).epoch = e
      BY <1>1, <1>2, <2>1, <2>2, Position DEF S
    <2> QED
      BY <1>5, <2>3 DEF WindowEpoch, WithinHandoverPeriod, e, s, S
  <1> QED
    BY <1>4, <1>5

\* The slots' own epochs, and the ones of their windows, are among the epochs.
LEMMA EpochsOfSlots ==
    ASSUME NEW n \in 0..LastSlot
    PROVE  At(n).epoch \in Epochs /\ WindowEpoch(At(n)) \in Epochs
  <1>1. /\ n \in Nat /\ HandoverSlots \in Nat /\ LastSlot \in Nat /\ n <= LastSlot
        /\ n + HandoverSlots \in Nat /\ LastSlot + HandoverSlots \in Nat
        /\ n <= LastSlot + HandoverSlots
        /\ n + HandoverSlots <= LastSlot + HandoverSlots
    BY SlotsAssumption, AnchorAssumption
  <1>2. /\ At(n).epoch \in Nat /\ At(n + HandoverSlots).epoch \in Nat
        /\ At(LastSlot + HandoverSlots).epoch \in Nat
    BY <1>1, PositionType
  <1>3. /\ At(n).epoch <= At(LastSlot + HandoverSlots).epoch
        /\ At(n + HandoverSlots).epoch <= At(LastSlot + HandoverSlots).epoch
    BY <1>1, LaterEpoch
  <1>4. WindowEpoch(At(n)) = At(n + HandoverSlots).epoch
    BY <1>1, WindowIsLater
  <1> HIDE DEF At
  <1> QED
    BY <1>2, <1>3, <1>4 DEF Epochs

\* The first slot of the window that a slot is in; the one that the behaviour
\* begins in may have begun before it.
WindowStart(slot) == WindowEpoch(At(slot)) * SlotsPerEpoch - HandoverSlots

\* A window is as long as an epoch.
LEMMA WindowBounds ==
    ASSUME NEW n \in Nat
    PROVE  /\ WindowStart(n) \in Int
           /\ WindowStart(n) <= n /\ n < WindowStart(n) + SlotsPerEpoch
  <1> DEFINE w == At(n + HandoverSlots).epoch
             p == At(n + HandoverSlots).slot
             S == SlotsPerEpoch
  <1>1. S \in Nat /\ S > 0 /\ HandoverSlots \in Nat /\ n + HandoverSlots \in Nat
    BY SlotsAssumption
  <1>2. w \in Nat /\ p \in 0..(S - 1) /\ n + HandoverSlots = w * S + p
    BY <1>1, PositionType
  <1>3. WindowStart(n) = w * S - HandoverSlots
    BY WindowIsLater DEF WindowStart
  <1> HIDE DEF w, p, S
  <1>4. w * S \in Int
    BY <1>1, <1>2
  <1> QED
    BY <1>1, <1>2, <1>3, <1>4 DEF S

\* In the epoch that a window belongs to, and before it, less than an epoch and a
\* handover window has passed since the window's first slot.
LEMMA EpochOfWindowEnds ==
    ASSUME NEW m \in Nat, NEW n \in Nat, At(n).epoch <= WindowEpoch(At(m))
    PROVE  n < WindowStart(m) + HandoverSlots + SlotsPerEpoch
  <1> DEFINE w == WindowEpoch(At(m))
             e == At(n).epoch
             s == At(n).slot
             S == SlotsPerEpoch
  <1>1. S \in Nat /\ S > 0 /\ HandoverSlots \in Nat /\ m + HandoverSlots \in Nat
    BY SlotsAssumption
  <1>2. w \in Nat
    BY <1>1, WindowIsLater, PositionType
  <1>3. e \in Nat /\ s \in 0..(S - 1) /\ n = e * S + s /\ e <= w
    BY PositionType
  <1>4. WindowStart(m) = w * S - HandoverSlots
    BY DEF WindowStart
  <1> HIDE DEF w, e, s, S
  <1>5. e * S <= w * S /\ e * S \in Int /\ w * S \in Int
    BY <1>1, <1>2, <1>3
  <1> QED
    BY <1>1, <1>3, <1>4, <1>5 DEF S

\* The slots since the last refresh was due.
Phase(slot) == (At(slot).slot + HandoverSlots) % AnchorIdLag

\* The length of an epoch is a multiple of the slots between two refreshes.
Aligned == SlotsPerEpoch % AnchorIdLag = 0

\* The remainder of the next number.
LEMMA NextRemainder ==
    ASSUME NEW n \in Nat, NEW d \in Nat \ {0}
    PROVE  /\ n % d \in 0..(d - 1)
           /\ (n + 1) % d = IF n % d = d - 1 THEN 0 ELSE (n % d) + 1
  <1> DEFINE q == n \div d
             r == n % d
  <1>1. q \in Int /\ r \in 0..(d - 1) /\ n = q * d + r
    OBVIOUS
  <1>2. q \in Nat
    <2> HIDE DEF q, r
    <2>1. SUFFICES ASSUME q <= -1 PROVE FALSE
      BY <1>1
    <2>2. q * d <= -d
      BY <1>1, <2>1
    <2> QED
      BY <1>1, <2>2
  <1>3. r \in 0..(d - 1) /\ n = q * d + r
    BY <1>1
  <1> HIDE DEF q
  <1>4. CASE r = d - 1
    <2> HIDE DEF r
    <2>1. /\ n + 1 = (q + 1) * d + 0 /\ n + 1 \in Nat /\ q + 1 \in Nat
          /\ 0 \in 0..(d - 1) /\ d \in Nat \ {0}
      BY <1>2, <1>3, <1>4
    <2>2. (n + 1) % d = 0
      BY <2>1, OneRemainder
    <2> QED
      BY <1>3, <1>4, <2>2 DEF r
  <1>5. CASE r # d - 1
    <2> HIDE DEF r
    <2>1. n + 1 = q * d + (r + 1) /\ r + 1 \in 0..(d - 1) /\ n + 1 \in Nat
      BY <1>2, <1>3, <1>5
    <2>2. (n + 1) % d = r + 1
      BY <1>2, <2>1, OneRemainder
    <2> QED
      BY <1>3, <1>5, <2>2 DEF r
  <1> QED
    BY <1>4, <1>5

\* A multiple less leaves the same remainder.
LEMMA SameRemainder ==
    ASSUME NEW n \in Nat, NEW d \in Nat \ {0}, NEW S \in Nat, S % d = 0
    PROVE  (n + S) % d = n % d
  <1> DEFINE q == n \div d
             r == n % d
             k == S \div d
  <1>1. q \in Int /\ r \in 0..(d - 1) /\ n = q * d + r /\ k \in Int /\ S = k * d + 0
    OBVIOUS
  <1> HIDE DEF q, r, k
  <1>2. q \in Nat
    <2>1. SUFFICES ASSUME q <= -1 PROVE FALSE
      BY <1>1
    <2>2. q * d <= -d
      BY <1>1, <2>1
    <2> QED
      BY <1>1, <2>2
  <1>3. k \in Nat
    <2>1. SUFFICES ASSUME k <= -1 PROVE FALSE
      BY <1>1
    <2>2. k * d <= -d
      BY <1>1, <2>1
    <2> QED
      BY <1>1, <2>2
  <1>4. n + S = (q + k) * d + r /\ q + k \in Nat /\ n + S \in Nat
    BY <1>1, <1>2, <1>3
  <1>5. (n + S) % d = r
    BY <1>1, <1>4, OneRemainder
  <1> QED
    BY <1>5 DEF r

\* Refreshes are due at fixed distances, in epochs that are aligned with them.
LEMMA NextPhase ==
    ASSUME NEW n \in Nat, Aligned
    PROVE  /\ Phase(n) \in 0..(AnchorIdLag - 1)
           /\ Phase(n + 1) = IF Phase(n) = AnchorIdLag - 1 THEN 0 ELSE Phase(n) + 1
  <1> DEFINE s == At(n).slot
             S == SlotsPerEpoch
             d == AnchorIdLag
             H == HandoverSlots
  <1>1. /\ S \in Nat /\ S > 0 /\ d \in Nat \ {0} /\ H \in Nat
        /\ S % d = 0
    BY SlotsAssumption, AnchorAssumption DEF Aligned
  <1>2. s \in 0..(S - 1) /\ s + H \in Nat
    BY <1>1, PositionType
  <1>3. At(n + 1).slot = IF s = S - 1 THEN 0 ELSE s + 1
    <2>1. CASE s = S - 1
      <3>1. At(n + 1) = [epoch |-> At(n).epoch + 1, slot |-> 0]
        BY <2>1, NextPosition
      <3> QED
        BY <2>1, <3>1
    <2>2. CASE s # S - 1
      <3>1. At(n + 1) = [epoch |-> At(n).epoch, slot |-> At(n).slot + 1]
        BY <2>2, NextPosition
      <3> QED
        BY <2>2, <3>1
    <2> QED
      BY <2>1, <2>2
  <1>4. Phase(n) = (s + H) % d /\ Phase(n + 1) = (At(n + 1).slot + H) % d
    BY DEF Phase
  <1> HIDE DEF s, S, d, H
  <1>5. /\ (s + H) % d \in 0..(d - 1)
        /\ (s + H + 1) % d = IF (s + H) % d = d - 1 THEN 0 ELSE ((s + H) % d) + 1
    BY <1>1, <1>2, NextRemainder
  <1>6. Phase(n + 1) = (s + H + 1) % d
    <2>1. CASE s = S - 1
      <3>1. s + H + 1 = H + S
        BY <1>1, <1>2, <2>1
      <3>2. (H + S) % d = H % d
        BY <1>1, SameRemainder
      <3>3. 0 + H = H
        BY <1>1
      <3> QED
        BY <1>3, <1>4, <2>1, <3>1, <3>2, <3>3
    <2>2. CASE s # S - 1
      <3>1. s + 1 + H = s + H + 1
        BY <1>1, <1>2
      <3> QED
        BY <1>3, <1>4, <2>2, <3>1
    <2> QED
      BY <2>1, <2>2
  <1> QED
    BY <1>4, <1>5, <1>6 DEF d

\* So that every window begins with one.
LEMMA WindowsBeginDue ==
    ASSUME NEW n \in Nat, Aligned, WindowEpoch(At(n + 1)) # WindowEpoch(At(n))
    PROVE  Phase(n + 1) = 0
  <1> DEFINE s == At(n + 1).slot
             S == SlotsPerEpoch
             d == AnchorIdLag
             H == HandoverSlots
  <1>1. /\ S \in Nat /\ S > 0 /\ d \in Nat \ {0} /\ H \in 0..S /\ S % d = 0
    BY SlotsAssumption, AnchorAssumption DEF Aligned
  <1>2. /\ At(n).slot \in 0..(S - 1) /\ At(n).epoch \in Nat
        /\ At(n + 1) = IF At(n).slot = S - 1 THEN [epoch |-> At(n).epoch + 1, slot |-> 0]
                       ELSE [epoch |-> At(n).epoch, slot |-> At(n).slot + 1]
    BY PositionType, NextPosition
  <1>3. s + H = S \/ s + H = 0
    <2>1. CASE At(n).slot = S - 1
      <3>1. /\ At(n + 1) = [epoch |-> At(n).epoch + 1, slot |-> 0]
        BY <1>2, <2>1
      <3>2. s = 0 /\ At(n + 1).epoch = At(n).epoch + 1
        BY <3>1
      <3>3. WindowEpoch(At(n + 1)) = IF 0 >= S - H THEN At(n).epoch + 2 ELSE At(n).epoch + 1
        BY <1>2, <3>2 DEF WindowEpoch, WithinHandoverPeriod
      <3>4. WindowEpoch(At(n)) = IF S - 1 >= S - H THEN At(n).epoch + 1 ELSE At(n).epoch
        BY <2>1 DEF WindowEpoch, WithinHandoverPeriod
      <3> QED
        BY <1>1, <1>2, <3>2, <3>3, <3>4
    <2>2. CASE At(n).slot # S - 1
      <3>1. s = At(n).slot + 1 /\ At(n + 1).epoch = At(n).epoch
        BY <1>2, <2>2
      <3>2. WindowEpoch(At(n + 1)) =
               IF At(n).slot + 1 >= S - H THEN At(n).epoch + 1 ELSE At(n).epoch
        BY <3>1 DEF WindowEpoch, WithinHandoverPeriod
      <3>3. WindowEpoch(At(n)) = IF At(n).slot >= S - H THEN At(n).epoch + 1 ELSE At(n).epoch
        BY DEF WindowEpoch, WithinHandoverPeriod
      <3> QED
        BY <1>1, <1>2, <3>1, <3>2, <3>3
    <2> QED
      BY <2>1, <2>2
  <1>4. Phase(n + 1) = (s + H) % d
    BY DEF Phase
  <1>5. 0 % d = 0
    <2>1. 0 = 0 * d + 0
      BY <1>1
    <2> QED
      BY <1>1, <2>1, OneRemainder
  <1> QED
    BY <1>1, <1>3, <1>4, <1>5
-----------------------------------------------------------------------------
(* ValidAnchor.                                                            *)

\* The maximum of a set that has one.
LEMMA GreatestIsMax ==
    ASSUME NEW S \in SUBSET Int, NEW x \in S, \A y \in S : y <= x
    PROVE  Max(S) = x
  <1>1. \A y \in S : x >= y
    OBVIOUS
  <1>2. \A z \in S : (\A y \in S : z >= y) => z = x
    <2>1. SUFFICES ASSUME NEW z \in S, \A y \in S : z >= y PROVE z = x
      OBVIOUS
    <2>2. z >= x /\ x >= z /\ z \in Int /\ x \in Int
      BY <1>1, <2>1
    <2> QED
      BY <2>2
  <1> QED
    BY <1>1, <1>2 DEF Max

\* The maximum of two numbers.
LEMMA MaxOfTwo ==
    ASSUME NEW x \in Int, NEW y \in Int
    PROVE  Max({x, y}) = IF x >= y THEN x ELSE y
  <1> DEFINE S == {x, y}
  <1>1. S \in SUBSET Int
    OBVIOUS
  <1>2. CASE x >= y
    <2>1. x \in S /\ \A k \in S : k <= x
      BY <1>2
    <2> HIDE DEF S
    <2>2. Max(S) = x
      BY <1>1, <2>1, GreatestIsMax
    <2> QED
      BY <1>2, <2>2 DEF S
  <1>3. CASE ~(x >= y)
    <2>1. y \in S /\ \A k \in S : k <= y
      BY <1>3
    <2> HIDE DEF S
    <2>2. Max(S) = y
      BY <1>1, <2>1, GreatestIsMax
    <2> QED
      BY <1>3, <2>2 DEF S
  <1> QED
    BY <1>2, <1>3

\* The maximum of three numbers.
LEMMA MaxOfThree ==
    ASSUME NEW x \in Int, NEW y \in Int, NEW z \in Int
    PROVE  /\ Max({x, y, z}) \in {x, y, z}
           /\ x <= Max({x, y, z}) /\ y <= Max({x, y, z}) /\ z <= Max({x, y, z})
  <1> DEFINE S == {x, y, z}
  <1>1. S \in SUBSET Int
    OBVIOUS
  <1>2. PICK m \in S : \A k \in S : k <= m
    <2>1. CASE x >= y /\ x >= z
      BY <2>1
    <2>2. CASE y >= x /\ y >= z
      BY <2>2
    <2>3. CASE z >= x /\ z >= y
      BY <2>3
    <2> QED
      BY <2>1, <2>2, <2>3
  <1>3. Max(S) = m
    <2> HIDE DEF S
    <2> QED
      BY <1>1, <1>2, GreatestIsMax
  <1> QED
    BY <1>2, <1>3

\* The anchor that is chosen is at the lag, at the maximal offset, the one of the
\* latest known batch or the first block, whatever is highest.
LEMMA ComputeFacts ==
    ASSUME NEW number \in Nat, NEW last \in Nat
    PROVE  LET id == ComputeValidAnchorId(number, last)
           IN  /\ id \in Nat
               /\ number - AnchorIdLag <= id /\ number - MaxOffset <= id /\ last <= id
               /\ \/ id = number - AnchorIdLag \/ id = number - MaxOffset
                  \/ id = 0 \/ id = last
  <1> DEFINE m == Max({number, MaxOffset})
             id == ComputeValidAnchorId(number, last)
  <1>1. AnchorIdLag \in Nat /\ MaxOffset \in Nat
    BY AnchorAssumption
  <1>2. m = IF number >= MaxOffset THEN number ELSE MaxOffset
    BY <1>1, MaxOfTwo
  <1>3. id = Max({number - AnchorIdLag, m - MaxOffset, last})
    BY DEF ComputeValidAnchorId
  <1> HIDE DEF m, id
  <1>4. /\ number - AnchorIdLag \in Int /\ m - MaxOffset \in Int /\ last \in Int
        /\ m - MaxOffset = IF number >= MaxOffset THEN number - MaxOffset ELSE 0
    BY <1>1, <1>2
  <1>5. /\ id \in {number - AnchorIdLag, m - MaxOffset, last}
        /\ number - AnchorIdLag <= id /\ m - MaxOffset <= id /\ last <= id
    BY <1>3, <1>4, MaxOfThree
  <1>6. /\ id \in Nat
        /\ number - AnchorIdLag <= id /\ number - MaxOffset <= id /\ last <= id
        /\ \/ id = number - AnchorIdLag \/ id = number - MaxOffset
           \/ id = 0 \/ id = last
    BY <1>1, <1>4, <1>5
  <1> QED
    BY <1>6 DEF id

\* The anchor chosen by one who knows of no batch.
Lowest(number) == ComputeValidAnchorId(number, 0)

\* It is not more than the lag before the head, and grows with it.
LEMMA LowestFacts ==
    ASSUME NEW number \in Nat
    PROVE  /\ Lowest(number) \in Nat /\ Lowest(number) <= number
           /\ number <= Lowest(number) + AnchorIdLag
           /\ \A lower \in Nat : lower <= number => Lowest(lower) <= Lowest(number)
  <1>1. AnchorIdLag \in Nat /\ MaxOffset \in Nat
    BY AnchorAssumption
  <1>2. \A n \in Nat :
           /\ Lowest(n) \in Nat
           /\ n - AnchorIdLag <= Lowest(n) /\ n - MaxOffset <= Lowest(n)
           /\ Lowest(n) = n - AnchorIdLag \/ Lowest(n) = n - MaxOffset \/ Lowest(n) = 0
    BY ComputeFacts DEF Lowest
  <1>3. Lowest(number) \in Nat /\ Lowest(number) <= number
    BY <1>1, <1>2
  <1>4. number <= Lowest(number) + AnchorIdLag
    BY <1>1, <1>2
  <1>5. ASSUME NEW lower \in Nat, lower <= number PROVE Lowest(lower) <= Lowest(number)
    BY <1>1, <1>2, <1>5
  <1> QED
    BY <1>3, <1>4, <1>5

\* One who knows of a batch chooses its anchor, if that is higher.
LEMMA ComputeIsLowest ==
    ASSUME NEW number \in Nat, NEW last \in Nat
    PROVE  /\ ComputeValidAnchorId(number, last) \in {Lowest(number), last}
           /\ Lowest(number) <= ComputeValidAnchorId(number, last)
           /\ last <= ComputeValidAnchorId(number, last)
  <1> DEFINE id == ComputeValidAnchorId(number, last)
             low == Lowest(number)
  <1>1. AnchorIdLag \in Nat /\ MaxOffset \in Nat
    BY AnchorAssumption
  <1>2. /\ id \in Nat
        /\ number - AnchorIdLag <= id /\ number - MaxOffset <= id /\ last <= id
        /\ \/ id = number - AnchorIdLag \/ id = number - MaxOffset
           \/ id = 0 \/ id = last
    BY ComputeFacts
  <1>3. /\ low \in Nat
        /\ number - AnchorIdLag <= low /\ number - MaxOffset <= low
        /\ low = number - AnchorIdLag \/ low = number - MaxOffset \/ low = 0
    BY ComputeFacts DEF Lowest
  <1> HIDE DEF id, low
  <1>4. id \in {low, last} /\ low <= id /\ last <= id
    BY <1>1, <1>2, <1>3
  <1> QED
    BY <1>4 DEF id, low
-----------------------------------------------------------------------------
(* Types.                                                                  *)

\* One if the L1 block of the current slot was mined.
Mined == IF mined THEN 1 ELSE 0

BlockType == [slot : 0..now, anchor : 0..head]

\* The anchor is refreshed in this slot.
Due == AnchorIsDue(Here.slot)

\* No block is of a slot to come or has an anchor to come, and L1 gets at most
\* one block in a slot.
TypeInv ==
    /\ now \in 0..LastSlot /\ schedule \in [Epochs -> Operators]
    /\ env \in Environments /\ mined \in BOOLEAN /\ iterated \in BOOLEAN
    /\ head \in FirstHead..(FirstHead + now + Mined)
    /\ pending \in [Operators -> SUBSET (FirstHead..head)]
    /\ blockNumber \in [Operators -> FirstHead..head]
    /\ lastAnchorId \in [Operators -> 0..head]
    /\ currentAnchor \in [Operators -> 0..head]
    /\ fetching \in SUBSET (0..head)
    /\ chain \in Seq(BlockType)
    /\ confirmed \in 0..Len(chain) /\ batchAnchor \in 0..head

\* What the types say of the numbers.
LEMMA Numbers ==
    ASSUME TypeInv
    PROVE  /\ now \in Nat /\ now <= LastSlot /\ Mined \in {0, 1}
           /\ FirstHead \in Nat /\ head \in Nat /\ FirstHead <= head
           /\ head <= FirstHead + now + Mined
           /\ batchAnchor \in Nat /\ batchAnchor <= head
           /\ \A o \in Operators :
                 /\ blockNumber[o] \in Nat /\ FirstHead <= blockNumber[o]
                 /\ blockNumber[o] <= head
                 /\ lastAnchorId[o] \in Nat /\ lastAnchorId[o] <= head
                 /\ currentAnchor[o] \in Nat /\ currentAnchor[o] <= head
                 /\ pending[o] \subseteq FirstHead..head
           /\ \A id \in fetching : id \in Nat /\ id <= head
  <1>1. /\ LastSlot \in Nat /\ FirstHead \in Nat
    BY AnchorAssumption
  <1>2. /\ now \in Nat /\ now <= LastSlot /\ Mined \in {0, 1}
    BY <1>1 DEF TypeInv, Mined
  <1>3. head \in Nat /\ FirstHead <= head /\ head <= FirstHead + now + Mined
    BY <1>1, <1>2 DEF TypeInv
  <1>4. ASSUME NEW o \in Operators
        PROVE  /\ blockNumber[o] \in FirstHead..head
               /\ lastAnchorId[o] \in 0..head /\ currentAnchor[o] \in 0..head
               /\ pending[o] \subseteq FirstHead..head
    BY DEF TypeInv
  <1>5. \A i \in FirstHead..head : i \in Nat /\ FirstHead <= i /\ i <= head
    BY <1>1, <1>3
  <1>6. \A i \in 0..head : i \in Nat /\ i <= head
    BY <1>3
  <1>7. batchAnchor \in 0..head /\ fetching \subseteq 0..head
    BY DEF TypeInv
  <1> QED
    BY <1>1, <1>2, <1>3, <1>4, <1>5, <1>6, <1>7

\* What they say of the blocks.
LEMMA BlockFields ==
    ASSUME TypeInv
    PROVE  /\ Len(chain) \in Nat /\ DOMAIN chain = 1..Len(chain)
           /\ \A n \in DOMAIN chain :
                 /\ n \in Nat
                 /\ chain[n].slot \in Nat /\ chain[n].slot <= now /\ chain[n].slot <= LastSlot
                 /\ chain[n].anchor \in Nat /\ chain[n].anchor <= head
  <1>1. chain \in Seq(BlockType)
    BY DEF TypeInv
  <1>2. Len(chain) \in Nat /\ DOMAIN chain = 1..Len(chain)
    BY <1>1
  <1>3. \A n \in DOMAIN chain : chain[n] \in BlockType
    BY <1>1
  <1>4. \A n \in DOMAIN chain : chain[n].slot \in 0..now /\ chain[n].anchor \in 0..head
    BY <1>3 DEF BlockType
  <1>5. now \in Nat /\ head \in Nat /\ now <= LastSlot /\ LastSlot \in Nat
    BY Numbers, AnchorAssumption
  <1>6. \A n \in DOMAIN chain : n \in Nat
    BY <1>2
  <1>7. /\ \A i \in 0..now : i \in Nat /\ i <= now /\ i <= LastSlot
        /\ \A i \in 0..head : i \in Nat /\ i <= head
    BY <1>5
  <1> QED
    BY <1>2, <1>4, <1>6, <1>7

\* What they say of the position.
LEMMA HereNow ==
    ASSUME TypeInv
    PROVE  /\ Here.epoch \in Nat /\ Here.epoch \in Epochs
           /\ Here.slot \in 0..(SlotsPerEpoch - 1)
           /\ Builder \in Operators /\ Builder = schedule[WindowEpoch(At(now))]
  <1>1. now \in 0..LastSlot /\ now \in Nat /\ schedule \in [Epochs -> Operators]
    BY Numbers DEF TypeInv
  <1>2. WindowEpoch(At(now)) \in Epochs /\ At(now).epoch \in Epochs
    BY <1>1, EpochsOfSlots
  <1>3. At(now).epoch \in Nat /\ At(now).slot \in 0..(SlotsPerEpoch - 1)
    BY <1>1, PositionType
  <1>4. Builder = schedule[WindowEpoch(At(now))] /\ Here = At(now)
    BY DEF Builder, Here
  <1> QED
    BY <1>1, <1>2, <1>3, <1>4

\* A sequence of values of a type is one of every wider type.
LEMMA WiderType ==
    ASSUME NEW S, NEW T, S \subseteq T, NEW s \in Seq(S)
    PROVE  s \in Seq(T)
  <1>1. Len(s) \in Nat /\ DOMAIN s = 1..Len(s) /\ \A i \in 1..Len(s) : s[i] \in T
    OBVIOUS
  <1> QED
    BY <1>1

\* The id that is asked for is of a block of L1.
LEMMA RefreshedFacts ==
    ASSUME TypeInv, NEW o \in Operators
    PROVE  /\ RefreshedId(o) \in Nat /\ RefreshedId(o) <= head
           /\ Lowest(blockNumber[o]) <= RefreshedId(o)
           /\ HandoverSlots # 0 =>
                 RefreshedId(o) \in {Lowest(blockNumber[o]), lastAnchorId[o]}
  <1> DEFINE b == blockNumber[o]
             l == lastAnchorId[o]
             id == RefreshedId(o)
             low == Lowest(b)
  <1>1. b \in Nat /\ b <= head /\ l \in Nat /\ l <= head /\ head \in Nat
    BY Numbers
  <1>2. low \in Nat /\ low <= b
    BY <1>1, LowestFacts
  <1>3. CASE Here.slot + HandoverSlots = 0
    <2>1. id = b
      BY <1>3 DEF RefreshedId
    <2>2. HandoverSlots = 0
      BY <1>3, HereNow, SlotsAssumption
    <2> HIDE DEF b, l, id, low
    <2>3. id \in Nat /\ id <= head /\ low <= id
      BY <1>1, <1>2, <2>1
    <2> QED
      BY <2>2, <2>3 DEF b, id, low
  <1>4. CASE Here.slot + HandoverSlots # 0
    <2>1. id = ComputeValidAnchorId(b, l)
      BY <1>4 DEF RefreshedId
    <2>2. ComputeValidAnchorId(b, l) \in {low, l} /\ low <= ComputeValidAnchorId(b, l)
      BY <1>1, ComputeIsLowest
    <2>3. id \in {low, l} /\ low <= id
      BY <2>1, <2>2
    <2> HIDE DEF b, l, id, low
    <2>4. id \in Nat /\ id <= head /\ low <= id
      BY <1>1, <1>2, <2>3
    <2> QED
      BY <2>3, <2>4 DEF b, l, id, low
  <1> QED
    BY <1>3, <1>4
\* Initially all is of its type.
LEMMA TypeInit == Init => TypeInv
  <1> SUFFICES ASSUME Init PROVE TypeInv
    OBVIOUS
  <1>1. /\ now = 0 /\ mined = FALSE /\ Mined = 0 /\ head = FirstHead
        /\ LastSlot \in Nat /\ FirstHead \in Nat
    BY AnchorAssumption DEF Init, Mined
  <1>2. head \in FirstHead..(FirstHead + now + Mined) /\ head \in FirstHead..head /\ 0 \in 0..head
    BY <1>1
  <1>3. Lowest(head) \in 0..head
    BY <1>1, LowestFacts
  <1>4. currentAnchor = [o \in Operators |-> Lowest(head)]
    BY DEF Init, Lowest
  <1>5. chain \in Seq(BlockType) /\ Len(chain) = 0
    BY DEF Init
  <1>6. 0 \in 0..Len(chain)
    BY <1>5
  <1>7. now \in 0..LastSlot
    BY <1>1
  <1> HIDE DEF Lowest
  <1> QED
    BY <1>1, <1>2, <1>3, <1>4, <1>5, <1>6, <1>7 DEF Init, TypeInv

\* What a block of L2 is built on: the anchor that was fetched in this slot, or the
\* current one.
LEMMA BuildFacts ==
    ASSUME TypeInv, Build
    PROVE  /\ currentAnchor' \in [Operators -> 0..head]
           /\ \/ ~Due /\ currentAnchor' = currentAnchor
              \/ currentAnchor'[Builder] \in fetching
           /\ \/ chain' = chain
              \/ /\ chain' \in Seq(BlockType) /\ Len(chain') = Len(chain) + 1
                 /\ \A n \in DOMAIN chain : chain'[n] = chain[n]
                 /\ chain'[Len(chain) + 1].slot = now
                 /\ chain'[Len(chain) + 1].anchor = currentAnchor'[Builder]
  <1>1. Builder \in Operators /\ currentAnchor \in [Operators -> 0..head] /\ fetching \subseteq 0..head
    BY HereNow DEF TypeInv
  <1>2. \/ ~Due /\ currentAnchor' = currentAnchor
        \/ \E id \in fetching : currentAnchor' = [currentAnchor EXCEPT ![Builder] = id]
    BY DEF Build, Due
  <1>3. /\ currentAnchor' \in [Operators -> 0..head]
        /\ \/ ~Due /\ currentAnchor' = currentAnchor
           \/ currentAnchor'[Builder] \in fetching
    BY <1>1, <1>2
  <1> DEFINE a == currentAnchor'[Builder]
             b == [slot |-> now, anchor |-> a]
  <1>4. chain' = chain \/ chain' = Append(chain, b)
    BY DEF Build, BuildOn
  <1>5. a \in 0..head
    BY <1>1, <1>3
  <1>6. b \in BlockType /\ b.slot = now /\ b.anchor = a
    <2> HIDE DEF a
    <2>1. now \in 0..now
      BY Numbers
    <2> QED
      BY <1>5, <2>1 DEF BlockType
  <1> HIDE DEF b
  <1>7. CASE chain' = Append(chain, b)
    <2>1. chain \in Seq(BlockType)
      BY DEF TypeInv
    <2>2. /\ chain' \in Seq(BlockType) /\ Len(chain') = Len(chain) + 1
          /\ \A n \in 1..Len(chain) : chain'[n] = chain[n]
          /\ chain'[Len(chain) + 1] = b
      BY <1>6, <1>7, <2>1, AppendProperties
    <2>3. DOMAIN chain = 1..Len(chain)
      BY <2>1
    <2> QED
      BY <1>3, <1>6, <2>2, <2>3
  <1> QED
    BY <1>3, <1>4, <1>7

\* Every step keeps the types.
LEMMA TypeStep == TypeInv /\ [Next]_vars => TypeInv'
  <1> SUFFICES ASSUME TypeInv, [Next]_vars PROVE TypeInv'
    OBVIOUS
  <1>1. /\ now \in Nat /\ FirstHead \in Nat /\ head \in Nat /\ FirstHead <= head
        /\ head <= FirstHead + now + Mined /\ Mined \in {0, 1} /\ LastSlot \in Nat
    BY Numbers, AnchorAssumption
  <1>2. head \in FirstHead..head /\ head \in 0..head
    BY <1>1
  <1>3. CASE Over \/ UNCHANGED vars
    <2>1. /\ UNCHANGED <<now, schedule, env, head, mined, pending, blockNumber, lastAnchorId>>
          /\ UNCHANGED <<currentAnchor, fetching, iterated, chain, confirmed, batchAnchor>>
      BY <1>3 DEF Over, vars, anchors, l2
    <2>2. BlockType' = BlockType /\ Mined' = Mined
      BY <2>1 DEF BlockType, Mined
    <2> HIDE DEF BlockType, Mined
    <2> QED
      BY <2>1, <2>2 DEF TypeInv
  <1>4. CASE Tick
    <2>1. now' = now + 1 /\ now' \in 0..LastSlot /\ head' = head /\ chain' = chain /\ Mined' = 0
      BY <1>1, <1>4 DEF Tick, l2, Mined
    <2>2. head' \in FirstHead..(FirstHead + now' + Mined')
      BY <1>1, <2>1
    <2>3. BlockType \subseteq BlockType'
      <3>1. 0..now \subseteq 0..now'
        BY <1>1, <2>1
      <3> QED
        BY <2>1, <3>1 DEF BlockType
    <2>4. chain' \in Seq(BlockType')
      <3>1. chain \in Seq(BlockType)
        BY DEF TypeInv
      <3>2. chain \in Seq(BlockType')
        BY <2>3, <3>1, WiderType
      <3> QED
        BY <2>1, <3>2
    <2> QED
      BY <1>4, <2>1, <2>2, <2>4 DEF Tick, TypeInv, anchors, l2
  <1>5. CASE Mine
    <2>1. /\ UNCHANGED <<now, chain>> /\ head' \in {head, head + 1} /\ Mined = 0 /\ Mined' = 1
      BY <1>5 DEF Mine, Mined, l2
    <2>2. /\ head' \in FirstHead..(FirstHead + now' + Mined') /\ head' \in FirstHead..head'
          /\ 0..head \subseteq 0..head' /\ FirstHead..head \subseteq FirstHead..head'
      BY <1>1, <2>1
    <2>3. BlockType \subseteq BlockType'
      BY <2>1, <2>2 DEF BlockType
    <2>4. chain' \in Seq(BlockType')
      <3>1. chain \in Seq(BlockType)
        BY DEF TypeInv
      <3>2. chain \in Seq(BlockType')
        BY <2>3, <3>1, WiderType
      <3> QED
        BY <2>1, <3>2
    <2>5. pending' \in [Operators -> SUBSET (FirstHead..head')]
      BY <1>5, <2>2 DEF Mine, TypeInv
    <2> QED
      BY <1>5, <2>1, <2>2, <2>4, <2>5 DEF Mine, TypeInv, anchors, l2
  <1>6. CASE Refresh
    <2>1. RefreshedId(Builder) \in 0..head
      BY <1>1, HereNow, RefreshedFacts
    <2>2. fetching' \in SUBSET (0..head)
      BY <1>6, <2>1 DEF Refresh
    <2> QED
      BY <1>6, <2>2 DEF Refresh, TypeInv, anchors, l2, Mined, BlockType
  <1>7. CASE Build
    <2>1. /\ UNCHANGED <<now, schedule, env, head, mined, pending, blockNumber, lastAnchorId,
                         confirmed, batchAnchor>>
          /\ iterated' = TRUE /\ fetching' = {}
      BY <1>7 DEF Build
    <2>2. currentAnchor' \in [Operators -> 0..head]
      BY <1>7, BuildFacts
    <2>3. chain' \in Seq(BlockType) /\ Len(chain') \in {Len(chain), Len(chain) + 1}
      BY <1>7, BuildFacts DEF TypeInv
    <2>4. confirmed \in 0..Len(chain')
      BY <2>3, BlockFields DEF TypeInv
    <2>5. BlockType' = BlockType /\ Mined' = Mined
      BY <2>1 DEF BlockType, Mined
    <2> HIDE DEF BlockType, Mined
    <2> QED
      BY <2>1, <2>2, <2>3, <2>4, <2>5 DEF TypeInv
  <1>8. CASE Propose
    <2>1. PICK last \in (confirmed + 1)..Len(chain) :
             confirmed' = last /\ batchAnchor' = chain[last].anchor
      BY <1>8 DEF Propose
    <2>2. confirmed \in Nat /\ Len(chain) \in Nat /\ DOMAIN chain = 1..Len(chain)
      BY BlockFields DEF TypeInv
    <2>3. last \in DOMAIN chain /\ last \in 0..Len(chain)
      BY <2>1, <2>2
    <2>4. chain[last].anchor \in 0..head
      BY <1>1, <2>3, BlockFields
    <2> QED
      BY <1>8, <2>1, <2>3, <2>4 DEF Propose, TypeInv, anchors, Mined, BlockType
  <1>9. ASSUME NEW o \in Operators, Receive(o) PROVE TypeInv'
    <2>1. PICK number \in pending[o] :
             /\ blockNumber' = [blockNumber EXCEPT ![o] = Max({blockNumber[o], number})]
             /\ pending' = [pending EXCEPT ![o] = pending[o] \ {number}]
      BY <1>9 DEF Receive, MergedHeaders, UpdateBlockNumber, TypeInv
    <2>2. number \in FirstHead..head /\ blockNumber[o] \in FirstHead..head
      BY <2>1 DEF TypeInv
    <2>3. Max({blockNumber[o], number}) \in FirstHead..head
      <3>1. number \in Int /\ blockNumber[o] \in Int
        BY <1>1, <2>2
      <3> QED
        BY <2>2, <3>1, MaxOfTwo
    <2>4. blockNumber' \in [Operators -> FirstHead..head]
      BY <2>1, <2>3 DEF TypeInv
    <2>5. pending' \in [Operators -> SUBSET (FirstHead..head)]
      BY <2>1 DEF TypeInv
    <2> QED
      BY <1>9, <2>4, <2>5 DEF Receive, TypeInv, l2, Mined, BlockType
  <1>10. ASSUME NEW o \in Operators, Verify(o) PROVE TypeInv'
    BY <1>10 DEF Verify, TypeInv, l2, Mined, BlockType
  <1>11. ASSUME NEW o \in Operators, Restart(o) PROVE TypeInv'
    <2>1. batchAnchor \in 0..head /\ batchAnchor \in Nat
      BY Numbers DEF TypeInv
    <2>2. ComputeValidAnchorId(head, batchAnchor) \in 0..head
      <3>1. /\ ComputeValidAnchorId(head, batchAnchor) \in {Lowest(head), batchAnchor}
            /\ Lowest(head) \in Nat /\ Lowest(head) <= head
        BY <1>1, <2>1, ComputeIsLowest, LowestFacts
      <3> QED
        BY <1>1, <2>1, <3>1
    <2>3. /\ blockNumber' = [blockNumber EXCEPT ![o] = head]
          /\ pending' = [pending EXCEPT ![o] = {}]
          /\ lastAnchorId' = [lastAnchorId EXCEPT ![o] = batchAnchor]
          /\ currentAnchor' = [currentAnchor EXCEPT ![o] = ComputeValidAnchorId(head, batchAnchor)]
      BY <1>11 DEF Restart
    <2>4. /\ blockNumber' \in [Operators -> FirstHead..head]
          /\ pending' \in [Operators -> SUBSET (FirstHead..head)]
          /\ lastAnchorId' \in [Operators -> 0..head]
          /\ currentAnchor' \in [Operators -> 0..head]
      BY <1>2, <2>1, <2>2, <2>3 DEF TypeInv
    <2>5. fetching' \in {fetching, {}} /\ iterated' \in BOOLEAN
      BY <1>11 DEF Restart, TypeInv
    <2>6. UNCHANGED <<now, schedule, env, head, mined, l2>>
      BY <1>11 DEF Restart
    <2> QED
      BY <2>4, <2>5, <2>6 DEF TypeInv, l2, Mined, BlockType
  <1> QED
    BY <1>3, <1>4, <1>5, <1>6, <1>7, <1>8, <1>9, <1>10, <1>11 DEF Next

\* All variables are of their types; in particular no anchor, chosen, stored or
\* in a block, is of an L1 block to come (compute_valid_anchor_id, anchor.rs,
\* lines 42-54).
THEOREM TypeCorrect == Spec => []TypeOK
  <1>1. TypeInv => TypeOK
    <2> SUFFICES ASSUME TypeInv PROVE TypeOK
      OBVIOUS
    <2>1. /\ now \in Nat /\ now <= LastSlot /\ LastSlot \in Nat /\ FirstHead \in Nat
          /\ head \in Nat /\ FirstHead <= head /\ head <= FirstHead + now + Mined
          /\ Mined \in {0, 1}
      BY Numbers, AnchorAssumption
    <2>2. /\ head \in Heads /\ FirstHead..head \subseteq Heads /\ 0..head \subseteq Ids
          /\ 0..now \subseteq 0..LastSlot
      BY <2>1 DEF Heads, Ids
    <2>3. BlockType \subseteq [slot : 0..LastSlot, anchor : 0..head]
      BY <2>2 DEF BlockType
    <2>4. chain \in Seq([slot : 0..LastSlot, anchor : 0..head])
      BY <2>3, WiderType DEF TypeInv
    <2>5. pending \in [Operators -> SUBSET Heads] /\ blockNumber \in [Operators -> Heads]
      BY <2>2 DEF TypeInv
    <2>6. lastAnchorId \in [Operators -> Ids] /\ currentAnchor \in [Operators -> Ids]
      BY <2>2 DEF TypeInv
    <2>7. \A o \in Operators : blockNumber[o] <= head /\ currentAnchor[o] <= head
      BY Numbers
    <2> QED
      BY <2>2, <2>4, <2>5, <2>6, <2>7 DEF TypeInv, TypeOK
  <1> QED
    BY <1>1, TypeInit, TypeStep, PTL DEF Spec
-----------------------------------------------------------------------------
(* What operators know of L1, and what they do once in a slot.             *)

Late == IF env.late THEN 1 ELSE 0

\* What an operator has not received is on its way, and this is at most the block
\* of the current slot and, if headers come late, of the one before.
HeaderInv ==
    /\ \A o \in Operators, number \in FirstHead..head :
          number > blockNumber[o] => number \in pending[o]
    /\ \A o \in Operators : head <= blockNumber[o] + Mined + Late
    /\ ~env.missed => head = FirstHead + now + Mined

\* A slot has one iteration and the L2 blocks of it one anchor.
OnceInv ==
    /\ ~iterated => \A n \in DOMAIN chain : chain[n].slot < now
    /\ fetching # {} => ~iterated /\ Due

\* Initially every operator knows the head.
LEMMA HeaderInit == Init => HeaderInv /\ OnceInv
  <1> SUFFICES ASSUME Init PROVE HeaderInv /\ OnceInv
    OBVIOUS
  <1>1. /\ now = 0 /\ Mined = 0 /\ head = FirstHead /\ FirstHead \in Nat /\ Late \in {0, 1}
        /\ \A o \in Operators : blockNumber[o] = head
    BY AnchorAssumption DEF Init, Mined, Late
  <1>2. OnceInv
    BY DEF Init, OnceInv
  <1>3. \A number \in FirstHead..head : ~(number > head)
    BY <1>1
  <1> QED
    BY <1>1, <1>2, <1>3 DEF HeaderInv

\* A slot ends when all headers were received that do not come late.
LEMMA TickHeader ==
    ASSUME TypeInv, HeaderInv, Tick
    PROVE  HeaderInv'
  <1>1. /\ now \in Nat /\ FirstHead \in Nat /\ head \in Nat /\ Late \in {0, 1} /\ Late' = Late
        /\ Mined = 1 /\ Mined' = 0
    BY Numbers DEF Late, Mined, Tick, SlotIsOver
  <1>2. UNCHANGED <<env, head, pending, blockNumber>> /\ now' = now + 1
    BY DEF Tick, anchors
  <1>3. ASSUME NEW o \in Operators PROVE head <= blockNumber[o] + Late
    <2>1. blockNumber[o] \in Nat /\ FirstHead <= blockNumber[o]
      BY Numbers
    <2>2. pending[o] \subseteq (IF env.late THEN {head} ELSE {})
      BY DEF Tick, SlotIsOver
    <2>3. \A number \in FirstHead..head : number > blockNumber[o] => number \in pending[o]
      BY DEF HeaderInv
    <2>4. CASE env.late
      <3>1. SUFFICES ASSUME head > blockNumber[o] + 1 PROVE FALSE
        BY <1>1, <2>1, <2>4 DEF Late
      <3>2. head - 1 \in FirstHead..head /\ head - 1 > blockNumber[o]
        BY <1>1, <2>1, <3>1
      <3>3. head - 1 = head
        BY <2>2, <2>3, <2>4, <3>2
      <3> QED
        BY <1>1, <3>3
    <2>5. CASE ~env.late
      <3>1. SUFFICES ASSUME head > blockNumber[o] PROVE FALSE
        BY <1>1, <2>1, <2>5 DEF Late
      <3>2. head \in FirstHead..head
        BY <1>1, <2>1, <3>1
      <3> QED
        BY <2>2, <2>3, <2>5, <3>1, <3>2
    <2> QED
      BY <2>4, <2>5
  <1>4. ASSUME NEW o \in Operators PROVE head' <= blockNumber'[o] + Mined' + Late'
    BY <1>1, <1>2, <1>3, Numbers
  <1>5. ~env.missed => head = FirstHead + (now + 1) + 0
    BY <1>1 DEF HeaderInv
  <1> QED
    BY <1>1, <1>2, <1>4, <1>5 DEF HeaderInv

\* Every step keeps what they know.
LEMMA HeaderStep ==
    ASSUME TypeInv, HeaderInv, [Next]_vars
    PROVE  HeaderInv'
  <1>1. /\ now \in Nat /\ FirstHead \in Nat /\ head \in Nat /\ Late \in {0, 1}
        /\ Mined \in {0, 1} /\ FirstHead <= head
        /\ \A o \in Operators : blockNumber[o] \in Nat /\ blockNumber[o] <= head
    BY Numbers DEF Late
  <1>2. CASE Tick
    BY <1>2, TickHeader
  <1>3. CASE UNCHANGED <<now, env, head, mined, pending, blockNumber>>
    BY <1>3 DEF HeaderInv, Mined, Late
  <1>4. CASE Mine
    <2>1. UNCHANGED <<now, env, blockNumber>> /\ Mined = 0 /\ Mined' = 1 /\ Late' = Late
      BY <1>4 DEF Mine, Mined, Late, anchors
    <2>2. CASE head' = head + 1 /\ pending' = [o \in Operators |-> pending[o] \cup {head'}]
      <3>1. ASSUME NEW o \in Operators, NEW number \in FirstHead..head', number > blockNumber'[o]
            PROVE  number \in pending'[o]
        <4>1. number \in FirstHead..head \/ number = head'
          BY <1>1, <2>2
        <4>2. number \in FirstHead..head => number \in pending[o]
          BY <2>1, <3>1 DEF HeaderInv
        <4> QED
          BY <2>2, <4>1, <4>2
      <3>2. \A o \in Operators : head' <= blockNumber'[o] + Mined' + Late'
        BY <1>1, <2>1, <2>2 DEF HeaderInv
      <3>3. ~env'.missed => head' = FirstHead + now' + Mined'
        BY <1>1, <2>1, <2>2 DEF HeaderInv
      <3> QED
        BY <3>1, <3>2, <3>3 DEF HeaderInv
    <2>3. CASE env.missed /\ UNCHANGED <<head, pending>>
      <3>1. \A o \in Operators : head' <= blockNumber'[o] + Mined' + Late'
        BY <1>1, <2>1, <2>3 DEF HeaderInv
      <3> QED
        BY <2>1, <2>3, <3>1 DEF HeaderInv
    <2> QED
      BY <1>4, <2>2, <2>3 DEF Mine
  <1>5. ASSUME NEW o \in Operators, Receive(o) PROVE HeaderInv'
    <2>1. PICK received \in pending[o] :
             /\ blockNumber' = [blockNumber EXCEPT ![o] = Max({blockNumber[o], received})]
             /\ pending' = [pending EXCEPT ![o] = pending[o] \ {received}]
      BY <1>5 DEF Receive, MergedHeaders, UpdateBlockNumber, TypeInv
    <2>2. UNCHANGED <<now, env, head, mined>>
      BY <1>5 DEF Receive
    <2>3. received \in Nat
      BY <1>1, <2>1, Numbers
    <2>4. /\ Max({blockNumber[o], received}) \in Nat
          /\ blockNumber[o] <= Max({blockNumber[o], received})
          /\ received <= Max({blockNumber[o], received})
      BY <1>1, <2>3, MaxOfTwo
    <2>5. blockNumber \in [Operators -> FirstHead..head] /\ pending \in [Operators -> SUBSET (FirstHead..head)]
      BY DEF TypeInv
    <2>6. /\ \A p \in Operators : blockNumber'[p] \in Nat /\ blockNumber[p] <= blockNumber'[p]
          /\ received <= blockNumber'[o]
      BY <1>1, <2>1, <2>4, <2>5
    <2>7. ASSUME NEW p \in Operators, NEW number \in FirstHead..head, number > blockNumber'[p]
          PROVE  number \in pending'[p]
      <3>1. number \in Nat /\ number > blockNumber[p]
        BY <1>1, <2>6, <2>7
      <3>2. number \in pending[p]
        BY <3>1 DEF HeaderInv
      <3>3. p = o => number # received
        BY <2>3, <2>6, <2>7, <3>1
      <3> QED
        BY <2>1, <2>5, <3>2, <3>3
    <2>8. Mined' = Mined /\ Late' = Late
      BY <2>2 DEF Mined, Late
    <2>9. \A p \in Operators : head <= blockNumber'[p] + Mined + Late
      BY <1>1, <2>6 DEF HeaderInv
    <2> QED
      BY <2>2, <2>7, <2>8, <2>9 DEF HeaderInv
  <1>6. ASSUME NEW o \in Operators, Restart(o) PROVE HeaderInv'
    <2>1. /\ blockNumber' = [blockNumber EXCEPT ![o] = head]
          /\ pending' = [pending EXCEPT ![o] = {}]
          /\ UNCHANGED <<now, env, head, mined>>
      BY <1>6 DEF Restart
    <2>2. blockNumber \in [Operators -> FirstHead..head] /\ pending \in [Operators -> SUBSET (FirstHead..head)]
      BY DEF TypeInv
    <2>3. ASSUME NEW p \in Operators, NEW number \in FirstHead..head, number > blockNumber'[p]
          PROVE  number \in pending'[p]
      <3>1. p # o
        BY <1>1, <2>1, <2>2, <2>3
      <3> QED
        BY <2>1, <2>2, <2>3, <3>1 DEF HeaderInv
    <2>4. \A p \in Operators : blockNumber'[p] = head \/ blockNumber'[p] = blockNumber[p]
      BY <2>1, <2>2
    <2>5. \A p \in Operators : head <= blockNumber'[p] + Mined + Late
      BY <1>1, <2>4 DEF HeaderInv
    <2>6. Mined' = Mined /\ Late' = Late
      BY <2>1 DEF Mined, Late
    <2> QED
      BY <2>1, <2>3, <2>5, <2>6 DEF HeaderInv
  <1> QED
    BY <1>2, <1>3, <1>4, <1>5, <1>6
    DEF Next, Over, vars, Refresh, Build, Propose, Verify, anchors

\* Every step keeps that there is one iteration.
LEMMA OnceStep ==
    ASSUME TypeInv, OnceInv, [Next]_vars
    PROVE  OnceInv'
  <1>1. now \in Nat /\ \A n \in DOMAIN chain : chain[n].slot \in Nat /\ chain[n].slot <= now
    BY Numbers, BlockFields
  <1>2. CASE Tick
    <2>1. now' = now + 1 /\ chain' = chain /\ fetching' = {}
      BY <1>2 DEF Tick, SlotIsOver, l2
    <2> QED
      BY <1>1, <2>1 DEF OnceInv
  <1>3. CASE Build
    BY <1>3 DEF Build, OnceInv
  <1>4. CASE Refresh
    BY <1>4 DEF Refresh, OnceInv, Due, Here, At, l2
  <1>5. ASSUME NEW o \in Operators, Restart(o) PROVE OnceInv'
    BY <1>5 DEF Restart, OnceInv, Due, Here, At, l2
  <1>6. CASE UNCHANGED <<now, iterated, fetching, chain>>
    BY <1>6 DEF OnceInv, Due, Here, At
  <1> QED
    BY <1>2, <1>3, <1>4, <1>5, <1>6
    DEF Next, Over, vars, Mine, Propose, Receive, Verify, anchors, l2
-----------------------------------------------------------------------------
(* The inbox accepts the anchors until the epoch ends.                     *)

\* An anchor, in a window that began at start, is older than the refresh made it
\* by the slots of the window so far.
Fresh(id, start) == head <= id + AnchorIdLag + 1 + (now - start) + Mined

\* The anchor that the next block is built on is so, unless the refresh of this
\* slot is still to come; and the anchor of a block, from its window on.
FreshInv ==
    /\ iterated \/ ~Due => Fresh(currentAnchor[Builder], WindowStart(now))
    /\ \A id \in fetching : Fresh(id, WindowStart(now))
    /\ \A n \in DOMAIN chain : Fresh(chain[n].anchor, WindowStart(chain[n].slot))

\* A refresh is due in the slots in which a new window may begin.
LEMMA NotDueMeansSameWindow ==
    ASSUME NEW n \in Nat, Aligned, ~AnchorIsDue(At(n + 1).slot)
    PROVE  WindowEpoch(At(n + 1)) = WindowEpoch(At(n))
  BY WindowsBeginDue DEF Phase, AnchorIsDue

\* An anchor not more than the lag before what its operator knows of L1 is fresh.
LEMMA RefreshedIsFresh ==
    ASSUME TypeInv, HeaderInv, NEW o \in Operators, NEW id \in Nat,
           Lowest(blockNumber[o]) <= id
    PROVE  Fresh(id, WindowStart(now))
  <1> DEFINE b == blockNumber[o]
             start == WindowStart(now)
             low == Lowest(b)
  <1>1. /\ now \in Nat /\ head \in Nat /\ b \in Nat /\ Mined \in {0, 1} /\ Late \in {0, 1}
        /\ AnchorIdLag \in Nat
    BY Numbers, AnchorAssumption DEF Late
  <1>2. start \in Int /\ start <= now
    BY <1>1, WindowBounds
  <1>3. low \in Nat /\ b <= low + AnchorIdLag /\ low <= id
    BY <1>1, LowestFacts
  <1>4. head <= b + Mined + Late
    BY DEF HeaderInv
  <1> HIDE DEF b, start, low
  <1>5. head <= id + AnchorIdLag + 1 + (now - start) + Mined
    BY <1>1, <1>2, <1>3, <1>4
  <1> QED
    BY <1>5 DEF Fresh, start

\* Initially the anchors are those of the head.
LEMMA FreshInit == Init => FreshInv
  <1> SUFFICES ASSUME Init PROVE FreshInv
    OBVIOUS
  <1>1. TypeInv /\ HeaderInv
    BY TypeInit, HeaderInit
  <1>2. Builder \in Operators
    BY <1>1, HereNow
  <1>3. head \in Nat /\ Lowest(head) \in Nat
    BY <1>1, Numbers, LowestFacts
  <1>4. currentAnchor[Builder] = Lowest(head) /\ blockNumber[Builder] = head
    BY <1>2 DEF Init, Lowest
  <1>5. Lowest(blockNumber[Builder]) <= Lowest(head)
    BY <1>3, <1>4
  <1>6. Fresh(Lowest(head), WindowStart(now))
    BY <1>1, <1>2, <1>3, <1>5, RefreshedIsFresh
  <1> QED
    BY <1>4, <1>6 DEF Init, FreshInv

\* In the next slot, and with the next L1 block, an anchor is as fresh as before.
LEMMA FreshLater ==
    ASSUME TypeInv, NEW id \in Nat, NEW start \in Int, Fresh(id, start),
           \/ Tick
           \/ Mine
    PROVE  head' <= id + AnchorIdLag + 1 + (now' - start) + Mined'
  <1>1. now \in Nat /\ head \in Nat /\ AnchorIdLag \in Nat
    BY Numbers, AnchorAssumption
  <1>2. head <= id + AnchorIdLag + 1 + (now - start) + Mined
    BY DEF Fresh
  <1>3. CASE Tick
    <2>1. now' = now + 1 /\ head' = head /\ Mined = 1 /\ Mined' = 0
      BY <1>3 DEF Tick, SlotIsOver, Mined
    <2>2. head' <= id + AnchorIdLag + 1 + (now' - start) + Mined'
      BY <1>1, <1>2, <2>1
    <2> QED
      BY <2>2
  <1>4. CASE Mine
    <2>1. now' = now /\ head' \in {head, head + 1} /\ Mined = 0 /\ Mined' = 1
      BY <1>4 DEF Mine, Mined
    <2>2. head' <= id + AnchorIdLag + 1 + (now' - start) + Mined'
      BY <1>1, <1>2, <2>1
    <2> QED
      BY <2>2
  <1> QED
    BY <1>3, <1>4

\* Every step keeps the anchors fresh.
LEMMA FreshStep ==
    ASSUME Aligned, TypeInv, HeaderInv, OnceInv, FreshInv, [Next]_vars
    PROVE  FreshInv'
  <1>1. /\ now \in Nat /\ head \in Nat /\ Builder \in Operators
        /\ currentAnchor[Builder] \in Nat /\ WindowStart(now) \in Int
        /\ \A id \in fetching : id \in Nat
    BY Numbers, HereNow, WindowBounds
  <1>2. \A n \in DOMAIN chain :
           /\ n \in Nat /\ chain[n].slot \in Nat /\ chain[n].anchor \in Nat
           /\ WindowStart(chain[n].slot) \in Int
    BY BlockFields, WindowBounds
  <1>3. CASE Tick
    <2>1. /\ now' = now + 1 /\ iterated /\ ~iterated' /\ fetching' = {}
          /\ UNCHANGED <<schedule, currentAnchor, chain>>
      BY <1>3 DEF Tick, SlotIsOver, anchors, l2
    <2>2. ASSUME NEW n \in DOMAIN chain
          PROVE  Fresh(chain[n].anchor, WindowStart(chain[n].slot))'
      <3> DEFINE id == chain[n].anchor
                 start == WindowStart(chain[n].slot)
      <3>1. id \in Nat /\ start \in Int /\ Fresh(id, start)
        BY <1>2 DEF FreshInv
      <3>2. id' = id /\ start' = start
        BY <2>1 DEF WindowStart, At
      <3> HIDE DEF id, start
      <3>3. head' <= id + AnchorIdLag + 1 + (now' - start) + Mined'
        BY <1>3, <3>1, FreshLater
      <3>4. Fresh(id, start)'
        BY <3>2, <3>3 DEF Fresh
      <3> QED
        BY <3>4 DEF id, start
    <2>3. ASSUME ~Due' PROVE Fresh(currentAnchor[Builder], WindowStart(now))'
      <3> DEFINE id == currentAnchor[Builder]
                 start == WindowStart(now)
      <3>1. ~AnchorIsDue(At(now + 1).slot)
        BY <2>1, <2>3 DEF Due, Here, AnchorIsDue, At
      <3>2. WindowEpoch(At(now + 1)) = WindowEpoch(At(now))
        BY <1>1, <3>1, NotDueMeansSameWindow
      <3>3. id' = id /\ start' = start
        BY <2>1, <3>2 DEF Builder, Here, At, WindowStart, WindowEpoch, WithinHandoverPeriod
      <3>4. id \in Nat /\ start \in Int /\ Fresh(id, start)
        BY <1>1, <2>1 DEF FreshInv
      <3> HIDE DEF id, start
      <3>5. head' <= id + AnchorIdLag + 1 + (now' - start) + Mined'
        BY <1>3, <3>4, FreshLater
      <3>6. Fresh(id, start)'
        BY <3>3, <3>5 DEF Fresh
      <3> QED
        BY <3>6 DEF id, start
    <2> QED
      BY <2>1, <2>2, <2>3 DEF FreshInv
  <1>4. CASE Mine
    <2>1. UNCHANGED <<now, schedule, iterated, fetching, currentAnchor, chain>>
      BY <1>4 DEF Mine, anchors, l2
    <2>2. Due' = Due /\ Builder' = Builder /\ WindowStart(now)' = WindowStart(now)
      BY <2>1 DEF Due, Builder, Here, AnchorIsDue, At, WindowStart, WindowEpoch, WithinHandoverPeriod
    <2>3. ASSUME NEW n \in DOMAIN chain
          PROVE  Fresh(chain[n].anchor, WindowStart(chain[n].slot))'
      <3> DEFINE id == chain[n].anchor
                 start == WindowStart(chain[n].slot)
      <3>1. id \in Nat /\ start \in Int /\ Fresh(id, start)
        BY <1>2 DEF FreshInv
      <3>2. id' = id /\ start' = start
        BY <2>1 DEF WindowStart, At
      <3> HIDE DEF id, start
      <3>3. head' <= id + AnchorIdLag + 1 + (now' - start) + Mined'
        BY <1>4, <3>1, FreshLater
      <3>4. Fresh(id, start)'
        BY <3>2, <3>3 DEF Fresh
      <3> QED
        BY <3>4 DEF id, start
    <2>4. ASSUME NEW id \in Nat, Fresh(id, WindowStart(now))
          PROVE  Fresh(id, WindowStart(now))'
      <3> DEFINE start == WindowStart(now)
      <3>1. start \in Int /\ Fresh(id, start) /\ start' = start
        BY <1>1, <2>2, <2>4
      <3> HIDE DEF start
      <3>2. head' <= id + AnchorIdLag + 1 + (now' - start) + Mined'
        BY <1>4, <3>1, FreshLater
      <3>3. Fresh(id, start)'
        BY <3>1, <3>2 DEF Fresh
      <3> QED
        BY <3>3 DEF start
    <2>5. iterated \/ ~Due => Fresh(currentAnchor[Builder], WindowStart(now))'
      <3> DEFINE id == currentAnchor[Builder]
      <3>1. id \in Nat /\ id' = id
        BY <1>1, <2>1, <2>2
      <3>2. iterated \/ ~Due => Fresh(id, WindowStart(now))
        BY DEF FreshInv
      <3> HIDE DEF id
      <3>3. iterated \/ ~Due => Fresh(id, WindowStart(now))'
        BY <2>4, <3>1, <3>2 DEF Fresh
      <3> QED
        BY <3>3 DEF id
    <2>6. ASSUME NEW id \in fetching PROVE Fresh(id, WindowStart(now))'
      BY <1>1, <2>4, <2>6 DEF FreshInv
    <2> HIDE DEF Due
    <2> QED
      BY <2>1, <2>2, <2>3, <2>5, <2>6 DEF FreshInv
  <1>5. CASE UNCHANGED <<now, schedule, head, mined, fetching, iterated, currentAnchor, chain>>
    BY <1>5 DEF FreshInv, Fresh, Mined, Due, Builder, Here, AnchorIsDue, At, WindowStart,
                WindowEpoch, WithinHandoverPeriod
  <1>6. CASE UNCHANGED <<now, schedule, head, mined>>
    <2>1. /\ Due' = Due /\ Builder' = Builder /\ WindowStart(now)' = WindowStart(now)
          /\ \A id, start : Fresh(id, start)' <=> Fresh(id, start)
      BY <1>6 DEF Due, Builder, Here, AnchorIsDue, At, WindowStart, WindowEpoch,
                  WithinHandoverPeriod, Fresh, Mined
    <2>2. \A slot : WindowStart(slot)' = WindowStart(slot)
      BY DEF WindowStart, At
    <2> HIDE DEF Due, Builder, Fresh, WindowStart
    <2>3. CASE Refresh
      <3>1. /\ UNCHANGED <<iterated, currentAnchor, chain>> /\ fetching' = {RefreshedId(Builder)}
        BY <2>3 DEF Refresh, anchors, l2
      <3>2. Fresh(RefreshedId(Builder), WindowStart(now))
        BY <1>1, RefreshedFacts, RefreshedIsFresh
      <3> QED
        BY <1>6, <2>1, <2>2, <3>1, <3>2 DEF FreshInv
    <2>4. CASE Build
      <3> DEFINE a == currentAnchor'[Builder]
      <3>1. fetching' = {}
        BY <2>4 DEF Build
      <3>2. /\ \/ ~Due /\ currentAnchor' = currentAnchor
               \/ a \in fetching
            /\ \/ chain' = chain
               \/ /\ chain' \in Seq(BlockType) /\ Len(chain') = Len(chain) + 1
                  /\ \A n \in DOMAIN chain : chain'[n] = chain[n]
                  /\ chain'[Len(chain) + 1].slot = now
                  /\ chain'[Len(chain) + 1].anchor = a
        BY <2>4, BuildFacts
      <3>3. Fresh(a, WindowStart(now))
        BY <3>2 DEF FreshInv
      <3> HIDE DEF a
      <3>4. ASSUME NEW n \in DOMAIN chain' PROVE Fresh(chain'[n].anchor, WindowStart(chain'[n].slot))
        <4>1. CASE chain' = chain
          BY <3>4, <4>1 DEF FreshInv
        <4>2. CASE chain' # chain
          <5>1. Len(chain) \in Nat /\ DOMAIN chain = 1..Len(chain)
            BY BlockFields
          <5>2. DOMAIN chain' = 1..(Len(chain) + 1)
            BY <3>2, <4>2
          <5>3. n \in DOMAIN chain \/ n = Len(chain) + 1
            BY <3>4, <5>1, <5>2
          <5> QED
            BY <3>2, <3>3, <4>2, <5>3 DEF FreshInv
        <4> QED
          BY <4>1, <4>2
      <3>5. Fresh(currentAnchor[Builder], WindowStart(now))'
        BY <2>1, <3>3 DEF a
      <3>6. (\A n \in DOMAIN chain : Fresh(chain[n].anchor, WindowStart(chain[n].slot)))'
        BY <2>1, <2>2, <3>4
      <3> QED
        BY <3>1, <3>5, <3>6 DEF FreshInv
    <2>5. ASSUME NEW o \in Operators, Restart(o) PROVE FreshInv'
      <3> DEFINE id == ComputeValidAnchorId(head, batchAnchor)
      <3>1. /\ currentAnchor' = [currentAnchor EXCEPT ![o] = id] /\ chain' = chain
            /\ \/ o = Builder /\ fetching' = {}
               \/ UNCHANGED <<fetching, iterated>>
        BY <2>5 DEF Restart, l2
      <3>2. Fresh(id, WindowStart(now))
        <4>1. /\ head \in Nat /\ batchAnchor \in Nat
              /\ blockNumber[o] \in Nat /\ blockNumber[o] <= head
          BY Numbers
        <4>2. /\ id \in {Lowest(head), batchAnchor} /\ Lowest(head) <= id
              /\ Lowest(head) \in Nat /\ Lowest(blockNumber[o]) <= Lowest(head)
              /\ Lowest(blockNumber[o]) \in Nat
          BY <4>1, ComputeIsLowest, LowestFacts
        <4> HIDE DEF id
        <4>3. id \in Nat /\ Lowest(blockNumber[o]) <= id
          BY <4>1, <4>2
        <4> QED
          BY <4>3, RefreshedIsFresh
      <3> HIDE DEF id
      <3>3. currentAnchor \in [Operators -> 0..head]
        BY DEF TypeInv
      <3>4. CASE o = Builder
        <4>1. currentAnchor'[Builder] = id
          BY <3>1, <3>3, <3>4
        <4>2. fetching' \subseteq fetching
          BY <3>1
        <4>3. Fresh(currentAnchor[Builder], WindowStart(now))'
          BY <2>1, <3>2, <4>1
        <4> QED
          BY <2>1, <2>2, <3>1, <4>2, <4>3 DEF FreshInv
      <3>5. CASE o # Builder
        <4>1. currentAnchor'[Builder] = currentAnchor[Builder] /\ UNCHANGED <<fetching, iterated>>
          BY <3>1, <3>3, <3>5
        <4> QED
          BY <1>6, <2>1, <2>2, <3>1, <4>1 DEF FreshInv
      <3> QED
        BY <3>4, <3>5
    <2>6. CASE UNCHANGED <<fetching, iterated, currentAnchor, chain>>
      BY <1>5, <1>6, <2>6
    <2> QED
      BY <1>3, <1>4, <2>3, <2>4, <2>5, <2>6
      DEF Next, Over, vars, Propose, Receive, Verify, anchors, l2
  <1>7. UNCHANGED <<now, schedule, head, mined>> \/ Tick \/ Mine
    BY DEF Next, Over, vars, Refresh, Build, Propose, Receive, Verify, Restart
  <1> QED
    BY <1>3, <1>4, <1>6, <1>7

\* The maximal offset leaves room for the lag of the anchor, for the slots of a
\* window and for those of the epoch after it.
Roomy == MaxOffset >= SlotsPerEpoch + HandoverSlots + AnchorIdLag + 1

\* The invariants that the proof needs hold.
LEMMA FreshCorrect == Aligned => (Spec => [](TypeInv /\ FreshInv))
  <1>1. ASSUME Aligned PROVE Spec => [](TypeInv /\ FreshInv)
    <2> DEFINE Inv == TypeInv /\ HeaderInv /\ OnceInv /\ FreshInv
    <2>1. Init => Inv
      BY TypeInit, HeaderInit, FreshInit
    <2>2. Inv /\ [Next]_vars => Inv'
      BY <1>1, TypeStep, HeaderStep, OnceStep, FreshStep
    <2>3. Spec => []Inv
      BY <2>1, <2>2, PTL DEF Spec
    <2> QED
      BY <2>3, PTL
  <1> QED
    BY <1>1

\* Until the epoch that a block may be proposed in ends, the inbox accepts its
\* anchor (update, anchor.rs, lines 95-110, at the refreshes of the
\* preconfirmation loop, lines 99-106), if epochs are aligned with the refreshes and the
\* maximal offset is roomy.
THEOREM AcceptableCorrect == Aligned /\ Roomy => (Spec => []AcceptableToTheEnd)
  <1>1. ASSUME Aligned, Roomy PROVE Spec => []AcceptableToTheEnd
    <2>1. TypeInv /\ FreshInv => AcceptableToTheEnd
      <3>1. SUFFICES ASSUME TypeInv, FreshInv, NEW n \in DOMAIN chain,
                            Here.epoch <= WindowEpoch(At(chain[n].slot))
                     PROVE  chain[n].anchor + MaxOffset >= head
        BY DEF AcceptableToTheEnd
      <3> DEFINE start == WindowStart(chain[n].slot)
                 a == chain[n].anchor
      <3>2. /\ now \in Nat /\ head \in Nat /\ a \in Nat /\ chain[n].slot \in Nat
            /\ Mined \in {0, 1} /\ SlotsPerEpoch \in Nat /\ HandoverSlots \in Nat
            /\ AnchorIdLag \in Nat /\ MaxOffset \in Nat
        BY <3>1, Numbers, BlockFields, SlotsAssumption, AnchorAssumption
      <3>3. start \in Int /\ now < start + HandoverSlots + SlotsPerEpoch
        BY <3>1, <3>2, WindowBounds, EpochOfWindowEnds DEF Here
      <3>4. head <= a + AnchorIdLag + 1 + (now - start) + Mined
        BY <3>1 DEF FreshInv, Fresh
      <3>5. MaxOffset >= SlotsPerEpoch + HandoverSlots + AnchorIdLag + 1
        BY <1>1 DEF Roomy
      <3> HIDE DEF start, a
      <3>6. a + MaxOffset >= head
        BY <3>2, <3>3, <3>4, <3>5
      <3> QED
        BY <3>6 DEF a
    <2>2. Spec => [](TypeInv /\ FreshInv)
      BY <1>1, FreshCorrect
    <2> QED
      BY <2>1, <2>2, PTL
  <1> QED
    BY <1>1
-----------------------------------------------------------------------------
(* The anchors of L2 blocks never go back.                                 *)

\* No anchor, of a batch, known or stored, or of a block, is higher.
AtMost(id) ==
    /\ batchAnchor <= id
    /\ \A o \in Operators : lastAnchorId[o] <= id /\ currentAnchor[o] <= id
    /\ \A n \in DOMAIN chain : chain[n].anchor <= id

\* All anchors are at most the one chosen at the head of L1.
BoundInv == AtMost(Lowest(head)) /\ \A id \in fetching : id <= Lowest(head)

\* The anchor of the next block would not be before one of the others.
Covers(id) == \A n \in DOMAIN chain : chain[n].anchor <= id

\* The one that the next block is built on, unless the refresh of this slot is
\* still to come, and the one that the refresh fetches.
CoverInv ==
    /\ iterated \/ ~Due => Covers(currentAnchor[Builder])
    /\ \A id \in fetching : Covers(id)

\* Where headers come in their slot, every operator chooses anchors that are not
\* before those of the slots so far.
EarlierInv ==
    ~env.late => \A n \in DOMAIN chain, o \in Operators :
                    chain[n].slot < now => chain[n].anchor <= Lowest(blockNumber[o])

\* The slots since the last refresh.
SinceRefresh == IF iterated \/ ~Due THEN Phase(now) ELSE AnchorIdLag

\* The head of L1 at the end of the slot of the last refresh, if no L1 slot is
\* missed.
HeadThen == IF now + 1 >= SinceRefresh THEN FirstHead + now + 1 - SinceRefresh
            ELSE FirstHead

\* Where headers come late, all anchors are from the last refresh or before it.
LateInv == env.late => AtMost(Lowest(HeadThen))

\* Headers come late only where every L1 slot has its block, nobody restarts, and
\* a refresh is not due in every slot.
LateIsCalm ==
    \A e \in Environments : e.late => ~e.missed /\ ~e.restarts /\ AnchorIdLag >= 2

OrderInv == BoundInv /\ CoverInv /\ EarlierInv /\ LateInv /\ AnchorsGrow

\* Everything that these proofs use of a state.
AllInv == TypeInv /\ HeaderInv /\ OnceInv /\ OrderInv

\* Initially no anchor is higher than the ones that were chosen.
LEMMA OrderInit == Init => OrderInv
  <1> SUFFICES ASSUME Init PROVE OrderInv
    OBVIOUS
  <1>1. /\ FirstHead \in Nat /\ head = FirstHead /\ now = 0 /\ chain = <<>> /\ fetching = {}
        /\ batchAnchor = 0 /\ \A o \in Operators : lastAnchorId[o] = 0
        /\ \A o \in Operators : currentAnchor[o] = Lowest(head)
    BY AnchorAssumption DEF Init, Lowest
  <1>2. Lowest(head) \in Nat
    BY <1>1, LowestFacts
  <1>3. AtMost(Lowest(head))
    BY <1>1, <1>2 DEF AtMost
  <1>4. SinceRefresh \in Nat
    <2>1. AnchorIdLag \in Nat /\ AnchorIdLag > 0 /\ HandoverSlots \in Nat /\ 0 \in Nat
      BY AnchorAssumption, SlotsAssumption
    <2>2. At(0).slot \in Nat
      BY <2>1, PositionType, SlotsAssumption
    <2>3. (At(0).slot + HandoverSlots) % AnchorIdLag \in Nat
      BY <2>1, <2>2
    <2> QED
      BY <1>1, <2>1, <2>3 DEF SinceRefresh, Phase
  <1>5. ~iterated /\ (~Due \/ SinceRefresh = AnchorIdLag)
    BY DEF Init, SinceRefresh
  <1>6. HeadThen \in Nat /\ FirstHead <= HeadThen
    BY <1>1, <1>4 DEF HeadThen
  <1>7. Lowest(head) <= Lowest(HeadThen) /\ Lowest(HeadThen) \in Nat
    BY <1>1, <1>6, LowestFacts
  <1>8. AtMost(Lowest(HeadThen))
    BY <1>1, <1>2, <1>7 DEF AtMost
  <1> QED
    BY <1>1, <1>3, <1>8
    DEF OrderInv, BoundInv, CoverInv, Covers, EarlierInv, LateInv, AnchorsGrow

\* A step leaves all anchors at most a given one, if the ones that it may store
\* are.
LEMMA AtMostStep ==
    ASSUME TypeInv, [Next]_vars, NEW most \in Nat, AtMost(most),
           Build => \A id \in fetching : id <= most,
           \A o \in Operators : Restart(o) => ComputeValidAnchorId(head, batchAnchor) <= most
    PROVE  AtMost(most)'
  <1>1. UNCHANGED <<batchAnchor, lastAnchorId, currentAnchor, chain>> => AtMost(most)'
    BY DEF AtMost
  <1>2. CASE Build
    <2> DEFINE a == currentAnchor'[Builder]
    <2>1. UNCHANGED <<batchAnchor, lastAnchorId>>
      BY <1>2 DEF Build
    <2>2. Builder \in Operators /\ currentAnchor \in [Operators -> 0..head]
      BY HereNow DEF TypeInv
    <2>3. \/ UNCHANGED currentAnchor
          \/ \E id \in fetching : currentAnchor' = [currentAnchor EXCEPT ![Builder] = id]
      BY <1>2 DEF Build
    <2>4. \A o \in Operators : currentAnchor'[o] <= most
      BY <1>2, <2>2, <2>3 DEF AtMost
    <2>5. /\ \/ chain' = chain
             \/ /\ chain' \in Seq(BlockType) /\ Len(chain') = Len(chain) + 1
                /\ \A n \in DOMAIN chain : chain'[n] = chain[n]
                /\ chain'[Len(chain) + 1].slot = now
                /\ chain'[Len(chain) + 1].anchor = a
      BY <1>2, BuildFacts
    <2>6. a <= most
      BY <2>2, <2>4
    <2> HIDE DEF a
    <2>7. ASSUME NEW n \in DOMAIN chain' PROVE chain'[n].anchor <= most
      <3>1. CASE chain' = chain
        BY <2>7, <3>1 DEF AtMost
      <3>2. CASE chain' # chain
        <4>1. Len(chain) \in Nat /\ DOMAIN chain = 1..Len(chain)
          BY BlockFields
        <4>2. DOMAIN chain' = 1..(Len(chain) + 1)
          BY <2>5, <3>2
        <4>3. n \in DOMAIN chain \/ n = Len(chain) + 1
          BY <2>7, <4>1, <4>2
        <4> QED
          BY <2>5, <2>6, <3>2, <4>3 DEF AtMost
      <3> QED
        BY <3>1, <3>2
    <2> QED
      BY <2>1, <2>4, <2>7 DEF AtMost
  <1>3. CASE Propose
    <2>1. PICK last \in (confirmed + 1)..Len(chain) : batchAnchor' = chain[last].anchor
      BY <1>3 DEF Propose
    <2>2. last \in DOMAIN chain
      BY <2>1, BlockFields DEF TypeInv
    <2> QED
      BY <1>3, <2>1, <2>2 DEF Propose, AtMost, anchors
  <1>4. ASSUME NEW o \in Operators, Verify(o) PROVE AtMost(most)'
    <2>1. /\ lastAnchorId' = [lastAnchorId EXCEPT ![o] = batchAnchor]
          /\ UNCHANGED <<currentAnchor, batchAnchor, chain>>
      BY <1>4 DEF Verify, l2
    <2>2. lastAnchorId \in [Operators -> 0..head]
      BY DEF TypeInv
    <2>3. \A p \in Operators : lastAnchorId'[p] = batchAnchor \/ lastAnchorId'[p] = lastAnchorId[p]
      BY <2>1, <2>2
    <2> QED
      BY <2>1, <2>3 DEF AtMost
  <1>5. ASSUME NEW o \in Operators, Restart(o) PROVE AtMost(most)'
    <2> DEFINE id == ComputeValidAnchorId(head, batchAnchor)
    <2>1. /\ lastAnchorId' = [lastAnchorId EXCEPT ![o] = batchAnchor]
          /\ currentAnchor' = [currentAnchor EXCEPT ![o] = id]
          /\ UNCHANGED <<batchAnchor, chain>> /\ id <= most
      BY <1>5 DEF Restart, l2
    <2>2. lastAnchorId \in [Operators -> 0..head] /\ currentAnchor \in [Operators -> 0..head]
      BY DEF TypeInv
    <2> HIDE DEF id
    <2>3. \A p \in Operators :
             /\ lastAnchorId'[p] = batchAnchor \/ lastAnchorId'[p] = lastAnchorId[p]
             /\ currentAnchor'[p] = id \/ currentAnchor'[p] = currentAnchor[p]
      BY <2>1, <2>2
    <2> QED
      BY <2>1, <2>3 DEF AtMost
  <1> QED
    BY <1>1, <1>2, <1>3, <1>4, <1>5
    DEF Next, Over, vars, Tick, Mine, Refresh, Receive, anchors, l2

\* After a restart the anchor is the one chosen at the head.
LEMMA RestartIsLowest ==
    ASSUME TypeInv, BoundInv
    PROVE  ComputeValidAnchorId(head, batchAnchor) <= Lowest(head)
  <1>1. head \in Nat /\ batchAnchor \in Nat /\ Lowest(head) \in Nat /\ batchAnchor <= Lowest(head)
    BY Numbers, LowestFacts DEF BoundInv, AtMost
  <1>2. ComputeValidAnchorId(head, batchAnchor) \in {Lowest(head), batchAnchor}
    BY <1>1, ComputeIsLowest
  <1> QED
    BY <1>1, <1>2

\* The refresh does not go beyond it either.
LEMMA RefreshedIsBound ==
    ASSUME TypeInv, BoundInv, HandoverSlots # 0, NEW o \in Operators
    PROVE  RefreshedId(o) <= Lowest(head)
  <1>1. /\ blockNumber[o] \in Nat /\ head \in Nat /\ blockNumber[o] <= head
        /\ RefreshedId(o) \in {Lowest(blockNumber[o]), lastAnchorId[o]}
    BY Numbers, RefreshedFacts
  <1>2. Lowest(blockNumber[o]) <= Lowest(head) /\ lastAnchorId[o] <= Lowest(head)
    BY <1>1, LowestFacts DEF BoundInv, AtMost
  <1> QED
    BY <1>1, <1>2

\* All anchors are numbers after a step, too.
LEMMA AnchorsAfter ==
    ASSUME TypeInv, [Next]_vars
    PROVE  /\ now' \in Nat /\ head' \in Nat /\ batchAnchor' \in Nat
           /\ \A o \in Operators :
                 /\ blockNumber'[o] \in Nat
                 /\ lastAnchorId'[o] \in Nat /\ currentAnchor'[o] \in Nat
           /\ \A id \in fetching' : id \in Nat
           /\ Len(chain') \in Nat /\ DOMAIN chain' = 1..Len(chain')
           /\ \A n \in DOMAIN chain' : chain'[n].slot \in Nat /\ chain'[n].anchor \in Nat
  <1>1. TypeInv'
    BY TypeStep
  <1>2. now' \in Nat /\ head' \in Nat
    <2>1. now' \in 0..LastSlot /\ LastSlot \in Nat /\ FirstHead \in Nat
      BY <1>1, AnchorAssumption DEF TypeInv
    <2>2. now' \in Nat /\ Mined' \in {0, 1}
      BY <2>1 DEF Mined
    <2>3. head' \in FirstHead..(FirstHead + now' + Mined')
      BY <1>1 DEF TypeInv
    <2> QED
      BY <2>1, <2>2, <2>3
  <1>3. /\ \A i \in 0..head' : i \in Nat
        /\ \A i \in FirstHead..head' : i \in Nat
        /\ \A i \in 0..now' : i \in Nat
    BY <1>2, AnchorAssumption
  <1>4. /\ batchAnchor' \in 0..head' /\ fetching' \in SUBSET (0..head')
        /\ blockNumber' \in [Operators -> FirstHead..head']
        /\ lastAnchorId' \in [Operators -> 0..head']
        /\ currentAnchor' \in [Operators -> 0..head']
    BY <1>1 DEF TypeInv
  <1>5. chain' \in Seq(BlockType')
    BY <1>1 DEF TypeInv
  <1>6. /\ Len(chain') \in Nat /\ DOMAIN chain' = 1..Len(chain')
        /\ \A n \in DOMAIN chain' : chain'[n] \in BlockType'
    BY <1>5
  <1>7. \A n \in DOMAIN chain' : chain'[n].slot \in 0..now' /\ chain'[n].anchor \in 0..head'
    BY <1>6 DEF BlockType
  <1> QED
    BY <1>2, <1>3, <1>4, <1>6, <1>7

\* Every step keeps the anchors below the head's.
LEMMA BoundStep ==
    ASSUME TypeInv, BoundInv, HandoverSlots # 0, [Next]_vars
    PROVE  BoundInv'
  <1>1. PICK most \in Nat : most = Lowest(head)
    BY Numbers, LowestFacts
  <1>2. AtMost(most) /\ \A id \in fetching : id <= most
    BY <1>1 DEF BoundInv
  <1>3. AtMost(most)'
    BY <1>1, <1>2, RestartIsLowest, AtMostStep
  <1>4. head \in Nat /\ head' \in {head, head + 1}
    BY Numbers DEF Next, Over, vars, Tick, Mine, Refresh, Build, Propose, Receive, Verify, Restart
  <1>5. \A id \in fetching' : id <= most
    BY <1>1, <1>2, HereNow, RefreshedIsBound
    DEF Next, Over, vars, Tick, Mine, Refresh, Build, Propose, Receive, Verify, Restart
  <1>6. /\ head' \in Nat /\ head <= head'
        /\ most <= Lowest(head') /\ Lowest(head') \in Nat
    <2>1. head' \in Nat /\ head <= head'
      BY <1>4
    <2> QED
      BY <1>1, <1>4, <2>1, LowestFacts
  <1>7. AtMost(Lowest(head))'
    BY <1>3, <1>6, AnchorsAfter DEF AtMost, Lowest
  <1>8. \A id \in fetching' : id <= Lowest(head')
    BY <1>5, <1>6, AnchorsAfter
  <1> QED
    BY <1>7, <1>8 DEF BoundInv, Lowest

\* Every step keeps the anchors of blocks below those of operators that know the
\* head.
LEMMA EarlierStep ==
    ASSUME TypeInv, HeaderInv, HeaderInv', BoundInv, EarlierInv, [Next]_vars
    PROVE  EarlierInv'
  <1>1. CASE Tick
    <2>1. /\ now' = now + 1 /\ UNCHANGED <<env, head, blockNumber, chain>>
          /\ Mined' = 0 /\ (~env.late => Late' = 0)
      BY <1>1 DEF Tick, anchors, l2, Mined, Late
    <2>2. SUFFICES ASSUME ~env.late, NEW n \in DOMAIN chain, NEW o \in Operators
                   PROVE  chain[n].anchor <= Lowest(blockNumber[o])
      BY <2>1 DEF EarlierInv, Lowest
    <2>3. head <= blockNumber[o] + 0 + 0
      BY <2>1, <2>2 DEF HeaderInv
    <2>4. blockNumber[o] = head
      BY <2>2, <2>3, Numbers
    <2> QED
      BY <2>2, <2>4 DEF BoundInv, AtMost
  <1>2. CASE ~Tick
    <2>1. /\ UNCHANGED <<now, env>>
          /\ \A o \in Operators : blockNumber[o] \in Nat
          /\ \A o \in Operators : blockNumber'[o] \in Nat /\ blockNumber[o] <= blockNumber'[o]
      <3>1. UNCHANGED <<now, env>>
        BY <1>2 DEF Next, Over, vars, Mine, Refresh, Build, Propose, Receive, Verify, Restart
      <3>2. head \in Nat
            /\ \A o \in Operators : blockNumber[o] \in Nat /\ blockNumber[o] <= head
        BY Numbers
      <3>3. CASE UNCHANGED blockNumber
        BY <3>1, <3>2, <3>3
      <3>4. ASSUME NEW o \in Operators, Receive(o)
            PROVE  \A p \in Operators : blockNumber'[p] \in Nat /\ blockNumber[p] <= blockNumber'[p]
        <4>1. PICK number \in pending[o] :
                 blockNumber' = [blockNumber EXCEPT ![o] = Max({blockNumber[o], number})]
          BY <3>4 DEF Receive, MergedHeaders, UpdateBlockNumber, TypeInv
        <4>2. number \in Nat
          <5>1. number \in FirstHead..head /\ FirstHead \in Nat
            BY <4>1, AnchorAssumption DEF TypeInv
          <5> QED
            BY <3>2, <5>1
        <4>3. /\ Max({blockNumber[o], number}) \in Nat
              /\ blockNumber[o] <= Max({blockNumber[o], number})
          BY <3>2, <4>2, MaxOfTwo
        <4>4. blockNumber \in [Operators -> FirstHead..head]
          BY DEF TypeInv
        <4> QED
          BY <3>2, <4>1, <4>3, <4>4
      <3>5. ASSUME NEW o \in Operators, Restart(o)
            PROVE  \A p \in Operators : blockNumber'[p] \in Nat /\ blockNumber[p] <= blockNumber'[p]
        <4>1. blockNumber' = [blockNumber EXCEPT ![o] = head]
          BY <3>5 DEF Restart
        <4>2. blockNumber \in [Operators -> FirstHead..head]
          BY DEF TypeInv
        <4> QED
          BY <3>2, <4>1, <4>2
      <3> QED
        BY <1>2, <3>1, <3>2, <3>3, <3>4, <3>5
        DEF Next, Over, vars, Mine, Refresh, Build, Propose, Verify, anchors
    <2>2. \A n \in DOMAIN chain' : chain'[n].slot < now =>
             n \in DOMAIN chain /\ chain'[n] = chain[n]
      <3>1. CASE UNCHANGED chain
        BY <3>1
      <3>2. CASE Build
        <4>1. /\ now \in Nat /\ Len(chain) \in Nat /\ DOMAIN chain = 1..Len(chain)
          BY Numbers, BlockFields
        <4>2. \/ chain' = chain
              \/ /\ Len(chain') = Len(chain) + 1 /\ DOMAIN chain' = 1..Len(chain')
                 /\ \A n \in DOMAIN chain : chain'[n] = chain[n]
                 /\ chain'[Len(chain) + 1].slot = now
          BY <3>2, BuildFacts
        <4>3. ~(now < now)
          BY <4>1
        <4> QED
          BY <4>1, <4>2, <4>3
      <3> QED
        BY <1>2, <3>1, <3>2
        DEF Next, Over, vars, Mine, Refresh, Propose, Receive, Verify, Restart, anchors, l2
    <2>3. SUFFICES ASSUME ~env.late, NEW n \in DOMAIN chain', NEW o \in Operators,
                          chain'[n].slot < now
                   PROVE  chain'[n].anchor <= Lowest(blockNumber'[o])
      BY <2>1 DEF EarlierInv, Lowest
    <2>4. /\ n \in DOMAIN chain /\ chain'[n] = chain[n] /\ chain[n].anchor \in Nat
          /\ chain[n].anchor <= Lowest(blockNumber[o])
      BY <2>2, <2>3, BlockFields DEF EarlierInv
    <2>5. /\ Lowest(blockNumber[o]) \in Nat /\ Lowest(blockNumber'[o]) \in Nat
          /\ Lowest(blockNumber[o]) <= Lowest(blockNumber'[o])
      BY <2>1, LowestFacts
    <2> QED
      BY <2>4, <2>5
  <1> QED
    BY <1>1, <1>2
\* The slots since a refresh, in a state.
LEMMA SinceFacts ==
    ASSUME TypeInv, Aligned
    PROVE  /\ now \in Nat /\ FirstHead \in Nat /\ AnchorIdLag \in Nat /\ AnchorIdLag > 0
           /\ Phase(now) \in Nat /\ Phase(now) <= AnchorIdLag - 1
           /\ (Due <=> Phase(now) = 0)
           /\ SinceRefresh \in Nat /\ HeadThen \in Nat /\ FirstHead <= HeadThen
           /\ HeadThen <= FirstHead + now + 1
  <1>1. now \in Nat /\ FirstHead \in Nat /\ AnchorIdLag \in Nat /\ AnchorIdLag > 0
    BY Numbers, AnchorAssumption
  <1>2. Phase(now) \in Nat /\ Phase(now) <= AnchorIdLag - 1
    <2>1. Phase(now) \in 0..(AnchorIdLag - 1)
      BY <1>1, NextPhase
    <2> HIDE DEF Phase
    <2> QED
      BY <1>1, <2>1
  <1>3. Due <=> Phase(now) = 0
    BY DEF Due, Phase, Here, AnchorIsDue
  <1> HIDE DEF Phase
  <1>4. SinceRefresh \in Nat
    BY <1>1, <1>2 DEF SinceRefresh
  <1> HIDE DEF SinceRefresh
  <1>5. HeadThen \in Nat /\ FirstHead <= HeadThen /\ HeadThen <= FirstHead + now + 1
    BY <1>1, <1>4 DEF HeadThen
  <1> QED
    BY <1>1, <1>2, <1>3, <1>4, <1>5

\* The next slot is one more since the refresh, or one is due again.
LEMMA TickSince ==
    ASSUME TypeInv, Aligned, Tick
    PROVE  HeadThen' = HeadThen
  <1>1. /\ now \in Nat /\ FirstHead \in Nat /\ AnchorIdLag \in Nat /\ AnchorIdLag > 0
        /\ Phase(now) \in Nat /\ Phase(now) <= AnchorIdLag - 1
    BY SinceFacts
  <1>2. now' = now + 1 /\ iterated /\ ~iterated'
    BY DEF Tick, SlotIsOver
  <1>3. Phase(now') = IF Phase(now) = AnchorIdLag - 1 THEN 0 ELSE Phase(now) + 1
    BY <1>1, <1>2, NextPhase
  <1>4. Due' <=> Phase(now') = 0
    BY <1>2 DEF Due, Phase, Here, AnchorIsDue, At
  <1>5. SinceRefresh = Phase(now)
    BY <1>2 DEF SinceRefresh
  <1>6. SinceRefresh' = IF ~Due' THEN Phase(now') ELSE AnchorIdLag
    BY <1>2 DEF SinceRefresh, Phase, At
  <1> HIDE DEF Phase, Due
  <1>7. SinceRefresh' = SinceRefresh + 1
    BY <1>1, <1>3, <1>4, <1>5, <1>6
  <1> HIDE DEF SinceRefresh
  <1>8. SinceRefresh \in Nat
    BY <1>1, <1>5
  <1> QED
    BY <1>1, <1>2, <1>7, <1>8 DEF HeadThen

\* Every step keeps the anchors below those of the last refresh, where headers
\* come late.
LEMMA LateStep ==
    ASSUME Aligned, LateIsCalm, TypeInv, OnceInv, BoundInv, LateInv, [Next]_vars
    PROVE  LateInv'
  <1>1. env' = env
    BY DEF Next, Over, vars, Tick, Mine, Refresh, Build, Propose, Receive, Verify, Restart
  <1>2. SUFFICES ASSUME env.late PROVE AtMost(Lowest(HeadThen))'
    BY <1>1 DEF LateInv
  <1>3. ~env.restarts
    BY <1>2 DEF TypeInv, LateIsCalm
  <1>4. \A o \in Operators : ~Restart(o)
    BY <1>3 DEF Restart
  <1>5. /\ now \in Nat /\ FirstHead \in Nat /\ AnchorIdLag \in Nat /\ AnchorIdLag > 0
        /\ HeadThen \in Nat /\ HeadThen <= FirstHead + now + 1 /\ (Due <=> Phase(now) = 0)
    BY SinceFacts
  <1>6. /\ HeadThen' \in Nat /\ HeadThen <= HeadThen'
        /\ Build => \A id \in fetching : id <= Lowest(HeadThen')
    <2>1. CASE Tick
      <3>1. HeadThen' = HeadThen
        BY <2>1, TickSince
      <3>2. ~Build
        BY <2>1 DEF Tick, SlotIsOver, Build
      <3> QED
        BY <1>5, <3>1, <3>2
    <2>2. CASE Build /\ Due
      <3>1. ~iterated /\ iterated' /\ now' = now
        BY <2>2 DEF Build
      <3>2. SinceRefresh' = Phase(now)
        BY <3>1 DEF SinceRefresh, Phase, At
      <3>3. SinceRefresh' = 0
        BY <1>5, <2>2, <3>2
      <3>4. HeadThen' = FirstHead + now + 1
        BY <1>5, <3>1, <3>3 DEF HeadThen
      <3>5. head \in Nat /\ head <= HeadThen' /\ HeadThen' \in Nat
        <4>1. head \in Nat /\ head <= FirstHead + now + Mined /\ Mined \in {0, 1}
          BY Numbers
        <4> QED
          BY <1>5, <3>4, <4>1
      <3>6. Lowest(head) <= Lowest(HeadThen') /\ Lowest(head) \in Nat /\ Lowest(HeadThen') \in Nat
        BY <3>5, LowestFacts
      <3>7. \A id \in fetching : id \in Nat /\ id <= Lowest(head)
        BY Numbers DEF BoundInv
      <3>8. \A id \in fetching : id <= Lowest(HeadThen')
        <4> HIDE DEF Lowest
        <4> QED
          BY <3>6, <3>7
      <3> QED
        BY <1>5, <3>4, <3>5, <3>8
    <2>3. CASE Build /\ ~Due
      <3>1. ~iterated /\ iterated' /\ now' = now
        BY <2>3 DEF Build
      <3>2. SinceRefresh' = SinceRefresh
        BY <2>3, <3>1 DEF SinceRefresh, Phase, At
      <3>3. HeadThen' = HeadThen
        BY <3>1, <3>2 DEF HeadThen
      <3>4. fetching = {}
        BY <2>3 DEF OnceInv
      <3> QED
        BY <1>5, <3>3, <3>4
    <2>4. CASE UNCHANGED <<now, iterated>>
      <3>1. SinceRefresh' = SinceRefresh
        BY <2>4 DEF SinceRefresh, Due, Phase, Here, AnchorIsDue, At
      <3>2. HeadThen' = HeadThen
        BY <2>4, <3>1 DEF HeadThen
      <3>3. ~Build
        BY <2>4 DEF Build
      <3> QED
        BY <1>5, <3>2, <3>3
    <2> QED
      BY <1>4, <2>1, <2>2, <2>3, <2>4
      DEF Next, Over, vars, Mine, Refresh, Propose, Receive, Verify
  <1>7. PICK most \in Nat : most = Lowest(HeadThen')
    BY <1>6, LowestFacts
  <1>8. Lowest(HeadThen) \in Nat /\ Lowest(HeadThen) <= most
    BY <1>5, <1>6, <1>7, LowestFacts
  <1>9. AtMost(most)
    <2>1. AtMost(Lowest(HeadThen))
      BY <1>2 DEF LateInv
    <2> HIDE DEF HeadThen, Lowest
    <2> QED
      BY <1>8, <2>1, Numbers, BlockFields DEF AtMost
  <1>10. AtMost(most)'
    BY <1>4, <1>6, <1>7, <1>9, AtMostStep
  <1> QED
    BY <1>7, <1>10 DEF AtMost, Lowest
\* Where a refresh is due, every operator chooses an anchor that is not before one
\* of a block.
LEMMA RefreshCovers ==
    ASSUME Aligned, LateIsCalm, TypeInv, HeaderInv, OnceInv, EarlierInv, LateInv,
           ~iterated, Due, NEW o \in Operators
    PROVE  Covers(Lowest(blockNumber[o]))
  <1>1. /\ now \in Nat /\ FirstHead \in Nat /\ AnchorIdLag \in Nat /\ HeadThen \in Nat
        /\ Mined \in {0, 1}
        /\ blockNumber[o] \in Nat /\ FirstHead <= blockNumber[o]
    BY Numbers, SinceFacts
  <1>2. CASE ~env.late
    BY <1>2 DEF OnceInv, EarlierInv, Covers
  <1>3. CASE env.late
    <2>1. ~env.missed /\ AnchorIdLag >= 2
      BY <1>3 DEF TypeInv, LateIsCalm
    <2>2. head = FirstHead + now + Mined /\ head <= blockNumber[o] + Mined + 1
      BY <1>3, <2>1 DEF HeaderInv, Late
    <2>3. HeadThen = IF now + 1 >= AnchorIdLag THEN FirstHead + now + 1 - AnchorIdLag
                     ELSE FirstHead
      BY DEF HeadThen, SinceRefresh
    <2> HIDE DEF HeadThen
    <2>4. HeadThen <= blockNumber[o]
      BY <1>1, <2>1, <2>2, <2>3
    <2>5. /\ Lowest(HeadThen) \in Nat /\ Lowest(blockNumber[o]) \in Nat
          /\ Lowest(HeadThen) <= Lowest(blockNumber[o])
      BY <1>1, <2>4, LowestFacts
    <2>6. AtMost(Lowest(HeadThen))
      BY <1>3 DEF LateInv
    <2> HIDE DEF Lowest
    <2> QED
      BY <2>5, <2>6, BlockFields DEF AtMost, Covers
  <1> QED
    BY <1>2, <1>3

\* Every step keeps that the next block goes on from the others.
LEMMA CoverStep ==
    ASSUME Aligned, LateIsCalm, HandoverSlots # 0, AllInv, [Next]_vars
    PROVE  CoverInv' /\ AnchorsGrow'
  <1>1. /\ TypeInv /\ HeaderInv /\ OnceInv /\ BoundInv /\ CoverInv /\ EarlierInv /\ LateInv
        /\ AnchorsGrow
    BY DEF AllInv, OrderInv
  <1>2. /\ now \in Nat /\ head \in Nat /\ Builder \in Operators
        /\ Len(chain) \in Nat /\ DOMAIN chain = 1..Len(chain)
        /\ \A n \in DOMAIN chain : n \in Nat /\ chain[n].anchor \in Nat
    BY <1>1, Numbers, HereNow, BlockFields
  <1>3. CASE Tick
    <2>1. /\ now' = now + 1 /\ iterated /\ ~iterated' /\ fetching' = {}
          /\ UNCHANGED <<schedule, currentAnchor, chain>>
      BY <1>3 DEF Tick, SlotIsOver, anchors, l2
    <2>2. ASSUME ~Due' PROVE Covers(currentAnchor[Builder])'
      <3>1. ~AnchorIsDue(At(now + 1).slot)
        BY <2>1, <2>2 DEF Due, Here, AnchorIsDue, At
      <3>2. WindowEpoch(At(now + 1)) = WindowEpoch(At(now))
        BY <1>2, <3>1, NotDueMeansSameWindow
      <3>3. Builder' = Builder
        BY <2>1, <3>2 DEF Builder, Here, At
      <3> QED
        BY <1>1, <2>1, <3>3 DEF CoverInv, Covers
    <2> QED
      BY <1>1, <2>1, <2>2 DEF CoverInv, AnchorsGrow
  <1>4. CASE UNCHANGED <<now, schedule, fetching, iterated, currentAnchor, chain>>
    BY <1>1, <1>4 DEF CoverInv, Covers, AnchorsGrow, Due, Builder, Here, AnchorIsDue, At
  <1>5. CASE UNCHANGED <<now, schedule>>
    <2>1. Due' = Due /\ Builder' = Builder
      BY <1>5 DEF Due, Builder, Here, AnchorIsDue, At
    <2> HIDE DEF Due, Builder
    <2>2. CASE Refresh
      <3> DEFINE id == RefreshedId(Builder)
      <3>1. /\ UNCHANGED <<iterated, currentAnchor, chain>> /\ fetching' = {id}
            /\ ~iterated /\ Due
        BY <2>2 DEF Refresh, anchors, l2, Due
      <3>2. Covers(Lowest(blockNumber[Builder]))
        BY <1>1, <1>2, <3>1, RefreshCovers
      <3>3. id \in Nat /\ Lowest(blockNumber[Builder]) <= id
        BY <1>1, <1>2, RefreshedFacts
      <3>4. Lowest(blockNumber[Builder]) \in Nat
        BY <1>1, <1>2, Numbers, LowestFacts
      <3> HIDE DEF id, Lowest
      <3>5. Covers(id)
        BY <1>2, <3>2, <3>3, <3>4 DEF Covers
      <3> QED
        BY <1>1, <2>1, <3>1, <3>5 DEF CoverInv, Covers, AnchorsGrow
    <2>3. CASE Build
      <3> DEFINE a == currentAnchor'[Builder]
      <3>1. fetching' = {} /\ currentAnchor' \in [Operators -> 0..head]
        BY <1>1, <2>3, BuildFacts DEF Build
      <3>2. /\ \/ ~Due /\ currentAnchor' = currentAnchor
               \/ a \in fetching
            /\ \/ chain' = chain
               \/ /\ chain' \in Seq(BlockType) /\ Len(chain') = Len(chain) + 1
                  /\ \A n \in DOMAIN chain : chain'[n] = chain[n]
                  /\ chain'[Len(chain) + 1].slot = now
                  /\ chain'[Len(chain) + 1].anchor = a
        BY <1>1, <2>3, BuildFacts
      <3>3. Covers(a)
        BY <1>1, <3>2 DEF CoverInv
      <3>4. a \in Nat
        BY <1>2, <3>1
      <3>5. Covers(currentAnchor[Builder])' <=> \A n \in DOMAIN chain' : chain'[n].anchor <= a
        BY <2>1 DEF Covers
      <3> HIDE DEF a
      <3>6. CASE chain' = chain
        BY <1>1, <3>1, <3>3, <3>5, <3>6 DEF CoverInv, Covers, AnchorsGrow
      <3>7. CASE chain' # chain
        <4>1. /\ DOMAIN chain' = 1..(Len(chain) + 1)
              /\ \A n \in DOMAIN chain : chain'[n] = chain[n]
              /\ chain'[Len(chain) + 1].anchor = a
          BY <3>2, <3>7
        <4>2. ASSUME NEW n \in DOMAIN chain' PROVE chain'[n].anchor <= a
          <5>1. n \in DOMAIN chain \/ n = Len(chain) + 1
            BY <1>2, <4>1, <4>2
          <5> QED
            BY <3>3, <3>4, <4>1, <5>1 DEF Covers
        <4>3. ASSUME NEW n \in DOMAIN chain' \ {1} PROVE chain'[n - 1].anchor <= chain'[n].anchor
          <5>1. CASE n \in DOMAIN chain
            <6>1. n - 1 \in DOMAIN chain
              BY <1>2, <4>3, <5>1
            <6> QED
              BY <1>1, <4>1, <4>3, <5>1, <6>1 DEF AnchorsGrow
          <5>2. CASE n = Len(chain) + 1
            <6>1. n - 1 \in DOMAIN chain'
              BY <1>2, <4>1, <4>3, <5>2
            <6> QED
              BY <4>1, <4>2, <5>2, <6>1
          <5> QED
            BY <1>2, <4>1, <4>3, <5>1, <5>2
        <4> QED
          BY <3>1, <3>5, <4>2, <4>3 DEF CoverInv, AnchorsGrow
      <3> QED
        BY <3>6, <3>7
    <2>4. ASSUME NEW o \in Operators, Restart(o) PROVE CoverInv' /\ AnchorsGrow'
      <3> DEFINE id == ComputeValidAnchorId(head, batchAnchor)
      <3>1. /\ currentAnchor' = [currentAnchor EXCEPT ![o] = id] /\ chain' = chain
            /\ \/ o = Builder /\ fetching' = {}
               \/ UNCHANGED <<fetching, iterated>>
        BY <2>4 DEF Restart, l2
      <3>2. Covers(id)
        <4>1. /\ Lowest(head) \in Nat /\ Lowest(head) <= id /\ id \in Nat
          BY <1>1, <1>2, Numbers, LowestFacts, ComputeIsLowest
        <4>2. \A n \in DOMAIN chain : chain[n].anchor <= Lowest(head)
          BY <1>1 DEF BoundInv, AtMost
        <4> HIDE DEF id, Lowest
        <4> QED
          BY <1>2, <4>1, <4>2 DEF Covers
      <3> HIDE DEF id
      <3>3. currentAnchor \in [Operators -> 0..head]
        BY <1>1 DEF TypeInv
      <3>4. \A i : Covers(i)' <=> Covers(i)
        BY <3>1 DEF Covers
      <3>5. CASE o = Builder
        <4>1. currentAnchor'[Builder] = id
          BY <3>1, <3>3, <3>5
        <4>2. fetching' \subseteq fetching
          BY <3>1
        <4>3. Covers(currentAnchor[Builder])'
          BY <2>1, <3>1, <3>2, <4>1 DEF Covers
        <4> QED
          BY <1>1, <3>1, <3>4, <4>2, <4>3 DEF CoverInv, AnchorsGrow
      <3>6. CASE o # Builder
        <4>1. currentAnchor'[Builder] = currentAnchor[Builder] /\ UNCHANGED <<fetching, iterated>>
          BY <3>1, <3>3, <3>6
        <4> QED
          BY <1>1, <2>1, <3>1, <4>1 DEF CoverInv, Covers, AnchorsGrow
      <3> QED
        BY <3>5, <3>6
    <2> QED
      BY <1>3, <1>4, <1>5, <2>2, <2>3, <2>4
      DEF Next, Over, vars, Mine, Propose, Receive, Verify, anchors, l2
  <1>6. UNCHANGED <<now, schedule>> \/ Tick
    BY DEF Next, Over, vars, Mine, Refresh, Build, Propose, Receive, Verify, Restart
  <1> QED
    BY <1>3, <1>5, <1>6

\* The anchor of an L2 block is never before the one of its parent, whoever built
\* that (compute_valid_anchor_id, anchor.rs, lines 42-54, at the refreshes of the
\* preconfirmation loop, lines 99-106): if windows begin with a refresh, there is a handover window, and
\* headers come late only where nothing else goes wrong.
THEOREM AnchorsGrowCorrect ==
    Aligned /\ HandoverSlots # 0 /\ LateIsCalm => (Spec => []AnchorsGrow)
  <1>1. ASSUME Aligned, HandoverSlots # 0, LateIsCalm PROVE Spec => []AnchorsGrow
    <2>1. Init => AllInv
      BY TypeInit, HeaderInit, OrderInit DEF AllInv
    <2>2. AllInv /\ [Next]_vars => AllInv'
      <3>1. SUFFICES ASSUME AllInv, [Next]_vars PROVE AllInv'
        OBVIOUS
      <3>2. /\ TypeInv /\ HeaderInv /\ OnceInv
            /\ BoundInv /\ CoverInv /\ EarlierInv /\ LateInv /\ AnchorsGrow
        BY <3>1 DEF AllInv, OrderInv
      <3>3. TypeInv' /\ HeaderInv' /\ OnceInv'
        BY <3>1, <3>2, TypeStep, HeaderStep, OnceStep
      <3>4. BoundInv' /\ EarlierInv' /\ LateInv' /\ CoverInv' /\ AnchorsGrow'
        BY <1>1, <3>1, <3>2, <3>3, BoundStep, EarlierStep, LateStep, CoverStep
      <3> QED
        BY <3>3, <3>4 DEF AllInv, OrderInv
    <2>3. AllInv => AnchorsGrow
      BY DEF AllInv, OrderInv
    <2> QED
      BY <2>1, <2>2, <2>3, PTL DEF Spec
  <1> QED
    BY <1>1
=============================================================================
