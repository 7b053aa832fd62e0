------------------------ MODULE WhitelistMonitorProofs ------------------------
(***************************************************************************)
(* Theorems about WhitelistMonitor: the Vec of operators names an epoch at *)
(* most once and implements the function from epochs to operators that the *)
(* loops are modelled with, for every set of operators, every number of    *)
(* epochs and every order of calls.                                        *)
(*                                                                         *)
(* The order of the entries matters to the code and not to the function,   *)
(* so the calls are first reduced to what they do to the set of entries.   *)
(***************************************************************************)
EXTENDS WhitelistMonitor, FiniteSetTheorems, SequenceTheorems, TLAPS

-----------------------------------------------------------------------------
(* Lists of entries.                                                       *)

Entries(list) == {list[i] : i \in DOMAIN list}

Ordered(list) ==
    \A i, j \in DOMAIN list : i < j => list[i].epoch < list[j].epoch

\* A list as the code keeps it: the epochs in order, two at most.
IsShort(list) ==
    /\ list \in Seq(ActiveOperator)
    /\ Ordered(list)
    /\ Len(list) \in {0, 1, 2}

\* The inductive invariant.
ListInv == IsShort(operators) /\ lastCall \in 0..LastEpoch

\* The function that Vec::retain is defined by, for the first N entries.
Retaining(list, kept, N) ==
    CHOOSE retained : retained =
        [n \in 0..N |-> IF n = 0 THEN <<>>
                        ELSE IF list[n] \in kept
                             THEN Append(retained[n - 1], list[n])
                        ELSE retained[n - 1]]

\* The first entry of a list if it is kept, and the second after it.
FirstKept(list, kept) == IF list[1] \in kept THEN <<list[1]>> ELSE <<>>

BothKept(list, kept) ==
    IF list[2] \in kept THEN Append(FirstKept(list, kept), list[2])
                        ELSE FirstKept(list, kept)

\* The recursion of Vec::retain, written out for two entries.
LEMMA RetainingShort ==
    ASSUME NEW list, NEW kept, NEW N \in {0, 1, 2}
    PROVE  LET r == Retaining(list, kept, N) IN
           /\ r[0] = <<>>
           /\ N \in {1, 2} => r[1] = FirstKept(list, kept)
           /\ N = 2 => r[2] = BothKept(list, kept)
  <1> DEFINE first == FirstKept(list, kept)
             both == BothKept(list, kept)
             f == [n \in 0..N |->
                      IF n = 0 THEN <<>> ELSE IF n = 1 THEN first ELSE both]
             Unfolded(g) == [n \in 0..N |->
                      IF n = 0 THEN <<>>
                      ELSE IF list[n] \in kept THEN Append(g[n - 1], list[n])
                      ELSE g[n - 1]]
             r == Retaining(list, kept, N)
  <1>1. Append(<<>>, list[1]) = <<list[1]>>
    OBVIOUS
  <1>2. f = Unfolded(f)
    <2>1. ASSUME NEW n \in 0..N
          PROVE  f[n] = Unfolded(f)[n]
      <3>1. CASE n = 0
        BY <3>1
      <3>2. CASE n = 1
        <4>1. 0 \in 0..N /\ f[0] = <<>> /\ f[n] = first
          BY <3>2
        <4>2. Unfolded(f)[n] = IF list[1] \in kept THEN Append(f[0], list[1]) ELSE f[0]
          BY <3>2
        <4> QED
          BY <1>1, <4>1, <4>2 DEF FirstKept
      <3>3. CASE n = 2
        BY <3>3 DEF BothKept
      <3> QED
        BY <3>1, <3>2, <3>3
    <2> QED
      BY <2>1
  <1>3. r = Unfolded(r)
    BY <1>2 DEF Retaining
  <1> HIDE DEF r
  <1>4. r[0] = <<>>
    BY <1>3
  <1>5. ASSUME N \in {1, 2} PROVE r[1] = first
    <2>1. r[1] = IF list[1] \in kept THEN Append(r[0], list[1]) ELSE r[0]
      BY <1>3, <1>5
    <2> QED
      BY <1>1, <1>4, <2>1 DEF FirstKept
  <1>6. ASSUME N = 2 PROVE r[2] = both
    <2>1. 2 \in 0..N /\ 2 # 0 /\ 2 - 1 = 1
      BY <1>6
    <2>2. r[2] = IF list[2] \in kept THEN Append(r[2 - 1], list[2]) ELSE r[2 - 1]
      BY <1>3, <2>1, Zenon
    <2> QED
      BY <1>5, <1>6, <2>1, <2>2 DEF BothKept
  <1> QED
    BY <1>4, <1>5, <1>6 DEF r

\* Vec::retain on a list of at most two entries.
LEMMA RetainShort ==
    ASSUME NEW list, Len(list) \in {0, 1, 2}, NEW kept
    PROVE  /\ Len(list) = 0 => Retain(list, kept) = <<>>
           /\ Len(list) = 1 => Retain(list, kept) = FirstKept(list, kept)
           /\ Len(list) = 2 => Retain(list, kept) = BothKept(list, kept)
  <1>1. Retain(list, kept) = Retaining(list, kept, Len(list))[Len(list)]
    BY DEF Retain, Retaining
  <1> QED
    BY <1>1, RetainingShort

-----------------------------------------------------------------------------
(* Short lists and their entries.                                          *)

\* The list the monitor starts with.
LEMMA NoneShort == IsShort(<<>>) /\ Entries(<<>>) = {}
  BY DEF IsShort, Ordered, Entries

\* A list of one entry.
LEMMA OneShort ==
    ASSUME NEW a \in ActiveOperator
    PROVE  IsShort(<<a>>) /\ Entries(<<a>>) = {a}
  <1>1. Ordered(<<a>>) /\ Entries(<<a>>) = {a}
    BY DEF Ordered, Entries
  <1> QED
    BY <1>1 DEF IsShort

\* Vec::last of a list of one entry.
LEMMA LastOfOne ==
    ASSUME NEW s, NEW a, NEW o, s = <<a>>
    PROVE  /\ s # <<>> /\ s[Len(s)] = a
           /\ [s EXCEPT ![Len(s)].operator = o] = <<[a EXCEPT !.operator = o]>>
  OBVIOUS

\* Vec::last of a list of two entries.
LEMMA LastOfTwo ==
    ASSUME NEW s, NEW a, NEW b, NEW o, s = <<a, b>>
    PROVE  /\ s # <<>> /\ s[Len(s)] = b
           /\ [s EXCEPT ![Len(s)].operator = o]
                 = <<a, [b EXCEPT !.operator = o]>>
  OBVIOUS

\* A list ends at its length.
LEMMA NothingAfter ==
    ASSUME NEW a
    PROVE  <<a>> \o <<>> = <<a>>
  OBVIOUS

\* A list of length two is written with its two entries.
LEMMA OfLengthTwo ==
    ASSUME NEW S, NEW s \in Seq(S), Len(s) = 2
    PROVE  s = <<s[1], s[2]>>
  OBVIOUS

\* Vec::push on a list of one entry.
LEMMA AppendSecond ==
    ASSUME NEW a, NEW b
    PROVE  Append(<<a>>, b) = <<a, b>>
  <1> DEFINE s == <<a>>
             S == {a, b}
  <1>1. s \in Seq(S) /\ Len(s) = 1 /\ s[1] = a /\ b \in S
    OBVIOUS
  <1> HIDE DEF s, S
  <1>2. /\ Append(s, b) \in Seq(S)
        /\ Len(Append(s, b)) = Len(s) + 1 /\ Append(s, b)[Len(s) + 1] = b
        /\ \A i \in 1..Len(s) : Append(s, b)[i] = s[i]
    BY <1>1, AppendProperties, ZenonT(40)
  <1>3. Len(s) + 1 = 2 /\ 1 \in 1..Len(s)
    BY <1>1
  <1>4. Len(Append(s, b)) = 2 /\ Append(s, b)[1] = a /\ Append(s, b)[2] = b
    BY <1>1, <1>2, <1>3, Zenon
  <1>5. Append(s, b) = <<a, b>>
    BY <1>2, <1>4, OfLengthTwo
  <1> QED
    BY <1>5 DEF s

\* A list of two entries in the order of their epochs.
LEMMA TwoShort ==
    ASSUME NEW a \in ActiveOperator, NEW b \in ActiveOperator, a.epoch < b.epoch
    PROVE  IsShort(<<a, b>>) /\ Entries(<<a, b>>) = {a, b}
  <1>2. DOMAIN <<a, b>> = {1, 2} /\ Len(<<a, b>>) = 2
    OBVIOUS
  <1>3. Entries(<<a, b>>) = {a, b}
    BY <1>2 DEF Entries
  <1>4. Ordered(<<a, b>>)
    BY <1>2 DEF Ordered
  <1> QED
    BY <1>2, <1>3, <1>4 DEF IsShort

\* What a list may look like.
LEMMA ShortShapes ==
    ASSUME NEW list, IsShort(list)
    PROVE  \/ Len(list) = 0 /\ list = <<>>
           \/ Len(list) = 1 /\ list[1] \in ActiveOperator /\ list = <<list[1]>>
           \/ /\ Len(list) = 2 /\ list = <<list[1], list[2]>>
              /\ list[1] \in ActiveOperator /\ list[2] \in ActiveOperator
              /\ list[1].epoch < list[2].epoch
  <1>1. list \in Seq(ActiveOperator) /\ Ordered(list) /\ Len(list) \in {0, 1, 2}
    BY DEF IsShort
  <1>2. CASE Len(list) = 0
    BY <1>1, <1>2
  <1>3. CASE Len(list) = 1
    BY <1>1, <1>3
  <1>4. CASE Len(list) = 2
    <2>1. DOMAIN list = 1..2
      BY <1>1, <1>4
    <2>2. list[1] \in ActiveOperator /\ list[2] \in ActiveOperator
      BY <1>1, <1>4
    <2>3. list[1].epoch < list[2].epoch
      BY <1>1, <2>1 DEF Ordered
    <2>4. list = <<list[1], list[2]>>
      BY <1>1, <1>4, <2>1
    <2> QED
      BY <1>4, <2>2, <2>3, <2>4
  <1> QED
    BY <1>1, <1>2, <1>3, <1>4

\* Vec::retain keeps the order, and of the entries exactly those it should.
LEMMA RetainEntries ==
    ASSUME NEW list, IsShort(list), NEW kept
    PROVE  /\ IsShort(Retain(list, kept))
           /\ Entries(Retain(list, kept)) = Entries(list) \cap kept
  <1> DEFINE new == Retain(list, kept)
  <1>1. CASE Len(list) = 0 /\ list = <<>>
    <2>1. new = <<>>
      BY <1>1, RetainShort
    <2> QED
      BY <1>1, <2>1, NoneShort
  <1>2. CASE Len(list) = 1 /\ list[1] \in ActiveOperator /\ list = <<list[1]>>
    <2>1. new = IF list[1] \in kept THEN <<list[1]>> ELSE <<>>
      BY <1>2, RetainShort DEF FirstKept
    <2>2. IsShort(<<list[1]>>) /\ Entries(<<list[1]>>) = {list[1]}
      BY <1>2, OneShort
    <2> QED
      BY <1>2, <2>1, <2>2, NoneShort
  <1>3. CASE /\ Len(list) = 2 /\ list = <<list[1], list[2]>>
             /\ list[1] \in ActiveOperator /\ list[2] \in ActiveOperator
             /\ list[1].epoch < list[2].epoch
    <2> DEFINE a == list[1]
               b == list[2]
    <2>1. /\ IsShort(<<a>>) /\ Entries(<<a>>) = {a}
          /\ IsShort(<<b>>) /\ Entries(<<b>>) = {b}
      BY <1>3, OneShort
    <2>2. IsShort(<<a, b>>) /\ Entries(<<a, b>>) = {a, b}
      BY <1>3, TwoShort
    <2>3. Append(<<>>, b) = <<b>> /\ Append(<<a>>, b) = <<a, b>>
      BY AppendSecond
    <2>4. new = BothKept(list, kept)
      BY <1>3, RetainShort
    <2>5. new = IF b \in kept
                THEN (IF a \in kept THEN <<a, b>> ELSE <<b>>)
                ELSE (IF a \in kept THEN <<a>> ELSE <<>>)
      BY <2>3, <2>4 DEF FirstKept, BothKept
    <2>6. Entries(list) = {a, b}
      BY <1>3, <2>2
    <2> QED
      BY <2>1, <2>2, <2>5, <2>6, NoneShort
  <1> QED
    BY <1>1, <1>2, <1>3, ShortShapes

-----------------------------------------------------------------------------
(* The list as a function.                                                 *)

\* Known, of any list.
KnownOf(list) ==
    [e \in {list[i].epoch : i \in DOMAIN list} |->
        LET i == CHOOSE j \in DOMAIN list : list[j].epoch = e
        IN  list[i].operator]

\* The function has the epochs of the entries and their operators.
LEMMA KnownEntries ==
    ASSUME NEW list, IsShort(list)
    PROVE  /\ DOMAIN KnownOf(list) = {entry.epoch : entry \in Entries(list)}
           /\ \A entry \in Entries(list) : KnownOf(list)[entry.epoch] = entry.operator
           /\ Entries(list) \subseteq ActiveOperator
  <1>1. DOMAIN KnownOf(list) = {entry.epoch : entry \in Entries(list)}
    BY DEF KnownOf, Entries
  <1>2. ASSUME NEW i \in DOMAIN list
        PROVE  KnownOf(list)[list[i].epoch] = list[i].operator
    <2> DEFINE j == CHOOSE k \in DOMAIN list : list[k].epoch = list[i].epoch
    <2>1. j \in DOMAIN list /\ list[j].epoch = list[i].epoch
      OBVIOUS
    <2>2. \A k \in DOMAIN list : list[k].epoch \in Int
      <3>1. \A x \in ActiveOperator : x.epoch \in Int
        BY MonitorAssumption DEF ActiveOperator, Epochs
      <3>2. \A k \in DOMAIN list : list[k] \in ActiveOperator
        BY DEF IsShort
      <3> QED
        BY <3>1, <3>2
    <2>3. i \in Int /\ j \in Int
      BY <2>1 DEF IsShort
    <2>4. ~(i < j) /\ ~(j < i)
      BY <2>1, <2>2 DEF IsShort, Ordered
    <2>5. i = j
      BY <2>3, <2>4
    <2> QED
      BY <2>5 DEF KnownOf
  <1>3. Entries(list) \subseteq ActiveOperator
    BY DEF IsShort, Entries
  <1> QED
    BY <1>1, <1>2, <1>3 DEF Entries

\* Two functions with equal values on one domain are equal.
LEMMA SameFunction ==
    ASSUME NEW f, NEW g, f = [e \in DOMAIN f |-> f[e]], g = [e \in DOMAIN g |-> g[e]],
           DOMAIN f = DOMAIN g, \A e \in DOMAIN g : f[e] = g[e]
    PROVE  f = g
  OBVIOUS

\* A function that agrees with the entries of a list is the list as a function.
LEMMA KnownIs ==
    ASSUME NEW list, IsShort(list), NEW f, f = [e \in DOMAIN f |-> f[e]],
           DOMAIN f = {entry.epoch : entry \in Entries(list)},
           \A entry \in Entries(list) : f[entry.epoch] = entry.operator
    PROVE  KnownOf(list) = f
  <1> DEFINE known == KnownOf(list)
  <1>1. known = [e \in DOMAIN known |-> known[e]]
    BY DEF KnownOf
  <1>2. /\ DOMAIN known = {entry.epoch : entry \in Entries(list)}
        /\ \A entry \in Entries(list) : known[entry.epoch] = entry.operator
    BY KnownEntries
  <1> HIDE DEF known
  <1>3. known = f
    BY <1>1, <1>2, SameFunction
  <1> QED
    BY <1>3 DEF known

\* update_next_operator, on the entries.
LEMMA UpdateNextEntries ==
    ASSUME IsShort(operators), NEW epoch \in 0..LastEpoch, NEW operator \in Operators,
           UpdateNextOperator(epoch, operator)
    PROVE  /\ IsShort(operators')
           /\ Entries(operators') =
                 (Entries(operators) \cap EntriesOf({epoch}))
                    \cup {[epoch |-> epoch + 1, operator |-> operator]}
  <1> DEFINE kept == Retain(operators, EntriesOf({epoch, epoch + 1}))
             last == IF kept = <<>> THEN Default ELSE kept[Len(kept)]
             new == [epoch |-> epoch + 1, operator |-> operator]
             stays == Entries(operators) \cap EntriesOf({epoch})
  <1>1. /\ IsShort(kept)
        /\ Entries(kept) = Entries(operators) \cap EntriesOf({epoch, epoch + 1})
    BY RetainEntries
  <1>2. operators' = IF last.epoch < epoch + 1 THEN Append(kept, new)
                     ELSE [kept EXCEPT ![Len(kept)].operator = operator]
    BY DEF UpdateNextOperator
  <1>3. epoch \in Int /\ epoch + 1 \in Epochs /\ new \in ActiveOperator /\ new.epoch = epoch + 1
    BY MonitorAssumption DEF ActiveOperator, Epochs
  <1>4. /\ \A x \in Entries(kept) : /\ x \in ActiveOperator /\ x \in Entries(operators)
                                    /\ x.epoch = epoch \/ x.epoch = epoch + 1
        /\ \A x \in Entries(operators) : x \in ActiveOperator =>
              (x \in Entries(kept) <=> x.epoch \in {epoch, epoch + 1})
    BY <1>1 DEF EntriesOf
  <1>5. Entries(operators) \subseteq ActiveOperator
    BY KnownEntries
  <1>6. stays = {x \in Entries(kept) : x.epoch = epoch}
    BY <1>1, <1>5 DEF EntriesOf
  <1> HIDE DEF kept, new, stays
  <1>7. CASE Len(kept) = 0 /\ kept = <<>>
    <2>1. operators' = <<new>>
      <3>1. last.epoch = 0 /\ 0 < epoch + 1
        BY <1>7 DEF Default
      <3>2. Append(<<>>, new) = <<new>>
        OBVIOUS
      <3> QED
        BY <1>2, <1>7, <3>1, <3>2
    <2> QED
      BY <1>3, <1>6, <1>7, <2>1, NoneShort, OneShort DEF new, stays
  <1>8. CASE Len(kept) = 1 /\ kept[1] \in ActiveOperator /\ kept = <<kept[1]>>
    <2>1. PICK a \in ActiveOperator : kept = <<a>>
      BY <1>8
    <2>2. Entries(kept) = {a}
      BY <2>1, OneShort
    <2>3. last = a
      BY <2>1, LastOfOne
    <2>4. a.epoch = epoch \/ a.epoch = epoch + 1
      BY <1>4, <2>2
    <2> HIDE DEF last
    <2>5. CASE a.epoch = epoch
      <3>1. operators' = <<a, new>>
        BY <1>2, <1>3, <2>1, <2>3, <2>5, AppendSecond
      <3>2. stays = {a}
        BY <1>6, <2>2, <2>5
      <3>3. a.epoch < new.epoch
        BY <1>3, <2>5
      <3>4. IsShort(operators') /\ Entries(operators') = {a, new}
        BY <1>3, <3>1, <3>3, TwoShort
      <3> QED
        BY <3>2, <3>4 DEF new, stays
    <2>6. CASE a.epoch = epoch + 1
      <3>1. operators' = <<[a EXCEPT !.operator = operator]>>
        BY <1>2, <1>3, <2>1, <2>3, <2>6, LastOfOne
      <3>2. [a EXCEPT !.operator = operator] = new
        BY <2>6 DEF new, ActiveOperator
      <3>3. stays = {}
        BY <1>3, <1>6, <2>2, <2>6
      <3>4. IsShort(operators') /\ Entries(operators') = {new}
        BY <1>3, <3>1, <3>2, OneShort
      <3> QED
        BY <3>3, <3>4 DEF new, stays
    <2> QED
      BY <2>4, <2>5, <2>6
  <1>9. CASE /\ Len(kept) = 2 /\ kept = <<kept[1], kept[2]>>
             /\ kept[1] \in ActiveOperator /\ kept[2] \in ActiveOperator
             /\ kept[1].epoch < kept[2].epoch
    <2>1. PICK a \in ActiveOperator, b \in ActiveOperator :
             kept = <<a, b>> /\ a.epoch < b.epoch
      BY <1>9
    <2>2. Entries(kept) = {a, b}
      BY <2>1, TwoShort
    <2>3. last = b
      BY <2>1, LastOfTwo
    <2> HIDE DEF last
    <2>4. a.epoch = epoch /\ b.epoch = epoch + 1
      BY <1>3, <1>4, <2>1, <2>2
    <2>5. operators' = <<a, [b EXCEPT !.operator = operator]>>
      BY <1>2, <1>3, <2>1, <2>3, <2>4, LastOfTwo
    <2>6. [b EXCEPT !.operator = operator] = new
      BY <2>4 DEF new, ActiveOperator
    <2>7. stays = {a}
      BY <1>3, <1>6, <2>2, <2>4
    <2>8. a.epoch < new.epoch
      BY <1>3, <2>4
    <2>9. IsShort(operators') /\ Entries(operators') = {a, new}
      BY <1>3, <2>5, <2>6, <2>8, TwoShort
    <2> QED
      BY <2>7, <2>9 DEF new, stays
  <1> QED
    BY <1>1, <1>7, <1>8, <1>9, ShortShapes

-----------------------------------------------------------------------------
(* Every call keeps the list short and does to the function what           *)
(* WhitelistSpec says.                                                     *)

\* The refinement mapping reads the list in this state and in the next.
LEMMA KnownOfOperators == Known = KnownOf(operators) /\ Known' = KnownOf(operators')
  BY DEF Known, KnownOf

\* update_current_operator is called first of all.
LEMMA UpdateCurrentStep ==
    ASSUME ListInv, UpdateCurrent
    PROVE  IsShort(operators') /\ Abstract!UpdateCurrent
  <1>1. PICK operator \in Operators : UpdateCurrentOperator(lastCall, operator)
    BY DEF UpdateCurrent
  <1> DEFINE entry == [epoch |-> lastCall, operator |-> operator]
             f == Abstract!UpdateCurrentOperator(Known, lastCall, operator)
  <1>2. entry \in ActiveOperator
    BY MonitorAssumption DEF ListInv, ActiveOperator, Epochs
  <1>3. operators' = <<entry>>
    <2>1. operators = <<>> /\ Len(<<>>) = 0
      BY DEF UpdateCurrent
    <2>2. \A kept : Retain(operators, kept) = <<>>
      BY <2>1, RetainShort
    <2> QED
      BY <1>1, <2>2, NothingAfter DEF UpdateCurrentOperator
  <1>4. IsShort(operators') /\ Entries(operators') = {entry}
    BY <1>2, <1>3, OneShort
  <1>5. DOMAIN Known = {}
    BY DEF UpdateCurrent, Known
  <1>6. f = [e \in {lastCall} |-> operator]
    BY <1>5 DEF Abstract!UpdateCurrentOperator, Abstract!WithOperator,
                Abstract!RetainEpochs
  <1> HIDE DEF f
  <1>7. Known' = f
    <2>1. /\ entry.epoch = lastCall /\ entry.operator = operator
          /\ f = [e \in DOMAIN f |-> f[e]]
      BY <1>6
    <2>2. DOMAIN f = {x.epoch : x \in Entries(operators')}
      BY <1>4, <1>6, <2>1
    <2>3. \A x \in Entries(operators') : f[x.epoch] = x.operator
      BY <1>4, <1>6, <2>1
    <2> QED
      BY <1>4, <2>1, <2>2, <2>3, KnownIs, KnownOfOperators
  <1>8. Known = Abstract!Nothing
    BY <1>5, SameFunction DEF Known, Abstract!Nothing
  <1> QED
    BY <1>4, <1>7, <1>8 DEF f, UpdateCurrent, Abstract!UpdateCurrent

\* update_next_operator
LEMMA UpdateNextStep ==
    ASSUME ListInv, UpdateNext
    PROVE  /\ IsShort(operators') /\ lastCall' \in 0..LastEpoch
           /\ Abstract!UpdateNext
  <1>1. PICK epoch \in Later, operator \in Operators :
           UpdateNextOperator(epoch, operator) /\ lastCall' = epoch
    BY DEF UpdateNext
  <1> DEFINE f == Abstract!UpdateNextOperator(Known, epoch, operator)
             entries == Entries(operators)
  <1>2. epoch \in 0..LastEpoch
    BY MonitorAssumption DEF Later, ListInv
  <1>3. /\ IsShort(operators')
        /\ Entries(operators') =
              (entries \cap EntriesOf({epoch}))
                 \cup {[epoch |-> epoch + 1, operator |-> operator]}
    BY <1>1, <1>2, UpdateNextEntries DEF ListInv
  <1>4. /\ DOMAIN Known = {x.epoch : x \in entries}
        /\ \A x \in entries : Known[x.epoch] = x.operator
        /\ entries \subseteq ActiveOperator
    BY KnownEntries, KnownOfOperators DEF ListInv
  <1> HIDE DEF entries
  <1>5. epoch \in Int
    BY <1>2
  <1>6. f = [e \in (DOMAIN Known \cap {epoch}) \cup {epoch + 1} |->
                IF e = epoch + 1 THEN operator ELSE Known[e]]
    BY <1>5 DEF Abstract!UpdateNextOperator, Abstract!WithOperator,
                Abstract!RetainEpochs
  <1>7. \A x : x \in Entries(operators') <=>
           \/ x \in entries /\ x.epoch = epoch
           \/ x = [epoch |-> epoch + 1, operator |-> operator]
    BY <1>3, <1>4 DEF EntriesOf
  <1> HIDE DEF f
  <1>8. f = [e \in DOMAIN f |-> f[e]]
    BY <1>6
  <1>9. DOMAIN f = {x.epoch : x \in Entries(operators')}
    <2>1. ASSUME NEW e \in DOMAIN Known \cap {epoch}
          PROVE  \E x \in Entries(operators') : x.epoch = e
      BY <1>4, <1>7
    <2>2. \E x \in Entries(operators') : x.epoch = epoch + 1
      <3>1. [epoch |-> epoch + 1, operator |-> operator] \in Entries(operators')
        BY <1>7
      <3> QED
        BY <3>1
    <2>3. \A x \in Entries(operators') : x.epoch \in DOMAIN f
      BY <1>4, <1>6, <1>7
    <2>4. DOMAIN f = (DOMAIN Known \cap {epoch}) \cup {epoch + 1}
      BY <1>6
    <2> QED
      BY <2>1, <2>2, <2>3, <2>4
  <1>10. \A x \in Entries(operators') : f[x.epoch] = x.operator
    BY <1>4, <1>5, <1>6, <1>7
  <1>11. Known' = f
    <2>1. KnownOf(operators') = f
      BY <1>3, <1>8, <1>9, <1>10, KnownIs, ZenonT(40)
    <2> QED
      BY <2>1, KnownOfOperators
  <1> QED
    BY <1>1, <1>2, <1>3, <1>11 DEF f, Later, Abstract!UpdateNext, Abstract!Later

\* change_epoch
LEMMA ChangeStep ==
    ASSUME ListInv, Change
    PROVE  /\ IsShort(operators') /\ lastCall' \in 0..LastEpoch
           /\ Abstract!Change
  <1>1. PICK epoch \in Later : ChangeEpoch(epoch) /\ lastCall' = epoch
    BY DEF Change
  <1> DEFINE f == Abstract!ChangeEpoch(Known, epoch)
             entries == Entries(operators)
  <1>2. epoch \in 0..LastEpoch
    BY MonitorAssumption DEF Later, ListInv
  <1>3. /\ IsShort(operators')
        /\ Entries(operators') =
              entries \cap EntriesOf({e \in Epochs : e >= epoch})
    BY <1>1, RetainEntries DEF ListInv, ChangeEpoch
  <1>4. /\ DOMAIN Known = {x.epoch : x \in entries}
        /\ \A x \in entries : Known[x.epoch] = x.operator
        /\ entries \subseteq ActiveOperator
    BY KnownEntries, KnownOfOperators DEF ListInv
  <1> HIDE DEF entries
  <1>5. f = [e \in {e \in DOMAIN Known : e >= epoch} |-> Known[e]]
    BY DEF Abstract!ChangeEpoch, Abstract!RetainEpochs
  <1>6. \A x : x \in Entries(operators') <=> x \in entries /\ x.epoch >= epoch
    BY <1>3, <1>4 DEF EntriesOf, ActiveOperator
  <1> HIDE DEF f
  <1>7. f = [e \in DOMAIN f |-> f[e]]
    BY <1>5
  <1>8. DOMAIN f = {x.epoch : x \in Entries(operators')}
    BY <1>4, <1>5, <1>6
  <1>9. \A x \in Entries(operators') : f[x.epoch] = x.operator
    BY <1>4, <1>5, <1>6
  <1>10. Known' = f
    <2>1. KnownOf(operators') = f
      BY <1>3, <1>7, <1>8, <1>9, KnownIs, ZenonT(40)
    <2> QED
      BY <2>1, KnownOfOperators
  <1> QED
    BY <1>1, <1>2, <1>3, <1>10 DEF f, Later, Abstract!Change, Abstract!Later

\* The list is empty at first.
LEMMA ListInit == Init => ListInv /\ Abstract!Init
  <1> SUFFICES ASSUME Init PROVE ListInv /\ Abstract!Init
    OBVIOUS
  <1>1. ListInv
    BY NoneShort DEF Init, ListInv
  <1>2. DOMAIN Known = {}
    BY DEF Init, Known
  <1>3. Known = Abstract!Nothing
    BY <1>2, SameFunction DEF Known, Abstract!Nothing
  <1> QED
    BY <1>1, <1>3 DEF Init, Abstract!Init

\* Every step keeps it short and is a step of WhitelistSpec.
LEMMA ListStep ==
    ListInv /\ [Next]_vars => ListInv' /\ [Abstract!Next]_(Abstract!vars)
  <1> SUFFICES ASSUME ListInv, [Next]_vars
               PROVE  ListInv' /\ [Abstract!Next]_(Abstract!vars)
    OBVIOUS
  <1>1. CASE UpdateCurrent
    BY <1>1, UpdateCurrentStep DEF UpdateCurrent, ListInv, Abstract!Next
  <1>2. CASE UpdateNext
    BY <1>2, UpdateNextStep DEF ListInv, Abstract!Next
  <1>3. CASE Change
    BY <1>3, ChangeStep DEF ListInv, Abstract!Next
  <1>4. CASE UNCHANGED vars
    BY <1>4, KnownOfOperators DEF vars, ListInv, Abstract!vars
  <1> QED
    BY <1>1, <1>2, <1>3, <1>4 DEF Next

-----------------------------------------------------------------------------
(* Reading the list.                                                       *)

\* `contains' finds what the function says.
LEMMA ActiveAgrees ==
    ASSUME ListInv, NEW o \in Operators, NEW e \in Epochs
    PROVE  IsActiveIn(o, e) <=> Abstract!IsActiveIn(Known, o, e)
  <1> DEFINE entry == [epoch |-> e, operator |-> o]
  <1>1. /\ DOMAIN Known = {x.epoch : x \in Entries(operators)}
        /\ \A x \in Entries(operators) : Known[x.epoch] = x.operator
        /\ Entries(operators) \subseteq ActiveOperator
    BY KnownEntries, KnownOfOperators DEF ListInv
  <1>2. IsActiveIn(o, e) <=> entry \in Entries(operators)
    BY DEF IsActiveIn, Entries
  <1>3. entry \in Entries(operators) => e \in DOMAIN Known /\ Known[e] = o
    BY <1>1
  <1>4. e \in DOMAIN Known /\ Known[e] = o => entry \in Entries(operators)
    BY <1>1 DEF ActiveOperator
  <1> QED
    BY <1>2, <1>3, <1>4 DEF Abstract!IsActiveIn

\* The length of the list is the number of epochs it is about.
LEMMA LengthAgrees ==
    ASSUME ListInv
    PROVE  Len(operators) = 2 <=> Cardinality(DOMAIN Known) = 2
  <1>1. DOMAIN Known = {x.epoch : x \in Entries(operators)}
    BY KnownEntries, KnownOfOperators DEF ListInv
  <1>2. IsShort(operators)
    BY DEF ListInv
  <1>3. CASE Len(operators) = 0 /\ operators = <<>>
    <2>1. DOMAIN Known = {}
      BY <1>1, <1>3, NoneShort
    <2> QED
      BY <1>3, <2>1, FS_EmptySet
  <1>4. CASE /\ Len(operators) = 1 /\ operators[1] \in ActiveOperator
             /\ operators = <<operators[1]>>
    <2>1. PICK a \in ActiveOperator : operators = <<a>>
      BY <1>4
    <2>2. DOMAIN Known = {a.epoch}
      BY <1>1, <2>1, OneShort
    <2> QED
      BY <1>4, <2>2, FS_Singleton
  <1>5. CASE /\ Len(operators) = 2 /\ operators = <<operators[1], operators[2]>>
             /\ operators[1] \in ActiveOperator /\ operators[2] \in ActiveOperator
             /\ operators[1].epoch < operators[2].epoch
    <2>1. PICK a \in ActiveOperator, b \in ActiveOperator :
             operators = <<a, b>> /\ a.epoch < b.epoch
      BY <1>5
    <2>2. DOMAIN Known = {a.epoch} \cup {b.epoch}
      BY <1>1, <2>1, TwoShort
    <2>3. a.epoch # b.epoch
      BY <2>1, MonitorAssumption DEF ActiveOperator, Epochs
    <2>4. IsFiniteSet({a.epoch}) /\ Cardinality({a.epoch}) = 1
      BY FS_Singleton
    <2>5. Cardinality(DOMAIN Known) = 1 + 1
      BY <2>2, <2>3, <2>4, FS_AddElement
    <2> QED
      BY <1>5, <2>5
  <1> QED
    BY <1>2, <1>3, <1>4, <1>5, ShortShapes

\* The abstract module has the cardinality of sets of its own.
LEMMA SameCardinality ==
    ASSUME NEW S
    PROVE  Abstract!Cardinality(S) = Cardinality(S)
  BY DEF Cardinality, Abstract!Cardinality

\* What is_current_and_next concludes from the list it would conclude from the
\* function.
LEMMA CurrentAndNextAgrees ==
    ASSUME ListInv, NEW o
    PROVE  IsCurrentAndNext(o) <=> Abstract!IsCurrentAndNext(Known, o)
  <1>1. /\ DOMAIN Known = {x.epoch : x \in Entries(operators)}
        /\ \A x \in Entries(operators) : Known[x.epoch] = x.operator
    BY KnownEntries, KnownOfOperators DEF ListInv
  <1>2. (\A i \in DOMAIN operators : operators[i].operator = o)
           <=> (\A x \in Entries(operators) : x.operator = o)
    BY DEF Entries
  <1>3. (\A x \in Entries(operators) : x.operator = o)
           <=> (\A e \in DOMAIN Known : Known[e] = o)
    BY <1>1
  <1> QED
    BY <1>2, <1>3, LengthAgrees, SameCardinality DEF IsCurrentAndNext, Abstract!IsCurrentAndNext

-----------------------------------------------------------------------------
(* The theorems.                                                           *)

\* The list holds entries of known epochs and operators, whatever the order of
\* the calls (WhitelistMonitor.TypeOK).
THEOREM TypeCorrect == Spec => []TypeOK
  <1>1. ListInv => TypeOK
    BY DEF ListInv, IsShort, TypeOK
  <1> QED
    BY <1>1, ListInit, ListStep, PTL DEF Spec

\* The entries are in the order of their epochs, one per epoch
\* (WhitelistMonitor.OnePerEpoch).
THEOREM OnePerEpochCorrect == Spec => []OnePerEpoch
  <1>1. ListInv => OnePerEpoch
    BY DEF ListInv, IsShort, Ordered, OnePerEpoch
  <1> QED
    BY <1>1, ListInit, ListStep, PTL DEF Spec

\* What a loop reads from the list is what it would read from the function
\* (WhitelistMonitor.ReadsAgree).
THEOREM ReadsAgreeCorrect == Spec => []ReadsAgree
  <1>1. ListInv => ReadsAgree
    BY ActiveAgrees, CurrentAndNextAgrees DEF ReadsAgree
  <1> QED
    BY <1>1, ListInit, ListStep, PTL DEF Spec

\* The Vec implements the function from epochs to operators
\* (WhitelistMonitor.ImplementsSpec).
THEOREM Implements == Spec => ImplementsSpec
  <1> QED
    BY ListInit, ListStep, PTL DEF Spec, ImplementsSpec, Abstract!Spec
=============================================================================
