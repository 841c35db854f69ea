--------------------------- MODULE DeviceListProofs ---------------------------
(***************************************************************************)
(* Theorems about DeviceList, for every bus, every allocator and every     *)
(* link that a block may hold.  A call that returns has reported the bus   *)
(* in its order and freed every device: links into the list are always     *)
(* those of the list, and only the last cell may hold a stale one.  Only   *)
(* a stale link leads the walk out of the list.                            *)
(***************************************************************************)
EXTENDS DeviceList, TLAPS, FiniteSetTheorems, SequenceTheorems

\* The allocated cells hold a model.
ModelInv ==
    /\ \A c \in live : model[c] \in Models
    /\ pc \in {"open", "walk"} => n < i
    /\ pc = "walk" => temp \in Cells /\ i <= Len(bus)

Typing == TypeOK /\ ModelInv

\* s is the list of the devices that the loop over the bus has found so far,
\* and at their places on the bus.
ListOf(s, at) ==
    /\ s \in [1..n -> Cells] /\ IsInjective(s)
    /\ list = IF n = 0 THEN NULL ELSE s[1]
    /\ \A k \in 1..(n - 1) : next[s[k]] = s[k + 1]
    /\ at \in [1..n -> 1..Len(bus)]
    /\ \A j, k \in 1..n : j < k => at[j] < at[k]
    /\ Range(at) = {k \in SupportedAt(bus) : k < i}
    /\ \A k \in 1..n : model[s[k]] = ModelOf(bus[at[k]])

\* Behind the last cell may be anything.
InOpen(s) == live = Range(s) /\ (n > 0 => tail = s[n])

\* The walk is in the list, or past its end: in the new cell only if a stale
\* link of the last one led there, and outside only with a stale link.
InWalk(s) ==
    /\ live = Range(s) \cup {temp} /\ temp \in Cells \ Range(s)
    /\ n > 0 /\ tail = temp
    /\ OpenDevice(bus[i]) /\ model[temp] = ModelOf(bus[i])
    /\ current = temp => next[s[n]] = temp
    /\ ~stale => current \in Range(s) /\ next[s[n]] = NULL
InCopy(s, at) ==
    /\ i > Len(bus) /\ Len(models) <= n
    /\ live = {s[k] : k \in (Len(models) + 1)..n}
    /\ models = [k \in 1..Len(models) |-> ModelOf(bus[at[k]])]
    /\ Len(models) < n => temp = s[Len(models) + 1]

Busy(s, at) ==
    /\ ListOf(s, at)
    /\ pc = "open" => InOpen(s)
    /\ pc = "walk" => InWalk(s)
    /\ pc = "copy" => InCopy(s, at)

DetectInv ==
    /\ pc = "idle" => live = {} /\ DetectsTheBus
    /\ pc = "strayed" => stale
    /\ pc \in {"open", "walk", "copy"} =>
        \E s \in [1..n -> Cells], at \in [1..n -> 1..Len(bus)] : Busy(s, at)

-----------------------------------------------------------------------------
(***************************************************************************)
(* Types.                                                                  *)
(***************************************************************************)

\* A device that libmk_open_device returns is a keyboard.
LEMMA SupportedModel ==
    ASSUME NEW d \in Devices, Supported(d)
    PROVE  ModelOf(d) \in Models
BY DEF Supported, ModelOf, libmk_ident_model, Models, SizeOf

\* What RemoveAt returns.
LEMMA RemoveAtIsSeq ==
    ASSUME NEW S, NEW s \in Seq(S), NEW k \in 1..Len(s)
    PROVE  /\ RemoveAt(s, k) \in Seq(S)
           /\ Len(RemoveAt(s, k)) = Len(s) - 1
           /\ \A j \in 1..(Len(s) - 1) :
                RemoveAt(s, k)[j] = IF j < k THEN s[j] ELSE s[j + 1]
<1> DEFINE a == SubSeq(s, 1, k - 1)
           b == SubSeq(s, k + 1, Len(s))
<1>1. Len(s) \in Nat /\ k \in Int
  OBVIOUS
<1>2. /\ a \in Seq(S)
      /\ Len(a) = k - 1
      /\ \A j \in 1..(k - 1) : a[j] = s[j]
  <2>1. \A j \in 1..(k - 1) : s[j] \in S
    BY <1>1
  <2> QED  BY <1>1, <2>1, SubSeqProperties
<1>3. /\ b \in Seq(S)
      /\ Len(b) = Len(s) - k
      /\ \A j \in 1..(Len(s) - k) : b[j] = s[k + j]
  <2>1. \A j \in (k + 1)..Len(s) : s[j] \in S
    BY <1>1
  <2> QED  BY <1>1, <2>1, SubSeqProperties
<1>4. RemoveAt(s, k) = a \o b
  BY DEF RemoveAt
<1> HIDE DEF a, b
<1>5. /\ a \o b \in Seq(S)
      /\ Len(a \o b) = Len(s) - 1
      /\ \A j \in 1..(Len(s) - 1) :
           (a \o b)[j] = IF j <= Len(a) THEN a[j] ELSE b[j - Len(a)]
  <2>1. Len(a) + Len(b) = Len(s) - 1
    BY <1>1, <1>2, <1>3
  <2>2. /\ a \o b \in Seq(S)
        /\ Len(a \o b) = Len(a) + Len(b)
        /\ \A j \in 1..(Len(a) + Len(b)) :
             (a \o b)[j] = IF j <= Len(a) THEN a[j] ELSE b[j - Len(a)]
    BY <1>2, <1>3, ConcatProperties
  <2> QED  BY <2>1, <2>2
<1>6. ASSUME NEW j \in 1..(Len(s) - 1)
      PROVE  (a \o b)[j] = IF j < k THEN s[j] ELSE s[j + 1]
  <2>1. CASE j < k
    BY <1>1, <1>2, <1>5, <2>1
  <2>2. CASE ~(j < k)
    <3>1. j - Len(a) \in 1..(Len(s) - k) /\ k + (j - Len(a)) = j + 1
      BY <1>1, <1>2, <2>2
    <3> QED  BY <1>1, <1>2, <1>3, <1>5, <2>2, <3>1
  <2> QED  BY <2>1, <2>2
<1> QED  BY <1>4, <1>5, <1>6

\* A block that malloc takes from the freed ones is freed no more.
LEMMA WithoutFacts ==
    ASSUME NEW S, NEW s \in Seq(S), IsInjective(s), NEW c
    PROVE  Without(s, c) \in Seq(S \ {c}) /\ IsInjective(Without(s, c))
<1>1. Len(s) \in Nat /\ DOMAIN s = 1..Len(s)
  OBVIOUS
<1>2. CASE c \notin Range(s)
  <2>1. \A k \in 1..Len(s) : s[k] \in S \ {c}
    BY <1>1, <1>2 DEF Range
  <2>2. s \in Seq(S \ {c})
    BY <1>1, <2>1
  <2> QED  BY <1>2, <2>2 DEF Without
<1>3. CASE c \in Range(s)
  <2> DEFINE k == CHOOSE m \in DOMAIN s : s[m] = c
             r == RemoveAt(s, k)
             at(m) == IF m < k THEN m ELSE m + 1
  <2>1. k \in 1..Len(s) /\ s[k] = c
    BY <1>1, <1>3 DEF Range
  <2> HIDE DEF k
  <2>2. /\ Len(r) = Len(s) - 1 /\ DOMAIN r = 1..(Len(s) - 1)
        /\ \A m \in 1..(Len(s) - 1) : r[m] = s[at(m)]
        /\ r \in Seq(S)
    <3>1. Len(r) = Len(s) - 1 /\ \A m \in 1..(Len(s) - 1) : r[m] = s[at(m)]
      BY <2>1, RemoveAtIsSeq
    <3>2. r \in Seq(S)
      BY <2>1, RemoveAtIsSeq
    <3> QED  BY <1>1, <3>1, <3>2
  <2> HIDE DEF r
  <2>3. \A m \in 1..(Len(s) - 1) : at(m) \in 1..Len(s) /\ at(m) # k
    BY <1>1, <2>1
  <2>4. \A m \in 1..(Len(s) - 1) : r[m] \in S \ {c}
    BY <1>1, <2>1, <2>2, <2>3 DEF IsInjective
  <2>5. r \in Seq(S \ {c})
    BY <2>2, <2>4
  <2>6. IsInjective(r)
    <3> SUFFICES ASSUME NEW x \in 1..(Len(s) - 1), NEW y \in 1..(Len(s) - 1), r[x] = r[y]
                 PROVE  x = y
      BY <2>2 DEF IsInjective
    <3>1. at(x) = at(y)
      BY <1>1, <2>2, <2>3 DEF IsInjective
    <3> QED  BY <1>1, <2>1, <3>1
  <2> QED  BY <1>3, <2>5, <2>6 DEF Without, r, k
<1> QED  BY <1>2, <1>3

LEMMA TypingInit == Init => Typing
<1> SUFFICES ASSUME Init  PROVE Typing
  OBVIOUS
<1>1. freed \in Seq(Cells \ live) /\ IsInjective(freed) /\ models \in Seq(Models)
  BY DEF Init, IsInjective
<1>2. bus \in Buses \cup {<<>>} /\ i \in 1..Len(bus) + 1 /\ n \in 0..Len(bus)
  BY DEF Init
<1>3. /\ list \in Pointers /\ {temp, current} \subseteq Links /\ tail \in Pointers
      /\ next \in [Cells -> Links] /\ model \in [Cells -> Models \cup {"none"}]
  BY DEF Init, Pointers, Links
<1>4. ModelInv
  BY DEF Init, ModelInv
<1>5. /\ pc \in {"idle", "open", "walk", "copy", "strayed"} /\ live \subseteq Cells
      /\ result \in {LIBMK_ERR_DEV_LIST} \cup Nat /\ leaked \in Nat
      /\ calls \in 0..MaxCalls
  <2>1. pc = "idle" /\ live = {} /\ result = 0 /\ leaked = 0 /\ calls = 0
    BY DEF Init
  <2> QED  BY <2>1, CallsAssumption
<1>6. stale \in BOOLEAN
  BY DEF Init
<1> QED
  BY <1>1, <1>2, <1>3, <1>4, <1>5, <1>6 DEF Typing, TypeOK

\* Where the loop over the bus is, the device there has a model if supported.
LEMMA BusFacts ==
    ASSUME TypeOK
    PROVE  /\ Len(bus) \in Nat /\ DOMAIN bus = 1..Len(bus)
           /\ \A k \in 1..Len(bus) : OpenDevice(bus[k]) => ModelOf(bus[k]) \in Models
<1>1. bus \in Seq(Devices)
  <2>1. CASE bus \in Buses
    BY <2>1, BusesAssumption
  <2>2. CASE bus = <<>>
    BY <2>2
  <2> QED  BY <2>1, <2>2 DEF TypeOK
<1>2. \A k \in 1..Len(bus) : bus[k] \in Devices
  BY <1>1
<1> QED
  BY <1>1, <1>2, SupportedModel DEF OpenDevice

\* A new block: where it comes from, and what libmk_create_device does to it.
LEMMA CreateFacts ==
    ASSUME Typing, i <= Len(bus), OpenDevice(bus[i]), NEW c \in Malloc, CreateDevice(c)
    PROVE  /\ c \in Cells \ live
           /\ live' = live \cup {c}
           /\ next' \in [Cells -> Links] /\ \A p \in Cells : p # c => next'[p] = next[p]
           /\ model' = [model EXCEPT ![c] = ModelOf(bus[i])]
           /\ ModelOf(bus[i]) \in Models
           /\ freed' \in Seq(Cells \ live') /\ IsInjective(freed')
<1>1. ModelOf(bus[i]) \in Models
  BY BusFacts DEF Typing, TypeOK
<1>2. freed \in Seq(Cells \ live) /\ IsInjective(freed)
  BY DEF Typing, TypeOK
<1>3. c \in Cells \ live
  BY <1>2 DEF Malloc
<1>4. freed' \in Seq((Cells \ live) \ {c}) /\ IsInjective(freed')
  BY <1>2, WithoutFacts DEF CreateDevice
<1>5. (Cells \ live) \ {c} = Cells \ (live \cup {c})
  OBVIOUS
<1>6. next' \in [Cells -> Links] /\ \A p \in Cells : p # c => next'[p] = next[p]
  <2>1. PICK link \in {next[c]} \cup Garbage : next' = [next EXCEPT ![c] = link]
    BY DEF CreateDevice
  <2>2. link \in Links /\ next \in [Cells -> Links]
    BY <1>3, HeapAssumption DEF Typing, TypeOK
  <2> QED  BY <2>1, <2>2
<1> QED
  BY <1>1, <1>3, <1>4, <1>5, <1>6 DEF CreateDevice

LEMMA TypingNext == Typing /\ [Next]_vars => Typing'
<1> SUFFICES ASSUME Typing, [Next]_vars  PROVE Typing'
  OBVIOUS
<1> USE DEF Typing, TypeOK, ModelInv, Pointers, Links
<1>1. CASE UNCHANGED vars
  BY <1>1 DEF vars, locals, fields, heap, answer, aux
<1>2. CASE DetectFails
  BY <1>2, CallsAssumption DEF DetectFails, locals, fields, heap, aux
<1>3. CASE Detect
  <2>1. PICK b \in Buses : bus' = b
    BY <1>3 DEF Detect
  <2>2. Len(bus') \in Nat
    BY <2>1, BusesAssumption
  <2>3. UNCHANGED <<next, model, live, freed, models, result, leaked>>
    BY <1>3 DEF Detect, fields, heap, answer
  <2>4. /\ pc' = "open" /\ i' = 1 /\ n' = 0 /\ calls < MaxCalls /\ calls' = calls + 1
        /\ list' = NULL /\ temp' = NULL /\ current' = NULL /\ tail' = NULL /\ stale' = FALSE
    BY <1>3 DEF Detect
  <2>5. i' \in 1..Len(bus') + 1 /\ n' \in 0..Len(bus') /\ calls' \in 0..MaxCalls /\ n' < i'
    BY <2>2, <2>4, CallsAssumption
  <2> QED  BY <2>1, <2>3, <2>4, <2>5
<1>4. CASE SkipDevice
  BY <1>4, BusFacts DEF SkipDevice, fields, heap, answer, aux
<1>5. CASE AppendFirst
  <2>1. PICK c \in Malloc : CreateDevice(c) /\ temp' = c /\ list' = c /\ tail' = c
    BY <1>5 DEF AppendFirst
  <2>2. i <= Len(bus) /\ OpenDevice(bus[i])
    BY <1>5 DEF AppendFirst
  <2>3. /\ c \in Cells
        /\ live' = live \cup {c} /\ next' \in [Cells -> Links]
        /\ model' = [model EXCEPT ![c] = ModelOf(bus[i])]
        /\ ModelOf(bus[i]) \in Models
        /\ freed' \in Seq(Cells \ live') /\ IsInjective(freed')
    BY <2>1, <2>2, CreateFacts
  <2>4. \A p \in Cells : model'[p] = IF p = c THEN ModelOf(bus[i]) ELSE model[p]
    BY <2>3
  <2>5. i' = i + 1 /\ n' = n + 1 /\ n < i /\ Len(bus) \in Nat /\ i \in Nat /\ n \in Nat
    BY <1>5, BusFacts DEF AppendFirst, Counted
  <2>6. i' \in 1..Len(bus) + 1 /\ n' \in 0..Len(bus) /\ n' < i'
    BY <2>2, <2>5
  <2>7. /\ pc' = "open" /\ pc = "open"
        /\ UNCHANGED <<bus, current, models, result, leaked, calls, stale>>
    BY <1>5 DEF AppendFirst, answer
  <2>8. \A p \in live' : model'[p] \in Models
    BY <2>3, <2>4
  <2>9. model' \in [Cells -> Models \cup {"none"}]
    BY <2>3
  <2> QED  BY <2>1, <2>3, <2>6, <2>7, <2>8, <2>9
<1>6. CASE AppendNext
  <2>1. PICK c \in Malloc : CreateDevice(c) /\ temp' = c /\ tail' = c
    BY <1>6 DEF AppendNext
  <2>2. i <= Len(bus) /\ OpenDevice(bus[i])
    BY <1>6 DEF AppendNext
  <2>3. /\ c \in Cells /\ c # NULL
        /\ live' = live \cup {c} /\ next' \in [Cells -> Links]
        /\ model' = [model EXCEPT ![c] = ModelOf(bus[i])]
        /\ ModelOf(bus[i]) \in Models
        /\ freed' \in Seq(Cells \ live') /\ IsInjective(freed')
    BY <2>1, <2>2, CreateFacts, BusesAssumption
  <2>4. \A p \in Cells : model'[p] = IF p = c THEN ModelOf(bus[i]) ELSE model[p]
    BY <2>3
  <2> QED  BY <1>6, <2>1, <2>2, <2>3, <2>4 DEF AppendNext, answer
<1>7. CASE Walk
  BY <1>7 DEF Walk, fields, heap, answer, LastCell, aux
<1>8. CASE Link
  BY <1>8, BusFacts DEF Link, heap, answer, LastCell, Counted, aux
<1>9. CASE BuildArray
  BY <1>9 DEF BuildArray, fields, heap, aux
<1>10. CASE CopyModel
  <2>1. temp \in live /\ temp \in Cells /\ model[temp] \in Models
    BY <1>10 DEF CopyModel
  <2>2. models' \in Seq(Models)
    BY <1>10, <2>1 DEF CopyModel
  <2>3. temp' \in Links
    BY <1>10, <2>1 DEF CopyModel, Following
  <2>4. live' \subseteq Cells /\ freed' \in Seq(Cells \ live') /\ IsInjective(freed')
    <3>1. freed' = <<temp>> \o freed /\ live' = live \ {temp}
      BY <1>10 DEF CopyModel
    <3>2. freed \in Seq(Cells \ live') /\ <<temp>> \in Seq(Cells \ live')
      BY <2>1, <3>1
    <3>3. \A k \in 1..Len(freed) : freed[k] # temp
      BY <2>1
    <3>4. /\ freed' \in Seq(Cells \ live') /\ Len(freed') = 1 + Len(freed)
          /\ \A k \in 1..(1 + Len(freed)) : freed'[k] = IF k <= 1 THEN temp ELSE freed[k - 1]
      BY <3>1, <3>2, ConcatProperties
    <3>5. IsInjective(freed')
      <4> SUFFICES ASSUME NEW x \in 1..(1 + Len(freed)), NEW y \in 1..(1 + Len(freed)),
                          freed'[x] = freed'[y]
                   PROVE  x = y
        BY <3>4 DEF IsInjective
      <4>1. Len(freed) \in Nat /\ DOMAIN freed = 1..Len(freed)
        BY <3>2
      <4>2. x > 1 => x - 1 \in 1..Len(freed) /\ freed'[x] = freed[x - 1]
        BY <3>4, <4>1
      <4>3. y > 1 => y - 1 \in 1..Len(freed) /\ freed'[y] = freed[y - 1]
        BY <3>4, <4>1
      <4>4. x > 1 /\ y > 1 => x - 1 = y - 1
        BY <4>1, <4>2, <4>3 DEF IsInjective
      <4>5. x = 1 => freed'[x] = temp
        BY <3>4
      <4>6. y = 1 => freed'[y] = temp
        BY <3>4
      <4> QED  BY <3>3, <4>1, <4>2, <4>3, <4>4, <4>5, <4>6
    <3> QED  BY <3>1, <3>4, <3>5
  <2>5. UNCHANGED <<pc, bus, i, list, n, current, next, model, result, leaked, calls, tail, stale>>
    BY <1>10 DEF CopyModel, fields, aux
  <2>6. ModelInv'
    <3>1. pc' = "copy" /\ live' \subseteq live
      BY <1>10 DEF CopyModel
    <3> QED  BY <2>5, <3>1
  <2> QED  BY <2>2, <2>3, <2>4, <2>5, <2>6
<1>11. CASE Return
  BY <1>11 DEF Return, locals, fields, heap, aux
<1>12. CASE Stray
  BY <1>12 DEF Stray, locals, fields, heap, answer, aux
<1> QED
  BY <1>1, <1>2, <1>3, <1>4, <1>5, <1>6, <1>7, <1>8, <1>9, <1>10, <1>11, <1>12 DEF Next, Step

THEOREM TypingIsInvariant == Spec => []Typing
BY TypingInit, TypingNext, PTL DEF Spec

\* Every field of the program keeps its type, whatever the bus and malloc do.
THEOREM DetectTypes == Spec => []TypeOK
BY TypingIsInvariant, PTL DEF Typing

-----------------------------------------------------------------------------
(***************************************************************************)
(* The list, whatever links its blocks held before.                        *)
(***************************************************************************)

LEMMA SupportedOnBus == \A k \in SupportedAt(bus) : k \in DOMAIN bus /\ OpenDevice(bus[k])
BY DEF SupportedAt, OpenDevice

LEMMA DetectInvInit == Init => DetectInv
<1> SUFFICES ASSUME Init  PROVE DetectInv
  OBVIOUS
<1> DEFINE e == [k \in 1..0 |-> k]
<1>1. SupportedAt(bus) = {}
  BY DEF Init, SupportedAt
<1>2. e \in [1..0 -> SupportedAt(bus)] /\ DOMAIN e = {}
  OBVIOUS
<1>3. models = [k \in 1..0 |-> ModelOf(bus[e[k]])]
  BY DEF Init
<1>4. InBusOrder(e)
  BY <1>1, <1>2 DEF InBusOrder, Range
<1>5. DetectsTheBus
  BY <1>2, <1>3, <1>4 DEF Init, DetectsTheBus
<1> QED
  BY <1>5 DEF Init, DetectInv

\* detect starts with an empty list.
LEMMA BusyDetect ==
    ASSUME Typing, DetectInv, Detect
    PROVE  \E s \in [1..n' -> Cells], at \in [1..n' -> 1..Len(bus')] : Busy(s, at)'
<1>1. bus' \in Buses /\ bus' \in Seq(Devices) /\ Len(bus') \in Nat
  BY BusesAssumption DEF Detect
<1>2. n' = 0 /\ i' = 1 /\ list' = NULL /\ pc' = "open" /\ live' = {}
  BY DEF Detect, heap, DetectInv
<1> DEFINE e == [k \in 1..0 |-> k]
<1>3. DOMAIN e = 1..n' /\ Range(e) = {} /\ e \in [1..n' -> Cells] /\ e \in [1..n' -> 1..Len(bus')]
  BY <1>2 DEF Range
<1> HIDE DEF e
<1>4. {k \in SupportedAt(bus)' : k < 1} = {}
  BY <1>1 DEF SupportedAt
<1>5. ListOf(e, e)'
  BY <1>2, <1>3, <1>4 DEF ListOf, IsInjective
<1>6. Busy(e, e)'
  BY <1>2, <1>3, <1>5 DEF Busy, InOpen
<1> QED
  BY <1>3, <1>6

\* A device that is passed over leaves the list as it was.
LEMMA BusySkip ==
    ASSUME Typing, NEW s \in [1..n -> Cells], NEW at \in [1..n -> 1..Len(bus)],
           Busy(s, at), SkipDevice
    PROVE  Busy(s, at)'
<1>1. /\ pc = "open" /\ pc' = "open" /\ i' = i + 1 /\ ~OpenDevice(bus[i])
      /\ UNCHANGED <<bus, list, n, next, model, live, tail>>
  BY DEF SkipDevice, fields, heap, aux
<1>2. {k \in SupportedAt(bus) : k < i'} = {k \in SupportedAt(bus) : k < i}
  BY <1>1, SupportedOnBus, BusFacts DEF Typing, TypeOK
<1>3. SupportedAt(bus)' = SupportedAt(bus)
  BY <1>1 DEF SupportedAt
<1>4. ListOf(s, at)'
  BY <1>1, <1>2, <1>3 DEF Busy, ListOf, ModelOf
<1> QED
  BY <1>1, <1>4 DEF Busy, InOpen

\* The first keyboard: a list of one.
LEMMA BusyFirst ==
    ASSUME Typing, NEW s \in [1..n -> Cells], NEW at \in [1..n -> 1..Len(bus)],
           Busy(s, at), AppendFirst
    PROVE  \E t \in [1..n' -> Cells], a \in [1..n' -> 1..Len(bus')] : Busy(t, a)'
<1>1. PICK c \in Malloc : CreateDevice(c) /\ temp' = c /\ list' = c /\ tail' = c
  BY DEF AppendFirst
<1>2. /\ pc = "open" /\ i' = i + 1 /\ n' = n + 1 /\ i \in 1..Len(bus) /\ OpenDevice(bus[i])
      /\ list = NULL /\ UNCHANGED <<pc, bus>> /\ i \in Nat
  BY DEF AppendFirst, Counted, Typing, TypeOK
<1>3. n = 0
  BY <1>2, BusesAssumption DEF Busy, ListOf, Typing, TypeOK
<1>4. /\ c \in Cells /\ live' = live \cup {c}
      /\ model' = [model EXCEPT ![c] = ModelOf(bus[i])]
  BY <1>1, <1>2, CreateFacts
<1>5. model'[c] = ModelOf(bus[i])
  BY <1>4 DEF Typing, TypeOK
<1>6. PICK one \in [1..n' -> Cells], place \in [1..n' -> 1..Len(bus')] :
        Range(one) = {c} /\ Range(place) = {i} /\ one[1] = c /\ place[1] = i
  <2> DEFINE x == [k \in 1..1 |-> c]
             y == [k \in 1..1 |-> i]
  <2>1. x \in [1..n' -> Cells] /\ y \in [1..n' -> 1..Len(bus')]
    BY <1>2, <1>3, <1>4
  <2>2. Range(x) = {c} /\ Range(y) = {i} /\ x[1] = c /\ y[1] = i
    BY DEF Range
  <2> QED  BY <2>1, <2>2
<1>7. DOMAIN one = 1..1 /\ \A k \in 1..1 : k = 1
  BY <1>2, <1>3, <1>6
<1>8. {k \in SupportedAt(bus) : k < i'} = {i}
  <2>1. {k \in SupportedAt(bus) : k < i} = {}
    BY <1>3 DEF Busy, ListOf, Range
  <2>2. i \in SupportedAt(bus)
    BY <1>2, BusFacts DEF SupportedAt, OpenDevice, Typing
  <2>3. \A k \in SupportedAt(bus) : k \in Nat
    BY BusFacts DEF SupportedAt, Typing
  <2>4. \A k \in SupportedAt(bus) : k < i' <=> k = i
    BY <1>2, <2>1, <2>3
  <2> QED  BY <2>2, <2>4
<1>9. SupportedAt(bus)' = SupportedAt(bus)
  BY <1>2 DEF SupportedAt
<1>10. ListOf(one, place)'
  <2>1. IsInjective(one) /\ list' = one[1]
    BY <1>1, <1>6, <1>7 DEF IsInjective
  <2>2. n' = 1 /\ n' # 0 /\ \A k \in 1..(n' - 1) : FALSE
    BY <1>2, <1>3
  <2>3. \A j, k \in 1..n' : j = 1 /\ k = 1
    BY <2>2
  <2>4. model'[one[1]] = ModelOf(bus[place[1]])'
    BY <1>2, <1>5, <1>6 DEF ModelOf
  <2>5. Range(place) = {k \in SupportedAt(bus)' : k < i'}
    BY <1>6, <1>8, <1>9
  <2> QED  BY <1>6, <2>1, <2>2, <2>3, <2>4, <2>5 DEF ListOf
<1>11. live' = {c}
  BY <1>2, <1>3, <1>4 DEF Busy, InOpen, Range
<1>12. InOpen(one)'
  BY <1>1, <1>2, <1>3, <1>6, <1>11 DEF InOpen
<1>13. Busy(one, place)'
  BY <1>2, <1>10, <1>12 DEF Busy
<1> QED
  BY <1>6, <1>13

\* Another keyboard: the walk starts at the head of the list.
LEMMA BusyNext ==
    ASSUME Typing, NEW s \in [1..n -> Cells], NEW at \in [1..n -> 1..Len(bus)],
           Busy(s, at), AppendNext
    PROVE  Busy(s, at)'
<1>1. PICK c \in Malloc : CreateDevice(c) /\ temp' = c /\ tail' = c
  BY DEF AppendNext
<1>2. /\ pc = "open" /\ pc' = "walk" /\ i <= Len(bus) /\ OpenDevice(bus[i])
      /\ list # NULL /\ current' = list /\ UNCHANGED <<bus, i, list, n>>
      /\ stale' = (stale \/ next[tail] # NULL)
  BY DEF AppendNext
<1>3. /\ c \in Cells \ live /\ live' = live \cup {c}
      /\ \A p \in Cells : p # c => next'[p] = next[p]
      /\ model' = [model EXCEPT ![c] = ModelOf(bus[i])]
  BY <1>1, <1>2, CreateFacts
<1>4. live = Range(s) /\ \A k \in 1..n : s[k] \in live /\ s[k] \in Cells
  BY <1>2 DEF Busy, InOpen, Range
<1>5. /\ model'[c] = ModelOf(bus[i])
      /\ \A k \in 1..n : model'[s[k]] = model[s[k]] /\ next'[s[k]] = next[s[k]]
  BY <1>3, <1>4 DEF Typing, TypeOK
<1>6. SupportedAt(bus)' = SupportedAt(bus)
  BY <1>2 DEF SupportedAt
<1>7. n > 0 /\ n \in 1..n /\ 1 \in 1..n
  BY <1>2 DEF Busy, ListOf, Typing, TypeOK
<1>8. ListOf(s, at)'
  <2>1. ListOf(s, at)
    BY DEF Busy
  <2>2. \A k \in 1..(n - 1) : k \in 1..n
    BY <1>7
  <2>3. \A k \in 1..(n - 1) : next'[s[k]] = s[k + 1]
    BY <1>5, <2>1, <2>2 DEF ListOf
  <2> QED  BY <1>2, <1>5, <1>6, <2>1, <2>3 DEF ListOf, ModelOf
<1>9. current' = s[1] /\ current' \in Range(s) /\ current' # temp'
  BY <1>1, <1>2, <1>3, <1>4, <1>7 DEF Busy, ListOf, Range
<1>10. ~stale' => next'[s[n]] = NULL
  BY <1>2, <1>5, <1>7 DEF Busy, InOpen
<1>11. InWalk(s)'
  BY <1>1, <1>2, <1>3, <1>4, <1>5, <1>7, <1>9, <1>10 DEF InWalk, ModelOf, OpenDevice
<1> QED
  BY <1>2, <1>8, <1>11 DEF Busy

\* The walk passes on: from a cell of the list to the one after it, or
\* along what the last cell or the new one hold.
LEMMA BusyWalk ==
    ASSUME Typing, NEW s \in [1..n -> Cells], NEW at \in [1..n -> 1..Len(bus)],
           Busy(s, at), Walk
    PROVE  Busy(s, at)'
<1>1. /\ pc = "walk" /\ pc' = "walk" /\ next[current] # NULL /\ current' = next[current]
      /\ current \in live
      /\ UNCHANGED <<bus, i, list, temp, n, next, model, live, tail, stale>>
  BY DEF Walk, LastCell, fields, heap, aux
<1>2. InWalk(s) /\ ListOf(s, at) /\ n \in Nat
  BY <1>1 DEF Busy, Typing, TypeOK
<1>3. current = temp \/ \E k \in 1..n : current = s[k]
  BY <1>1, <1>2 DEF InWalk, Range
<1>4. ASSUME NEW k \in 1..n, k < n, current = s[k]
      PROVE  current' \in Range(s)
  <2>1. k \in 1..(n - 1) /\ k + 1 \in 1..n
    BY <1>2, <1>4
  <2> QED  BY <1>1, <1>2, <1>4, <2>1 DEF ListOf, Range
<1>5. \A k \in 1..n : k < n \/ k = n
  BY <1>2
<1>6. current' = temp => next[s[n]] = temp
  BY <1>1, <1>2, <1>3, <1>4, <1>5 DEF InWalk
<1>7. ~stale => current' \in Range(s)
  BY <1>1, <1>2, <1>3, <1>4, <1>5 DEF InWalk
<1>8. SupportedAt(bus)' = SupportedAt(bus)
  BY <1>1 DEF SupportedAt
<1>9. ListOf(s, at)'
  BY <1>1, <1>2, <1>8 DEF ListOf, ModelOf
<1>10. InWalk(s)'
  BY <1>1, <1>2, <1>6, <1>7 DEF InWalk, ModelOf, OpenDevice
<1> QED
  BY <1>1, <1>9, <1>10 DEF Busy

\* The walk ends at the last cell, and the new one is linked behind it; or in
\* the new one itself, which a stale link had put behind the last already.
LEMMA BusyLink ==
    ASSUME Typing, NEW s \in [1..n -> Cells], NEW at \in [1..n -> 1..Len(bus)],
           Busy(s, at), Link
    PROVE  \E t \in [1..n' -> Cells], a \in [1..n' -> 1..Len(bus')] : Busy(t, a)'
<1>1. /\ pc = "walk" /\ pc' = "open" /\ next[current] = NULL
      /\ next' = [next EXCEPT ![current] = temp] /\ n' = n + 1 /\ i' = i + 1
      /\ current \in live /\ UNCHANGED <<bus, list, temp, model, live, tail>>
  BY DEF Link, LastCell, Counted, heap, aux
<1>2. InWalk(s) /\ ListOf(s, at) /\ i \in 1..Len(bus) /\ n \in Nat /\ i \in Nat
  BY <1>1 DEF Busy, Typing, TypeOK, ModelInv
<1>3. n > 0 /\ n \in 1..n
  BY <1>2 DEF InWalk
<1>4. next \in [Cells -> Links] /\ current \in Cells
  BY <1>1 DEF Typing, TypeOK
<1>5. temp \in Cells /\ \A k \in 1..n : s[k] \in Cells /\ s[k] # temp
  BY <1>2 DEF InWalk, Range
<1>6. next'[s[n]] = temp /\ \A k \in 1..(n - 1) : next'[s[k]] = next[s[k]]
  <2>1. CASE current = temp
    <3>1. next[s[n]] = temp /\ \A k \in 1..n : next'[s[k]] = next[s[k]]
      BY <1>1, <1>2, <1>4, <1>5, <2>1 DEF InWalk
    <3> QED  BY <1>2, <1>3, <3>1
  <2>2. CASE current # temp
    <3>1. PICK k \in 1..n : current = s[k]
      BY <1>1, <1>2, <2>2 DEF InWalk, Range
    <3>2. k < n => next[s[k]] = s[k + 1] /\ k \in 1..(n - 1) /\ k + 1 \in 1..n
      BY <1>2 DEF ListOf
    <3>3. k = n
      BY <1>1, <1>2, <1>5, <3>1, <3>2, BusesAssumption
    <3>4. next'[s[n]] = temp
      BY <1>1, <1>4, <3>1, <3>3
    <3>5. ASSUME NEW j \in 1..(n - 1)  PROVE next'[s[j]] = next[s[j]]
      <4>1. j \in 1..n /\ j # n /\ n \in 1..n
        BY <1>2, <1>3
      <4>2. s[j] # s[n]
        BY <1>2, <4>1 DEF ListOf, IsInjective
      <4> QED  BY <1>1, <1>4, <1>5, <3>1, <3>3, <4>1, <4>2
    <3> QED  BY <3>4, <3>5
  <2> QED  BY <2>1, <2>2
<1>7. PICK t \in [1..n' -> Cells], a \in [1..n' -> 1..Len(bus')] :
        /\ t[n + 1] = temp /\ \A k \in 1..n : t[k] = s[k]
        /\ a[n + 1] = i /\ \A k \in 1..n : a[k] = at[k]
  <2> DEFINE x == [k \in 1..(n + 1) |-> IF k = n + 1 THEN temp ELSE s[k]]
             y == [k \in 1..(n + 1) |-> IF k = n + 1 THEN i ELSE at[k]]
  <2>1. \A k \in 1..(n + 1) : k = n + 1 \/ k \in 1..n
    BY <1>2
  <2>2. x \in [1..n' -> Cells] /\ y \in [1..n' -> 1..Len(bus')]
    BY <1>1, <1>2, <1>5, <2>1
  <2>3. n + 1 \in 1..(n + 1) /\ \A k \in 1..n : k \in 1..(n + 1) /\ k # n + 1
    BY <1>2
  <2>4. /\ x[n + 1] = temp /\ \A k \in 1..n : x[k] = s[k]
        /\ y[n + 1] = i /\ \A k \in 1..n : y[k] = at[k]
    BY <2>3
  <2> QED  BY <2>2, <2>4
<1>8. DOMAIN t = 1..(n + 1) /\ DOMAIN a = 1..(n + 1) /\ \A k \in 1..(n + 1) : k = n + 1 \/ k \in 1..n
  BY <1>1, <1>2, <1>7
<1>9. Range(t) = Range(s) \cup {temp}
  <2>1. Range(t) \subseteq Range(s) \cup {temp}
    BY <1>7, <1>8 DEF Range
  <2>2. Range(s) \cup {temp} \subseteq Range(t)
    <3>1. n + 1 \in 1..(n + 1) /\ \A k \in 1..n : k \in 1..(n + 1)
      BY <1>2
    <3> QED  BY <1>7, <1>8, <3>1 DEF Range
  <2> QED  BY <2>1, <2>2
<1>10. Range(a) = Range(at) \cup {i}
  <2>1. Range(a) \subseteq Range(at) \cup {i}
    BY <1>7, <1>8 DEF Range
  <2>2. Range(at) \cup {i} \subseteq Range(a)
    <3>1. n + 1 \in 1..(n + 1) /\ \A k \in 1..n : k \in 1..(n + 1)
      BY <1>2
    <3> QED  BY <1>7, <1>8, <3>1 DEF Range
  <2> QED  BY <2>1, <2>2
<1>11. SupportedAt(bus)' = SupportedAt(bus)
  BY <1>1 DEF SupportedAt
<1>12. ListOf(t, a)'
  <2>1. IsInjective(t)
    BY <1>2, <1>5, <1>7, <1>8 DEF ListOf, IsInjective
  <2>2. list' = IF n' = 0 THEN NULL ELSE t[1]
    BY <1>1, <1>2, <1>3, <1>7 DEF ListOf
  <2>3. \A k \in 1..(n' - 1) : next'[t[k]] = t[k + 1]
    <3> SUFFICES ASSUME NEW k \in 1..n  PROVE next'[t[k]] = t[k + 1]
      BY <1>1, <1>2
    <3>1. CASE k = n
      BY <1>6, <1>7, <3>1
    <3>2. CASE k < n
      <4>1. k \in 1..(n - 1) /\ k + 1 \in 1..n
        BY <1>2, <3>2
      <4>2. next[s[k]] = s[k + 1] /\ s[k] \in Range(s) /\ DOMAIN s = 1..n
        BY <1>2, <4>1 DEF ListOf, Range
      <4>3. t[k] = s[k] /\ t[k + 1] = s[k + 1]
        BY <1>7, <4>1
      <4> QED  BY <1>6, <4>1, <4>2, <4>3
    <3> QED  BY <1>2, <3>1, <3>2
  <2>4. \A j, k \in 1..n' : j < k => a[j] < a[k]
    <3> SUFFICES ASSUME NEW j \in 1..(n + 1), NEW k \in 1..(n + 1), j < k  PROVE a[j] < a[k]
      BY <1>1
    <3>1. j \in 1..n /\ a[j] = at[j] /\ at[j] \in Range(at)
      BY <1>2, <1>7 DEF Range
    <3>2. at[j] < i
      BY <1>2, <3>1 DEF ListOf
    <3>3. CASE k = n + 1
      BY <1>7, <3>1, <3>2, <3>3
    <3>4. CASE k \in 1..n
      BY <1>2, <1>7, <3>1, <3>4 DEF ListOf
    <3> QED  BY <1>8, <3>3, <3>4
  <2>5. Range(a) = {k \in SupportedAt(bus) : k < i + 1}
    <3>1. i \in SupportedAt(bus) /\ \A k \in SupportedAt(bus) : k \in Nat
      BY <1>2, BusFacts DEF InWalk, SupportedAt, OpenDevice, Typing
    <3>2. \A k \in SupportedAt(bus) : k < i + 1 <=> k < i \/ k = i
      BY <1>2, <3>1
    <3>3. Range(at) = {k \in SupportedAt(bus) : k < i}
      BY <1>2 DEF ListOf
    <3> QED  BY <1>10, <3>1, <3>2, <3>3
  <2>6. \A k \in 1..n' : model'[t[k]] = ModelOf(bus[a[k]])
    BY <1>1, <1>2, <1>7, <1>8 DEF ListOf, InWalk
  <2> QED  BY <1>1, <1>7, <1>11, <2>1, <2>2, <2>3, <2>4, <2>5, <2>6 DEF ListOf, ModelOf
<1>13. InOpen(t)'
  BY <1>1, <1>2, <1>7, <1>9 DEF InWalk, InOpen
<1> QED
  <2>1. Busy(t, a)'
    BY <1>1, <1>12, <1>13 DEF Busy
  <2> QED  BY <1>7, <2>1

\* The end of the bus: the array is still empty.
LEMMA BusyBuild ==
    ASSUME Typing, NEW s \in [1..n -> Cells], NEW at \in [1..n -> 1..Len(bus)],
           Busy(s, at), BuildArray
    PROVE  Busy(s, at)'
<1>1. /\ pc = "open" /\ pc' = "copy" /\ i > Len(bus) /\ models' = <<>> /\ temp' = list
      /\ UNCHANGED <<bus, i, list, n, next, model, live>>
  BY DEF BuildArray, fields, heap
<1>2. SupportedAt(bus)' = SupportedAt(bus) /\ n \in Nat
  BY <1>1 DEF SupportedAt, Typing, TypeOK
<1>3. ListOf(s, at)'
  BY <1>1, <1>2 DEF Busy, ListOf, ModelOf
<1>4. live' = {s[k] : k \in 1..n}
  BY <1>1 DEF Busy, InOpen, Range
<1>5. Len(models') = 0 /\ models' = [k \in 1..0 |-> ModelOf(bus[at[k]])]
  BY <1>1
<1>6. 0 < n => temp' = s[1]
  BY <1>1, <1>2 DEF Busy, ListOf
<1>7. InCopy(s, at)'
  BY <1>1, <1>2, <1>4, <1>5, <1>6 DEF InCopy, ModelOf
<1> QED
  BY <1>1, <1>3, <1>7 DEF Busy

\* One turn of the copying loop: the next cell of the list is copied and freed.
LEMMA BusyCopy ==
    ASSUME Typing, NEW s \in [1..n -> Cells], NEW at \in [1..n -> 1..Len(bus)],
           Busy(s, at), CopyModel
    PROVE  pc' = "copy" /\ Busy(s, at)'
<1> DEFINE m == Len(models)
<1>1. /\ pc = "copy" /\ m < n /\ models' = Append(models, model[temp])
      /\ temp' = Following(temp)
      /\ temp \in live /\ pc' = pc /\ live' = live \ {temp}
      /\ UNCHANGED <<bus, i, list, n, next, model>>
  BY DEF CopyModel, fields
<1>2. /\ InCopy(s, at) /\ ListOf(s, at) /\ n \in Nat
      /\ models \in Seq(Models) /\ m \in Nat
  BY <1>1 DEF Busy, Typing, TypeOK
<1>3. temp = s[m + 1] /\ m + 1 \in 1..n
  BY <1>1, <1>2 DEF InCopy
<1>5. pc' = "copy" /\ live' = live \ {temp}
  BY <1>1
<1>6. Len(models') = m + 1 /\ models' = [k \in 1..(m + 1) |-> ModelOf(bus[at[k]])]
  <2>1. model[temp] = ModelOf(bus[at[m + 1]]) /\ model[temp] \in Models
    <3>1. model[temp] = ModelOf(bus[at[m + 1]])
      BY <1>2, <1>3 DEF ListOf
    <3>2. at[m + 1] \in Range(at)
      BY <1>3 DEF Range
    <3>3. at[m + 1] \in SupportedAt(bus)
      BY <1>2, <3>2 DEF ListOf
    <3>4. at[m + 1] \in 1..Len(bus) /\ OpenDevice(bus[at[m + 1]])
      BY <1>3, <3>3, SupportedOnBus
    <3> QED  BY <3>1, <3>4, BusFacts DEF Typing
  <2>2. /\ models' \in Seq(Models) /\ Len(models') = m + 1 /\ models'[m + 1] = model[temp]
        /\ \A k \in 1..m : models'[k] = models[k]
    BY <1>1, <1>2, <2>1, AppendProperties
  <2>3. \A k \in 1..m : models[k] = ModelOf(bus[at[k]])
    BY <1>2 DEF InCopy
  <2>4. \A k \in 1..(m + 1) : models'[k] = ModelOf(bus[at[k]])
    <3>1. \A k \in 1..(m + 1) : k = m + 1 \/ k \in 1..m
      BY <1>2
    <3> QED  BY <2>1, <2>2, <2>3, <3>1
  <2>5. models' = [k \in 1..(m + 1) |-> models'[k]]
    BY <2>2
  <2> QED  BY <2>2, <2>4, <2>5
<1>7. live' = {s[k] : k \in (m + 2)..n}
  <2>1. \A k \in (m + 1)..n : k \in 1..n
    BY <1>2
  <2>2. \A k \in (m + 1)..n : s[k] = s[m + 1] => k = m + 1
    BY <1>2, <1>3, <2>1 DEF ListOf, IsInjective
  <2>3. \A k \in (m + 1)..n : k # m + 1 <=> k \in (m + 2)..n
    BY <1>2
  <2>4. (m + 2)..n \subseteq (m + 1)..n
    BY <1>2
  <2>5. live = {s[k] : k \in (m + 1)..n}
    BY <1>2 DEF InCopy
  <2> QED  BY <1>3, <1>5, <2>2, <2>3, <2>4, <2>5
<1>8. m + 1 < n => temp' = s[m + 2]
  <2> SUFFICES ASSUME m + 1 < n  PROVE temp' = s[m + 2]
    OBVIOUS
  <2>1. m + 1 \in 1..(n - 1) /\ m + 2 \in 1..n /\ (m + 1) + 1 = m + 2
    BY <1>2
  <2>2. next[s[m + 1]] = s[m + 2] /\ s[m + 2] \in Cells
    BY <1>2, <2>1 DEF ListOf
  <2> QED  BY <1>1, <1>3, <2>2, BusesAssumption DEF Following
<1>9. SupportedAt(bus)' = SupportedAt(bus)
  BY <1>1 DEF SupportedAt
<1>10. ListOf(s, at)'
  BY <1>1, <1>2, <1>9 DEF ListOf, ModelOf
<1>11. InCopy(s, at)'
  <2>1. (m + 1) + 1 = m + 2 /\ m + 1 <= n
    BY <1>1, <1>2
  <2> QED  BY <1>1, <1>2, <1>6, <1>7, <1>8, <2>1 DEF InCopy, ModelOf
<1> QED
  BY <1>5, <1>10, <1>11 DEF Busy

\* The array is full: it holds the devices of the bus, and no cell is left.
LEMMA BusyReturn ==
    ASSUME Typing, NEW s \in [1..n -> Cells], NEW at \in [1..n -> 1..Len(bus)],
           Busy(s, at), Return
    PROVE  live' = {} /\ DetectsTheBus'
<1>1. /\ pc = "copy" /\ Len(models) = n /\ result' = n
      /\ UNCHANGED <<bus, models, live>>
  BY DEF Return, locals, heap
<1>2. InCopy(s, at) /\ ListOf(s, at) /\ n \in Nat /\ i \in Nat /\ Len(bus) \in Nat
  BY <1>1, BusFacts DEF Busy, Typing, TypeOK
<1>3. live' = {}
  <2>1. (n + 1)..n = {}
    BY <1>2
  <2> QED  BY <1>1, <1>2, <2>1 DEF InCopy
<1>4. Range(at) = SupportedAt(bus)
  <2>1. \A k \in SupportedAt(bus) : k < i
    BY <1>2, BusFacts DEF InCopy, SupportedAt, Typing
  <2> QED  BY <1>2, <2>1 DEF ListOf
<1>5. at \in [1..n -> SupportedAt(bus)]
  BY <1>4 DEF Range
<1>6. SupportedAt(bus)' = SupportedAt(bus)
  BY <1>1 DEF SupportedAt
<1>7. InBusOrder(at)'
  BY <1>1, <1>2, <1>4, <1>6 DEF InBusOrder, ListOf
<1>8. models' = [k \in 1..n |-> ModelOf(bus[at[k]])]
  BY <1>1, <1>2 DEF InCopy
<1> QED
  <2>1. at \in [1..result' -> SupportedAt(bus)']
    BY <1>1, <1>5, <1>6
  <2>2. models' = [k \in 1..result' |-> ModelOf(bus[at[k]])']
    BY <1>1, <1>8 DEF ModelOf
  <2>3. DetectsTheBus'
    BY <1>7, <2>1, <2>2 DEF DetectsTheBus
  <2> QED  BY <1>3, <2>3

\* The copying loop keeps to the list, and the walk leaves it only along a
\* stale link.
LEMMA BusyStray ==
    ASSUME Typing, NEW s \in [1..n -> Cells], NEW at \in [1..n -> 1..Len(bus)],
           Busy(s, at), Stray
    PROVE  stale
<1>1. CASE pc = "walk"
  BY <1>1 DEF Stray, Reached, Busy, InWalk
<1>2. CASE pc = "copy"
  <2>1. InCopy(s, at) /\ Len(models) \in Nat /\ n \in Nat /\ Len(models) < n /\ temp \notin live
    BY <1>2 DEF Busy, Typing, TypeOK, Stray, Reads, Reached
  <2>2. Len(models) + 1 \in (Len(models) + 1)..n
    BY <2>1
  <2> QED  BY <2>1, <2>2 DEF InCopy
<1> QED
  BY <1>1, <1>2 DEF Stray, Reads

LEMMA DetectInvNext == Typing /\ DetectInv /\ [Next]_vars => DetectInv'
<1> SUFFICES ASSUME Typing, DetectInv, [Next]_vars  PROVE DetectInv'
  OBVIOUS
<1>1. CASE UNCHANGED vars
  <2>1. UNCHANGED <<pc, bus, i, list, temp, n, current, models, result, next, model, live, tail, stale>>
    BY <1>1 DEF vars, locals, fields, heap, answer, aux
  <2>2. SupportedAt(bus)' = SupportedAt(bus)
    BY <2>1 DEF SupportedAt
  <2>3. \A s, at : Busy(s, at)' <=> Busy(s, at)
    BY <2>1, <2>2 DEF Busy, ListOf, InOpen, InWalk, InCopy, ModelOf, OpenDevice
  <2>4. DetectsTheBus' <=> DetectsTheBus
    BY <2>1, <2>2 DEF DetectsTheBus, InBusOrder, ModelOf
  <2> QED  BY <2>1, <2>3, <2>4 DEF DetectInv
<1>2. CASE DetectFails
  BY <1>2 DEF DetectFails, DetectInv, DetectsTheBus, locals, fields, heap, aux
<1>3. CASE Detect
  <2>1. \E s \in [1..n' -> Cells], at \in [1..n' -> 1..Len(bus')] : Busy(s, at)'
    BY <1>3, BusyDetect
  <2>2. pc' = "open"
    BY <1>3 DEF Detect
  <2> QED  BY <2>1, <2>2 DEF DetectInv
<1>4. CASE Step
  <2>1. pc \in {"open", "walk", "copy"}
    BY <1>4 DEF Step, SkipDevice, AppendFirst, AppendNext, Walk, Link, BuildArray, CopyModel,
                Return, Stray, Reads
  <2>2. PICK s \in [1..n -> Cells], at \in [1..n -> 1..Len(bus)] : Busy(s, at)
    BY <2>1 DEF DetectInv
  <2>3. ASSUME UNCHANGED <<n, bus>>, pc' \in {"open", "walk", "copy"}, Busy(s, at)'
        PROVE  DetectInv'
    BY <2>3 DEF DetectInv
  <2>4. ASSUME \E t \in [1..n' -> Cells], a \in [1..n' -> 1..Len(bus')] : Busy(t, a)',
               pc' = "open"
        PROVE  DetectInv'
    BY <2>4 DEF DetectInv
  <2>5. CASE SkipDevice
    BY <2>2, <2>3, <2>5, BusySkip DEF SkipDevice
  <2>6. CASE AppendFirst
    BY <2>2, <2>4, <2>6, BusyFirst DEF AppendFirst
  <2>7. CASE AppendNext
    BY <2>2, <2>3, <2>7, BusyNext DEF AppendNext
  <2>8. CASE Walk
    BY <2>2, <2>3, <2>8, BusyWalk DEF Walk
  <2>9. CASE Link
    BY <2>2, <2>4, <2>9, BusyLink DEF Link
  <2>10. CASE BuildArray
    BY <2>2, <2>3, <2>10, BusyBuild DEF BuildArray
  <2>11. CASE CopyModel
    BY <2>2, <2>3, <2>11, BusyCopy DEF CopyModel
  <2>12. CASE Return
    BY <2>2, <2>12, BusyReturn DEF Return, DetectInv
  <2>13. CASE Stray
    BY <2>2, <2>13, BusyStray DEF Stray, DetectInv, aux
  <2> QED
    BY <1>4, <2>5, <2>6, <2>7, <2>8, <2>9, <2>10, <2>11, <2>12, <2>13 DEF Step
<1> QED
  BY <1>1, <1>2, <1>3, <1>4 DEF Next

THEOREM DetectInvariant == Spec => []DetectInv
BY DetectInvInit, DetectInvNext, TypingIsInvariant, PTL DEF Spec

\* Whatever links the blocks held, a call that returns without having strayed
\* reports what is on the bus, in its order.
THEOREM DetectReportsTheBus == Spec => []DetectsTheBus
<1>1. DetectInv => DetectsTheBus
  BY DEF DetectInv, DetectsTheBus
<1> QED
  BY <1>1, DetectInvariant, PTL

\* detect leaves its list only if a device was appended behind a block that
\* malloc had returned with a link.
THEOREM OnlyStaleLinksStray == Spec => []StraysOnStale
<1>1. DetectInv => StraysOnStale
  BY DEF DetectInv, StraysOnStale
<1> QED
  BY <1>1, DetectInvariant, PTL

\* A call that returns without having strayed has freed every device that it
\* allocated, whatever links the blocks held.
THEOREM DetectFreesItsDevices == Spec => []DevicesAreFreed
<1>1. DetectInv => DevicesAreFreed
  BY DEF DetectInv, DevicesAreFreed
<1> QED
  BY <1>1, DetectInvariant, PTL
=============================================================================
