--------------------------- MODULE ControllerProofs ---------------------------
(***************************************************************************)
(* Theorems about the controller, for every set of clients and             *)
(* instructions: the typing invariant, the discipline of instr_lock, the   *)
(* end of the thread, and the errors on the way to it.                     *)
(***************************************************************************)
EXTENDS ControllerProperties, TLAPS, SequenceTheorems, FiniteSetTheorems,
        WellFoundedInduction

-----------------------------------------------------------------------------
(***************************************************************************)
(* Lemmas about lists.                                                     *)
(***************************************************************************)

\* A list that a client builds with the create functions is a non-empty
\* sequence of different instructions.
LEMMA ChainIsSeq ==
    ASSUME NEW chain \in Chains
    PROVE  /\ chain \in Seq(Instrs)
           /\ chain # <<>>
           /\ Len(chain) \in Nat /\ Len(chain) > 0
           /\ DOMAIN chain = 1..Len(chain)
           /\ IsInjective(chain)
<1>1. PICK n \in 1..MaxChain : chain \in [1..n -> Instrs]
  BY DEF Chains
<1>2. n \in Nat /\ n > 0
  BY <1>1, MaxChainAssumption
<1>3. chain \in Seq(Instrs) /\ Len(chain) = n
  BY <1>1, <1>2
<1>4. IsInjective(chain)
  BY DEF Chains
<1> QED  BY <1>1, <1>2, <1>3, <1>4

\* Unlinking one element of a list leaves the others in their order.
LEMMA RemoveAtIsSeq ==
    ASSUME NEW S, NEW s \in Seq(S), NEW k \in 1..Len(s)
    PROVE  /\ RemoveAt(s, k) \in Seq(S)
           /\ Len(RemoveAt(s, k)) = Len(s) - 1
           /\ \A j \in 1..(Len(s) - 1) :
                RemoveAt(s, k)[j] = IF j < k THEN s[j] ELSE s[j + 1]
<1> DEFINE a == SubSeq(s, 1, k - 1)
           b == SubSeq(s, k + 1, Len(s))
<1>1. Len(s) \in Nat /\ k \in Int
  OBVIOUS
<1>2. /\ a \in Seq(S)
      /\ Len(a) = k - 1
      /\ \A j \in 1..(k - 1) : a[j] = s[j]
  <2>1. \A j \in 1..(k - 1) : s[j] \in S
    BY <1>1
  <2> QED  BY <1>1, <2>1, SubSeqProperties
<1>3. /\ b \in Seq(S)
      /\ Len(b) = Len(s) - k
      /\ \A j \in 1..(Len(s) - k) : b[j] = s[k + j]
  <2>1. \A j \in (k + 1)..Len(s) : s[j] \in S
    BY <1>1
  <2> QED  BY <1>1, <2>1, SubSeqProperties
<1>4. RemoveAt(s, k) = a \o b
  BY DEF RemoveAt
<1> HIDE DEF a, b
<1>5. /\ a \o b \in Seq(S)
      /\ Len(a \o b) = Len(s) - 1
      /\ \A j \in 1..(Len(s) - 1) :
           (a \o b)[j] = IF j <= Len(a) THEN a[j] ELSE b[j - Len(a)]
  <2>1. Len(a) + Len(b) = Len(s) - 1
    BY <1>1, <1>2, <1>3
  <2>2. /\ a \o b \in Seq(S)
        /\ Len(a \o b) = Len(a) + Len(b)
        /\ \A j \in 1..(Len(a) + Len(b)) :
             (a \o b)[j] = IF j <= Len(a) THEN a[j] ELSE b[j - Len(a)]
    BY <1>2, <1>3, ConcatProperties
  <2> QED  BY <2>1, <2>2
<1>6. ASSUME NEW j \in 1..(Len(s) - 1)
      PROVE  (a \o b)[j] = IF j < k THEN s[j] ELSE s[j + 1]
  <2>1. CASE j < k
    BY <1>1, <1>2, <1>5, <2>1
  <2>2. CASE ~(j < k)
    <3>1. j - Len(a) \in 1..(Len(s) - k) /\ k + (j - Len(a)) = j + 1
      BY <1>1, <1>2, <2>2
    <3> QED  BY <1>1, <1>2, <1>3, <1>5, <2>2, <3>1
  <2> QED  BY <2>1, <2>2
<1> QED  BY <1>4, <1>5, <1>6

-----------------------------------------------------------------------------
(***************************************************************************)
(* Typing.  TypeOK is not inductive alone: the head of the list and of a   *)
(* call's argument are read, so neither may be empty at that moment.       *)
(***************************************************************************)

\* instr_lock is with the thread from RunTake until RunNext or a failure,
\* and the list is not empty meanwhile.  There is no thread before the start.
LockInv ==
    /\ instr_lock = "thread" <=> tpc \in {"exec", "sleep"}
    /\ tpc \in {"exec", "sleep"} => instr # <<>>
    /\ ~started => tpc = "none"

\* A client inside sched or cancel carries an instruction.
ArgInv == \A c \in Clients : pc[c] \in {"sched", "cancel"} => arg[c] # <<>>

Typing == TypeOK /\ LockInv /\ ArgInv

LEMMA TypingInit == Init => Typing
<1> SUFFICES ASSUME Init  PROVE Typing
  OBVIOUS
<1>1. id \in [Instrs -> 0..(IdMod - 1)]
  <2>1. UnsetId \in 0..(IdMod - 1)
    BY IdModAssumption DEF UnsetId
  <2> QED  BY <2>1 DEF Init
<1>2. arg \in [Clients -> Seq(Instrs)] /\ instr \in Seq(Instrs) /\ done \in Seq(Instrs)
  BY EmptySeq DEF Init
<1>3. alloc \in [Instrs -> {"fresh", "chain", "list", "freed"}]
  BY DEF Init
<1>4. /\ pc \in [Clients -> {"idle", "sched", "cancel", "free"}]
      /\ result \in [Clients -> {"none", "PRESTART", "STOPPED", "JOIN_ERR",
                                 "SUCCESS", LIBMK_ERR_STILL_ACTIVE}]
  BY DEF Init
<1>5. LockInv /\ ArgInv
  BY DEF Init, LockInv, ArgInv
<1> QED
  BY <1>1, <1>2, <1>3, <1>4, <1>5 DEF Init, InitialErrors, Typing, TypeOK

\* Every step of a client other than the two that change the list.
LEMMA TypingCalls ==
    ASSUME Typing, NEW c \in Clients,
           \/ Start(c) \/ StartFails(c)
           \/ \E i \in Instrs : CancelCall(c, i)
           \/ Stop(c) \/ Wait(c) \/ Join(c) \/ FreeCheck(c) \/ FreeRefused(c)
           \/ SchedReject(c) \/ CancelMissed(c) \/ FreeBody(c)
    PROVE  Typing'
<1> USE DEF Typing, TypeOK, LockInv, ArgInv, CanCall, Begin, Return, LockFree,
            owner, status, flags, list, fields, clients, thread, history
<1>1. CASE Start(c)       BY <1>1 DEF Start
<1>2. CASE StartFails(c)  BY <1>2 DEF StartFails
<1>3. CASE \E i \in Instrs : CancelCall(c, i)
  <2>1. PICK i \in Instrs : CancelCall(c, i)
    BY <1>3
  <2>2. <<i>> \in Seq(Instrs) /\ <<i>> # <<>>
    OBVIOUS
  <2> QED  BY <2>1, <2>2 DEF CancelCall
<1>4. CASE Stop(c)         BY <1>4 DEF Stop
<1>5. CASE Wait(c)
  <2>1. ToSet(instr) \subseteq Instrs
    BY DEF ToSet
  <2> QED  BY <1>5, <2>1 DEF Wait
<1>6. CASE Join(c)         BY <1>6 DEF Join, JoinResult
<1>7. CASE FreeCheck(c)    BY <1>7 DEF FreeCheck
<1>8. CASE FreeRefused(c)  BY <1>8 DEF FreeRefused
<1>9. CASE SchedReject(c)  BY <1>9 DEF SchedReject
<1>10. CASE CancelMissed(c)  BY <1>10 DEF CancelMissed
<1>11. CASE FreeBody(c)
  <2>1. /\ mem' \in {"live", "locks_destroyed", "freed"}
        /\ result' \in [Clients -> {"none", "PRESTART", "STOPPED", "JOIN_ERR",
                                    "SUCCESS", LIBMK_ERR_STILL_ACTIVE}]
    BY <1>11 DEF FreeBody, LIBMK_ERR_DEV_NOT_CLOSED, LIBMK_ERR_STILL_ACTIVE
  <2>2. UNCHANGED <<handle, status, flags, list, started, thread, history>>
    BY <1>11 DEF FreeBody
  <2>3. /\ pc' = [pc EXCEPT ![c] = "idle"]
        /\ arg' = [arg EXCEPT ![c] = <<>>]
    BY <1>11 DEF FreeBody
  <2> QED  BY <2>1, <2>2, <2>3
<1> QED  BY <1>1, <1>2, <1>3, <1>4, <1>5, <1>6, <1>7, <1>8, <1>9, <1>10, <1>11

\* The numbers that sched gives are ids.
LEMMA NumberedIsTyped ==
    ASSUME TypeOK, NEW chain \in Seq(Instrs)
    PROVE  Numbered(chain) \in [Instrs -> 0..(IdMod - 1)]
<1>1. LastId \in Nat
  <2>1. CASE instr = <<>>  BY <2>1 DEF LastId
  <2>2. CASE instr # <<>>
    <3>1. instr[Len(instr)] \in Instrs
      BY <2>2, EmptySeq, ElementOfSeq DEF TypeOK
    <3> QED  BY <2>2, <3>1, IdModAssumption DEF LastId, Last, TypeOK
  <2> QED  BY <2>1, <2>2
<1>2. ASSUME NEW i \in ToSet(chain)  PROVE  Position(chain, i) \in Nat
  <2>1. \E k \in DOMAIN chain : chain[k] = i
    BY DEF ToSet
  <2>2. Position(chain, i) \in DOMAIN chain
    BY <2>1 DEF Position
  <2> QED  BY <2>2
<1>3. \A n \in Nat : n % IdMod \in 0..(IdMod - 1)
  BY IdModAssumption
<1>4. ASSUME NEW i \in Instrs
      PROVE  (IF i \in ToSet(chain)
                THEN (LastId + Position(chain, i)) % IdMod ELSE id[i])
             \in 0..(IdMod - 1)
  <2>1. CASE i \in ToSet(chain)
    <3>1. LastId + Position(chain, i) \in Nat
      BY <1>1, <1>2, <2>1
    <3> QED  BY <1>3, <2>1, <3>1
  <2>2. CASE i \notin ToSet(chain)
    BY <2>2 DEF TypeOK
  <2> QED  BY <2>1, <2>2
<1> QED  BY <1>4 DEF Numbered

LEMMA TypingSchedCall ==
    ASSUME Typing, NEW c \in Clients, NEW chain \in Chains, SchedCall(c, chain)
    PROVE  Typing'
<1>1. chain \in Seq(Instrs) /\ chain # <<>>
  BY ChainIsSeq
<1>2. Owned(chain, "chain") \in [Instrs -> {"fresh", "chain", "list", "freed"}]
  BY DEF Owned, Typing, TypeOK
<1>3. alloc' \in [Instrs -> {"fresh", "chain", "list", "freed"}]
  BY <1>2 DEF SchedCall, Typing, TypeOK
<1> QED
  BY <1>1, <1>3 DEF SchedCall, Begin, Typing, TypeOK, LockInv, ArgInv,
     owner, status, flags, thread, history

LEMMA TypingSchedAppend ==
    ASSUME Typing, NEW c \in Clients, SchedAppend(c)
    PROVE  Typing'
<1>1. arg[c] \in Seq(Instrs) /\ instr \in Seq(Instrs)
  BY DEF Typing, TypeOK
<1>2. instr' \in Seq(Instrs)
  BY <1>1, ConcatProperties DEF SchedAppend, Appended
<1>3. id' \in [Instrs -> 0..(IdMod - 1)]
  BY <1>1, NumberedIsTyped DEF SchedAppend, Typing
<1>4. alloc' \in [Instrs -> {"fresh", "chain", "list", "freed"}]
  BY DEF SchedAppend, Owned, Typing, TypeOK
<1>5. tpc \notin {"exec", "sleep"}
  BY DEF SchedAppend, LockFree, Typing, LockInv
<1> QED
  BY <1>2, <1>3, <1>4, <1>5 DEF SchedAppend, Return, Typing, TypeOK, LockInv, ArgInv,
     owner, status, flags, thread, history

\* The walk of cancel stops at an element of the list.
LEMMA FirstMatchInList ==
    ASSUME Typing, NEW i \in Instrs, Matches(i) # {}
    PROVE  /\ FirstMatch(i) \in 1..Len(instr)
           /\ instr[FirstMatch(i)] \in Instrs
           /\ id[instr[FirstMatch(i)]] = id[i]
<1>1. Matches(i) \subseteq 1..Len(instr) /\ Matches(i) \subseteq Nat
  BY DEF Matches, Typing, TypeOK
<1>2. \E k \in Matches(i) : \A m \in Matches(i) : k <= m
  <2>1. PICK k \in Matches(i) :
          \A m \in Matches(i) : <<m, k>> \notin OpToRel(<, Nat)
    BY <1>1, NatLessThanWellFounded, WFMin
  <2>2. \A m \in Matches(i) : ~(m < k)
    BY <1>1, <2>1 DEF OpToRel
  <2> QED  BY <1>1, <2>2
<1>3. FirstMatch(i) \in Matches(i)
  BY <1>2 DEF FirstMatch
<1> QED  BY <1>1, <1>3 DEF Matches, Typing, TypeOK

LEMMA TypingCancelFound ==
    ASSUME Typing, NEW c \in Clients, CancelFound(c)
    PROVE  Typing'
<1>1. Head(arg[c]) \in Instrs
  BY HeadTailProperties DEF CancelFound, Return, Typing, TypeOK, ArgInv
<1>2. /\ FirstMatch(Head(arg[c])) \in 1..Len(instr)
      /\ instr[FirstMatch(Head(arg[c]))] \in Instrs
  BY <1>1, FirstMatchInList DEF CancelFound
<1>3. instr' \in Seq(Instrs)
  BY <1>2, RemoveAtIsSeq DEF CancelFound, Unlinked, Typing, TypeOK
<1>4. alloc' \in [Instrs -> {"fresh", "chain", "list", "freed"}]
  BY <1>2 DEF CancelFound, Typing, TypeOK
<1>5. tpc \notin {"exec", "sleep"}
  BY DEF CancelFound, LockFree, Typing, LockInv
<1> QED
  BY <1>3, <1>4, <1>5 DEF CancelFound, Return, Typing, TypeOK, LockInv, ArgInv,
     owner, status, flags, thread, history

\* Every step of the thread.
LEMMA TypingThread == ASSUME Typing, Thread  PROVE Typing'
<1> USE DEF Typing, TypeOK, LockInv, ArgInv, LockFree, Unlock,
            owner, status, flags, list, fields, clients, thread, history
<1>1. CASE RunBegin  BY <1>1 DEF RunBegin
<1>2. CASE RunFlags  BY <1>2 DEF RunFlags
<1>3. CASE RunIdle   BY <1>3 DEF RunIdle
<1>4. CASE RunTake   BY <1>4 DEF RunTake
<1>5. CASE RunExec
  <2>1. Head(instr) \in Instrs
    BY <1>5, HeadTailProperties DEF RunExec
  <2>2. done' \in Seq(Instrs)
    BY <1>5, <2>1, AppendProperties DEF RunExec
  <2> QED  BY <1>5, <2>2 DEF RunExec
<1>6. CASE RunExecFails  BY <1>6 DEF RunExecFails, Recorded
<1>7. CASE RunNext
  <2>1. Head(instr) \in Instrs /\ Tail(instr) \in Seq(Instrs)
    BY <1>7, HeadTailProperties DEF RunNext
  <2> QED  BY <1>7, <2>1 DEF RunNext
<1>8. CASE RunDisable       BY <1>8 DEF RunDisable, Disabled
<1>9. CASE RunDisableFails  BY <1>9 DEF RunDisableFails, Recorded
<1>10. CASE RunStop         BY <1>10 DEF RunStop
<1> QED
  BY <1>1, <1>2, <1>3, <1>4, <1>5, <1>6, <1>7, <1>8, <1>9, <1>10 DEF Thread

LEMMA TypingNext == Typing /\ [Next]_vars => Typing'
<1> SUFFICES ASSUME Typing, [Next]_vars  PROVE Typing'
  OBVIOUS
<1>1. CASE Thread  BY <1>1, TypingThread
<1>2. ASSUME NEW c \in Clients, Client(c)  PROVE Typing'
  <2>1. CASE \E chain \in Chains : SchedCall(c, chain)
    BY <2>1, TypingSchedCall
  <2>2. CASE SchedAppend(c)  BY <2>2, TypingSchedAppend
  <2>3. CASE CancelFound(c)  BY <2>3, TypingCancelFound
  <2> QED  BY <1>2, <2>1, <2>2, <2>3, TypingCalls DEF Client, Finish
<1>3. CASE UNCHANGED vars
  BY <1>3 DEF vars, owner, status, flags, list, fields, clients, thread, history,
     Typing, TypeOK, LockInv, ArgInv
<1> QED  BY <1>1, <1>2, <1>3 DEF Next

(***************************************************************************)
(* Every reachable state is well typed, and instr_lock is held by the      *)
(* thread exactly while it executes an instruction or sleeps on it.        *)
(***************************************************************************)
THEOREM TypingHolds == Spec => []Typing
BY TypingInit, TypingNext, PTL DEF Spec

\* The type invariant of libmkc.c's controller, for every set of clients and
\* instructions.
THEOREM TypeCorrect == Spec => []TypeOK
<1>1. Typing => TypeOK
  BY DEF Typing
<1> QED  BY <1>1, TypingHolds, PTL

-----------------------------------------------------------------------------
(***************************************************************************)
(* Freeing.  A client that frees only what it never started, or what a     *)
(* join has reported STOPPED, finds the thread gone: state is STOPPED only *)
(* after the last access of the thread, and nobody enters the library      *)
(* between the check and the destruction of the locks.                     *)
(***************************************************************************)

StoppedInv ==
    /\ state = "STOPPED" <=> tpc = "ended"
    /\ \A c \in Clients : result[c] = "STOPPED" => tpc = "ended"

FreeingInv ==
    /\ NoUseAfterFree
    /\ \A c \in Clients : pc[c] = "free" =>
         /\ mem = "live"
         /\ ~Running
         /\ \A d \in Clients : d # c => pc[d] = "idle"

Disciplined == "free_unjoined" \notin Habits

FreeInv == StoppedInv /\ FreeingInv

LEMMA FreeInvInit == Init => FreeInv
BY DEF Init, FreeInv, StoppedInv, FreeingInv, NoUseAfterFree, Running

\* The thread moves only while it is running, so nobody is freeing.
LEMMA FreeInvThread ==
    ASSUME Typing, FreeInv, Thread
    PROVE  FreeInv'
<1> USE DEF FreeInv, StoppedInv, FreeingInv, NoUseAfterFree, Running,
            owner, status, flags, list, fields, clients, thread, history
<1>1. tpc \in {"begin", "flags", "queue", "exec", "sleep", "disable", "stop"}
  BY DEF Thread, RunBegin, RunFlags, RunIdle, RunTake, RunExec, RunExecFails,
     RunNext, RunDisable, RunDisableFails, RunStop
<1>2. mem = "live" /\ \A c \in Clients : pc[c] # "free"
  BY <1>1 DEF Typing, TypeOK
<1>3. mem' = mem /\ pc' = pc /\ result' = result
  BY DEF Thread, RunBegin, RunFlags, RunIdle, RunTake, RunExec, RunExecFails,
     RunNext, RunDisable, RunDisableFails, RunStop
<1>4. state' = "STOPPED" <=> tpc' = "ended"
  BY <1>1 DEF Thread, RunBegin, RunFlags, RunIdle, RunTake, RunExec, RunExecFails,
     RunNext, RunDisable, RunDisableFails, RunStop
<1> QED  BY <1>1, <1>2, <1>3, <1>4

\* A call that takes no part in freeing: it leaves the thread, the state and
\* the memory alone, and it neither begins nor ends a free.
LEMMA FreeInvOtherCall ==
    ASSUME Typing, FreeInv, NEW c \in Clients,
           UNCHANGED <<mem, state, result, tpc>>,
           \/ pc' = pc
           \/ /\ CanCall(c)
              /\ \E call \in {"sched", "cancel"} : pc' = [pc EXCEPT ![c] = call]
           \/ /\ pc[c] \in {"sched", "cancel"}
              /\ pc' = [pc EXCEPT ![c] = "idle"]
    PROVE  FreeInv'
<1> USE DEF FreeInv, StoppedInv, FreeingInv, NoUseAfterFree, Running,
            Typing, TypeOK
<1>1. CASE pc' = pc  BY <1>1
<1>2. CASE /\ CanCall(c)
           /\ \E call \in {"sched", "cancel"} : pc' = [pc EXCEPT ![c] = call]
  BY <1>2 DEF CanCall
<1>3. CASE pc[c] \in {"sched", "cancel"} /\ pc' = [pc EXCEPT ![c] = "idle"]
  BY <1>3
<1> QED  BY <1>1, <1>2, <1>3

LEMMA FreeInvClient ==
    ASSUME Disciplined, Typing, FreeInv, NEW c \in Clients, Client(c)
    PROVE  FreeInv'
<1> USE DEF owner, status, flags, list, fields, clients, thread, history
<1>1. CASE Start(c)
  BY <1>1 DEF Start, CanCall, FreeInv, StoppedInv, FreeingInv, NoUseAfterFree,
     Running, Typing, TypeOK, LockInv
<1>2. CASE StartFails(c) \/ Stop(c) \/ Wait(c)
  BY <1>2, FreeInvOtherCall DEF StartFails, Stop, Wait
<1>3. CASE (\E chain \in Chains : SchedCall(c, chain))
        \/ (\E i \in Instrs : CancelCall(c, i))
  BY <1>3, FreeInvOtherCall DEF SchedCall, CancelCall, Begin
<1>4. CASE SchedAppend(c) \/ SchedReject(c) \/ CancelFound(c) \/ CancelMissed(c)
  BY <1>4, FreeInvOtherCall
     DEF SchedAppend, SchedReject, CancelFound, CancelMissed, Return
<1>5. CASE Join(c)
  BY <1>5 DEF Join, JoinResult, FreeInv, StoppedInv, FreeingInv, NoUseAfterFree,
     Running, Typing, TypeOK
<1>6. CASE FreeCheck(c)
  <2>1. ~Running
    BY <1>6 DEF FreeCheck, MayFree, Disciplined, FreeInv, StoppedInv, Running,
       Typing, LockInv
  <2> QED
    BY <1>6, <2>1 DEF FreeCheck, MayFree, Begin, CanCall, FreeInv, StoppedInv,
       FreeingInv, NoUseAfterFree, Running, Typing, TypeOK
<1>7. CASE FreeRefused(c)
  BY <1>7 DEF FreeRefused, LIBMK_ERR_STILL_ACTIVE, FreeInv, StoppedInv, FreeingInv,
     NoUseAfterFree, Running, Typing, TypeOK
<1>8. CASE FreeBody(c)
  <2>1. /\ ~Running
        /\ \A d \in Clients : d # c => pc[d] = "idle"
    BY <1>8 DEF FreeBody, Return, FreeInv, FreeingInv
  <2>2. /\ pc' = [pc EXCEPT ![c] = "idle"]
        /\ UNCHANGED <<state, tpc>>
    BY <1>8 DEF FreeBody, Return
  <2>3. \A d \in Clients : pc'[d] = "idle"
    BY <2>1, <2>2 DEF Typing, TypeOK
  <2>4. StoppedInv'
    BY <1>8, <2>2 DEF FreeBody, FreeInv, StoppedInv, Typing, TypeOK,
       LIBMK_ERR_DEV_NOT_CLOSED
  <2> QED
    BY <2>1, <2>2, <2>3, <2>4 DEF FreeInv, FreeingInv, NoUseAfterFree, Running
<1> QED
  BY <1>1, <1>2, <1>3, <1>4, <1>5, <1>6, <1>7, <1>8 DEF Client, Finish

\* Nobody frees under the thread, or under a call: the strengthened form.
LEMMA FreeHolds == Disciplined => (Spec => []FreeInv)
<1> SUFFICES ASSUME Disciplined  PROVE Spec => []FreeInv
  OBVIOUS
<1>1. Typing /\ FreeInv /\ [Next]_vars => FreeInv'
  <2> SUFFICES ASSUME Typing, FreeInv, [Next]_vars  PROVE FreeInv'
    OBVIOUS
  <2>1. CASE UNCHANGED vars
    BY <2>1 DEF vars, owner, status, flags, list, fields, clients, thread, history,
       FreeInv, StoppedInv, FreeingInv, NoUseAfterFree, Running
  <2> QED  BY <2>1, FreeInvThread, FreeInvClient DEF Next
<1> QED  BY <1>1, FreeInvInit, TypingHolds, PTL DEF Spec

(***************************************************************************)
(* libmk_free_controller never pulls the controller away under its thread  *)
(* or under a call, whatever fails and however many clients there are, as  *)
(* long as no client frees a started controller it has not joined.         *)
(***************************************************************************)
THEOREM FreeIsSafe == Disciplined => (Spec => []NoUseAfterFree)
<1>1. FreeInv => NoUseAfterFree
  BY DEF FreeInv, FreeingInv
<1> QED  BY <1>1, FreeHolds, PTL

-----------------------------------------------------------------------------
(***************************************************************************)
(* Errors.  What failed tells where the thread is; a failure has left an   *)
(* error behind, its own or an earlier one; the handle is open unless      *)
(* disable_control has closed it.                                          *)
(***************************************************************************)
ErrorInv ==
    /\ ErrorTells
    /\ "exec" \in failed => tpc \in {"disable", "stop", "ended"} /\ error # "SUCCESS"
    /\ "disable" \in failed =>
        tpc \in {"stop", "ended"} /\ error # "SUCCESS" /\ handle = "open"
    /\ IF tpc \in {"stop", "ended"} THEN handle = "closed" \/ "disable" \in failed
       ELSE handle = "open"
    /\ state = "STOPPED" => tpc = "ended"
    /\ error \in {"SUCCESS", "garbage", "exec", "disable"}

LEMMA ErrorNext == ASSUME Typing, ErrorInv, [Next]_vars  PROVE ErrorInv'
<1> USE DEF ErrorInv, ErrorTells, owner, status, flags, list, fields, clients,
            thread, history
<1>1. CASE Thread
  <2>1. CASE RunBegin \/ RunFlags \/ RunIdle \/ RunTake \/ RunExec \/ RunNext
    BY <2>1 DEF RunBegin, RunFlags, RunIdle, RunTake, RunExec, RunNext
  <2>2. CASE RunExecFails
    BY <2>2 DEF RunExecFails, Recorded
  <2>3. CASE RunDisable
    BY <2>3 DEF RunDisable, Disabled
  <2>4. CASE RunDisableFails
    BY <2>4 DEF RunDisableFails, Recorded
  <2>5. CASE RunStop
    BY <2>5 DEF RunStop
  <2> QED  BY <1>1, <2>1, <2>2, <2>3, <2>4, <2>5 DEF Thread
<1>2. ASSUME NEW c \in Clients, Client(c)  PROVE ErrorInv'
  <2>1. CASE Start(c)
    BY <2>1 DEF Start, Typing, LockInv
  <2>2. CASE StartFails(c)
    BY <2>2 DEF StartFails
  <2>3. CASE (\E chain \in Chains : SchedCall(c, chain)) \/ (\E i \in Instrs : CancelCall(c, i))
    BY <2>3 DEF SchedCall, CancelCall
  <2>4. CASE Stop(c) \/ Wait(c) \/ Join(c) \/ FreeCheck(c) \/ FreeRefused(c) \/ Finish(c)
    BY <2>4 DEF Stop, Wait, Join, FreeCheck, FreeRefused, Finish, SchedAppend,
       SchedReject, CancelFound, CancelMissed, FreeBody
  <2> QED  BY <1>2, <2>1, <2>2, <2>3, <2>4 DEF Client
<1>3. CASE UNCHANGED vars
  BY <1>3 DEF vars
<1> QED  BY <1>1, <1>2, <1>3 DEF Next

(***************************************************************************)
(* The error of a STOPPED controller tells an instruction that failed from *)
(* a keyboard that was kept, and both from success, unless the memory of   *)
(* the controller held another value to begin with (libmkc.c lines 97-113  *)
(* and 119-125).                                                           *)
(***************************************************************************)
THEOREM ErrorIsTruthful == Spec => []ErrorTells
<1>1. Init => ErrorInv
  BY DEF Init, InitialErrors, ErrorInv, ErrorTells
<1>2. ErrorInv => ErrorTells
  BY DEF ErrorInv
<1> QED  BY <1>1, <1>2, ErrorNext, TypingHolds, PTL DEF Spec

-----------------------------------------------------------------------------
(***************************************************************************)
(* Half a free.  A thread past disable has closed the handle, or failed to *)
(* and says so.                                                            *)
(***************************************************************************)
ClosedInv ==
    /\ HalfFreed
    /\ tpc \in {"stop", "ended"} => handle = "closed" \/ "disable" \in failed

LEMMA ClosedNext ==
    ASSUME Typing, FreeInv, ClosedInv, [Next]_vars
    PROVE  ClosedInv'
<1> USE DEF ClosedInv, HalfFreed, owner, status, flags, list, fields, clients,
            thread, history
<1>1. CASE Thread
  BY <1>1 DEF Thread, RunBegin, RunFlags, RunIdle, RunTake, RunExec, RunExecFails,
     RunNext, RunDisable, RunDisableFails, RunStop, Disabled,
     FreeInv, FreeingInv, NoUseAfterFree, Running
<1>2. ASSUME NEW c \in Clients, Client(c)  PROVE ClosedInv'
  <2>1. CASE Start(c)
    BY <2>1 DEF Start, CanCall, Typing, LockInv
  <2>2. CASE StartFails(c)
    BY <2>2 DEF StartFails
  <2>3. CASE (\E chain \in Chains : SchedCall(c, chain)) \/ (\E i \in Instrs : CancelCall(c, i))
    BY <2>3 DEF SchedCall, CancelCall
  <2>4. CASE Stop(c) \/ Wait(c) \/ Join(c) \/ FreeCheck(c) \/ FreeRefused(c)
    BY <2>4 DEF Stop, Wait, Join, FreeCheck, FreeRefused
  <2>5. CASE SchedAppend(c) \/ SchedReject(c) \/ CancelFound(c) \/ CancelMissed(c)
    BY <2>5 DEF SchedAppend, SchedReject, CancelFound, CancelMissed
  <2>6. CASE FreeBody(c)
    <3>1. tpc \in {"none", "ended"}
      BY <2>6 DEF FreeBody, Return, FreeInv, FreeingInv, Running
    <3> QED  BY <2>6, <3>1 DEF FreeBody
  <2> QED  BY <1>2, <2>1, <2>2, <2>3, <2>4, <2>5, <2>6 DEF Client, Finish
<1>3. CASE UNCHANGED vars
  BY <1>3 DEF vars
<1> QED  BY <1>1, <1>2, <1>3 DEF Next

(***************************************************************************)
(* A free that stops half way, with the locks destroyed and the handle     *)
(* refused, finds a thread that never ran or could not give the keyboard   *)
(* back (libmkc.c lines 44-63).                                            *)
(***************************************************************************)
THEOREM HalfFreeIsExplained == Disciplined => (Spec => []HalfFreed)
<1> SUFFICES ASSUME Disciplined  PROVE Spec => []HalfFreed
  OBVIOUS
<1>1. Init => ClosedInv
  BY DEF Init, ClosedInv, HalfFreed
<1>2. ClosedInv => HalfFreed
  BY DEF ClosedInv
<1> QED  BY <1>1, <1>2, ClosedNext, FreeHolds, TypingHolds, PTL DEF Spec

-----------------------------------------------------------------------------
(***************************************************************************)
(* The instruction list owns its memory, the thread's instruction stays at *)
(* its head, a wait leaves nothing of it behind, and the controller        *)
(* implements InstructionQueue.  These hold for clients that do not        *)
(* schedule an instruction twice, as libmkc.h asks.                        *)
(***************************************************************************)

NoReschedule == "reschedule" \notin Habits

-----------------------------------------------------------------------------
(***************************************************************************)
(* Lemmas about lists without duplicates.                                  *)
(***************************************************************************)

\* Appending a list of other elements keeps a list free of duplicates.
LEMMA ConcatInjective ==
    ASSUME NEW S, NEW s \in Seq(S), NEW t \in Seq(S),
           IsInjective(s), IsInjective(t), ToSet(s) \cap ToSet(t) = {}
    PROVE  /\ IsInjective(s \o t)
           /\ ToSet(s \o t) = ToSet(s) \cup ToSet(t)
<1>1. /\ s \o t \in Seq(S)
      /\ Len(s \o t) = Len(s) + Len(t)
      /\ \A i \in 1..(Len(s) + Len(t)) :
           (s \o t)[i] = IF i <= Len(s) THEN s[i] ELSE t[i - Len(s)]
  BY ConcatProperties
<1>2. Len(s) \in Nat /\ Len(t) \in Nat /\ DOMAIN s = 1..Len(s) /\ DOMAIN t = 1..Len(t)
  OBVIOUS
<1>3. DOMAIN (s \o t) = 1..(Len(s) + Len(t))
  BY <1>1
<1> DEFINE st == s \o t
<1> HIDE DEF st
<1>4. ASSUME NEW i \in 1..(Len(s) + Len(t))
      PROVE  \/ i \in 1..Len(s) /\ st[i] = s[i] /\ st[i] \in ToSet(s)
             \/ i - Len(s) \in 1..Len(t) /\ st[i] = t[i - Len(s)] /\ st[i] \in ToSet(t)
  BY <1>1, <1>2 DEF st, ToSet
<1>5. IsInjective(st)
  <2> SUFFICES ASSUME NEW i \in 1..(Len(s) + Len(t)), NEW j \in 1..(Len(s) + Len(t)),
                      st[i] = st[j]
               PROVE  i = j
    BY <1>3 DEF st, IsInjective
  <2>1. \/ i \in 1..Len(s) /\ j \in 1..Len(s) /\ s[i] = s[j]
        \/ /\ i - Len(s) \in 1..Len(t) /\ j - Len(s) \in 1..Len(t)
           /\ t[i - Len(s)] = t[j - Len(s)]
    BY <1>4
  <2>2. CASE i \in 1..Len(s) /\ j \in 1..Len(s) /\ s[i] = s[j]
    BY <1>2, <2>2 DEF IsInjective
  <2>3. CASE /\ i - Len(s) \in 1..Len(t) /\ j - Len(s) \in 1..Len(t)
             /\ t[i - Len(s)] = t[j - Len(s)]
    <3>1. i - Len(s) = j - Len(s)
      BY <1>2, <2>3 DEF IsInjective
    <3> QED  BY <1>2, <3>1
  <2> QED  BY <2>1, <2>2, <2>3
<1>6. ToSet(st) = ToSet(s) \cup ToSet(t)
  <2>1. ToSet(st) \subseteq ToSet(s) \cup ToSet(t)
    BY <1>3, <1>4 DEF st, ToSet
  <2>2. ASSUME NEW i \in 1..Len(s)  PROVE s[i] \in ToSet(st)
    <3>1. i \in 1..(Len(s) + Len(t)) /\ st[i] = s[i]
      BY <1>1, <1>2 DEF st
    <3> QED  BY <1>3, <3>1 DEF st, ToSet
  <2>3. ASSUME NEW i \in 1..Len(t)  PROVE t[i] \in ToSet(st)
    <3>1. Len(s) + i \in 1..(Len(s) + Len(t)) /\ st[Len(s) + i] = t[i]
      BY <1>1, <1>2 DEF st
    <3> QED  BY <1>3, <3>1 DEF st, ToSet
  <2> QED  BY <1>2, <2>1, <2>2, <2>3 DEF ToSet
<1> QED  BY <1>5, <1>6 DEF st

\* Removing position k takes that element, and no other, out of the list.
LEMMA RemoveInjective ==
    ASSUME NEW S, NEW s \in Seq(S), NEW k \in 1..Len(s), IsInjective(s)
    PROVE  /\ IsInjective(RemoveAt(s, k))
           /\ ToSet(RemoveAt(s, k)) = ToSet(s) \ {s[k]}
<1> DEFINE r == RemoveAt(s, k)
<1>1. /\ r \in Seq(S)
      /\ Len(r) = Len(s) - 1
      /\ \A j \in 1..(Len(s) - 1) : r[j] = IF j < k THEN s[j] ELSE s[j + 1]
  BY RemoveAtIsSeq
<1>2. Len(s) \in Nat /\ DOMAIN s = 1..Len(s)
  OBVIOUS
<1> HIDE DEF r
<1>3. DOMAIN r = 1..(Len(s) - 1)
  BY <1>1
<1>4. IsInjective(r)
  <2> SUFFICES ASSUME NEW i \in 1..(Len(s) - 1), NEW j \in 1..(Len(s) - 1), r[i] = r[j]
               PROVE  i = j
    BY <1>3 DEF IsInjective
  <2> DEFINE at(m) == IF m < k THEN m ELSE m + 1
  <2>1. at(i) \in 1..Len(s) /\ at(j) \in 1..Len(s) /\ s[at(i)] = s[at(j)]
    BY <1>1, <1>2
  <2>2. at(i) = at(j)
    BY <1>2, <2>1 DEF IsInjective
  <2> QED  BY <1>2, <2>2
<1>5. ASSUME NEW j \in 1..(Len(s) - 1)  PROVE r[j] \in ToSet(s) \ {s[k]}
  <2> DEFINE at == IF j < k THEN j ELSE j + 1
  <2>1. at \in 1..Len(s) /\ at # k /\ r[j] = s[at]
    BY <1>1, <1>2
  <2> QED  BY <1>2, <2>1 DEF IsInjective, ToSet
<1>6. ASSUME NEW m \in 1..Len(s), m # k  PROVE s[m] \in ToSet(r)
  <2> DEFINE at == IF m < k THEN m ELSE m - 1
  <2>1. at \in 1..(Len(s) - 1) /\ r[at] = s[m]
    BY <1>1, <1>2, <1>6
  <2> QED  BY <1>3, <2>1 DEF ToSet
<1>7. ToSet(r) \subseteq ToSet(s) \ {s[k]}
  BY <1>3, <1>5 DEF ToSet
<1>8. ToSet(s) \ {s[k]} \subseteq ToSet(r)
  BY <1>2, <1>6 DEF ToSet
<1> QED  BY <1>4, <1>7, <1>8 DEF r

\* The tail of a list holds everything but the head.
LEMMA TailInjective ==
    ASSUME NEW S, NEW s \in Seq(S), s # <<>>, IsInjective(s)
    PROVE  /\ IsInjective(Tail(s))
           /\ ToSet(Tail(s)) = ToSet(s) \ {Head(s)}
           /\ Head(s) \in ToSet(s)
<1>1. /\ Tail(s) \in Seq(S) /\ Len(Tail(s)) = Len(s) - 1
      /\ \A i \in 1..(Len(s) - 1) : Tail(s)[i] = s[i + 1]
      /\ Head(s) = s[1] /\ Len(s) \in Nat /\ Len(s) > 0 /\ DOMAIN s = 1..Len(s)
  BY HeadTailProperties
<1> DEFINE t == Tail(s)
<1>2. DOMAIN t = 1..(Len(s) - 1) /\ \A i \in 1..(Len(s) - 1) : t[i] = s[i + 1]
  BY <1>1
<1> HIDE DEF t
<1>3. IsInjective(t)
  <2> SUFFICES ASSUME NEW i \in 1..(Len(s) - 1), NEW j \in 1..(Len(s) - 1), t[i] = t[j]
               PROVE  i = j
    BY <1>2 DEF IsInjective
  <2>1. i + 1 \in 1..Len(s) /\ j + 1 \in 1..Len(s) /\ s[i + 1] = s[j + 1]
    BY <1>1, <1>2
  <2>2. i + 1 = j + 1
    BY <1>1, <2>1 DEF IsInjective
  <2> QED  BY <2>2
<1>4. ASSUME NEW i \in 1..(Len(s) - 1)  PROVE t[i] \in ToSet(s) \ {Head(s)}
  <2>1. i + 1 \in 1..Len(s) /\ i + 1 # 1 /\ 1 \in 1..Len(s) /\ t[i] = s[i + 1]
    BY <1>1, <1>2
  <2> QED  BY <1>1, <2>1 DEF IsInjective, ToSet
<1>5. ASSUME NEW m \in 1..Len(s), m # 1  PROVE s[m] \in ToSet(t)
  <2>1. m - 1 \in 1..(Len(s) - 1) /\ t[m - 1] = s[m]
    BY <1>1, <1>2, <1>5
  <2> QED  BY <1>2, <2>1 DEF ToSet
<1>6. Head(s) \in ToSet(s)
  BY <1>1 DEF ToSet
<1> QED  BY <1>1, <1>2, <1>3, <1>4, <1>5, <1>6 DEF t, ToSet

-----------------------------------------------------------------------------
(***************************************************************************)
(* The instruction list.  The invariant follows an instruction through its *)
(* life: fresh, in the chain of one client's call, in the list, freed.     *)
(***************************************************************************)

\* The chain of a call in progress belongs to that call alone.
ChainInv ==
    /\ \A c \in Clients : pc[c] = "sched" =>
         /\ arg[c] # <<>>
         /\ IsInjective(arg[c])
         /\ \A i \in ToSet(arg[c]) : alloc[i] = "chain"
    /\ \A c, d \in Clients : pc[c] = "sched" /\ pc[d] = "sched" /\ c # d =>
         ToSet(arg[c]) \cap ToSet(arg[d]) = {}

\* What has been executed is freed, but for the one the thread sleeps on.
DoneInv ==
    /\ IsInjective(done)
    /\ \A i \in ToSet(done) :
         \/ alloc[i] = "freed"
         \/ tpc = "sleep" /\ i = Head(instr)

\* The state says where the thread is.
StateInv ==
    /\ state = "PRESTART" <=> tpc \in {"none", "begin"}
    /\ state = "STOPPED" <=> tpc = "ended"

ListInv == ListOwnsMemory /\ ChainInv /\ DoneInv /\ StateInv

LEMMA ListInvInit == Init => ListInv
BY DEF Init, ListInv, ListOwnsMemory, ChainInv, DoneInv, StateInv, IsInjective, ToSet

\* A step that touches neither the list nor any instruction, and gives no
\* client a new chain.
LEMMA ListInvQuiet ==
    ASSUME Typing, ListInv,
           UNCHANGED <<instr, alloc, done>>,
           \A c \in Clients : pc'[c] = "sched" => pc[c] = "sched" /\ arg'[c] = arg[c],
           \/ tpc' = tpc /\ state' = state
           \/ tpc # "sleep" /\ StateInv'
    PROVE  ListInv'
<1>1. ListOwnsMemory'
  BY DEF ListInv, ListOwnsMemory
<1>2. ChainInv'
  BY DEF ListInv, ChainInv
<1>3. DoneInv'
  BY DEF ListInv, DoneInv
<1>4. StateInv'
  BY DEF ListInv, StateInv
<1> QED  BY <1>1, <1>2, <1>3, <1>4 DEF ListInv

LEMMA ListInvSchedCall ==
    ASSUME NoReschedule, Typing, ListInv, NEW c \in Clients, NEW chain \in Chains,
           SchedCall(c, chain)
    PROVE  ListInv'
<1> USE DEF ListInv
<1>1. /\ chain # <<>> /\ IsInjective(chain) /\ chain \in Seq(Instrs)
      /\ ToSet(chain) \subseteq Instrs
  BY ChainIsSeq DEF ToSet
<1>2. /\ \A i \in ToSet(chain) : alloc[i] = "fresh"
      /\ alloc' = Owned(chain, "chain")
      /\ pc' = [pc EXCEPT ![c] = "sched"]
      /\ arg' = [arg EXCEPT ![c] = chain]
      /\ UNCHANGED <<instr, done, tpc, state>>
      /\ pc[c] = "idle"
  BY DEF SchedCall, Begin, CanCall, NoReschedule, status, thread, history
<1>3. \A i \in Instrs : alloc'[i] = IF i \in ToSet(chain) THEN "chain" ELSE alloc[i]
  BY <1>2 DEF Owned
<1>4. ListOwnsMemory'
  BY <1>1, <1>2, <1>3 DEF ListOwnsMemory
<1>5. ASSUME NEW d \in Clients, pc[d] = "sched"
      PROVE  /\ d # c /\ arg'[d] = arg[d]
             /\ ToSet(arg[d]) \subseteq Instrs
             /\ ToSet(arg[d]) \cap ToSet(chain) = {}
  <2>1. arg[d] \in Seq(Instrs)
    BY DEF Typing, TypeOK
  <2>2. ToSet(arg[d]) \subseteq Instrs
    BY <2>1 DEF ToSet
  <2>3. \A i \in ToSet(arg[d]) : alloc[i] = "chain"
    BY <1>5 DEF ChainInv
  <2> QED  BY <1>2, <1>5, <2>2, <2>3 DEF Typing, TypeOK
<1>6. arg'[c] = chain /\ \A d \in Clients : pc'[d] = "sched" => d = c \/ pc[d] = "sched"
  BY <1>2 DEF Typing, TypeOK
<1>7. ChainInv'
  <2>1. ASSUME NEW d \in Clients, pc'[d] = "sched"
        PROVE  /\ arg'[d] # <<>>
               /\ IsInjective(arg'[d])
               /\ \A i \in ToSet(arg'[d]) : alloc'[i] = "chain"
    <3>1. CASE d = c   BY <1>1, <1>3, <1>6, <3>1
    <3>2. CASE d # c
      <4>1. pc[d] = "sched"
        BY <1>6, <2>1, <3>2
      <4> QED  BY <1>3, <1>5, <4>1 DEF ChainInv
    <3> QED  BY <3>1, <3>2
  <2>2. ASSUME NEW d \in Clients, NEW e \in Clients,
               pc'[d] = "sched", pc'[e] = "sched", d # e
        PROVE  ToSet(arg'[d]) \cap ToSet(arg'[e]) = {}
    <3>1. CASE d # c /\ e # c
      <4>1. pc[d] = "sched" /\ pc[e] = "sched"
        BY <1>6, <2>2, <3>1
      <4>2. arg'[d] = arg[d] /\ arg'[e] = arg[e]
        BY <1>5, <4>1
      <4> QED  BY <2>2, <4>1, <4>2 DEF ChainInv
    <3>2. CASE d = c
      <4>1. pc[e] = "sched"
        BY <1>6, <2>2, <3>2
      <4> QED  BY <1>5, <1>6, <3>2, <4>1
    <3>3. CASE e = c
      <4>1. pc[d] = "sched"
        BY <1>6, <2>2, <3>3
      <4> QED  BY <1>5, <1>6, <3>3, <4>1
    <3> QED  BY <3>1, <3>2, <3>3
  <2> QED  BY <2>1, <2>2 DEF ChainInv
<1>8. DoneInv'
  <2>1. done \in Seq(Instrs) /\ ToSet(done) \subseteq Instrs
    BY DEF Typing, TypeOK, ToSet
  <2>2. tpc = "sleep" => Head(instr) \in Instrs /\ alloc[Head(instr)] = "list"
    <3>1. tpc = "sleep" => instr \in Seq(Instrs) /\ instr # <<>>
      BY DEF Typing, TypeOK, LockInv
    <3> QED  BY <3>1, TailInjective, HeadTailProperties DEF ListOwnsMemory
  <2> QED  BY <1>2, <1>3, <2>1, <2>2 DEF DoneInv
<1>9. StateInv'
  BY <1>2 DEF StateInv
<1> QED  BY <1>4, <1>7, <1>8, <1>9

\* What SchedAppend does to a list that satisfies the invariant.
LEMMA SchedAppendFacts ==
    ASSUME Typing, ListInv, NEW c \in Clients, SchedAppend(c)
    PROVE  /\ arg[c] \in Seq(Instrs) /\ arg[c] # <<>> /\ ToSet(arg[c]) \subseteq Instrs
           /\ instr' = instr \o arg[c] /\ instr' \in Seq(Instrs)
           /\ \A i \in ToSet(arg[c]) : alloc[i] = "chain"
           /\ ToSet(instr) \cap ToSet(arg[c]) = {}
           /\ IsInjective(instr')
           /\ ToSet(instr') = ToSet(instr) \cup ToSet(arg[c])
           /\ \A i \in Instrs :
                alloc'[i] = IF i \in ToSet(arg[c]) THEN "list" ELSE alloc[i]
           /\ UNCHANGED <<done, tpc, state>>
           /\ tpc # "sleep"
<1>1. arg[c] \in Seq(Instrs) /\ instr \in Seq(Instrs) /\ ToSet(arg[c]) \subseteq Instrs
  BY DEF Typing, TypeOK, ToSet
<1>2. pc[c] = "sched" /\ instr' = instr \o arg[c] /\ alloc' = Owned(arg[c], "list")
  BY DEF SchedAppend, Return, Appended
<1>3. /\ arg[c] # <<>> /\ IsInjective(arg[c])
      /\ \A i \in ToSet(arg[c]) : alloc[i] = "chain"
      /\ IsInjective(instr) /\ ToSet(instr) = {i \in Instrs : alloc[i] = "list"}
  BY <1>2 DEF ListInv, ChainInv, ListOwnsMemory
<1>4. ToSet(instr) \cap ToSet(arg[c]) = {}
  BY <1>3
<1>5. UNCHANGED <<done, tpc, state>> /\ tpc # "sleep"
  BY DEF SchedAppend, LockFree, status, thread, history, Typing, LockInv
<1>6. \A i \in Instrs : alloc'[i] = IF i \in ToSet(arg[c]) THEN "list" ELSE alloc[i]
  BY <1>2 DEF Owned
<1> QED  BY <1>1, <1>2, <1>3, <1>4, <1>5, <1>6, ConcatInjective, ConcatProperties

LEMMA ListInvSchedAppend ==
    ASSUME Typing, ListInv, NEW c \in Clients, SchedAppend(c)
    PROVE  ListInv'
<1>1. ListOwnsMemory'
  BY SchedAppendFacts DEF ListInv, ListOwnsMemory
<1>2. /\ pc[c] = "sched"
      /\ pc' = [pc EXCEPT ![c] = "idle"]
      /\ arg' = [arg EXCEPT ![c] = <<>>]
  BY DEF SchedAppend, Return
<1>3. ASSUME NEW d \in Clients, pc'[d] = "sched"
      PROVE  /\ d # c /\ pc[d] = "sched" /\ arg'[d] = arg[d]
             /\ ToSet(arg[d]) \subseteq Instrs
             /\ ToSet(arg[d]) \cap ToSet(arg[c]) = {}
  <2>1. d # c /\ pc[d] = "sched" /\ arg'[d] = arg[d]
    BY <1>2, <1>3 DEF Typing, TypeOK
  <2>2. arg[d] \in Seq(Instrs)
    BY DEF Typing, TypeOK
  <2>3. ToSet(arg[d]) \subseteq Instrs
    BY <2>2 DEF ToSet
  <2>4. ToSet(arg[d]) \cap ToSet(arg[c]) = {}
    BY <1>2, <2>1 DEF ListInv, ChainInv
  <2> QED  BY <2>1, <2>3, <2>4
<1>4. ChainInv'
  <2>1. ASSUME NEW d \in Clients, pc'[d] = "sched"
        PROVE  /\ arg'[d] # <<>> /\ IsInjective(arg'[d])
               /\ \A i \in ToSet(arg'[d]) : alloc'[i] = "chain"
    <3>1. arg'[d] = arg[d] /\ pc[d] = "sched" /\ ToSet(arg[d]) \subseteq Instrs
          /\ ToSet(arg[d]) \cap ToSet(arg[c]) = {}
      BY <1>3, <2>1
    <3>2. \A i \in ToSet(arg[d]) : alloc'[i] = alloc[i]
      BY <3>1, SchedAppendFacts
    <3> QED  BY <3>1, <3>2 DEF ListInv, ChainInv
  <2>2. ASSUME NEW d \in Clients, NEW e \in Clients, pc'[d] = "sched", pc'[e] = "sched", d # e
        PROVE  ToSet(arg'[d]) \cap ToSet(arg'[e]) = {}
    BY <1>3, <2>2 DEF ListInv, ChainInv
  <2> QED  BY <2>1, <2>2 DEF ChainInv
<1>5. DoneInv'
  <2>1. ToSet(done) \subseteq Instrs
    BY DEF Typing, TypeOK, ToSet
  <2>2. \A i \in ToSet(done) : alloc[i] = "freed"
    BY SchedAppendFacts DEF ListInv, DoneInv
  <2> QED  BY <2>1, <2>2, SchedAppendFacts DEF ListInv, DoneInv
<1>6. StateInv'
  BY SchedAppendFacts DEF ListInv, StateInv
<1> QED  BY <1>1, <1>4, <1>5, <1>6 DEF ListInv

\* One element k leaves the list and is freed; no call gains a chain.
LEMMA ListInvUnlink ==
    ASSUME Typing, ListInv, NEW k \in 1..Len(instr),
           instr' \in Seq(Instrs),
           IsInjective(instr'), ToSet(instr') = ToSet(instr) \ {instr[k]},
           alloc' = [alloc EXCEPT ![instr[k]] = "freed"],
           UNCHANGED done,
           \A c \in Clients : pc'[c] = "sched" => pc[c] = "sched" /\ arg'[c] = arg[c],
           tpc = "sleep" => k = 1,
           tpc' # "sleep",
           StateInv'
    PROVE  ListInv'
<1>1. /\ instr \in Seq(Instrs) /\ instr[k] \in Instrs
      /\ instr[k] \in ToSet(instr) /\ Head(instr) = instr[1]
      /\ alloc \in [Instrs -> {"fresh", "chain", "list", "freed"}]
  BY DEF Typing, TypeOK, ToSet
<1>2. alloc[instr[k]] = "list"
  BY <1>1 DEF ListInv, ListOwnsMemory
<1>3. \A i \in Instrs : alloc'[i] = IF i = instr[k] THEN "freed" ELSE alloc[i]
  BY <1>1
<1>4. ListOwnsMemory'
  BY <1>1, <1>3 DEF ListInv, ListOwnsMemory
<1>5. ChainInv'
  <2>1. ASSUME NEW c \in Clients, pc'[c] = "sched"
        PROVE  \A i \in ToSet(arg'[c]) : alloc'[i] = "chain"
    <3>1. arg[c] \in Seq(Instrs) /\ arg'[c] = arg[c] /\ pc[c] = "sched"
      BY <2>1 DEF Typing, TypeOK
    <3>2. ToSet(arg[c]) \subseteq Instrs
      BY <3>1 DEF ToSet
    <3> QED  BY <1>2, <1>3, <3>1, <3>2 DEF ListInv, ChainInv
  <2> QED  BY <2>1 DEF ListInv, ChainInv
<1>6. DoneInv'
  <2>1. ToSet(done) \subseteq Instrs
    BY DEF Typing, TypeOK, ToSet
  <2> QED  BY <1>1, <1>3, <2>1 DEF ListInv, DoneInv
<1> QED  BY <1>4, <1>5, <1>6 DEF ListInv

\* A cancel takes the matching element out, and no other.
LEMMA CancelFoundFacts ==
    ASSUME Typing, ListInv, NEW c \in Clients, CancelFound(c)
    PROVE  \E k \in 1..Len(instr) :
             /\ instr' = RemoveAt(instr, k) /\ instr' \in Seq(Instrs)
             /\ IsInjective(instr') /\ ToSet(instr') = ToSet(instr) \ {instr[k]}
             /\ alloc' = [alloc EXCEPT ![instr[k]] = "freed"]
             /\ UNCHANGED <<done, tpc, state>>
             /\ tpc # "sleep"
<1>1. Head(arg[c]) \in Instrs
  BY HeadTailProperties DEF CancelFound, Return, Typing, TypeOK, ArgInv
<1>2. FirstMatch(Head(arg[c])) \in 1..Len(instr)
  BY <1>1, FirstMatchInList DEF CancelFound
<1>3. instr \in Seq(Instrs) /\ IsInjective(instr)
  BY DEF Typing, TypeOK, ListInv, ListOwnsMemory
<1>4. UNCHANGED <<done, tpc, state>> /\ tpc # "sleep"
  BY DEF CancelFound, LockFree, status, thread, history, Typing, LockInv
<1> WITNESS FirstMatch(Head(arg[c])) \in 1..Len(instr)
<1> QED
  BY <1>2, <1>3, <1>4, RemoveAtIsSeq, RemoveInjective DEF CancelFound, Unlinked

LEMMA ListInvCancelFound ==
    ASSUME Typing, ListInv, NEW c \in Clients, CancelFound(c)
    PROVE  ListInv'
<1>1. PICK k \in 1..Len(instr) :
        /\ instr' \in Seq(Instrs)
        /\ IsInjective(instr') /\ ToSet(instr') = ToSet(instr) \ {instr[k]}
        /\ alloc' = [alloc EXCEPT ![instr[k]] = "freed"]
        /\ UNCHANGED <<done, tpc, state>>
        /\ tpc # "sleep"
  BY CancelFoundFacts
<1>2. \A d \in Clients : pc'[d] = "sched" => pc[d] = "sched" /\ arg'[d] = arg[d]
  BY DEF CancelFound, Return, Typing, TypeOK
<1>3. StateInv'
  BY <1>1 DEF ListInv, StateInv
<1> QED  BY <1>1, <1>2, <1>3, ListInvUnlink

\* The thread executes the head: it was not executed before.
LEMMA RunExecFacts ==
    ASSUME Typing, ListInv, RunExec
    PROVE  /\ instr # <<>> /\ Head(instr) \in Instrs
           /\ done' = Append(done, Head(instr)) /\ done' \in Seq(Instrs)
           /\ IsInjective(done')
           /\ ToSet(done') = ToSet(done) \cup {Head(instr)}
           /\ \A i \in ToSet(done) : alloc[i] = "freed"
           /\ alloc[Head(instr)] = "list"
           /\ UNCHANGED <<instr, alloc, pc, arg, state>>
           /\ tpc = "exec" /\ tpc' = "sleep"
<1>1. /\ instr # <<>> /\ instr \in Seq(Instrs) /\ done \in Seq(Instrs)
      /\ tpc = "exec" /\ tpc' = "sleep"
      /\ done' = Append(done, Head(instr))
      /\ UNCHANGED <<instr, alloc, pc, arg, state>>
  BY DEF RunExec, Typing, TypeOK, LockInv, fields, list, status, clients
<1>2. Head(instr) \in Instrs /\ Head(instr) \in ToSet(instr)
  BY <1>1, HeadTailProperties, TailInjective DEF ListInv, ListOwnsMemory
<1>3. alloc[Head(instr)] = "list"
  BY <1>2 DEF ListInv, ListOwnsMemory
<1>4. \A i \in ToSet(done) : alloc[i] = "freed"
  BY <1>1 DEF ListInv, DoneInv
<1> DEFINE h == <<Head(instr)>>
<1>5. /\ h \in Seq(Instrs) /\ IsInjective(h) /\ ToSet(h) = {Head(instr)}
  BY <1>2 DEF IsInjective, ToSet
<1>6. IsInjective(done) /\ ToSet(done) \cap ToSet(h) = {}
  BY <1>3, <1>4, <1>5 DEF ListInv, DoneInv
<1>7. done' = done \o h /\ done' \in Seq(Instrs)
  BY <1>1, <1>2, AppendIsConcat, AppendProperties
<1> HIDE DEF h
<1>8. IsInjective(done') /\ ToSet(done') = ToSet(done) \cup ToSet(h)
  <2>1. IsInjective(done \o h) /\ ToSet(done \o h) = ToSet(done) \cup ToSet(h)
    BY <1>1, <1>5, <1>6, ConcatInjective
  <2> QED  BY <1>7, <2>1
<1> QED  BY <1>1, <1>2, <1>3, <1>4, <1>5, <1>7, <1>8

\* The thread pops the head: it becomes memory of the executed ones.
LEMMA RunNextFacts ==
    ASSUME Typing, ListInv, RunNext
    PROVE  /\ instr # <<>> /\ 1 \in 1..Len(instr) /\ instr[1] = Head(instr)
           /\ instr' = Tail(instr) /\ instr' \in Seq(Instrs)
           /\ IsInjective(instr') /\ ToSet(instr') = ToSet(instr) \ {instr[1]}
           /\ alloc' = [alloc EXCEPT ![instr[1]] = "freed"]
           /\ UNCHANGED <<done, pc, arg, state>>
           /\ tpc = "sleep" /\ tpc' = "flags"
<1>1. /\ instr # <<>> /\ instr \in Seq(Instrs) /\ instr[1] = Head(instr)
      /\ IsInjective(instr)
  BY DEF RunNext, Typing, TypeOK, LockInv, ListInv, ListOwnsMemory
<1>2. 1 \in 1..Len(instr)
  BY <1>1, EmptySeq
<1>3. /\ instr' = Tail(instr)
      /\ alloc' = [alloc EXCEPT ![Head(instr)] = "freed"]
      /\ UNCHANGED <<done, pc, arg, state>>
      /\ tpc = "sleep" /\ tpc' = "flags"
  BY DEF RunNext, status, clients, history
<1> QED  BY <1>1, <1>2, <1>3, HeadTailProperties, TailInjective

LEMMA ListInvThread ==
    ASSUME Typing, ListInv, Thread
    PROVE  ListInv'
<1> USE DEF owner, status, flags, list, fields, clients, thread, history
<1>1. CASE RunExec
  <2>1. ListOwnsMemory' /\ ChainInv'
    BY <1>1, RunExecFacts DEF ListInv, ListOwnsMemory, ChainInv
  <2>2. DoneInv'
    BY <1>1, RunExecFacts DEF DoneInv
  <2>3. StateInv'
    BY <1>1, RunExecFacts DEF ListInv, StateInv
  <2> QED  BY <2>1, <2>2, <2>3 DEF ListInv
<1>2. CASE RunNext
  <2>1. StateInv'
    BY <1>2, RunNextFacts DEF ListInv, StateInv
  <2>2. /\ 1 \in 1..Len(instr) /\ instr' \in Seq(Instrs)
        /\ IsInjective(instr') /\ ToSet(instr') = ToSet(instr) \ {instr[1]}
        /\ alloc' = [alloc EXCEPT ![instr[1]] = "freed"]
        /\ UNCHANGED <<done, pc, arg>>
        /\ tpc' = "flags"
    BY <1>2, RunNextFacts
  <2> QED  BY <2>1, <2>2, ListInvUnlink
<1>3. CASE RunBegin \/ RunFlags \/ RunIdle \/ RunTake \/ RunExecFails
        \/ RunDisable \/ RunDisableFails \/ RunStop
  <2>1. /\ UNCHANGED <<instr, alloc, done, pc, arg>>
        /\ tpc # "sleep"
    BY <1>3 DEF RunBegin, RunFlags, RunIdle, RunTake, RunExecFails,
       RunDisable, RunDisableFails, RunStop
  <2>2. StateInv'
    BY <1>3 DEF RunBegin, RunFlags, RunIdle, RunTake, RunExecFails,
       RunDisable, RunDisableFails, RunStop, ListInv, StateInv
  <2> QED  BY <2>1, <2>2, ListInvQuiet
<1> QED  BY <1>1, <1>2, <1>3 DEF Thread

LEMMA ListInvClient ==
    ASSUME NoReschedule, Typing, ListInv, NEW c \in Clients, Client(c)
    PROVE  ListInv'
<1> USE DEF owner, status, flags, list, fields, clients, thread, history
<1>1. CASE \E chain \in Chains : SchedCall(c, chain)
  BY <1>1, ListInvSchedCall
<1>2. CASE SchedAppend(c)  BY <1>2, ListInvSchedAppend
<1>3. CASE CancelFound(c)  BY <1>3, ListInvCancelFound
<1>4. CASE Start(c)
  <2>1. /\ UNCHANGED <<instr, alloc, done, pc, arg>>
        /\ tpc = "none"
    BY <1>4 DEF Start, Typing, LockInv
  <2>2. StateInv'
    BY <1>4, <2>1 DEF Start, ListInv, StateInv
  <2> QED  BY <2>1, <2>2, ListInvQuiet
<1>5. CASE StartFails(c) \/ Stop(c) \/ Wait(c) \/ Join(c) \/ FreeRefused(c)
  BY <1>5, ListInvQuiet DEF StartFails, Stop, Wait, Join, FreeRefused
<1>6. CASE (\E i \in Instrs : CancelCall(c, i)) \/ FreeCheck(c)
  <2>1. /\ UNCHANGED <<instr, alloc, done, tpc, state>>
        /\ \E call \in {"cancel", "free"} : pc' = [pc EXCEPT ![c] = call]
        /\ \A d \in Clients : d # c => arg'[d] = arg[d]
    <3>1. CASE \E i \in Instrs : CancelCall(c, i)
      BY <3>1 DEF CancelCall, Begin, Typing, TypeOK
    <3>2. CASE FreeCheck(c)
      BY <3>2 DEF FreeCheck, Begin, Typing, TypeOK
    <3> QED  BY <1>6, <3>1, <3>2
  <2>2. \A d \in Clients : pc'[d] = "sched" => pc[d] = "sched" /\ arg'[d] = arg[d]
    BY <2>1 DEF Typing, TypeOK
  <2> QED  BY <2>1, <2>2, ListInvQuiet
<1>7. CASE SchedReject(c) \/ CancelMissed(c) \/ FreeBody(c)
  <2>1. /\ UNCHANGED <<instr, alloc, done, tpc, state>>
        /\ pc' = [pc EXCEPT ![c] = "idle"]
        /\ arg' = [arg EXCEPT ![c] = <<>>]
    BY <1>7 DEF SchedReject, CancelMissed, FreeBody, Return
  <2>2. \A d \in Clients : pc'[d] = "sched" => pc[d] = "sched" /\ arg'[d] = arg[d]
    BY <2>1 DEF Typing, TypeOK
  <2> QED  BY <2>1, <2>2, ListInvQuiet
<1> QED  BY <1>1, <1>2, <1>3, <1>4, <1>5, <1>6, <1>7 DEF Client, Finish

LEMMA ListInvNext == NoReschedule /\ Typing /\ ListInv /\ [Next]_vars => ListInv'
<1> SUFFICES ASSUME NoReschedule, Typing, ListInv, [Next]_vars  PROVE ListInv'
  OBVIOUS
<1>1. CASE UNCHANGED vars
  <2>1. UNCHANGED <<instr, alloc, done, pc, arg, tpc, state>>
    BY <1>1 DEF vars, fields, status, list, clients, thread, history
  <2> QED  BY <2>1, ListInvQuiet
<1> QED  BY <1>1, ListInvThread, ListInvClient DEF Next

(***************************************************************************)
(* The list, the chains of the calls in progress, the executed             *)
(* instructions and the freed ones never overlap, whatever threads do.     *)
(***************************************************************************)
THEOREM ListInvHolds == NoReschedule => (Spec => []ListInv)
<1> SUFFICES ASSUME NoReschedule  PROVE Spec => []ListInv
  OBVIOUS
<1> QED  BY ListInvInit, ListInvNext, TypingHolds, PTL DEF Spec

\* The linked list holds exactly the allocated scheduled instructions.
THEOREM ListIsSound == NoReschedule => (Spec => []ListOwnsMemory)
<1>1. ListInv => ListOwnsMemory
  BY DEF ListInv
<1> QED  BY <1>1, ListInvHolds, PTL

(***************************************************************************)
(* While the thread executes the head of the list, or sleeps on it, nobody *)
(* moves or frees it: every step of the controller keeps HeadIsStable.     *)
(***************************************************************************)
THEOREM HeadStays == NoReschedule => (Spec => HeadIsStable)
<1>1. ASSUME NoReschedule, Typing, ListInv, [Next]_vars  PROVE [HeadKept]_vars
  <2> SUFFICES ASSUME Busy, Busy', ~UNCHANGED vars
               PROVE  /\ instr' # <<>> /\ Head(instr') = Head(instr)
                      /\ alloc'[Head(instr)] = "list"
    BY DEF HeadKept
  <2>1. Typing' /\ ListInv'
    BY <1>1, TypingNext, ListInvNext
  <2>2. instr_lock = "thread"
    BY <1>1 DEF Busy, Typing, LockInv
  <2>3. instr' = instr
    <3>1. CASE Thread
      BY <3>1, <1>1, RunNextFacts DEF Thread, RunBegin, RunFlags, RunIdle, RunTake,
         RunExec, RunExecFails, RunDisable, RunDisableFails, RunStop, Busy, fields, list
    <3>2. ASSUME NEW c \in Clients, Client(c)  PROVE instr' = instr
      BY <2>2, <3>2 DEF Client, Finish, Start, StartFails, SchedCall, CancelCall, Stop,
         Wait, Join, FreeCheck, FreeRefused, SchedAppend, SchedReject, CancelFound,
         CancelMissed, FreeBody, LockFree, fields, list
    <3> QED  BY <1>1, <3>1, <3>2 DEF Next
  <2>4. instr' \in Seq(Instrs) /\ instr' # <<>> /\ IsInjective(instr')
    BY <2>1 DEF Busy, Typing, TypeOK, LockInv, ListInv, ListOwnsMemory
  <2>5. Head(instr') \in ToSet(instr') /\ Head(instr') \in Instrs
    BY <2>4, TailInjective, HeadTailProperties
  <2>6. alloc'[Head(instr')] = "list"
    BY <2>1, <2>5 DEF ListInv, ListOwnsMemory
  <2> QED  BY <2>3, <2>4, <2>6
<1> SUFFICES ASSUME NoReschedule  PROVE Spec => [][HeadKept]_vars
  BY DEF HeadIsStable
<1> QED  BY <1>1, TypingHolds, ListInvHolds, PTL DEF Spec

-----------------------------------------------------------------------------
(***************************************************************************)
(* The ids.  sched counts on from the id at the end of the list, so an id  *)
(* is never larger than the number of instructions scheduled so far.       *)
(***************************************************************************)

\* The ids have not come round to where they began.
NoWrap == Cardinality(Instrs) < IdMod

Scheduled == {i \in Instrs : alloc[i] \in {"list", "freed"}}

BoundedIds == \A k \in DOMAIN instr : id[instr[k]] <= Cardinality(Scheduled)

IdsInv == IdsIncrease /\ BoundedIds

\* A list without duplicates has as many elements as nodes.
LEMMA ListCardinality ==
    ASSUME NEW S, NEW s \in Seq(S), IsInjective(s)
    PROVE  IsFiniteSet(ToSet(s)) /\ Cardinality(ToSet(s)) = Len(s)
<1>1. Len(s) \in Nat /\ DOMAIN s = 1..Len(s)
  OBVIOUS
<1>2. s \in [1..Len(s) -> ToSet(s)]
  BY <1>1 DEF ToSet
<1>3. s \in Surjection(1..Len(s), ToSet(s)) /\ s \in Injection(1..Len(s), ToSet(s))
  BY <1>1, <1>2 DEF Surjection, Injection, ToSet
<1>4. IsFiniteSet(1..Len(s)) /\ Cardinality(1..Len(s)) = Len(s)
  BY <1>1, FS_Interval
<1> QED  BY <1>3, <1>4, FS_Surjection

LEMMA ScheduledFinite ==
    /\ IsFiniteSet(Scheduled) /\ Cardinality(Scheduled) \in Nat
    /\ Cardinality(Scheduled) <= Cardinality(Instrs)
    /\ Cardinality(Instrs) \in Nat
<1>1. Scheduled \in SUBSET Instrs
  BY DEF Scheduled
<1> QED  BY <1>1, InstrsAssumption, FS_Subset, FS_CardinalityType

\* The node at the end of the list has the largest id in it.
LEMMA LastIdIsLargest ==
    ASSUME TypeOK, IdsInv
    PROVE  /\ LastId \in Nat
           /\ LastId <= Cardinality(Scheduled)
           /\ \A k \in DOMAIN instr : id[instr[k]] \in Nat /\ id[instr[k]] <= LastId
<1>1. /\ instr \in Seq(Instrs) /\ Len(instr) \in Nat /\ DOMAIN instr = 1..Len(instr)
      /\ id \in [Instrs -> 0..(IdMod - 1)]
  BY DEF TypeOK
<1>2. CASE instr = <<>>
  BY <1>2, ScheduledFinite DEF LastId
<1>3. CASE instr # <<>>
  <2>1. Len(instr) \in DOMAIN instr /\ LastId = id[instr[Len(instr)]]
    BY <1>1, <1>3, EmptySeq DEF LastId, Last
  <2>2. \A k \in DOMAIN instr : id[instr[k]] \in Nat
    BY <1>1, IdModAssumption
  <2>3. ASSUME NEW k \in DOMAIN instr  PROVE id[instr[k]] <= LastId
    <3>1. k = Len(instr) \/ k < Len(instr)
      BY <1>1
    <3>2. CASE k = Len(instr)
      BY <2>1, <2>2, <3>2
    <3>3. CASE k < Len(instr)
      <4>1. id[instr[k]] < id[instr[Len(instr)]]
        BY <2>1, <3>3 DEF IdsInv, IdsIncrease
      <4> QED  BY <2>1, <2>2, <4>1
    <3> QED  BY <3>1, <3>2, <3>3
  <2> QED  BY <2>1, <2>2, <2>3 DEF IdsInv, BoundedIds
<1> QED  BY <1>2, <1>3

\* The instructions of a chain join the scheduled ones.
LEMMA AppendSchedules ==
    ASSUME Typing, ListInv, NEW c \in Clients, SchedAppend(c)
    PROVE  Cardinality(Scheduled') = Cardinality(Scheduled) + Len(arg[c])
<1>1. /\ arg[c] \in Seq(Instrs) /\ ToSet(arg[c]) \subseteq Instrs
      /\ \A i \in ToSet(arg[c]) : alloc[i] = "chain"
      /\ \A i \in Instrs :
           alloc'[i] = IF i \in ToSet(arg[c]) THEN "list" ELSE alloc[i]
  BY SchedAppendFacts
<1>2. IsInjective(arg[c])
  BY DEF SchedAppend, Return, ListInv, ChainInv
<1>3. IsFiniteSet(ToSet(arg[c])) /\ Cardinality(ToSet(arg[c])) = Len(arg[c])
  BY <1>1, <1>2, ListCardinality
<1>4. Scheduled' = Scheduled \cup ToSet(arg[c])
  BY <1>1 DEF Scheduled
<1>5. Scheduled \cap ToSet(arg[c]) = {}
  BY <1>1 DEF Scheduled
<1>6. Cardinality(Scheduled \cup ToSet(arg[c]))
        = Cardinality(Scheduled) + Cardinality(ToSet(arg[c])) - Cardinality({})
  BY <1>3, <1>5, ScheduledFinite, FS_Union
<1>7. Len(arg[c]) \in Nat
  BY <1>1
<1> QED  BY <1>3, <1>4, <1>6, <1>7, ScheduledFinite, FS_EmptySet

\* The ids of the list after an append: the old nodes keep theirs, and the
\* new ones count on.
LEMMA AppendNumbers ==
    ASSUME NoWrap, Typing, ListInv, IdsInv, NEW c \in Clients, SchedAppend(c)
    PROVE  /\ \A k \in 1..Len(instr) :
                instr'[k] = instr[k] /\ id'[instr'[k]] = id[instr[k]]
           /\ \A j \in 1..Len(arg[c]) : id'[instr'[Len(instr) + j]] = LastId + j
           /\ DOMAIN instr' = 1..(Len(instr) + Len(arg[c]))
           /\ LastId + Len(arg[c]) <= Cardinality(Scheduled')
<1>1. /\ instr \in Seq(Instrs) /\ arg[c] \in Seq(Instrs)
      /\ Len(instr) \in Nat /\ Len(arg[c]) \in Nat
      /\ DOMAIN instr = 1..Len(instr) /\ DOMAIN arg[c] = 1..Len(arg[c])
  BY DEF Typing, TypeOK
<1>2. /\ instr' = instr \o arg[c]
      /\ ToSet(instr) \cap ToSet(arg[c]) = {}
  BY SchedAppendFacts
<1>3. IsInjective(arg[c])
  BY DEF SchedAppend, Return, ListInv, ChainInv
<1>4. \A i \in Instrs :
        id'[i] = IF i \in ToSet(arg[c])
                 THEN (LastId + Position(arg[c], i)) % IdMod ELSE id[i]
  BY DEF SchedAppend, Numbered
<1>5. /\ LastId \in Nat
      /\ LastId <= Cardinality(Scheduled)
  BY LastIdIsLargest DEF Typing
<1>6. LastId + Len(arg[c]) <= Cardinality(Scheduled')
  BY <1>1, <1>5, AppendSchedules, ScheduledFinite
<1>7. LastId + Len(arg[c]) < IdMod
  <2>1. Cardinality(Scheduled') <= Cardinality(Instrs) /\ Cardinality(Scheduled') \in Nat
    <3>1. Scheduled' \in SUBSET Instrs
      BY DEF Scheduled
    <3> QED  BY <3>1, InstrsAssumption, FS_Subset, FS_CardinalityType
  <2> QED  BY <1>1, <1>5, <1>6, <2>1, ScheduledFinite, IdModAssumption DEF NoWrap
<1>8. ASSUME NEW k \in 1..Len(instr)
      PROVE  instr'[k] = instr[k] /\ id'[instr'[k]] = id[instr[k]]
  <2>1. instr'[k] = instr[k]
    BY <1>1, <1>2
  <2>2. instr[k] \in Instrs /\ instr[k] \in ToSet(instr)
    BY <1>1 DEF ToSet
  <2> QED  BY <1>2, <1>4, <2>1, <2>2
<1>9. ASSUME NEW j \in 1..Len(arg[c])
      PROVE  id'[instr'[Len(instr) + j]] = LastId + j
  <2>1. instr'[Len(instr) + j] = arg[c][j]
    BY <1>1, <1>2
  <2>2. arg[c][j] \in Instrs /\ arg[c][j] \in ToSet(arg[c])
    BY <1>1 DEF ToSet
  <2>3. Position(arg[c], arg[c][j]) = j
    BY <1>1, <1>3 DEF Position, IsInjective
  <2>4. LastId + j \in Nat /\ LastId + j < IdMod
    BY <1>1, <1>5, <1>7, IdModAssumption
  <2>5. (LastId + j) % IdMod = LastId + j
    BY <2>4, IdModAssumption
  <2> QED  BY <1>4, <2>1, <2>2, <2>3, <2>5
<1>10. DOMAIN instr' = 1..(Len(instr) + Len(arg[c]))
  BY <1>1, <1>2
<1> QED  BY <1>6, <1>8, <1>9, <1>10

LEMMA IdsSchedAppend ==
    ASSUME NoWrap, Typing, ListInv, IdsInv, NEW c \in Clients, SchedAppend(c)
    PROVE  IdsInv'
<1> DEFINE n == Len(instr)
           m == Len(arg[c])
<1>1. n \in Nat /\ m \in Nat /\ DOMAIN instr = 1..n
  BY DEF Typing, TypeOK
<1>2. /\ \A k \in 1..n : id'[instr'[k]] = id[instr[k]]
      /\ \A j \in 1..m : id'[instr'[n + j]] = LastId + j
      /\ DOMAIN instr' = 1..(n + m)
      /\ LastId + m <= Cardinality(Scheduled')
  BY AppendNumbers
<1>3. /\ LastId \in Nat
      /\ \A k \in 1..n : id[instr[k]] \in Nat /\ id[instr[k]] <= LastId
  BY <1>1, LastIdIsLargest DEF Typing
<1>4. Cardinality(Scheduled') = Cardinality(Scheduled) + m
  BY AppendSchedules
<1>5. Cardinality(Scheduled') \in Nat
  BY <1>1, <1>4, ScheduledFinite
<1> HIDE DEF n, m
<1>6. ASSUME NEW k \in 1..(n + m)
      PROVE  \/ k \in 1..n /\ id'[instr'[k]] = id[instr[k]]
             \/ k - n \in 1..m /\ id'[instr'[k]] = LastId + (k - n)
  <2>1. CASE k <= n
    BY <1>1, <1>2, <2>1
  <2>2. CASE k > n
    <3>1. k - n \in 1..m /\ n + (k - n) = k
      BY <1>1, <2>2
    <3> QED  BY <1>2, <3>1
  <2> QED  BY <1>1, <2>1, <2>2
<1>7. ASSUME NEW k \in 1..(n + m)
      PROVE  id'[instr'[k]] <= Cardinality(Scheduled')
  BY <1>1, <1>2, <1>3, <1>5, <1>6
<1>8. ASSUME NEW j \in 1..(n + m), NEW k \in 1..(n + m), j < k
      PROVE  id'[instr'[j]] < id'[instr'[k]]
  <2>1. CASE k \in 1..n
    <3>1. j \in 1..n
      BY <1>1, <1>8, <2>1
    <3>2. id[instr[j]] < id[instr[k]]
      BY <1>1, <1>8, <2>1, <3>1 DEF IdsInv, IdsIncrease
    <3> QED  BY <1>2, <2>1, <3>1, <3>2
  <2>2. CASE k \notin 1..n
    <3>1. id'[instr'[k]] = LastId + (k - n) /\ k - n \in 1..m
      BY <1>6, <2>2
    <3> QED  BY <1>1, <1>3, <1>6, <1>8, <3>1
  <2> QED  BY <2>1, <2>2
<1> QED  BY <1>2, <1>7, <1>8 DEF IdsInv, IdsIncrease, BoundedIds

\* Taking one node out of the list leaves the ids of the others.
LEMMA IdsUnlink ==
    ASSUME Typing, ListInv, IdsInv, NEW k \in 1..Len(instr),
           Len(instr') = Len(instr) - 1, instr' \in Seq(Instrs),
           \A j \in 1..(Len(instr) - 1) :
             instr'[j] = IF j < k THEN instr[j] ELSE instr[j + 1],
           alloc' = [alloc EXCEPT ![instr[k]] = "freed"],
           UNCHANGED id
    PROVE  IdsInv'
<1>1. /\ instr \in Seq(Instrs) /\ Len(instr) \in Nat /\ DOMAIN instr = 1..Len(instr)
      /\ instr[k] \in Instrs /\ instr[k] \in ToSet(instr)
  <2>1. instr \in Seq(Instrs)
    BY DEF Typing, TypeOK
  <2>2. Len(instr) \in Nat /\ DOMAIN instr = 1..Len(instr)
    BY <2>1
  <2> QED  BY <2>1, <2>2 DEF ToSet
<1>2. alloc[instr[k]] = "list"
  BY <1>1 DEF ListInv, ListOwnsMemory
<1>3. Scheduled' = Scheduled
  BY <1>1, <1>2 DEF Scheduled, Typing, TypeOK
<1>4. DOMAIN instr' = 1..(Len(instr) - 1)
  BY <1>1
<1> DEFINE at(j) == IF j < k THEN j ELSE j + 1
<1>5. ASSUME NEW j \in 1..(Len(instr) - 1)
      PROVE  at(j) \in 1..Len(instr) /\ id'[instr'[j]] = id[instr[at(j)]]
  <2>1. at(j) \in 1..Len(instr)
    BY <1>1, <1>5
  <2>2. instr'[j] = instr[at(j)]
    BY <1>5
  <2> QED  BY <2>1, <2>2
<1>6. ASSUME NEW i \in 1..(Len(instr) - 1), NEW j \in 1..(Len(instr) - 1), i < j
      PROVE  id'[instr'[i]] < id'[instr'[j]]
  <2>1. at(i) < at(j)
    BY <1>1, <1>6
  <2>2. id[instr[at(i)]] < id[instr[at(j)]]
    BY <1>1, <1>5, <2>1 DEF IdsInv, IdsIncrease
  <2> QED  BY <1>5, <2>2
<1>7. ASSUME NEW j \in 1..(Len(instr) - 1)
      PROVE  id'[instr'[j]] <= Cardinality(Scheduled')
  BY <1>1, <1>3, <1>5 DEF IdsInv, BoundedIds
<1> QED  BY <1>4, <1>6, <1>7 DEF IdsInv, IdsIncrease, BoundedIds

\* A step that leaves the list, the ids and who was scheduled alone.
LEMMA IdsQuiet ==
    ASSUME IdsInv, UNCHANGED <<instr, id>>, Scheduled' = Scheduled
    PROVE  IdsInv'
BY DEF IdsInv, IdsIncrease, BoundedIds

LEMMA IdsNext ==
    ASSUME NoReschedule, NoWrap, Typing, ListInv, IdsInv, [Next]_vars
    PROVE  IdsInv'
<1> USE DEF owner, status, flags, list, fields, clients, thread, history
<1>1. ASSUME NEW c \in Clients, NEW chain \in Chains, SchedCall(c, chain)
      PROVE  IdsInv'
  <2>1. /\ \A i \in ToSet(chain) : alloc[i] = "fresh"
        /\ alloc' = Owned(chain, "chain")
        /\ UNCHANGED <<instr, id>>
    BY <1>1 DEF SchedCall, NoReschedule
  <2>2. Scheduled' = Scheduled
    BY <2>1 DEF Scheduled, Owned
  <2> QED  BY <2>1, <2>2, IdsQuiet
<1>2. ASSUME NEW c \in Clients, SchedAppend(c)  PROVE IdsInv'
  BY <1>2, IdsSchedAppend
<1>3. ASSUME NEW c \in Clients, CancelFound(c)  PROVE IdsInv'
  <2>1. PICK k \in 1..Len(instr) :
          /\ instr' = RemoveAt(instr, k) /\ instr' \in Seq(Instrs)
          /\ alloc' = [alloc EXCEPT ![instr[k]] = "freed"]
    BY <1>3, CancelFoundFacts
  <2>2. instr \in Seq(Instrs)
    BY DEF Typing, TypeOK
  <2>3. /\ Len(instr') = Len(instr) - 1
        /\ \A j \in 1..(Len(instr) - 1) :
             instr'[j] = IF j < k THEN instr[j] ELSE instr[j + 1]
    BY <2>1, <2>2, RemoveAtIsSeq
  <2>4. UNCHANGED id
    BY <1>3 DEF CancelFound
  <2> QED  BY <2>1, <2>3, <2>4, IdsUnlink
<1>4. CASE RunNext
  <2>1. /\ instr # <<>> /\ 1 \in 1..Len(instr)
        /\ instr' = Tail(instr) /\ instr' \in Seq(Instrs)
        /\ alloc' = [alloc EXCEPT ![instr[1]] = "freed"]
    BY <1>4, RunNextFacts
  <2>2. instr \in Seq(Instrs)
    BY DEF Typing, TypeOK
  <2>3. /\ Len(instr') = Len(instr) - 1
        /\ \A j \in 1..(Len(instr) - 1) : instr'[j] = instr[j + 1]
    BY <2>1, <2>2, HeadTailProperties
  <2>4. UNCHANGED id
    BY <1>4 DEF RunNext
  <2>5. \A j \in 1..(Len(instr) - 1) :
          instr'[j] = IF j < 1 THEN instr[j] ELSE instr[j + 1]
    BY <2>3
  <2> QED  BY <2>1, <2>3, <2>4, <2>5, IdsUnlink
<1>5. ASSUME UNCHANGED <<instr, id, alloc>>  PROVE IdsInv'
  BY <1>5, IdsQuiet DEF Scheduled
<1>6. CASE Thread /\ ~RunNext
  <2>1. UNCHANGED <<instr, id, alloc>>
    BY <1>6 DEF Thread, RunBegin, RunFlags, RunIdle, RunTake, RunExec, RunExecFails,
       RunDisable, RunDisableFails, RunStop
  <2> QED  BY <1>5, <2>1
<1>7. ASSUME NEW c \in Clients, Client(c)  PROVE IdsInv'
  <2>1. CASE \/ Start(c) \/ StartFails(c) \/ (\E i \in Instrs : CancelCall(c, i))
             \/ Stop(c) \/ Wait(c) \/ Join(c) \/ FreeCheck(c) \/ FreeRefused(c)
             \/ SchedReject(c) \/ CancelMissed(c) \/ FreeBody(c)
    <3>1. UNCHANGED <<instr, id, alloc>>
      BY <2>1 DEF Start, StartFails, CancelCall, Stop, Wait, Join, FreeCheck,
         FreeRefused, SchedReject, CancelMissed, FreeBody
    <3> QED  BY <1>5, <3>1
  <2> QED  BY <1>1, <1>2, <1>3, <1>7, <2>1 DEF Client, Finish
<1>8. CASE UNCHANGED vars
  BY <1>5, <1>8 DEF vars
<1> QED  BY <1>4, <1>6, <1>7, <1>8 DEF Next

(***************************************************************************)
(* As long as the ids do not wrap, they increase along the list whatever   *)
(* was scheduled, executed and cancelled: no two pending instructions have *)
(* the same id.                                                            *)
(***************************************************************************)
THEOREM IdsGrow == NoReschedule /\ NoWrap => (Spec => []IdsIncrease)
<1> SUFFICES ASSUME NoReschedule, NoWrap  PROVE Spec => []IdsIncrease
  OBVIOUS
<1>1. Init => IdsInv
  BY DEF Init, IdsInv, IdsIncrease, BoundedIds
<1>2. IdsInv => IdsIncrease
  BY DEF IdsInv
<1>3. Typing /\ ListInv /\ IdsInv /\ [Next]_vars => IdsInv'
  BY IdsNext
<1> QED  BY <1>1, <1>2, <1>3, ListInvHolds, TypingHolds, PTL DEF Spec

-----------------------------------------------------------------------------
(***************************************************************************)
(* Waiting.  What the first wait_controller found is in the list or freed, *)
(* and a thread that leaves for no other reason leaves none of it behind.  *)
(***************************************************************************)
WaitInv ==
    /\ wait => wait_flag
    /\ promised # {} => wait_flag
    /\ \A i \in promised : alloc[i] \in {"list", "freed"}
    /\ tpc \in {"disable", "stop", "ended"} =>
         \/ exit_flag
         \/ "exec" \in failed
         \/ wait_flag /\ \A i \in promised : alloc[i] = "freed"

\* A step that leaves the requests alone and sends no instruction back.
LEMMA WaitInvQuiet ==
    ASSUME WaitInv,
           UNCHANGED <<wait, flags, promised, tpc, failed>>,
           \A i \in promised : alloc'[i] \in {alloc[i], "freed"}
    PROVE  WaitInv'
BY DEF WaitInv, flags

LEMMA WaitInvThread == ASSUME Typing, ListInv, WaitInv, Thread  PROVE WaitInv'
<1> USE DEF owner, status, flags, list, fields, clients, thread, history
<1>1. CASE RunIdle
  <2>1. ToSet(instr) = {}
    BY <1>1 DEF RunIdle, ToSet
  <2>2. \A i \in promised : alloc[i] = "freed"
    BY <2>1 DEF ListInv, ListOwnsMemory, WaitInv, Typing, TypeOK
  <2> QED  BY <1>1, <2>2 DEF RunIdle, Drained, WaitInv
<1>2. CASE RunNext
  <2>1. tpc' = "flags" /\ UNCHANGED <<wait, wait_flag, promised>>
    BY <1>2 DEF RunNext
  <2>2. \A i \in promised : alloc'[i] \in {alloc[i], "freed"}
    BY <1>2 DEF RunNext, Typing, TypeOK
  <2> QED  BY <2>1, <2>2 DEF WaitInv
<1>3. CASE RunBegin \/ RunFlags \/ RunTake \/ RunExec \/ RunExecFails
  BY <1>3 DEF RunBegin, RunFlags, RunTake, RunExec, RunExecFails, Leaves, WaitInv
<1>4. CASE RunDisable \/ RunDisableFails \/ RunStop
  BY <1>4 DEF RunDisable, RunDisableFails, RunStop, WaitInv
<1> QED  BY <1>1, <1>2, <1>3, <1>4 DEF Thread

LEMMA WaitInvClient ==
    ASSUME NoReschedule, Typing, ListInv, WaitInv, NEW c \in Clients, Client(c)
    PROVE  WaitInv'
<1> USE DEF owner, status, flags, list, fields, clients, thread, history
<1>1. CASE Start(c)
  BY <1>1 DEF Start, WaitInv
<1>2. CASE \E chain \in Chains : SchedCall(c, chain)
  <2>1. PICK chain \in Chains : SchedCall(c, chain)
    BY <1>2
  <2>2. \A i \in ToSet(chain) : alloc[i] = "fresh"
    BY <2>1 DEF SchedCall, NoReschedule
  <2>3. alloc' = Owned(chain, "chain")
    BY <2>1 DEF SchedCall, NoReschedule
  <2>4. \A i \in promised : alloc'[i] = alloc[i]
    BY <2>2, <2>3 DEF Owned, WaitInv, Typing, TypeOK
  <2>5. UNCHANGED <<wait, flags, promised, tpc, failed>>
    BY <2>1 DEF SchedCall
  <2> QED  BY <2>4, <2>5, WaitInvQuiet
<1>3. CASE SchedAppend(c)
  <2>1. \A i \in ToSet(arg[c]) : alloc[i] = "chain"
    BY <1>3, SchedAppendFacts
  <2>2. \A i \in promised : alloc'[i] = alloc[i]
    BY <1>3, <2>1 DEF SchedAppend, Owned, WaitInv, Typing, TypeOK
  <2>3. UNCHANGED <<wait, flags, promised, tpc, failed>>
    BY <1>3 DEF SchedAppend
  <2> QED  BY <2>2, <2>3, WaitInvQuiet
<1>4. CASE CancelFound(c)
  <2>1. \A i \in promised : alloc'[i] \in {alloc[i], "freed"}
    BY <1>4, CancelFoundFacts DEF Typing, TypeOK
  <2>2. UNCHANGED <<wait, flags, promised, tpc, failed>>
    BY <1>4 DEF CancelFound
  <2> QED  BY <2>1, <2>2, WaitInvQuiet
<1>5. CASE Stop(c)
  BY <1>5 DEF Stop, WaitInv
<1>6. CASE Wait(c)
  <2>1. wait_flag' = TRUE /\ UNCHANGED <<wait, exit_flag, alloc, tpc, failed>>
    BY <1>6 DEF Wait
  <2>2. CASE wait_flag
    BY <1>6, <2>1, <2>2 DEF Wait, WaitInv
  <2>3. CASE ~wait_flag
    <3>1. promised' = ToSet(instr)
      BY <1>6, <2>3 DEF Wait
    <3>2. \A i \in promised' : alloc[i] = "list"
      BY <3>1 DEF ListInv, ListOwnsMemory
    <3> QED  BY <2>1, <2>3, <3>2 DEF WaitInv
  <2> QED  BY <2>2, <2>3
<1>7. CASE StartFails(c)
  BY <1>7 DEF StartFails, WaitInv
<1>8. CASE \/ \E i \in Instrs : CancelCall(c, i)
           \/ Join(c) \/ FreeCheck(c) \/ FreeRefused(c)
           \/ SchedReject(c) \/ CancelMissed(c) \/ FreeBody(c)
  <2>1. UNCHANGED <<wait, flags, promised, tpc, failed, alloc>>
    BY <1>8 DEF CancelCall, Join, FreeCheck, FreeRefused, SchedReject, CancelMissed, FreeBody
  <2> QED  BY <2>1, WaitInvQuiet
<1> QED
  BY <1>1, <1>2, <1>3, <1>4, <1>5, <1>6, <1>7, <1>8 DEF Client, Finish

(***************************************************************************)
(* A controller that was told to wait, and that nothing else ended, has    *)
(* executed or cancelled what was pending then (libmkc.c lines 82-95).     *)
(***************************************************************************)
THEOREM WaitIsKept == NoReschedule => (Spec => []WaitKeepsPending)
<1> SUFFICES ASSUME NoReschedule  PROVE Spec => []WaitKeepsPending
  OBVIOUS
<1>1. Init => WaitInv
  BY DEF Init, WaitInv
<1>2. Typing /\ ListInv /\ WaitInv /\ [Next]_vars => WaitInv'
  <2> SUFFICES ASSUME Typing, ListInv, WaitInv, [Next]_vars  PROVE WaitInv'
    OBVIOUS
  <2>1. CASE UNCHANGED vars
    BY <2>1, WaitInvQuiet DEF vars, fields, list, thread, history
  <2> QED  BY <2>1, WaitInvThread, WaitInvClient DEF Next
<1>3. ListInv /\ WaitInv => WaitKeepsPending
  BY DEF ListInv, StateInv, WaitInv, WaitKeepsPending
<1> QED  BY <1>1, <1>2, <1>3, ListInvHolds, TypingHolds, PTL DEF Spec

-----------------------------------------------------------------------------
(***************************************************************************)
(* Refinement of InstructionQueue.                                         *)
(***************************************************************************)
AbstractStep == [Queue!QueueNext]_(Queue!queueVars)

LEMMA QueueInitMaps == Init => Queue!QueueInit
BY DEF Init, Queue!QueueInit, Pending

LEMMA AppendIsSubmit ==
    ASSUME Typing, ListInv, NEW c \in Clients, SchedAppend(c)
    PROVE  Queue!Submit
<1>1. Pending = instr /\ Pending' = instr'
  BY SchedAppendFacts DEF Pending
<1>2. /\ instr \in Seq(Instrs) /\ arg[c] \in Seq(Instrs) /\ arg[c] # <<>>
      /\ instr' = instr \o arg[c] /\ instr' \in Seq(Instrs)
      /\ UNCHANGED <<done, state>>
  BY SchedAppendFacts DEF Typing, TypeOK
<1>3. IsStrictPrefix(instr, instr')
  <2>1. /\ Len(instr') = Len(instr) + Len(arg[c]) /\ Len(instr) \in Nat
        /\ Len(arg[c]) \in Nat /\ Len(arg[c]) > 0
        /\ \A i \in 1..Len(instr) : instr'[i] = instr[i]
    BY <1>2, ConcatProperties, EmptySeq
  <2>2. SubSeq(instr, 1, Len(instr)) = instr
    BY <1>2, SubSeqFull
  <2>3. /\ SubSeq(instr', 1, Len(instr)) \in Seq(Instrs)
        /\ Len(SubSeq(instr', 1, Len(instr))) = Len(instr)
        /\ \A i \in 1..Len(instr) : SubSeq(instr', 1, Len(instr))[i] = instr[i]
    <3>1. \A i \in 1..Len(instr) : instr'[i] \in Instrs
      BY <1>2, <2>1
    <3>2. 1 \in Int /\ Len(instr) \in Int
      BY <2>1
    <3> QED  BY <2>1, <3>1, <3>2, SubSeqProperties
  <2>4. SubSeq(instr', 1, Len(instr)) = instr
    BY <1>2, <2>3, SeqEqual
  <2>5. instr # instr'
    BY <2>1
  <2> QED  BY <2>1, <2>2, <2>4, <2>5 DEF IsStrictPrefix, IsPrefix
<1>4. IsInjective(done \o instr')
  <2>1. done \in Seq(Instrs) /\ IsInjective(done)
    BY DEF Typing, TypeOK, ListInv, DoneInv
  <2>2. \A i \in ToSet(done) : alloc[i] = "freed"
    BY SchedAppendFacts DEF ListInv, DoneInv
  <2>3. \A i \in ToSet(instr) : alloc[i] = "list"
    BY DEF ListInv, ListOwnsMemory
  <2>4. ToSet(done) \cap ToSet(instr') = {}
    BY <2>2, <2>3, SchedAppendFacts
  <2>5. IsInjective(instr')
    BY SchedAppendFacts
  <2> QED  BY <1>2, <2>1, <2>4, <2>5, ConcatInjective
<1> QED
  BY <1>1, <1>2, <1>3, <1>4 DEF Queue!Submit, Queue!IsStrictPrefix, Queue!IsPrefix,
     Queue!IsInjective, IsStrictPrefix, IsPrefix, IsInjective

LEMMA CancelIsWithdraw ==
    ASSUME Typing, ListInv, NEW c \in Clients, CancelFound(c)
    PROVE  Queue!Withdraw
<1>1. PICK k \in 1..Len(instr) :
        /\ instr' = RemoveAt(instr, k)
        /\ UNCHANGED <<done, tpc, state>>
        /\ tpc # "sleep"
  BY CancelFoundFacts
<1>2. Pending = instr /\ Pending' = instr'
  BY <1>1 DEF Pending
<1> QED  BY <1>1, <1>2 DEF Queue!Withdraw, Queue!RemoveAt, RemoveAt

LEMMA ExecIsExecute ==
    ASSUME Typing, ListInv, RunExec
    PROVE  Queue!Execute
<1>1. Pending = instr /\ Pending' = Tail(instr)
  BY RunExecFacts DEF Pending
<1>2. state = "ACTIVE"
  BY RunExecFacts DEF Typing, TypeOK, ListInv, StateInv
<1> QED  BY <1>1, <1>2, RunExecFacts DEF Queue!Execute

LEMMA StepMaps ==
    ASSUME NoReschedule, Typing, ListInv, [Next]_vars
    PROVE  AbstractStep
<1> USE DEF owner, status, flags, list, fields, clients, thread, history
<1>1. ASSUME UNCHANGED <<instr, done, state>>,
             (tpc # "sleep" /\ tpc' # "sleep") \/ tpc' = tpc
      PROVE  AbstractStep
  BY <1>1 DEF AbstractStep, Queue!queueVars, Pending
<1>2. CASE RunExec
  BY <1>2, ExecIsExecute DEF AbstractStep, Queue!QueueNext
<1>3. CASE RunNext
  <2>1. Pending = Tail(instr) /\ Pending' = Tail(instr) /\ UNCHANGED <<done, state>>
    BY <1>3, RunNextFacts DEF Pending
  <2> QED  BY <2>1 DEF AbstractStep, Queue!queueVars
<1>4. CASE RunBegin \/ RunStop
  <2>1. Pending' = Pending /\ UNCHANGED done
    BY <1>4 DEF RunBegin, RunStop, Pending
  <2>2. <<state, state'>> \in {<<"PRESTART", "ACTIVE">>, <<"ACTIVE", "STOPPED">>}
    BY <1>4 DEF RunBegin, RunStop, Typing, TypeOK, ListInv, StateInv
  <2> QED  BY <2>1, <2>2 DEF AbstractStep, Queue!QueueNext, Queue!Advance
<1>5. CASE RunFlags \/ RunIdle \/ RunTake \/ RunExecFails \/ RunDisable \/ RunDisableFails
  BY <1>1, <1>5 DEF RunFlags, RunIdle, RunTake, RunExecFails, RunDisable, RunDisableFails
<1>6. ASSUME NEW c \in Clients, Client(c)  PROVE AbstractStep
  <2>1. CASE SchedAppend(c)
    BY <2>1, AppendIsSubmit DEF AbstractStep, Queue!QueueNext
  <2>2. CASE CancelFound(c)
    BY <2>2, CancelIsWithdraw DEF AbstractStep, Queue!QueueNext
  <2>3. CASE Start(c)
    <3>1. tpc = "none"
      BY <2>3 DEF Start, Typing, LockInv
    <3> QED  BY <1>1, <2>3, <3>1 DEF Start
  <2>4. CASE \/ StartFails(c) \/ Stop(c) \/ Wait(c) \/ Join(c)
             \/ FreeCheck(c) \/ FreeRefused(c) \/ FreeBody(c)
             \/ SchedReject(c) \/ CancelMissed(c)
             \/ (\E chain \in Chains : SchedCall(c, chain))
             \/ (\E i \in Instrs : CancelCall(c, i))
    BY <1>1, <2>4 DEF StartFails, Stop, Wait, Join, FreeCheck, FreeRefused, FreeBody,
       SchedReject, CancelMissed, SchedCall, CancelCall
  <2> QED  BY <1>6, <2>1, <2>2, <2>3, <2>4 DEF Client, Finish
<1>7. CASE UNCHANGED vars
  BY <1>1, <1>7 DEF vars
<1> QED  BY <1>2, <1>3, <1>4, <1>5, <1>6, <1>7 DEF Next, Thread

(***************************************************************************)
(* The controller implements the abstract queue: instructions are executed *)
(* first in, first out, once each, only while the controller is active,    *)
(* and never after a cancel, for any number of clients and instructions    *)
(* and with every failure the code handles.                                *)
(***************************************************************************)
THEOREM ImplementsQueue == NoReschedule => (Spec => QueueSpec)
<1> SUFFICES ASSUME NoReschedule  PROVE Spec => QueueSpec
  OBVIOUS
<1>1. Typing /\ ListInv /\ [Next]_vars => AbstractStep
  BY StepMaps
<1> QED
  BY <1>1, QueueInitMaps, TypingHolds, ListInvHolds, PTL
     DEF Spec, QueueSpec, Queue!QueueSpec, AbstractStep
=============================================================================
