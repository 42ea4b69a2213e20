-------------------------- MODULE ThreadListProofs --------------------------
(***************************************************************************)
(* What the two programs of threads on a critical section keep for any set *)
(* of their threads. src/Thread_list, for any number of pushes:            *)
(* PopThread's unlocked test, the saved file, the deletion of the critical *)
(* section. src/Thread_Basic, for any number of turns: both counters are   *)
(* exact, although one is tested before it is changed and the other is     *)
(* read and written in two steps.                                          *)
(***************************************************************************)
EXTENDS ThreadList, SequenceTheorems, TLAPS

\* Where each thread can be.
Labels(t) ==
    IF t = Main THEN {"keys", "set", "join", "joinpush", "done"}
    ELSE IF t = Printer THEN {"top", "enter", "walk", "done"}
    ELSE IF t = Pop THEN {"top", "test", "enter", "pop", "done"}
    ELSE IF t = Save THEN {"top", "wait", "open", "enter", "walk", "close", "done"}
    ELSE {"top", "enter", "push", "done"}

Inside == {"walk", "pop", "push"}

RoleInv == \A t \in Threads : pc[t] \in Labels(t)

\* Who is inside the critical section is who owns it.
LockInv == \A t \in Threads : pc[t] \in Inside <=> owner = t

\* SaveThread enters with the empty file it opened, and a walk begins at the front.
WalkInv ==
    /\ SavedIsSnapshot
    /\ pc[Save] = "enter" => file = <<>> \/ crashed
    /\ \A t \in Walkers : pc[t] # "walk" => iter[t] = 0

\* main() is past a join when the threads it joins are done.
JoinInv ==
    /\ pc[Main] \in {"joinpush", "done"} => \A t \in Waited : pc[t] = "done"
    /\ pc[Main] = "done" => \A p \in Pushers : pc[p] = "done"
    /\ deleted => pc[Main] = "done"

SafeInv == TypeOK /\ RoleInv /\ LockInv /\ PopMeetsElement
Inv == SafeInv /\ WalkInv /\ JoinInv

USE PushersAssumption, BoundAssumption
    DEF PushersAssumption, BoundAssumption, Printer, Pop, Save, Main, None

LEMMA InitInv == Init => Inv
<1> SUFFICES ASSUME Init PROVE Inv
  OBVIOUS
<1> USE DEF Init, Threads, Waited, Walkers
<1>1. TypeOK
  <2>1. <<>> \in Seq(Nat)
    OBVIOUS
  <2>2. lstData \in Seq(Nat) /\ file \in Seq(Nat) /\ seen \in [Walkers -> Seq(Nat)]
    BY <2>1
  <2>3. iter \in [Walkers -> Nat] /\ iData \in [Pushers -> Nat] /\ begun \in Nat
    OBVIOUS
  <2> QED
    BY <2>2, <2>3 DEF TypeOK
<1>2. RoleInv /\ LockInv /\ PopMeetsElement
  BY DEF RoleInv, LockInv, PopMeetsElement, Labels, Inside
<1>3. WalkInv
  BY DEF WalkInv, SavedIsSnapshot
<1>4. JoinInv
  BY DEF JoinInv
<1> QED
  BY <1>1, <1>2, <1>3, <1>4 DEF Inv, SafeInv

LEMMA SafeStep == SafeInv /\ [Next]_vars => SafeInv'
<1> SUFFICES ASSUME SafeInv, [Next]_vars PROVE SafeInv'
  OBVIOUS
<1> USE DEF SafeInv, TypeOK, RoleInv, LockInv, PopMeetsElement, Labels, Inside,
        Threads, Waited, Walkers, Goto, Moves, walk, keys, push, ends
<1>1. CASE PrintThread
  <2>1. CASE Loop(Printer, "enter")
    BY <2>1 DEF Loop
  <2>2. CASE Begin(Printer)
    BY <2>2 DEF Begin, EnterCriticalSection
  <2>3. CASE Pass(Printer) /\ UNCHANGED file
    BY <2>3 DEF Pass
  <2>4. CASE Leave(Printer, "top") /\ Forget(Printer)
    BY <2>4 DEF Leave, Forget
  <2> QED
    BY <1>1, <2>1, <2>2, <2>3, <2>4 DEF PrintThread
<1>2. CASE PopThread
  <2>1. CASE Loop(Pop, "test")
    BY <2>1 DEF Loop
  <2>2. CASE PopTest
    BY <2>2 DEF PopTest
  <2>3. CASE PopEnter
    BY <2>3 DEF PopEnter, EnterCriticalSection
  <2>4. CASE PopFront
    <3>1. lstData # <<>> /\ lstData \in Seq(Nat)
      BY <2>4 DEF PopFront
    <3>2. Tail(lstData) \in Seq(Nat)
      BY <3>1
    <3> QED
      BY <2>4, <3>2 DEF PopFront
  <2> QED
    BY <1>2, <2>1, <2>2, <2>3, <2>4 DEF PopThread
<1>3. ASSUME NEW p \in Pushers, PushThread(p) PROVE SafeInv'
  <2>1. CASE PushBegin(p)
    <3>1. begun' \in Nat /\ iData' \in [Pushers -> Nat]
      BY <2>1 DEF PushBegin
    <3>2. \E l \in {"enter", "done"} : Goto(p, l) /\ pc[p] = "top"
      BY <2>1 DEF PushBegin
    <3> QED
      BY <2>1, <3>1, <3>2 DEF PushBegin
  <2>2. CASE PushEnter(p)
    BY <2>2 DEF PushEnter, EnterCriticalSection
  <2>3. CASE PushFront(p)
    <3>1. <<iData[p]>> \o lstData \in Seq(Nat) /\ <<iData[p]>> \o lstData # <<>>
      <4>1. <<iData[p]>> \in Seq(Nat) /\ Len(<<iData[p]>>) = 1 /\ lstData \in Seq(Nat)
        OBVIOUS
      <4>2. Len(<<iData[p]>> \o lstData) = 1 + Len(lstData)
        BY <4>1, ConcatProperties
      <4> QED
        BY <4>1, <4>2, ConcatProperties, LenProperties, EmptySeq
    <3> QED
      BY <2>3, <3>1 DEF PushFront
  <2> QED
    BY <1>3, <2>1, <2>2, <2>3 DEF PushThread
<1>4. CASE SaveThread
  <2>1. CASE Loop(Save, "wait")
    BY <2>1 DEF Loop
  <2>2. CASE SaveWait
    BY <2>2 DEF SaveWait
  <2>3. CASE SaveOpen
    <3>1. CASE file' = <<>> /\ UNCHANGED crashed
      BY <2>3, <3>1 DEF SaveOpen
    <3>2. CASE crashed' = TRUE /\ UNCHANGED file
      BY <2>3, <3>2 DEF SaveOpen
    <3> QED
      BY <2>3, <3>1, <3>2 DEF SaveOpen
  <2>4. CASE Begin(Save)
    BY <2>4 DEF Begin, EnterCriticalSection
  <2>5. CASE SaveWrite
    <3>1. lstData[iter[Save] + 1] \in Nat
      BY <2>5, LenProperties DEF SaveWrite, Pass
    <3>2. file' \in Seq(Nat)
      BY <2>5, <3>1 DEF SaveWrite
    <3> QED
      BY <2>5, <3>2 DEF SaveWrite, Pass
  <2>6. CASE Leave(Save, "close") /\ UNCHANGED seen
    BY <2>6 DEF Leave
  <2>7. CASE SaveClose
    BY <2>7 DEF SaveClose, Forget
  <2> QED
    BY <1>4, <2>1, <2>2, <2>3, <2>4, <2>5, <2>6, <2>7 DEF SaveThread
<1>5. CASE KeyS
  BY <1>5 DEF KeyS
<1>6. CASE KeyQ
  BY <1>6 DEF KeyQ
<1>7. CASE MainStep
  BY <1>7 DEF MainStep, MainSet, MainJoin
<1>8. CASE UNCHANGED vars
  BY <1>8 DEF vars
<1> QED
  BY <1>1, <1>2, <1>3, <1>4, <1>5, <1>6, <1>7, <1>8 DEF Next

LEMMA WalkStep == SafeInv /\ WalkInv /\ [Next]_vars => WalkInv'
<1> SUFFICES ASSUME SafeInv, WalkInv, [Next]_vars PROVE WalkInv'
  OBVIOUS
<1> USE DEF SafeInv, TypeOK, RoleInv, LockInv, PopMeetsElement, Labels, Inside, WalkInv,
        SavedIsSnapshot, Copied, Threads, Waited, Walkers, Goto, Moves, walk, keys, push, ends
<1>1. CASE PrintThread
  <2>1. CASE Loop(Printer, "enter")
    BY <2>1 DEF Loop
  <2>2. CASE Begin(Printer)
    BY <2>2 DEF Begin, EnterCriticalSection
  <2>3. CASE Pass(Printer) /\ UNCHANGED file
    BY <2>3 DEF Pass
  <2>4. CASE Leave(Printer, "top") /\ Forget(Printer)
    BY <2>4 DEF Leave, Forget
  <2> QED
    BY <1>1, <2>1, <2>2, <2>3, <2>4 DEF PrintThread
<1>2. CASE PopThread
  <2>1. CASE Loop(Pop, "test")
    BY <2>1 DEF Loop
  <2>2. CASE PopTest
    BY <2>2 DEF PopTest
  <2>3. CASE PopEnter
    BY <2>3 DEF PopEnter, EnterCriticalSection
  <2>4. CASE PopFront
    <3>1. \A t \in Walkers : pc[t] # "walk" /\ pc'[t] = pc[t]
      BY <2>4 DEF PopFront
    <3> QED
      BY <2>4, <3>1 DEF PopFront
  <2> QED
    BY <1>2, <2>1, <2>2, <2>3, <2>4 DEF PopThread
<1>3. ASSUME NEW p \in Pushers, PushThread(p) PROVE WalkInv'
  <2>1. CASE PushBegin(p)
    <3>1. \A t \in Walkers : pc'[t] = pc[t]
      BY <2>1 DEF PushBegin
    <3> QED
      BY <2>1, <3>1 DEF PushBegin
  <2>2. CASE PushEnter(p)
    BY <2>2 DEF PushEnter, EnterCriticalSection
  <2>3. CASE PushFront(p)
    <3>1. \A t \in Walkers : pc[t] # "walk" /\ pc'[t] = pc[t]
      BY <2>3 DEF PushFront
    <3> QED
      BY <2>3, <3>1 DEF PushFront
  <2> QED
    BY <1>3, <2>1, <2>2, <2>3 DEF PushThread
<1>4. ASSUME ~crashed, SaveThread PROVE WalkInv'
  <2>1. CASE Loop(Save, "wait")
    BY <2>1 DEF Loop
  <2>2. CASE SaveWait
    BY <2>2 DEF SaveWait
  <2>3. CASE SaveOpen
    <3>1. CASE file' = <<>>
      BY <2>3, <3>1 DEF SaveOpen
    <3>2. CASE UNCHANGED file
      <4>1. pc' = [pc EXCEPT ![Save] = "enter"]
        BY <2>3 DEF SaveOpen
      <4> QED
        BY <2>3, <3>2, <4>1 DEF SaveOpen
    <3> QED
      BY <2>3, <3>1, <3>2 DEF SaveOpen
  <2>4. CASE Begin(Save)
    BY <1>4, <2>4 DEF Begin, EnterCriticalSection
  <2>5. CASE SaveWrite
    <3>1. pc[Save] = "walk" /\ lstData = seen[Save] /\ Copied(iter[Save])
      BY <2>5 DEF SaveWrite, Pass
    <3>2. lstData[iter[Save] + 1] \in Nat
      BY <2>5, LenProperties DEF SaveWrite, Pass
    <3>3. Copied(iter[Save])'
      BY <2>5, <3>1, <3>2, AppendProperties DEF SaveWrite, Pass
    <3> QED
      BY <2>5, <3>1, <3>3 DEF SaveWrite, Pass
  <2>6. CASE Leave(Save, "close") /\ UNCHANGED seen
    <3>1. Len(file) = Len(seen[Save]) /\ \A k \in 1..Len(file) : file[k] = seen[Save][k]
      BY <2>6 DEF Leave
    <3>2. file = seen[Save]
      BY <3>1, SeqEqual
    <3> QED
      BY <2>6, <3>2 DEF Leave
  <2>7. CASE SaveClose
    BY <2>7 DEF SaveClose, Forget
  <2> QED
    BY <1>4, <2>1, <2>2, <2>3, <2>4, <2>5, <2>6, <2>7 DEF SaveThread
<1>5. CASE KeyS
  BY <1>5 DEF KeyS
<1>6. CASE KeyQ
  BY <1>6 DEF KeyQ
<1>7. CASE MainStep
  BY <1>7 DEF MainStep, MainSet, MainJoin
<1>8. CASE UNCHANGED vars
  BY <1>8 DEF vars
<1> QED
  BY <1>1, <1>2, <1>3, <1>4, <1>5, <1>6, <1>7, <1>8 DEF Next

\* Nobody leaves "done", and main() passes a join only with all of it done.
LEMMA JoinStep == SafeInv /\ JoinInv /\ [Next]_vars => JoinInv'
<1> SUFFICES ASSUME SafeInv, JoinInv, [Next]_vars PROVE JoinInv'
  OBVIOUS
<1> USE DEF SafeInv, TypeOK, RoleInv, Labels, JoinInv, Threads, Waited, Walkers, Goto, Moves,
        walk, keys, push, ends
<1>1. CASE PrintThread
  BY <1>1 DEF PrintThread, Loop, Begin, Pass, Leave
<1>2. CASE PopThread
  BY <1>2 DEF PopThread, Loop, PopTest, PopEnter, PopFront
<1>3. ASSUME NEW p \in Pushers, PushThread(p) PROVE JoinInv'
  BY <1>3 DEF PushThread, PushBegin, PushEnter, PushFront
<1>4. CASE SaveThread
  BY <1>4 DEF SaveThread, Loop, SaveWait, SaveOpen, Begin, SaveWrite, Pass, Leave, SaveClose
<1>5. CASE KeyS \/ KeyQ
  BY <1>5 DEF KeyS, KeyQ
<1>6. CASE MainStep
  <2>1. CASE MainSet
    BY <2>1 DEF MainSet
  <2>2. CASE MainJoin("join", Waited, "joinpush")
    BY <2>2 DEF MainJoin
  <2>3. CASE MainJoin("joinpush", Pushers, "done")
    BY <2>3 DEF MainJoin
  <2> QED
    BY <1>6, <2>1, <2>2, <2>3 DEF MainStep
<1>7. CASE UNCHANGED vars
  BY <1>7 DEF vars
<1> QED
  BY <1>1, <1>2, <1>3, <1>4, <1>5, <1>6, <1>7 DEF Next

LEMMA InvCorrect == Spec => []Inv
<1>1. Inv /\ [Next]_vars => Inv'
  BY SafeStep, WalkStep, JoinStep DEF Inv
<1> QED
  BY InitInv, <1>1, PTL DEF Spec

\* The types hold, and who is inside the critical section is its owner.
THEOREM TypeCorrect == Spec => []TypeOK
<1>1. Inv => TypeOK
  BY DEF Inv, SafeInv
<1> QED
  BY InvCorrect, <1>1, PTL

\* Whatever the PushThreads do, the element PopThread saw before it entered the
\* critical section (main.cpp:128) is still there for pop_front().
THEOREM PopMeetsElementCorrect == Spec => []PopMeetsElement
<1>1. Inv => PopMeetsElement
  BY DEF Inv, SafeInv
<1> QED
  BY InvCorrect, <1>1, PTL

\* DataList.txt gets the list as it was at one moment, for a list of any length
\* (main.cpp:173-177), and PrintThread walks a list nobody changes.
THEOREM SavedIsSnapshotCorrect == Spec => []SavedIsSnapshot
<1>1. Inv => SavedIsSnapshot
  BY DEF Inv, WalkInv
<1> QED
  BY InvCorrect, <1>1, PTL

\* main() deletes the critical section (main.cpp:83) when every thread has ended.
THEOREM DeletedUnusedCorrect == Spec => []DeletedUnused
<1>1. Inv => DeletedUnused
  BY DEF Inv, SafeInv, TypeOK, JoinInv, LockInv, RoleInv, Labels, Inside, DeletedUnused,
         Threads, Waited, Walkers
<1> QED
  BY InvCorrect, <1>1, PTL

---------------------------------------------------------------------------
(* src/Thread_Basic *)

CONSTANTS Updaters, MaxTurns

VARIABLES gConnect, gData, basicShutdown, inside, reg, accept, disconnect, update, main,
          turns, clients, updates

Basic == INSTANCE ThreadBasic WITH bShutdown <- basicShutdown

\* Only DisconnectThread takes clients away, so its test stays true.
BasicTestInv == disconnect = "decrement" => gConnect > 0

\* Who is between read and write is inside, alone, and has the present value.
BasicLockInv ==
    /\ \A u \in Updaters : update[u] \in {"read", "write"} <=> u \in inside
    /\ \A u, v \in inside : u = v
    /\ \A u \in Updaters : update[u] = "write" => reg[u] = gData

BasicInv == Basic!TypeOK /\ Basic!ConnectExact /\ BasicTestInv /\ BasicLockInv /\ Basic!DataExact

USE DEF BasicInv, Basic!TypeOK, Basic!ConnectExact, BasicTestInv, BasicLockInv, Basic!DataExact

LEMMA BasicInitInv == Basic!Init => BasicInv
<1> SUFFICES ASSUME Basic!Init PROVE BasicInv
  OBVIOUS
<1> USE DEF Basic!Init
<1>1. Basic!TypeOK
  <2>1. reg \in [Updaters -> Nat]
    OBVIOUS
  <2>2. update \in [Updaters -> {"top", "enter", "read", "write", "done"}]
    OBVIOUS
  <2>3. inside \subseteq Updaters /\ basicShutdown \in BOOLEAN
    OBVIOUS
  <2>4. {gConnect, clients} \subseteq Int /\ {gData, turns, updates} \subseteq Nat
    OBVIOUS
  <2> QED
    BY <2>1, <2>2, <2>3, <2>4
<1>2. Basic!ConnectExact /\ BasicTestInv /\ BasicLockInv /\ Basic!DataExact
  OBVIOUS
<1> QED
  BY <1>1, <1>2

LEMMA BasicStepInv == BasicInv /\ [Basic!Next]_(Basic!vars) => BasicInv'
<1> SUFFICES ASSUME BasicInv, [Basic!Next]_(Basic!vars) PROVE BasicInv'
  OBVIOUS
<1> USE DEF Basic!conn, Basic!data, Basic!at
<1>1. CASE Basic!AcceptThread
  BY <1>1 DEF Basic!AcceptThread, Basic!Turn
<1>2. CASE Basic!DisconnectTest
  BY <1>2 DEF Basic!DisconnectTest, Basic!Turn
<1>3. CASE Basic!Decrement
  BY <1>3 DEF Basic!Decrement
<1>4. ASSUME NEW u \in Updaters, Basic!UpdateThread(u) PROVE BasicInv'
  <2>1. CASE Basic!UpdateBegin(u)
    BY <2>1 DEF Basic!UpdateBegin, Basic!Turn
  <2>2. CASE Basic!EnterCriticalSection(u)
    BY <2>2 DEF Basic!EnterCriticalSection
  <2>3. CASE Basic!Read(u)
    BY <2>3 DEF Basic!Read
  <2>4. CASE Basic!Write(u)
    BY <2>4 DEF Basic!Write
  <2> QED
    BY <1>4, <2>1, <2>2, <2>3, <2>4 DEF Basic!UpdateThread
<1>5. CASE Basic!MainTimeout
  BY <1>5 DEF Basic!MainTimeout
<1>6. CASE Basic!MainJoin
  BY <1>6 DEF Basic!MainJoin
<1>7. CASE UNCHANGED Basic!vars
  BY <1>7 DEF Basic!vars
<1> QED
  BY <1>1, <1>2, <1>3, <1>4, <1>5, <1>6, <1>7 DEF Basic!Next

LEMMA BasicInvCorrect == Basic!Spec => []BasicInv
BY BasicInitInv, BasicStepInv, PTL DEF Basic!Spec

\* DisconnectThread's test and decrement (main.cpp:109-111) never take g_Connect
\* below zero, and g_Connect counts the clients, however the threads interleave.
THEOREM ConnectExactCorrect == Basic!Spec => []Basic!ConnectExact
<1>1. BasicInv => Basic!ConnectExact
  OBVIOUS
<1> QED
  BY BasicInvCorrect, <1>1, PTL

\* The critical section makes ++g_Data (main.cpp:126-130) one step, and it is
\* deleted when no UpdateThread is left.
THEOREM DataExactCorrect == Basic!Spec => []Basic!DataExact
<1>1. BasicInv => Basic!DataExact
  OBVIOUS
<1> QED
  BY BasicInvCorrect, <1>1, PTL

=============================================================================
