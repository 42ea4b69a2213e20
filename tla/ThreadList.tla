----------------------------- MODULE ThreadList -----------------------------
(***************************************************************************)
(* The program src/Thread_list: PushThreads and one PopThread work on      *)
(* g_lstData under a critical section, PrintThread and SaveThread walk it, *)
(* and main() turns the keys S and Q into the auto-reset save event and    *)
(* the shutdown flag.  Every access to shared state is a step, and so is   *)
(* every element a walk passes.  An element is the number of its push, so  *)
(* that it is recognised wherever it appears; the console is left out.     *)
(***************************************************************************)
EXTENDS Integers, Sequences

CONSTANTS Pushers,    \* the PushThreads
          MaxPush     \* bound: no push is begun once so many were

Printer == "PrintThread"
Pop   == "PopThread"
Save  == "SaveThread"
Main  == "main"
None  == "none"

ASSUME PushersAssumption == Pushers \cap {Printer, Pop, Save, Main, None} = {}
ASSUME BoundAssumption == MaxPush \in Nat

VARIABLES lstData,     \* g_lstData, its front first
          owner,       \* the thread inside g_csData
          saveEvent,   \* g_hSaveEvent, auto-reset
          bShutdown,   \* g_bShutdown
          file,        \* what DataList.txt holds
          iter,        \* the elements each walk has passed, 0 outside a walk
          iData,       \* what each PushThread is about to push
          begun,       \* the pushes begun, where their numbers come from
          deleted,     \* DeleteCriticalSection() was called
          crashed,     \* SaveThread wrote to a file it could not open
          pc,
          seen,        \* history: the list each walk entered with
          asked        \* history: S was pressed and no save begun since

walk == <<iter, seen>>
keys == <<saveEvent, bShutdown, asked>>
push == <<iData, begun>>
ends == <<deleted, crashed>>
vars == <<lstData, owner, saveEvent, bShutdown, file, iter, iData, begun,
          deleted, crashed, pc, seen, asked>>

Walkers == {Printer, Save}
Waited  == {Printer, Pop, Save}
Threads == Waited \cup Pushers \cup {Main}

Init ==
    /\ lstData = <<>>
    /\ owner = None
    /\ saveEvent = FALSE
    /\ bShutdown = FALSE
    /\ file = <<>>
    /\ iter = [t \in Walkers |-> 0]
    /\ iData = [p \in Pushers |-> 0]
    /\ begun = 0
    /\ deleted = FALSE
    /\ crashed = FALSE
    /\ pc = [t \in Threads |-> IF t = Main THEN "keys" ELSE "top"]
    /\ seen = [t \in Walkers |-> <<>>]
    /\ asked = FALSE

Goto(t, l)         == pc' = [pc EXCEPT ![t] = l]
Moves(t, from, to) == pc[t] = from /\ Goto(t, to)

---------------------------------------------------------------------------
(* What the threads share *)

\* while (!g_bShutdown)
Loop(t, body) ==
    /\ Moves(t, "top", IF bShutdown THEN "done" ELSE body)
    /\ UNCHANGED <<lstData, owner, keys, file, walk, push, ends>>

\* Slip: EnterCriticalSection() does not exclude.
EnterNoWait(t) == owner' = t

EnterCriticalSection(t) == owner = None /\ owner' = t

\* for (auto iter = begin(); iter != end(); ++iter)
Begin(t) ==
    /\ Moves(t, "enter", "walk")
    /\ EnterCriticalSection(t)
    /\ seen' = [seen EXCEPT ![t] = lstData]
    /\ UNCHANGED <<lstData, keys, file, iter, push, ends>>

Pass(t) ==
    /\ pc[t] = "walk"
    /\ iter[t] < Len(lstData)
    /\ iter' = [iter EXCEPT ![t] = @ + 1]
    /\ UNCHANGED <<lstData, owner, keys, push, ends, pc, seen>>

Leave(t, next) ==
    /\ Moves(t, "walk", next)
    /\ iter[t] >= Len(lstData)
    /\ owner' = None
    /\ iter' = [iter EXCEPT ![t] = 0]
    /\ UNCHANGED <<lstData, keys, file, push, ends>>

Forget(t) == seen' = [seen EXCEPT ![t] = <<>>]

---------------------------------------------------------------------------
(* The thread functions *)

PrintThread ==
    \/ Loop(Printer, "enter")
    \/ Begin(Printer)
    \/ Pass(Printer) /\ UNCHANGED file
    \/ Leave(Printer, "top") /\ Forget(Printer)

\* Slip: it is not asked whether there is an element.
PopNoTest ==
    /\ Moves(Pop, "test", "enter")
    /\ UNCHANGED <<lstData, owner, keys, file, walk, push, ends>>

\* if (!g_lstData.empty()), outside the critical section
PopTest ==
    /\ Moves(Pop, "test", IF lstData = <<>> THEN "top" ELSE "enter")
    /\ UNCHANGED <<lstData, owner, keys, file, walk, push, ends>>

PopEnter ==
    /\ Moves(Pop, "enter", "pop")
    /\ EnterCriticalSection(Pop)
    /\ UNCHANGED <<lstData, keys, file, walk, push, ends>>

PopFront ==
    /\ Moves(Pop, "pop", "top")
    /\ lstData' = Tail(lstData)
    /\ owner' = None
    /\ UNCHANGED <<keys, file, walk, push, ends>>

PopThread == Loop(Pop, "test") \/ PopTest \/ PopEnter \/ PopFront

\* iData = rand(...)
PushBegin(p) ==
    /\ pc[p] = "top"
    /\ \/ ~bShutdown /\ begun < MaxPush /\ Goto(p, "enter") /\ begun' = begun + 1
       \/ bShutdown /\ Goto(p, "done") /\ UNCHANGED begun
    /\ iData' = [iData EXCEPT ![p] = begun']
    /\ UNCHANGED <<lstData, owner, keys, file, walk, ends>>

PushEnter(p) ==
    /\ Moves(p, "enter", "push")
    /\ EnterCriticalSection(p)
    /\ UNCHANGED <<lstData, keys, file, walk, push, ends>>

PushFront(p) ==
    /\ Moves(p, "push", "top")
    /\ lstData' = <<iData[p]>> \o lstData
    /\ owner' = None
    /\ UNCHANGED <<keys, file, walk, push, ends>>

PushThread(p) == PushBegin(p) \/ PushEnter(p) \/ PushFront(p)

\* WaitForSingleObject(g_hSaveEvent) takes the signal.
SaveWait ==
    /\ Moves(Save, "wait", "open")
    /\ saveEvent
    /\ saveEvent' = FALSE
    /\ asked' = FALSE
    /\ UNCHANGED <<lstData, owner, bShutdown, file, walk, push, ends>>

\* _wfopen_s(.., L"w") empties the file.  Nobody looks whether it fails; the
\* first write, or fclose(), then ends the program.
SaveOpen ==
    /\ Moves(Save, "open", "enter")
    /\ \/ file' = <<>> /\ UNCHANGED crashed
       \/ crashed' = TRUE /\ UNCHANGED file
    /\ UNCHANGED <<lstData, owner, keys, walk, push, deleted>>

SaveWrite == Pass(Save) /\ file' = Append(file, lstData[iter[Save] + 1])

\* fclose(pFile)
SaveClose ==
    /\ Moves(Save, "close", "top")
    /\ Forget(Save)
    /\ UNCHANGED <<lstData, owner, keys, file, iter, push, ends>>

SaveThread ==
    \/ Loop(Save, "wait") \/ SaveWait \/ SaveOpen
    \/ Begin(Save) \/ SaveWrite \/ (Leave(Save, "close") /\ UNCHANGED seen) \/ SaveClose

---------------------------------------------------------------------------
(* main() *)

\* Slip: S is noticed and the event is not set.
KeySNoSet ==
    /\ pc[Main] = "keys"
    /\ ~bShutdown
    /\ asked' = TRUE
    /\ UNCHANGED <<lstData, owner, saveEvent, bShutdown, file, walk, push, ends, pc>>

KeyS ==
    /\ pc[Main] = "keys"
    /\ ~bShutdown
    /\ saveEvent' = TRUE
    /\ asked' = TRUE
    /\ UNCHANGED <<lstData, owner, bShutdown, file, walk, push, ends, pc>>

KeyQ ==
    /\ Moves(Main, "keys", "set")
    /\ bShutdown' = TRUE
    /\ UNCHANGED <<lstData, owner, saveEvent, asked, file, walk, push, ends>>

\* Slip: SaveThread is not woken to see the flag.
MainNoSet ==
    /\ Moves(Main, "set", "join")
    /\ UNCHANGED <<lstData, owner, keys, file, walk, push, ends>>

MainSet ==
    /\ Moves(Main, "set", "join")
    /\ saveEvent' = TRUE
    /\ UNCHANGED <<lstData, owner, bShutdown, asked, file, walk, push, ends>>

\* WaitForMultipleObjects(3, hThread, ..), then the one for the PushThreads.
MainJoin(from, joined, to) ==
    /\ Moves(Main, from, to)
    /\ \A t \in joined : pc[t] = "done"
    /\ deleted' = (to = "done")
    /\ UNCHANGED <<lstData, owner, keys, file, walk, push, crashed>>

MainStep ==
    \/ MainSet
    \/ MainJoin("join", Waited, "joinpush")
    \/ MainJoin("joinpush", Pushers, "done")

---------------------------------------------------------------------------

Next ==
    /\ ~crashed
    /\ \/ PrintThread
       \/ PopThread
       \/ \E p \in Pushers : PushThread(p)
       \/ SaveThread
       \/ KeyS
       \/ KeyQ
       \/ MainStep

Spec == Init /\ [][Next]_vars

\* Every thread runs on, and nobody is bound to press a key.  The critical
\* section is free most of the time, because every thread but SaveThread sleeps
\* after it has left it: SaveThread, free to enter again and again, enters.
Fairness ==
    /\ WF_vars(~crashed /\ PrintThread)
    /\ WF_vars(~crashed /\ PopThread)
    /\ \A p \in Pushers : WF_vars(~crashed /\ PushThread(p))
    /\ SF_vars(~crashed /\ SaveThread)
    /\ WF_vars(~crashed /\ MainStep)

FairSpec == Spec /\ Fairness

---------------------------------------------------------------------------
(* Properties *)

TypeOK ==
    /\ lstData \in Seq(Nat)
    /\ owner \in Threads \cup {None}
    /\ {saveEvent, bShutdown, deleted, crashed, asked} \subseteq BOOLEAN
    /\ file \in Seq(Nat)
    /\ iter \in [Walkers -> Nat]
    /\ iData \in [Pushers -> Nat]
    /\ begun \in Nat
    /\ pc \in [Threads -> {"top", "enter", "walk", "test", "pop", "push", "wait", "open",
                           "close", "keys", "set", "join", "joinpush", "done"}]
    /\ seen \in [Walkers -> Seq(Nat)]

\* PopThread tests empty() before it enters the critical section (main.cpp:128);
\* the list still has an element when pop_front() runs.
PopMeetsElement == pc[Pop] \in {"enter", "pop"} => lstData # <<>>

\* A walk never passes the end of a list that changed under it, and what
\* SaveThread leaves in DataList.txt is the list as it was at one moment, whole
\* and in order, however many pushes and pops wait meanwhile.
Copied(n) == Len(file) = n /\ \A k \in 1..n : file[k] = seen[Save][k]

SavedIsSnapshot ==
    /\ \A t \in Walkers : pc[t] = "walk" => lstData = seen[t] /\ iter[t] <= Len(lstData)
    /\ pc[Save] = "walk" => Copied(iter[Save])
    /\ pc[Save] = "close" => file = seen[Save]

\* The critical section is deleted when no thread can enter it any more.
DeletedUnused == deleted => owner = None /\ \A t \in Threads : pc[t] = "done"

\* S is answered with a save that begins after it, even if the key comes while
\* an earlier save is at work, unless the shutdown overtakes it.
SaveServed == asked ~> (~asked \/ bShutdown \/ crashed)

\* Q ends every thread and main(), whether SaveThread sleeps, saves, or is just
\* about to wait.
ShutdownCompletes == bShutdown ~> (pc[Main] = "done" \/ crashed)

=============================================================================
