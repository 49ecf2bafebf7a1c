----------------------------- MODULE CheckQueue -----------------------------
(***************************************************************************)
(* The script-check queue of checkqueue.h.  ConnectBlock (the master) adds *)
(* batches of script checks; worker threads and, in Wait(), the master     *)
(* itself evaluate them.  A boost mutex protects the counters, two         *)
(* condition variables put idle threads to sleep.                          *)
(*                                                                         *)
(* A critical section is split where its intermediate values can be seen:  *)
(* the constructor of CCheckQueueControl reads nTotal, nIdle, nTodo and    *)
(* fAllOk without taking the mutex.                                        *)
(*                                                                         *)
(* A check is abstracted to the boolean its operator() returns.            *)
(***************************************************************************)
EXTENDS Integers, Sequences, FiniteSets

CONSTANTS
  Workers,      \* the ThreadScriptCheck threads
  Master,       \* the thread in ConnectBlock (it holds cs_main)
  nBatchSize,   \* largest batch a thread takes (128 in main.cpp)
  MaxChecks,    \* bound: checks one block adds to the queue
  MaxBad        \* bound: how many of them fail

ASSUME CheckQueueAssumption ==
  /\ Master \notin Workers
  /\ IsFiniteSet(Workers)
  /\ nBatchSize \in Nat \ {0}
  /\ MaxChecks \in Nat /\ MaxBad \in Nat

VARIABLES
  mutex,    \* the thread that holds the mutex, or NoThread
  queue,    \* stack of checks not taken by any thread yet
  nIdle,    \* threads counted idle
  nTotal,   \* threads counted in the pool
  fAllOk,   \* result of the checks accounted for so far
  nTodo,    \* checks added and not accounted for yet
  pc,       \* where each thread is, see below
  vChecks,  \* the batch each thread holds outside the mutex
  fOk,      \* each thread's local verdict
  nNow,     \* size of each thread's last batch; 0 before its first
  added,    \* history: the checks the current control object added
  ret       \* what the last Wait() returned

queueVars == <<mutex, queue, nIdle, nTotal, fAllOk, nTodo, pc, vChecks, fOk, nNow,
          added, ret>>

NoThread == "none"
Threads == Workers \cup {Master}

(***************************************************************************)
(* "new"    a worker that has not run yet / the master outside any block   *)
(* "add"    (master only) a control object exists, checks are being added  *)
(* "enter"  about to lock the mutex at the top of the do loop              *)
(* "check"  holds the mutex, about to evaluate while (queue.empty())       *)
(* "wait"   blocked on its condition variable, mutex released              *)
(* "woken"  notified, about to lock the mutex again inside cond.wait       *)
(* "work"   evaluates its batch without the mutex                          *)
(* "dead"   (workers only) left the loop by boost thread interruption      *)
(***************************************************************************)
QueueInit ==
  /\ mutex = NoThread
  /\ queue = <<>>
  /\ nIdle = 0 /\ nTotal = 0
  /\ fAllOk = TRUE
  /\ nTodo = 0
  /\ pc = [t \in Threads |-> "new"]
  /\ vChecks = [t \in Threads |-> <<>>]
  /\ fOk = [t \in Threads |-> TRUE]
  /\ nNow = [t \in Threads |-> 0]
  /\ added = <<>>
  /\ ret = TRUE

Goto(t, s) == pc' = [pc EXCEPT ![t] = s]

\* boost::condition_variable::notify_one on condMaster: only the master waits there.
NotifyMaster(p) == [p EXCEPT ![Master] = IF @ = "wait" THEN "woken" ELSE @]

Waiting == {w \in Workers : pc[w] = "wait"}

\* Thread() is scheduled for the first time.
StartWorker(w) ==
  /\ pc[w] = "new"
  /\ Goto(w, "enter")
  /\ UNCHANGED <<mutex, queue, nIdle, nTotal, fAllOk, nTodo, vChecks, fOk, nNow,
                 added, ret>>

\* The constructor of CCheckQueueControl.  It asserts that the queue is unused
\* without taking the mutex: nTodo = 0 and fAllOk always hold here, nTotal =
\* nIdle does not (a worker may have counted its last batch and not be idle
\* yet).  The model goes on, as a build without that assertion would.
NewControl ==
  /\ pc[Master] = "new"
  /\ Goto(Master, "add")
  /\ added' = <<>>
  /\ UNCHANGED <<mutex, queue, nIdle, nTotal, fAllOk, nTodo, vChecks, fOk, nNow,
                 ret>>

\* Add(vChecks): push, count, and wake one worker or all of them.
Add(checks) ==
  /\ pc[Master] = "add"
  /\ mutex = NoThread
  /\ queue' = queue \o checks
  /\ nTodo' = nTodo + Len(checks)
  /\ added' = added \o checks
  /\ \/ Len(checks) = 0 /\ UNCHANGED pc
     \/ Len(checks) = 1 /\ Waiting = {} /\ UNCHANGED pc
     \/ Len(checks) = 1 /\ \E w \in Waiting : Goto(w, "woken")
     \/ Len(checks) > 1 /\ pc' = [t \in Threads |->
                                    IF t \in Waiting THEN "woken" ELSE pc[t]]
  /\ UNCHANGED <<mutex, nIdle, nTotal, fAllOk, vChecks, fOk, nNow, ret>>

\* Wait(), called by ConnectBlock or by the destructor on an early return.
Wait ==
  /\ pc[Master] = "add"
  /\ Goto(Master, "enter")
  /\ nNow' = [nNow EXCEPT ![Master] = 0]
  /\ UNCHANGED <<mutex, queue, nIdle, nTotal, fAllOk, nTodo, vChecks, fOk, added,
                 ret>>

\* Mutant: "fAllOk = fOk" for "fAllOk &= fOk".
Enter_Overwrite(t) ==
  /\ pc[t] = "enter"
  /\ mutex = NoThread
  /\ mutex' = t
  /\ IF nNow[t] # 0
       THEN /\ fAllOk' = fOk[t]
            /\ nTodo' = nTodo - nNow[t]
            /\ pc' = [(IF nTodo' = 0 /\ t # Master THEN NotifyMaster(pc) ELSE pc)
                        EXCEPT ![t] = "check"]
            /\ UNCHANGED nTotal
       ELSE /\ nTotal' = nTotal + 1
            /\ Goto(t, "check")
            /\ UNCHANGED <<fAllOk, nTodo>>
  /\ UNCHANGED <<queue, nIdle, vChecks, fOk, nNow, added, ret>>

\* Mutant: the last worker does not notify the master.
Enter_NoNotify(t) ==
  /\ pc[t] = "enter"
  /\ mutex = NoThread
  /\ mutex' = t
  /\ Goto(t, "check")
  /\ IF nNow[t] # 0
       THEN /\ fAllOk' = (fAllOk /\ fOk[t])
            /\ nTodo' = nTodo - nNow[t]
            /\ UNCHANGED nTotal
       ELSE nTotal' = nTotal + 1 /\ UNCHANGED <<fAllOk, nTodo>>
  /\ UNCHANGED <<queue, nIdle, vChecks, fOk, nNow, added, ret>>

\* Lock; account for the previous batch, or join the pool on the first iteration.
Enter(t) ==
  /\ pc[t] = "enter"
  /\ mutex = NoThread
  /\ mutex' = t
  /\ IF nNow[t] # 0
       THEN /\ fAllOk' = (fAllOk /\ fOk[t])
            /\ nTodo' = nTodo - nNow[t]
            /\ pc' = [(IF nTodo' = 0 /\ t # Master THEN NotifyMaster(pc) ELSE pc)
                        EXCEPT ![t] = "check"]
            /\ UNCHANGED nTotal
       ELSE /\ nTotal' = nTotal + 1
            /\ Goto(t, "check")
            /\ UNCHANGED <<fAllOk, nTodo>>
  /\ UNCHANGED <<queue, nIdle, vChecks, fOk, nNow, added, ret>>

\* Queue empty and nothing outstanding: the master leaves and resets the status.
MasterReturns ==
  /\ pc[Master] = "check"
  /\ queue = <<>> /\ nTodo = 0
  /\ nTotal' = nTotal - 1
  /\ ret' = fAllOk
  /\ fAllOk' = TRUE
  /\ mutex' = NoThread
  /\ Goto(Master, "new")
  /\ UNCHANGED <<queue, nIdle, nTodo, vChecks, fOk, nNow, added>>

\* Queue empty otherwise: count as idle and block.  (fQuit is never set.)
Block(t) ==
  /\ pc[t] = "check"
  /\ queue = <<>>
  /\ ~(t = Master /\ nTodo = 0)
  /\ nIdle' = nIdle + 1
  /\ mutex' = NoThread
  /\ Goto(t, "wait")
  /\ UNCHANGED <<queue, nTotal, fAllOk, nTodo, vChecks, fOk, nNow, added, ret>>

\* A condition variable may wake a thread spuriously.
SpuriousWakeup(t) ==
  /\ pc[t] = "wait"
  /\ Goto(t, "woken")
  /\ UNCHANGED <<mutex, queue, nIdle, nTotal, fAllOk, nTodo, vChecks, fOk, nNow,
                 added, ret>>

\* cond.wait returns with the mutex held.
Resume(t) ==
  /\ pc[t] = "woken"
  /\ mutex = NoThread
  /\ mutex' = t
  /\ nIdle' = nIdle - 1
  /\ Goto(t, "check")
  /\ UNCHANGED <<queue, nTotal, fAllOk, nTodo, vChecks, fOk, nNow, added, ret>>

Max2(a, b) == IF a >= b THEN a ELSE b
Min2(a, b) == IF a <= b THEN a ELSE b

BatchSize == Max2(1, Min2(nBatchSize, Len(queue) \div (nTotal + nIdle + 1)))

\* Take a batch from the back of the queue and release the mutex.
TakeBatch(t) ==
  /\ pc[t] = "check"
  /\ queue # <<>>
  /\ LET n == BatchSize
         k == Len(queue) - n
     IN /\ nNow' = [nNow EXCEPT ![t] = n]
        /\ vChecks' = [vChecks EXCEPT ![t] = SubSeq(queue, k + 1, Len(queue))]
        /\ queue' = SubSeq(queue, 1, k)
  /\ fOk' = [fOk EXCEPT ![t] = fAllOk]
  /\ mutex' = NoThread
  /\ Goto(t, "work")
  /\ UNCHANGED <<nIdle, nTotal, fAllOk, nTodo, added, ret>>

\* Evaluate the batch; after a failure the remaining checks are skipped.
Work(t) ==
  /\ pc[t] = "work"
  /\ fOk' = [fOk EXCEPT ![t] =
               fOk[t] /\ \A i \in DOMAIN vChecks[t] : vChecks[t][i]]
  /\ vChecks' = [vChecks EXCEPT ![t] = <<>>]
  /\ Goto(t, "enter")
  /\ UNCHANGED <<mutex, queue, nIdle, nTotal, fAllOk, nTodo, nNow, added, ret>>

\* threadGroup.interrupt_all() at shutdown: cond.wait throws thread_interrupted.
Interrupt(w) ==
  /\ pc[w] = "wait"
  /\ Goto(w, "dead")
  /\ UNCHANGED <<mutex, queue, nIdle, nTotal, fAllOk, nTodo, vChecks, fOk, nNow,
                 added, ret>>

Bad(checks) == {i \in DOMAIN checks : ~checks[i]}
Batches ==
  {checks \in UNION {[1..n -> BOOLEAN] : n \in 0..(MaxChecks - Len(added))} :
     Cardinality(Bad(added)) + Cardinality(Bad(checks)) <= MaxBad}

Loop(t) == Enter(t) \/ Resume(t) \/ Block(t) \/ TakeBatch(t) \/ Work(t)

QueueNext ==
  \/ NewControl
  \/ \E checks \in Batches : Add(checks)
  \/ Wait
  \/ MasterReturns
  \/ \E t \in Threads : Loop(t) \/ SpuriousWakeup(t)
  \/ \E w \in Workers : StartWorker(w) \/ Interrupt(w)

(***************************************************************************)
(* Fairness: the operating system keeps scheduling every thread that can   *)
(* run.  The mutex is not fair, so a thread that wants it again and again  *)
(* while it is intermittently free needs strong fairness; that is the      *)
(* assumption boost::mutex users make.  Nothing is assumed of spurious     *)
(* wakeups, of interruption, of the arrival of blocks, nor that workers    *)
(* ever start.                                                             *)
(***************************************************************************)
Fairness ==
  /\ WF_queueVars(Wait)
  /\ WF_queueVars(MasterReturns)
  /\ \A t \in Threads : /\ SF_queueVars(Enter(t) \/ Resume(t))
                        /\ WF_queueVars(Block(t) \/ TakeBatch(t) \/ Work(t))

QueueSpec == QueueInit /\ [][QueueNext]_queueVars
FairSpec == QueueSpec /\ Fairness
-----------------------------------------------------------------------------
(***************************************************************************)
(* Properties                                                              *)
(***************************************************************************)

\* When ConnectBlock leaves its control object it has accepted the block exactly
\* when every check it added holds: no check is lost, counted twice or attributed
\* to another block, whatever the workers do.  Nobody holds one of its checks then
\* (a CScriptCheck points into the block, which is freed), and the assertions
\* nTodo == 0 and fAllOk == true of the next constructor hold.
WaitResultIsConjunction ==
  pc[Master] = "new" =>
    /\ ret <=> \A i \in DOMAIN added : added[i]
    /\ queue = <<>> /\ nTodo = 0 /\ fAllOk
    /\ \A t \in Threads : pc[t] # "work"

\* A master that has asked for the result gets it, even if every worker was
\* interrupted or never started: the master takes part in the work.
WaitReturns == pc[Master] = "add" ~> pc[Master] = "new"

=============================================================================
