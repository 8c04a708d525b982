------------------------------- MODULE Threads -------------------------------
(***************************************************************************)
(* The end of threads: FMTK_KillThread and FMTK_ExitThread                 *)
(* (kernel/Femtiki_kern.c 724-783), and the list of an application's       *)
(* threads that they and FMTK_StartThread keep, on top of the scheduler.   *)
(*                                                                         *)
(* The list is linked through handles, and the TCB with handle h is        *)
(* tcbs[h-1].  FMTK_KillThread takes handles for indices and indices for   *)
(* handles; each use is modelled as the array and the routine called       *)
(* understand it.                                                          *)
(*                                                                         *)
(* All threads belong to the system application, which is the only one.    *)
(* The mailboxes of a thread, tcbs[].hMailboxes, are never set to anything *)
(* but 0, for which FMTK_FreeMbx does nothing.                             *)
(***************************************************************************)
EXTENDS Scheduler

VARIABLES
  acbnext, \* handle -> next thread of the application
  thread,  \* the application's first thread, the one started last
  magic,   \* the application's block is in use
  gone     \* history: threads that have left by FMTK_ExitThread

threadVars == <<vars, acbnext, thread, magic, gone>>

ThreadInit ==
  /\ Init
  /\ acbnext = [h \in Handle |-> 0]
  /\ thread  = IdleThread
  /\ magic   = TRUE
  /\ gone    = {}

(* The running thread is in code of its own, not in the loop that ends     *)
(* FMTK_ExitThread.                                                        *)
Lives == tr \notin gone

(* The last TCB is not used in the model: for the thread it belongs to,    *)
(* FMTK_KillThread reads a TCB after the array.                            *)
Start(pri, aff) ==
  LET ht == lists.freeTCB
  IN  /\ Lives
      /\ ht # NR_TCB
      /\ StartThread(pri, aff)
      /\ acbnext' = [acbnext EXCEPT ![ht] = thread]
      /\ thread'  = ht
      /\ gone'    = gone \ {ht}
      /\ UNCHANGED magic

SleepOn(timeout) ==
  /\ Lives
  /\ Sleep(timeout)
  /\ UNCHANGED <<acbnext, thread, magic, gone>>

(* The search for threadno in the application's list: at is the variable   *)
(* ht of FMTK_KillThread, before its pht.  tcbs[at] has the handle at+1.   *)
Search == [at : -1 .. NR_TCB, before : Handle0, done : BOOLEAN]

SearchStep(threadno) ==
  [s \in Search |->
     IF s.done \/ s.at <= 0 THEN [s EXCEPT !.done = TRUE]
     ELSE LET nxt == acbnext[s.at + 1] - 1
          IN  [at |-> nxt, before |-> s.at, done |-> nxt = threadno - 1]]

SearchEnd(threadno) ==
  Iterate(SearchStep(threadno),
          [at |-> thread, before |-> 0, done |-> FALSE])[NR_TCB + 1]

(* The application's list afterwards, and the value of ht in the end.      *)
Unlisted(threadno) ==
  IF thread = threadno
  THEN [head |-> acbnext[threadno + 1], next |-> acbnext, ht |-> threadno]
  ELSE LET s == SearchEnd(threadno)
       IN  [head |-> thread,
            next |-> IF s.at = threadno - 1
                     THEN [acbnext EXCEPT ![s.before + 1] = acbnext[threadno]]
                     ELSE acbnext,
            ht   |-> s.at]

(* The ready queue and the timeout list are asked for handle threadno-1;   *)
(* tcbs[-1], before the array, holds nothing modelled.                     *)
KillThread(threadno) ==
  LET h == threadno - 1
      u == Unlisted(threadno)
      L == TCBRemoveFromTimeoutList(TCBRemoveFromReadyQueue(lists, h), h)
  IN  /\ lists'   = IF u.ht \in Handle THEN iFreeTCB(L, u.ht) ELSE L
      /\ acbnext' = [i \in Handle |-> IF i = u.ht + 1 THEN 0 ELSE u.next[i]]
      /\ thread'  = u.head
      /\ magic'   = (magic /\ u.head # 0)

(* The thread goes on to FMTK_Reschedule, and stays in the loop there.     *)
ExitThread ==
  /\ Calls
  /\ Lives
  /\ tr \notin {FirstThread, NR_TCB}
  /\ KillThread(tr)
  /\ gone' = gone \cup {tr}
  /\ pc' = [pc EXCEPT ![tr] = "yield"]
  /\ UNCHANGED <<affinity, tr, invert>>

Switch == (Reschedule \/ TimerTickISR) /\ UNCHANGED <<acbnext, thread, magic, gone>>

ThreadNext ==
  \/ \E pri \in Priority, aff \in Affinities : Start(pri, aff)
  \/ \E timeout \in Timeouts : SleepOn(timeout)
  \/ ExitThread
  \/ Switch

ThreadSpec == ThreadInit /\ [][ThreadNext]_threadVars

-----------------------------------------------------------------------------
(***************************************************************************)
(* "The thread should not return from this reschedule because it's been    *)
(* killed." (Femtiki_kern.c 776-777)                                       *)
(***************************************************************************)
ExitedNeverReturns == tr \in gone => pc[tr] # "app"

=============================================================================
