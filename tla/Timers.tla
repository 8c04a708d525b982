------------------------------- MODULE Timers -------------------------------
(***************************************************************************)
(* Timers and alarms: kernel/Femtiki_kern.c 517-657, on the counters of    *)
(* rtl/cpu/ram_counter.sv.                                                 *)
(*                                                                         *)
(* A counter has a control register with held bits, which a write sets     *)
(* when its bit 7 is clear, and live bits, which take the held ones over   *)
(* when bit 7 is set.  Vector and mailbox are set by either write.         *)
(*                                                                         *)
(* Counts are left out: a counter that is enabled reaches zero at any      *)
(* moment.  Left out, too, are the vector, so that the interrupt routine of*)
(* a group is entered whenever a counter of it asks for it, and the locks. *)
(*                                                                         *)
(* The counters decode reads by one address bit fewer than writes: the     *)
(* kernel reads a count of timer 1 or 2, which nothing sets, in place of   *)
(* the interrupt enables and flags.  The model takes any value.            *)
(***************************************************************************)
EXTENDS Iteration, Integers

CONSTANTS
  NR_TMR,    \* number of timers, 64 in inc/config.h
  Reserved,  \* timers 1 .. Reserved are never given out, 5
  GroupSize, \* timers that share a word of flags, 32
  NR_MBX,    \* number of mailboxes
  Apps,      \* applications; the system's is 1
  NoApp,
  BoxOwner,  \* mailbox -> its owner
  link       \* mailbox -> the mailbox's link

VARIABLES
  timer_pool, \* timers that are given out
  owner,      \* timer -> application it was given to
  counter,    \* timer -> its control register
  ie,         \* timers that may interrupt
  irqf,       \* timers that ask for an interrupt
  underflow,  \* timers that have reached zero
  cpid,       \* the running application
  alarm,      \* history: timer -> mailbox its alarm was set for, 0 for none
  unsent      \* history: timers whose interrupt was acknowledged without a
              \* message to the mailbox of the alarm

vars == <<timer_pool, owner, counter, ie, irqf, underflow, cpid, alarm, unsent>>

Timer  == 1 .. NR_TMR
Box    == 1 .. NR_MBX
Group  == 0 .. (NR_TMR - 1) \div GroupSize
GroupOf(t) == (t - 1) \div GroupSize
InGroup(g) == {t \in Timer : GroupOf(t) = g}

(* A write to the control register of timer t.                             *)
Hold(t, mbx, enable, reload) ==
  [counter EXCEPT ![t].mailbox = mbx, ![t].ceh = enable, ![t].arh = reload]

Apply(C, t, mbx) ==
  [C EXCEPT ![t].mailbox = mbx, ![t].ce = C[t].ceh, ![t].ar = C[t].arh]

-----------------------------------------------------------------------------

(* The last of the reserved timers is the system's tick, set up at boot.   *)
Init ==
  /\ timer_pool = {}
  /\ owner   = [t \in Timer |-> NoApp]
  /\ counter = [t \in Timer |-> [mailbox |-> 0, ceh |-> t = Reserved,
                                 arh |-> t = Reserved, ce |-> t = Reserved,
                                 ar |-> t = Reserved]]
  /\ ie = {Reserved} \cap Timer
  /\ irqf = {}
  /\ underflow = {}
  /\ cpid \in Apps
  /\ alarm = [t \in Timer |-> 0]
  /\ unsent = {}

MayUse(t) == owner[t] = cpid \/ cpid = 1

FMTK_AllocTimer ==
  \E t \in Timer :
    /\ t > Reserved
    /\ t \notin timer_pool
    /\ \A s \in Reserved + 1 .. t - 1 : s \in timer_pool
    /\ timer_pool' = timer_pool \cup {t}
    /\ owner' = [owner EXCEPT ![t] = cpid]
    /\ UNCHANGED <<counter, ie, irqf, underflow, cpid, alarm, unsent>>

(* The writes of FMTK_SetAlarm, taken as one: an interrupt between them    *)
(* finds the timer as it was enabled before.  Alarms are set on timers that*)
(* have been given out.                                                    *)
FMTK_SetAlarm(t, mbx, reload) ==
  /\ MayUse(t)
  /\ t > Reserved
  /\ counter' = Apply(Hold(t, mbx, TRUE, reload), t, 0)
  /\ \E read \in SUBSET InGroup(GroupOf(t)) :
       ie' = (ie \ InGroup(GroupOf(t))) \cup read \cup {t}
  /\ alarm' = [alarm EXCEPT ![t] = mbx]
  /\ UNCHANGED <<timer_pool, owner, irqf, underflow, cpid, unsent>>

(* A request that is pending stays so.                                     *)
KillAlarm(t) ==
  /\ counter' = Apply(Hold(t, 0, FALSE, FALSE), t, 0)
  /\ \E read \in SUBSET InGroup(GroupOf(t)) :
       ie' = (ie \ InGroup(GroupOf(t))) \cup (read \ {t})
  /\ alarm' = [alarm EXCEPT ![t] = 0]
  /\ UNCHANGED <<irqf, underflow, cpid, unsent>>

FMTK_KillAlarm(t) ==
  /\ MayUse(t)
  /\ t > Reserved
  /\ KillAlarm(t)
  /\ UNCHANGED <<timer_pool, owner>>

FMTK_FreeTimer(t) ==
  /\ MayUse(t)
  /\ t > Reserved
  /\ KillAlarm(t)
  /\ owner' = [owner EXCEPT ![t] = NoApp]
  /\ timer_pool' = timer_pool \ {t}

(* A counter reaches zero.                                                 *)
Expire(t) ==
  /\ counter[t].ce
  /\ underflow' = underflow \cup {t}
  /\ irqf' = irqf \cup ({t} \cap ie)
  /\ counter' = [counter EXCEPT ![t].ce = @ /\ counter[t].ar]
  /\ UNCHANGED <<timer_pool, owner, ie, cpid, alarm, unsent>>

(* The mailboxes that FMTK_AlarmISR walks from h along their links.        *)
WalkFrom(h) ==
  LET follow == [b \in Nat |-> IF b \in Box THEN link[b] ELSE 0]
  IN  {Iterate(follow, h)[n] : n \in 0 .. NR_MBX} \cap Box

(* The interrupt of group g: jj is what is read as the flags.              *)
FMTK_AlarmISR(g) ==
  /\ irqf \cap InGroup(g) # {}
  /\ \E jj \in SUBSET InGroup(g) :
       LET Sent(t) == {b \in WalkFrom(counter[t].mailbox) : BoxOwner[b] = cpid}
       IN  /\ ie' = ie \ {t \in underflow \cap jj : ~counter[t].ar}
           /\ irqf' = irqf \ jj
           /\ underflow' = underflow \ jj
           /\ unsent' = unsent \cup {t \in irqf \cap jj :
                          /\ alarm[t] # 0
                          /\ BoxOwner[alarm[t]] = cpid
                          /\ alarm[t] \notin Sent(t)}
  /\ UNCHANGED <<timer_pool, owner, counter, cpid, alarm>>

(* The tick's own interrupt routine acknowledges it.                       *)
TimerISRLaunchpad ==
  /\ Reserved \in irqf
  /\ irqf' = irqf \ {Reserved}
  /\ underflow' = underflow \ {Reserved}
  /\ UNCHANGED <<timer_pool, owner, counter, ie, cpid, alarm, unsent>>

(* The scheduler runs a thread of another application.                     *)
Switch ==
  /\ cpid' \in Apps
  /\ UNCHANGED <<timer_pool, owner, counter, ie, irqf, underflow, alarm, unsent>>

Next ==
  \/ FMTK_AllocTimer
  \/ \E t \in Timer, mbx \in Box, reload \in BOOLEAN : FMTK_SetAlarm(t, mbx, reload)
  \/ \E t \in Timer : FMTK_KillAlarm(t) \/ FMTK_FreeTimer(t) \/ Expire(t)
  \/ \E g \in Group : FMTK_AlarmISR(g)
  \/ TimerISRLaunchpad
  \/ Switch

Spec == Init /\ [][Next]_vars

-----------------------------------------------------------------------------
(***************************************************************************)
(* "Acknowledge the interrupt(s) and send messsage." (Femtiki_kern.c 571): *)
(* when the interrupt of an alarm is acknowledged while its application    *)
(* runs, a message has been sent to the mailbox the alarm was set for.     *)
(***************************************************************************)
AlarmsSent == unsent = {}

=============================================================================
