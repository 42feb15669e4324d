------------------------------ MODULE Monitor ------------------------------
(***************************************************************************)
(* What dfk_mutex_t and dfk_cond_t promise to their callers, with no trace *)
(* of the scheduler: mutual exclusion, admission in the order of the lock  *)
(* calls without barging, an atomic release-and-wait, wake-ups in the      *)
(* order of the wait calls and never without a signal.                     *)
(***************************************************************************)
EXTENDS Naturals, Sequences

CONSTANTS Fibers, Mutexes, Conds, NULL

VARIABLES
  holder,    \* the fiber inside the critical section of a mutex, or NULL
  entry,     \* fibers that asked for a mutex and were not admitted yet
  asleep,    \* fibers in dfk_cond_wait that nobody has woken yet
  mutexOf    \* the mutex a fiber in dfk_cond_wait has to get back

monitorVars == <<holder, entry, asleep, mutexOf>>

InSeq(f, q) == \E i \in DOMAIN q : q[i] = f

\* f is not inside a call that blocked.
Outside(f) ==
  /\ mutexOf[f] = NULL
  /\ \A m \in Mutexes : ~ InSeq(f, entry[m])

\* f was woken and has not asked for its mutex yet.
Woken(f) ==
  /\ mutexOf[f] # NULL
  /\ \A c \in Conds : ~ InSeq(f, asleep[c])

MonitorInit ==
  /\ holder = [m \in Mutexes |-> NULL]
  /\ entry = [m \in Mutexes |-> <<>>]
  /\ asleep = [c \in Conds |-> <<>>]
  /\ mutexOf = [f \in Fibers |-> NULL]

\* Nobody is inside and nobody queues: admitted at once.
Admit(f, m) ==
  /\ holder[m] = NULL /\ entry[m] = <<>>
  /\ holder' = [holder EXCEPT ![m] = f]
  /\ mutexOf' = [mutexOf EXCEPT ![f] = NULL]
  /\ UNCHANGED <<entry, asleep>>

Request(f, m) ==
  /\ holder[m] # f
  /\ holder[m] # NULL \/ entry[m] # <<>>
  /\ entry' = [entry EXCEPT ![m] = Append(@, f)]
  /\ mutexOf' = [mutexOf EXCEPT ![f] = NULL]
  /\ UNCHANGED <<holder, asleep>>

Grant(m) ==
  /\ holder[m] = NULL /\ entry[m] # <<>>
  /\ holder' = [holder EXCEPT ![m] = Head(entry[m])]
  /\ entry' = [entry EXCEPT ![m] = Tail(@)]
  /\ UNCHANGED <<asleep, mutexOf>>

Leave(f, m) ==
  /\ holder[m] = f
  /\ holder' = [holder EXCEPT ![m] = NULL]
  /\ UNCHANGED <<entry, asleep, mutexOf>>

Sleep(f, c, m) ==
  /\ holder[m] = f
  /\ holder' = [holder EXCEPT ![m] = NULL]
  /\ asleep' = [asleep EXCEPT ![c] = Append(@, f)]
  /\ mutexOf' = [mutexOf EXCEPT ![f] = m]
  /\ UNCHANGED entry

\* Wake the first n sleepers.
Wake(c, n) ==
  /\ asleep' = [asleep EXCEPT ![c] = SubSeq(@, n + 1, Len(@))]
  /\ UNCHANGED <<holder, entry, mutexOf>>

MonitorNext ==
  \/ \E f \in Fibers, m \in Mutexes :
       \/ Outside(f) /\ (Admit(f, m) \/ Request(f, m) \/ Leave(f, m))
       \/ Woken(f) /\ mutexOf[f] = m /\ (Admit(f, m) \/ Request(f, m))
       \/ \E c \in Conds : Outside(f) /\ Sleep(f, c, m)
  \/ \E m \in Mutexes : Grant(m)
  \/ \E c \in Conds : \E n \in 1 .. Len(asleep[c]) : Wake(c, n)

MonitorSpec == MonitorInit /\ [][MonitorNext]_monitorVars
=============================================================================
