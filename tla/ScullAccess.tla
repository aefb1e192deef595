---------------------------- MODULE ScullAccess ----------------------------
(***************************************************************************)
(* The four devices of src/ATS/scull/access.c.  They read and write as the *)
(* bare device does and differ in who may open them: scullsingle one       *)
(* process at a time, sculluid and scullwuid one user at a time (the first *)
(* refuses the others, the second makes them wait), scullpriv everybody,   *)
(* with a device of its own for every terminal.                            *)
(*                                                                         *)
(* A section under a spin lock is one step.  What other processes see in   *)
(* the middle of it is only what scull_w_available reads without the lock, *)
(* one variable at a time.                                                 *)
(***************************************************************************)
EXTENDS Integers, Sequences, FiniteSets

CONSTANTS
  Tasks,      \* processes, each with at most one open file
  Uids,       \* users
  uid, euid,  \* uid[p], euid[p]: the real and the effective user of p
  Override,   \* the processes with CAP_DAC_OVERRIDE
  tty, NoTty, \* tty[p]: the terminal that controls p, or NoTty
  NoUid       \* owner of a device nobody has opened yet (any value: the count is 0)

ASSUME AccessAssumption ==
  /\ IsFiniteSet(Tasks)
  /\ uid \in [Tasks -> Uids] /\ euid \in [Tasks -> Uids]
  /\ Override \subseteq Tasks
  /\ DOMAIN tty = Tasks
  /\ NoUid \notin Uids

VARIABLES
  scull_s_available,
  scull_u_count, scull_u_owner,
  scull_w_count, scull_w_owner,
  scull_w_wait,   \* the processes in the wait queue
  scull_c_list,   \* the keys of the cloned devices, in the order of creation
  doing,
  dev             \* dev[p]: the device p opens or has open, or None

\* The devices: a name, and for a cloned one its index in the list.
None     == <<"none", 0>>
Single   == <<"single", 0>>
User     == <<"user", 0>>
Wuser    == <<"wuser", 0>>
Clone(i) == <<"clone", i>>

single == scull_s_available
user   == <<scull_u_count, scull_u_owner>>
wuser  == <<scull_w_count, scull_w_owner, scull_w_wait>>
accessVars == <<single, user, wuser, scull_c_list, doing, dev>>

Doing(p, l) == doing[p] = l
Begin(p, l) == doing' = [doing EXCEPT ![p] = l]
Fail(p) == Begin(p, "idle") /\ dev' = [dev EXCEPT ![p] = None]

AccessInit ==
  /\ scull_s_available = 1
  /\ scull_u_count = 0 /\ scull_u_owner = NoUid
  /\ scull_w_count = 0 /\ scull_w_owner = NoUid
  /\ scull_w_wait = {}
  /\ scull_c_list = <<>>
  /\ doing = [p \in Tasks |-> "idle"]
  /\ dev = [p \in Tasks |-> None]

\* p may use device d: an open for writing only trims it before it returns.
Admit(p, d) ==
  /\ dev' = [dev EXCEPT ![p] = d]
  /\ Begin(p, "trim") \/ Begin(p, "open")

-----------------------------------------------------------------------------
(* scullsingle *)

\* X_Y is a wrong X, here and below: README, "Faulty variants".
SingleOpen_NoTest(p) ==
  /\ Doing(p, "idle")
  /\ scull_s_available' = scull_s_available - 1
  /\ Admit(p, Single)
  /\ UNCHANGED <<user, wuser, scull_c_list>>

\* atomic_dec_and_test succeeds when it brings the count to 0.
SingleOpen(p) ==
  /\ Doing(p, "idle")
  /\ scull_s_available' = scull_s_available - 1
  /\ IF scull_s_available' = 0
     THEN Admit(p, Single)
     ELSE Begin(p, "s_undo") /\ dev' = [dev EXCEPT ![p] = Single]
  /\ UNCHANGED <<user, wuser, scull_c_list>>

SingleBusy(p) ==
  /\ Doing(p, "s_undo")
  /\ scull_s_available' = scull_s_available + 1
  /\ Fail(p)
  /\ UNCHANGED <<user, wuser, scull_c_list>>

SingleRelease(p) ==
  /\ Doing(p, "open") /\ dev[p] = Single
  /\ scull_s_available' = scull_s_available + 1
  /\ Fail(p)
  /\ UNCHANGED <<user, wuser, scull_c_list>>

-----------------------------------------------------------------------------
(* sculluid and scullwuid *)

Mine(p, owner) == owner = uid[p] \/ owner = euid[p] \/ p \in Override

\* The first to open becomes the owner.
Owner_Last(p, count, owner) == uid[p]
Owner(p, count, owner) == IF count = 0 THEN uid[p] ELSE owner

\* A refused open changes nothing.
UserOpen(p) ==
  /\ Doing(p, "idle")
  /\ scull_u_count = 0 \/ Mine(p, scull_u_owner)
  /\ scull_u_owner' = Owner(p, scull_u_count, scull_u_owner)
  /\ scull_u_count' = scull_u_count + 1
  /\ Admit(p, User)
  /\ UNCHANGED <<single, wuser, scull_c_list>>

UserRelease(p) ==
  /\ Doing(p, "open") /\ dev[p] = User
  /\ scull_u_count' = scull_u_count - 1
  /\ Fail(p)
  /\ UNCHANGED <<single, scull_u_owner, wuser, scull_c_list>>

scull_w_available(p) == scull_w_count = 0 \/ Mine(p, scull_w_owner)

WaitCall(p) ==
  /\ Doing(p, "idle")
  /\ dev' = [dev EXCEPT ![p] = Wuser]
  /\ Begin(p, "w_lock")
  /\ UNCHANGED <<single, user, wuser, scull_c_list>>

WaitGrab(p) ==
  /\ Doing(p, "w_lock")
  /\ scull_w_available(p)
  /\ scull_w_owner' = Owner(p, scull_w_count, scull_w_owner)
  /\ scull_w_count' = scull_w_count + 1
  /\ Admit(p, Wuser)
  /\ UNCHANGED <<single, user, scull_w_wait, scull_c_list>>

\* Not available: give up if the file is O_NONBLOCK, or wait.
WaitBusy(p) ==
  /\ Doing(p, "w_lock")
  /\ ~scull_w_available(p)
  /\ \/ Fail(p)
     \/ Begin(p, "w_prepare") /\ UNCHANGED dev
  /\ UNCHANGED <<single, user, wuser, scull_c_list>>

\* wait_event_interruptible: into the queue, look once more, sleep.
WaitPrepare(p) ==
  /\ Doing(p, "w_prepare")
  /\ scull_w_wait' = scull_w_wait \cup {p}
  /\ Begin(p, "w_count")
  /\ UNCHANGED <<single, user, scull_w_count, scull_w_owner, scull_c_list, dev>>

\* finish_wait, and back to the lock
Finish(p) ==
  /\ scull_w_wait' = scull_w_wait \ {p}
  /\ Begin(p, "w_lock")

WaitLookCount(p) ==
  /\ Doing(p, "w_count")
  /\ IF scull_w_count = 0 THEN Finish(p) ELSE Begin(p, "w_owner") /\ UNCHANGED scull_w_wait
  /\ UNCHANGED <<single, user, scull_w_count, scull_w_owner, scull_c_list, dev>>

WaitLookOwner(p) ==
  /\ Doing(p, "w_owner")
  /\ IF Mine(p, scull_w_owner) THEN Finish(p) ELSE Begin(p, "w_sleep") /\ UNCHANGED scull_w_wait
  /\ UNCHANGED <<single, user, scull_w_count, scull_w_owner, scull_c_list, dev>>

Asleep(p) == Doing(p, "w_sleep") /\ p \in scull_w_wait

WaitAwake(p) ==
  /\ Doing(p, "w_sleep") /\ ~Asleep(p)
  /\ Begin(p, "w_prepare")
  /\ UNCHANGED <<single, user, wuser, scull_c_list, dev>>

WaitSignal_Counts(p) ==
  /\ Doing(p, "w_sleep")
  /\ scull_w_wait' = scull_w_wait \ {p}
  /\ scull_w_count' = scull_w_count - 1
  /\ Fail(p)
  /\ UNCHANGED <<single, user, scull_w_owner, scull_c_list>>

WaitSignal(p) ==
  /\ Doing(p, "w_sleep")
  /\ scull_w_wait' = scull_w_wait \ {p}
  /\ Fail(p)
  /\ UNCHANGED <<single, user, scull_w_count, scull_w_owner, scull_c_list>>

WaitRelease_Inverted(p) ==
  /\ Doing(p, "open") /\ dev[p] = Wuser
  /\ scull_w_count' = scull_w_count - 1
  /\ IF scull_w_count' # 0 THEN Begin(p, "w_wake") /\ UNCHANGED dev ELSE Fail(p)
  /\ UNCHANGED <<single, user, scull_w_owner, scull_w_wait, scull_c_list>>

WaitRelease(p) ==
  /\ Doing(p, "open") /\ dev[p] = Wuser
  /\ scull_w_count' = scull_w_count - 1
  /\ IF scull_w_count' = 0 THEN Begin(p, "w_wake") /\ UNCHANGED dev ELSE Fail(p)
  /\ UNCHANGED <<single, user, scull_w_owner, scull_w_wait, scull_c_list>>

WaitWake(p) ==
  /\ Doing(p, "w_wake")
  /\ scull_w_wait' = {}
  /\ Fail(p)
  /\ UNCHANGED <<single, user, scull_w_count, scull_w_owner, scull_c_list>>

-----------------------------------------------------------------------------
(* scullpriv: scull_c_lookfor_device makes the device of a terminal that has *)
(* none, under the lock, or finds that there is no memory for it.            *)

Keys == {scull_c_list[i] : i \in DOMAIN scull_c_list}

CloneFound(p) ==
  /\ Doing(p, "idle") /\ tty[p] # NoTty
  /\ \E i \in DOMAIN scull_c_list :
       /\ scull_c_list[i] = tty[p]
       /\ \A j \in DOMAIN scull_c_list : scull_c_list[j] = tty[p] => i >= j
       /\ Admit(p, Clone(i))
  /\ UNCHANGED <<single, user, wuser, scull_c_list>>

CloneMade_Always(p) ==
  /\ Doing(p, "idle") /\ tty[p] # NoTty
  /\ scull_c_list' = Append(scull_c_list, tty[p])
  /\ Admit(p, Clone(Len(scull_c_list')))
  /\ UNCHANGED <<single, user, wuser>>

CloneMade(p) ==
  /\ Doing(p, "idle") /\ tty[p] # NoTty
  /\ tty[p] \notin Keys
  /\ scull_c_list' = Append(scull_c_list, tty[p])
  /\ Admit(p, Clone(Len(scull_c_list')))
  /\ UNCHANGED <<single, user, wuser>>

CloneRelease(p) ==
  /\ Doing(p, "open") /\ dev[p][1] = "clone"
  /\ Fail(p)
  /\ UNCHANGED <<single, user, wuser, scull_c_list>>

-----------------------------------------------------------------------------
(* The bare device's part: the trim of an open, and reads and writes, which  *)
(* hold the semaphore of the device.  The trim of these four does not.       *)

TrimEnd(p) ==
  /\ Doing(p, "trim")
  /\ Begin(p, "open")
  /\ UNCHANGED <<single, user, wuser, scull_c_list, dev>>

Transfer(p) ==
  /\ Doing(p, "open")
  /\ \A q \in Tasks : ~(Doing(q, "transfer") /\ dev[q] = dev[p])
  /\ Begin(p, "transfer")
  /\ UNCHANGED <<single, user, wuser, scull_c_list, dev>>

TransferEnd(p) ==
  /\ Doing(p, "transfer")
  /\ Begin(p, "open")
  /\ UNCHANGED <<single, user, wuser, scull_c_list, dev>>

SingleStep(p) == SingleOpen(p) \/ SingleBusy(p) \/ SingleRelease(p)

UserStep(p) == UserOpen(p) \/ UserRelease(p)

WaitStep(p) ==
  \/ WaitCall(p) \/ WaitGrab(p) \/ WaitBusy(p) \/ WaitPrepare(p)
  \/ WaitLookCount(p) \/ WaitLookOwner(p) \/ WaitAwake(p) \/ WaitSignal(p)
  \/ WaitRelease(p) \/ WaitWake(p)

CloneStep(p) == CloneFound(p) \/ CloneMade(p) \/ CloneRelease(p)

BareStep(p) == TrimEnd(p) \/ Transfer(p) \/ TransferEnd(p)

AccessNext ==
  \E p \in Tasks :
    SingleStep(p) \/ UserStep(p) \/ WaitStep(p) \/ CloneStep(p) \/ BareStep(p)

AccessSpec == AccessInit /\ [][AccessNext]_accessVars

-----------------------------------------------------------------------------
(* Properties *)

AccessLabels == {"idle", "trim", "open", "transfer", "s_undo", "w_lock", "w_prepare",
           "w_count", "w_owner", "w_sleep", "w_wake"}

\* The variables keep their types: no count leaves the range that the number
\* of processes gives it.
AccessTypes ==
  /\ scull_s_available \in (1 - Cardinality(Tasks))..1
  /\ scull_u_count \in 0..Cardinality(Tasks) /\ scull_u_owner \in Uids \cup {NoUid}
  /\ scull_w_count \in 0..Cardinality(Tasks) /\ scull_w_owner \in Uids \cup {NoUid}
  /\ scull_w_wait \subseteq Tasks
  /\ scull_c_list \in Seq({tty[p] : p \in Tasks} \ {NoTty})
  /\ doing \in [Tasks -> AccessLabels]
  /\ dev \in [Tasks -> {None, Single, User, Wuser} \cup {Clone(i) : i \in DOMAIN scull_c_list}]

Has(p, d) == doing[p] \in {"trim", "open", "transfer"} /\ dev[p] = d
Holders(d) == {p \in Tasks : Has(p, d)}

\* scullsingle: an open that fails gives back what it took, so at most one
\* process has the device however many try at once.
OneOpen == \A p, q \in Holders(Single) : p = q

\* Every count is exact: scullsingle's is one less for its holder and for
\* each open that has yet to give back what it took, the other two are the
\* number of holders, whatever opens failed or were interrupted meanwhile.
Takers == Holders(Single) \cup {p \in Tasks : Doing(p, "s_undo")}

ExactCounts ==
  /\ scull_s_available = 1 - Cardinality(Takers)
  /\ scull_u_count = Cardinality(Holders(User))
  /\ scull_w_count = Cardinality(Holders(Wuser))

\* Whoever has sculluid or scullwuid open is its owner, by one of his two
\* ids, or may override that; the owner cannot have changed under him.
OneUser ==
  /\ \A p \in Holders(User) : Mine(p, scull_u_owner)
  /\ \A p \in Holders(Wuser) : Mine(p, scull_w_owner)

\* scullwuid: nobody sleeps for a device he may have, unless a process that
\* closed it is about to wake him.
NotStranded ==
  \A p \in Tasks :
    Asleep(p) /\ scull_w_available(p) => \E q \in Tasks : Doing(q, "w_wake")

\* The same while a waiter that is in the queue is still looking: it has
\* seen the count above 0, and if it no longer is, it will be woken.
Told ==
  \A p \in scull_w_wait :
    Doing(p, "w_owner") /\ scull_w_count = 0 => \E q \in Tasks : Doing(q, "w_wake")

\* scullpriv: one device for each terminal, and a process that has one open
\* is on that of its own terminal.
OwnClone ==
  /\ \A i, j \in DOMAIN scull_c_list : scull_c_list[i] = scull_c_list[j] => i = j
  /\ \A p \in Tasks, i \in DOMAIN scull_c_list : Has(p, Clone(i)) => scull_c_list[i] = tty[p]

\* scull_trim has the device for itself: no other trim, read or write of the
\* same device is under way.
TrimAlone(devices) ==
  \A p, q \in Tasks :
    /\ Doing(p, "trim") /\ dev[p] \in devices
    /\ p # q /\ dev[q] = dev[p]
    => doing[q] \notin {"trim", "transfer"}

\* "must be called with the device semaphore held", for sculluid.
\* Not kept: README, "Where the code and its words differ".
UserTrimAlone == TrimAlone({User})
=============================================================================
