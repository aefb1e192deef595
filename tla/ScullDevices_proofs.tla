------------------------ MODULE ScullDevices_proofs ------------------------
(* Proofs about the scull devices: those that others may not have              *)
(* (ScullAccess), what the module registers for all of them (ScullModule), and *)
(* the bare one (ScullDev): whatever the shapes, the number of processes and   *)
(* the failures, its list of quantum sets stays what reads and writes rely on, *)
(* and is one sparse file to the programs.                                     *)
EXTENDS ScullDev, ScullAccess, ScullModule, FiniteSetTheorems, SequenceTheorems, TLAPS

-----------------------------------------------------------------------------
(* The access-controlled devices: the conjuncts of IInv one lemma at a time.   *)
(* Every step is one process's, so what it does to the holders of a device is  *)
(* decided by whether that process is one of them before and after it.         *)

\* The types without the ranges of the counts, which follow from ExactCounts.
Types ==
  /\ scull_s_available \in Int /\ scull_u_count \in Int /\ scull_w_count \in Int
  /\ scull_u_owner \in Uids \cup {NoUid} /\ scull_w_owner \in Uids \cup {NoUid}
  /\ scull_w_wait \subseteq Tasks
  /\ scull_c_list \in Seq({tty[p] : p \in Tasks} \ {NoTty})
  /\ doing \in [Tasks -> AccessLabels]
  /\ dev \in [Tasks -> {None, Single, User, Wuser} \cup {Clone(k) : k \in DOMAIN scull_c_list}]

Step(p) == SingleStep(p) \/ UserStep(p) \/ WaitStep(p) \/ CloneStep(p) \/ BareStep(p)

LEMMA DevicesDiffer ==
  /\ None # Single /\ None # User /\ None # Wuser
  /\ Single # User /\ Single # Wuser /\ User # Wuser
  /\ \A k : Clone(k) \notin {None, Single, User, Wuser}
  /\ \A k, j : Clone(k) = Clone(j) => k = j
BY DEF None, Single, User, Wuser, Clone

LEMMA ProcsFinite ==
  ASSUME NEW S \in SUBSET Tasks
  PROVE  /\ IsFiniteSet(S) /\ Cardinality(S) \in Nat
         /\ Cardinality(S) <= Cardinality(Tasks) /\ Cardinality(Tasks) \in Nat
         /\ Cardinality(S) = 0 <=> S = {}
         /\ \A p \in Tasks :
              /\ p \notin S => Cardinality(S \cup {p}) = Cardinality(S) + 1
              /\ p \in S => Cardinality(S \ {p}) = Cardinality(S) - 1
BY AccessAssumption, FS_Subset, FS_CardinalityType, FS_EmptySet, FS_AddElement, FS_RemoveElement

\* A step of p leaves the others where they are.
LEMMA OthersStay ==
  ASSUME Types, NEW p \in Tasks, Step(p)
  PROVE  \A q \in Tasks : q # p => doing'[q] = doing[q] /\ dev'[q] = dev[q]
<1> USE DEF Types, Begin, Fail, Admit, Finish, single, user, wuser
<1>1. CASE SingleStep(p)
  BY <1>1 DEF SingleStep, SingleOpen, SingleBusy, SingleRelease
<1>2. CASE UserStep(p)
  BY <1>2 DEF UserStep, UserOpen, UserRelease
<1>3. CASE WaitStep(p)
  BY <1>3 DEF WaitStep, WaitCall, WaitGrab, WaitBusy, WaitPrepare, WaitLookCount,
              WaitLookOwner, WaitAwake, WaitSignal, WaitRelease, WaitWake
<1>4. CASE CloneStep(p)
  BY <1>4 DEF CloneStep, CloneFound, CloneMade, CloneRelease
<1>5. CASE BareStep(p)
  BY <1>5 DEF BareStep, TrimEnd, Transfer, TransferEnd
<1> QED
  BY <1>1, <1>2, <1>3, <1>4, <1>5 DEF Step

\* How many hold a device after a step of p.
LEMMA HoldersMove ==
  ASSUME NEW p \in Tasks, NEW d,
         \A q \in Tasks : q # p => doing'[q] = doing[q] /\ dev'[q] = dev[q]
  PROVE  /\ Cardinality(Holders(d)) \in Nat
         /\ Has(p, d)' <=> Has(p, d) => Cardinality(Holders(d))' = Cardinality(Holders(d))
         /\ ~Has(p, d) /\ Has(p, d)' => Cardinality(Holders(d))' = Cardinality(Holders(d)) + 1
         /\ Has(p, d) /\ ~Has(p, d)' => Cardinality(Holders(d))' = Cardinality(Holders(d)) - 1
<1>0. Cardinality(Holders(d)) \in Nat
  BY ProcsFinite DEF Holders
<1>1. CASE (Has(p, d)' <=> Has(p, d))
  <2>1. \A q \in Tasks : Has(q, d)' <=> Has(q, d)
    BY <1>1 DEF Has
  <2>2. Holders(d)' = Holders(d)
    BY <2>1 DEF Holders
  <2> QED BY <1>0, <1>1, <2>2
<1>2. CASE ~Has(p, d) /\ Has(p, d)'
  <2>1. Holders(d)' = Holders(d) \cup {p} /\ p \notin Holders(d)
    BY <1>2 DEF Holders, Has
  <2> QED BY <1>0, <1>2, <2>1, ProcsFinite DEF Holders
<1>3. CASE Has(p, d) /\ ~Has(p, d)'
  <2>1. Holders(d)' = Holders(d) \ {p} /\ p \in Holders(d)
    BY <1>3 DEF Holders, Has
  <2> QED BY <1>0, <1>3, <2>1, ProcsFinite DEF Holders
<1> QED
  BY <1>1, <1>2, <1>3

Takes(p) == Has(p, Single) \/ Doing(p, "s_undo")

LEMMA TakersMove ==
  ASSUME NEW p \in Tasks,
         \A q \in Tasks : q # p => doing'[q] = doing[q] /\ dev'[q] = dev[q]
  PROVE  /\ Cardinality(Takers) \in Nat
         /\ Takes(p)' <=> Takes(p) => Cardinality(Takers)' = Cardinality(Takers)
         /\ ~Takes(p) /\ Takes(p)' => Cardinality(Takers)' = Cardinality(Takers) + 1
         /\ Takes(p) /\ ~Takes(p)' => Cardinality(Takers)' = Cardinality(Takers) - 1
<1>0. Cardinality(Takers) \in Nat
  BY ProcsFinite DEF Takers, Holders
<1>1. CASE (Takes(p)' <=> Takes(p))
  <2>1. \A q \in Tasks : Takes(q)' <=> Takes(q)
    BY <1>1 DEF Takes, Has, Doing
  <2>2. Takers' = Takers
    BY <2>1 DEF Takers, Takes, Holders
  <2> QED BY <1>0, <1>1, <2>2
<1>2. CASE ~Takes(p) /\ Takes(p)'
  <2>1. Takers' = Takers \cup {p} /\ p \notin Takers
    BY <1>2 DEF Takers, Takes, Holders, Has, Doing
  <2> QED BY <1>0, <1>2, <2>1, ProcsFinite DEF Takers, Holders
<1>3. CASE Takes(p) /\ ~Takes(p)'
  <2>1. Takers' = Takers \ {p} /\ p \in Takers
    BY <1>3 DEF Takers, Takes, Holders, Has, Doing
  <2> QED BY <1>0, <1>3, <2>1, ProcsFinite DEF Takers, Holders
<1> QED
  BY <1>1, <1>2, <1>3
-----------------------------------------------------------------------------
LEMMA TypesStep == AccessAssumption /\ Types /\ [AccessNext]_accessVars => Types'
<1> SUFFICES ASSUME AccessAssumption, Types, [AccessNext]_accessVars PROVE Types'
  OBVIOUS
<1> USE AccessAssumption DEF Types, Begin, Fail, Admit, Finish, Doing, AccessLabels, Owner, single, user, wuser
<1>1. ASSUME NEW p \in Tasks, SingleStep(p) PROVE Types'
  BY <1>1 DEF SingleStep, SingleOpen, SingleBusy, SingleRelease
<1>2. ASSUME NEW p \in Tasks, UserStep(p) PROVE Types'
  BY <1>2 DEF UserStep, UserOpen, UserRelease
<1>3. ASSUME NEW p \in Tasks, WaitStep(p) PROVE Types'
  <2>1. CASE WaitCall(p) \/ WaitGrab(p) \/ WaitBusy(p) \/ WaitPrepare(p)
    BY <2>1 DEF WaitCall, WaitGrab, WaitBusy, WaitPrepare
  <2>2. CASE WaitLookCount(p) \/ WaitLookOwner(p) \/ WaitAwake(p) \/ WaitSignal(p)
    BY <2>2 DEF WaitLookCount, WaitLookOwner, WaitAwake, WaitSignal
  <2>3. CASE WaitRelease(p) \/ WaitWake(p)
    BY <2>3 DEF WaitRelease, WaitWake
  <2> QED BY <1>3, <2>1, <2>2, <2>3 DEF WaitStep
<1>4. ASSUME NEW p \in Tasks, CloneStep(p) PROVE Types'
  <2>1. CASE CloneFound(p) \/ CloneRelease(p)
    BY <2>1 DEF CloneFound, CloneRelease
  <2>2. CASE CloneMade(p)
    <3>1. /\ scull_c_list' \in Seq({tty[q] : q \in Tasks} \ {NoTty})
          /\ DOMAIN scull_c_list \subseteq DOMAIN scull_c_list'
          /\ Len(scull_c_list') \in DOMAIN scull_c_list'
      BY <2>2 DEF CloneMade
    <3> QED BY <2>2, <3>1 DEF CloneMade
  <2> QED BY <1>4, <2>1, <2>2 DEF CloneStep
<1>5. ASSUME NEW p \in Tasks, BareStep(p) PROVE Types'
  BY <1>5 DEF BareStep, TrimEnd, Transfer, TransferEnd
<1>6. CASE UNCHANGED accessVars
  BY <1>6 DEF accessVars
<1> QED
  BY <1>1, <1>2, <1>3, <1>4, <1>5, <1>6 DEF AccessNext

LEMMA CountsStep == Types /\ ExactCounts /\ [AccessNext]_accessVars => ExactCounts'
<1> SUFFICES ASSUME Types, ExactCounts, [AccessNext]_accessVars PROVE ExactCounts'
  OBVIOUS
<1>0. CASE UNCHANGED accessVars
  BY <1>0 DEF ExactCounts, accessVars, single, user, wuser, Takers, Holders, Has, Doing
<1> SUFFICES ASSUME NEW p \in Tasks, Step(p) PROVE ExactCounts'
  BY <1>0 DEF AccessNext, Step
<1> DEFINE Same(d) == Has(p, d)' <=> Has(p, d)
           Gains(d) == ~Has(p, d) /\ Has(p, d)'
           Loses(d) == Has(p, d) /\ ~Has(p, d)'
           SameTake == Takes(p)' <=> Takes(p)
           OneIn == \/ SameTake /\ scull_s_available' = scull_s_available
                    \/ ~Takes(p) /\ Takes(p)' /\ scull_s_available' = scull_s_available - 1
                    \/ Takes(p) /\ ~Takes(p)' /\ scull_s_available' = scull_s_available + 1
           Counted(d, c, cc) == \/ Same(d) /\ cc = c
                                \/ Gains(d) /\ cc = c + 1
                                \/ Loses(d) /\ cc = c - 1
<1>1. /\ OneIn
      /\ Counted(User, scull_u_count, scull_u_count')
      /\ Counted(Wuser, scull_w_count, scull_w_count')
  <2> USE DevicesDiffer DEF Types, Begin, Fail, Admit, Finish, Doing, Has, Takes, single, user, wuser
  <2>1. CASE SingleStep(p)
    BY <2>1 DEF SingleStep, SingleOpen, SingleBusy, SingleRelease
  <2>2. CASE UserStep(p)
    BY <2>2 DEF UserStep, UserOpen, UserRelease
  <2>3. CASE WaitStep(p)
    <3>1. CASE WaitCall(p) \/ WaitGrab(p) \/ WaitBusy(p) \/ WaitPrepare(p)
      BY <3>1 DEF WaitCall, WaitGrab, WaitBusy, WaitPrepare
    <3>2. CASE WaitLookCount(p) \/ WaitLookOwner(p) \/ WaitAwake(p) \/ WaitSignal(p)
      BY <3>2 DEF WaitLookCount, WaitLookOwner, WaitAwake, WaitSignal
    <3>3. CASE WaitRelease(p) \/ WaitWake(p)
      BY <3>3 DEF WaitRelease, WaitWake
    <3> QED BY <2>3, <3>1, <3>2, <3>3 DEF WaitStep
  <2>4. CASE CloneStep(p)
    <3>1. CASE CloneFound(p) \/ CloneMade(p)
      BY <3>1 DEF CloneFound, CloneMade
    <3>2. CASE CloneRelease(p)
      <4>1. dev[p] # Single /\ dev[p] # User /\ dev[p] # Wuser
        BY <3>2 DEF CloneRelease, Single, User, Wuser
      <4> QED BY <3>2, <4>1 DEF CloneRelease
    <3> QED BY <2>4, <3>1, <3>2 DEF CloneStep
  <2>5. CASE BareStep(p)
    BY <2>5 DEF BareStep, TrimEnd, Transfer, TransferEnd
  <2> QED BY <2>1, <2>2, <2>3, <2>4, <2>5 DEF Step
<1>2. \A q \in Tasks : q # p => doing'[q] = doing[q] /\ dev'[q] = dev[q]
  BY OthersStay
<1>3. scull_s_available' = 1 - Cardinality(Takers)'
  BY <1>1, <1>2, TakersMove DEF ExactCounts
<1>4. scull_u_count' = Cardinality(Holders(User))'
  BY <1>1, <1>2, HoldersMove DEF ExactCounts
<1>5. scull_w_count' = Cardinality(Holders(Wuser))'
  BY <1>1, <1>2, HoldersMove DEF ExactCounts
<1> QED
  BY <1>3, <1>4, <1>5 DEF ExactCounts

-----------------------------------------------------------------------------
\* With exact counts the single device has one holder at most, and a device
\* whose count is 0 has none.
LEMMA FewHolders ==
  ASSUME Types, ExactCounts
  PROVE  /\ scull_s_available = 1 => Takers = {}
         /\ scull_u_count = 0 => Holders(User) = {}
         /\ scull_w_count = 0 => Holders(Wuser) = {}
BY ProcsFinite DEF ExactCounts, Takers, Holders

LEMMA OneOpenStep == Types /\ ExactCounts /\ OneOpen /\ [AccessNext]_accessVars => OneOpen'
<1> SUFFICES ASSUME Types, ExactCounts, OneOpen, [AccessNext]_accessVars PROVE OneOpen'
  OBVIOUS
<1>0. CASE UNCHANGED accessVars
  BY <1>0 DEF OneOpen, accessVars, Holders, Has
<1> SUFFICES ASSUME NEW p \in Tasks, Step(p) PROVE OneOpen'
  BY <1>0 DEF AccessNext, Step
<1>1. \A q \in Tasks : q # p => (Has(q, Single)' <=> Has(q, Single))
  BY OthersStay DEF Has
<1>2. CASE Has(p, Single)' => Has(p, Single)
  BY <1>1, <1>2 DEF OneOpen, Holders
<1>3. CASE Has(p, Single)' /\ ~Has(p, Single)
  <2>1. SingleOpen(p) /\ scull_s_available' = 0
    <3> USE <1>3, DevicesDiffer DEF Types, Begin, Fail, Admit, Finish, Doing, Has
    <3>1. ~UserStep(p)
      BY DEF UserStep, UserOpen, UserRelease
    <3>2. ~WaitStep(p)
      <4>1. ~(WaitCall(p) \/ WaitGrab(p) \/ WaitBusy(p) \/ WaitPrepare(p))
        BY DEF WaitCall, WaitGrab, WaitBusy, WaitPrepare
      <4>2. ~(WaitLookCount(p) \/ WaitLookOwner(p) \/ WaitAwake(p) \/ WaitSignal(p))
        BY DEF WaitLookCount, WaitLookOwner, WaitAwake, WaitSignal
      <4>3. ~(WaitRelease(p) \/ WaitWake(p))
        BY DEF WaitRelease, WaitWake
      <4> QED BY <4>1, <4>2, <4>3 DEF WaitStep
    <3>3. ~CloneStep(p)
      BY DEF CloneStep, CloneFound, CloneMade, CloneRelease
    <3>4. ~BareStep(p)
      BY DEF BareStep, TrimEnd, Transfer, TransferEnd
    <3>5. SingleStep(p)
      BY <3>1, <3>2, <3>3, <3>4 DEF Step
    <3> QED BY <3>5 DEF SingleStep, SingleOpen, SingleBusy, SingleRelease
  <2>2. Takers = {}
    BY <2>1, FewHolders DEF SingleOpen, Types
  <2>3. Holders(Single)' \subseteq {p}
    BY <1>1, <2>2 DEF Takers, Holders
  <2> QED BY <2>3 DEF OneOpen
<1> QED
  BY <1>2, <1>3

LEMMA OneUserStep == Types /\ ExactCounts /\ OneUser /\ [AccessNext]_accessVars => OneUser'
<1> SUFFICES ASSUME Types, ExactCounts, OneUser, [AccessNext]_accessVars PROVE OneUser'
  OBVIOUS
<1>0. CASE UNCHANGED accessVars
  BY <1>0 DEF OneUser, accessVars, user, wuser, Holders, Has, Mine
<1> SUFFICES ASSUME NEW p \in Tasks, Step(p) PROVE OneUser'
  BY <1>0 DEF AccessNext, Step
<1>1. \A d : \A q \in Tasks : q # p => (Has(q, d)' <=> Has(q, d))
  BY OthersStay DEF Has
<1> USE DevicesDiffer, FewHolders DEF Types, OneUser, Holders, Has, Begin, Fail, Admit, Finish, Doing, Mine, Owner, single, user, wuser
<1>2. CASE SingleStep(p)
  BY <1>1, <1>2 DEF SingleStep, SingleOpen, SingleBusy, SingleRelease
<1>3. CASE UserStep(p)
  BY <1>1, <1>3 DEF UserStep, UserOpen, UserRelease
<1>4. CASE WaitStep(p)
  <2>1. CASE WaitGrab(p)
    BY <1>1, <2>1 DEF WaitGrab, scull_w_available
  <2>2. CASE WaitCall(p) \/ WaitBusy(p) \/ WaitPrepare(p)
    BY <1>1, <2>2 DEF WaitCall, WaitBusy, WaitPrepare
  <2>3. CASE WaitLookCount(p) \/ WaitLookOwner(p) \/ WaitAwake(p) \/ WaitSignal(p)
    BY <1>1, <2>3 DEF WaitLookCount, WaitLookOwner, WaitAwake, WaitSignal
  <2>4. CASE WaitRelease(p) \/ WaitWake(p)
    BY <1>1, <2>4 DEF WaitRelease, WaitWake
  <2> QED BY <1>4, <2>1, <2>2, <2>3, <2>4 DEF WaitStep
<1>5. CASE CloneStep(p)
  BY <1>1, <1>5 DEF CloneStep, CloneFound, CloneMade, CloneRelease
<1>6. CASE BareStep(p)
  BY <1>1, <1>6 DEF BareStep, TrimEnd, Transfer, TransferEnd
<1> QED BY <1>2, <1>3, <1>4, <1>5, <1>6 DEF Step

-----------------------------------------------------------------------------
\* A waker stays one until it has emptied the wait queue.
LEMMA ToldStep == Types /\ ExactCounts /\ NotStranded /\ Told /\ [AccessNext]_accessVars => NotStranded' /\ Told'
<1> SUFFICES ASSUME Types, ExactCounts, NotStranded, Told, [AccessNext]_accessVars PROVE NotStranded' /\ Told'
  OBVIOUS
<1>0. CASE UNCHANGED accessVars
  BY <1>0 DEF NotStranded, Told, accessVars, wuser, Asleep, Doing, scull_w_available, Mine
<1> SUFFICES ASSUME NEW p \in Tasks, Step(p) PROVE NotStranded' /\ Told'
  BY <1>0 DEF AccessNext, Step
<1>1. \A q \in Tasks : q # p => doing'[q] = doing[q]
  BY OthersStay
<1>w. ASSUME ~Doing(p, "w_wake"), \E q \in Tasks : Doing(q, "w_wake")
      PROVE  (\E q \in Tasks : Doing(q, "w_wake"))'
  BY <1>1, <1>w DEF Doing
<1>2. CASE SingleStep(p) \/ UserStep(p) \/ CloneStep(p) \/ BareStep(p)
  <2>1. UNCHANGED wuser /\ ~Doing(p, "w_wake")
    BY <1>2 DEF SingleStep, SingleOpen, SingleBusy, SingleRelease, UserStep, UserOpen, UserRelease,
                CloneStep, CloneFound, CloneMade, CloneRelease, BareStep, TrimEnd, Transfer,
                TransferEnd, Doing
  <2>2. doing'[p] \notin {"w_sleep", "w_owner"}
    BY <1>2 DEF SingleStep, SingleOpen, SingleBusy, SingleRelease, UserStep, UserOpen, UserRelease,
                CloneStep, CloneFound, CloneMade, CloneRelease, BareStep, TrimEnd, Transfer,
                TransferEnd, Types, Begin, Fail, Admit
  <2> QED
    BY <1>1, <1>w, <2>1, <2>2 DEF NotStranded, Told, Asleep, Doing, scull_w_available, Mine, wuser, Types
<1>3. CASE WaitCall(p) \/ WaitBusy(p) \/ WaitPrepare(p) \/ WaitLookCount(p) \/ WaitAwake(p)
  <2>1. UNCHANGED <<scull_w_count, scull_w_owner>> /\ ~Doing(p, "w_wake")
    BY <1>3 DEF WaitCall, WaitBusy, WaitPrepare, WaitLookCount, WaitAwake, Doing, wuser
  <2>2. doing'[p] # "w_sleep" /\ (doing'[p] = "w_owner" => scull_w_count # 0)
    BY <1>3 DEF WaitCall, WaitBusy, WaitPrepare, WaitLookCount, WaitAwake, Types, Begin, Fail, Finish
  <2>3. \A q \in scull_w_wait' : q # p => q \in scull_w_wait
    BY <1>3 DEF WaitCall, WaitBusy, WaitPrepare, WaitLookCount, WaitAwake, Finish, wuser
  <2> QED
    BY <1>1, <1>w, <2>1, <2>2, <2>3 DEF NotStranded, Told, Asleep, Doing, scull_w_available, Mine, Types
<1>4. CASE WaitLookOwner(p)
  <2>1. UNCHANGED <<scull_w_count, scull_w_owner>> /\ ~Doing(p, "w_wake") /\ doing'[p] # "w_owner"
    BY <1>4 DEF WaitLookOwner, Doing, Types, Begin, Finish
  <2>2. doing'[p] = "w_sleep" => ~Mine(p, scull_w_owner) /\ Doing(p, "w_owner")
    BY <1>4 DEF WaitLookOwner, Doing, Types, Begin, Finish
  <2>3. scull_w_wait' \subseteq scull_w_wait
    BY <1>4 DEF WaitLookOwner, Finish
  <2> QED
    BY <1>1, <1>w, <2>1, <2>2, <2>3 DEF NotStranded, Told, Asleep, Doing, scull_w_available, Mine, Types
<1>5. CASE WaitSignal(p)
  <2>1. /\ UNCHANGED <<scull_w_count, scull_w_owner>> /\ ~Doing(p, "w_wake")
        /\ doing'[p] \notin {"w_sleep", "w_owner"} /\ scull_w_wait' \subseteq scull_w_wait
    BY <1>5 DEF WaitSignal, Doing, Types, Begin, Fail
  <2> QED
    BY <1>1, <1>w, <2>1 DEF NotStranded, Told, Asleep, Doing, scull_w_available, Mine, Types
<1>6. CASE WaitGrab(p)
  <2>1. /\ scull_w_wait' = scull_w_wait /\ ~Doing(p, "w_wake")
        /\ doing'[p] \notin {"w_sleep", "w_owner"}
        /\ scull_w_count # 0 => scull_w_owner' = scull_w_owner
    BY <1>6 DEF WaitGrab, Doing, Types, Begin, Admit, Owner
  <2>0. scull_w_count' # 0
    BY <1>6, ProcsFinite DEF WaitGrab, ExactCounts, Holders
  <2>2. Told'
    BY <2>0 DEF Told
  <2>3. NotStranded'
    <3> SUFFICES ASSUME NEW q \in Tasks, Asleep(q)', scull_w_available(q)'
                 PROVE  (\E r \in Tasks : Doing(r, "w_wake"))'
      BY DEF NotStranded
    <3>1. Asleep(q)
      BY <1>1, <2>1 DEF Asleep, Doing
    <3>2. scull_w_available(q)
      BY <2>0, <2>1 DEF scull_w_available, Mine
    <3> QED BY <1>w, <2>1, <3>1, <3>2 DEF NotStranded
  <2> QED BY <2>2, <2>3
<1>7. CASE WaitRelease(p)
  <2>1. /\ scull_w_wait' = scull_w_wait /\ scull_w_owner' = scull_w_owner
        /\ ~Doing(p, "w_wake") /\ doing'[p] \notin {"w_sleep", "w_owner"}
        /\ scull_w_count' = 0 => doing'[p] = "w_wake"
    BY <1>7 DEF WaitRelease, Doing, Types, Begin, Fail
  <2>2. CASE scull_w_count' = 0
    BY <2>1, <2>2 DEF NotStranded, Told, Doing
  <2>3. CASE scull_w_count' # 0
    BY <1>1, <1>w, <2>1, <2>3 DEF NotStranded, Told, Asleep, Doing, scull_w_available, Mine
  <2> QED BY <2>2, <2>3
<1>8. CASE WaitWake(p)
  BY <1>8 DEF WaitWake, NotStranded, Told, Asleep
<1> QED
  BY <1>2, <1>3, <1>4, <1>5, <1>6, <1>7, <1>8 DEF Step, WaitStep

LEMMA CloneMovesStep == Types /\ OwnClone /\ [AccessNext]_accessVars => OwnClone'
<1> SUFFICES ASSUME Types, OwnClone, [AccessNext]_accessVars PROVE OwnClone'
  OBVIOUS
<1>0. CASE UNCHANGED accessVars
  BY <1>0 DEF OwnClone, accessVars, Has
<1> SUFFICES ASSUME NEW p \in Tasks, Step(p) PROVE OwnClone'
  BY <1>0 DEF AccessNext, Step
<1>1. \A d : \A q \in Tasks : q # p => (Has(q, d)' <=> Has(q, d))
  BY OthersStay DEF Has
<1>2. ASSUME UNCHANGED scull_c_list,
             \A k \in DOMAIN scull_c_list : Has(p, Clone(k))' => Has(p, Clone(k))
      PROVE  OwnClone'
  BY <1>1, <1>2 DEF OwnClone
<1> USE DevicesDiffer DEF Types, Begin, Fail, Admit, Finish, Doing
<1>3. CASE SingleStep(p) \/ UserStep(p) \/ BareStep(p)
  BY <1>2, <1>3 DEF SingleStep, SingleOpen, SingleBusy, SingleRelease, UserStep, UserOpen,
                    UserRelease, BareStep, TrimEnd, Transfer, TransferEnd, Has
<1>4. CASE WaitStep(p)
  <2>1. CASE WaitCall(p) \/ WaitGrab(p) \/ WaitBusy(p) \/ WaitPrepare(p)
    BY <1>2, <2>1 DEF WaitCall, WaitGrab, WaitBusy, WaitPrepare, Has
  <2>2. CASE WaitLookCount(p) \/ WaitLookOwner(p) \/ WaitAwake(p) \/ WaitSignal(p)
    BY <1>2, <2>2 DEF WaitLookCount, WaitLookOwner, WaitAwake, WaitSignal, Has
  <2>3. CASE WaitRelease(p) \/ WaitWake(p)
    BY <1>2, <2>3 DEF WaitRelease, WaitWake, Has
  <2> QED BY <1>4, <2>1, <2>2, <2>3 DEF WaitStep
<1>5. CASE CloneFound(p)
  <2>1. PICK k \in DOMAIN scull_c_list : scull_c_list[k] = tty[p] /\ Admit(p, Clone(k))
    BY <1>5 DEF CloneFound
  <2>2. \A j : Has(p, Clone(j))' => j = k
    BY <2>1 DEF Has
  <2>3. UNCHANGED scull_c_list
    BY <1>5 DEF CloneFound
  <2> QED BY <1>1, <2>1, <2>2, <2>3 DEF OwnClone
<1>6. CASE CloneMade(p)
  <2> DEFINE n == Len(scull_c_list)
  <2>1. /\ n \in Nat /\ DOMAIN scull_c_list = 1..n
        /\ DOMAIN scull_c_list' = 1..(n + 1)
        /\ \A k \in 1..n : scull_c_list'[k] = scull_c_list[k]
        /\ scull_c_list'[n + 1] = tty[p]
        /\ Len(scull_c_list') = n + 1
    BY <1>6 DEF CloneMade
  <2>2. \A k \in 1..n : scull_c_list[k] # tty[p]
    BY <1>6, <2>1 DEF CloneMade, Keys
  <2>3. \A j : Has(p, Clone(j))' => j = n + 1
    BY <1>6, <2>1 DEF CloneMade, Has
  <2>4. \A q \in Tasks : q # p => ~Has(q, Clone(n + 1))
    BY <2>1 DEF Has
  <2>5. \A k \in 1..(n + 1) : k # n + 1 => k \in 1..n
    BY <2>1
  <2>6. \A k, j \in DOMAIN scull_c_list' : scull_c_list'[k] = scull_c_list'[j] => k = j
    BY <2>1, <2>2, <2>5 DEF OwnClone
  <2>7. \A q \in Tasks, k \in DOMAIN scull_c_list' : Has(q, Clone(k))' => scull_c_list'[k] = tty[q]
    BY <1>1, <2>1, <2>3, <2>4, <2>5 DEF OwnClone
  <2> QED BY <2>6, <2>7 DEF OwnClone
<1>7. CASE CloneRelease(p)
  BY <1>2, <1>7 DEF CloneRelease, Has
<1> QED
  BY <1>3, <1>4, <1>5, <1>6, <1>7 DEF Step, CloneStep

-----------------------------------------------------------------------------
LEMMA Start == AccessInit => Types /\ ExactCounts /\ OneOpen /\ OneUser /\ NotStranded /\ Told /\ OwnClone
<1> SUFFICES ASSUME AccessInit
             PROVE  Types /\ ExactCounts /\ OneOpen /\ OneUser /\ NotStranded /\ Told /\ OwnClone
  OBVIOUS
<1>1. Types
  BY AccessAssumption DEF AccessInit, Types, AccessLabels
<1>2. Holders(User) = {} /\ Holders(Wuser) = {} /\ Holders(Single) = {} /\ Takers = {}
  BY DEF AccessInit, Holders, Takers, Has, Doing
<1> QED
  BY <1>1, <1>2, FS_EmptySet
     DEF AccessInit, ExactCounts, OneOpen, OneUser, NotStranded, Told, OwnClone, Asleep, Doing

\* What is inductive, without the ranges of AccessTypes.
LEMMA Inductive ==
  AccessSpec => [](Types /\ ExactCounts /\ OneOpen /\ OneUser /\ NotStranded /\ Told /\ OwnClone)
<1>1. Types /\ ExactCounts /\ OneOpen /\ OneUser /\ NotStranded /\ Told /\ OwnClone /\ [AccessNext]_accessVars
      => (Types /\ ExactCounts /\ OneOpen /\ OneUser /\ NotStranded /\ Told /\ OwnClone)'
  BY TypesStep, CountsStep, OneOpenStep, OneUserStep, ToldStep, CloneMovesStep, AccessAssumption
<1> QED
  BY Start, <1>1, PTL DEF AccessSpec

\* The variables keep their types for any number of processes: no count leaves
\* its range, so none is ever taken or given back twice.
THEOREM TypeCorrect == AccessSpec => []AccessTypes
<1>1. Types /\ ExactCounts => AccessTypes
  <2> SUFFICES ASSUME Types, ExactCounts PROVE AccessTypes
    OBVIOUS
  <2>1. /\ Takers \subseteq Tasks /\ Holders(User) \subseteq Tasks /\ Holders(Wuser) \subseteq Tasks
    BY DEF Takers, Holders
  <2> QED BY <2>1, ProcsFinite DEF Types, ExactCounts, AccessTypes
<1> QED
  BY Inductive, <1>1, PTL

\* Every count is exact whatever opens fail, wait or are interrupted.
THEOREM CountsAreExact == AccessSpec => []ExactCounts
BY Inductive, PTL

\* scullsingle never has two processes.
THEOREM OneProcessOnSingle == AccessSpec => []OneOpen
BY Inductive, PTL

\* sculluid and scullwuid never have two users at a time, root apart.
THEOREM OneUserAtATime == AccessSpec => []OneUser
BY Inductive, PTL

\* No wake-up of an opener of scullwuid is lost.
THEOREM NoLostOpener == AccessSpec => []NotStranded
BY Inductive, PTL

\* Every terminal has one scullpriv device, and its processes that one.
THEOREM TerminalsKeepApart == AccessSpec => []OwnClone
BY Inductive, PTL

-----------------------------------------------------------------------------
(* The life of the module: for any number of devices and pipes, a cleanup      *)
(* takes back what initialisation gave and only that.  It tests some pointers  *)
(* and not others, so ModuleInv says for each stage what the pointers, the     *)
(* numbers, the regions, the structures and the heap are.  Three failures      *)
(* break it: README, "Where the code and its words differ".                    *)

Stages == {"out", "alloc", "scull", "p_region", "p_alloc", "scullp", "a_region", "sculla",
           "live", "c_scull", "c_scullp", "c_sculla"}
CdevStates == {"zero", "init", "added", "put"}
Ready      == {"init", "added"}

(* The stretches of the module's life in which something is there.             *)
Registered   == {"alloc", "scull", "p_region", "p_alloc", "scullp", "a_region", "sculla", "live",
                 "c_scull"}
Allocated    == Registered \ {"alloc"}
Loaded       == Stages \ {"out", "alloc"}
HasAccess    == {"sculla", "live", "c_scull", "c_scullp", "c_sculla"}
MayHavePipes == {"scullp", "a_region", "sculla", "live", "c_scull", "c_scullp"}
NoFiles      == {"out", "c_scull", "c_scullp", "c_sculla"}
Cleaned      == NoFiles \ {"out"}

(* The access devices have got their numbers.                                  *)
HasNumbers == stage \in HasAccess /\ scull_devices /\ <<"sculla">> \notin missed

ModuleTypes ==
  /\ stage \in Stages /\ i \in Nat /\ firstdev \in Nat
  /\ scull_devices \in BOOLEAN /\ scull_p_devices \in BOOLEAN
  /\ scull_p_devno \in Nat /\ scull_a_firstdev \in Nat
  /\ cdev \in [AllDevs -> CdevStates]
  /\ clones \subseteq Terminals
  /\ files \in [AllDevs -> {0, 1}]

(* scull_devices stays set when what it points to is freed.                    *)
PointersRight ==
  /\ scull_devices => stage \in Loaded
  /\ stage \in Loaded \ Cleaned => scull_devices
  /\ scull_p_devices => stage \in MayHavePipes
  /\ stage = "scullp" => scull_p_devices

(* What was missed is what the cleanup will find missing.                      *)
MissedRight ==
  /\ stage \in {"alloc", "scull", "p_region", "p_alloc", "scullp", "a_region"} => missed = {}
  /\ stage = "sculla" => <<"sculla">> \notin missed
  /\ stage \in Cleaned /\ ~scull_devices => <<"scull_devices">> \in missed

WrongRight ==
  \A x \in wrong : x[1] = "sculla" /\ (x \in missed \/ <<"sculla">> \in missed \/ <<"scull_devices">> \in missed)

(* Each part has the numbers behind those of the parts before it.              *)
NumbersRight ==
  /\ stage \in {"p_region", "p_alloc", "scullp"} => firstdev = scull_nr_devs
  /\ stage = "p_alloc" \/ scull_p_devices => scull_p_devno = scull_nr_devs
  /\ stage \in {"out", "alloc", "scull"} => firstdev = 0
  /\ stage = "a_region" => /\ firstdev \in {scull_nr_devs, scull_nr_devs + scull_p_nr_devs}
                           /\ scull_p_devices => firstdev = scull_nr_devs + scull_p_nr_devs
  /\ stage = "sculla" => firstdev = scull_a_firstdev
  /\ HasNumbers =>
       /\ scull_a_firstdev \in {scull_nr_devs, scull_nr_devs + scull_p_nr_devs}
       /\ scull_p_devices => scull_a_firstdev = scull_nr_devs + scull_p_nr_devs

RegionsRight ==
  regions = (IF stage \in Registered THEN {Region("scull", 0)} ELSE {})
    \cup (IF stage = "p_alloc" \/ scull_p_devices THEN {Region("scullp", scull_p_devno)} ELSE {})
    \cup (IF HasNumbers THEN {Region("sculla", scull_a_firstdev)} ELSE {})

(* The k-th device of each part.                                               *)
ScullCdev(k) ==
  /\ ~scull_devices \/ (stage = "scull" /\ k >= i) => cdev[<<"scull", k>>] = "zero"
  /\ /\ scull_devices
     /\ \/ stage = "scull" /\ k < i
        \/ stage \in Allocated \ {"scull", "c_scull"}
        \/ stage = "c_scull" /\ k >= i
     => cdev[<<"scull", k>>] \in Ready
  /\ scull_devices /\ (stage \in {"c_scullp", "c_sculla"} \/ (stage = "c_scull" /\ k < i))
       => cdev[<<"scull", k>>] = "put"

PipeCdev(k) ==
  /\ stage \in Stages \ (MayHavePipes \cup {"c_sculla"}) \/ (stage = "scullp" /\ k >= i)
       => cdev[<<"scullp", k>>] = "zero"
  /\ scull_p_devices /\ (stage = "scullp" => k < i) /\ (stage = "c_scullp" => k >= i)
       => cdev[<<"scullp", k>>] \in Ready
  /\ stage = "c_scullp" /\ k < i => cdev[<<"scullp", k>>] = "put"
  /\ ~scull_p_devices => cdev[<<"scullp", k>>] # "added"

AccessCdev(k) ==
  /\ stage \notin HasAccess \/ (stage = "sculla" /\ k >= i) => cdev[<<"sculla", k>>] = "zero"
  /\ stage \in HasAccess /\ ~HasNumbers /\ (stage = "c_sculla" => k >= i)
       => cdev[<<"sculla", k>>] = "zero"
  /\ HasNumbers /\ (stage = "sculla" => k < i) /\ (stage = "c_sculla" => k >= i)
       => \/ cdev[<<"sculla", k>>] = "added"
          \/ cdev[<<"sculla", k>>] = "put" /\ <<"sculla", k>> \in missed
  /\ stage = "c_sculla" /\ k < i => cdev[<<"sculla", k>>] = "put"

ScullCdevs == \A k \in 0 .. scull_nr_devs - 1 : ScullCdev(k)
PipeCdevs == \A k \in 0 .. scull_p_nr_devs - 1 : PipeCdev(k)
AccessCdevs == \A k \in 0 .. 3 : AccessCdev(k)

(* How far the loop has come that sets up or removes the devices of a part.    *)
CountRight ==
  /\ stage \in {"scull", "c_scull"} => i <= scull_nr_devs
  /\ stage \in {"scullp", "c_scullp"} => i <= scull_p_nr_devs
  /\ stage \in {"sculla", "c_sculla"} => i <= 4
  /\ stage = "c_scullp" /\ ~scull_p_devices => i = 0

FilesRight == \A d \in AllDevs : files[d] > 0 => cdev[d] = "added" /\ stage \notin NoFiles

(* Data and buffers belong to devices that can be opened, clones to terminals. *)
HeapRight ==
  /\ <<"scull_devices">> \in heap <=> stage \in Allocated /\ scull_devices
  /\ <<"scull_p_devices">> \in heap <=> scull_p_devices
  /\ heap \subseteq {<<"scull_devices">>, <<"scull_p_devices">>}
       \cup {<<"data", d>> : d \in {e \in AllDevs : cdev[e] = "added"}}
       \cup {<<"buffer", d>> : d \in {e \in AllDevs : files[e] > 0}}
       \cup {<<"clone", k>> : k \in clones} \cup {<<"data", k>> : k \in clones}
  /\ stage = "out" => clones = {}

ModuleInv == ModuleTypes /\ PointersRight /\ MissedRight /\ WrongRight /\ NumbersRight /\ RegionsRight /\ ScullCdevs /\ PipeCdevs
  /\ AccessCdevs /\ CountRight /\ FilesRight /\ HeapRight

-----------------------------------------------------------------------------
(* Numbers and devices.                                                       *)

LEMMA NrOf == /\ Nr("scull") = scull_nr_devs /\ Nr("scullp") = scull_p_nr_devs /\ Nr("sculla") = 4
              /\ scull_nr_devs \in Nat /\ scull_p_nr_devs \in Nat
<1>1. Nr("scull") = scull_nr_devs /\ Nr("scullp") = scull_p_nr_devs /\ Nr("sculla") = 4
  BY Zenon DEF Nr, SCULL_N_ADEVS
<1> QED
  BY <1>1, ModuleAssumption

LEMMA NumberOf ==
  ASSUME NEW d
  PROVE  /\ d[1] = "scull" => Number(d) = d[2] + 0
         /\ d[1] = "scullp" => Number(d) = d[2] + scull_p_devno
         /\ d[1] = "sculla" => Number(d) = d[2] + scull_a_firstdev
BY Zenon DEF Number

LEMMA Devices ==
  ASSUME NEW d
  PROVE  d \in AllDevs <=> \/ \E k \in 0 .. scull_nr_devs - 1 : d = <<"scull", k>>
                           \/ \E k \in 0 .. scull_p_nr_devs - 1 : d = <<"scullp", k>>
                           \/ \E k \in 0 .. 3 : d = <<"sculla", k>>
BY NrOf DEF AllDevs, Devs, Parts

(* A name of one part is no pair.                                              *)
LEMMA NoPair == ASSUME NEW a, NEW b, NEW c PROVE <<a>> # <<b, c>>
OBVIOUS

(* The device of the part that is being set up or removed changes, and the     *)
(* others do not.                                                              *)
Changed(part, v) ==
  /\ cdev' \in [AllDevs -> CdevStates] /\ <<part, i>> \in AllDevs
  /\ \A d \in AllDevs : cdev'[d] = IF d = <<part, i>> THEN v ELSE cdev[d]
  /\ \A k \in 0 .. scull_nr_devs - 1 :
       cdev'[<<"scull", k>>] = IF part = "scull" /\ k = i THEN v ELSE cdev[<<"scull", k>>]
  /\ \A k \in 0 .. scull_p_nr_devs - 1 :
       cdev'[<<"scullp", k>>] = IF part = "scullp" /\ k = i THEN v ELSE cdev[<<"scullp", k>>]
  /\ \A k \in 0 .. 3 :
       cdev'[<<"sculla", k>>] = IF part = "sculla" /\ k = i THEN v ELSE cdev[<<"sculla", k>>]

LEMMA TheDevices ==
  /\ \A k \in 0 .. scull_nr_devs - 1 : <<"scull", k>> \in AllDevs
  /\ \A k \in 0 .. scull_p_nr_devs - 1 : <<"scullp", k>> \in AllDevs
  /\ \A k \in 0 .. 3 : <<"sculla", k>> \in AllDevs
BY Devices

LEMMA OneDevice ==
  ASSUME NEW part \in Parts, i \in 0 .. Nr(part) - 1, NEW v \in CdevStates,
         cdev \in [AllDevs -> CdevStates], cdev' = [cdev EXCEPT ![<<part, i>>] = v]
  PROVE  Changed(part, v)
<1>1. <<part, i>> \in AllDevs
  BY DEF AllDevs, Devs
<1>2. \A d \in AllDevs : cdev'[d] = IF d = <<part, i>> THEN v ELSE cdev[d]
  OBVIOUS
<1>3. cdev' \in [AllDevs -> CdevStates]
  BY <1>1
<1> QED
  BY <1>1, <1>2, <1>3, TheDevices DEF Changed

USE DEF Stages, Registered, Allocated, Loaded, HasAccess, MayHavePipes, NoFiles, Cleaned, HasNumbers,
        Ready

-----------------------------------------------------------------------------
(* Initialisation.                                                            *)

(* The number of bare devices or that of pipes is not zero.                    *)
SomeDevice == scull_nr_devs # 0 \/ scull_p_nr_devs # 0

LEMMA InitRegionStep ==
  ASSUME ModuleInv, InitRegion
  PROVE  ModuleInv'
<1>1. /\ stage = "out"
      /\ \/ regions' = regions \cup {Region("scull", 0)} /\ stage' = "alloc" /\ i' = 0 /\ missed' = {} /\ wrong' = {}
         \/ UNCHANGED <<stage, i, regions, missed, wrong>>
      /\ UNCHANGED <<firstdev, pointers, cdev, clones, heap, files>>
  BY NrOf DEF InitRegion, AtStage, Enter, Fails, ModuleInv, ModuleTypes, CountRight
<1>2. ModuleTypes'
  BY <1>1, NrOf DEF ModuleInv, ModuleTypes, pointers
<1>3. PointersRight'
  BY <1>1, NrOf DEF ModuleInv, PointersRight, pointers
<1>4. NumbersRight'
  BY <1>1, NrOf DEF ModuleInv, NumbersRight, MissedRight, PointersRight, ModuleTypes, pointers
<1>5. RegionsRight'
  BY <1>1, NrOf DEF ModuleInv, RegionsRight, MissedRight, PointersRight, NumbersRight, ModuleTypes, Region, pointers
<1>6. ScullCdevs'
  <2> SUFFICES ASSUME NEW k \in 0 .. scull_nr_devs - 1 PROVE ScullCdev(k)'
    BY DEF ScullCdevs
  <2> QED
    BY <1>1, NrOf DEF ModuleInv, ScullCdevs, ScullCdev, ModuleTypes, CountRight, PointersRight, pointers
<1>7. PipeCdevs'
  <2> SUFFICES ASSUME NEW k \in 0 .. scull_p_nr_devs - 1 PROVE PipeCdev(k)'
    BY DEF PipeCdevs
  <2> QED
    BY <1>1, NrOf DEF ModuleInv, PipeCdevs, PipeCdev, ModuleTypes, CountRight, PointersRight, pointers
<1>8. AccessCdevs'
  <2> SUFFICES ASSUME NEW k \in 0 .. 3 PROVE AccessCdev(k)'
    BY DEF AccessCdevs
  <2> QED
    BY <1>1, NrOf DEF ModuleInv, MissedRight, AccessCdevs, AccessCdev, ModuleTypes, CountRight, PointersRight, pointers
<1>9. CountRight'
  BY <1>1, NrOf DEF ModuleInv, CountRight, ModuleTypes, PointersRight, pointers
<1>10. FilesRight'
  BY <1>1, NrOf DEF ModuleInv, FilesRight, ModuleTypes, ScullCdevs, PipeCdevs, AccessCdevs, pointers
<1>11. HeapRight'
  BY <1>1, NrOf, NoPair DEF ModuleInv, HeapRight, PointersRight, FilesRight, ModuleTypes, pointers
<1>12. MissedRight'
  BY <1>1, NrOf DEF ModuleInv, MissedRight, PointersRight, ModuleTypes, pointers
<1>13. WrongRight'
  BY <1>1 DEF ModuleInv, WrongRight, MissedRight, ModuleTypes, pointers
<1> QED
  BY <1>2, <1>3, <1>4, <1>5, <1>6, <1>7, <1>8, <1>9, <1>10, <1>11, <1>12, <1>13 DEF ModuleInv

LEMMA InitAllocStep ==
  ASSUME ModuleInv, InitAlloc
  PROVE  ModuleInv'
<1>1. /\ stage = "alloc"
      /\ i' = 0
      /\ \/ /\ heap' = heap \cup {<<"scull_devices">>} /\ scull_devices' = TRUE /\ stage' = "scull"
            /\ missed' = missed
         \/ /\ stage' = "c_scull" /\ missed' = missed \cup {<<"scull_devices">>}
            /\ UNCHANGED <<heap, scull_devices>>
      /\ UNCHANGED <<firstdev, scull_p_devices, scull_p_devno, scull_a_firstdev, cdev, clones, regions, files, wrong>>
  BY NrOf DEF InitAlloc, AtStage, Enter, Fails, ModuleInv, ModuleTypes, CountRight
<1>2. ModuleTypes'
  BY <1>1, NrOf DEF ModuleInv, ModuleTypes, pointers
<1>3. PointersRight'
  BY <1>1, NrOf DEF ModuleInv, PointersRight, pointers
<1>4. NumbersRight'
  BY <1>1, NrOf DEF ModuleInv, NumbersRight, MissedRight, PointersRight, ModuleTypes, pointers
<1>5. RegionsRight'
  BY <1>1, NrOf DEF ModuleInv, RegionsRight, MissedRight, PointersRight, NumbersRight, ModuleTypes, Region, pointers
<1>6. ScullCdevs'
  <2> SUFFICES ASSUME NEW k \in 0 .. scull_nr_devs - 1 PROVE ScullCdev(k)'
    BY DEF ScullCdevs
  <2> QED
    BY <1>1, NrOf DEF ModuleInv, ScullCdevs, ScullCdev, ModuleTypes, CountRight, PointersRight, pointers
<1>7. PipeCdevs'
  <2> SUFFICES ASSUME NEW k \in 0 .. scull_p_nr_devs - 1 PROVE PipeCdev(k)'
    BY DEF PipeCdevs
  <2> QED
    BY <1>1, NrOf DEF ModuleInv, PipeCdevs, PipeCdev, ModuleTypes, CountRight, PointersRight, pointers
<1>8. AccessCdevs'
  <2> SUFFICES ASSUME NEW k \in 0 .. 3 PROVE AccessCdev(k)'
    BY DEF AccessCdevs
  <2> QED
    BY <1>1, NrOf DEF ModuleInv, MissedRight, AccessCdevs, AccessCdev, ModuleTypes, CountRight, PointersRight, pointers
<1>9. CountRight'
  BY <1>1, NrOf DEF ModuleInv, CountRight, ModuleTypes, PointersRight, pointers
<1>10. FilesRight'
  <2>1. \A d \in AllDevs : cdev[d] = "zero"
    <3>1. \A k \in 0 .. scull_nr_devs - 1 : cdev[<<"scull", k>>] = "zero"
      BY <1>1 DEF ModuleInv, PointersRight, ScullCdevs, ScullCdev
    <3>2. \A k \in 0 .. scull_p_nr_devs - 1 : cdev[<<"scullp", k>>] = "zero"
      BY <1>1 DEF ModuleInv, PipeCdevs, PipeCdev
    <3>3. \A k \in 0 .. 3 : cdev[<<"sculla", k>>] = "zero"
      BY <1>1 DEF ModuleInv, AccessCdevs, AccessCdev
    <3> QED
      BY <3>1, <3>2, <3>3, Devices
  <2> QED
    BY <1>1, <2>1 DEF ModuleInv, FilesRight
<1>11. HeapRight'
  BY <1>1, NrOf, NoPair DEF ModuleInv, HeapRight, PointersRight, FilesRight, ModuleTypes, pointers
<1>12. MissedRight'
  BY <1>1, NrOf DEF ModuleInv, MissedRight, PointersRight, ModuleTypes, pointers
<1>13. WrongRight'
  BY <1>1 DEF ModuleInv, WrongRight, MissedRight, ModuleTypes, pointers
<1> QED
  BY <1>2, <1>3, <1>4, <1>5, <1>6, <1>7, <1>8, <1>9, <1>10, <1>11, <1>12, <1>13 DEF ModuleInv

LEMMA SetupScullStep ==
  ASSUME ModuleInv, SetupCdev("scull")
  PROVE  ModuleInv'
<1>1. /\ stage = "scull" /\ i \in 0 .. Nr("scull") - 1 /\ i' = i + 1
      /\ UNCHANGED <<stage, firstdev, pointers, clones, regions, heap, files, missed, wrong>>
  BY NrOf DEF SetupCdev, AtStage, Fails, ModuleInv, ModuleTypes, CountRight
<1>2. PICK v \in Ready : cdev' = [cdev EXCEPT ![<<"scull", i>>] = v]
  BY NrOf DEF SetupCdev, Fails
<1>3. v \in CdevStates /\ cdev \in [AllDevs -> CdevStates] /\ "scull" \in Parts
  BY DEF CdevStates, ModuleInv, ModuleTypes, Parts
<1>4. Changed("scull", v)
  BY <1>1, <1>2, <1>3, OneDevice
<1>5. cdev[<<"scull", i>>] = "zero"
  BY <1>1, NrOf DEF ModuleInv, ScullCdevs, ScullCdev
<1>6. ModuleTypes'
  BY <1>1, <1>2, <1>4, <1>5, NrOf DEF ModuleInv, ModuleTypes, pointers, Changed
<1>7. PointersRight'
  BY <1>1, <1>2, <1>4, <1>5, NrOf DEF ModuleInv, PointersRight, pointers, Changed
<1>8. NumbersRight'
  BY <1>1, <1>2, <1>4, <1>5, NrOf DEF ModuleInv, NumbersRight, MissedRight, PointersRight, ModuleTypes, pointers, Changed
<1>9. RegionsRight'
  BY <1>1, <1>2, <1>4, <1>5, NrOf DEF ModuleInv, RegionsRight, MissedRight, PointersRight, NumbersRight, ModuleTypes, Region, pointers, Changed
<1>10. ScullCdevs'
  <2> SUFFICES ASSUME NEW k \in 0 .. scull_nr_devs - 1 PROVE ScullCdev(k)'
    BY DEF ScullCdevs
  <2> QED
    BY <1>1, <1>2, <1>4, <1>5, NrOf DEF ModuleInv, ScullCdevs, ScullCdev, ModuleTypes, CountRight, PointersRight, pointers, Changed
<1>11. PipeCdevs'
  <2> SUFFICES ASSUME NEW k \in 0 .. scull_p_nr_devs - 1 PROVE PipeCdev(k)'
    BY DEF PipeCdevs
  <2> QED
    BY <1>1, <1>2, <1>4, <1>5, NrOf DEF ModuleInv, PipeCdevs, PipeCdev, ModuleTypes, CountRight, PointersRight, pointers, Changed
<1>12. AccessCdevs'
  <2> SUFFICES ASSUME NEW k \in 0 .. 3 PROVE AccessCdev(k)'
    BY DEF AccessCdevs
  <2> QED
    BY <1>1, <1>2, <1>4, <1>5, NrOf DEF ModuleInv, MissedRight, AccessCdevs, AccessCdev, ModuleTypes, CountRight, PointersRight, pointers, Changed
<1>13. CountRight'
  BY <1>1, <1>2, <1>4, <1>5, NrOf DEF ModuleInv, CountRight, ModuleTypes, PointersRight, pointers, Changed
<1>14. FilesRight'
  BY <1>1, <1>2, <1>4, <1>5, NrOf DEF ModuleInv, FilesRight, ModuleTypes, ScullCdevs, PipeCdevs, AccessCdevs, pointers, Changed
<1>15. HeapRight'
  BY <1>1, <1>2, <1>4, <1>5, NrOf, NoPair DEF ModuleInv, HeapRight, PointersRight, FilesRight, ModuleTypes, pointers, Changed
<1>16. MissedRight'
  BY <1>1, <1>2, <1>3, <1>4, <1>5, NrOf DEF ModuleInv, MissedRight, PointersRight, ModuleTypes, pointers
<1>17. WrongRight'
  BY <1>1, <1>2, <1>3, <1>4, <1>5 DEF ModuleInv, WrongRight, MissedRight, ModuleTypes, pointers
<1> QED
  BY <1>6, <1>7, <1>8, <1>9, <1>10, <1>11, <1>12, <1>13, <1>14, <1>15, <1>16, <1>17 DEF ModuleInv

LEMMA SetupPipeStep ==
  ASSUME ModuleInv, SetupCdev("scullp")
  PROVE  ModuleInv'
<1>1. /\ stage = "scullp" /\ i \in 0 .. Nr("scullp") - 1 /\ i' = i + 1
      /\ UNCHANGED <<stage, firstdev, pointers, clones, regions, heap, files, missed, wrong>>
  BY NrOf DEF SetupCdev, AtStage, Fails, ModuleInv, ModuleTypes, CountRight
<1>2. PICK v \in Ready : cdev' = [cdev EXCEPT ![<<"scullp", i>>] = v]
  BY NrOf DEF SetupCdev, Fails
<1>3. v \in CdevStates /\ cdev \in [AllDevs -> CdevStates] /\ "scullp" \in Parts
  BY DEF CdevStates, ModuleInv, ModuleTypes, Parts
<1>4. Changed("scullp", v)
  BY <1>1, <1>2, <1>3, OneDevice
<1>5. cdev[<<"scullp", i>>] = "zero"
  BY <1>1, NrOf DEF ModuleInv, PipeCdevs, PipeCdev
<1>6. ModuleTypes'
  BY <1>1, <1>2, <1>4, <1>5, NrOf DEF ModuleInv, ModuleTypes, pointers, Changed
<1>7. PointersRight'
  BY <1>1, <1>2, <1>4, <1>5, NrOf DEF ModuleInv, PointersRight, pointers, Changed
<1>8. NumbersRight'
  BY <1>1, <1>2, <1>4, <1>5, NrOf DEF ModuleInv, NumbersRight, MissedRight, PointersRight, ModuleTypes, pointers, Changed
<1>9. RegionsRight'
  BY <1>1, <1>2, <1>4, <1>5, NrOf DEF ModuleInv, RegionsRight, MissedRight, PointersRight, NumbersRight, ModuleTypes, Region, pointers, Changed
<1>10. ScullCdevs'
  <2> SUFFICES ASSUME NEW k \in 0 .. scull_nr_devs - 1 PROVE ScullCdev(k)'
    BY DEF ScullCdevs
  <2> QED
    BY <1>1, <1>2, <1>4, <1>5, NrOf DEF ModuleInv, ScullCdevs, ScullCdev, ModuleTypes, CountRight, PointersRight, pointers, Changed
<1>11. PipeCdevs'
  <2> SUFFICES ASSUME NEW k \in 0 .. scull_p_nr_devs - 1 PROVE PipeCdev(k)'
    BY DEF PipeCdevs
  <2> QED
    BY <1>1, <1>2, <1>4, <1>5, NrOf DEF ModuleInv, PipeCdevs, PipeCdev, ModuleTypes, CountRight, PointersRight, pointers, Changed
<1>12. AccessCdevs'
  <2> SUFFICES ASSUME NEW k \in 0 .. 3 PROVE AccessCdev(k)'
    BY DEF AccessCdevs
  <2> QED
    BY <1>1, <1>2, <1>4, <1>5, NrOf DEF ModuleInv, MissedRight, AccessCdevs, AccessCdev, ModuleTypes, CountRight, PointersRight, pointers, Changed
<1>13. CountRight'
  BY <1>1, <1>2, <1>4, <1>5, NrOf DEF ModuleInv, CountRight, ModuleTypes, PointersRight, pointers, Changed
<1>14. FilesRight'
  BY <1>1, <1>2, <1>4, <1>5, NrOf DEF ModuleInv, FilesRight, ModuleTypes, ScullCdevs, PipeCdevs, AccessCdevs, pointers, Changed
<1>15. HeapRight'
  BY <1>1, <1>2, <1>4, <1>5, NrOf, NoPair DEF ModuleInv, HeapRight, PointersRight, FilesRight, ModuleTypes, pointers, Changed
<1>16. MissedRight'
  BY <1>1, <1>2, <1>3, <1>4, <1>5, NrOf DEF ModuleInv, MissedRight, PointersRight, ModuleTypes, pointers
<1>17. WrongRight'
  BY <1>1, <1>2, <1>3, <1>4, <1>5 DEF ModuleInv, WrongRight, MissedRight, ModuleTypes, pointers
<1> QED
  BY <1>6, <1>7, <1>8, <1>9, <1>10, <1>11, <1>12, <1>13, <1>14, <1>15, <1>16, <1>17 DEF ModuleInv

LEMMA SetupAccessStep ==
  ASSUME ModuleInv, SetupCdev("sculla")
  PROVE  ModuleInv'
<1>1. /\ stage = "sculla" /\ i \in 0 .. Nr("sculla") - 1 /\ i' = i + 1
      /\ UNCHANGED <<stage, firstdev, pointers, clones, regions, heap, files, wrong>>
  BY NrOf DEF SetupCdev, AtStage, Fails, ModuleInv, ModuleTypes, CountRight
<1>2. PICK v \in {"added", "put"} :
        /\ cdev' = [cdev EXCEPT ![<<"sculla", i>>] = v]
        /\ missed' = IF v = "put" THEN missed \cup {<<"sculla", i>>} ELSE missed
  BY NrOf DEF SetupCdev, Fails
<1>3. v \in CdevStates /\ cdev \in [AllDevs -> CdevStates] /\ "sculla" \in Parts
  BY DEF CdevStates, ModuleInv, ModuleTypes, Parts
<1>4. Changed("sculla", v)
  BY <1>1, <1>2, <1>3, OneDevice
<1>5. cdev[<<"sculla", i>>] = "zero"
  BY <1>1, NrOf DEF ModuleInv, MissedRight, AccessCdevs, AccessCdev
<1>6. ModuleTypes'
  BY <1>1, <1>2, <1>4, <1>5, NrOf DEF ModuleInv, ModuleTypes, pointers, Changed
<1>7. PointersRight'
  BY <1>1, <1>2, <1>4, <1>5, NrOf DEF ModuleInv, PointersRight, pointers, Changed
<1>8. NumbersRight'
  BY <1>1, <1>2, <1>4, <1>5, NrOf DEF ModuleInv, NumbersRight, MissedRight, PointersRight, ModuleTypes, pointers, Changed
<1>9. RegionsRight'
  BY <1>1, <1>2, <1>4, <1>5, NrOf DEF ModuleInv, RegionsRight, MissedRight, PointersRight, NumbersRight, ModuleTypes, Region, pointers, Changed
<1>10. ScullCdevs'
  <2> SUFFICES ASSUME NEW k \in 0 .. scull_nr_devs - 1 PROVE ScullCdev(k)'
    BY DEF ScullCdevs
  <2> QED
    BY <1>1, <1>2, <1>4, <1>5, NrOf DEF ModuleInv, ScullCdevs, ScullCdev, ModuleTypes, CountRight, PointersRight, pointers, Changed
<1>11. PipeCdevs'
  <2> SUFFICES ASSUME NEW k \in 0 .. scull_p_nr_devs - 1 PROVE PipeCdev(k)'
    BY DEF PipeCdevs
  <2> QED
    BY <1>1, <1>2, <1>4, <1>5, NrOf DEF ModuleInv, PipeCdevs, PipeCdev, ModuleTypes, CountRight, PointersRight, pointers, Changed
<1>12. AccessCdevs'
  <2> SUFFICES ASSUME NEW k \in 0 .. 3 PROVE AccessCdev(k)'
    BY DEF AccessCdevs
  <2> QED
    BY <1>1, <1>2, <1>4, <1>5, NrOf DEF ModuleInv, MissedRight, AccessCdevs, AccessCdev, ModuleTypes, CountRight, PointersRight, pointers, Changed
<1>13. CountRight'
  BY <1>1, <1>2, <1>4, <1>5, NrOf DEF ModuleInv, CountRight, ModuleTypes, PointersRight, pointers, Changed
<1>14. FilesRight'
  BY <1>1, <1>2, <1>4, <1>5, NrOf DEF ModuleInv, FilesRight, ModuleTypes, ScullCdevs, PipeCdevs, AccessCdevs, pointers, Changed
<1>15. HeapRight'
  BY <1>1, <1>2, <1>4, <1>5, NrOf, NoPair DEF ModuleInv, HeapRight, PointersRight, FilesRight, ModuleTypes, pointers, Changed
<1>16. MissedRight'
  BY <1>1, <1>2, <1>3, <1>4, <1>5, NrOf DEF ModuleInv, MissedRight, PointersRight, ModuleTypes, pointers
<1>17. WrongRight'
  BY <1>1, <1>2, <1>3, <1>4, <1>5 DEF ModuleInv, WrongRight, MissedRight, ModuleTypes, pointers
<1> QED
  BY <1>6, <1>7, <1>8, <1>9, <1>10, <1>11, <1>12, <1>13, <1>14, <1>15, <1>16, <1>17 DEF ModuleInv

LEMMA EndScullStep ==
  ASSUME ModuleInv, SetupEnds("scull", "p_region")
  PROVE  ModuleInv'
<1>1. /\ stage = "scull" /\ i = Nr("scull") /\ stage' = "p_region" /\ i' = 0 /\ firstdev' = firstdev + Nr("scull")
      /\ UNCHANGED <<pointers, cdev, clones, regions, heap, files, missed, wrong>>
  BY NrOf DEF SetupEnds, AtStage, Enter, ModuleInv, ModuleTypes, CountRight
<1>2. ModuleTypes'
  BY <1>1, NrOf DEF ModuleInv, ModuleTypes, pointers
<1>3. PointersRight'
  BY <1>1, NrOf DEF ModuleInv, PointersRight, pointers
<1>4. NumbersRight'
  BY <1>1, NrOf DEF ModuleInv, NumbersRight, MissedRight, PointersRight, ModuleTypes, pointers
<1>5. RegionsRight'
  BY <1>1, NrOf DEF ModuleInv, RegionsRight, MissedRight, PointersRight, NumbersRight, ModuleTypes, Region, pointers
<1>6. ScullCdevs'
  <2> SUFFICES ASSUME NEW k \in 0 .. scull_nr_devs - 1 PROVE ScullCdev(k)'
    BY DEF ScullCdevs
  <2> QED
    BY <1>1, NrOf DEF ModuleInv, ScullCdevs, ScullCdev, ModuleTypes, CountRight, PointersRight, pointers
<1>7. PipeCdevs'
  <2> SUFFICES ASSUME NEW k \in 0 .. scull_p_nr_devs - 1 PROVE PipeCdev(k)'
    BY DEF PipeCdevs
  <2> QED
    BY <1>1, NrOf DEF ModuleInv, PipeCdevs, PipeCdev, ModuleTypes, CountRight, PointersRight, pointers
<1>8. AccessCdevs'
  <2> SUFFICES ASSUME NEW k \in 0 .. 3 PROVE AccessCdev(k)'
    BY DEF AccessCdevs
  <2> QED
    BY <1>1, NrOf DEF ModuleInv, MissedRight, AccessCdevs, AccessCdev, ModuleTypes, CountRight, PointersRight, pointers
<1>9. CountRight'
  BY <1>1, NrOf DEF ModuleInv, CountRight, ModuleTypes, PointersRight, pointers
<1>10. FilesRight'
  BY <1>1, NrOf DEF ModuleInv, FilesRight, ModuleTypes, ScullCdevs, PipeCdevs, AccessCdevs, pointers
<1>11. HeapRight'
  BY <1>1, NrOf, NoPair DEF ModuleInv, HeapRight, PointersRight, FilesRight, ModuleTypes, pointers
<1>12. MissedRight'
  BY <1>1, NrOf DEF ModuleInv, MissedRight, PointersRight, ModuleTypes, pointers
<1>13. WrongRight'
  BY <1>1 DEF ModuleInv, WrongRight, MissedRight, ModuleTypes, pointers
<1> QED
  BY <1>2, <1>3, <1>4, <1>5, <1>6, <1>7, <1>8, <1>9, <1>10, <1>11, <1>12, <1>13 DEF ModuleInv

LEMMA EndPipeStep ==
  ASSUME ModuleInv, SetupEnds("scullp", "a_region")
  PROVE  ModuleInv'
<1>1. /\ stage = "scullp" /\ i = Nr("scullp") /\ stage' = "a_region" /\ i' = 0 /\ firstdev' = firstdev + Nr("scullp")
      /\ UNCHANGED <<pointers, cdev, clones, regions, heap, files, missed, wrong>>
  BY NrOf DEF SetupEnds, AtStage, Enter, ModuleInv, ModuleTypes, CountRight
<1>2. ModuleTypes'
  BY <1>1, NrOf DEF ModuleInv, ModuleTypes, pointers
<1>3. PointersRight'
  BY <1>1, NrOf DEF ModuleInv, PointersRight, pointers
<1>4. NumbersRight'
  BY <1>1, NrOf DEF ModuleInv, NumbersRight, MissedRight, PointersRight, ModuleTypes, pointers
<1>5. RegionsRight'
  BY <1>1, NrOf DEF ModuleInv, RegionsRight, MissedRight, PointersRight, NumbersRight, ModuleTypes, Region, pointers
<1>6. ScullCdevs'
  <2> SUFFICES ASSUME NEW k \in 0 .. scull_nr_devs - 1 PROVE ScullCdev(k)'
    BY DEF ScullCdevs
  <2> QED
    BY <1>1, NrOf DEF ModuleInv, ScullCdevs, ScullCdev, ModuleTypes, CountRight, PointersRight, pointers
<1>7. PipeCdevs'
  <2> SUFFICES ASSUME NEW k \in 0 .. scull_p_nr_devs - 1 PROVE PipeCdev(k)'
    BY DEF PipeCdevs
  <2> QED
    BY <1>1, NrOf DEF ModuleInv, PipeCdevs, PipeCdev, ModuleTypes, CountRight, PointersRight, pointers
<1>8. AccessCdevs'
  <2> SUFFICES ASSUME NEW k \in 0 .. 3 PROVE AccessCdev(k)'
    BY DEF AccessCdevs
  <2> QED
    BY <1>1, NrOf DEF ModuleInv, MissedRight, AccessCdevs, AccessCdev, ModuleTypes, CountRight, PointersRight, pointers
<1>9. CountRight'
  BY <1>1, NrOf DEF ModuleInv, CountRight, ModuleTypes, PointersRight, pointers
<1>10. FilesRight'
  BY <1>1, NrOf DEF ModuleInv, FilesRight, ModuleTypes, ScullCdevs, PipeCdevs, AccessCdevs, pointers
<1>11. HeapRight'
  BY <1>1, NrOf, NoPair DEF ModuleInv, HeapRight, PointersRight, FilesRight, ModuleTypes, pointers
<1>12. MissedRight'
  BY <1>1, NrOf DEF ModuleInv, MissedRight, PointersRight, ModuleTypes, pointers
<1>13. WrongRight'
  BY <1>1 DEF ModuleInv, WrongRight, MissedRight, ModuleTypes, pointers
<1> QED
  BY <1>2, <1>3, <1>4, <1>5, <1>6, <1>7, <1>8, <1>9, <1>10, <1>11, <1>12, <1>13 DEF ModuleInv

LEMMA EndAccessStep ==
  ASSUME ModuleInv, SetupEnds("sculla", "live")
  PROVE  ModuleInv'
<1>1. /\ stage = "sculla" /\ i = Nr("sculla") /\ stage' = "live" /\ i' = 0 /\ firstdev' = firstdev + Nr("sculla")
      /\ UNCHANGED <<pointers, cdev, clones, regions, heap, files, missed, wrong>>
  BY NrOf DEF SetupEnds, AtStage, Enter, ModuleInv, ModuleTypes, CountRight
<1>2. ModuleTypes'
  BY <1>1, NrOf DEF ModuleInv, ModuleTypes, pointers
<1>3. PointersRight'
  BY <1>1, NrOf DEF ModuleInv, PointersRight, pointers
<1>4. NumbersRight'
  BY <1>1, NrOf DEF ModuleInv, NumbersRight, MissedRight, PointersRight, ModuleTypes, pointers
<1>5. RegionsRight'
  BY <1>1, NrOf DEF ModuleInv, RegionsRight, MissedRight, PointersRight, NumbersRight, ModuleTypes, Region, pointers
<1>6. ScullCdevs'
  <2> SUFFICES ASSUME NEW k \in 0 .. scull_nr_devs - 1 PROVE ScullCdev(k)'
    BY DEF ScullCdevs
  <2> QED
    BY <1>1, NrOf DEF ModuleInv, ScullCdevs, ScullCdev, ModuleTypes, CountRight, PointersRight, pointers
<1>7. PipeCdevs'
  <2> SUFFICES ASSUME NEW k \in 0 .. scull_p_nr_devs - 1 PROVE PipeCdev(k)'
    BY DEF PipeCdevs
  <2> QED
    BY <1>1, NrOf DEF ModuleInv, PipeCdevs, PipeCdev, ModuleTypes, CountRight, PointersRight, pointers
<1>8. AccessCdevs'
  <2> SUFFICES ASSUME NEW k \in 0 .. 3 PROVE AccessCdev(k)'
    BY DEF AccessCdevs
  <2> QED
    BY <1>1, NrOf DEF ModuleInv, MissedRight, AccessCdevs, AccessCdev, ModuleTypes, CountRight, PointersRight, pointers
<1>9. CountRight'
  BY <1>1, NrOf DEF ModuleInv, CountRight, ModuleTypes, PointersRight, pointers
<1>10. FilesRight'
  BY <1>1, NrOf DEF ModuleInv, FilesRight, ModuleTypes, ScullCdevs, PipeCdevs, AccessCdevs, pointers
<1>11. HeapRight'
  BY <1>1, NrOf, NoPair DEF ModuleInv, HeapRight, PointersRight, FilesRight, ModuleTypes, pointers
<1>12. MissedRight'
  BY <1>1, NrOf DEF ModuleInv, MissedRight, PointersRight, ModuleTypes, pointers
<1>13. WrongRight'
  BY <1>1 DEF ModuleInv, WrongRight, MissedRight, ModuleTypes, pointers
<1> QED
  BY <1>2, <1>3, <1>4, <1>5, <1>6, <1>7, <1>8, <1>9, <1>10, <1>11, <1>12, <1>13 DEF ModuleInv

LEMMA PipeRegionStep ==
  ASSUME ModuleInv, PipeRegion
  PROVE  ModuleInv'
<1>1. /\ stage = "p_region" /\ i' = 0
      /\ \/ /\ regions' = regions \cup {Region("scullp", firstdev)} /\ scull_p_devno' = firstdev /\ stage' = "p_alloc"
         \/ /\ stage' = "a_region" /\ UNCHANGED <<regions, scull_p_devno>>
      /\ UNCHANGED <<firstdev, scull_devices, scull_p_devices, scull_a_firstdev, cdev, clones, heap, files, missed, wrong>>
  BY NrOf DEF PipeRegion, AtStage, Enter, ModuleInv, ModuleTypes, CountRight
<1>2. ModuleTypes'
  BY <1>1, NrOf DEF ModuleInv, ModuleTypes, pointers
<1>3. PointersRight'
  BY <1>1, NrOf DEF ModuleInv, PointersRight, pointers
<1>4. NumbersRight'
  BY <1>1, NrOf DEF ModuleInv, NumbersRight, MissedRight, PointersRight, ModuleTypes, pointers
<1>5. RegionsRight'
  BY <1>1, NrOf DEF ModuleInv, RegionsRight, MissedRight, PointersRight, NumbersRight, ModuleTypes, Region, pointers
<1>6. ScullCdevs'
  <2> SUFFICES ASSUME NEW k \in 0 .. scull_nr_devs - 1 PROVE ScullCdev(k)'
    BY DEF ScullCdevs
  <2> QED
    BY <1>1, NrOf DEF ModuleInv, ScullCdevs, ScullCdev, ModuleTypes, CountRight, PointersRight, pointers
<1>7. PipeCdevs'
  <2> SUFFICES ASSUME NEW k \in 0 .. scull_p_nr_devs - 1 PROVE PipeCdev(k)'
    BY DEF PipeCdevs
  <2> QED
    BY <1>1, NrOf DEF ModuleInv, PipeCdevs, PipeCdev, ModuleTypes, CountRight, PointersRight, pointers
<1>8. AccessCdevs'
  <2> SUFFICES ASSUME NEW k \in 0 .. 3 PROVE AccessCdev(k)'
    BY DEF AccessCdevs
  <2> QED
    BY <1>1, NrOf DEF ModuleInv, MissedRight, AccessCdevs, AccessCdev, ModuleTypes, CountRight, PointersRight, pointers
<1>9. CountRight'
  BY <1>1, NrOf DEF ModuleInv, CountRight, ModuleTypes, PointersRight, pointers
<1>10. FilesRight'
  BY <1>1, NrOf DEF ModuleInv, FilesRight, ModuleTypes, ScullCdevs, PipeCdevs, AccessCdevs, pointers
<1>11. HeapRight'
  BY <1>1, NrOf, NoPair DEF ModuleInv, HeapRight, PointersRight, FilesRight, ModuleTypes, pointers
<1>12. MissedRight'
  BY <1>1, NrOf DEF ModuleInv, MissedRight, PointersRight, ModuleTypes, pointers
<1>13. WrongRight'
  BY <1>1 DEF ModuleInv, WrongRight, MissedRight, ModuleTypes, pointers
<1> QED
  BY <1>2, <1>3, <1>4, <1>5, <1>6, <1>7, <1>8, <1>9, <1>10, <1>11, <1>12, <1>13 DEF ModuleInv

LEMMA PipeAllocStep ==
  ASSUME ModuleInv, PipeAlloc, SomeDevice
  PROVE  ModuleInv'
<1>1. /\ stage = "p_alloc" /\ i' = 0
      /\ \/ /\ heap' = heap \cup {<<"scull_p_devices">>} /\ scull_p_devices' = TRUE /\ stage' = "scullp" /\ UNCHANGED regions
         \/ /\ stage' = "a_region" /\ regions' = regions \ {Region("scullp", firstdev)} /\ UNCHANGED <<heap, scull_p_devices>>
      /\ UNCHANGED <<firstdev, scull_devices, scull_p_devno, scull_a_firstdev, cdev, clones, files, missed, wrong>>
  BY NrOf DEF PipeAlloc, AtStage, Enter, PipeNoMemory, ModuleInv, ModuleTypes, CountRight
<1>2. Region("scull", 0) # Region("scullp", scull_nr_devs)
  BY NrOf DEF SomeDevice, Region
<1>3. ModuleTypes'
  BY <1>1, <1>2, NrOf DEF ModuleInv, ModuleTypes, pointers
<1>4. PointersRight'
  BY <1>1, <1>2, NrOf DEF ModuleInv, PointersRight, pointers
<1>5. NumbersRight'
  BY <1>1, <1>2, NrOf DEF ModuleInv, NumbersRight, MissedRight, PointersRight, ModuleTypes, pointers
<1>6. RegionsRight'
  BY <1>1, <1>2, NrOf DEF ModuleInv, RegionsRight, MissedRight, PointersRight, NumbersRight, ModuleTypes, Region, pointers
<1>7. ScullCdevs'
  <2> SUFFICES ASSUME NEW k \in 0 .. scull_nr_devs - 1 PROVE ScullCdev(k)'
    BY DEF ScullCdevs
  <2> QED
    BY <1>1, <1>2, NrOf DEF ModuleInv, ScullCdevs, ScullCdev, ModuleTypes, CountRight, PointersRight, pointers
<1>8. PipeCdevs'
  <2> SUFFICES ASSUME NEW k \in 0 .. scull_p_nr_devs - 1 PROVE PipeCdev(k)'
    BY DEF PipeCdevs
  <2> QED
    BY <1>1, <1>2, NrOf DEF ModuleInv, PipeCdevs, PipeCdev, ModuleTypes, CountRight, PointersRight, pointers
<1>9. AccessCdevs'
  <2> SUFFICES ASSUME NEW k \in 0 .. 3 PROVE AccessCdev(k)'
    BY DEF AccessCdevs
  <2> QED
    BY <1>1, <1>2, NrOf DEF ModuleInv, MissedRight, AccessCdevs, AccessCdev, ModuleTypes, CountRight, PointersRight, pointers
<1>10. CountRight'
  BY <1>1, <1>2, NrOf DEF ModuleInv, CountRight, ModuleTypes, PointersRight, pointers
<1>11. FilesRight'
  BY <1>1, <1>2, NrOf DEF ModuleInv, FilesRight, ModuleTypes, ScullCdevs, PipeCdevs, AccessCdevs, pointers
<1>12. HeapRight'
  BY <1>1, <1>2, NrOf, NoPair DEF ModuleInv, HeapRight, PointersRight, FilesRight, ModuleTypes, pointers
<1>13. MissedRight'
  BY <1>1, <1>2, NrOf DEF ModuleInv, MissedRight, PointersRight, ModuleTypes, pointers
<1>14. WrongRight'
  BY <1>1, <1>2 DEF ModuleInv, WrongRight, MissedRight, ModuleTypes, pointers
<1> QED
  BY <1>3, <1>4, <1>5, <1>6, <1>7, <1>8, <1>9, <1>10, <1>11, <1>12, <1>13, <1>14 DEF ModuleInv

LEMMA AccessRegionStep ==
  ASSUME ModuleInv, AccessRegion
  PROVE  ModuleInv'
<1>1. /\ stage = "a_region" /\ i' = 0
      /\ \/ /\ regions' = regions \cup {Region("sculla", firstdev)} /\ scull_a_firstdev' = firstdev
            /\ stage' = "sculla" /\ missed' = missed
         \/ /\ stage' = "live" /\ missed' = missed \cup {<<"sculla">>}
            /\ UNCHANGED <<regions, scull_a_firstdev>>
      /\ UNCHANGED <<firstdev, scull_devices, scull_p_devices, scull_p_devno, cdev, clones, heap, files, wrong>>
  BY NrOf DEF AccessRegion, AtStage, Enter, Fails, ModuleInv, ModuleTypes, CountRight
<1>2. ModuleTypes'
  BY <1>1, NrOf DEF ModuleInv, ModuleTypes, pointers
<1>3. PointersRight'
  BY <1>1, NrOf DEF ModuleInv, PointersRight, pointers
<1>4. NumbersRight'
  BY <1>1, NrOf DEF ModuleInv, NumbersRight, MissedRight, PointersRight, ModuleTypes, pointers
<1>5. RegionsRight'
  BY <1>1, NrOf DEF ModuleInv, RegionsRight, MissedRight, PointersRight, NumbersRight, ModuleTypes, Region, pointers
<1>6. ScullCdevs'
  <2> SUFFICES ASSUME NEW k \in 0 .. scull_nr_devs - 1 PROVE ScullCdev(k)'
    BY DEF ScullCdevs
  <2> QED
    BY <1>1, NrOf DEF ModuleInv, ScullCdevs, ScullCdev, ModuleTypes, CountRight, PointersRight, pointers
<1>7. PipeCdevs'
  <2> SUFFICES ASSUME NEW k \in 0 .. scull_p_nr_devs - 1 PROVE PipeCdev(k)'
    BY DEF PipeCdevs
  <2> QED
    BY <1>1, NrOf DEF ModuleInv, PipeCdevs, PipeCdev, ModuleTypes, CountRight, PointersRight, pointers
<1>8. AccessCdevs'
  <2> SUFFICES ASSUME NEW k \in 0 .. 3 PROVE AccessCdev(k)'
    BY DEF AccessCdevs
  <2> QED
    BY <1>1, NrOf DEF ModuleInv, MissedRight, AccessCdevs, AccessCdev, ModuleTypes, CountRight, PointersRight, pointers
<1>9. CountRight'
  BY <1>1, NrOf DEF ModuleInv, CountRight, ModuleTypes, PointersRight, pointers
<1>10. FilesRight'
  BY <1>1, NrOf DEF ModuleInv, FilesRight, ModuleTypes, ScullCdevs, PipeCdevs, AccessCdevs, pointers
<1>11. HeapRight'
  BY <1>1, NrOf, NoPair DEF ModuleInv, HeapRight, PointersRight, FilesRight, ModuleTypes, pointers
<1>12. MissedRight'
  BY <1>1, NrOf DEF ModuleInv, MissedRight, PointersRight, ModuleTypes, pointers
<1>13. WrongRight'
  BY <1>1 DEF ModuleInv, WrongRight, MissedRight, ModuleTypes, pointers
<1> QED
  BY <1>2, <1>3, <1>4, <1>5, <1>6, <1>7, <1>8, <1>9, <1>10, <1>11, <1>12, <1>13 DEF ModuleInv

-----------------------------------------------------------------------------
(* The cleanup.                                                               *)

LEMMA UnloadStep ==
  ASSUME ModuleInv, Unload
  PROVE  ModuleInv'
<1>1. /\ stage = "live" /\ stage' = "c_scull" /\ i' = 0 /\ \A d \in AllDevs : ~(files[d] > 0)
      /\ UNCHANGED <<firstdev, pointers, cdev, clones, regions, heap, files, missed, wrong>>
  BY NrOf DEF Unload, AtStage, Enter, InUse, ModuleInv, ModuleTypes, CountRight
<1>2. ModuleTypes'
  BY <1>1, NrOf DEF ModuleInv, ModuleTypes, pointers
<1>3. PointersRight'
  BY <1>1, NrOf DEF ModuleInv, PointersRight, pointers
<1>4. NumbersRight'
  BY <1>1, NrOf DEF ModuleInv, NumbersRight, MissedRight, PointersRight, ModuleTypes, pointers
<1>5. RegionsRight'
  BY <1>1, NrOf DEF ModuleInv, RegionsRight, MissedRight, PointersRight, NumbersRight, ModuleTypes, Region, pointers
<1>6. ScullCdevs'
  <2> SUFFICES ASSUME NEW k \in 0 .. scull_nr_devs - 1 PROVE ScullCdev(k)'
    BY DEF ScullCdevs
  <2> QED
    BY <1>1, NrOf DEF ModuleInv, ScullCdevs, ScullCdev, ModuleTypes, CountRight, PointersRight, pointers
<1>7. PipeCdevs'
  <2> SUFFICES ASSUME NEW k \in 0 .. scull_p_nr_devs - 1 PROVE PipeCdev(k)'
    BY DEF PipeCdevs
  <2> QED
    BY <1>1, NrOf DEF ModuleInv, PipeCdevs, PipeCdev, ModuleTypes, CountRight, PointersRight, pointers
<1>8. AccessCdevs'
  <2> SUFFICES ASSUME NEW k \in 0 .. 3 PROVE AccessCdev(k)'
    BY DEF AccessCdevs
  <2> QED
    BY <1>1, NrOf DEF ModuleInv, MissedRight, AccessCdevs, AccessCdev, ModuleTypes, CountRight, PointersRight, pointers
<1>9. CountRight'
  BY <1>1, NrOf DEF ModuleInv, CountRight, ModuleTypes, PointersRight, pointers
<1>10. FilesRight'
  BY <1>1, NrOf DEF ModuleInv, FilesRight, ModuleTypes, ScullCdevs, PipeCdevs, AccessCdevs, pointers
<1>11. HeapRight'
  BY <1>1, NrOf, NoPair DEF ModuleInv, HeapRight, PointersRight, FilesRight, ModuleTypes, pointers
<1>12. MissedRight'
  BY <1>1, NrOf DEF ModuleInv, MissedRight, PointersRight, ModuleTypes, pointers
<1>13. WrongRight'
  BY <1>1 DEF ModuleInv, WrongRight, MissedRight, ModuleTypes, pointers
<1> QED
  BY <1>2, <1>3, <1>4, <1>5, <1>6, <1>7, <1>8, <1>9, <1>10, <1>11, <1>12, <1>13 DEF ModuleInv

LEMMA CleanScullStep ==
  ASSUME ModuleInv, CleanScull
  PROVE  ModuleInv'
<1>1. /\ stage = "c_scull" /\ i \in 0 .. Nr("scull") - 1 /\ i' = i + 1 /\ scull_devices
      /\ cdev' = [cdev EXCEPT ![<<"scull", i>>] = "put"] /\ wrong' = (IF cdev[<<"scull", i>>] \in Ready THEN wrong ELSE wrong \cup {<<"scull", i>>})
      /\ heap' = heap \ {<<"data", <<"scull", i>>>>, <<"buffer", <<"scull", i>>>>}
      /\ UNCHANGED <<stage, firstdev, pointers, clones, regions, files, missed>>
  BY NrOf DEF CleanScull, Remove, CdevDel, AtStage, ModuleInv, ModuleTypes, CountRight
<1>2. "put" \in CdevStates /\ cdev \in [AllDevs -> CdevStates] /\ "scull" \in Parts
  BY DEF CdevStates, ModuleInv, ModuleTypes, Parts
<1>3. Changed("scull", "put")
  BY <1>1, <1>2, OneDevice
<1>4. cdev[<<"scull", i>>] \in Ready
  BY <1>1, NrOf DEF ModuleInv, ScullCdevs, ScullCdev
<1>5. wrong' = wrong
  BY <1>1, <1>4, Zenon DEF ModuleInv, ModuleTypes
<1>6. ModuleTypes'
  BY <1>1, <1>3, <1>4, <1>5, NrOf DEF ModuleInv, ModuleTypes, pointers, Changed
<1>7. PointersRight'
  BY <1>1, <1>3, <1>4, <1>5, NrOf DEF ModuleInv, PointersRight, pointers, Changed
<1>8. NumbersRight'
  BY <1>1, <1>3, <1>4, <1>5, NrOf DEF ModuleInv, NumbersRight, MissedRight, PointersRight, ModuleTypes, pointers, Changed
<1>9. RegionsRight'
  BY <1>1, <1>3, <1>4, <1>5, NrOf DEF ModuleInv, RegionsRight, MissedRight, PointersRight, NumbersRight, ModuleTypes, Region, pointers, Changed
<1>10. ScullCdevs'
  <2> SUFFICES ASSUME NEW k \in 0 .. scull_nr_devs - 1 PROVE ScullCdev(k)'
    BY DEF ScullCdevs
  <2> QED
    BY <1>1, <1>3, <1>4, <1>5, NrOf DEF ModuleInv, ScullCdevs, ScullCdev, ModuleTypes, CountRight, PointersRight, pointers, Changed
<1>11. PipeCdevs'
  <2> SUFFICES ASSUME NEW k \in 0 .. scull_p_nr_devs - 1 PROVE PipeCdev(k)'
    BY DEF PipeCdevs
  <2> QED
    BY <1>1, <1>3, <1>4, <1>5, NrOf DEF ModuleInv, PipeCdevs, PipeCdev, ModuleTypes, CountRight, PointersRight, pointers, Changed
<1>12. AccessCdevs'
  <2> SUFFICES ASSUME NEW k \in 0 .. 3 PROVE AccessCdev(k)'
    BY DEF AccessCdevs
  <2> QED
    BY <1>1, <1>3, <1>4, <1>5, NrOf DEF ModuleInv, MissedRight, AccessCdevs, AccessCdev, ModuleTypes, CountRight, PointersRight, pointers, Changed
<1>13. CountRight'
  BY <1>1, <1>3, <1>4, <1>5, NrOf DEF ModuleInv, CountRight, ModuleTypes, PointersRight, pointers, Changed
<1>14. FilesRight'
  BY <1>1, <1>3, <1>4, <1>5, NrOf DEF ModuleInv, FilesRight, ModuleTypes, ScullCdevs, PipeCdevs, AccessCdevs, pointers, Changed
<1>15. HeapRight'
  BY <1>1, <1>3, <1>4, <1>5, NrOf, NoPair DEF ModuleInv, HeapRight, PointersRight, FilesRight, ModuleTypes, pointers, Changed
<1>16. MissedRight'
  BY <1>1, <1>2, <1>3, <1>4, <1>5, NrOf DEF ModuleInv, MissedRight, PointersRight, ModuleTypes, pointers
<1>17. WrongRight'
  BY <1>1, <1>2, <1>3, <1>4, <1>5 DEF ModuleInv, WrongRight, MissedRight, ModuleTypes, pointers
<1> QED
  BY <1>6, <1>7, <1>8, <1>9, <1>10, <1>11, <1>12, <1>13, <1>14, <1>15, <1>16, <1>17 DEF ModuleInv

LEMMA CleanPipeStep ==
  ASSUME ModuleInv, CleanPipe
  PROVE  ModuleInv'
<1>1. /\ stage = "c_scullp" /\ i \in 0 .. Nr("scullp") - 1 /\ i' = i + 1 /\ scull_p_devices
      /\ cdev' = [cdev EXCEPT ![<<"scullp", i>>] = "put"] /\ wrong' = (IF cdev[<<"scullp", i>>] \in Ready THEN wrong ELSE wrong \cup {<<"scullp", i>>})
      /\ heap' = heap \ {<<"data", <<"scullp", i>>>>, <<"buffer", <<"scullp", i>>>>}
      /\ UNCHANGED <<stage, firstdev, pointers, clones, regions, files, missed>>
  BY NrOf DEF CleanPipe, Remove, CdevDel, AtStage, ModuleInv, ModuleTypes, CountRight
<1>2. "put" \in CdevStates /\ cdev \in [AllDevs -> CdevStates] /\ "scullp" \in Parts
  BY DEF CdevStates, ModuleInv, ModuleTypes, Parts
<1>3. Changed("scullp", "put")
  BY <1>1, <1>2, OneDevice
<1>4. cdev[<<"scullp", i>>] \in Ready
  BY <1>1, NrOf DEF ModuleInv, PipeCdevs, PipeCdev
<1>5. wrong' = wrong
  BY <1>1, <1>4, Zenon DEF ModuleInv, ModuleTypes
<1>6. ModuleTypes'
  BY <1>1, <1>3, <1>4, <1>5, NrOf DEF ModuleInv, ModuleTypes, pointers, Changed
<1>7. PointersRight'
  BY <1>1, <1>3, <1>4, <1>5, NrOf DEF ModuleInv, PointersRight, pointers, Changed
<1>8. NumbersRight'
  BY <1>1, <1>3, <1>4, <1>5, NrOf DEF ModuleInv, NumbersRight, MissedRight, PointersRight, ModuleTypes, pointers, Changed
<1>9. RegionsRight'
  BY <1>1, <1>3, <1>4, <1>5, NrOf DEF ModuleInv, RegionsRight, MissedRight, PointersRight, NumbersRight, ModuleTypes, Region, pointers, Changed
<1>10. ScullCdevs'
  <2> SUFFICES ASSUME NEW k \in 0 .. scull_nr_devs - 1 PROVE ScullCdev(k)'
    BY DEF ScullCdevs
  <2> QED
    BY <1>1, <1>3, <1>4, <1>5, NrOf DEF ModuleInv, ScullCdevs, ScullCdev, ModuleTypes, CountRight, PointersRight, pointers, Changed
<1>11. PipeCdevs'
  <2> SUFFICES ASSUME NEW k \in 0 .. scull_p_nr_devs - 1 PROVE PipeCdev(k)'
    BY DEF PipeCdevs
  <2> QED
    BY <1>1, <1>3, <1>4, <1>5, NrOf DEF ModuleInv, PipeCdevs, PipeCdev, ModuleTypes, CountRight, PointersRight, pointers, Changed
<1>12. AccessCdevs'
  <2> SUFFICES ASSUME NEW k \in 0 .. 3 PROVE AccessCdev(k)'
    BY DEF AccessCdevs
  <2> QED
    BY <1>1, <1>3, <1>4, <1>5, NrOf DEF ModuleInv, MissedRight, AccessCdevs, AccessCdev, ModuleTypes, CountRight, PointersRight, pointers, Changed
<1>13. CountRight'
  BY <1>1, <1>3, <1>4, <1>5, NrOf DEF ModuleInv, CountRight, ModuleTypes, PointersRight, pointers, Changed
<1>14. FilesRight'
  BY <1>1, <1>3, <1>4, <1>5, NrOf DEF ModuleInv, FilesRight, ModuleTypes, ScullCdevs, PipeCdevs, AccessCdevs, pointers, Changed
<1>15. HeapRight'
  BY <1>1, <1>3, <1>4, <1>5, NrOf, NoPair DEF ModuleInv, HeapRight, PointersRight, FilesRight, ModuleTypes, pointers, Changed
<1>16. MissedRight'
  BY <1>1, <1>2, <1>3, <1>4, <1>5, NrOf DEF ModuleInv, MissedRight, PointersRight, ModuleTypes, pointers
<1>17. WrongRight'
  BY <1>1, <1>2, <1>3, <1>4, <1>5 DEF ModuleInv, WrongRight, MissedRight, ModuleTypes, pointers
<1> QED
  BY <1>6, <1>7, <1>8, <1>9, <1>10, <1>11, <1>12, <1>13, <1>14, <1>15, <1>16, <1>17 DEF ModuleInv

LEMMA CleanAccessStep ==
  ASSUME ModuleInv, CleanAccess
  PROVE  ModuleInv'
<1>1. /\ stage = "c_sculla" /\ i \in 0 .. Nr("sculla") - 1 /\ i' = i + 1
      /\ cdev' = [cdev EXCEPT ![<<"sculla", i>>] = "put"] /\ wrong' = (IF cdev[<<"sculla", i>>] \in Ready THEN wrong ELSE wrong \cup {<<"sculla", i>>})
      /\ heap' = heap \ {<<"data", <<"sculla", i>>>>, <<"buffer", <<"sculla", i>>>>}
      /\ UNCHANGED <<stage, firstdev, pointers, clones, regions, files, missed>>
  BY NrOf DEF CleanAccess, Remove, CdevDel, AtStage, ModuleInv, ModuleTypes, CountRight
<1>2. "put" \in CdevStates /\ cdev \in [AllDevs -> CdevStates] /\ "sculla" \in Parts
  BY DEF CdevStates, ModuleInv, ModuleTypes, Parts
<1>3. Changed("sculla", "put")
  BY <1>1, <1>2, OneDevice
<1>4. \/ cdev[<<"sculla", i>>] \in Ready
      \/ <<"sculla", i>> \in missed \/ <<"sculla">> \in missed \/ <<"scull_devices">> \in missed
  BY <1>1, NrOf DEF ModuleInv, MissedRight, AccessCdevs, AccessCdev
<1>5. \A x \in wrong' : x \in wrong \/ (x = <<"sculla", i>> /\ cdev[<<"sculla", i>>] \notin Ready)
  BY <1>1
<1>6. ModuleTypes'
  BY <1>1, <1>3, <1>4, <1>5, NrOf DEF ModuleInv, ModuleTypes, pointers, Changed
<1>7. PointersRight'
  BY <1>1, <1>3, <1>4, <1>5, NrOf DEF ModuleInv, PointersRight, pointers, Changed
<1>8. NumbersRight'
  BY <1>1, <1>3, <1>4, <1>5, NrOf DEF ModuleInv, NumbersRight, MissedRight, PointersRight, ModuleTypes, pointers, Changed
<1>9. RegionsRight'
  BY <1>1, <1>3, <1>4, <1>5, NrOf DEF ModuleInv, RegionsRight, MissedRight, PointersRight, NumbersRight, ModuleTypes, Region, pointers, Changed
<1>10. ScullCdevs'
  <2> SUFFICES ASSUME NEW k \in 0 .. scull_nr_devs - 1 PROVE ScullCdev(k)'
    BY DEF ScullCdevs
  <2> QED
    BY <1>1, <1>3, <1>4, <1>5, NrOf DEF ModuleInv, ScullCdevs, ScullCdev, ModuleTypes, CountRight, PointersRight, pointers, Changed
<1>11. PipeCdevs'
  <2> SUFFICES ASSUME NEW k \in 0 .. scull_p_nr_devs - 1 PROVE PipeCdev(k)'
    BY DEF PipeCdevs
  <2> QED
    BY <1>1, <1>3, <1>4, <1>5, NrOf DEF ModuleInv, PipeCdevs, PipeCdev, ModuleTypes, CountRight, PointersRight, pointers, Changed
<1>12. AccessCdevs'
  <2> SUFFICES ASSUME NEW k \in 0 .. 3 PROVE AccessCdev(k)'
    BY DEF AccessCdevs
  <2> QED
    BY <1>1, <1>3, <1>4, <1>5, NrOf DEF ModuleInv, MissedRight, AccessCdevs, AccessCdev, ModuleTypes, CountRight, PointersRight, pointers, Changed
<1>13. CountRight'
  BY <1>1, <1>3, <1>4, <1>5, NrOf DEF ModuleInv, CountRight, ModuleTypes, PointersRight, pointers, Changed
<1>14. FilesRight'
  BY <1>1, <1>3, <1>4, <1>5, NrOf DEF ModuleInv, FilesRight, ModuleTypes, ScullCdevs, PipeCdevs, AccessCdevs, pointers, Changed
<1>15. HeapRight'
  BY <1>1, <1>3, <1>4, <1>5, NrOf, NoPair DEF ModuleInv, HeapRight, PointersRight, FilesRight, ModuleTypes, pointers, Changed
<1>16. MissedRight'
  BY <1>1, <1>2, <1>3, <1>4, <1>5, NrOf DEF ModuleInv, MissedRight, PointersRight, ModuleTypes, pointers
<1>17. WrongRight'
  BY <1>1, <1>2, <1>3, <1>4, <1>5 DEF ModuleInv, WrongRight, MissedRight, ModuleTypes, pointers
<1> QED
  BY <1>6, <1>7, <1>8, <1>9, <1>10, <1>11, <1>12, <1>13, <1>14, <1>15, <1>16, <1>17 DEF ModuleInv

LEMMA CleanMainStep ==
  ASSUME ModuleInv, CleanMain, SomeDevice
  PROVE  ModuleInv'
<1>1. /\ stage = "c_scull" /\ (scull_devices => i = Nr("scull")) /\ stage' = "c_scullp" /\ i' = 0
      /\ heap' = heap \ {<<"scull_devices">>}
      /\ regions' = regions \ {Region("scull", 0)} /\ wrong' = (IF Region("scull", 0) \in regions THEN wrong ELSE wrong \cup {<<"scull">>})
      /\ UNCHANGED <<firstdev, pointers, cdev, clones, files, missed>>
  BY NrOf DEF CleanMain, Unregister, AtStage, Enter, ModuleInv, ModuleTypes, CountRight
<1>2. Region("scull", 0) # Region("scullp", scull_nr_devs)
  BY NrOf DEF SomeDevice, Region
<1>3. wrong' = wrong
  BY <1>1, Zenon DEF ModuleInv, ModuleTypes, RegionsRight, Registered, HasAccess
<1>4. ModuleTypes'
  BY <1>1, <1>2, <1>3, NrOf DEF ModuleInv, ModuleTypes, pointers
<1>5. PointersRight'
  BY <1>1, <1>2, <1>3, NrOf DEF ModuleInv, PointersRight, pointers
<1>6. NumbersRight'
  BY <1>1, <1>2, <1>3, NrOf DEF ModuleInv, NumbersRight, MissedRight, PointersRight, ModuleTypes, pointers
<1>7. RegionsRight'
  BY <1>1, <1>2, <1>3, NrOf DEF ModuleInv, RegionsRight, MissedRight, PointersRight, NumbersRight, ModuleTypes, Region, pointers
<1>8. ScullCdevs'
  <2> SUFFICES ASSUME NEW k \in 0 .. scull_nr_devs - 1 PROVE ScullCdev(k)'
    BY DEF ScullCdevs
  <2> QED
    BY <1>1, <1>2, <1>3, NrOf DEF ModuleInv, ScullCdevs, ScullCdev, ModuleTypes, CountRight, PointersRight, pointers
<1>9. PipeCdevs'
  <2> SUFFICES ASSUME NEW k \in 0 .. scull_p_nr_devs - 1 PROVE PipeCdev(k)'
    BY DEF PipeCdevs
  <2> QED
    BY <1>1, <1>2, <1>3, NrOf DEF ModuleInv, PipeCdevs, PipeCdev, ModuleTypes, CountRight, PointersRight, pointers
<1>10. AccessCdevs'
  <2> SUFFICES ASSUME NEW k \in 0 .. 3 PROVE AccessCdev(k)'
    BY DEF AccessCdevs
  <2> QED
    BY <1>1, <1>2, <1>3, NrOf DEF ModuleInv, MissedRight, AccessCdevs, AccessCdev, ModuleTypes, CountRight, PointersRight, pointers
<1>11. CountRight'
  BY <1>1, <1>2, <1>3, NrOf DEF ModuleInv, CountRight, ModuleTypes, PointersRight, pointers
<1>12. FilesRight'
  BY <1>1, <1>2, <1>3, NrOf DEF ModuleInv, FilesRight, ModuleTypes, ScullCdevs, PipeCdevs, AccessCdevs, pointers
<1>13. HeapRight'
  BY <1>1, <1>2, <1>3, NrOf, NoPair DEF ModuleInv, HeapRight, PointersRight, FilesRight, ModuleTypes, pointers
<1>14. MissedRight'
  BY <1>1, <1>2, <1>3, NrOf DEF ModuleInv, MissedRight, PointersRight, ModuleTypes, pointers
<1>15. WrongRight'
  BY <1>1, <1>2, <1>3 DEF ModuleInv, WrongRight, MissedRight, ModuleTypes, pointers
<1> QED
  BY <1>4, <1>5, <1>6, <1>7, <1>8, <1>9, <1>10, <1>11, <1>12, <1>13, <1>14, <1>15 DEF ModuleInv

LEMMA CleanPipesStep ==
  ASSUME ModuleInv, CleanPipes, SomeDevice
  PROVE  ModuleInv'
<1>1. /\ stage = "c_scullp" /\ (scull_p_devices => i = Nr("scullp")) /\ stage' = "c_sculla" /\ i' = 0
      /\ scull_p_devices => /\ heap' = heap \ {<<"scull_p_devices">>}
                            /\ regions' = regions \ {Region("scullp", scull_p_devno)}
                            /\ wrong' = (IF Region("scullp", scull_p_devno) \in regions THEN wrong ELSE wrong \cup {<<"scullp">>})
      /\ ~scull_p_devices => UNCHANGED <<heap, regions, wrong>>
      /\ scull_p_devices' = FALSE
      /\ UNCHANGED <<firstdev, scull_devices, scull_p_devno, scull_a_firstdev, cdev, clones, files, missed>>
  BY NrOf DEF CleanPipes, Unregister, AtStage, Enter, ModuleInv, ModuleTypes, CountRight
<1>2. Region("scull", 0) # Region("scullp", scull_nr_devs)
  BY NrOf DEF SomeDevice, Region
<1>3. wrong' = wrong
  BY <1>1, Zenon DEF ModuleInv, ModuleTypes, RegionsRight, Registered, HasAccess
<1>4. ModuleTypes'
  BY <1>1, <1>2, <1>3, NrOf DEF ModuleInv, ModuleTypes, pointers
<1>5. PointersRight'
  BY <1>1, <1>2, <1>3, NrOf DEF ModuleInv, PointersRight, pointers
<1>6. NumbersRight'
  BY <1>1, <1>2, <1>3, NrOf DEF ModuleInv, NumbersRight, MissedRight, PointersRight, ModuleTypes, pointers
<1>7. RegionsRight'
  BY <1>1, <1>2, <1>3, NrOf DEF ModuleInv, RegionsRight, MissedRight, PointersRight, NumbersRight, ModuleTypes, Region, pointers
<1>8. ScullCdevs'
  <2> SUFFICES ASSUME NEW k \in 0 .. scull_nr_devs - 1 PROVE ScullCdev(k)'
    BY DEF ScullCdevs
  <2> QED
    BY <1>1, <1>2, <1>3, NrOf DEF ModuleInv, ScullCdevs, ScullCdev, ModuleTypes, CountRight, PointersRight, pointers
<1>9. PipeCdevs'
  <2> SUFFICES ASSUME NEW k \in 0 .. scull_p_nr_devs - 1 PROVE PipeCdev(k)'
    BY DEF PipeCdevs
  <2> QED
    BY <1>1, <1>2, <1>3, NrOf DEF ModuleInv, PipeCdevs, PipeCdev, ModuleTypes, CountRight, PointersRight, pointers
<1>10. AccessCdevs'
  <2> SUFFICES ASSUME NEW k \in 0 .. 3 PROVE AccessCdev(k)'
    BY DEF AccessCdevs
  <2> QED
    BY <1>1, <1>2, <1>3, NrOf DEF ModuleInv, MissedRight, AccessCdevs, AccessCdev, ModuleTypes, CountRight, PointersRight, pointers
<1>11. CountRight'
  BY <1>1, <1>2, <1>3, NrOf DEF ModuleInv, CountRight, ModuleTypes, PointersRight, pointers
<1>12. FilesRight'
  BY <1>1, <1>2, <1>3, NrOf DEF ModuleInv, FilesRight, ModuleTypes, ScullCdevs, PipeCdevs, AccessCdevs, pointers
<1>13. HeapRight'
  BY <1>1, <1>2, <1>3, NrOf, NoPair DEF ModuleInv, HeapRight, PointersRight, FilesRight, ModuleTypes, pointers
<1>14. MissedRight'
  BY <1>1, <1>2, <1>3, NrOf DEF ModuleInv, MissedRight, PointersRight, ModuleTypes, pointers
<1>15. WrongRight'
  BY <1>1, <1>2, <1>3 DEF ModuleInv, WrongRight, MissedRight, ModuleTypes, pointers
<1> QED
  BY <1>4, <1>5, <1>6, <1>7, <1>8, <1>9, <1>10, <1>11, <1>12, <1>13, <1>14, <1>15 DEF ModuleInv

LEMMA CleanCloneStep ==
  ASSUME ModuleInv, CleanClone
  PROVE  ModuleInv'
<1>1. /\ stage = "c_sculla" /\ i = Nr("sculla")
      /\ \E k \in clones : /\ clones' = clones \ {k}
                           /\ heap' = heap \ {<<"clone", k>>, <<"data", k>>}
      /\ UNCHANGED <<stage, i, firstdev, pointers, cdev, regions, files, missed, wrong>>
  BY NrOf DEF CleanClone, AtStage, ModuleInv, ModuleTypes, CountRight
<1>2. ModuleTypes'
  BY <1>1, NrOf DEF ModuleInv, ModuleTypes, pointers
<1>3. PointersRight'
  BY <1>1, NrOf DEF ModuleInv, PointersRight, pointers
<1>4. NumbersRight'
  BY <1>1, NrOf DEF ModuleInv, NumbersRight, MissedRight, PointersRight, ModuleTypes, pointers
<1>5. RegionsRight'
  BY <1>1, NrOf DEF ModuleInv, RegionsRight, MissedRight, PointersRight, NumbersRight, ModuleTypes, Region, pointers
<1>6. ScullCdevs'
  <2> SUFFICES ASSUME NEW k \in 0 .. scull_nr_devs - 1 PROVE ScullCdev(k)'
    BY DEF ScullCdevs
  <2> QED
    BY <1>1, NrOf DEF ModuleInv, ScullCdevs, ScullCdev, ModuleTypes, CountRight, PointersRight, pointers
<1>7. PipeCdevs'
  <2> SUFFICES ASSUME NEW k \in 0 .. scull_p_nr_devs - 1 PROVE PipeCdev(k)'
    BY DEF PipeCdevs
  <2> QED
    BY <1>1, NrOf DEF ModuleInv, PipeCdevs, PipeCdev, ModuleTypes, CountRight, PointersRight, pointers
<1>8. AccessCdevs'
  <2> SUFFICES ASSUME NEW k \in 0 .. 3 PROVE AccessCdev(k)'
    BY DEF AccessCdevs
  <2> QED
    BY <1>1, NrOf DEF ModuleInv, MissedRight, AccessCdevs, AccessCdev, ModuleTypes, CountRight, PointersRight, pointers
<1>9. CountRight'
  BY <1>1, NrOf DEF ModuleInv, CountRight, ModuleTypes, PointersRight, pointers
<1>10. FilesRight'
  BY <1>1, NrOf DEF ModuleInv, FilesRight, ModuleTypes, ScullCdevs, PipeCdevs, AccessCdevs, pointers
<1>11. HeapRight'
  BY <1>1, NrOf, NoPair DEF ModuleInv, HeapRight, PointersRight, FilesRight, ModuleTypes, pointers
<1>12. MissedRight'
  BY <1>1, NrOf DEF ModuleInv, MissedRight, PointersRight, ModuleTypes, pointers
<1>13. WrongRight'
  BY <1>1 DEF ModuleInv, WrongRight, MissedRight, ModuleTypes, pointers
<1> QED
  BY <1>2, <1>3, <1>4, <1>5, <1>6, <1>7, <1>8, <1>9, <1>10, <1>11, <1>12, <1>13 DEF ModuleInv

LEMMA CleanEndsStep ==
  ASSUME ModuleInv, CleanEnds
  PROVE  ModuleInv'
<1>1. /\ stage = "c_sculla" /\ i = Nr("sculla") /\ clones = {} /\ stage' = "out" /\ i' = 0 /\ firstdev' = 0
      /\ regions' = regions \ {Region("sculla", scull_a_firstdev)}
      /\ wrong' = (IF Region("sculla", scull_a_firstdev) \in regions THEN wrong ELSE wrong \cup {<<"sculla">>})
      /\ scull_devices' = FALSE /\ scull_p_devices' = FALSE /\ scull_p_devno' = 0 /\ scull_a_firstdev' = 0
      /\ cdev' = [d \in AllDevs |-> "zero"]
      /\ UNCHANGED <<clones, heap, files, missed>>
  BY NrOf DEF CleanEnds, Unregister, NoCdev, AtStage, Enter, ModuleInv, ModuleTypes, CountRight
<1>2. \A x \in wrong' : x \in wrong \/ (x = <<"sculla">> /\ ~HasNumbers)
  BY <1>1 DEF ModuleInv, RegionsRight
<1>3. ModuleTypes'
  <2>1. cdev' \in [AllDevs -> CdevStates]
    BY <1>1 DEF CdevStates
  <2> QED
    BY <1>1, <1>2, <2>1 DEF ModuleInv, ModuleTypes
<1>4. PointersRight'
  BY <1>1, <1>2, NrOf DEF ModuleInv, PointersRight, pointers
<1>5. NumbersRight'
  BY <1>1, <1>2, NrOf DEF ModuleInv, NumbersRight, MissedRight, PointersRight, ModuleTypes, pointers
<1>6. RegionsRight'
  BY <1>1, <1>2, NrOf DEF ModuleInv, RegionsRight, MissedRight, PointersRight, NumbersRight, ModuleTypes, Region, pointers
<1>7. ScullCdevs'
  <2> SUFFICES ASSUME NEW k \in 0 .. scull_nr_devs - 1 PROVE ScullCdev(k)'
    BY DEF ScullCdevs
  <2> QED
    BY <1>1, <1>2, TheDevices, NrOf DEF ModuleInv, ScullCdevs, ScullCdev, ModuleTypes, CountRight, PointersRight, pointers
<1>8. PipeCdevs'
  <2> SUFFICES ASSUME NEW k \in 0 .. scull_p_nr_devs - 1 PROVE PipeCdev(k)'
    BY DEF PipeCdevs
  <2> QED
    BY <1>1, <1>2, TheDevices, NrOf DEF ModuleInv, PipeCdevs, PipeCdev, ModuleTypes, CountRight, PointersRight, pointers
<1>9. AccessCdevs'
  <2> SUFFICES ASSUME NEW k \in 0 .. 3 PROVE AccessCdev(k)'
    BY DEF AccessCdevs
  <2> QED
    BY <1>1, <1>2, TheDevices, NrOf DEF ModuleInv, MissedRight, AccessCdevs, AccessCdev, ModuleTypes, CountRight, PointersRight, pointers
<1>10. CountRight'
  BY <1>1, <1>2, NrOf DEF ModuleInv, CountRight, ModuleTypes, PointersRight, pointers
<1>11. FilesRight'
  BY <1>1, <1>2, NrOf DEF ModuleInv, FilesRight, ModuleTypes, ScullCdevs, PipeCdevs, AccessCdevs, pointers
<1>12. HeapRight'
  <2>1. \A d \in AllDevs : cdev[d] # "added"
    BY <1>1, NrOf, Devices
       DEF ModuleInv, ScullCdevs, ScullCdev, PipeCdevs, PipeCdev, AccessCdevs, AccessCdev, PointersRight
  <2>2. \A d \in AllDevs : ~(files[d] > 0)
    BY <2>1 DEF ModuleInv, FilesRight
  <2>3. heap = {}
    BY <1>1, <2>1, <2>2 DEF ModuleInv, HeapRight, PointersRight
  <2> QED
    BY <1>1, <2>3 DEF HeapRight
<1>13. MissedRight'
  BY <1>1, <1>2, NrOf DEF ModuleInv, MissedRight, PointersRight, ModuleTypes, pointers
<1>14. WrongRight'
  BY <1>1, <1>2 DEF ModuleInv, WrongRight, MissedRight, ModuleTypes, pointers
<1> QED
  BY <1>3, <1>4, <1>5, <1>6, <1>7, <1>8, <1>9, <1>10, <1>11, <1>12, <1>13, <1>14 DEF ModuleInv

-----------------------------------------------------------------------------
(* Programs.                                                                  *)

(* A device that is added has its region, and its numbers are in it.           *)
LEMMA AddedDevice ==
  ASSUME ModuleInv, NEW d \in AllDevs, cdev[d] = "added"
  PROVE  /\ d[1] = "scull" /\ stage \in Allocated =>
              d[2] \in 0 .. scull_nr_devs - 1 /\ Number(d) = d[2]
         /\ d[1] = "scullp" =>
              /\ d[2] \in 0 .. scull_p_nr_devs - 1 /\ scull_p_devices
              /\ Number(d) = d[2] + scull_nr_devs
         /\ d[1] = "sculla" =>
              /\ d[2] \in 0 .. 3 /\ HasNumbers
              /\ Number(d) = d[2] + scull_a_firstdev
         /\ d[1] = "scull" => stage \in Allocated /\ scull_devices
         /\ d = <<d[1], d[2]>> /\ d[1] \in Parts
<1>1. d[1] = "scull" => d[2] \in 0 .. scull_nr_devs - 1 /\ d = <<"scull", d[2]>>
  BY Devices
<1>2. d[1] = "scullp" => d[2] \in 0 .. scull_p_nr_devs - 1 /\ d = <<"scullp", d[2]>>
  BY Devices
<1>3. d[1] = "sculla" => d[2] \in 0 .. 3 /\ d = <<"sculla", d[2]>>
  BY Devices
<1>4. d[1] \in Parts
  BY Devices DEF Parts
<1>5. d[1] = "scull" => stage \in Allocated /\ scull_devices
  BY <1>1 DEF ModuleInv, ScullCdevs, ScullCdev, ModuleTypes, PointersRight
<1>6. d[1] = "scullp" => scull_p_devices
  BY <1>2 DEF ModuleInv, PipeCdevs, PipeCdev
<1>7. d[1] = "sculla" => HasNumbers
  BY <1>3 DEF ModuleInv, AccessCdevs, AccessCdev, ModuleTypes
<1>8. scull_p_devices => scull_p_devno = scull_nr_devs
  BY DEF ModuleInv, NumbersRight
<1>9. d[1] = "scull" => Number(d) = d[2]
  BY <1>1, NumberOf
<1> QED
  BY <1>1, <1>2, <1>3, <1>4, <1>5, <1>6, <1>7, <1>8, <1>9, NumberOf DEF Parts

LEMMA OpenFileStep ==
  ASSUME ModuleInv, NEW d \in AllDevs, OpenFile(d)
  PROVE  ModuleInv'
<1>1. /\ stage \notin NoFiles /\ cdev[d] = "added" /\ files' = [files EXCEPT ![d] = 1]
      /\ UNCHANGED <<stage, i, firstdev, pointers, cdev, regions, missed, wrong>>
  BY DEF OpenFile, Going
<1>2. PICK k \in Terminals : /\ heap' = heap \cup Made(d, k)
                             /\ clones' = IF d = Priv THEN clones \cup {k} ELSE clones
  BY DEF OpenFile
<1>3. Made(d, k) \subseteq {<<"data", d>>} \cup {<<"buffer", d>>} \cup
                           (IF d = Priv THEN {<<"clone", k>>, <<"data", k>>} ELSE {})
  BY DEF Made
<1>4. files' \in [AllDevs -> {0, 1}] /\ files'[d] = 1 /\ \A e \in AllDevs : e # d => files'[e] = files[e]
  BY <1>1 DEF ModuleInv, ModuleTypes
<1>5. ModuleTypes'
  BY <1>1, <1>2, <1>4 DEF ModuleInv, ModuleTypes, pointers
<1>6. FilesRight'
  BY <1>1, <1>4 DEF ModuleInv, FilesRight
<1>7. HeapRight'
  <2>1. <<"scull_devices">> \notin Made(d, k) /\ <<"scull_p_devices">> \notin Made(d, k)
    BY NoPair DEF Made
  <2>2. heap' \subseteq {<<"scull_devices">>, <<"scull_p_devices">>}
           \cup {<<"data", e>> : e \in {x \in AllDevs : cdev'[x] = "added"}}
           \cup {<<"buffer", e>> : e \in {x \in AllDevs : files'[x] > 0}}
           \cup {<<"clone", e>> : e \in clones'} \cup {<<"data", e>> : e \in clones'}
    <3> SUFFICES ASSUME NEW h \in heap'
                 PROVE  \/ h \in {<<"scull_devices">>, <<"scull_p_devices">>}
                        \/ \E e \in AllDevs : cdev[e] = "added" /\ h = <<"data", e>>
                        \/ \E e \in AllDevs : files'[e] > 0 /\ h = <<"buffer", e>>
                        \/ \E e \in clones' : h = <<"clone", e>> \/ h = <<"data", e>>
      BY <1>1
    <3>1. CASE h \in heap
      <4>1. \/ h \in {<<"scull_devices">>, <<"scull_p_devices">>}
            \/ \E e \in AllDevs : cdev[e] = "added" /\ h = <<"data", e>>
            \/ \E e \in AllDevs : files[e] > 0 /\ h = <<"buffer", e>>
            \/ \E e \in clones : h = <<"clone", e>> \/ h = <<"data", e>>
        BY <3>1 DEF ModuleInv, HeapRight
      <4>2. \A e \in AllDevs : files[e] > 0 => files'[e] > 0
        BY <1>4
      <4> QED
        BY <1>2, <4>1, <4>2
    <3>2. CASE h \in Made(d, k)
      BY <1>1, <1>2, <1>3, <1>4, <3>2
    <3> QED
      BY <1>2, <3>1, <3>2
  <2> QED
    BY <1>1, <1>2, <2>1, <2>2 DEF ModuleInv, HeapRight, pointers
<1> QED
  BY <1>1, <1>5, <1>6, <1>7
     DEF ModuleInv, PointersRight, MissedRight, WrongRight, NumbersRight, RegionsRight, ScullCdevs, ScullCdev, PipeCdevs,
         PipeCdev, AccessCdevs, AccessCdev, CountRight, pointers

LEMMA CloseFileStep ==
  ASSUME ModuleInv, NEW d \in AllDevs, CloseFile(d)
  PROVE  ModuleInv'
<1>1. /\ files' = [files EXCEPT ![d] = 0] /\ heap' = heap \ {<<"buffer", d>>}
      /\ UNCHANGED <<stage, i, firstdev, pointers, cdev, clones, regions, missed, wrong>>
  BY DEF CloseFile
<1>2. files' \in [AllDevs -> {0, 1}] /\ files'[d] = 0 /\ \A e \in AllDevs : e # d => files'[e] = files[e]
  BY <1>1 DEF ModuleInv, ModuleTypes
<1>3. ModuleTypes'
  BY <1>1, <1>2 DEF ModuleInv, ModuleTypes, pointers
<1>4. FilesRight'
  BY <1>1, <1>2 DEF ModuleInv, FilesRight
<1>5. HeapRight'
  BY <1>1, <1>2, NoPair DEF ModuleInv, HeapRight, pointers
<1> QED
  BY <1>1, <1>3, <1>4, <1>5
     DEF ModuleInv, PointersRight, MissedRight, WrongRight, NumbersRight, RegionsRight, ScullCdevs, ScullCdev, PipeCdevs,
         PipeCdev, AccessCdevs, AccessCdev, CountRight, pointers

-----------------------------------------------------------------------------
(* The module.                                                                *)

LEMMA StartsRight == ModuleInit => ModuleInv
<1> SUFFICES ASSUME ModuleInit PROVE ModuleInv
  OBVIOUS
<1>1. ModuleTypes
  BY DEF ModuleInit, NoCdev, ModuleTypes, CdevStates
<1>2. ScullCdevs /\ PipeCdevs /\ AccessCdevs
  BY TheDevices DEF ModuleInit, NoCdev, ScullCdevs, ScullCdev, PipeCdevs, PipeCdev, AccessCdevs, AccessCdev
<1>3. RegionsRight /\ NumbersRight /\ PointersRight /\ CountRight /\ MissedRight /\ WrongRight
  BY DEF ModuleInit, RegionsRight, NumbersRight, PointersRight, CountRight, MissedRight, WrongRight
<1>4. FilesRight /\ HeapRight
  BY DEF ModuleInit, FilesRight, HeapRight
<1> QED
  BY <1>1, <1>2, <1>3, <1>4 DEF ModuleInv

LEMMA StaysRight ==
  ASSUME ModuleInv, [ModuleNext]_moduleVars, SomeDevice
  PROVE  ModuleInv'
<1>1. CASE InitRegion \/ InitAlloc \/ \E part \in Parts : SetupCdev(part)
  BY <1>1, InitRegionStep, InitAllocStep, SetupScullStep, SetupPipeStep, SetupAccessStep DEF Parts
<1>2. CASE SetupEnds("scull", "p_region") \/ SetupEnds("scullp", "a_region") \/ SetupEnds("sculla", "live")
  BY <1>2, EndScullStep, EndPipeStep, EndAccessStep
<1>3. CASE PipeRegion \/ PipeAlloc \/ AccessRegion
  BY <1>3, PipeRegionStep, PipeAllocStep, AccessRegionStep
<1>4. CASE \E d \in AllDevs : OpenFile(d) \/ CloseFile(d)
  BY <1>4, OpenFileStep, CloseFileStep
<1>5. CASE Unload \/ CleanScull \/ CleanMain \/ CleanPipe
  BY <1>5, UnloadStep, CleanScullStep, CleanMainStep, CleanPipeStep
<1>6. CASE CleanPipes \/ CleanAccess \/ CleanClone \/ CleanEnds
  BY <1>6, CleanPipesStep, CleanAccessStep, CleanCloneStep, CleanEndsStep
<1>7. CASE UNCHANGED moduleVars
  BY <1>7 DEF moduleVars, pointers, ModuleInv, ModuleTypes, PointersRight, MissedRight, WrongRight, NumbersRight, RegionsRight,
         ScullCdevs, ScullCdev, PipeCdevs, PipeCdev, AccessCdevs, AccessCdev, CountRight, FilesRight, HeapRight
<1> QED
  BY <1>1, <1>2, <1>3, <1>4, <1>5, <1>6, <1>7 DEF ModuleNext

LEMMA OutIsEmpty ==
  ASSUME ModuleInv, stage = "out"
  PROVE  regions = {} /\ heap = {}
<1>1. \A d \in AllDevs : cdev[d] # "added"
  <2> SUFFICES ASSUME NEW d \in AllDevs PROVE cdev[d] # "added"
    OBVIOUS
  <2>1. ~scull_p_devices
    BY DEF ModuleInv, PointersRight
  <2> QED
    BY <2>1, AddedDevice DEF Parts
<1>2. \A d \in AllDevs : ~(files[d] > 0)
  BY <1>1 DEF ModuleInv, FilesRight
<1>3. clones = {} /\ ~scull_p_devices
  BY DEF ModuleInv, HeapRight, PointersRight
<1>4. <<"scull_devices">> \notin heap /\ <<"scull_p_devices">> \notin heap
  BY <1>3 DEF ModuleInv, HeapRight
<1>5. heap = {}
  BY <1>1, <1>2, <1>3, <1>4 DEF ModuleInv, HeapRight
<1>6. regions = {}
  BY <1>3 DEF ModuleInv, RegionsRight
<1> QED
  BY <1>5, <1>6

LEMMA NumbersApart ==
  ASSUME ModuleInv, NEW d \in AllDevs, NEW e \in AllDevs, cdev[d] = "added", cdev[e] = "added",
         Number(d) = Number(e)
  PROVE  d = e
<1>1. /\ scull_nr_devs \in Nat /\ scull_p_nr_devs \in Nat
      /\ HasNumbers => scull_a_firstdev >= scull_nr_devs
      /\ HasNumbers /\ scull_p_devices => scull_a_firstdev = scull_nr_devs + scull_p_nr_devs
      /\ scull_a_firstdev \in Nat
  BY NrOf DEF ModuleInv, NumbersRight, ModuleTypes
<1>2. d[1] = e[1]
  BY <1>1, AddedDevice DEF Parts
<1>3. d[2] = e[2]
  BY <1>1, <1>2, AddedDevice DEF Parts
<1> QED
  BY <1>2, <1>3, AddedDevice

(* Whatever number of devices, pipes, terminals and open files there is, and   *)
(* whichever calls fail, the unloaded module leaves nothing, an open device    *)
(* has its memory and numbers of its own, and the cleanup takes back only what *)
(* was given, but for the access devices, of which it may take back one that   *)
(* could not be added, or all of them after their region or the allocation of  *)
(* scull_devices failed (scull_init_module, scull_p_init, scull_access_init,   *)
(* scull_cleanup_module).  With no bare device and no pipe both would have the *)
(* same empty region.                                                          *)
THEOREM CleanupIsTidy ==
  ASSUME SomeDevice
  PROVE  ModuleSpec => []Tidy
<1>1. ModuleInv => Tidy
  <2> SUFFICES ASSUME ModuleInv PROVE Tidy
    OBVIOUS
  <2>1. \A x \in wrong : x[1] = "sculla" /\ {x, <<"sculla">>, <<"scull_devices">>} \cap missed # {}
    BY DEF ModuleInv, WrongRight
  <2>2. \A d \in AllDevs : files[d] > 0 =>
       /\ d[1] = "scull" => <<"scull_devices">> \in heap
       /\ d[1] = "scullp" => <<"scull_p_devices">> \in heap
       /\ \E r \in regions : r[2] = Nr(d[1]) /\ Number(d) \in r[1] .. r[1] + r[2] - 1
    <3> SUFFICES ASSUME NEW d \in AllDevs, files[d] > 0
                 PROVE  /\ d[1] = "scull" => <<"scull_devices">> \in heap
                        /\ d[1] = "scullp" => <<"scull_p_devices">> \in heap
                        /\ \E r \in regions : r[2] = Nr(d[1]) /\ Number(d) \in r[1] .. r[1] + r[2] - 1
      OBVIOUS
    <3>1. cdev[d] = "added"
      BY DEF ModuleInv, FilesRight
    <3>2. CASE d[1] = "scull"
      <4>1. Region("scull", 0) \in regions /\ <<"scull_devices">> \in heap
        BY <3>1, <3>2, AddedDevice DEF ModuleInv, RegionsRight, HeapRight
      <4>2. d[2] \in 0 .. scull_nr_devs - 1 /\ Number(d) = d[2]
        BY <3>1, <3>2, AddedDevice
      <4> QED
        BY <3>2, <4>1, <4>2, NrOf DEF Region
    <3>3. CASE d[1] = "scullp"
      <4>1. scull_p_devices /\ d[2] \in 0 .. scull_p_nr_devs - 1 /\ Number(d) = d[2] + scull_nr_devs
        BY <3>1, <3>3, AddedDevice
      <4>2. scull_p_devno = scull_nr_devs
        BY <4>1 DEF ModuleInv, NumbersRight
      <4>3. Region("scullp", scull_nr_devs) \in regions /\ <<"scull_p_devices">> \in heap
        BY <4>1, <4>2 DEF ModuleInv, RegionsRight, HeapRight
      <4> QED
        BY <3>3, <4>1, <4>3, NrOf DEF Region
    <3>4. CASE d[1] = "sculla"
      <4>1. HasNumbers /\ d[2] \in 0 .. 3 /\ Number(d) = d[2] + scull_a_firstdev
        BY <3>1, <3>4, AddedDevice
      <4>2. Region("sculla", scull_a_firstdev) \in regions /\ scull_a_firstdev \in Nat
        BY <4>1 DEF ModuleInv, RegionsRight, ModuleTypes
      <4> QED
        BY <3>4, <4>1, <4>2, NrOf DEF Region
    <3>5. d[1] \in Parts
      BY <3>1, AddedDevice
    <3> QED
      BY <3>2, <3>3, <3>4, <3>5 DEF Parts
  <2>3. \A d, e \in {x \in AllDevs : cdev[x] = "added"} : Number(d) = Number(e) => d = e
    BY NumbersApart
  <2> QED
    BY <2>1, <2>2, <2>3, OutIsEmpty DEF Tidy
<1>2. ModuleInit => ModuleInv
  BY StartsRight
<1>3. ModuleInv /\ [ModuleNext]_moduleVars => ModuleInv'
  BY StaysRight
<1> QED
  BY <1>1, <1>2, <1>3, PTL DEF ModuleSpec

-----------------------------------------------------------------------------
(* The bare device: arithmetic of positions.                                  *)

LEMMA DivMod ==
  ASSUME NEW a \in Nat, NEW k \in Nat \ {0}
  PROVE  a \div k \in Nat /\ a % k \in 0..(k - 1) /\ a = k * (a \div k) + (a % k)
OBVIOUS

LEMMA DivLess ==
  ASSUME NEW k \in Nat \ {0}, NEW l \in Nat, NEW a \in Nat, a < k * l
  PROVE  (a \div k) < l
OBVIOUS

LEMMA TimesMonotone ==
  ASSUME NEW a \in Nat, NEW b \in Nat, NEW k \in Nat, a <= b
  PROVE  k * a <= k * b
OBVIOUS

LEMMA TimesShift ==
  ASSUME NEW a \in Nat, NEW k \in Nat
  PROVE  k * (a + 1) = k * a + k
OBVIOUS

LEMMA TimesNat ==
  ASSUME NEW a \in Nat, NEW b \in Nat
  PROVE  a * b \in Nat
OBVIOUS

LEMMA Extent ==
  ASSUME NEW l \in Nat, NEW m \in Nat, NEW n \in Nat
  PROVE  l * m * n = (n * m) * l
OBVIOUS

LEMMA TimesPositive ==
  ASSUME NEW a \in Nat \ {0}, NEW b \in Nat \ {0}
  PROVE  a * b \in Nat \ {0}
OBVIOUS

-----------------------------------------------------------------------------
(* The place of a position.                                                   *)

(* A call that knows the shape finds its item, quantum and byte in their ranges. *)
LEMMA Place ==
  ASSUME NEW p \in Procs, TypeOK, ShapeKnown(p)
  PROVE  /\ call[p].m = m_qset /\ call[p].n = n_quantum
         /\ m_qset \in Nat \ {0} /\ n_quantum \in Nat \ {0} /\ nm(p) \in Nat \ {0}
         /\ f_pos[p] \in Nat /\ ln(p) \in Nat /\ rest(p) \in 0..(nm(p) - 1)
         /\ s_pos(p) \in 0..(m_qset - 1) /\ q_pos(p) \in 0..(n_quantum - 1)
         /\ f_pos[p] = nm(p) * ln(p) + rest(p)
         /\ rest(p) = n_quantum * s_pos(p) + q_pos(p)
<1> DEFINE m == m_qset
           n == n_quantum
<1>1. call[p].m = m /\ call[p].n = n /\ m \in Nat \ {0} /\ n \in Nat \ {0} /\ f_pos[p] \in Nat
  BY DevAssumption DEF TypeOK, ShapeKnown
<1>2. nm(p) = n * m /\ nm(p) \in Nat \ {0}
  BY <1>1, TimesPositive DEF nm
<1>3. ln(p) \in Nat /\ rest(p) \in 0..(nm(p) - 1) /\ f_pos[p] = nm(p) * ln(p) + rest(p)
  BY <1>1, <1>2, DivMod DEF ln, rest
<1>4. rest(p) \in Nat /\ rest(p) < n * m
  BY <1>2, <1>3
<1>5. s_pos(p) \in Nat /\ q_pos(p) \in 0..(n - 1) /\ rest(p) = n * s_pos(p) + q_pos(p)
  BY <1>1, <1>4, DivMod DEF s_pos, q_pos
<1>6. s_pos(p) < m
  BY <1>1, <1>4, DivLess DEF s_pos
<1> QED
  BY <1>1, <1>2, <1>3, <1>5, <1>6

(* A transfer stays in its quantum, so it ends at most where the item ends.    *)
LEMMA PieceFits ==
  ASSUME NEW p \in Procs, TypeOK, ShapeKnown(p), NEW cnt \in Nat
  PROVE  /\ Piece(p, cnt) \in Nat /\ Piece(p, cnt) <= cnt
         /\ q_pos(p) + Piece(p, cnt) <= n_quantum
         /\ f_pos[p] + Piece(p, cnt) <= nm(p) * (ln(p) + 1)
<1> DEFINE m == m_qset
           n == n_quantum
           k == Piece(p, cnt)
<1>1. /\ m \in Nat \ {0} /\ n \in Nat \ {0} /\ nm(p) \in Nat \ {0} /\ nm(p) = n * m
      /\ f_pos[p] \in Nat /\ ln(p) \in Nat /\ rest(p) \in 0..(nm(p) - 1)
      /\ s_pos(p) \in 0..(m - 1) /\ q_pos(p) \in 0..(n - 1)
      /\ f_pos[p] = nm(p) * ln(p) + rest(p)
      /\ rest(p) = n * s_pos(p) + q_pos(p)
  BY Place DEF nm
<1>2. k \in Nat /\ k <= cnt /\ q_pos(p) + k <= n
  BY <1>1, Place DEF Piece, Smaller
<1>3. n * (s_pos(p) + 1) <= n * m /\ n * (s_pos(p) + 1) = n * s_pos(p) + n
  BY <1>1, TimesMonotone, TimesShift
<1>4. n * s_pos(p) \in Nat /\ n * m \in Nat
  BY <1>1, TimesNat
<1>5. rest(p) + k <= nm(p)
  BY <1>1, <1>2, <1>3, <1>4
<1>6. nm(p) * (ln(p) + 1) = nm(p) * ln(p) + nm(p) /\ nm(p) * ln(p) \in Nat
  BY <1>1, TimesShift, TimesNat
<1>7. f_pos[p] + k <= nm(p) * (ln(p) + 1)
  BY <1>1, <1>2, <1>5, <1>6
<1> QED
  BY <1>2, <1>7

(* A position below the size is in the list.                                   *)
LEMMA Listed ==
  ASSUME NEW p \in Procs, TypeOK, Covered, ~Trimming, ShapeKnown(p), ~AtEnd(p)
  PROVE  ln(p) < ln_qlst /\ ln_qlst = Len(data) /\ ln(p) + 1 \in 1..Len(data)
<1>1. /\ m_qset \in Nat \ {0} /\ n_quantum \in Nat \ {0} /\ nm(p) \in Nat \ {0}
      /\ nm(p) = n_quantum * m_qset /\ f_pos[p] \in Nat /\ ln(p) \in Nat
  BY Place DEF nm
<1>2. ln_qlst \in Nat /\ size \in Nat /\ f_pos[p] < size /\ size <= ln_qlst * m_qset * n_quantum
      /\ ln_qlst = Len(data)
  BY <1>1, DevAssumption DEF AtEnd, Covered, TypeOK
<1>3. f_pos[p] < nm(p) * ln_qlst
  <2>1. ln_qlst * m_qset * n_quantum = nm(p) * ln_qlst
    BY <1>1, <1>2, Extent
  <2> QED
    BY <1>1, <1>2, <2>1, TimesNat
<1>4. ln(p) < ln_qlst
  BY <1>1, <1>2, <1>3, DivLess DEF ln
<1> QED
  BY <1>1, <1>2, <1>4

-----------------------------------------------------------------------------
(* The list that a write leaves.                                              *)

(* The end of the list grows by items without an array.                        *)
LEMMA GrownList ==
  ASSUME TypeOK, NEW k \in Nat
  PROVE  /\ Grown(k) \in Seq(ItemOf(m_qset, n_quantum)) /\ Len(Grown(k)) = Len(data) + k
         /\ \A ix \in 1..Len(data) : Grown(k)[ix] = data[ix]
         /\ \A ix \in (Len(data) + 1)..(Len(data) + k) : Grown(k)[ix] = Null
<1> DEFINE S == ItemOf(m_qset, n_quantum)
           t == [ix \in 1..k |-> Null]
<1>1. data \in Seq(S) /\ Null \in S
  BY DEF TypeOK, ItemOf
<1>2. t \in Seq(S) /\ Len(t) = k
  BY <1>1
<1>3. Grown(k) = data \o t
  BY DEF Grown
<1> HIDE DEF S
<1>4. /\ data \o t \in Seq(S) /\ Len(data \o t) = Len(data) + k
      /\ \A ix \in 1..Len(data) : (data \o t)[ix] = data[ix]
      /\ \A ix \in (Len(data) + 1)..(Len(data) + k) : (data \o t)[ix] = t[ix - Len(data)]
  BY <1>1, <1>2, ConcatProperties
<1>5. \A ix \in (Len(data) + 1)..(Len(data) + k) : t[ix - Len(data)] = Null
  BY <1>1
<1> QED
  BY <1>3, <1>4, <1>5 DEF S

(* What a write that knows the shape finds or makes where it writes.           *)
LEMMA WhereWritten ==
  ASSUME NEW p \in Procs, TypeOK, Covered, ~Trimming, ShapeKnown(p)
  PROVE  /\ Missing(p) \in Nat /\ ln_qlst = Len(data)
         /\ Reached(p) \in Seq(ItemOf(m_qset, n_quantum))
         /\ Len(Reached(p)) = ln_qlst + Missing(p)
         /\ ln(p) + 1 \in 1..Len(Reached(p))
         /\ Array(p) \in [0..(m_qset - 1) -> QuantumOf(n_quantum)]
         /\ Quantum(p) \in [0..(n_quantum - 1) -> Byte]
<1>1. /\ m_qset \in Nat \ {0} /\ n_quantum \in Nat \ {0} /\ ln(p) \in Nat
      /\ s_pos(p) \in 0..(m_qset - 1) /\ q_pos(p) \in 0..(n_quantum - 1)
      /\ call[p].m = m_qset /\ call[p].n = n_quantum
  BY Place
<1>2. ln_qlst \in Nat /\ ln_qlst = Len(data)
  BY DEF Covered, TypeOK
<1>3. Missing(p) \in Nat /\ ln(p) + 1 <= ln_qlst + Missing(p)
  BY <1>1, <1>2 DEF Missing
<1>4. /\ Reached(p) \in Seq(ItemOf(m_qset, n_quantum))
      /\ Len(Reached(p)) = ln_qlst + Missing(p)
  BY <1>2, <1>3, GrownList DEF Reached
<1>5. ln(p) + 1 \in 1..Len(Reached(p))
  BY <1>1, <1>2, <1>3, <1>4
<1>6. Item(p) \in ItemOf(m_qset, n_quantum)
  BY <1>4, <1>5, ElementOfSeq DEF Item
<1>7. NewArray(p) \in [0..(m_qset - 1) -> QuantumOf(n_quantum)]
  BY <1>1 DEF NewArray, QuantumOf
<1>8. Array(p) \in [0..(m_qset - 1) -> QuantumOf(n_quantum)]
  BY <1>6, <1>7 DEF Array, ItemOf
<1>9. Array(p)[s_pos(p)] \in QuantumOf(n_quantum)
  BY <1>1, <1>8
<1>10. NewQuantum(p) \in [0..(n_quantum - 1) -> Byte]
  BY <1>1, DevAssumption DEF NewQuantum
<1>11. Quantum(p) \in [0..(n_quantum - 1) -> Byte]
  BY <1>9, <1>10 DEF Quantum, QuantumOf
<1> QED
  BY <1>2, <1>3, <1>4, <1>5, <1>8, <1>11

LEMMA PatchedType ==
  ASSUME NEW p \in Procs, TypeOK, Covered, ~Trimming, ShapeKnown(p),
         NEW s \in Seq(Byte)
  PROVE  Patched(p, s) \in [0..(n_quantum - 1) -> Byte]
<1>1. /\ Quantum(p) \in [0..(n_quantum - 1) -> Byte]
      /\ q_pos(p) \in Nat /\ n_quantum \in Nat
  BY WhereWritten, Place
<1>2. DOMAIN Quantum(p) = 0..(n_quantum - 1)
  BY <1>1
<1>3. ASSUME NEW j \in 0..(n_quantum - 1), j \in q_pos(p)..(q_pos(p) + Len(s) - 1)
      PROVE  s[j - q_pos(p) + 1] \in Byte
  <2>1. Len(s) \in Nat
    BY LenProperties
  <2>2. j - q_pos(p) + 1 \in 1..Len(s)
    BY <1>1, <1>3, <2>1
  <2> QED
    BY <2>2, ElementOfSeq
<1> QED
  BY <1>1, <1>2, <1>3 DEF Patched

(* The list keeps its shape with another array, or another quantum, where a    *)
(* write is.                                                                   *)
LEMMA WithArrayType ==
  ASSUME NEW p \in Procs, TypeOK, Covered, ~Trimming, ShapeKnown(p),
         NEW a \in [0..(m_qset - 1) -> QuantumOf(n_quantum)]
  PROVE  /\ WithArray(p, a) \in Seq(ItemOf(m_qset, n_quantum))
         /\ Len(WithArray(p, a)) = ln_qlst + Missing(p)
         /\ WithArray(p, a)[ln(p) + 1] = a
         /\ \A ix \in 1..Len(Reached(p)) : ix # ln(p) + 1 => WithArray(p, a)[ix] = Reached(p)[ix]
<1>1. /\ Reached(p) \in Seq(ItemOf(m_qset, n_quantum))
      /\ Len(Reached(p)) = ln_qlst + Missing(p) /\ ln(p) + 1 \in 1..Len(Reached(p))
  BY WhereWritten
<1>2. a \in ItemOf(m_qset, n_quantum)
  BY DEF ItemOf
<1> QED
  BY <1>1, <1>2, ExceptSeq DEF WithArray

LEMMA WithQuantumType ==
  ASSUME NEW p \in Procs, TypeOK, Covered, ~Trimming, ShapeKnown(p),
         NEW q \in [0..(n_quantum - 1) -> Byte]
  PROVE  /\ WithQuantum(p, q) \in Seq(ItemOf(m_qset, n_quantum))
         /\ Len(WithQuantum(p, q)) = ln_qlst + Missing(p)
<1>1. Array(p) \in [0..(m_qset - 1) -> QuantumOf(n_quantum)]
  BY WhereWritten
<1>2. [Array(p) EXCEPT ![s_pos(p)] = q] \in [0..(m_qset - 1) -> QuantumOf(n_quantum)]
  BY <1>1 DEF QuantumOf
<1> QED
  BY <1>2, WithArrayType DEF WithQuantum

-----------------------------------------------------------------------------
(* The invariant holds at first.                                              *)

LEMMA NoExtent ==
  ASSUME NEW m \in Nat, NEW n \in Nat
  PROVE  0 * m * n = 0
OBVIOUS

LEMMA DevInit == Init => DevInv
<1> SUFFICES ASSUME Init PROVE DevInv
  OBVIOUS
<1>1. TypeOK
  <2>1. data \in Seq(ItemOf(m_qset, n_quantum))
    BY EmptySeq DEF Init
  <2>2. got \in [Procs -> Seq(Byte)]
    BY EmptySeq DEF Init
  <2> QED
    BY <2>1, <2>2, DevAssumption DEF Init, TypeOK, Labels, NoCall
<1>2. Covered
  <2>1. m_qset \in Nat /\ n_quantum \in Nat
    BY DevAssumption DEF Init
  <2>2. 0 * m_qset * n_quantum = 0
    BY <2>1, NoExtent
  <2> QED
    BY <2>2, EmptySeq DEF Init, Covered
<1>3. Holding
  BY DevAssumption DEF Init, Holding
<1>4. ShapeKept /\ Room /\ Emptied
  BY DEF Init, ShapeKept, Room, Emptied, From
<1> QED
  BY <1>1, <1>2, <1>3, <1>4 DEF DevInv

-----------------------------------------------------------------------------
(* The invariant is kept.                                                     *)

(* Who is in a read or a write of the list shares it with no trim.             *)
LEMMA NoTrimBeside ==
  ASSUME Holding, NEW p \in Procs, pc[p] \in {"r_main", "w_main", "o_trim"}
  PROVE  ~Trimming
<1> SUFFICES ASSUME NEW q \in Procs, pc[q] \in {"o_quantum", "o_rest"} PROVE FALSE
  BY DEF Trimming
<1>1. sem = p /\ sem = q
  BY DEF Holding
<1> QED
  BY <1>1

(* A step outside the list: it changes neither the list, its shape, nor who is *)
(* trimming it.                                                               *)
LEMMA CoveredKept ==
  ASSUME Covered, UNCHANGED <<shape, store>>, Trimming => Trimming'
  PROVE  Covered'
BY DEF Covered, shape, store

LEMMA SetSteps ==
  ASSUME DevInv, SetQset \/ SetQuantum
  PROVE  DevInv'
<1>1. TypeOK'
  BY DEF DevInv, TypeOK, SetQset, SetQuantum, shape, store, fds
<1>2. Covered'
  <2>1. Trimming => Trimming'
    BY DEF SetQset, SetQuantum, Trimming
  <2> QED
    BY <2>1, CoveredKept DEF DevInv, SetQset, SetQuantum
<1>3. Holding'
  BY DEF DevInv, Holding, SetQset, SetQuantum
<1>4. (ShapeKept /\ Room /\ Emptied)'
  BY DEF DevInv, ShapeKept, ShapeKnown, Room, Emptied, From, SetQset, SetQuantum, shape, store, fds
<1> QED
  BY <1>1, <1>2, <1>3, <1>4 DEF DevInv

LEMMA OpenSteps ==
  ASSUME DevInv, NEW p \in Procs, CallOpen(p) \/ OpenDown(p) \/ Close(p) \/ Seek(p)
  PROVE  DevInv'
<1> USE DEF Goto, From, down
<1>1. TypeOK'
  <2>1. CASE CallOpen(p)
    BY <2>1 DEF DevInv, TypeOK, Labels, CallOpen, param, shape, store
  <2>2. CASE OpenDown(p)
    BY <2>2 DEF DevInv, TypeOK, Labels, OpenDown, param, shape, store, fds
  <2>3. CASE Close(p)
    <3>1. 0 \in 0..MaxPos
      BY DevAssumption
    <3>2. /\ mode' = [mode EXCEPT ![p] = "none"] /\ f_pos' = [f_pos EXCEPT ![p] = 0]
          /\ UNCHANGED <<param, shape, store, sem, pc, call, got>>
      BY <2>3 DEF Close
    <3>3. f_pos' \in [Procs -> 0..MaxPos] /\ mode' \in [Procs -> {"none", "r", "w", "rw"}]
      BY <3>1, <3>2 DEF DevInv, TypeOK
    <3> QED
      BY <3>2, <3>3 DEF DevInv, TypeOK, param, shape, store
  <2>4. CASE Seek(p)
    BY <2>4 DEF DevInv, TypeOK, Seek, param, shape, store
  <2> QED
    BY <2>1, <2>2, <2>3, <2>4
<1>2. Covered'
  <2>1. Trimming => Trimming'
    BY DEF DevInv, TypeOK, CallOpen, OpenDown, Close, Seek, Trimming
  <2>2. UNCHANGED <<shape, store>>
    BY DEF CallOpen, OpenDown, Close, Seek
  <2> QED
    BY <2>1, <2>2, CoveredKept DEF DevInv
<1>3. Holding'
  <2>1. CASE CallOpen(p)
    BY <2>1 DEF DevInv, TypeOK, Holding, CallOpen
  <2>2. CASE OpenDown(p)
    BY <2>2, DevAssumption DEF DevInv, TypeOK, Holding, OpenDown
  <2>3. CASE Close(p) \/ Seek(p)
    BY <2>3 DEF DevInv, Holding, Close, Seek
  <2> QED
    BY <2>1, <2>2, <2>3
<1>4. (ShapeKept /\ Emptied)'
  BY DEF DevInv, TypeOK, ShapeKept, ShapeKnown, Emptied, shape, store, CallOpen, OpenDown, Close, Seek
<1>5. Room'
  BY DEF DevInv, TypeOK, Room, fds, CallOpen, OpenDown, Close, Seek
<1> QED
  BY <1>1, <1>2, <1>3, <1>4, <1>5 DEF DevInv

LEMMA TrimQsetStep ==
  ASSUME DevInv, NEW p \in Procs, TrimQset(p), StableTrim
  PROVE  DevInv'
<1> USE DEF Goto, From
<1>1. TypeOK'
  <2>1. data' \in Seq(ItemOf(m_qset, n_quantum)')
    BY EmptySeq DEF TrimQset
  <2> QED
    BY <2>1 DEF DevInv, TypeOK, Labels, TrimQset, param, fds
<1>2. Covered'
  BY DEF DevInv, TypeOK, TrimQset, Covered, Trimming
<1>3. Holding'
  BY DevAssumption DEF DevInv, TypeOK, Holding, TrimQset
<1>4. ShapeKept'
  <2>1. n_quantum' = n_quantum /\ m_qset' \in QSets
    BY <1>1 DEF TrimQset, TypeOK
  <2>2. ASSUME NEW q \in Procs, q # p
        PROVE  pc'[q] = pc[q] /\ call'[q] = call[q] /\ pc[q] \notin {"r_main", "w_main"}
    BY <2>2 DEF DevInv, TypeOK, Holding, TrimQset
  <2>3. pc'[p] = "o_quantum"
    BY DEF DevInv, TypeOK, TrimQset
  <2>4. m_qset' = m_qset \/ ~Looking
    BY DEF StableTrim, shape
  <2> QED
    BY <2>1, <2>2, <2>3, <2>4 DEF DevInv, ShapeKept, ShapeKnown, Looking
<1>5. Room'
  BY DEF DevInv, TypeOK, Room, TrimQset, fds
<1>6. Emptied'
  <2>1. call'[p].n = scull_quantum /\ data' = <<>>
    BY DEF DevInv, TypeOK, TrimQset
  <2>2. \A q \in Procs : q # p => pc'[q] = pc[q] /\ call'[q] = call[q]
    BY DEF DevInv, TypeOK, TrimQset
  <2> QED
    BY <2>1, <2>2 DEF DevInv, TypeOK, Emptied
<1> QED
  BY <1>1, <1>2, <1>3, <1>4, <1>5, <1>6 DEF DevInv

LEMMA TrimQuantumStep ==
  ASSUME DevInv, NEW p \in Procs, TrimQuantum(p), StableTrim
  PROVE  DevInv'
<1> USE DEF Goto, From
<1>1. data = <<>> /\ call[p].n \in Quanta
  BY DEF DevInv, Emptied, TrimQuantum
<1>2. TypeOK'
  <2>1. data' \in Seq(ItemOf(m_qset, n_quantum)')
    BY <1>1, EmptySeq DEF TrimQuantum, store
  <2> QED
    BY <1>1, <2>1 DEF DevInv, TypeOK, Labels, TrimQuantum, param, store, fds
<1>3. Covered'
  BY DEF DevInv, TypeOK, TrimQuantum, Covered, Trimming
<1>4. Holding'
  BY DevAssumption DEF DevInv, TypeOK, Holding, TrimQuantum
<1>5. ShapeKept'
  <2>1. m_qset' = m_qset /\ call' = call
    BY DEF TrimQuantum
  <2>2. ASSUME NEW q \in Procs, q # p
        PROVE  pc'[q] = pc[q] /\ pc[q] \notin {"r_main", "w_main"}
    BY <2>2 DEF DevInv, TypeOK, Holding, TrimQuantum
  <2>3. pc'[p] = "o_rest"
    BY DEF DevInv, TypeOK, TrimQuantum
  <2>4. n_quantum' = n_quantum \/ ~Looking
    BY DEF StableTrim, shape
  <2> QED
    BY <2>1, <2>2, <2>3, <2>4 DEF DevInv, ShapeKept, ShapeKnown, Looking
<1>6. (Room /\ Emptied)'
  BY DEF DevInv, TypeOK, Room, Emptied, TrimQuantum, fds, store
<1> QED
  BY <1>2, <1>3, <1>4, <1>5, <1>6 DEF DevInv

LEMMA TrimRestStep ==
  ASSUME DevInv, NEW p \in Procs, TrimRest(p)
  PROVE  DevInv'
<1> USE DEF Goto, From, Leave, up
<1>1. data' = <<>> /\ ln_qlst' = 0 /\ size' = 0
  BY DEF DevInv, Emptied, TrimRest
<1>2. TypeOK'
  BY DevAssumption DEF DevInv, TypeOK, Labels, TrimRest, param, shape, fds, NoCall
<1>3. Covered'
  <2>1. m_qset' \in Nat /\ n_quantum' \in Nat
    BY <1>2, DevAssumption DEF TypeOK
  <2>2. 0 * m_qset' * n_quantum' = 0
    BY <2>1, NoExtent
  <2> QED
    BY <1>1, <2>2, EmptySeq DEF Covered
<1>4. Holding'
  BY DevAssumption DEF DevInv, TypeOK, Holding, TrimRest
<1>5. (ShapeKept /\ Room /\ Emptied)'
  BY DEF DevInv, TypeOK, ShapeKept, ShapeKnown, Room, Emptied, TrimRest, shape, fds
<1> QED
  BY <1>2, <1>3, <1>4, <1>5 DEF DevInv

LEMMA LookSteps ==
  ASSUME DevInv, NEW p \in Procs,
         \/ CallRead(p) \/ ReadLook(p) \/ ReadDown(p) \/ ReadReturn(p)
         \/ CallWrite(p) \/ WriteLook(p) \/ WriteDown(p)
  PROVE  DevInv'
<1> USE DEF Goto, From, down
<1>1. TypeOK'
  <2>1. CASE CallRead(p)
    BY <2>1 DEF DevInv, TypeOK, Labels, CallRead, param, shape, store, fds
  <2>2. CASE ReadLook(p) \/ WriteLook(p)
    <3> DEFINE C == [m : QSets \cup {0}, n : Quanta \cup {0}, count : 0..MaxCount]
    <3>1. call' \in [Procs -> C]
      <4>1. call' = [call EXCEPT ![p].n = n_quantum]
        BY <2>2 DEF ReadLook, WriteLook
      <4>2. call \in [Procs -> C] /\ n_quantum \in Quanta
        BY DEF DevInv, TypeOK
      <4>3. [call[p] EXCEPT !.n = n_quantum] \in C
        BY <4>2
      <4> QED
        BY <4>1, <4>2, <4>3
    <3> QED
      BY <2>2, <3>1 DEF DevInv, TypeOK, Labels, ReadLook, WriteLook, param, shape, store, fds
  <2>3. CASE ReadDown(p) \/ WriteDown(p)
    BY <2>3 DEF DevInv, TypeOK, Labels, ReadDown, WriteDown, param, shape, store, fds
  <2>4. CASE ReadReturn(p)
    <3>1. <<>> \in Seq(Byte)
      BY EmptySeq
    <3> QED
      BY <2>4, <3>1 DEF DevInv, TypeOK, Labels, ReadReturn, param, shape, store, fds
  <2>5. CASE CallWrite(p)
    <3>1. Smaller(MaxCount, MaxPos - f_pos[p]) \in Nat /\ Smaller(MaxCount, MaxPos - f_pos[p]) <= MaxCount
      BY DevAssumption DEF DevInv, TypeOK, Smaller
    <3>2. PICK count \in 0..Smaller(MaxCount, MaxPos - f_pos[p]) :
            call' = [call EXCEPT ![p] = [m |-> m_qset, n |-> 0, count |-> count]]
      BY <2>5 DEF CallWrite
    <3>3. count \in 0..MaxCount
      BY <3>1, <3>2, DevAssumption
    <3> QED
      BY <2>5, <3>2, <3>3 DEF DevInv, TypeOK, Labels, CallWrite, param, shape, store, fds
  <2> QED
    BY <2>1, <2>2, <2>3, <2>4, <2>5
<1>2. UNCHANGED <<shape, store>>
  BY DEF CallRead, ReadLook, ReadDown, ReadReturn, CallWrite, WriteLook, WriteDown
<1>3. Covered'
  <2>1. Trimming => Trimming'
    BY DEF DevInv, TypeOK, Trimming, CallRead, ReadLook, ReadDown, ReadReturn, CallWrite,
           WriteLook, WriteDown
  <2> QED
    BY <1>2, <2>1, CoveredKept DEF DevInv
<1>4. Holding'
  <2>1. CASE CallRead(p) \/ ReadLook(p) \/ ReadReturn(p) \/ CallWrite(p) \/ WriteLook(p)
    <3>1. PICK l \in {"idle", "r_look", "r_down", "w_look", "w_down"} : pc' = [pc EXCEPT ![p] = l]
      BY <2>1 DEF CallRead, ReadLook, ReadReturn, CallWrite, WriteLook
    <3>2. sem' = sem /\ pc[p] \in {"idle", "r_look", "r_ret", "w_look"}
      BY <2>1 DEF CallRead, ReadLook, ReadReturn, CallWrite, WriteLook
    <3> QED
      BY <3>1, <3>2 DEF DevInv, TypeOK, Holding
  <2>2. CASE ReadDown(p) \/ WriteDown(p)
    BY <2>2, DevAssumption DEF DevInv, TypeOK, Holding, ReadDown, WriteDown
  <2> QED
    BY <2>1, <2>2
<1>5. (ShapeKept /\ Emptied)'
  <2>1. CASE CallRead(p) \/ CallWrite(p)
    <3>1. call'[p].m = m_qset /\ pc'[p] \in {"r_look", "w_look"}
      BY <2>1 DEF DevInv, TypeOK, CallRead, CallWrite
    <3>2. \A q \in Procs : q # p => pc'[q] = pc[q] /\ call'[q] = call[q]
      BY <2>1 DEF DevInv, TypeOK, CallRead, CallWrite
    <3>3. ShapeKept'
      BY <1>2, <3>1, <3>2 DEF DevInv, ShapeKept, ShapeKnown, shape
    <3> QED
      BY <1>2, <3>1, <3>2, <3>3 DEF DevInv, Emptied, store
  <2>2. CASE ReadLook(p) \/ WriteLook(p)
    <3>1. call'[p].m = call[p].m /\ call'[p].n = n_quantum
      BY <2>2 DEF DevInv, TypeOK, ReadLook, WriteLook
    <3>2. pc[p] \in {"r_look", "w_look"} /\ pc'[p] \in {"r_down", "w_down"}
      BY <2>2 DEF DevInv, TypeOK, ReadLook, WriteLook
    <3>3. \A q \in Procs : q # p => pc'[q] = pc[q] /\ call'[q] = call[q]
      BY <2>2 DEF DevInv, TypeOK, ReadLook, WriteLook
    <3>4. call[p].m = m_qset
      BY <3>2 DEF DevInv, ShapeKept
    <3>5. ShapeKept'
      BY <1>2, <3>1, <3>2, <3>3, <3>4 DEF DevInv, ShapeKept, ShapeKnown, shape
    <3> QED
      BY <1>2, <3>2, <3>3, <3>5 DEF DevInv, Emptied, store
  <2>3. CASE ReadDown(p) \/ ReadReturn(p) \/ WriteDown(p)
    <3>1. call' = call
      BY <2>3 DEF ReadDown, ReadReturn, WriteDown
    <3>2. \/ pc[p] = "r_down" /\ pc'[p] = "r_main"
          \/ pc[p] = "w_down" /\ pc'[p] = "w_main"
          \/ pc'[p] = "idle"
      BY <2>3 DEF DevInv, TypeOK, ReadDown, ReadReturn, WriteDown
    <3>3. \A q \in Procs : q # p => pc'[q] = pc[q]
      BY <2>3 DEF DevInv, TypeOK, ReadDown, ReadReturn, WriteDown
    <3>4. ShapeKept'
      BY <1>2, <3>1, <3>2, <3>3 DEF DevInv, ShapeKept, ShapeKnown, shape
    <3> QED
      BY <1>2, <3>1, <3>2, <3>3, <3>4 DEF DevInv, Emptied, store
  <2> QED
    BY <2>1, <2>2, <2>3
<1>6. Room'
  <2>1. CASE CallWrite(p)
    <3>1. PICK count \in 0..Smaller(MaxCount, MaxPos - f_pos[p]) :
            call' = [call EXCEPT ![p] = [m |-> m_qset, n |-> 0, count |-> count]]
      BY <2>1 DEF CallWrite
    <3>2. f_pos[p] + count <= MaxPos /\ call'[p].count = count
      BY <3>1, DevAssumption DEF DevInv, TypeOK, Smaller
    <3> QED
      BY <2>1, <3>1, <3>2 DEF DevInv, TypeOK, Room, CallWrite, fds
  <2>2. CASE CallRead(p)
    BY <2>2 DEF DevInv, TypeOK, Room, CallRead, fds
  <2>3. CASE ReadLook(p) \/ WriteLook(p)
    <3>1. \A q \in Procs : call'[q].count = call[q].count
      <4>1. call' = [call EXCEPT ![p].n = n_quantum]
        BY <2>3 DEF ReadLook, WriteLook
      <4>2. call \in [Procs -> [m : QSets \cup {0}, n : Quanta \cup {0}, count : 0..MaxCount]]
        BY DEF DevInv, TypeOK
      <4>3. call'[p].count = call[p].count
        BY <4>1, <4>2
      <4>4. \A q \in Procs : q # p => call'[q] = call[q]
        BY <4>1, <4>2
      <4> QED
        BY <4>3, <4>4
    <3>2. f_pos' = f_pos /\ \A q \in Procs :
            pc'[q] \in {"w_look", "w_down", "w_main"} => pc[q] \in {"w_look", "w_down", "w_main"}
      <4>1. CASE ReadLook(p)
        BY <4>1 DEF DevInv, TypeOK, ReadLook, fds
      <4>2. CASE WriteLook(p)
        BY <4>2 DEF DevInv, TypeOK, WriteLook, fds
      <4> QED
        BY <2>3, <4>1, <4>2
    <3> QED
      BY <3>1, <3>2 DEF DevInv, Room
  <2>4. CASE ReadDown(p) \/ ReadReturn(p) \/ WriteDown(p)
    <3>1. call' = call /\ f_pos' = f_pos
      BY <2>4 DEF ReadDown, ReadReturn, WriteDown, fds
    <3>2. \A q \in Procs :
            pc'[q] \in {"w_look", "w_down", "w_main"} => pc[q] \in {"w_look", "w_down", "w_main"}
      BY <2>4 DEF DevInv, TypeOK, ReadDown, ReadReturn, WriteDown
    <3> QED
      BY <3>1, <3>2 DEF DevInv, Room
  <2> QED
    BY <2>1, <2>2, <2>3, <2>4
<1> QED
  BY <1>1, <1>3, <1>4, <1>5, <1>6 DEF DevInv

(* What a read may take before the end of the device.                          *)
LEMMA BeforeEnd ==
  ASSUME TypeOK, NEW p \in Procs, ~AtEnd(p)
  PROVE  /\ f_pos[p] \in Nat /\ size \in Nat /\ MaxPos \in Nat /\ size <= MaxPos
         /\ Smaller(call[p].count, size - f_pos[p]) \in Nat
         /\ Smaller(call[p].count, size - f_pos[p]) <= size - f_pos[p]
<1>1. MaxPos \in Nat /\ MaxCount \in Nat
  BY DevAssumption
<1>2. f_pos[p] \in 0..MaxPos /\ size \in 0..MaxPos /\ call[p].count \in 0..MaxCount
  BY DEF TypeOK
<1>3. f_pos[p] < size
  BY <1>1, <1>2 DEF AtEnd
<1> DEFINE n == call[p].count
           w == f_pos[p]
<1>4. n \in Nat /\ w \in Nat /\ size \in Nat /\ w < size /\ size <= MaxPos
  BY <1>1, <1>2, <1>3
<1> HIDE DEF n, w
<1>5. Smaller(n, size - w) \in Nat /\ Smaller(n, size - w) <= size - w
  BY <1>4 DEF Smaller
<1> QED
  BY <1>1, <1>4, <1>5 DEF n, w

(* A read takes bytes of one quantum, or zeros.                                *)
LEMMA BytesRead ==
  ASSUME DevInv, NEW p \in Procs, From(p, "r_main"), ~AtEnd(p), ShapeKnown(p)
  PROVE  LET cnt == Piece(p, Smaller(call[p].count, size - f_pos[p])) IN
           /\ cnt \in Nat /\ f_pos[p] + cnt <= size
           /\ [k \in 1..cnt |-> IF Found(p) = Null THEN Zero
                                ELSE Found(p)[q_pos(p) + k - 1]] \in Seq(Byte)
<1> DEFINE c == Smaller(call[p].count, size - f_pos[p])
           cnt == Piece(p, c)
<1>1. TypeOK /\ Covered /\ ~Trimming
  BY NoTrimBeside DEF DevInv, From
<1>2. c \in Nat /\ c <= size - f_pos[p] /\ f_pos[p] \in Nat /\ size \in Nat
  BY <1>1, BeforeEnd
<1>3. cnt \in Nat /\ cnt <= c /\ q_pos(p) + cnt <= n_quantum
  BY <1>1, <1>2, PieceFits
<1>4. f_pos[p] + cnt <= size
  BY <1>2, <1>3
<1>5. Found(p) \in QuantumOf(n_quantum)
  <2>1. ln(p) + 1 \in 1..Len(data) /\ data \in Seq(ItemOf(m_qset, n_quantum))
    BY <1>1, Listed DEF TypeOK
  <2>2. data[ln(p) + 1] \in ItemOf(m_qset, n_quantum)
    BY <2>1, ElementOfSeq
  <2>3. s_pos(p) \in 0..(m_qset - 1)
    BY <1>1, Place
  <2> QED
    BY <2>2, <2>3 DEF Found, ItemOf, QuantumOf
<1>6. q_pos(p) \in Nat /\ n_quantum \in Nat
  BY <1>1, Place
<1>7. ASSUME NEW k \in 1..cnt
      PROVE  (IF Found(p) = Null THEN Zero ELSE Found(p)[q_pos(p) + k - 1]) \in Byte
  <2>1. q_pos(p) + k - 1 \in 0..(n_quantum - 1)
    BY <1>3, <1>6
  <2> QED
    BY <1>5, <2>1, DevAssumption DEF QuantumOf
<1> HIDE DEF cnt
<1>8. [k \in 1..cnt |-> IF Found(p) = Null THEN Zero
                        ELSE Found(p)[q_pos(p) + k - 1]] \in Seq(Byte)
  BY <1>3, <1>7
<1> QED
  BY <1>3, <1>4, <1>8 DEF cnt

LEMMA ReadSteps ==
  ASSUME DevInv, NEW p \in Procs, ReadAtEnd(p) \/ ReadMain(p) \/ ReadFault(p)
  PROVE  DevInv'
<1> USE DEF Goto, From, Leave, up
<1>1. UNCHANGED <<param, shape, store, mode>> /\ pc[p] = "r_main"
  BY DEF ReadAtEnd, ReadMain, ReadFault, fds
<1>2. sem' = NoProc /\ call' = [call EXCEPT ![p] = NoCall]
  BY DEF ReadAtEnd, ReadMain, ReadFault
<1>3. pc' = [pc EXCEPT ![p] = "idle"] \/ pc' = [pc EXCEPT ![p] = "r_ret"]
  BY DEF ReadAtEnd, ReadMain, ReadFault
<1>4. got' \in [Procs -> Seq(Byte)] /\ f_pos' \in [Procs -> 0..MaxPos]
      /\ \A q \in Procs : q # p => f_pos'[q] = f_pos[q]
  <2>1. CASE ReadAtEnd(p) \/ ReadFault(p)
    BY <2>1 DEF DevInv, TypeOK, ReadAtEnd, ReadFault, fds
  <2>2. CASE ReadMain(p)
    <3> DEFINE cnt == Piece(p, Smaller(call[p].count, size - f_pos[p]))
    <3> DEFINE b == [k \in 1..cnt |-> IF Found(p) = Null THEN Zero
                                      ELSE Found(p)[q_pos(p) + k - 1]]
    <3>1. cnt \in Nat /\ f_pos[p] + cnt <= size /\ b \in Seq(Byte)
      BY <2>2, BytesRead DEF ReadMain
    <3>2. got' = [got EXCEPT ![p] = b] /\ f_pos' = [f_pos EXCEPT ![p] = f_pos[p] + cnt]
      BY <2>2 DEF ReadMain
    <3> HIDE DEF cnt, b
    <3>3. f_pos[p] + cnt \in 0..MaxPos
      <4>1. f_pos[p] \in 0..MaxPos /\ size \in 0..MaxPos /\ MaxPos \in Nat
        BY DevAssumption DEF DevInv, TypeOK
      <4> DEFINE w == f_pos[p]
      <4> HIDE DEF w
      <4>2. w \in 0..MaxPos /\ cnt \in Nat /\ w + cnt <= size
        BY <3>1, <4>1 DEF w
      <4>3. w + cnt \in 0..MaxPos
        BY <4>1, <4>2
      <4> QED
        BY <4>3 DEF w
    <3>4. got \in [Procs -> Seq(Byte)] /\ f_pos \in [Procs -> 0..MaxPos]
      BY DEF DevInv, TypeOK
    <3> QED
      BY <3>1, <3>2, <3>3, <3>4
  <2> QED
    BY <2>1, <2>2
<1>5. TypeOK'
  <2>1. call' \in [Procs -> [m : QSets \cup {0}, n : Quanta \cup {0}, count : 0..MaxCount]]
    BY <1>2, DevAssumption DEF DevInv, TypeOK, NoCall
  <2>2. pc' \in [Procs -> Labels]
    BY <1>3 DEF DevInv, TypeOK, Labels
  <2> QED
    BY <1>1, <1>2, <1>4, <2>1, <2>2 DEF DevInv, TypeOK, param, shape, store
<1>6. Covered'
  <2>1. Trimming => Trimming'
    BY <1>1, <1>3 DEF DevInv, TypeOK, Trimming
  <2> QED
    BY <1>1, <2>1, CoveredKept DEF DevInv
<1>7. Holding'
  BY <1>1, <1>2, <1>3, DevAssumption DEF DevInv, TypeOK, Holding
<1>8. (ShapeKept /\ Emptied)'
  BY <1>1, <1>2, <1>3 DEF DevInv, TypeOK, ShapeKept, ShapeKnown, Emptied, shape, store
<1>9. Room'
  BY <1>2, <1>3, <1>4 DEF DevInv, TypeOK, Room
<1> QED
  BY <1>5, <1>6, <1>7, <1>8, <1>9 DEF DevInv

-----------------------------------------------------------------------------
(* What a write leaves.                                                       *)

(* The extent of the list after a write: it never shrinks, and holds the item  *)
(* the write is in.                                                            *)
LEMMA ExtentGrows ==
  ASSUME TypeOK, Covered, ~Trimming, NEW l \in Nat, ln_qlst <= l
  PROVE  size <= l * m_qset * n_quantum
<1>1. m_qset \in Nat /\ n_quantum \in Nat /\ ln_qlst \in Nat /\ size \in Nat
  BY DevAssumption DEF TypeOK
<1>2. n_quantum * m_qset \in Nat
  BY <1>1, TimesNat
<1>3. (n_quantum * m_qset) * ln_qlst <= (n_quantum * m_qset) * l
  BY <1>1, <1>2, TimesMonotone
<1>4. /\ ln_qlst * m_qset * n_quantum = (n_quantum * m_qset) * ln_qlst
      /\ l * m_qset * n_quantum = (n_quantum * m_qset) * l
  BY <1>1, Extent
<1>5. (n_quantum * m_qset) * ln_qlst \in Nat /\ (n_quantum * m_qset) * l \in Nat
  BY <1>1, <1>2, TimesNat
<1>6. size <= ln_qlst * m_qset * n_quantum
  BY DEF Covered
<1> QED
  BY <1>1, <1>3, <1>4, <1>5, <1>6

LEMMA PieceCovered ==
  ASSUME NEW p \in Procs, TypeOK, Covered, ~Trimming, ShapeKnown(p), NEW cnt \in Nat
  PROVE  f_pos[p] + Piece(p, cnt) <= (ln_qlst + Missing(p)) * m_qset * n_quantum
<1> DEFINE l == ln_qlst + Missing(p)
<1>1. /\ m_qset \in Nat /\ n_quantum \in Nat /\ nm(p) \in Nat /\ nm(p) = n_quantum * m_qset
      /\ f_pos[p] \in Nat /\ ln(p) \in Nat
  BY Place DEF nm
<1>2. ln_qlst \in Nat
  BY DEF TypeOK
<1>3. Missing(p) \in Nat /\ ln(p) + 1 <= ln_qlst + Missing(p)
  BY <1>1, <1>2 DEF Missing
<1>4. Piece(p, cnt) \in Nat /\ f_pos[p] + Piece(p, cnt) <= nm(p) * (ln(p) + 1)
  BY PieceFits
<1>5. nm(p) * (ln(p) + 1) <= nm(p) * l /\ nm(p) * (ln(p) + 1) \in Nat /\ nm(p) * l \in Nat
  BY <1>1, <1>2, <1>3, TimesMonotone, TimesNat
<1>6. l * m_qset * n_quantum = nm(p) * l
  BY <1>1, <1>2, <1>3, Extent
<1> QED
  BY <1>1, <1>4, <1>5, <1>6

(* The invariant after any end of scull_write_main: what the list and the size *)
(* have become decides.                                                        *)
LEMMA WriteEnds ==
  ASSUME DevInv, NEW p \in Procs, From(p, "w_main"), ShapeKnown(p),
         Leave(p), UNCHANGED <<param, shape, mode, got>>,
         NEW k \in Nat, ln_qlst' = ln_qlst + k,
         data' \in Seq(ItemOf(m_qset, n_quantum)), Len(data') = ln_qlst + k,
         size' \in 0..MaxPos, size' <= (ln_qlst + k) * m_qset * n_quantum,
         f_pos' \in [Procs -> 0..MaxPos], \A q \in Procs : q # p => f_pos'[q] = f_pos[q]
  PROVE  DevInv'
<1> USE DEF Goto, From, Leave, up
<1>1. TypeOK'
  <2>1. m_qset' = m_qset /\ n_quantum' = n_quantum
    BY DEF shape
  <2>2. data' \in Seq(ItemOf(m_qset', n_quantum'))
    BY <2>1
  <2>3. call' \in [Procs -> [m : QSets \cup {0}, n : Quanta \cup {0}, count : 0..MaxCount]]
    BY DevAssumption DEF DevInv, TypeOK, NoCall
  <2>4. pc' \in [Procs -> Labels]
    BY DEF DevInv, TypeOK, Labels
  <2>5. ln_qlst' \in Nat
    BY DEF DevInv, TypeOK
  <2> QED
    BY <2>1, <2>2, <2>3, <2>4, <2>5 DEF DevInv, TypeOK, param
<1>2. Covered'
  BY DEF Covered, shape
<1>3. Holding'
  BY DevAssumption DEF DevInv, TypeOK, Holding
<1>4. ShapeKept'
  BY DEF DevInv, TypeOK, ShapeKept, ShapeKnown, shape
<1>5. Room'
  BY DEF DevInv, TypeOK, Room
<1>6. Emptied'
  <2>1. ~Trimming
    BY NoTrimBeside DEF DevInv
  <2> QED
    BY <2>1 DEF DevInv, TypeOK, Emptied, Trimming
<1> QED
  BY <1>1, <1>2, <1>3, <1>4, <1>5, <1>6 DEF DevInv

(* The bytes that a write stores before it ends: as many as the piece allows.  *)
LEMMA BytesStored ==
  ASSUME NEW n \in Nat, NEW k \in 0..n, NEW s \in [1..k -> Byte], NEW z \in {0, n - k}
  PROVE  s \o [ix \in 1..z |-> Zero] \in Seq(Byte)
<1>1. s \in Seq(Byte)
  OBVIOUS
<1>2. z \in Nat /\ Zero \in Byte
  BY DevAssumption
<1>3. [ix \in 1..z |-> Zero] \in Seq(Byte)
  BY <1>2
<1> QED
  BY <1>1, <1>3, ConcatProperties

LEMMA WriteNoMemoryStep ==
  ASSUME DevInv, NEW p \in Procs, WriteNoMemory(p)
  PROVE  DevInv'
<1>1. /\ From(p, "w_main") /\ ShapeKnown(p) /\ Leave(p)
      /\ UNCHANGED <<param, shape, mode, got>> /\ size' = size /\ f_pos' = f_pos
  BY DEF WriteNoMemory, fds
<1>2. TypeOK /\ Covered /\ ~Trimming
  BY <1>1, NoTrimBeside DEF DevInv, From
<1>3. /\ Missing(p) \in Nat /\ ln_qlst = Len(data) /\ ln_qlst \in Nat
      /\ Reached(p) \in Seq(ItemOf(m_qset, n_quantum))
      /\ Len(Reached(p)) = ln_qlst + Missing(p)
      /\ Array(p) \in [0..(m_qset - 1) -> QuantumOf(n_quantum)]
  BY <1>1, <1>2, WhereWritten DEF TypeOK
<1>4. PICK k \in Nat : /\ ln_qlst' = ln_qlst + k
                       /\ data' \in Seq(ItemOf(m_qset, n_quantum)) /\ Len(data') = ln_qlst + k
  <2>1. CASE \E k \in 0..(Missing(p) - 1) : data' = Grown(k) /\ ln_qlst' = ln_qlst + k
    <3>1. PICK k \in 0..(Missing(p) - 1) : data' = Grown(k) /\ ln_qlst' = ln_qlst + k
      BY <2>1
    <3>2. k \in Nat
      BY <1>3
    <3> QED
      BY <1>2, <1>3, <3>1, <3>2, GrownList
  <2>2. CASE data' = Reached(p) /\ ln_qlst' = ln_qlst + Missing(p)
    BY <1>3, <2>2
  <2>3. CASE data' = WithArray(p, Array(p)) /\ ln_qlst' = ln_qlst + Missing(p)
    BY <1>1, <1>2, <1>3, <2>3, WithArrayType
  <2> QED
    BY <2>1, <2>2, <2>3 DEF WriteNoMemory
<1>5. size \in 0..MaxPos /\ size' <= (ln_qlst + k) * m_qset * n_quantum
  <2>1. ln_qlst + k \in Nat /\ ln_qlst <= ln_qlst + k
    BY <1>3
  <2> QED
    BY <1>1, <1>2, <2>1, ExtentGrows DEF TypeOK
<1>6. f_pos' \in [Procs -> 0..MaxPos] /\ \A q \in Procs : q # p => f_pos'[q] = f_pos[q]
  BY <1>1, <1>2 DEF TypeOK
<1> QED
  BY <1>1, <1>4, <1>5, <1>6, WriteEnds

LEMMA WriteFaultStep ==
  ASSUME DevInv, NEW p \in Procs, WriteFault(p)
  PROVE  DevInv'
<1> DEFINE cnt == Piece(p, call[p].count)
<1>1. /\ From(p, "w_main") /\ ShapeKnown(p) /\ Leave(p)
      /\ UNCHANGED <<param, shape, mode, got>> /\ size' = size /\ f_pos' = f_pos
      /\ ln_qlst' = ln_qlst + Missing(p)
  BY DEF WriteFault, fds
<1>2. TypeOK /\ Covered /\ ~Trimming
  BY <1>1, NoTrimBeside DEF DevInv, From
<1>3. Missing(p) \in Nat /\ ln_qlst \in Nat /\ call[p].count \in Nat
  <2>1. Missing(p) \in Nat
    BY <1>1, <1>2, WhereWritten
  <2>2. call[p].count \in 0..MaxCount /\ ln_qlst \in Nat
    BY <1>2 DEF TypeOK
  <2> QED
    BY <2>1, <2>2, DevAssumption
<1>4. cnt \in Nat
  BY <1>1, <1>2, <1>3, PieceFits
<1>5. data' \in Seq(ItemOf(m_qset, n_quantum)) /\ Len(data') = ln_qlst + Missing(p)
  <2>1. PICK k \in 0..(cnt - 1) : \E s \in [1..k -> Byte], z \in {0, cnt - k} :
          data' = WithQuantum(p, Patched(p, s \o [ix \in 1..z |-> Zero]))
    BY DEF WriteFault
  <2>2. PICK s \in [1..k -> Byte], z \in {0, cnt - k} :
          data' = WithQuantum(p, Patched(p, s \o [ix \in 1..z |-> Zero]))
    BY <2>1
  <2> HIDE DEF cnt
  <2>3. k \in 0..cnt
    BY <1>4, <2>1
  <2>4. s \o [ix \in 1..z |-> Zero] \in Seq(Byte)
    BY <1>4, <2>2, <2>3, BytesStored
  <2>5. Patched(p, s \o [ix \in 1..z |-> Zero]) \in [0..(n_quantum - 1) -> Byte]
    BY <1>1, <1>2, <2>4, PatchedType
  <2> QED
    BY <1>1, <1>2, <2>2, <2>5, WithQuantumType
<1>6. size \in 0..MaxPos /\ size' <= (ln_qlst + Missing(p)) * m_qset * n_quantum
  <2>1. ln_qlst + Missing(p) \in Nat /\ ln_qlst <= ln_qlst + Missing(p)
    BY <1>3
  <2> QED
    BY <1>1, <1>2, <2>1, ExtentGrows DEF TypeOK
<1>7. f_pos' \in [Procs -> 0..MaxPos] /\ \A q \in Procs : q # p => f_pos'[q] = f_pos[q]
  BY <1>1, <1>2 DEF TypeOK
<1> HIDE DEF cnt
<1> QED
  BY <1>1, <1>3, <1>5, <1>6, <1>7, WriteEnds

LEMMA WriteMainStep ==
  ASSUME DevInv, NEW p \in Procs, WriteMain(p)
  PROVE  DevInv'
<1> DEFINE cnt == Piece(p, call[p].count)
<1>1. /\ From(p, "w_main") /\ ShapeKnown(p) /\ Leave(p)
      /\ UNCHANGED <<param, shape, mode, got>>
      /\ ln_qlst' = ln_qlst + Missing(p)
  BY DEF WriteMain
<1>2. TypeOK /\ Covered /\ ~Trimming
  BY <1>1, NoTrimBeside DEF DevInv, From
<1>3. Missing(p) \in Nat /\ ln_qlst \in Nat /\ call[p].count \in Nat
  <2>1. Missing(p) \in Nat
    BY <1>1, <1>2, WhereWritten
  <2>2. call[p].count \in 0..MaxCount /\ ln_qlst \in Nat
    BY <1>2 DEF TypeOK
  <2> QED
    BY <2>1, <2>2, DevAssumption
<1>4. cnt \in Nat /\ cnt <= call[p].count
  BY <1>1, <1>2, <1>3, PieceFits
<1>5. f_pos[p] + cnt <= (ln_qlst + Missing(p)) * m_qset * n_quantum
  BY <1>1, <1>2, <1>3, PieceCovered
<1>6. PICK s \in [1..cnt -> Byte] :
        /\ data' = WithQuantum(p, Patched(p, s))
        /\ f_pos' = [f_pos EXCEPT ![p] = @ + Len(s)]
        /\ size' = NewSize(f_pos'[p])
  BY DEF WriteMain
<1> HIDE DEF cnt
<1>7. s \in Seq(Byte) /\ Len(s) = cnt
  BY <1>4
<1>8. data' \in Seq(ItemOf(m_qset, n_quantum)) /\ Len(data') = ln_qlst + Missing(p)
  <2>1. Patched(p, s) \in [0..(n_quantum - 1) -> Byte]
    BY <1>1, <1>2, <1>7, PatchedType
  <2> QED
    BY <1>1, <1>2, <1>6, <2>1, WithQuantumType
<1>9. /\ f_pos' \in [Procs -> 0..MaxPos] /\ f_pos'[p] = f_pos[p] + cnt
      /\ \A q \in Procs : q # p => f_pos'[q] = f_pos[q]
  <2>1. f_pos[p] + cnt \in 0..MaxPos
    <3>1. f_pos[p] + call[p].count <= MaxPos
      BY <1>1 DEF DevInv, Room, From
    <3>2. f_pos[p] \in Nat /\ MaxPos \in Nat
      BY <1>2, DevAssumption DEF TypeOK
    <3> QED
      BY <1>3, <1>4, <3>1, <3>2
  <2> QED
    BY <1>2, <1>6, <1>7, <2>1 DEF TypeOK
<1>10. size' \in 0..MaxPos /\ size' <= (ln_qlst + Missing(p)) * m_qset * n_quantum
  <2>1. size <= (ln_qlst + Missing(p)) * m_qset * n_quantum
    <3>1. ln_qlst + Missing(p) \in Nat /\ ln_qlst <= ln_qlst + Missing(p)
      BY <1>3
    <3> QED
      BY <1>2, <3>1, ExtentGrows
  <2>2. size \in 0..MaxPos /\ f_pos'[p] \in 0..MaxPos
    BY <1>2, <1>9 DEF TypeOK
  <2> QED
    BY <1>5, <1>6, <1>9, <2>1, <2>2 DEF NewSize
<1> QED
  BY <1>1, <1>3, <1>8, <1>9, <1>10, WriteEnds

LEMMA InterruptedStep ==
  ASSUME DevInv, NEW p \in Procs, InterruptedDown(p)
  PROVE  DevInv'
<1> USE DEF Goto, From
<1>1. /\ pc' = [pc EXCEPT ![p] = "idle"] /\ call' = [call EXCEPT ![p] = NoCall]
      /\ UNCHANGED <<param, shape, store, sem, f_pos, got>>
      /\ pc[p] \in {"o_down", "r_down", "w_down"}
  BY DEF InterruptedDown
<1>2. TypeOK'
  <2>1. call' \in [Procs -> [m : QSets \cup {0}, n : Quanta \cup {0}, count : 0..MaxCount]]
    BY <1>1, DevAssumption DEF DevInv, TypeOK, NoCall
  <2>2. pc' \in [Procs -> Labels]
    BY <1>1 DEF DevInv, TypeOK, Labels
  <2>3. mode' \in [Procs -> {"none", "r", "w", "rw"}]
    BY DEF DevInv, TypeOK, InterruptedDown
  <2> QED
    BY <1>1, <2>1, <2>2, <2>3 DEF DevInv, TypeOK, param, shape, store
<1>3. Covered'
  <2>1. Trimming => Trimming'
    BY <1>1 DEF DevInv, TypeOK, Trimming
  <2> QED
    BY <1>1, <2>1, CoveredKept DEF DevInv
<1>4. Holding'
  BY <1>1 DEF DevInv, TypeOK, Holding
<1>5. (ShapeKept /\ Room /\ Emptied)'
  <2>1. pc'[p] = "idle" /\ \A q \in Procs : q # p => pc'[q] = pc[q] /\ call'[q] = call[q]
    BY <1>1 DEF DevInv, TypeOK
  <2> QED
    BY <1>1, <2>1 DEF DevInv, ShapeKept, ShapeKnown, Room, Emptied, shape, store
<1> QED
  BY <1>2, <1>3, <1>4, <1>5 DEF DevInv

LEMMA Stutter ==
  ASSUME DevInv, UNCHANGED vars
  PROVE  DevInv'
<1>1. UNCHANGED <<param, shape, store, sem, fds, pc, call, got>>
  BY DEF vars
<1>2. TypeOK'
  BY <1>1 DEF DevInv, TypeOK, param, shape, store, fds
<1>3. Covered'
  BY <1>1 DEF DevInv, Covered, Trimming, shape, store
<1>4. (Holding /\ ShapeKept /\ Room /\ Emptied)'
  BY <1>1 DEF DevInv, Holding, ShapeKept, ShapeKnown, Room, Emptied, From, shape, store, fds
<1> QED
  BY <1>2, <1>3, <1>4 DEF DevInv

LEMMA DevNext == DevInv /\ [StableNext]_vars => DevInv'
<1> SUFFICES ASSUME DevInv, [StableNext]_vars PROVE DevInv'
  OBVIOUS
<1>1. CASE UNCHANGED vars
  BY <1>1, Stutter
<1>2. CASE StableNext
  <2>1. Next /\ StableTrim
    BY <1>2 DEF StableNext
  <2>2. CASE SetQset \/ SetQuantum
    BY <2>2, SetSteps
  <2>3. ASSUME NEW p \in Procs, OpenStep(p) PROVE DevInv'
    BY <2>1, <2>3, OpenSteps, TrimQsetStep, TrimQuantumStep, TrimRestStep DEF OpenStep
  <2>4. ASSUME NEW p \in Procs, ReadStep(p) PROVE DevInv'
    BY <2>4, LookSteps, ReadSteps DEF ReadStep
  <2>5. ASSUME NEW p \in Procs, WriteStep(p) PROVE DevInv'
    BY <2>5, LookSteps, WriteNoMemoryStep, WriteFaultStep, WriteMainStep DEF WriteStep
  <2>6. ASSUME NEW p \in Procs, InterruptedDown(p) PROVE DevInv'
    BY <2>6, InterruptedStep
  <2> QED
    BY <2>1, <2>2, <2>3, <2>4, <2>5, <2>6 DEF Next
<1> QED
  BY <1>1, <1>2

-----------------------------------------------------------------------------
(* What follows from the invariant.                                           *)

LEMMA InvGivesListRight == DevInv => ListRight
<1> SUFFICES ASSUME DevInv PROVE InList
  BY DEF DevInv, ListRight
<1> SUFFICES ASSUME NEW p \in Procs, From(p, "r_main"), ~AtEnd(p) PROVE ln(p) < ln_qlst
  BY DEF InList
<1>1. ~Trimming /\ ShapeKnown(p)
  BY NoTrimBeside DEF DevInv, ShapeKept, From
<1> QED
  BY <1>1, Listed DEF DevInv

(* The invariant, for every number of processes, all shapes and all bounds.    *)
LEMMA AlwaysDevInv == StableSpec => []DevInv
<1>1. Init => DevInv
  BY DevInit
<1>2. DevInv /\ [StableNext]_vars => DevInv'
  BY DevNext
<1> QED
  BY <1>1, <1>2, PTL DEF StableSpec

(* Whatever opens with trims, reads, writes, failed writes and failed          *)
(* allocations came before, the list has the shape, the length and the extent  *)
(* that reads and writes rely on: scull_follow_lessthan and read_main.         *)
THEOREM ListStaysRight == StableSpec => []ListRight
<1>1. DevInv => ListRight
  BY InvGivesListRight
<1> QED
  BY <1>1, AlwaysDevInv, PTL

(* When no trim falls between a call's looks at the shape and its turn at the  *)
(* semaphore, scull_read_main and scull_write_main have the m and n of the     *)
(* list, as scull.sats asks.                                                  *)
THEOREM StableKnowsShape == StableSpec => []KnowsShape
<1>1. DevInv => KnowsShape
  BY DEF DevInv, ShapeKept, KnowsShape
<1> QED
  BY <1>1, AlwaysDevInv, PTL

-----------------------------------------------------------------------------
(* The file that the list is.                                                 *)

LEMMA DivUnique ==
  ASSUME NEW k \in Nat \ {0}, NEW b \in Nat, NEW c \in 0..(k - 1)
  PROVE  (k * b + c) \div k = b /\ (k * b + c) % k = c
OBVIOUS

\* The byte at item a, quantum s and byte b of a list: zero where nothing is
\* allocated.
At(d, a, s, b) ==
  IF a >= Len(d) THEN Zero
  ELSE IF d[a + 1] = Null THEN Zero
  ELSE IF d[a + 1][s] = Null THEN Zero
  ELSE d[a + 1][s][b]

\* The item, the quantum and the byte of a position.
AtItem(ix) == ix \div (m_qset * n_quantum)
AtQuantum(ix) == (ix % (m_qset * n_quantum)) \div n_quantum
AtByte(ix) == (ix % (m_qset * n_quantum)) % n_quantum

LEMMA ByteIsAt ==
  ASSUME NEW ix PROVE ByteAt(ix) = At(data, AtItem(ix), AtQuantum(ix), AtByte(ix))
BY DEF ByteAt, At, AtItem, AtQuantum, AtByte

(* A position has one place, and a place one position.                         *)
LEMMA PlaceOf ==
  ASSUME TypeOK, NEW ix \in Nat
  PROVE  /\ AtItem(ix) \in Nat /\ AtQuantum(ix) \in 0..(m_qset - 1)
         /\ AtByte(ix) \in 0..(n_quantum - 1)
         /\ m_qset \in Nat \ {0} /\ n_quantum \in Nat \ {0}
         /\ ix = (n_quantum * m_qset) * AtItem(ix) + (n_quantum * AtQuantum(ix) + AtByte(ix))
<1> DEFINE m == m_qset
           n == n_quantum
           w == n * m
           r == ix % w
<1>1. m \in Nat \ {0} /\ n \in Nat \ {0}
  BY DevAssumption DEF TypeOK
<1>2. w \in Nat \ {0} /\ m * n = w
  BY <1>1, TimesPositive
<1>3. AtItem(ix) = ix \div w /\ AtQuantum(ix) = r \div n /\ AtByte(ix) = r % n
  BY <1>2 DEF AtItem, AtQuantum, AtByte
<1> HIDE DEF w
<1>4. ix \div w \in Nat /\ r \in 0..(w - 1) /\ ix = w * (ix \div w) + r
  BY <1>2, DivMod
<1> HIDE DEF r
<1>5. r \in Nat /\ r < n * m
  BY <1>2, <1>4 DEF w
<1>6. r \div n \in Nat /\ r % n \in 0..(n - 1) /\ r = n * (r \div n) + (r % n)
  BY <1>1, <1>5, DivMod
<1>7. (r \div n) < m
  BY <1>1, <1>5, DivLess
<1>8. AtQuantum(ix) \in 0..(m_qset - 1)
  BY <1>1, <1>3, <1>6, <1>7
<1>9. ix = w * AtItem(ix) + (n * AtQuantum(ix) + AtByte(ix))
  BY <1>3, <1>4, <1>6
<1> QED
  BY <1>1, <1>3, <1>4, <1>6, <1>8, <1>9 DEF w

(* The place of a call's position, and of the positions after it in its        *)
(* quantum.                                                                    *)
LEMMA PlaceAfter ==
  ASSUME NEW p \in Procs, TypeOK, ShapeKnown(p), NEW j \in Nat, q_pos(p) + j < n_quantum
  PROVE  /\ AtItem(f_pos[p] + j) = ln(p)
         /\ AtQuantum(f_pos[p] + j) = s_pos(p)
         /\ AtByte(f_pos[p] + j) = q_pos(p) + j
<1> DEFINE m == m_qset
           n == n_quantum
           b == q_pos(p) + j
           r == n * s_pos(p) + b
<1>1. /\ m \in Nat \ {0} /\ n \in Nat \ {0} /\ nm(p) \in Nat \ {0} /\ nm(p) = n * m
      /\ f_pos[p] \in Nat /\ ln(p) \in Nat /\ rest(p) \in Nat
      /\ s_pos(p) \in 0..(m - 1) /\ q_pos(p) \in 0..(n - 1)
      /\ f_pos[p] = nm(p) * ln(p) + rest(p)
      /\ rest(p) = n * s_pos(p) + q_pos(p)
  BY Place DEF nm
<1>2. b \in 0..(n - 1)
  BY <1>1
<1>3. n * (s_pos(p) + 1) <= n * m /\ n * (s_pos(p) + 1) = n * s_pos(p) + n
  BY <1>1, TimesMonotone, TimesShift
<1>4. n * s_pos(p) \in Nat /\ n * m \in Nat /\ nm(p) * ln(p) \in Nat
  BY <1>1, TimesNat
<1>5. r \in 0..(nm(p) - 1)
  BY <1>1, <1>2, <1>3, <1>4
<1>6. f_pos[p] + j = nm(p) * ln(p) + r
  BY <1>1, <1>4
<1>7. m * n = nm(p)
  BY <1>1
<1> HIDE DEF b, r
<1>8. (f_pos[p] + j) \div nm(p) = ln(p) /\ (f_pos[p] + j) % nm(p) = r
  <2> DEFINE k == nm(p)
             l == ln(p)
  <2>1. k \in Nat \ {0} /\ l \in Nat /\ r \in 0..(k - 1)
    BY <1>1, <1>5
  <2> HIDE DEF k, l
  <2>2. (k * l + r) \div k = l /\ (k * l + r) % k = r
    BY <2>1, DivUnique
  <2> QED
    BY <1>6, <2>2 DEF k, l
<1>9. r \div n = s_pos(p) /\ r % n = b
  <2> DEFINE l == s_pos(p)
  <2>1. l \in Nat
    BY <1>1
  <2> HIDE DEF n, l
  <2>2. (n * l + b) \div n = l /\ (n * l + b) % n = b
    BY <1>1, <1>2, <2>1, DivUnique
  <2> QED
    BY <2>2 DEF r, l, n
<1> QED
  BY <1>7, <1>8, <1>9 DEF AtItem, AtQuantum, AtByte, b

(* A position in a call's quantum is as far from the call's position as its    *)
(* byte is from the call's byte.                                               *)
LEMMA SameQuantum ==
  ASSUME NEW p \in Procs, TypeOK, ShapeKnown(p), NEW ix \in Nat,
         AtItem(ix) = ln(p), AtQuantum(ix) = s_pos(p)
  PROVE  AtByte(ix) - q_pos(p) = ix - f_pos[p] /\ AtByte(ix) \in 0..(n_quantum - 1)
<1>1. /\ AtByte(ix) \in 0..(n_quantum - 1) /\ n_quantum \in Nat /\ m_qset \in Nat
      /\ ix = (n_quantum * m_qset) * ln(p) + (n_quantum * s_pos(p) + AtByte(ix))
  BY PlaceOf
<1>2. /\ q_pos(p) \in Nat /\ s_pos(p) \in Nat /\ ln(p) \in Nat /\ nm(p) = n_quantum * m_qset
      /\ f_pos[p] = nm(p) * ln(p) + rest(p)
      /\ rest(p) = n_quantum * s_pos(p) + q_pos(p)
  BY Place DEF nm
<1>3. (n_quantum * m_qset) * ln(p) \in Nat /\ n_quantum * s_pos(p) \in Nat
  BY <1>1, <1>2, TimesNat
<1> QED
  BY <1>1, <1>2, <1>3

-----------------------------------------------------------------------------
(* What a write does to the bytes.                                            *)

(* Where a call writes, its array and its quantum hold the bytes of the list.  *)
LEMMA ArrayHolds ==
  ASSUME NEW p \in Procs, TypeOK, Covered, ~Trimming, ShapeKnown(p),
         NEW s \in 0..(m_qset - 1), NEW b \in 0..(n_quantum - 1)
  PROVE  At(data, ln(p), s, b) = IF Array(p)[s] = Null THEN Zero ELSE Array(p)[s][b]
<1>1. /\ ln(p) \in Nat /\ call[p].m = m_qset /\ m_qset \in Nat
  BY Place
<1>2. ln_qlst = Len(data) /\ ln_qlst \in Nat /\ Missing(p) \in Nat
  BY WhereWritten DEF TypeOK
<1>3. /\ \A ix \in 1..Len(data) : Reached(p)[ix] = data[ix]
      /\ \A ix \in (Len(data) + 1)..(Len(data) + Missing(p)) : Reached(p)[ix] = Null
  BY <1>2, GrownList DEF Reached
<1>4. NewArray(p)[s] = Null
  BY <1>1 DEF NewArray
<1>5. CASE ln(p) < Len(data)
  <2>1. ln(p) + 1 \in 1..Len(data)
    BY <1>1, <1>2, <1>5
  <2>2. Item(p) = data[ln(p) + 1]
    BY <1>3, <2>1 DEF Item
  <2> QED
    BY <1>1, <1>2, <1>4, <1>5, <2>2 DEF At, Array
<1>6. CASE ~(ln(p) < Len(data))
  <2>1. ln(p) + 1 \in (Len(data) + 1)..(Len(data) + Missing(p))
    BY <1>1, <1>2, <1>6 DEF Missing
  <2>2. Item(p) = Null
    BY <1>3, <2>1 DEF Item
  <2> QED
    BY <1>1, <1>2, <1>4, <1>6, <2>2 DEF At, Array
<1> QED
  BY <1>5, <1>6

LEMMA QuantumHolds ==
  ASSUME NEW p \in Procs, TypeOK, Covered, ~Trimming, ShapeKnown(p),
         NEW b \in 0..(n_quantum - 1)
  PROVE  At(data, ln(p), s_pos(p), b) = Quantum(p)[b]
<1>1. s_pos(p) \in 0..(m_qset - 1) /\ call[p].n = n_quantum
  BY Place
<1>2. NewQuantum(p)[b] = Zero
  BY <1>1 DEF NewQuantum
<1> QED
  BY <1>1, <1>2, ArrayHolds DEF Quantum

(* The list with another array where the call writes.                          *)
LEMMA OtherArray ==
  ASSUME NEW p \in Procs, TypeOK, Covered, ~Trimming, ShapeKnown(p),
         NEW arr \in [0..(m_qset - 1) -> QuantumOf(n_quantum)],
         NEW a \in Nat, NEW s \in 0..(m_qset - 1), NEW b \in 0..(n_quantum - 1)
  PROVE  At(WithArray(p, arr), a, s, b) =
           IF a = ln(p) THEN IF arr[s] = Null THEN Zero ELSE arr[s][b]
           ELSE At(data, a, s, b)
<1> DEFINE d == WithArray(p, arr)
<1>1. /\ ln(p) \in Nat /\ ln_qlst = Len(data) /\ ln_qlst \in Nat /\ Missing(p) \in Nat
      /\ Len(Reached(p)) = ln_qlst + Missing(p) /\ ln(p) + 1 \in 1..Len(Reached(p))
  BY Place, WhereWritten DEF TypeOK
<1>2. /\ Len(d) = ln_qlst + Missing(p) /\ d[ln(p) + 1] = arr
      /\ \A ix \in 1..Len(Reached(p)) : ix # ln(p) + 1 => d[ix] = Reached(p)[ix]
  BY WithArrayType
<1>3. arr # Null
  BY NullAssumption DEF TypeOK
<1>4. /\ \A ix \in 1..Len(data) : Reached(p)[ix] = data[ix]
      /\ \A ix \in (Len(data) + 1)..(Len(data) + Missing(p)) : Reached(p)[ix] = Null
  BY <1>1, GrownList DEF Reached
<1> HIDE DEF d
<1>5. CASE a = ln(p)
  <2>1. d[a + 1] = arr /\ ~(a >= Len(d))
    BY <1>1, <1>2, <1>5
  <2>2. At(d, a, s, b) = IF arr[s] = Null THEN Zero ELSE arr[s][b]
    BY <1>3, <2>1 DEF At
  <2> QED
    BY <1>5, <2>2 DEF d
<1>6. CASE a # ln(p) /\ a < Len(data)
  <2>1. d[a + 1] = data[a + 1] /\ a < Len(d)
    BY <1>1, <1>2, <1>4, <1>6
  <2>2. ~(a >= Len(d)) /\ ~(a >= Len(data))
    BY <1>1, <1>2, <1>6, <2>1
  <2>3. At(d, a, s, b) = At(data, a, s, b)
    BY <2>1, <2>2 DEF At
  <2> QED
    BY <1>6, <2>3 DEF d
<1>7. CASE a # ln(p) /\ ~(a < Len(data))
  <2>1. a >= Len(d) \/ d[a + 1] = Null
    BY <1>1, <1>2, <1>4, <1>7
  <2> QED
    BY <1>1, <1>2, <1>7, <2>1 DEF At, d
<1> QED
  BY <1>5, <1>6, <1>7

(* The list with another quantum where the call writes.                        *)
LEMMA OtherQuantum ==
  ASSUME NEW p \in Procs, TypeOK, Covered, ~Trimming, ShapeKnown(p),
         NEW q \in [0..(n_quantum - 1) -> Byte],
         NEW a \in Nat, NEW s \in 0..(m_qset - 1), NEW b \in 0..(n_quantum - 1)
  PROVE  At(WithQuantum(p, q), a, s, b) =
           IF a = ln(p) /\ s = s_pos(p) THEN q[b] ELSE At(data, a, s, b)
<1> DEFINE arr == [Array(p) EXCEPT ![s_pos(p)] = q]
<1>1. Array(p) \in [0..(m_qset - 1) -> QuantumOf(n_quantum)] /\ s_pos(p) \in 0..(m_qset - 1)
  BY Place, WhereWritten
<1>2. arr \in [0..(m_qset - 1) -> QuantumOf(n_quantum)]
  BY <1>1 DEF QuantumOf
<1>3. q # Null
  BY NullAssumption DEF TypeOK
<1>4. arr[s] = IF s = s_pos(p) THEN q ELSE Array(p)[s]
  BY <1>1
<1> HIDE DEF arr
<1>5. At(WithArray(p, arr), a, s, b) =
        IF a = ln(p) THEN IF arr[s] = Null THEN Zero ELSE arr[s][b]
        ELSE At(data, a, s, b)
  BY <1>2, OtherArray
<1>6. At(data, ln(p), s, b) = IF Array(p)[s] = Null THEN Zero ELSE Array(p)[s][b]
  BY ArrayHolds
<1> QED
  BY <1>3, <1>4, <1>5, <1>6 DEF WithQuantum, arr

-----------------------------------------------------------------------------
(* Every step is a step of the sparse file, or leaves it alone.               *)

LEMMA ContentKept ==
  ASSUME UNCHANGED <<shape, data>>
  PROVE  Content' = Content
BY DEF Content, ByteAt, shape

LEMMA ContentBlank ==
  ASSUME TypeOK, data = <<>>
  PROVE  Content = SF!Blank
<1>1. ASSUME NEW ix \in 0..(MaxPos - 1) PROVE ByteAt(ix) = Zero
  <2>1. AtItem(ix) \in Nat
    BY <1>1, PlaceOf, DevAssumption
  <2>2. AtItem(ix) >= Len(data)
    BY <2>1, EmptySeq
  <2> QED
    BY <2>2, ByteIsAt DEF At
<1> QED
  BY <1>1 DEF Content, SF!Blank

(* The bytes of the list a step leaves, when it keeps the shape.               *)
LEMMA NextByte ==
  ASSUME UNCHANGED shape, NEW ix
  PROVE  ByteAt(ix)' = At(data', AtItem(ix), AtQuantum(ix), AtByte(ix))
BY DEF ByteAt, At, AtItem, AtQuantum, AtByte, shape

LEMMA SFOpen ==
  ASSUME DevInv, DevInv', NEW p \in Procs, OpenStep(p)
  PROVE  [SF!Next]_SF!fileVars
<1> USE DEF Goto, From, down
<1>1. CASE CallOpen(p) \/ OpenDown(p)
  <2>1. UNCHANGED <<shape, data, size, f_pos, got>>
    BY <1>1 DEF CallOpen, OpenDown, store, fds
  <2> QED
    BY <2>1, ContentKept DEF SF!fileVars
<1>2. CASE TrimQset(p)
  <2>1. data' = <<>> /\ UNCHANGED <<size, f_pos, got>>
    BY <1>2 DEF TrimQset, fds
  <2>2. Content' = SF!Blank
    <3>1. TypeOK' /\ data' = <<>>
      BY <2>1 DEF DevInv
    <3>2. (TypeOK /\ data = <<>> => Content = SF!Blank)'
      BY ContentBlank, PTL
    <3> QED
      BY <3>1, <3>2 DEF SF!Blank
  <2> QED
    BY <2>1, <2>2 DEF SF!Next, SF!Erase
<1>3. CASE TrimQuantum(p)
  <2>1. data = <<>> /\ UNCHANGED <<data, size, f_pos, got>>
    BY <1>3 DEF DevInv, Emptied, TrimQuantum, store, fds
  <2>2. Content = SF!Blank
    BY <2>1, ContentBlank DEF DevInv
  <2>3. Content' = SF!Blank
    <3>1. TypeOK' /\ data' = <<>>
      BY <2>1 DEF DevInv
    <3>2. (TypeOK /\ data = <<>> => Content = SF!Blank)'
      BY ContentBlank, PTL
    <3> QED
      BY <3>1, <3>2 DEF SF!Blank
  <2> QED
    BY <2>1, <2>2, <2>3 DEF SF!fileVars
<1>4. CASE TrimRest(p)
  <2>1. size' = 0 /\ UNCHANGED <<shape, data, f_pos, got>>
    BY <1>4 DEF TrimRest, fds
  <2> QED
    BY <2>1, ContentKept DEF SF!Next, SF!Truncate
<1>5. CASE Close(p)
  <2>1. f_pos' = [f_pos EXCEPT ![p] = 0] /\ UNCHANGED <<shape, data, size, got>>
    BY <1>5 DEF Close, store
  <2>2. 0 \in 0..MaxPos
    BY DevAssumption
  <2> QED
    BY <2>1, <2>2, ContentKept DEF SF!Next, SF!Move
<1>6. CASE Seek(p)
  <2>1. UNCHANGED <<shape, data, size, got>>
    BY <1>6 DEF Seek, store
  <2>2. PICK newpos \in 0..MaxPos : f_pos' = [f_pos EXCEPT ![p] = newpos]
    BY <1>6 DEF Seek
  <2> QED
    BY <2>1, <2>2, ContentKept DEF SF!Next, SF!Move
<1> QED
  BY <1>1, <1>2, <1>3, <1>4, <1>5, <1>6 DEF OpenStep

LEMMA SFReadMain ==
  ASSUME DevInv, NEW p \in Procs, ReadMain(p)
  PROVE  SF!Read(p)
<1> DEFINE c == Smaller(call[p].count, size - f_pos[p])
           cnt == Piece(p, c)
           e == f_pos[p] + cnt
<1>1. From(p, "r_main") /\ ~AtEnd(p) /\ ShapeKnown(p) /\ UNCHANGED <<shape, data, size>>
  BY DEF ReadMain, store
<1>2. TypeOK /\ Covered /\ ~Trimming
  BY <1>1, NoTrimBeside DEF DevInv, From
<1>3. cnt \in Nat /\ e <= size
  BY <1>1, BytesRead
<1>4. /\ got' = [got EXCEPT ![p] = [k \in 1..cnt |-> IF Found(p) = Null THEN Zero
                                                     ELSE Found(p)[q_pos(p) + k - 1]]]
      /\ f_pos' = [f_pos EXCEPT ![p] = e]
  BY DEF ReadMain
<1>5. c \in Nat /\ f_pos[p] \in Nat /\ size \in Nat /\ size <= MaxPos
  BY <1>1, <1>2, BeforeEnd
<1>6. q_pos(p) + cnt <= n_quantum
  BY <1>1, <1>2, <1>5, PieceFits
<1> HIDE DEF c, cnt
<1>7. e \in f_pos[p]..size /\ e - f_pos[p] = cnt
  BY <1>3, <1>5
<1>8. ASSUME NEW k \in 1..cnt
      PROVE  Content[f_pos[p] + k - 1] = IF Found(p) = Null THEN Zero
                                         ELSE Found(p)[q_pos(p) + k - 1]
  <2> DEFINE j == k - 1
             ix == f_pos[p] + j
  <2>1. j \in Nat /\ q_pos(p) \in Nat /\ n_quantum \in Nat /\ q_pos(p) + j < n_quantum
    BY <1>1, <1>2, <1>3, <1>6, <1>8, Place
  <2>2. ix \in 0..(MaxPos - 1) /\ ix = f_pos[p] + k - 1
    BY <1>3, <1>5, <1>8, DevAssumption
  <2>3. AtItem(ix) = ln(p) /\ AtQuantum(ix) = s_pos(p) /\ AtByte(ix) = q_pos(p) + j
    BY <1>1, <1>2, <2>1, PlaceAfter
  <2>4. ~(ln(p) >= Len(data))
    BY <1>1, <1>2, Listed, Place
  <2> HIDE DEF j, ix
  <2>5. ByteAt(ix) = IF Found(p) = Null THEN Zero ELSE Found(p)[q_pos(p) + j]
    BY <2>3, <2>4, ByteIsAt DEF At, Found
  <2>6. q_pos(p) + j = q_pos(p) + k - 1
    BY <2>1, <1>8 DEF j
  <2> QED
    BY <2>2, <2>5, <2>6 DEF Content
<1> HIDE DEF e
<1>9. [k \in 1..cnt |-> IF Found(p) = Null THEN Zero ELSE Found(p)[q_pos(p) + k - 1]]
        = [k \in 1..(e - f_pos[p]) |-> Content[f_pos[p] + k - 1]]
  BY <1>7, <1>8
<1>10. Content' = Content
  BY <1>1, ContentKept
<1> QED
  BY <1>1, <1>4, <1>7, <1>9, <1>10 DEF SF!Read

LEMMA SFRead ==
  ASSUME DevInv, NEW p \in Procs, ReadStep(p)
  PROVE  [SF!Next]_SF!fileVars
<1> USE DEF Goto, From, down
<1>1. CASE CallRead(p) \/ ReadLook(p) \/ ReadDown(p) \/ ReadAtEnd(p) \/ ReadFault(p)
  <2>1. UNCHANGED <<shape, data, size, f_pos, got>>
    BY <1>1 DEF CallRead, ReadLook, ReadDown, ReadAtEnd, ReadFault, store, fds
  <2> QED
    BY <2>1, ContentKept DEF SF!fileVars
<1>2. CASE ReadMain(p)
  BY <1>2, SFReadMain DEF SF!Next
<1>3. CASE ReadReturn(p)
  <2>1. got' = [got EXCEPT ![p] = <<>>] /\ UNCHANGED <<shape, data, size, f_pos>>
    BY <1>3 DEF ReadReturn, store, fds
  <2> QED
    BY <2>1, ContentKept DEF SF!Next, SF!Return
<1> QED
  BY <1>1, <1>2, <1>3 DEF ReadStep

(* Storing the bytes s where a call writes lays them over the bytes of the     *)
(* file, from the position of the call on.                                    *)
LEMMA Laid ==
  ASSUME DevInv, NEW p \in Procs, From(p, "w_main"), ShapeKnown(p), UNCHANGED shape,
         NEW s \in Seq(Byte), q_pos(p) + Len(s) <= n_quantum,
         data' = WithQuantum(p, Patched(p, s))
  PROVE  Content' = SF!Overlaid(f_pos[p], s)
<1>1. TypeOK /\ Covered /\ ~Trimming
  BY NoTrimBeside DEF DevInv, From
<1>2. /\ f_pos[p] \in Nat /\ q_pos(p) \in Nat /\ n_quantum \in Nat /\ Len(s) \in Nat
      /\ Quantum(p) \in [0..(n_quantum - 1) -> Byte]
  BY <1>1, Place, WhereWritten, LenProperties
<1>3. Patched(p, s) \in [0..(n_quantum - 1) -> Byte]
  BY <1>1, PatchedType
<1>4. ASSUME NEW ix \in 0..(MaxPos - 1)
      PROVE  ByteAt(ix)' = IF ix \in f_pos[p]..(f_pos[p] + Len(s) - 1)
                          THEN s[ix - f_pos[p] + 1] ELSE ByteAt(ix)
  <2> DEFINE a == AtItem(ix)
             u == AtQuantum(ix)
             b == AtByte(ix)
  <2>1. ix \in Nat /\ a \in Nat /\ u \in 0..(m_qset - 1) /\ b \in 0..(n_quantum - 1)
    <3>1. ix \in Nat
      BY <1>4, DevAssumption
    <3> QED
      BY <1>1, <3>1, PlaceOf
  <2>2. ByteAt(ix)' = At(data', a, u, b) /\ ByteAt(ix) = At(data, a, u, b)
    BY NextByte, ByteIsAt
  <2>3. At(data', a, u, b) = IF a = ln(p) /\ u = s_pos(p) THEN Patched(p, s)[b]
                             ELSE At(data, a, u, b)
    BY <1>1, <1>3, <2>1, OtherQuantum
  <2>4. ix \in f_pos[p]..(f_pos[p] + Len(s) - 1) => a = ln(p) /\ u = s_pos(p)
    <3> SUFFICES ASSUME ix \in f_pos[p]..(f_pos[p] + Len(s) - 1)
                 PROVE  a = ln(p) /\ u = s_pos(p)
      OBVIOUS
    <3> DEFINE w == f_pos[p]
               L == Len(s)
               q == q_pos(p)
               j == ix - w
    <3>1. ix \in w..(w + L - 1) /\ w \in Nat /\ L \in Nat /\ q \in Nat /\ n_quantum \in Nat
          /\ q + L <= n_quantum
      BY <1>2
    <3>2. j \in Nat /\ w + j = ix /\ q + j < n_quantum
      <4> HIDE DEF w, L, q
      <4> QED
        BY <3>1
    <3> HIDE DEF j
    <3> QED
      BY <1>1, <3>2, PlaceAfter
  <2>5. CASE a = ln(p) /\ u = s_pos(p)
    <3>1. b - q_pos(p) = ix - f_pos[p]
      BY <1>1, <2>1, <2>5, SameQuantum
    <3>2. Patched(p, s)[b] = IF b \in q_pos(p)..(q_pos(p) + Len(s) - 1)
                             THEN s[b - q_pos(p) + 1] ELSE Quantum(p)[b]
      BY <1>2, <2>1 DEF Patched
    <3>3. Quantum(p)[b] = At(data, a, u, b)
      BY <1>1, <2>1, <2>5, QuantumHolds
    <3> HIDE DEF a, u, b
    <3>4. b \in Nat
      BY <2>1, <1>2
    <3>5. (b \in q_pos(p)..(q_pos(p) + Len(s) - 1)) <=> (ix \in f_pos[p]..(f_pos[p] + Len(s) - 1))
      <4> DEFINE w == f_pos[p]
                 L == Len(s)
                 q == q_pos(p)
      <4>1. ix \in Nat /\ w \in Nat /\ L \in Nat /\ q \in Nat /\ b - q = ix - w
        BY <1>2, <2>1, <3>1
      <4> HIDE DEF w, L, q
      <4>2. b \in q..(q + L - 1) <=> ix \in w..(w + L - 1)
        BY <3>4, <4>1
      <4> QED
        BY <4>2 DEF w, L, q
    <3>6. ByteAt(ix)' = Patched(p, s)[b] /\ Quantum(p)[b] = ByteAt(ix)
      BY <2>2, <2>3, <2>5, <3>3
    <3>7. b \in q_pos(p)..(q_pos(p) + Len(s) - 1) => b - q_pos(p) + 1 = ix - f_pos[p] + 1
      BY <3>1
    <3> QED
      BY <3>2, <3>5, <3>6, <3>7
  <2>6. CASE ~(a = ln(p) /\ u = s_pos(p))
    BY <2>2, <2>3, <2>4, <2>6
  <2> QED
    BY <2>5, <2>6
<1>5. Content' = [ix \in 0..(MaxPos - 1) |-> ByteAt(ix)']
  BY DEF Content
<1>6. DOMAIN Content = 0..(MaxPos - 1) /\ \A ix \in 0..(MaxPos - 1) : Content[ix] = ByteAt(ix)
  BY DEF Content
<1>7. SF!Overlaid(f_pos[p], s) =
        [ix \in 0..(MaxPos - 1) |-> IF ix \in f_pos[p]..(f_pos[p] + Len(s) - 1)
                                   THEN s[ix - f_pos[p] + 1] ELSE ByteAt(ix)]
  BY <1>6 DEF SF!Overlaid
<1> QED
  BY <1>4, <1>5, <1>7

LEMMA SFWriteNoMemory ==
  ASSUME DevInv, NEW p \in Procs, WriteNoMemory(p)
  PROVE  UNCHANGED SF!fileVars
<1>1. From(p, "w_main") /\ ShapeKnown(p) /\ UNCHANGED <<shape, size, f_pos, got>>
  BY DEF WriteNoMemory, fds
<1>2. TypeOK /\ Covered /\ ~Trimming
  BY <1>1, NoTrimBeside DEF DevInv, From
<1>3. /\ Missing(p) \in Nat /\ ln_qlst = Len(data) /\ ln_qlst \in Nat
      /\ Array(p) \in [0..(m_qset - 1) -> QuantumOf(n_quantum)]
  BY <1>1, <1>2, WhereWritten DEF TypeOK
<1>4. ASSUME NEW ix \in 0..(MaxPos - 1)
      PROVE  ByteAt(ix)' = ByteAt(ix)
  <2> DEFINE a == AtItem(ix)
             u == AtQuantum(ix)
             b == AtByte(ix)
  <2>1. a \in Nat /\ u \in 0..(m_qset - 1) /\ b \in 0..(n_quantum - 1)
    BY <1>2, <1>4, PlaceOf, DevAssumption
  <2>2. ByteAt(ix)' = At(data', a, u, b) /\ ByteAt(ix) = At(data, a, u, b)
    BY <1>1, NextByte, ByteIsAt
  <2> HIDE DEF a, u, b
  <2>3. ASSUME NEW k \in Nat, data' = Grown(k) PROVE At(data', a, u, b) = At(data, a, u, b)
    <3>1. /\ Len(data') = Len(data) + k
          /\ \A l \in 1..Len(data) : data'[l] = data[l]
          /\ \A l \in (Len(data) + 1)..(Len(data) + k) : data'[l] = Null
      BY <1>2, <2>3, GrownList
    <3>2. Len(data) \in Nat
      BY <1>3
    <3>3. CASE a < Len(data)
      <4>1. data'[a + 1] = data[a + 1] /\ a < Len(data')
        BY <2>1, <3>1, <3>2, <3>3
      <4> QED
        BY <2>1, <3>1, <3>2, <3>3, <4>1 DEF At
    <3>4. CASE ~(a < Len(data))
      <4>1. a >= Len(data') \/ data'[a + 1] = Null
        BY <2>1, <3>1, <3>2, <3>4
      <4> QED
        BY <2>1, <3>2, <3>4, <4>1 DEF At
    <3> QED
      BY <3>3, <3>4
  <2>4. CASE \E k \in 0..(Missing(p) - 1) : data' = Grown(k)
    <3>1. PICK k \in 0..(Missing(p) - 1) : data' = Grown(k)
      BY <2>4
    <3>2. k \in Nat
      BY <1>3
    <3> QED
      BY <2>2, <2>3, <3>1, <3>2
  <2>5. CASE data' = Reached(p)
    BY <1>3, <2>2, <2>3, <2>5 DEF Reached
  <2>6. CASE data' = WithArray(p, Array(p))
    <3>1. At(data', a, u, b) =
            IF a = ln(p) THEN IF Array(p)[u] = Null THEN Zero ELSE Array(p)[u][b]
            ELSE At(data, a, u, b)
      BY <1>1, <1>2, <1>3, <2>1, <2>6, OtherArray
    <3>2. At(data, ln(p), u, b) = IF Array(p)[u] = Null THEN Zero ELSE Array(p)[u][b]
      BY <1>1, <1>2, <2>1, ArrayHolds
    <3> QED
      BY <2>2, <3>1, <3>2
  <2> QED
    BY <2>4, <2>5, <2>6 DEF WriteNoMemory
<1>5. Content' = Content
  BY <1>4 DEF Content
<1> QED
  BY <1>1, <1>5 DEF SF!fileVars

LEMMA SFWriteFault ==
  ASSUME DevInv, NEW p \in Procs, WriteFault(p)
  PROVE  SF!WriteFails(p)
<1> DEFINE cnt == Piece(p, call[p].count)
<1>1. From(p, "w_main") /\ ShapeKnown(p) /\ UNCHANGED <<shape, size, f_pos, got>>
  BY DEF WriteFault, fds
<1>2. TypeOK /\ Covered /\ ~Trimming
  BY <1>1, NoTrimBeside DEF DevInv, From
<1>3. call[p].count \in Nat /\ f_pos[p] \in Nat /\ q_pos(p) \in Nat /\ n_quantum \in Nat
      /\ f_pos[p] + call[p].count <= MaxPos /\ MaxPos \in Nat
  <2>1. call[p].count \in 0..MaxCount
    BY <1>2 DEF TypeOK
  <2>2. f_pos[p] \in Nat /\ q_pos(p) \in Nat /\ n_quantum \in Nat
    BY <1>1, <1>2, Place
  <2>3. f_pos[p] + call[p].count <= MaxPos
    BY <1>1 DEF DevInv, Room, From
  <2> QED
    BY <2>1, <2>2, <2>3, DevAssumption
<1>4. cnt \in Nat /\ cnt <= call[p].count /\ q_pos(p) + cnt <= n_quantum
  BY <1>1, <1>2, <1>3, PieceFits
<1>5. PICK k \in 0..(cnt - 1) : \E s \in [1..k -> Byte], z \in {0, cnt - k} :
        data' = WithQuantum(p, Patched(p, s \o [ix \in 1..z |-> Zero]))
  BY DEF WriteFault
<1>6. PICK s \in [1..k -> Byte], z \in {0, cnt - k} :
        data' = WithQuantum(p, Patched(p, s \o [ix \in 1..z |-> Zero]))
  BY <1>5
<1> DEFINE t == s \o [ix \in 1..z |-> Zero]
<1> HIDE DEF cnt
<1>7. k \in 0..cnt /\ z \in Nat /\ k + z <= cnt /\ k \in Nat
  BY <1>4, <1>5, <1>6
<1>8. t \in Seq(Byte) /\ Len(t) = k + z
  <2>1. t \in Seq(Byte)
    BY <1>4, <1>6, <1>7, BytesStored
  <2>2. s \in Seq(Byte) /\ Len(s) = k
    BY <1>7
  <2>3. [ix \in 1..z |-> Zero] \in Seq(Byte) /\ Len([ix \in 1..z |-> Zero]) = z
    BY <1>7, DevAssumption
  <2> QED
    BY <2>1, <2>2, <2>3, ConcatProperties
<1> HIDE DEF t
<1>9. data' = WithQuantum(p, Patched(p, t))
  BY <1>6 DEF t
<1>10. Content' = SF!Overlaid(f_pos[p], t)
  BY <1>1, <1>3, <1>4, <1>7, <1>8, <1>9, Laid
<1> DEFINE e == f_pos[p] + Len(t)
<1>11. e \in f_pos[p]..MaxPos /\ e - f_pos[p] = Len(t)
  <2>1. Len(t) \in Nat /\ Len(t) <= call[p].count
    BY <1>3, <1>4, <1>7, <1>8
  <2>2. f_pos[p] + Len(t) <= MaxPos
    BY <1>3, <2>1
  <2> QED
    BY <1>3, <2>1, <2>2
<1>12. t \in [1..(e - f_pos[p]) -> Byte]
  BY <1>8, <1>11
<1> HIDE DEF e
<1> QED
  BY <1>1, <1>10, <1>11, <1>12 DEF SF!WriteFails

LEMMA SFWriteMain ==
  ASSUME DevInv, NEW p \in Procs, WriteMain(p)
  PROVE  SF!Write(p)
<1> DEFINE cnt == Piece(p, call[p].count)
           e == f_pos[p] + cnt
<1>1. From(p, "w_main") /\ ShapeKnown(p) /\ UNCHANGED <<shape, got>>
  BY DEF WriteMain
<1>2. TypeOK /\ Covered /\ ~Trimming
  BY <1>1, NoTrimBeside DEF DevInv, From
<1>3. call[p].count \in Nat /\ f_pos[p] \in Nat /\ q_pos(p) \in Nat /\ n_quantum \in Nat
      /\ f_pos[p] + call[p].count <= MaxPos /\ MaxPos \in Nat
  <2>1. call[p].count \in 0..MaxCount
    BY <1>2 DEF TypeOK
  <2>2. f_pos[p] \in Nat /\ q_pos(p) \in Nat /\ n_quantum \in Nat
    BY <1>1, <1>2, Place
  <2>3. f_pos[p] + call[p].count <= MaxPos
    BY <1>1 DEF DevInv, Room, From
  <2> QED
    BY <2>1, <2>2, <2>3, DevAssumption
<1>4. cnt \in Nat /\ cnt <= call[p].count /\ q_pos(p) + cnt <= n_quantum
  BY <1>1, <1>2, <1>3, PieceFits
<1>5. PICK s \in [1..cnt -> Byte] :
        /\ data' = WithQuantum(p, Patched(p, s))
        /\ f_pos' = [f_pos EXCEPT ![p] = @ + Len(s)]
        /\ size' = NewSize(f_pos'[p])
  BY DEF WriteMain
<1> HIDE DEF cnt
<1>6. s \in Seq(Byte) /\ Len(s) = cnt
  BY <1>4
<1>7. Content' = SF!Overlaid(f_pos[p], s)
  BY <1>1, <1>4, <1>5, <1>6, Laid
<1>8. f_pos' = [f_pos EXCEPT ![p] = e] /\ f_pos'[p] = e
  BY <1>2, <1>5, <1>6 DEF TypeOK
<1>9. e \in f_pos[p]..MaxPos /\ e - f_pos[p] = cnt
  <2>1. f_pos[p] + cnt <= MaxPos
    BY <1>3, <1>4
  <2> QED
    BY <1>3, <1>4, <2>1
<1>10. size' = IF size < e THEN e ELSE size
  BY <1>5, <1>8 DEF NewSize
<1>11. s \in [1..(e - f_pos[p]) -> Byte]
  BY <1>5, <1>9
<1> HIDE DEF e
<1> QED
  BY <1>1, <1>7, <1>8, <1>9, <1>10, <1>11 DEF SF!Write

LEMMA SFWrite ==
  ASSUME DevInv, NEW p \in Procs, WriteStep(p)
  PROVE  [SF!Next]_SF!fileVars
<1>1. CASE CallWrite(p) \/ WriteLook(p) \/ WriteDown(p)
  <2>1. UNCHANGED <<shape, data, size, f_pos, got>>
    BY <1>1 DEF CallWrite, WriteLook, WriteDown, down, store, fds
  <2> QED
    BY <2>1, ContentKept DEF SF!fileVars
<1>2. CASE WriteNoMemory(p)
  BY <1>2, SFWriteNoMemory
<1>3. CASE WriteFault(p)
  BY <1>3, SFWriteFault DEF SF!Next
<1>4. CASE WriteMain(p)
  BY <1>4, SFWriteMain DEF SF!Next
<1> QED
  BY <1>1, <1>2, <1>3, <1>4 DEF WriteStep

LEMMA SFNext ==
  ASSUME DevInv, DevInv', [StableNext]_vars
  PROVE  [SF!Next]_SF!fileVars
<1>1. CASE SetQset \/ SetQuantum
  <2>1. UNCHANGED <<shape, data, size, f_pos, got>>
    BY <1>1 DEF SetQset, SetQuantum, store, fds
  <2> QED
    BY <2>1, ContentKept DEF SF!fileVars
<1>2. ASSUME NEW p \in Procs, OpenStep(p) \/ ReadStep(p) \/ WriteStep(p)
      PROVE  [SF!Next]_SF!fileVars
  BY <1>2, SFOpen, SFRead, SFWrite
<1>3. ASSUME NEW p \in Procs, InterruptedDown(p)
      PROVE  [SF!Next]_SF!fileVars
  <2>1. UNCHANGED <<shape, data, size, f_pos, got>>
    BY <1>3 DEF InterruptedDown, store
  <2> QED
    BY <2>1, ContentKept DEF SF!fileVars
<1>4. CASE UNCHANGED vars
  <2>1. UNCHANGED <<shape, data, size, f_pos, got>>
    BY <1>4 DEF vars, store, fds
  <2> QED
    BY <2>1, ContentKept DEF SF!fileVars
<1> QED
  BY <1>1, <1>2, <1>3, <1>4 DEF StableNext, Next

LEMMA SFInit == Init => SF!Init
<1> SUFFICES ASSUME Init PROVE SF!Init
  OBVIOUS
<1>1. Content = SF!Blank
  BY DevInit, ContentBlank DEF Init, DevInv
<1> QED
  BY <1>1 DEF Init, SF!Init

(* The list of quanta implements one sparse file, for every number of          *)
(* processes, all shapes and all transfers: reads return what was written,     *)
(* holes and failed allocations read as zeros, a faulted write stores no more  *)
(* than its own range.                                                        *)
THEOREM DeviceIsAFile == StableSpec => File
<1>1. Init => SF!Init
  BY SFInit
<1>2. DevInv /\ DevInv' /\ [StableNext]_vars => [SF!Next]_SF!fileVars
  BY SFNext
<1> QED
  BY <1>1, <1>2, AlwaysDevInv, PTL DEF StableSpec, File, SF!File
=============================================================================
