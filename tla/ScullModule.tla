---------------------------- MODULE ScullModule -----------------------------
(* The life of the scull module (main.c 704-816, pipe.c 325-397, access.c      *)
(* 326-412): what initialisation registers and allocates for the bare devices, *)
(* the pipes and the access-controlled devices, which of it may fail, and what *)
(* the cleanup, which also follows a failed initialisation, takes back.  A     *)
(* device can be opened as soon as it is added, and the module stays while a   *)
(* file is open.                                                              *)
EXTENDS Naturals, FiniteSets

CONSTANTS scull_nr_devs, scull_p_nr_devs,
          Terminals,  \* each of which gets its clone of scullpriv
          MaxFiles,   \* bound on the open files
          Failing     \* calls that may fail, as <<part, call>>

Parts == {"scull", "scullp", "sculla"}
Calls == {"region", "alloc", "cdev"}

ASSUME ModuleAssumption ==
  /\ {scull_nr_devs, scull_p_nr_devs, MaxFiles} \subseteq Nat
  /\ Failing \subseteq Parts \X Calls

SCULL_N_ADEVS == 4
Nr(part) == CASE part = "scull" -> scull_nr_devs [] part = "scullp" -> scull_p_nr_devs
              [] part = "sculla" -> SCULL_N_ADEVS
Devs(part) == {part} \X (0 .. Nr(part) - 1)
AllDevs == UNION {Devs(part) : part \in Parts}
Priv    == <<"sculla", 3>>

VARIABLES stage, i,          \* scull_init_module and scull_cleanup_module
          firstdev,          \* dev: the first number that is not given out yet
          scull_devices, scull_p_devices,     \* whether the pointers are set
          scull_p_devno, scull_a_firstdev,
          cdev,              \* of each device: "zero", "init", "added" or "put"
          clones,            \* scull_c_list, as the terminals that have a clone
          regions,           \* the kernel's ranges of numbers that are this module's
          heap,              \* what it has allocated
          files,             \* the open files of each device
          missed,            \* failed steps whose things the cleanup never asks about
          wrong              \* what the kernel was asked to take back and had not given

pointers == <<scull_devices, scull_p_devices, scull_p_devno, scull_a_firstdev>>
moduleVars == <<stage, i, firstdev, pointers, cdev, clones, regions, heap, files,
                missed, wrong>>

(* What is in the module's own memory, as it is loaded.                        *)
NoCdev == [d \in AllDevs |-> "zero"]

ModuleInit ==
  /\ stage = "out" /\ i = 0 /\ firstdev = 0
  /\ scull_devices = FALSE /\ scull_p_devices = FALSE
  /\ scull_p_devno = 0 /\ scull_a_firstdev = 0
  /\ cdev = NoCdev /\ clones = {}
  /\ regions = {} /\ heap = {} /\ files = [d \in AllDevs |-> 0]
  /\ missed = {} /\ wrong = {}

Region(part, first) == <<first, Nr(part)>>
Fails(part, call)   == <<part, call>> \in Failing
AtStage(label)           == stage = label
Enter(label)        == stage' = label /\ i' = 0

-----------------------------------------------------------------------------
(* scull_init_module.  What was missed and what went wrong is that of one      *)
(* life of the module, and the next begins.                                    *)

InitRegion ==
  /\ AtStage("out")
  /\ \/ /\ regions' = regions \cup {Region("scull", 0)} /\ Enter("alloc")
        /\ missed' = {} /\ wrong' = {}
     \/ Fails("scull", "region") /\ UNCHANGED <<stage, i, regions, missed, wrong>>
  /\ UNCHANGED <<firstdev, pointers, cdev, clones, heap, files>>

InitAlloc ==
  /\ AtStage("alloc")
  /\ \/ /\ heap' = heap \cup {<<"scull_devices">>} /\ scull_devices' = TRUE /\ Enter("scull")
        /\ UNCHANGED missed
     \/ /\ Fails("scull", "alloc") /\ Enter("c_scull")
        /\ missed' = missed \cup {<<"scull_devices">>} /\ UNCHANGED <<heap, scull_devices>>
  /\ UNCHANGED <<firstdev, scull_p_devices, scull_p_devno, scull_a_firstdev, cdev, clones,
                 regions, files, wrong>>

(* One device of a part is set up, and is usable from then on.  An access-     *)
(* controlled device that could not be added is given up.                      *)
SetupCdev(part) ==
  /\ AtStage(part) /\ i < Nr(part)
  /\ \E result \in {"added", IF part = "sculla" THEN "put" ELSE "init"} :
       /\ result # "added" => Fails(part, "cdev")
       /\ cdev' = [cdev EXCEPT ![<<part, i>>] = result]
       /\ missed' = IF result = "put" THEN missed \cup {<<part, i>>} ELSE missed
  /\ i' = i + 1
  /\ UNCHANGED <<stage, firstdev, pointers, clones, regions, heap, files, wrong>>

SetupEnds(part, next) ==
  /\ AtStage(part) /\ i = Nr(part)
  /\ Enter(next) /\ firstdev' = firstdev + Nr(part)
  /\ UNCHANGED <<pointers, cdev, clones, regions, heap, files, missed, wrong>>

(* scull_p_init.  It returns 0 when it fails, and the next part gets its       *)
(* numbers.                                                                    *)
PipeRegion ==
  /\ AtStage("p_region")
  /\ \/ /\ regions' = regions \cup {Region("scullp", firstdev)} /\ scull_p_devno' = firstdev
        /\ Enter("p_alloc")
     \/ /\ Fails("scullp", "region") /\ Enter("a_region")
        /\ UNCHANGED <<regions, scull_p_devno>>
  /\ UNCHANGED <<firstdev, scull_devices, scull_p_devices, scull_a_firstdev, cdev, clones,
                 heap, files, missed, wrong>>

\* X_Y is a wrong X: README, "Faulty variants".
PipeNoMemory_Keeps == Enter("a_region") /\ UNCHANGED regions
PipeNoMemory == Enter("a_region") /\ regions' = regions \ {Region("scullp", firstdev)}

PipeAlloc ==
  /\ AtStage("p_alloc")
  /\ \/ /\ heap' = heap \cup {<<"scull_p_devices">>} /\ scull_p_devices' = TRUE
        /\ Enter("scullp") /\ UNCHANGED regions
     \/ /\ Fails("scullp", "alloc") /\ PipeNoMemory /\ UNCHANGED <<heap, scull_p_devices>>
  /\ UNCHANGED <<firstdev, scull_devices, scull_p_devno, scull_a_firstdev, cdev, clones,
                 files, missed, wrong>>

(* scull_access_init.                                                          *)
AccessRegion ==
  /\ AtStage("a_region")
  /\ \/ /\ regions' = regions \cup {Region("sculla", firstdev)} /\ scull_a_firstdev' = firstdev
        /\ Enter("sculla") /\ UNCHANGED missed
     \/ /\ Fails("sculla", "region") /\ Enter("live") /\ missed' = missed \cup {<<"sculla">>}
        /\ UNCHANGED <<regions, scull_a_firstdev>>
  /\ UNCHANGED <<firstdev, scull_devices, scull_p_devices, scull_p_devno, cdev, clones, heap,
                 files, wrong>>

-----------------------------------------------------------------------------
(* Programs, while the module is loaded and not being removed.                 *)

InUse == \E d \in AllDevs : files[d] > 0
Going == stage \in {"out", "c_scull", "c_main", "c_scullp", "c_sculla", "c_clones"}

(* An open makes the buffer of a pipe, and the clone of a terminal, which      *)
(* stays; a write gives a device its data.                                     *)
Made(d, k) ==
  IF d[1] = "scullp" THEN {<<"buffer", d>>}
  ELSE IF d = Priv THEN {<<"clone", k>>, <<"data", k>>} ELSE {<<"data", d>>}

OpenFile(d) ==
  /\ ~Going /\ cdev[d] = "added"
  /\ Cardinality({e \in AllDevs : files[e] > 0}) < MaxFiles
  /\ files[d] = 0
  /\ files' = [files EXCEPT ![d] = 1]
  /\ \E k \in Terminals :
       /\ heap' = heap \cup Made(d, k)
       /\ clones' = IF d = Priv THEN clones \cup {k} ELSE clones
  /\ UNCHANGED <<stage, i, firstdev, pointers, cdev, regions, missed, wrong>>

CloseFile(d) ==
  /\ files[d] > 0
  /\ files' = [files EXCEPT ![d] = 0]
  /\ heap' = heap \ {<<"buffer", d>>}
  /\ UNCHANGED <<stage, i, firstdev, pointers, cdev, clones, regions, missed, wrong>>

-----------------------------------------------------------------------------
(* scull_cleanup_module.                                                       *)

Unload ==
  /\ AtStage("live") /\ ~InUse /\ Enter("c_scull")
  /\ UNCHANGED <<firstdev, pointers, cdev, clones, regions, heap, files, missed, wrong>>

(* One device: cdev_del drops the reference that cdev_init took, and what the  *)
(* device has is freed.                                                        *)
CdevDel(d) ==
  /\ cdev' = [cdev EXCEPT ![d] = "put"]
  /\ wrong' = IF cdev[d] \in {"init", "added"} THEN wrong ELSE wrong \cup {d}

Remove(part) ==
  /\ i < Nr(part)
  /\ CdevDel(<<part, i>>)
  /\ heap' = heap \ {<<"data", <<part, i>>>>, <<"buffer", <<part, i>>>>}
  /\ i' = i + 1
  /\ UNCHANGED <<stage, firstdev, pointers, clones, regions, files, missed>>

Unregister(part, first) ==
  /\ regions' = regions \ {Region(part, first)}
  /\ wrong' = IF Region(part, first) \in regions THEN wrong ELSE wrong \cup {<<part>>}

CleanScull == AtStage("c_scull") /\ scull_devices /\ Remove("scull")

CleanMain ==
  /\ AtStage("c_scull") /\ (scull_devices => i = Nr("scull"))
  /\ heap' = heap \ {<<"scull_devices">>}
  /\ Unregister("scull", 0)
  /\ Enter("c_scullp")
  /\ UNCHANGED <<firstdev, pointers, cdev, clones, files, missed>>

CleanPipe == AtStage("c_scullp") /\ scull_p_devices /\ Remove("scullp")

CleanPipes ==
  /\ AtStage("c_scullp") /\ (scull_p_devices => i = Nr("scullp"))
  /\ IF scull_p_devices
     THEN heap' = heap \ {<<"scull_p_devices">>} /\ Unregister("scullp", scull_p_devno)
     ELSE UNCHANGED <<heap, regions, wrong>>
  /\ scull_p_devices' = FALSE
  /\ Enter("c_sculla")
  /\ UNCHANGED <<firstdev, scull_devices, scull_p_devno, scull_a_firstdev, cdev, clones,
                 files, missed>>

CleanAccess == AtStage("c_sculla") /\ Remove("sculla")

CleanClone ==
  /\ AtStage("c_sculla") /\ i = Nr("sculla")
  /\ \E k \in clones :
       /\ clones' = clones \ {k}
       /\ heap' = heap \ {<<"clone", k>>, <<"data", k>>}
  /\ UNCHANGED <<stage, i, firstdev, pointers, cdev, regions, files, missed, wrong>>

(* The module's memory goes with it, and it may be loaded again.               *)
CleanEnds ==
  /\ AtStage("c_sculla") /\ i = Nr("sculla") /\ clones = {}
  /\ Unregister("sculla", scull_a_firstdev)
  /\ Enter("out") /\ firstdev' = 0
  /\ scull_devices' = FALSE /\ scull_p_devices' = FALSE
  /\ scull_p_devno' = 0 /\ scull_a_firstdev' = 0
  /\ cdev' = NoCdev
  /\ UNCHANGED <<clones, heap, files, missed>>

ModuleNext ==
  \/ InitRegion \/ InitAlloc
  \/ \E part \in Parts : SetupCdev(part)
  \/ SetupEnds("scull", "p_region") \/ SetupEnds("scullp", "a_region")
  \/ SetupEnds("sculla", "live")
  \/ PipeRegion \/ PipeAlloc \/ AccessRegion
  \/ \E d \in AllDevs : OpenFile(d) \/ CloseFile(d)
  \/ Unload
  \/ CleanScull \/ CleanMain \/ CleanPipe \/ CleanPipes \/ CleanAccess \/ CleanClone \/ CleanEnds

ModuleSpec == ModuleInit /\ [][ModuleNext]_moduleVars

-----------------------------------------------------------------------------
(* "The cleanup function is used to handle initialization failures as well"    *)
(* (main.c:709): whatever fails, the unloaded module leaves nothing; while a   *)
(* file is open, its device has its memory and its numbers; no two devices     *)
(* have the same number.  What was not given is not taken back, but for the    *)
(* access devices, whose cleanup asks nothing: one that could not be added is  *)
(* given up twice, and all of them and their numbers are taken back when they  *)
(* have got none or the bare devices no memory.                                *)
Number(d) == d[2] + (CASE d[1] = "scull" -> 0 [] d[1] = "scullp" -> scull_p_devno
                       [] d[1] = "sculla" -> scull_a_firstdev)

Tidy ==
  /\ \A x \in wrong : x[1] = "sculla" /\ {x, <<"sculla">>, <<"scull_devices">>} \cap missed # {}
  /\ stage = "out" => regions = {} /\ heap = {}
  /\ \A d \in AllDevs : files[d] > 0 =>
       /\ d[1] = "scull" => <<"scull_devices">> \in heap
       /\ d[1] = "scullp" => <<"scull_p_devices">> \in heap
       /\ \E r \in regions : r[2] = Nr(d[1]) /\ Number(d) \in r[1] .. r[1] + r[2] - 1
  /\ \A d, e \in {x \in AllDevs : cdev[x] = "added"} : Number(d) = Number(e) => d = e
=============================================================================
