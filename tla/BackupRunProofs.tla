---------------------------- MODULE BackupRunProofs ---------------------------
(***************************************************************************)
(* Proofs about BackupRun for any number of jobs, partitions and steps.     *)
(***************************************************************************)
EXTENDS BackupRun, TLAPS

CallAt == {"none", "open", "mount", "verify", "umount", "check", "close", "returned"}
CallRet == MaybeDir \cup {"released", "held"}

\* A run is in a call of mountPartition or umountPartition exactly while its pc
\* says so, and mountPartition answers with a directory or "".
CallFits(j) ==
    /\ pc[j] = "mounting" =>
          \/ call[j].at \in {"open", "mount", "verify"}
          \/ call[j].at = "returned" /\ call[j].ret \in {"", "own"}
    /\ pc[j] = "umounting" => call[j].at \in {"umount", "check", "close", "returned"}
    /\ pc[j] \notin {"mounting", "umounting"} => call[j].at = "none"
    /\ call[j].at = "open" => Part[j] \in LuksParts
CallMatchesPc == \A j \in Jobs : CallFits(j)

TypeInv == TypeOK /\ CallMatchesPc

-------------------------------------------------------------------------------
\* What the two ways to move a call do to the call of c, and to no other.
LEMMA EnterCall ==
    ASSUME call \in [Callers -> CallState], NEW c \in Callers, NEW at \in CallAt, Enter(c, at)
    PROVE  /\ call' \in [Callers -> CallState]
           /\ call'[c].at = at /\ call'[c].dir = call[c].dir /\ call'[c].ret = call[c].ret
           /\ \A i \in Callers : i # c => call'[i] = call[i]
BY DEF Enter, CallState, CallAt

\* A call that returns.
LEMMA ReturnCall ==
    ASSUME call \in [Callers -> CallState], NEW c \in Callers, NEW ret \in CallRet, Return(c, ret)
    PROVE  /\ call' \in [Callers -> CallState]
           /\ call'[c].at = "returned" /\ call'[c].ret = ret
           /\ \A i \in Callers : i # c => call'[i] = call[i]
BY DEF Return, CallState, CallRet, MaybeDir, Dirs

\* Mounting and unmounting keep the type of the mount table and touch one partition.
LEMMA AddMountTable ==
    ASSUME MountTypeOK, NEW p \in Parts, NEW d \in Dirs, AddMount(p, d)
    PROVE  /\ mounts' \in [Parts -> SUBSET Dirs]
           /\ latest' \in [Parts -> MaybeDir]
           /\ mounts'[p] = mounts[p] \cup {d} /\ latest'[p] = d
           /\ \A q \in Parts : q # p => mounts'[q] = mounts[q] /\ latest'[q] = latest[q]
BY DEF AddMount, MountTypeOK, MaybeDir

\* Unmounting takes a directory out of one partition's row.
LEMMA DropMountTable ==
    ASSUME MountTypeOK, NEW p \in Parts, NEW d, DropMount(p, d)
    PROVE  /\ mounts' \in [Parts -> SUBSET Dirs]
           /\ latest' \in [Parts -> MaybeDir]
           /\ mounts'[p] = mounts[p] \ {d}
           /\ mounts'[p] = {} => latest'[p] = ""
           /\ \A q \in Parts : q # p => mounts'[q] = mounts[q] /\ latest'[q] = latest[q]
<1> DEFINE rest == mounts[p] \ {d}
<1>1. rest \in SUBSET Dirs
  BY DEF MountTypeOK
<1>2. (IF rest = {} THEN "" ELSE CHOOSE e \in rest : TRUE) \in MaybeDir
  <2>1. CASE rest = {}
    BY <2>1 DEF MaybeDir
  <2>2. CASE rest # {}
    <3>1. PICK e \in rest : TRUE
      BY <2>2
    <3>2. (CHOOSE x \in rest : TRUE) \in rest
      BY <3>1
    <3>3. QED
      BY <3>2, <2>2, <1>1 DEF MaybeDir
  <2>3. QED
    BY <2>1, <2>2
<1>3. /\ mounts' = [mounts EXCEPT ![p] = rest]
      /\ latest' = [latest EXCEPT ![p] = IF rest = {} THEN "" ELSE CHOOSE e \in rest : TRUE]
  BY DEF DropMount
<1> HIDE DEF rest
<1>4. mounts' \in [Parts -> SUBSET Dirs] /\ mounts'[p] = rest
  BY <1>1, <1>3 DEF MountTypeOK
<1>5. latest' \in [Parts -> MaybeDir] /\ (rest = {} => latest'[p] = "")
  BY <1>2, <1>3 DEF MountTypeOK
<1>6. \A q \in Parts : q # p => mounts'[q] = mounts[q] /\ latest'[q] = latest[q]
  BY <1>3 DEF MountTypeOK
<1>7. QED
  BY <1>4, <1>5, <1>6 DEF rest

-------------------------------------------------------------------------------
InCallPc == {"mounting", "umounting"}

\* A run that moves outside a call leaves every run where its call wants it.
LEMMA MoveOutsideCalls ==
    ASSUME TypeInv, NEW j \in Jobs, NEW at \in Pc \ InCallPc, pc[j] \notin InCallPc,
           Goto(j, at), UNCHANGED call
    PROVE  pc' \in [Jobs -> Pc] /\ CallMatchesPc'
<1>1. pc' \in [Jobs -> Pc] /\ pc'[j] = at /\ \A i \in Jobs : i # j => pc'[i] = pc[i]
  BY DEF TypeInv, TypeOK, Goto
<1>2. ASSUME NEW i \in Jobs PROVE CallFits(i)'
  BY <1>1 DEF TypeInv, CallMatchesPc, CallFits, InCallPc
<1>3. QED
  BY <1>1, <1>2 DEF CallMatchesPc

\* A run that enters or leaves a call, the other calls being untouched.
LEMMA MoveWithCall ==
    ASSUME TypeInv, NEW j \in Jobs, NEW at \in Pc, Goto(j, at), CallFits(j)',
           \A i \in Callers : i # j => call'[i] = call[i]
    PROVE  pc' \in [Jobs -> Pc] /\ CallMatchesPc'
<1>1. pc' \in [Jobs -> Pc] /\ pc'[j] = at /\ \A i \in Jobs : i # j => pc'[i] = pc[i]
  BY DEF TypeInv, TypeOK, Goto
<1>2. ASSUME NEW i \in Jobs PROVE CallFits(i)'
  BY <1>1 DEF TypeInv, CallMatchesPc, CallFits, Jobs
<1>3. QED
  BY <1>1, <1>2 DEF CallMatchesPc

\* A run that is in no call.
LEMMA NoCallType == NoCall \in CallState /\ NoCall.at = "none"
BY DEF NoCall, CallState, MaybeDir, Dirs

\* No call anywhere and every run outside calls.
LEMMA NoCallsFit ==
    ASSUME call' = [i \in Jobs |-> NoCall], \A i \in Jobs : pc'[i] \notin InCallPc
    PROVE  CallMatchesPc'
<1>1. ASSUME NEW i \in Jobs PROVE CallFits(i)'
  BY NoCallType DEF CallFits, InCallPc
<1>2. QED
  BY <1>1 DEF CallMatchesPc

-------------------------------------------------------------------------------
\* One step of a call keeps the types and stays within the call.
LEMMA CallStepTypes ==
    ASSUME TypeInv, NEW j \in Jobs, InCall(j)
    PROVE  TypeInv'
<1> DEFINE MovesCall ==
              /\ call' \in [Callers -> CallState]
              /\ \A i \in Callers : i # j => call'[i] = call[i]
              /\ CallFits(j)'
           KeepsTable ==
              /\ attached' \subseteq Parts
              /\ mounts' \in [Parts -> SUBSET Dirs]
              /\ latest' \in [Parts -> MaybeDir]
              /\ mapper' \subseteq LuksParts
<1>0. /\ UNCHANGED <<pc, dir, step, ok>>
      /\ MountTypeOK /\ call \in [Callers -> CallState]
      /\ j \in Callers /\ Part[j] \in Parts /\ CallFits(j)
      /\ pc[j] \in {"mounting", "umounting"}
  BY PartAssumption DEF InCall, run, TypeInv, TypeOK, MountTypeOK, Jobs, CallMatchesPc
<1>1. CASE LuksOpen(j)
  <2>1. \/ Enter(j, "mount") \/ Return(j, "")
    BY <1>1 DEF LuksOpen
  <2>2. call[j].at = "open"
    BY <1>1 DEF LuksOpen
  <2>3. MovesCall
    BY <1>0, <2>1, <2>2, EnterCall, ReturnCall DEF CallFits, CallAt, CallRet, MaybeDir
  <2>4. KeepsTable
    BY <1>0, <1>1 DEF LuksOpen, MountTypeOK, CallFits
  <2>5. QED
    BY <1>0, <2>3, <2>4 DEF TypeInv, TypeOK, MountTypeOK, CallMatchesPc, CallFits, Jobs
<1>2. CASE MountDevice(j)
  <2>1. \/ Enter(j, "verify") \/ Return(j, "")
    BY <1>2 DEF MountDevice
  <2>2. call[j].at = "mount"
    BY <1>2 DEF MountDevice
  <2>3. MovesCall
    BY <1>0, <2>1, <2>2, EnterCall, ReturnCall DEF CallFits, CallAt, CallRet, MaybeDir
  <2>4. AddMount(Part[j], "own") \/ UNCHANGED <<mounts, latest>>
    BY <1>2 DEF MountDevice
  <2>5. KeepsTable
    BY <1>0, <1>2, <2>4, AddMountTable DEF MountDevice, MountTypeOK, Dirs
  <2>6. QED
    BY <1>0, <2>3, <2>5 DEF TypeInv, TypeOK, MountTypeOK, CallMatchesPc, CallFits, Jobs
<1>3. CASE VerifyMount(j)
  <2>1. \/ Return(j, "own") \/ Return(j, "")
    BY <1>3 DEF VerifyMount
  <2>2. call[j].at = "verify" /\ KeepsTable
    BY <1>0, <1>3 DEF VerifyMount, kernel, MountTypeOK
  <2>3. MovesCall
    BY <1>0, <2>1, <2>2, ReturnCall DEF CallFits, CallRet, MaybeDir, Dirs
  <2>4. QED
    BY <1>0, <2>2, <2>3 DEF TypeInv, TypeOK, MountTypeOK, CallMatchesPc, CallFits, Jobs
<1>4. CASE UmountDevice(j, InUse(Part[j], call[j].dir))
  <2>1. \/ Enter(j, "check") \/ Return(j, "held")
    BY <1>4 DEF UmountDevice
  <2>2. call[j].at = "umount"
    BY <1>4 DEF UmountDevice
  <2>3. MovesCall
    BY <1>0, <2>1, <2>2, EnterCall, ReturnCall DEF CallFits, CallAt, CallRet
  <2>4. DropMount(Part[j], call[j].dir) \/ UNCHANGED <<mounts, latest>>
    BY <1>4 DEF UmountDevice
  <2>5. KeepsTable
    BY <1>0, <1>4, <2>4, DropMountTable DEF UmountDevice, MountTypeOK
  <2>6. QED
    BY <1>0, <2>3, <2>5 DEF TypeInv, TypeOK, MountTypeOK, CallMatchesPc, CallFits, Jobs
<1>5. CASE CheckUmount(j)
  <2>1. \/ Return(j, "held") \/ Enter(j, "close") \/ Return(j, "released")
    BY <1>5 DEF CheckUmount
  <2>2. call[j].at = "check" /\ KeepsTable
    BY <1>0, <1>5 DEF CheckUmount, kernel, MountTypeOK
  <2>3. MovesCall
    BY <1>0, <2>1, <2>2, EnterCall, ReturnCall DEF CallFits, CallAt, CallRet
  <2>4. QED
    BY <1>0, <2>2, <2>3 DEF TypeInv, TypeOK, MountTypeOK, CallMatchesPc, CallFits, Jobs
<1>6. CASE LuksClose(j)
  <2>1. \/ Return(j, "held") \/ Return(j, "released")
    BY <1>6 DEF LuksClose
  <2>2. call[j].at = "close" /\ KeepsTable
    BY <1>0, <1>6 DEF LuksClose, MountTypeOK
  <2>3. MovesCall
    BY <1>0, <2>1, <2>2, ReturnCall DEF CallFits, CallRet
  <2>4. QED
    BY <1>0, <2>2, <2>3 DEF TypeInv, TypeOK, MountTypeOK, CallMatchesPc, CallFits, Jobs
<1>7. QED
  BY <1>1, <1>2, <1>3, <1>4, <1>5, <1>6 DEF InCall, CallStep

-------------------------------------------------------------------------------
\* Every step of the system keeps the types and the place of each run's call.
LEMMA TypeStep == TypeInv /\ [Next]_vars => TypeInv'
<1> SUFFICES ASSUME TypeInv, [Next]_vars
             PROVE  TypeInv'
  OBVIOUS
<1>0. /\ TypeOK /\ MountTypeOK
      /\ \A j \in Jobs : CallFits(j) /\ j \in Callers
  BY DEF TypeInv, TypeOK, CallMatchesPc, Jobs
<1>1. ASSUME NEW j \in Jobs, Start(j) PROVE TypeInv'
  <2>1. pc[j] = "idle" /\ (Goto(j, "lookup")) /\ UNCHANGED call
    BY <1>1 DEF Start
  <2>2. pc' \in [Jobs -> Pc] /\ CallMatchesPc'
    BY <2>1, MoveOutsideCalls DEF Pc, InCallPc
  <2>3. QED
    BY <1>0, <1>1, <2>2 DEF Start, TypeInv, TypeOK, MountTypeOK, kernel, MaybeDir
<1>2. ASSUME NEW j \in Jobs, Lookup(j) PROVE TypeInv'
  <2>1. pc[j] = "lookup" /\ (Goto(j, "probe") \/ Goto(j, "done")) /\ UNCHANGED call
    BY <1>2 DEF Lookup
  <2>2. pc' \in [Jobs -> Pc] /\ CallMatchesPc'
    BY <2>1, MoveOutsideCalls DEF Pc, InCallPc
  <2>3. QED
    BY <1>0, <1>2, <2>2 DEF Lookup, TypeInv, TypeOK, MountTypeOK, kernel
<1>3. ASSUME NEW j \in Jobs, GetDir(j) PROVE TypeInv'
  <2>1. pc[j] = "getDir" /\ (Goto(j, "step")) /\ UNCHANGED call
    BY <1>3 DEF GetDir
  <2>2. pc' \in [Jobs -> Pc] /\ CallMatchesPc'
    BY <2>1, MoveOutsideCalls DEF Pc, InCallPc
  <2>3. dir' \in [Jobs -> MaybeDir]
    BY <1>0, <1>3, PartAssumption DEF GetDir, GetMountDir, TypeOK, MountTypeOK, Jobs
  <2>4. QED
    BY <1>0, <1>3, <2>2, <2>3 DEF GetDir, TypeInv, TypeOK, MountTypeOK, kernel
<1>4. ASSUME NEW j \in Jobs, Recheck(j) PROVE TypeInv'
  <2>1. pc[j] = "recheck" /\ (Goto(j, "step") \/ Goto(j, "done")) /\ UNCHANGED call
    BY <1>4 DEF Recheck
  <2>2. pc' \in [Jobs -> Pc] /\ CallMatchesPc'
    BY <2>1, MoveOutsideCalls DEF Pc, InCallPc
  <2>3. QED
    BY <1>0, <1>4, <2>2 DEF Recheck, TypeInv, TypeOK, MountTypeOK, kernel
<1>5. ASSUME NEW j \in Jobs, BeginStep(j) PROVE TypeInv'
  <2>1. pc[j] = "step" /\ (Goto(j, "writing")) /\ UNCHANGED call
    BY <1>5 DEF BeginStep
  <2>2. pc' \in [Jobs -> Pc] /\ CallMatchesPc'
    BY <2>1, MoveOutsideCalls DEF Pc, InCallPc
  <2>3. QED
    BY <1>0, <1>5, <2>2 DEF BeginStep, TypeInv, TypeOK, MountTypeOK, kernel
<1>6. ASSUME NEW j \in Jobs, EndStep(j) PROVE TypeInv'
  <2>1. pc[j] = "writing" /\ (Goto(j, "step")) /\ UNCHANGED call
    BY <1>6 DEF EndStep
  <2>2. pc' \in [Jobs -> Pc] /\ CallMatchesPc'
    BY <2>1, MoveOutsideCalls DEF Pc, InCallPc
  <2>3. step' \in [Jobs -> Nat]
    BY <1>0, <1>6 DEF EndStep, TypeOK
  <2>4. QED
    BY <1>0, <1>6, <2>2, <2>3 DEF EndStep, TypeInv, TypeOK, MountTypeOK, kernel
<1>7. ASSUME NEW j \in Jobs, SendMail(j) PROVE TypeInv'
  <2>1. pc[j] = "step" /\ (Goto(j, "release")) /\ UNCHANGED call
    BY <1>7 DEF SendMail
  <2>2. pc' \in [Jobs -> Pc] /\ CallMatchesPc'
    BY <2>1, MoveOutsideCalls DEF Pc, InCallPc
  <2>3. QED
    BY <1>0, <1>7, <2>2 DEF SendMail, TypeInv, TypeOK, MountTypeOK, kernel
<1>8. ASSUME NEW j \in Jobs, Finish(j) PROVE TypeInv'
  <2>1. pc[j] = "done" /\ (Goto(j, "idle")) /\ UNCHANGED call
    BY <1>8 DEF Finish
  <2>2. pc' \in [Jobs -> Pc] /\ CallMatchesPc'
    BY <2>1, MoveOutsideCalls DEF Pc, InCallPc
  <2>3. QED
    BY <1>0, <1>8, <2>2 DEF Finish, TypeInv, TypeOK, MountTypeOK, kernel
<1>9. ASSUME NEW j \in Jobs, SkipStep(j) PROVE TypeInv'
  <2>1. step' \in [Jobs -> Nat]
    BY <1>0, <1>9 DEF SkipStep, TypeOK
  <2>2. CallMatchesPc'
    BY <1>0, <1>9 DEF SkipStep, CallMatchesPc, CallFits
  <2>3. QED
    BY <1>0, <1>9, <2>1, <2>2 DEF SkipStep, TypeInv, TypeOK, MountTypeOK, kernel
<1>10. ASSUME NEW j \in Jobs, Probe(j) PROVE TypeInv'
  <2>1. pc' \in [Jobs -> Pc] /\ CallMatchesPc' /\ call' \in [Callers -> CallState]
    <3>1. CASE Goto(j, "getDir") /\ UNCHANGED call
      BY <1>0, <1>10, <3>1, MoveOutsideCalls DEF Probe, Pc, InCallPc, MountTypeOK
    <3>2. CASE Goto(j, "mounting") /\ MountPartition(j)
      <4>1. Enter(j, IF Part[j] \in LuksParts THEN "open" ELSE "mount")
        BY <3>2 DEF MountPartition
      <4>2. /\ call' \in [Callers -> CallState]
            /\ call'[j].at = IF Part[j] \in LuksParts THEN "open" ELSE "mount"
            /\ \A i \in Callers : i # j => call'[i] = call[i]
        BY <1>0, <4>1, EnterCall DEF CallAt, MountTypeOK
      <4>3. pc'[j] = "mounting"
        BY <1>0, <3>2 DEF Goto, TypeOK
      <4>4. CallFits(j)'
        BY <4>2, <4>3 DEF CallFits
      <4>5. QED
        BY <3>2, <4>2, <4>4, MoveWithCall DEF Pc
    <3>3. QED
      BY <1>10, <3>1, <3>2 DEF Probe
  <2>2. QED
    BY <1>0, <1>10, <2>1 DEF Probe, TypeInv, TypeOK, MountTypeOK, kernel
<1>11. ASSUME NEW j \in Jobs, MountReturns(j) PROVE TypeInv'
  <2>1. /\ call' \in [Callers -> CallState] /\ call'[j] = NoCall
        /\ \A i \in Callers : i # j => call'[i] = call[i]
    BY <1>0, <1>11, NoCallType DEF MountReturns, MountTypeOK
  <2>2. pc'[j] = "recheck" /\ Goto(j, "recheck")
    BY <1>0, <1>11 DEF MountReturns, Goto, TypeOK
  <2>3. CallFits(j)'
    BY <2>1, <2>2, NoCallType DEF CallFits
  <2>4. pc' \in [Jobs -> Pc] /\ CallMatchesPc'
    BY <2>1, <2>2, <2>3, MoveWithCall DEF Pc
  <2>5. call[j].ret \in MaybeDir
    BY <1>0, <1>11 DEF MountReturns, CallFits, MaybeDir, Dirs
  <2>6. QED
    BY <1>0, <1>11, <2>1, <2>4, <2>5 DEF MountReturns, TypeInv, TypeOK, MountTypeOK, kernel
<1>12. ASSUME NEW j \in Jobs, UmountReturns(j) PROVE TypeInv'
  <2>1. /\ call' \in [Callers -> CallState] /\ call'[j] = NoCall
        /\ \A i \in Callers : i # j => call'[i] = call[i]
    BY <1>0, <1>12, NoCallType DEF UmountReturns, MountTypeOK
  <2>2. pc'[j] = "done" /\ Goto(j, "done")
    BY <1>0, <1>12 DEF UmountReturns, Goto, TypeOK
  <2>3. CallFits(j)'
    BY <2>1, <2>2, NoCallType DEF CallFits
  <2>4. pc' \in [Jobs -> Pc] /\ CallMatchesPc'
    BY <2>1, <2>2, <2>3, MoveWithCall DEF Pc
  <2>5. QED
    BY <1>0, <1>12, <2>1, <2>4 DEF UmountReturns, TypeInv, TypeOK, MountTypeOK, kernel
<1>13. ASSUME NEW j \in Jobs, Release(j) PROVE TypeInv'
  <2>1. pc' \in [Jobs -> Pc] /\ CallMatchesPc' /\ call' \in [Callers -> CallState]
    <3>1. CASE Goto(j, "done") /\ UNCHANGED call
      BY <1>0, <1>13, <3>1, MoveOutsideCalls DEF Release, Pc, InCallPc, MountTypeOK
    <3>2. CASE Goto(j, "umounting") /\ UmountPartition(j)
      <4>1. latest[Part[j]] \in MaybeDir
        BY <1>0, PartAssumption DEF MountTypeOK
      <4>2. /\ call' \in [Callers -> CallState]
            /\ call'[j].at = "umount"
            /\ \A i \in Callers : i # j => call'[i] = call[i]
        BY <1>0, <3>2, <4>1 DEF UmountPartition, GetMountDir, CallState, MountTypeOK
      <4>3. pc'[j] = "umounting"
        BY <1>0, <3>2 DEF Goto, TypeOK
      <4>4. CallFits(j)'
        BY <4>2, <4>3 DEF CallFits
      <4>5. QED
        BY <3>2, <4>2, <4>4, MoveWithCall DEF Pc
    <3>3. QED
      BY <1>13, <3>1, <3>2 DEF Release
  <2>2. QED
    BY <1>0, <1>13, <2>1 DEF Release, TypeInv, TypeOK, MountTypeOK, kernel
<1>14. ASSUME NEW j \in Jobs, InCall(j) PROVE TypeInv'
  BY <1>14, CallStepTypes
<1>15. ASSUME Environment, UNCHANGED run PROVE TypeInv'
  <2>1. CallMatchesPc'
    BY <1>0, <1>15 DEF Environment, PlugIn, PullOut, OsMount, run, CallMatchesPc, CallFits
  <2>2. PICK p \in Parts : PlugIn(p) \/ PullOut(p) \/ OsMount(p)
    BY <1>15 DEF Environment
  <2>3. CASE PlugIn(p)
    BY <1>0, <1>15, <2>1, <2>3 DEF PlugIn, run, TypeInv, TypeOK, MountTypeOK
  <2>4. CASE PullOut(p)
    BY <1>0, <1>15, <2>1, <2>4 DEF PullOut, run, TypeInv, TypeOK, MountTypeOK
  <2>5. CASE OsMount(p)
    <3>1. AddMount(p, "os") /\ UNCHANGED <<attached, mapper, call>>
      BY <2>5 DEF OsMount
    <3>2. QED
      BY <1>0, <1>15, <2>1, <3>1, AddMountTable DEF run, TypeInv, TypeOK, MountTypeOK, Dirs
  <2>6. QED
    BY <2>2, <2>3, <2>4, <2>5
<1>16. CASE Crash
  <2>1. CallMatchesPc'
    BY <1>16, NoCallsFit DEF Crash, InCallPc
  <2>2. QED
    BY <1>0, <1>16, <2>1, NoCallType DEF Crash, TypeInv, TypeOK, MountTypeOK, kernel, Pc, Jobs
<1>17. CASE UNCHANGED vars
  BY <1>0, <1>17 DEF vars, run, kernel, TypeInv, TypeOK, MountTypeOK, CallMatchesPc, CallFits
<1>18. QED
  BY <1>1, <1>2, <1>3, <1>4, <1>5, <1>6, <1>7, <1>8, <1>9, <1>10, <1>11, <1>12, <1>13, <1>14, <1>15, <1>16, <1>17 DEF Next, RunStep

\* At the start every value has its type and no run is in a call.
LEMMA InitTypes == Init => TypeInv
<1> SUFFICES ASSUME Init PROVE TypeInv
  OBVIOUS
<1>1. CallMatchesPc
  BY NoCallType DEF Init, MountInit, CallMatchesPc, CallFits, Jobs
<1>2. MountTypeOK
  BY NoCallType DEF Init, MountInit, MountTypeOK, MaybeDir
<1>3. QED
  BY <1>1, <1>2 DEF Init, TypeInv, TypeOK, Pc, MaybeDir

\* Every value keeps its type and every run its call, whatever the jobs share.
LEMMA TypeInvariance == Spec => []TypeInv
BY InitTypes, TypeStep, PTL DEF Spec

\* The type invariant of BackupRun, for any jobs on any partitions.
THEOREM TypeCorrect == Spec => []TypeOK
<1>1. TypeInv => TypeOK
  BY DEF TypeInv
<1>2. QED
  BY <1>1, TypeInvariance, PTL

-------------------------------------------------------------------------------
\* A job with a partition of its own: what its run believes about the mount table at
\* each point is still so, whatever jobs on other partitions do.

\* The partition is mounted at its own directory or not at all.
OwnOnly(p) ==
    /\ mounts[p] \in {{}, {"own"}}
    /\ latest[p] = IF mounts[p] = {} THEN "" ELSE "own"

BeliefHolds(j) ==
    /\ pc[j] = "mounting" /\ call[j].at \in {"open", "mount"} => mounts[Part[j]] = {}
    /\ pc[j] = "mounting" /\ call[j].at = "returned" => call[j].ret = latest[Part[j]]
    /\ pc[j] = "recheck" => dir[j] = latest[Part[j]]
    /\ pc[j] = "getDir" => mounts[Part[j]] # {}
    /\ pc[j] \in {"step", "writing"} =>
          dir[j] = latest[Part[j]] /\ mounts[Part[j]] # {}

TargetHeld(j) == OwnOnly(Part[j]) /\ BeliefHolds(j)
TargetsHeld == \A j \in Jobs : Exclusive(j) => TargetHeld(j)

\* A step of the run that leaves the mount table alone.
LEMMA QuietStep ==
    ASSUME NEW j \in Jobs, TargetHeld(j), UNCHANGED <<mounts, latest>>, BeliefHolds(j)'
    PROVE  TargetHeld(j)'
BY DEF TargetHeld, OwnOnly

\* A step that moves nothing of the run and leaves its row of the mount table alone.
LEMMA ForeignStep ==
    ASSUME NEW j \in Jobs, TargetHeld(j),
           pc'[j] = pc[j], dir'[j] = dir[j], call'[j] = call[j],
           mounts'[Part[j]] = mounts[Part[j]], latest'[Part[j]] = latest[Part[j]]
    PROVE  TargetHeld(j)'
BY DEF TargetHeld, OwnOnly, BeliefHolds

\* The steps of its own call keep what a run believes.
LEMMA CallStepHolds ==
    ASSUME TypeInv, NEW j \in Jobs, TargetHeld(j), InCall(j)
    PROVE  TargetHeld(j)'
<1>1. /\ MountTypeOK /\ call \in [Callers -> CallState] /\ UNCHANGED run
      /\ j \in Callers /\ Part[j] \in Parts /\ CallFits(j) /\ BeliefHolds(j)
      /\ mounts[Part[j]] \in {{}, {"own"}}
      /\ latest[Part[j]] = IF mounts[Part[j]] = {} THEN "" ELSE "own"
  BY PartAssumption DEF InCall, TypeInv, TypeOK, MountTypeOK, Jobs, CallMatchesPc, TargetHeld, OwnOnly
<1>2. UNCHANGED <<pc, dir>>
  BY <1>1 DEF run
<1>3. CASE LuksOpen(j)
  <2>1. call[j].at = "open" /\ UNCHANGED <<mounts, latest>> /\ (Enter(j, "mount") \/ Return(j, ""))
    BY <1>3 DEF LuksOpen
  <2>2. pc[j] = "mounting" /\ mounts[Part[j]] = {}
    BY <1>1, <2>1 DEF CallFits, BeliefHolds
  <2>3. BeliefHolds(j)'
    BY <1>1, <1>2, <2>1, <2>2, EnterCall, ReturnCall DEF BeliefHolds, CallAt, CallRet, MaybeDir, Jobs
  <2>4. QED
    BY <2>1, <2>3, QuietStep
<1>4. CASE MountDevice(j)
  <2>1. call[j].at = "mount"
    BY <1>4 DEF MountDevice
  <2>2. pc[j] = "mounting" /\ mounts[Part[j]] = {} /\ latest[Part[j]] = ""
    BY <1>1, <2>1 DEF CallFits, BeliefHolds
  <2>3. CASE AddMount(Part[j], "own") /\ Enter(j, "verify")
    <3>1. /\ mounts'[Part[j]] = {"own"} /\ latest'[Part[j]] = "own"
          /\ \A q \in Parts : q # Part[j] => mounts'[q] = mounts[q] /\ latest'[q] = latest[q]
      BY <1>1, <2>2, <2>3, AddMountTable DEF Dirs
    <3>2. BeliefHolds(j)'
      BY <1>1, <1>2, <2>2, <2>3, EnterCall DEF BeliefHolds, CallAt, Jobs
    <3>3. QED
      BY <3>1, <3>2 DEF TargetHeld, OwnOnly
  <2>4. CASE UNCHANGED <<mounts, latest>> /\ (Enter(j, "verify") \/ Return(j, ""))
    <3>1. BeliefHolds(j)'
      BY <1>1, <1>2, <2>2, <2>4, EnterCall, ReturnCall DEF BeliefHolds, CallAt, CallRet, MaybeDir, Jobs
    <3>2. QED
      BY <2>4, <3>1, QuietStep
  <2>5. QED
    BY <1>4, <2>3, <2>4 DEF MountDevice, Ran
<1>5. CASE VerifyMount(j)
  <2>1. /\ call[j].at = "verify" /\ UNCHANGED <<mounts, latest>>
        /\ Return(j, IF mounts[Part[j]] # {} THEN "own" ELSE "")
    BY <1>5 DEF VerifyMount, IsMounted, kernel
  <2>2. pc[j] = "mounting"
    BY <1>1, <2>1 DEF CallFits
  <2>3. /\ call'[j].at = "returned"
        /\ call'[j].ret = latest[Part[j]]
    BY <1>1, <2>1, ReturnCall DEF CallRet, MaybeDir, Dirs, Jobs
  <2>4. BeliefHolds(j)'
    BY <1>2, <2>1, <2>2, <2>3 DEF BeliefHolds
  <2>5. QED
    BY <2>1, <2>4, QuietStep
<1>6. CASE UmountDevice(j, InUse(Part[j], call[j].dir))
  <2>1. call[j].at = "umount" /\ (Enter(j, "check") \/ Return(j, "held"))
    BY <1>6 DEF UmountDevice
  <2>2. pc[j] = "umounting"
    BY <1>1, <2>1 DEF CallFits
  <2>3. BeliefHolds(j)'
    BY <1>2, <2>2 DEF BeliefHolds
  <2>4. CASE DropMount(Part[j], call[j].dir) /\ call[j].dir \in mounts[Part[j]]
    <3>1. /\ mounts'[Part[j]] = {} /\ latest'[Part[j]] = ""
          /\ \A q \in Parts : q # Part[j] => mounts'[q] = mounts[q] /\ latest'[q] = latest[q]
      <4>1. mounts[Part[j]] = {"own"} /\ call[j].dir = "own"
        BY <1>1, <2>4
      <4>2. mounts[Part[j]] \ {call[j].dir} = {}
        BY <4>1
      <4>3. QED
        BY <1>1, <2>4, <4>2, DropMountTable
    <3>2. QED
      BY <2>3, <3>1 DEF TargetHeld, OwnOnly
  <2>5. CASE UNCHANGED <<mounts, latest>>
    BY <2>3, <2>5, QuietStep
  <2>6. QED
    BY <1>6, <2>4, <2>5 DEF UmountDevice
<1>7. CASE CheckUmount(j) \/ LuksClose(j)
  <2>1. /\ call[j].at \in {"check", "close"} /\ UNCHANGED <<mounts, latest>>
        /\ Enter(j, "close") \/ Return(j, "held") \/ Return(j, "released")
    BY <1>7 DEF CheckUmount, LuksClose, kernel
  <2>2. pc[j] = "umounting"
    BY <1>1, <2>1 DEF CallFits
  <2>3. QED
    BY <1>2, <2>1, <2>2, QuietStep DEF BeliefHolds
<1>8. QED
  BY <1>3, <1>4, <1>5, <1>6, <1>7 DEF InCall, CallStep

\* Other runs only touch the rows of their own partitions.
LEMMA OthersKeep ==
    ASSUME TypeInv, NEW j \in Jobs, Exclusive(j), TargetHeld(j),
           NEW i \in Jobs, i # j, Start(i) \/ RunStep(i)
    PROVE  TargetHeld(j)'
<1>0. /\ pc \in [Jobs -> Pc] /\ dir \in [Jobs -> MaybeDir] /\ call \in [Callers -> CallState]
      /\ MountTypeOK /\ Part[i] \in Parts /\ Part[j] \in Parts /\ Part[i] # Part[j]
      /\ i \in Callers /\ j \in Callers
  BY PartAssumption DEF TypeInv, TypeOK, MountTypeOK, Exclusive, Jobs
<1>1. CASE Start(i) \/ Lookup(i) \/ GetDir(i) \/ Recheck(i) \/ BeginStep(i) \/ EndStep(i)
           \/ SkipStep(i) \/ SendMail(i) \/ Finish(i)
  <2>1. pc'[j] = pc[j] /\ dir'[j] = dir[j] /\ UNCHANGED <<mounts, latest, call>>
    BY <1>0, <1>1 DEF Start, Lookup, GetDir, Recheck, BeginStep, EndStep, SkipStep, SendMail,
                      Finish, Goto, kernel
  <2>2. QED
    BY <2>1, ForeignStep
<1>2. CASE Probe(i) \/ Release(i) \/ MountReturns(i) \/ UmountReturns(i)
  <2>1. pc'[j] = pc[j] /\ dir'[j] = dir[j] /\ UNCHANGED <<mounts, latest>>
    BY <1>0, <1>2 DEF Probe, Release, MountReturns, UmountReturns, Goto, kernel
  <2>2. call'[j] = call[j]
    BY <1>0, <1>2 DEF Probe, Release, MountReturns, UmountReturns, MountPartition, UmountPartition,
                      Enter
  <2>3. QED
    BY <2>1, <2>2, ForeignStep
<1>3. CASE InCall(i)
  <2>1. UNCHANGED <<pc, dir>>
    BY <1>3 DEF InCall, run
  <2>2. call'[j] = call[j]
    BY <1>0, <1>3 DEF InCall, CallStep, LuksOpen, MountDevice, VerifyMount, UmountDevice,
                      CheckUmount, LuksClose, Enter, Return
  <2>3. \/ UNCHANGED <<mounts, latest>>
        \/ \E d : DropMount(Part[i], d)
        \/ AddMount(Part[i], "own")
    BY <1>3 DEF InCall, CallStep, LuksOpen, MountDevice, VerifyMount, UmountDevice,
                CheckUmount, LuksClose, kernel
  <2>4. mounts'[Part[j]] = mounts[Part[j]] /\ latest'[Part[j]] = latest[Part[j]]
    BY <1>0, <2>3, AddMountTable, DropMountTable DEF Dirs
  <2>5. QED
    BY <2>1, <2>2, <2>4, ForeignStep
<1>4. QED
  BY <1>1, <1>2, <1>3 DEF RunStep

\* Its own steps keep what a run believes.
LEMMA OwnStepHolds ==
    ASSUME TypeInv, NEW j \in Jobs, TargetHeld(j), Start(j) \/ RunStep(j)
    PROVE  TargetHeld(j)'
<1>0. /\ pc \in [Jobs -> Pc] /\ dir \in [Jobs -> MaybeDir] /\ call \in [Jobs -> CallState]
      /\ BeliefHolds(j)
  BY DEF TypeInv, TypeOK, MountTypeOK, TargetHeld, Jobs
<1>1. CASE Start(j) \/ Lookup(j) \/ BeginStep(j) \/ EndStep(j) \/ SkipStep(j) \/ SendMail(j)
           \/ Finish(j)
  <2>1. /\ UNCHANGED <<mounts, latest, call>>
        /\ \/ pc'[j] \in {"lookup", "probe", "done", "release", "idle"}
           \/ pc'[j] \in {"step", "writing"} /\ pc[j] \in {"step", "writing"} /\ dir'[j] = dir[j]
    BY <1>0, <1>1 DEF Start, Lookup, BeginStep, EndStep, SkipStep, SendMail, Finish, Goto, kernel
  <2>2. BeliefHolds(j)'
    BY <1>0, <2>1 DEF BeliefHolds
  <2>3. QED
    BY <2>1, <2>2, QuietStep
<1>2. CASE Probe(j)
  <2>1. UNCHANGED <<mounts, latest, dir>>
    BY <1>2 DEF Probe, kernel
  <2>2. CASE mounts[Part[j]] # {}
    <3>1. pc'[j] = "getDir"
      BY <1>0, <1>2, <2>2 DEF Probe, IsMounted, Goto
    <3>2. QED
      BY <2>1, <2>2, <3>1, QuietStep DEF BeliefHolds
  <2>3. CASE mounts[Part[j]] = {}
    <3>1. pc' = [pc EXCEPT ![j] = "mounting"] /\ (Enter(j, "open") \/ Enter(j, "mount"))
      BY <1>2, <2>3 DEF Probe, IsMounted, Goto, MountPartition
    <3>2. call'[j].at \in {"open", "mount"} /\ pc'[j] = "mounting"
      BY <1>0, <3>1, EnterCall DEF CallAt, Jobs
    <3>3. BeliefHolds(j)'
      BY <2>1, <2>3, <3>2 DEF BeliefHolds
    <3>4. QED
      BY <2>1, <3>3, QuietStep
  <2>4. QED
    BY <2>2, <2>3
<1>3. CASE GetDir(j)
  <2>1. /\ UNCHANGED <<mounts, latest>>
        /\ pc[j] = "getDir" /\ pc'[j] = "step" /\ dir'[j] = latest[Part[j]]
    BY <1>0, <1>3 DEF GetDir, GetMountDir, Goto, kernel
  <2>2. BeliefHolds(j)'
    BY <1>0, <2>1 DEF BeliefHolds
  <2>3. QED
    BY <2>1, <2>2, QuietStep
<1>4. CASE MountReturns(j)
  <2>1. /\ UNCHANGED <<mounts, latest>>
        /\ pc[j] = "mounting" /\ call[j].at = "returned"
        /\ pc'[j] = "recheck" /\ dir'[j] = call[j].ret
    BY <1>0, <1>4 DEF MountReturns, Goto, kernel
  <2>2. BeliefHolds(j)'
    BY <1>0, <2>1 DEF BeliefHolds
  <2>3. QED
    BY <2>1, <2>2, QuietStep
<1>5. CASE Recheck(j)
  <2>1. /\ UNCHANGED <<mounts, latest, dir>> /\ pc[j] = "recheck"
        /\ pc'[j] = IF mounts[Part[j]] # {} THEN "step" ELSE "done"
    BY <1>0, <1>5 DEF Recheck, IsMounted, Goto, kernel
  <2>2. BeliefHolds(j)'
    BY <1>0, <2>1 DEF BeliefHolds
  <2>3. QED
    BY <2>1, <2>2, QuietStep
<1>6. CASE Release(j) \/ UmountReturns(j)
  <2>1. UNCHANGED <<mounts, latest>> /\ pc'[j] \in {"umounting", "done"}
    BY <1>0, <1>6 DEF Release, UmountReturns, UmountPartition, Goto, kernel
  <2>2. QED
    BY <2>1, QuietStep DEF BeliefHolds
<1>7. CASE InCall(j)
  BY <1>7, CallStepHolds
<1>8. QED
  BY <1>1, <1>2, <1>3, <1>4, <1>5, <1>6, <1>7 DEF RunStep

\* Every step of the system keeps what the runs of exclusive jobs believe.
LEMMA HeldStep == TypeInv /\ TargetsHeld /\ [Next]_vars => TargetsHeld'
<1> SUFFICES ASSUME TypeInv, TargetsHeld, [Next]_vars, NEW j \in Jobs, Exclusive(j)
             PROVE  TargetHeld(j)'
  BY DEF TargetsHeld, Exclusive
<1>0. TargetHeld(j) /\ MountTypeOK /\ Part[j] \in Parts
  BY PartAssumption DEF TargetsHeld, TypeInv, TypeOK, Jobs
<1>1. ASSUME NEW i \in Jobs, Start(i) \/ RunStep(i) PROVE TargetHeld(j)'
  BY <1>0, <1>1, OthersKeep, OwnStepHolds
<1>2. ASSUME Environment, UNCHANGED run PROVE TargetHeld(j)'
  <2>1. UNCHANGED <<call, pc, dir>>
    BY <1>2 DEF Environment, PlugIn, PullOut, OsMount, run
  <2>2. UNCHANGED <<mounts, latest>> \/ \E p \in Parts : p # Part[j] /\ AddMount(p, "os")
    BY <1>2 DEF Environment, PlugIn, PullOut, OsMount, Exclusive
  <2>3. mounts'[Part[j]] = mounts[Part[j]] /\ latest'[Part[j]] = latest[Part[j]]
    BY <1>0, <2>2, AddMountTable DEF Dirs
  <2>4. QED
    BY <1>0, <2>1, <2>3, ForeignStep
<1>3. CASE Crash
  <2>1. UNCHANGED <<mounts, latest>> /\ pc'[j] = "idle"
    BY <1>3 DEF Crash, kernel
  <2>2. QED
    BY <1>0, <2>1, QuietStep DEF BeliefHolds
<1>4. CASE UNCHANGED vars
  BY <1>0, <1>4, ForeignStep DEF vars, run, kernel
<1>5. QED
  BY <1>1, <1>2, <1>3, <1>4 DEF Next

\* What the run of an exclusive job believes holds throughout.
LEMMA HeldInvariance == Spec => [](TypeInv /\ TargetsHeld)
<1>1. Init => TargetsHeld
  <2>1. SUFFICES ASSUME Init, NEW j \in Jobs PROVE TargetHeld(j)
    BY DEF TargetsHeld
  <2>2. Part[j] \in Parts
    BY PartAssumption DEF Jobs
  <2>3. mounts[Part[j]] = {} /\ latest[Part[j]] = "" /\ pc[j] = "idle"
    BY <2>1, <2>2 DEF Init, MountInit
  <2>4. QED
    BY <2>3 DEF TargetHeld, OwnOnly, BeliefHolds
<1>2. QED
  BY <1>1, HeldStep, TypeInvariance, PTL DEF Spec

\* Where the run of an exclusive job writes, its partition is mounted.
LEMMA HeldTarget ==
    ASSUME TypeInv, TargetsHeld, NEW j \in Jobs, Exclusive(j), pc[j] \in {"step", "writing"}
    PROVE  dir[j] = "own" /\ mounts[Part[j]] = {"own"}
<1>1. dir[j] = latest[Part[j]] /\ mounts[Part[j]] # {} /\ OwnOnly(Part[j])
  BY DEF TargetsHeld, TargetHeld, BeliefHolds
<1>2. QED
  BY <1>1 DEF OwnOnly

\* Nothing that a job with a partition of its own writes below deviceMountDir misses its
\* backup disk: through any crashes, failing and timed-out programs, whatever disks are
\* plugged in or pulled out, and whatever the jobs on other partitions share.
THEOREM WritesReachTarget == Spec => []WritesOnTarget
<1>1. TypeInv /\ TargetsHeld => WritesOnTarget
  BY HeldTarget DEF WritesOnTarget, OnTarget
<1>2. QED
  BY <1>1, HeldInvariance, PTL

\* Where every job has its partition to itself, a mount that failed ends the run.
THEOREM FailedMountAborts == (\A j \in Jobs : Exclusive(j)) /\ Spec => []MountFailureAborts
<1> SUFFICES ASSUME \A j \in Jobs : Exclusive(j) PROVE Spec => []MountFailureAborts
  OBVIOUS
<1>1. TypeInv /\ TargetsHeld => MountFailureAborts
  BY HeldTarget DEF MountFailureAborts
<1>2. QED
  BY <1>1, HeldInvariance, PTL

-------------------------------------------------------------------------------
\* What a run's result says of its steps, whatever the jobs share.

OutcomeFits(j) ==
    /\ pc[j] \in {"lookup", "probe", "getDir", "mounting", "recheck"} =>
          step[j] = 1 /\ ok[j] = FALSE
    /\ pc[j] \in {"release", "umounting"} => ~StepsLeft(j)
    /\ pc[j] = "done" => (ok[j] = TRUE /\ ~StepsLeft(j)) \/ (ok[j] = FALSE /\ step[j] = 1)

OutcomesFit == \A j \in Jobs : OutcomeFits(j)

\* Every step keeps each run's outcome fitting the steps it has taken.
LEMMA OutcomeStep == TypeInv /\ OutcomesFit /\ [Next]_vars => OutcomesFit'
<1> SUFFICES ASSUME TypeInv, OutcomesFit, [Next]_vars, NEW i \in Jobs
             PROVE  OutcomeFits(i)'
  BY DEF OutcomesFit
<1>0. /\ pc \in [Jobs -> Pc] /\ step \in [Jobs -> Nat] /\ ok \in [Jobs -> BOOLEAN]
      /\ OutcomeFits(i)
  BY DEF TypeInv, TypeOK, OutcomesFit
<1>1. CASE \E j \in Jobs : j # i /\ (Start(j) \/ RunStep(j))
  <2>1. pc'[i] = pc[i] /\ step'[i] = step[i] /\ ok'[i] = ok[i]
    BY <1>0, <1>1 DEF Start, RunStep, Lookup, Probe, GetDir, MountReturns, Recheck, BeginStep,
       EndStep, SkipStep, SendMail, Release, UmountReturns, InCall, Finish, Goto, run
  <2>2. QED
    BY <1>0, <2>1 DEF OutcomeFits, StepsLeft
<1>2. CASE Start(i) \/ Finish(i)
  <2>1. pc'[i] \in {"lookup", "idle"} /\ (pc'[i] = "lookup" => step'[i] = 1 /\ ok'[i] = FALSE)
    BY <1>0, <1>2 DEF Start, Finish, Goto
  <2>2. QED
    BY <2>1 DEF OutcomeFits
<1>3. CASE Lookup(i) \/ Probe(i) \/ GetDir(i) \/ MountReturns(i) \/ Recheck(i)
  <2>1. /\ pc[i] \in {"lookup", "probe", "getDir", "mounting", "recheck"}
        /\ pc'[i] \in {"probe", "getDir", "mounting", "recheck", "step", "done"}
        /\ step'[i] = step[i] /\ ok'[i] = ok[i]
    BY <1>0, <1>3 DEF Lookup, Probe, GetDir, MountReturns, Recheck, Goto
  <2>2. QED
    BY <1>0, <2>1 DEF OutcomeFits
<1>4. CASE BeginStep(i) \/ EndStep(i) \/ SkipStep(i)
  <2>1. pc'[i] \in {"step", "writing"}
    BY <1>0, <1>4 DEF BeginStep, EndStep, SkipStep, Goto
  <2>2. QED
    BY <2>1 DEF OutcomeFits
<1>5. CASE SendMail(i)
  <2>1. pc'[i] = "release" /\ step' = step /\ ~StepsLeft(i)
    BY <1>0, <1>5 DEF SendMail, Goto
  <2>2. QED
    BY <2>1 DEF OutcomeFits, StepsLeft
<1>6. CASE Release(i) \/ UmountReturns(i)
  <2>1. /\ pc[i] \in {"release", "umounting"} /\ step' = step
        /\ pc'[i] = "umounting" \/ (pc'[i] = "done" /\ ok'[i] = TRUE)
    BY <1>0, <1>6 DEF Release, UmountReturns, Goto
  <2>2. QED
    BY <1>0, <2>1 DEF OutcomeFits, StepsLeft
<1>7. CASE InCall(i) \/ (Environment /\ UNCHANGED run) \/ UNCHANGED vars
  BY <1>0, <1>7 DEF InCall, run, vars, OutcomeFits, StepsLeft
<1>8. CASE Crash
  BY <1>0, <1>8 DEF Crash, OutcomeFits
<1>9. QED
  BY <1>1, <1>2, <1>3, <1>4, <1>5, <1>6, <1>7, <1>8 DEF Next, RunStep

\* A run that returns false has written nothing, one that returns true has given
\* every step its turn.
THEOREM OutcomeIsHonest == Spec => []HonestOutcome
<1>1. Init => OutcomesFit
  BY DEF Init, OutcomesFit, OutcomeFits
<1>2. OutcomesFit => HonestOutcome
  BY DEF OutcomesFit, OutcomeFits, HonestOutcome
<1>3. QED
  BY <1>1, <1>2, OutcomeStep, TypeInvariance, PTL DEF Spec

-------------------------------------------------------------------------------
\* umountPartition's true, for any number of runs on the partition and with an
\* operating system that mounts it too.

\* The step that makes a call return "released".
LEMMA ReleasedStep ==
    ASSUME TypeInv, [Next]_vars, NEW j \in Jobs, ~Released(j), Released(j)'
    PROVE  mounts'[Part[j]] = {} /\ Part[j] \notin mapper'
<1>0. call \in [Jobs -> CallState] /\ MountTypeOK /\ CallFits(j) /\ Part[j] \in Parts
  BY PartAssumption DEF TypeInv, TypeOK, MountTypeOK, CallMatchesPc, Jobs
<1>1. call' # call
  BY DEF Released
<1>2. PICK i \in Jobs : Start(i) \/ RunStep(i)
  <2>1. ~(Environment /\ UNCHANGED run)
    BY <1>1 DEF Environment, PlugIn, PullOut, OsMount
  <2>2. ~Crash
    BY NoCallType DEF Crash, Released, NoCall
  <2>3. QED
    BY <1>1, <2>1, <2>2 DEF Next, vars
<1>3. CASE Start(i) \/ Lookup(i) \/ GetDir(i) \/ Recheck(i) \/ BeginStep(i) \/ EndStep(i)
           \/ SkipStep(i) \/ SendMail(i) \/ Finish(i)
  BY <1>1, <1>3 DEF Start, Lookup, GetDir, Recheck, BeginStep, EndStep, SkipStep, SendMail, Finish
<1>4. CASE Probe(i) \/ Release(i)
  <2>1. UNCHANGED call \/ MountPartition(i) \/ UmountPartition(i)
    BY <1>4 DEF Probe, Release
  <2>2. call'[i].at # "returned" /\ \A k \in Jobs : k # i => call'[k] = call[k]
    BY <1>0, <1>1, <2>1, EnterCall DEF MountPartition, UmountPartition, Enter, CallAt, Jobs, CallState
  <2>3. QED
    BY <2>2 DEF Released
<1>5. CASE MountReturns(i) \/ UmountReturns(i)
  <2>1. call'[i].at = "none" /\ \A k \in Jobs : k # i => call'[k] = call[k]
    BY <1>0, <1>5, NoCallType DEF MountReturns, UmountReturns
  <2>2. QED
    BY <2>1 DEF Released
<1>6. CASE InCall(i)
  <2>0. i \in Callers /\ call \in [Callers -> CallState]
    BY <1>0 DEF Jobs
  <2>1. CASE LuksOpen(i) \/ MountDevice(i) \/ VerifyMount(i) \/ UmountDevice(i, InUse(Part[i], call[i].dir))
    <3>1. \/ \E at \in {"mount", "verify", "check"} : Enter(i, at)
          \/ \E ret \in {"", "own", "held"} : Return(i, ret)
      BY <2>1 DEF LuksOpen, MountDevice, VerifyMount, UmountDevice
    <3>2. /\ call'[i].at # "returned" \/ call'[i].ret \in {"", "own", "held"}
          /\ \A k \in Callers : k # i => call'[k] = call[k]
      BY <2>0, <3>1, EnterCall, ReturnCall DEF CallAt, CallRet, MaybeDir, Dirs
    <3>3. QED
      BY <3>2 DEF Released, Jobs
  <2>2. CASE CheckUmount(i)
    <3>1. CASE Enter(i, "close") \/ Return(i, "held")
      <4>1. /\ call'[i].at # "returned" \/ call'[i].ret = "held"
            /\ \A k \in Callers : k # i => call'[k] = call[k]
        BY <2>0, <3>1, EnterCall, ReturnCall DEF CallAt, CallRet
      <4>2. QED
        BY <4>1 DEF Released, Jobs
    <3>2. CASE /\ mounts[Part[i]] = {} /\ Part[i] \notin LuksParts /\ Return(i, "released")
               /\ UNCHANGED kernel
      <4>1. i = j
        BY <2>0, <3>2, ReturnCall DEF Released, CallRet, Jobs
      <4>2. mounts'[Part[j]] = {} /\ Part[j] \notin mapper'
        BY <1>0, <3>2, <4>1 DEF kernel, MountTypeOK
      <4>3. QED
        BY <4>2
    <3>3. QED
      BY <2>2, <3>1, <3>2 DEF CheckUmount, IsMounted
  <2>3. CASE LuksClose(i)
    <3>1. CASE Return(i, "held")
      <4>1. call'[i].ret = "held" /\ \A k \in Callers : k # i => call'[k] = call[k]
        BY <2>0, <3>1, ReturnCall DEF CallRet
      <4>2. QED
        BY <4>1 DEF Released, Jobs
    <3>2. CASE /\ mounts[Part[i]] = {} /\ Return(i, "released")
               /\ mapper' = mapper \ {Part[i]} /\ UNCHANGED mounts
      <4>1. i = j
        BY <2>0, <3>2, ReturnCall DEF Released, CallRet, Jobs
      <4>2. QED
        BY <3>2, <4>1
    <3>3. QED
      BY <2>3, <3>1, <3>2 DEF LuksClose, IsMounted
  <2>4. QED
    BY <1>6, <2>1, <2>2, <2>3 DEF InCall, CallStep
<1>7. QED
  BY <1>2, <1>3, <1>4, <1>5, <1>6 DEF RunStep

\* When umountPartition returns true the partition is not mounted anywhere and its
\* LUKS mapping is closed.
THEOREM ReleaseMeansFree == Spec => ReleaseIsReal
<1>1. TypeInv /\ [Next]_vars
        => [\A j \in Jobs : ~Released(j) /\ Released(j)' =>
               mounts'[Part[j]] = {} /\ Part[j] \notin mapper']_vars
  BY ReleasedStep
<1>2. QED
  BY <1>1, TypeInvariance, PTL DEF Spec, ReleaseIsReal

-------------------------------------------------------------------------------
\* How far a run has come in its plan: never past the end, and a step that is being run is
\* one of the plan.

StepFits(j) ==
    /\ step[j] \in 1..(Len(Plan[j]) + 1)
    /\ pc[j] = "writing" => StepsLeft(j)

StepsFit == \A j \in Jobs : StepFits(j)

\* The length of a plan is a number.
LEMMA PlanLength == \A j \in Jobs : Len(Plan[j]) \in Nat
<1>1. \A j \in Jobs : Plan[j] \in Seq(StepKind)
  BY PlanAssumption
<1> HIDE DEF StepKind
<1>2. QED
  BY <1>1

\* A run moves itself only.
LEMMA OthersStay ==
    ASSUME TypeInv, NEW i \in Jobs, NEW j \in Jobs, i # j, Start(i) \/ RunStep(i)
    PROVE  /\ pc'[j] = pc[j] /\ dir'[j] = dir[j] /\ step'[j] = step[j] /\ ok'[j] = ok[j]
           /\ call'[j] = call[j]
<1>0. /\ pc \in [Jobs -> Pc] /\ dir \in [Jobs -> MaybeDir] /\ step \in [Jobs -> Nat] /\ ok \in [Jobs -> BOOLEAN]
      /\ call \in [Jobs -> CallState]
  BY DEF TypeInv, TypeOK, MountTypeOK, Jobs
<1>1. pc'[j] = pc[j] /\ dir'[j] = dir[j] /\ step'[j] = step[j] /\ ok'[j] = ok[j]
  BY <1>0 DEF Start, RunStep, Lookup, Probe, GetDir, MountReturns, Recheck, BeginStep,
     EndStep, SkipStep, SendMail, Release, UmountReturns, InCall, Finish, Goto, run
<1>2. CASE Start(i) \/ Lookup(i) \/ Probe(i) \/ GetDir(i) \/ MountReturns(i) \/ Recheck(i)
           \/ BeginStep(i) \/ EndStep(i) \/ SkipStep(i) \/ SendMail(i) \/ Release(i)
           \/ UmountReturns(i) \/ Finish(i)
  <2>1. call'[j] = call[j]
    BY <1>0, <1>2 DEF Start, Lookup, Probe, GetDir, MountReturns, Recheck, BeginStep, EndStep,
       SkipStep, SendMail, Release, UmountReturns, Finish, MountPartition, UmountPartition, Enter
  <2>2. QED
    BY <1>1, <2>1
<1>3. CASE InCall(i)
  <2>1. call'[j] = call[j]
    BY <1>0, <1>3 DEF InCall, CallStep, LuksOpen, MountDevice, VerifyMount, UmountDevice,
                      CheckUmount, LuksClose, Enter, Return
  <2>2. QED
    BY <1>1, <2>1
<1>4. QED
  BY <1>2, <1>3 DEF RunStep

\* Every step keeps each run within its plan.
LEMMA StepsStep == TypeInv /\ StepsFit /\ [Next]_vars => StepsFit'
<1> SUFFICES ASSUME TypeInv, StepsFit, [Next]_vars, NEW j \in Jobs
             PROVE  StepFits(j)'
  BY DEF StepsFit
<1>0. /\ pc \in [Jobs -> Pc] /\ step \in [Jobs -> Nat] /\ Len(Plan[j]) \in Nat
      /\ StepFits(j)
  BY PlanLength DEF TypeInv, TypeOK, StepsFit
<1>1. CASE \E i \in Jobs : i # j /\ (Start(i) \/ RunStep(i))
  <2>1. pc'[j] = pc[j] /\ step'[j] = step[j]
    BY <1>1, OthersStay
  <2>2. QED
    BY <1>0, <2>1 DEF StepFits, StepsLeft
<1>2. CASE Start(j)
  <2>1. pc'[j] = "lookup" /\ step'[j] = 1
    BY <1>0, <1>2 DEF Start, Goto
  <2>2. QED
    BY <1>0, <2>1 DEF StepFits
<1>3. CASE BeginStep(j)
  <2>1. StepsLeft(j) /\ step' = step
    BY <1>3 DEF BeginStep
  <2>2. QED
    BY <1>0, <2>1 DEF StepFits, StepsLeft
<1>4. CASE EndStep(j) \/ SkipStep(j)
  <2>1. StepsLeft(j) /\ step'[j] = step[j] + 1 /\ pc'[j] = "step"
    BY <1>0, <1>4 DEF EndStep, SkipStep, StepFits, Goto
  <2>2. QED
    BY <1>0, <2>1 DEF StepFits, StepsLeft
<1>5. CASE \/ Lookup(j) \/ Probe(j) \/ GetDir(j) \/ MountReturns(j) \/ Recheck(j) \/ SendMail(j)
           \/ Release(j) \/ UmountReturns(j) \/ Finish(j)
  <2>1. step' = step /\ pc'[j] # "writing"
    BY <1>0, <1>5 DEF Lookup, Probe, GetDir, MountReturns, Recheck, SendMail, Release,
                      UmountReturns, Finish, Goto
  <2>2. QED
    BY <1>0, <2>1 DEF StepFits
<1>6. CASE InCall(j) \/ (Environment /\ UNCHANGED run) \/ UNCHANGED vars
  BY <1>0, <1>6 DEF InCall, run, vars, StepFits, StepsLeft
<1>7. CASE Crash
  BY <1>0, <1>7 DEF Crash, StepFits
<1>8. QED
  BY <1>1, <1>2, <1>3, <1>4, <1>5, <1>6, <1>7 DEF Next, RunStep

RunInv == TypeInv /\ OutcomesFit /\ StepsFit

\* Types, outcomes and places in the plan hold together throughout.
LEMMA RunInvariance == Spec => []RunInv
<1>1. ASSUME Init PROVE OutcomesFit /\ StepsFit
  <2>1. \A j \in Jobs : pc[j] = "idle" /\ step[j] = 1
    BY <1>1 DEF Init
  <2>2. \A j \in Jobs : step[j] \in 1..(Len(Plan[j]) + 1)
    BY <2>1, PlanLength
  <2>3. QED
    BY <2>1, <2>2 DEF OutcomesFit, OutcomeFits, StepsFit, StepFits
<1>2. QED
  BY <1>1, OutcomeStep, StepsStep, TypeInvariance, PTL DEF Spec, RunInv

-------------------------------------------------------------------------------
\* What is left of a run.

\* What is left of a run that stands at a known point.
LEMMA LeftAt ==
    ASSUME NEW j \in Jobs
    PROVE  /\ pc[j] = "idle" => Left(j) = 0
           /\ pc[j] = "done" => Left(j) = 1
           /\ pc[j] = "umounting" => Left(j) = 2 + CallLeft(j)
           /\ pc[j] = "release" => Left(j) = 6
           /\ pc[j] = "writing" => Left(j) = 6 + StepsToGo(j)
           /\ pc[j] = "step" => Left(j) = 7 + StepsToGo(j)
           /\ pc[j] \in {"getDir", "recheck"} => Left(j) = 8 + StepsToGo(j)
           /\ pc[j] = "mounting" => Left(j) = 9 + StepsToGo(j) + CallLeft(j)
           /\ pc[j] = "probe" => Left(j) = 13 + StepsToGo(j)
           /\ pc[j] = "lookup" => Left(j) = 14 + StepsToGo(j)
BY DEF Left

\* The same, after a step.
LEMMA LeftAfter ==
    ASSUME NEW j \in Jobs
    PROVE  /\ pc'[j] = "idle" => Left(j)' = 0
           /\ pc'[j] = "done" => Left(j)' = 1
           /\ pc'[j] = "umounting" => Left(j)' = 2 + CallLeft(j)'
           /\ pc'[j] = "release" => Left(j)' = 6
           /\ pc'[j] = "writing" => Left(j)' = 6 + StepsToGo(j)'
           /\ pc'[j] = "step" => Left(j)' = 7 + StepsToGo(j)'
           /\ pc'[j] \in {"getDir", "recheck"} => Left(j)' = 8 + StepsToGo(j)'
           /\ pc'[j] = "mounting" => Left(j)' = 9 + StepsToGo(j)' + CallLeft(j)'
           /\ pc'[j] = "probe" => Left(j)' = 13 + StepsToGo(j)'
           /\ pc'[j] = "lookup" => Left(j)' = 14 + StepsToGo(j)'
BY DEF Left

\* What is left is a number, so that it cannot go down for ever, and a run that starts has
\* no more of it than its plan calls for.
LEMMA LeftIsNumber ==
    ASSUME RunInv, NEW j \in Jobs
    PROVE  Left(j) \in Nat /\ Left(j) <= 14 + 2 * Len(Plan[j])
<1>1. pc[j] \in Pc /\ step[j] \in 1..(Len(Plan[j]) + 1) /\ Len(Plan[j]) \in Nat
  BY PlanLength DEF RunInv, TypeInv, TypeOK, StepsFit, StepFits
<1>2. CallLeft(j) \in 0..3
  BY DEF CallLeft
<1>3. StepsToGo(j) \in Nat /\ StepsToGo(j) <= 2 * Len(Plan[j])
  BY <1>1 DEF StepsToGo
<1>4. \/ Left(j) \in {0, 1, 6} \/ Left(j) = 2 + CallLeft(j)
      \/ Left(j) = 9 + StepsToGo(j) + CallLeft(j)
      \/ \E n \in {6, 7, 8, 13, 14} : Left(j) = n + StepsToGo(j)
  <2>1. pc[j] \in Pc
    BY <1>1
  <2>2. QED
    BY <2>1, LeftAt DEF Pc
<1>5. 2 * Len(Plan[j]) \in Nat
  BY <1>1
<1>6. QED
  BY <1>2, <1>3, <1>4, <1>5

\* How far a call is from its return.
LEMMA CallLeftAt ==
    ASSUME NEW at, NEW j \in Jobs
    PROVE  /\ call[j].at = at =>
                 CallLeft(j) = IF at \in {"open", "umount"} THEN 3
                               ELSE IF at \in {"mount", "check"} THEN 2
                               ELSE IF at \in {"verify", "close"} THEN 1 ELSE 0
           /\ call'[j].at = at =>
                 CallLeft(j)' = IF at \in {"open", "umount"} THEN 3
                                ELSE IF at \in {"mount", "check"} THEN 2
                                ELSE IF at \in {"verify", "close"} THEN 1 ELSE 0
BY DEF CallLeft

\* A step of a call brings its return nearer: nothing in mountPartition and umountPartition
\* is tried twice.
LEMMA CallAdvances ==
    ASSUME TypeInv, NEW j \in Jobs, InCall(j)
    PROVE  CallLeft(j)' < CallLeft(j) /\ CallLeft(j)' \in Nat /\ CallLeft(j) \in Nat
<1>0. call \in [Callers -> CallState] /\ j \in Callers
  BY DEF TypeInv, TypeOK, MountTypeOK, Jobs
<1>1. CASE LuksOpen(j)
  <2>1. call[j].at = "open" /\ (Enter(j, "mount") \/ Return(j, ""))
    BY <1>1 DEF LuksOpen
  <2>2. call'[j].at \in {"mount", "returned"}
    BY <1>0, <2>1, EnterCall, ReturnCall DEF CallAt, CallRet, MaybeDir
  <2>3. CallLeft(j) = 3 /\ CallLeft(j)' \in {2, 0}
    BY <2>1, <2>2, CallLeftAt
  <2>4. QED
    BY <2>3
<1>2. CASE MountDevice(j)
  <2>1. call[j].at = "mount" /\ (Enter(j, "verify") \/ Return(j, ""))
    BY <1>2 DEF MountDevice
  <2>2. call'[j].at \in {"verify", "returned"}
    BY <1>0, <2>1, EnterCall, ReturnCall DEF CallAt, CallRet, MaybeDir
  <2>3. CallLeft(j) = 2 /\ CallLeft(j)' \in {1, 0}
    BY <2>1, <2>2, CallLeftAt
  <2>4. QED
    BY <2>3
<1>3. CASE VerifyMount(j)
  <2>1. call[j].at = "verify" /\ (Return(j, "own") \/ Return(j, ""))
    BY <1>3 DEF VerifyMount
  <2>2. call'[j].at = "returned"
    BY <1>0, <2>1, ReturnCall DEF CallRet, MaybeDir, Dirs
  <2>3. CallLeft(j) = 1 /\ CallLeft(j)' \in {0}
    BY <2>1, <2>2, CallLeftAt
  <2>4. QED
    BY <2>3
<1>4. CASE UmountDevice(j, InUse(Part[j], call[j].dir))
  <2>1. call[j].at = "umount" /\ (Enter(j, "check") \/ Return(j, "held"))
    BY <1>4 DEF UmountDevice
  <2>2. call'[j].at \in {"check", "returned"}
    BY <1>0, <2>1, EnterCall, ReturnCall DEF CallAt, CallRet
  <2>3. CallLeft(j) = 3 /\ CallLeft(j)' \in {2, 0}
    BY <2>1, <2>2, CallLeftAt
  <2>4. QED
    BY <2>3
<1>5. CASE CheckUmount(j)
  <2>1. /\ call[j].at = "check"
        /\ Enter(j, "close") \/ Return(j, "held") \/ Return(j, "released")
    BY <1>5 DEF CheckUmount
  <2>2. call'[j].at \in {"close", "returned"}
    BY <1>0, <2>1, EnterCall, ReturnCall DEF CallAt, CallRet
  <2>3. CallLeft(j) = 2 /\ CallLeft(j)' \in {1, 0}
    BY <2>1, <2>2, CallLeftAt
  <2>4. QED
    BY <2>3
<1>6. CASE LuksClose(j)
  <2>1. call[j].at = "close" /\ (Return(j, "held") \/ Return(j, "released"))
    BY <1>6 DEF LuksClose
  <2>2. call'[j].at = "returned"
    BY <1>0, <2>1, ReturnCall DEF CallRet
  <2>3. CallLeft(j) = 1 /\ CallLeft(j)' \in {0}
    BY <2>1, <2>2, CallLeftAt
  <2>4. QED
    BY <2>3
<1>7. QED
  BY <1>1, <1>2, <1>3, <1>4, <1>5, <1>6 DEF InCall, CallStep

\* A run's own step leaves less of it.
LEMMA OwnStepAdvances ==
    ASSUME RunInv, NEW j \in Jobs, RunStep(j)
    PROVE  Left(j)' < Left(j) /\ Left(j)' <= Left(j)
<1>0. /\ TypeInv /\ pc \in [Jobs -> Pc] /\ step \in [Jobs -> Nat] /\ CallFits(j)
      /\ call \in [Jobs -> CallState]
      /\ step[j] \in 1..(Len(Plan[j]) + 1) /\ Len(Plan[j]) \in Nat
      /\ pc[j] = "writing" => step[j] <= Len(Plan[j])
  BY PlanLength
     DEF RunInv, TypeInv, TypeOK, MountTypeOK, CallMatchesPc, StepsFit, StepFits, StepsLeft, Jobs
<1>1. StepsToGo(j) \in Nat /\ CallLeft(j) \in 0..3
  BY <1>0 DEF StepsToGo, CallLeft
<1>2. CASE Lookup(j) \/ Recheck(j) \/ GetDir(j)
  <2>1. /\ step' = step
        /\ \/ pc[j] = "lookup" /\ pc'[j] \in {"probe", "done"}
           \/ pc[j] = "recheck" /\ pc'[j] \in {"step", "done"}
           \/ pc[j] = "getDir" /\ pc'[j] = "step"
    BY <1>0, <1>2 DEF Lookup, Recheck, GetDir, Goto
  <2>2. StepsToGo(j)' = StepsToGo(j)
    BY <2>1 DEF StepsToGo
  <2>3. QED
    BY <1>1, <2>1, <2>2, LeftAt, LeftAfter
<1>3. CASE Probe(j)
  <2>1. StepsToGo(j)' = StepsToGo(j) /\ pc[j] = "probe"
    BY <1>3 DEF Probe, StepsToGo
  <2>2. CASE pc'[j] = "getDir"
    BY <1>1, <2>1, <2>2, LeftAt, LeftAfter
  <2>3. CASE pc'[j] = "mounting"
    <3>1. CallLeft(j)' \in 0..3
      BY DEF CallLeft
    <3>2. QED
      BY <1>1, <2>1, <2>3, <3>1, LeftAt, LeftAfter
  <2>4. QED
    BY <1>0, <1>3, <2>2, <2>3 DEF Probe, Goto
<1>4. CASE MountReturns(j)
  <2>1. pc[j] = "mounting" /\ pc'[j] = "recheck" /\ StepsToGo(j)' = StepsToGo(j)
    BY <1>0, <1>4 DEF MountReturns, Goto, StepsToGo
  <2>2. QED
    BY <1>1, <2>1, LeftAt, LeftAfter
<1>5. CASE BeginStep(j)
  <2>1. pc[j] = "step" /\ pc'[j] = "writing" /\ StepsToGo(j)' = StepsToGo(j)
    BY <1>0, <1>5 DEF BeginStep, Goto, StepsToGo
  <2>2. QED
    BY <1>1, <2>1, LeftAt, LeftAfter
<1>6. CASE EndStep(j) \/ SkipStep(j)
  <2>1. pc[j] \in {"step", "writing"} /\ pc'[j] = "step" /\ step'[j] = step[j] + 1
    BY <1>0, <1>6 DEF EndStep, SkipStep, Goto
  <2>2. StepsToGo(j)' = StepsToGo(j) - 2
    <3>1. \A n, k \in Nat : 2 * ((n + 1) - (k + 1)) = 2 * ((n + 1) - k) - 2
      OBVIOUS
    <3>2. step[j] \in Nat
      BY <1>0
    <3>3. StepsToGo(j)' = 2 * ((Len(Plan[j]) + 1) - (step[j] + 1))
      BY <2>1 DEF StepsToGo
    <3>4. QED
      BY <1>0, <3>1, <3>2, <3>3 DEF StepsToGo
  <2>3. Left(j)' = 5 + StepsToGo(j)
    BY <1>1, <2>1, <2>2, LeftAfter
  <2>4. Left(j) = 6 + StepsToGo(j) \/ Left(j) = 7 + StepsToGo(j)
    BY <2>1, LeftAt
  <2>5. QED
    BY <1>1, <2>3, <2>4
<1>7. CASE SendMail(j)
  <2>1. pc[j] = "step" /\ pc'[j] = "release"
    BY <1>0, <1>7 DEF SendMail, Goto
  <2>2. QED
    BY <1>1, <2>1, LeftAt, LeftAfter
<1>8. CASE Release(j)
  <2>1. pc[j] = "release"
    BY <1>8 DEF Release
  <2>2. CASE pc'[j] = "done"
    BY <2>1, <2>2, LeftAt, LeftAfter
  <2>3. CASE pc'[j] = "umounting"
    <3>1. CallLeft(j)' \in 0..3
      BY DEF CallLeft
    <3>2. QED
      BY <2>1, <2>3, <3>1, LeftAt, LeftAfter
  <2>4. QED
    BY <1>0, <1>8, <2>2, <2>3 DEF Release, Goto
<1>9. CASE UmountReturns(j)
  <2>1. pc[j] = "umounting" /\ pc'[j] = "done"
    BY <1>0, <1>9 DEF UmountReturns, Goto
  <2>2. QED
    BY <1>1, <2>1, LeftAt, LeftAfter
<1>10. CASE InCall(j)
  <2>1. pc[j] \in {"mounting", "umounting"} /\ pc' = pc /\ StepsToGo(j)' = StepsToGo(j)
    BY <1>10 DEF InCall, run, StepsToGo
  <2>2. CallLeft(j)' < CallLeft(j) /\ CallLeft(j)' \in Nat
    BY <1>0, <1>10, CallAdvances
  <2>3. QED
    BY <1>1, <2>1, <2>2, LeftAt, LeftAfter
<1>11. CASE Finish(j)
  <2>1. pc[j] = "done" /\ pc'[j] = "idle"
    BY <1>0, <1>11 DEF Finish, Goto
  <2>2. QED
    BY <2>1, LeftAt, LeftAfter
<1>12. QED
  BY <1>2, <1>3, <1>4, <1>5, <1>6, <1>7, <1>8, <1>9, <1>10, <1>11 DEF RunStep

\* Whatever else happens moves the end of a run away only by starting the run.
LEMMA NothingPutsOff ==
    ASSUME RunInv, [Next]_vars, NEW j \in Jobs, ~Start(j)
    PROVE  Left(j)' <= Left(j)
<1>0. Left(j) \in Nat /\ TypeInv
  BY LeftIsNumber DEF RunInv
<1>1. CASE pc'[j] = pc[j] /\ step'[j] = step[j] /\ call'[j] = call[j]
  <2>1. Left(j)' = Left(j)
    BY <1>1 DEF Left, CallLeft, StepsToGo
  <2>2. QED
    BY <1>0, <2>1
<1>2. CASE RunStep(j)
  BY <1>2, OwnStepAdvances
<1>3. CASE Crash
  <2>1. pc'[j] = "idle"
    BY <1>3 DEF Crash
  <2>2. QED
    BY <1>0, <2>1, LeftAfter
<1>4. CASE \E i \in Jobs : i # j /\ (Start(i) \/ RunStep(i))
  BY <1>0, <1>1, <1>4, OthersStay
<1>5. CASE (Environment /\ UNCHANGED run) \/ UNCHANGED vars
  BY <1>1, <1>5 DEF Environment, PlugIn, PullOut, OsMount, run, vars
<1>6. QED
  BY <1>2, <1>3, <1>4, <1>5 DEF Next

\* Whatever fails or times out in it and whatever the others do, a run is over after at most
\* 14 + 2 * (the number of its steps) steps of its own: each of them lowers what is left, a
\* number, and only a start raises it.
THEOREM RunsAreFinite ==
    Spec => /\ [](\A j \in Jobs : Left(j) \in Nat /\ Left(j) <= 14 + 2 * Len(Plan[j]))
            /\ RunsAdvance
<1>1. RunInv => \A j \in Jobs : Left(j) \in Nat /\ Left(j) <= 14 + 2 * Len(Plan[j])
  BY LeftIsNumber
<1>2. RunInv /\ [Next]_vars
        => [\A j \in Jobs :
               /\ RunStep(j) => Left(j)' < Left(j)
               /\ Start(j) \/ Left(j)' <= Left(j)]_vars
  BY OwnStepAdvances, NothingPutsOff
<1>3. QED
  BY <1>1, <1>2, RunInvariance, PTL DEF Spec, RunsAdvance

-------------------------------------------------------------------------------
\* The run implements RunContract.

States == [j \in Jobs |-> StateOf(j)]
Turns == [j \in Jobs |-> TurnOf(j)]

\* The contract's variables after a step that moves one run at most.
LEMMA ContractMoves ==
    ASSUME NEW j \in Jobs,
           \A i \in Jobs : i # j => StateOf(i)' = StateOf(i) /\ TurnOf(i)' = TurnOf(i)
    PROVE  /\ States' = [States EXCEPT ![j] = StateOf(j)']
           /\ Turns' = [Turns EXCEPT ![j] = TurnOf(j)']
           /\ StateOf(j)' = StateOf(j) => States' = States
           /\ TurnOf(j)' = TurnOf(j) => Turns' = Turns
           /\ States[j] = StateOf(j) /\ Turns[j] = TurnOf(j)
BY DEF States, Turns

\* What a run's own step is to its caller.
LEMMA OwnStepKeeps ==
    ASSUME RunInv, NEW j \in Jobs, Start(j) \/ RunStep(j)
    PROVE  \/ StateOf(j)' = StateOf(j) /\ TurnOf(j)' = TurnOf(j)
           \/ /\ StateOf(j) = "none" /\ StateOf(j)' = "trying"
              /\ TurnOf(j)' = TurnOf(j)
           \/ /\ StateOf(j) = "trying" /\ StateOf(j)' \in {"aborted", "working"}
              /\ TurnOf(j)' = TurnOf(j)
           \/ /\ StateOf(j) = "working" /\ StateOf(j)' = "working"
              /\ TurnOf(j) < Len(Plan[j]) /\ TurnOf(j)' = TurnOf(j) + 1
           \/ /\ StateOf(j) = "working" /\ StateOf(j)' = "completed"
              /\ TurnOf(j) = Len(Plan[j]) /\ TurnOf(j)' = TurnOf(j)
           \/ /\ StateOf(j) \in {"aborted", "completed"} /\ StateOf(j)' = "none"
              /\ TurnOf(j)' = 0
<1>0. /\ pc \in [Jobs -> Pc] /\ step \in [Jobs -> Nat] /\ ok \in [Jobs -> BOOLEAN]
      /\ step[j] \in 1..(Len(Plan[j]) + 1) /\ Len(Plan[j]) \in Nat
      /\ pc[j] = "writing" => StepsLeft(j)
      /\ OutcomeFits(j)
  BY PlanLength DEF RunInv, TypeInv, TypeOK, OutcomesFit, StepsFit, StepFits
<1>1. CASE Start(j)
  <2>1. pc[j] = "idle" /\ pc'[j] = "lookup" /\ step'[j] = 1
    BY <1>0, <1>1 DEF Start, Goto
  <2>2. QED
    BY <2>1 DEF StateOf, TurnOf
<1>2. CASE Lookup(j) \/ Probe(j) \/ GetDir(j) \/ MountReturns(j) \/ Recheck(j)
  <2>1. /\ pc[j] \in {"lookup", "probe", "getDir", "mounting", "recheck"}
        /\ pc'[j] \in {"probe", "getDir", "mounting", "recheck", "step", "done"}
        /\ step'[j] = step[j] /\ ok'[j] = FALSE
    BY <1>0, <1>2 DEF Lookup, Probe, GetDir, MountReturns, Recheck, Goto, OutcomeFits
  <2>2. TurnOf(j)' = TurnOf(j)
    BY <2>1 DEF TurnOf
  <2>3. StateOf(j) = "trying" /\ StateOf(j)' \in {"trying", "working", "aborted"}
    BY <2>1 DEF StateOf
  <2>4. QED
    BY <2>2, <2>3
<1>3. CASE BeginStep(j) \/ SendMail(j)
  <2>1. pc[j] = "step" /\ pc'[j] \in {"writing", "release"} /\ step' = step
    BY <1>0, <1>3 DEF BeginStep, SendMail, Goto
  <2>2. QED
    BY <2>1 DEF StateOf, TurnOf
<1>4. CASE EndStep(j) \/ SkipStep(j)
  <2>1. /\ pc[j] \in {"step", "writing"} /\ pc'[j] = "step"
        /\ step'[j] = step[j] + 1 /\ step[j] <= Len(Plan[j])
    BY <1>0, <1>4 DEF EndStep, SkipStep, Goto, StepsLeft
  <2>2. StateOf(j) = "working" /\ StateOf(j)' = "working"
    BY <2>1 DEF StateOf
  <2>3. TurnOf(j) = step[j] - 1 /\ TurnOf(j)' = step[j]
    BY <1>0, <2>1 DEF TurnOf
  <2>4. QED
    BY <1>0, <2>1, <2>2, <2>3
<1>5. CASE Release(j) \/ UmountReturns(j)
  <2>1. /\ pc[j] \in {"release", "umounting"} /\ step'[j] = step[j] /\ ~StepsLeft(j)
        /\ pc'[j] = "umounting" \/ (pc'[j] = "done" /\ ok'[j] = TRUE)
    BY <1>0, <1>5 DEF Release, UmountReturns, Goto, OutcomeFits
  <2>2. StateOf(j) = "working" /\ StateOf(j)' \in {"working", "completed"}
    BY <2>1 DEF StateOf
  <2>3. TurnOf(j)' = TurnOf(j) /\ TurnOf(j) = Len(Plan[j])
    BY <1>0, <2>1 DEF TurnOf, StepsLeft
  <2>4. QED
    BY <2>2, <2>3
<1>6. CASE InCall(j)
  BY <1>6 DEF InCall, run, StateOf, TurnOf
<1>7. CASE Finish(j)
  <2>1. pc[j] = "done" /\ pc'[j] = "idle"
    BY <1>0, <1>7 DEF Finish, Goto
  <2>2. QED
    BY <2>1 DEF StateOf, TurnOf
<1>8. QED
  BY <1>1, <1>2, <1>3, <1>4, <1>5, <1>6, <1>7 DEF RunStep

\* Every step of the system is one of the contract, or none.
LEMMA ContractStep == RunInv /\ [Next]_vars => [Contract!Next]_Contract!vars
<1> SUFFICES ASSUME RunInv, [Next]_vars
             PROVE  [Contract!Next]_<<States, Turns>>
  BY DEF Contract!vars, States, Turns
<1>1. ASSUME NEW j \in Jobs, Start(j) \/ RunStep(j)
      PROVE  [Contract!Next]_<<States, Turns>>
  <2>1. \A i \in Jobs : i # j => StateOf(i)' = StateOf(i) /\ TurnOf(i)' = TurnOf(i)
    BY <1>1, OthersStay DEF RunInv, StateOf, TurnOf
  <2>2. /\ States' = [States EXCEPT ![j] = StateOf(j)']
        /\ Turns' = [Turns EXCEPT ![j] = TurnOf(j)']
        /\ StateOf(j)' = StateOf(j) => States' = States
        /\ TurnOf(j)' = TurnOf(j) => Turns' = Turns
        /\ States[j] = StateOf(j) /\ Turns[j] = TurnOf(j)
    BY <2>1, ContractMoves
  <2>3. CASE StateOf(j)' = StateOf(j) /\ TurnOf(j)' = TurnOf(j)
    BY <2>2, <2>3
  <2>4. CASE StateOf(j) = "none" /\ StateOf(j)' = "trying" /\ TurnOf(j)' = TurnOf(j)
    <3>1. Contract!Begin(j)
      BY <2>2, <2>4 DEF Contract!Begin, Contract!Become, States, Turns
    <3>2. QED
      BY <3>1 DEF Contract!Next
  <2>5. CASE /\ StateOf(j) = "trying" /\ StateOf(j)' \in {"aborted", "working"}
             /\ TurnOf(j)' = TurnOf(j)
    <3>1. Contract!Abort(j) \/ Contract!Work(j)
      BY <2>2, <2>5 DEF Contract!Abort, Contract!Work, Contract!Become, States, Turns
    <3>2. QED
      BY <3>1 DEF Contract!Next
  <2>6. CASE /\ StateOf(j) = "working" /\ StateOf(j)' = "working"
             /\ TurnOf(j) < Len(Plan[j]) /\ TurnOf(j)' = TurnOf(j) + 1
    <3>1. Contract!Turn(j)
      BY <2>2, <2>6 DEF Contract!Turn, States, Turns
    <3>2. QED
      BY <3>1 DEF Contract!Next
  <2>7. CASE /\ StateOf(j) = "working" /\ StateOf(j)' = "completed"
             /\ TurnOf(j) = Len(Plan[j]) /\ TurnOf(j)' = TurnOf(j)
    <3>1. Contract!Complete(j)
      BY <2>2, <2>7 DEF Contract!Complete, Contract!Become, States, Turns
    <3>2. QED
      BY <3>1 DEF Contract!Next
  <2>8. CASE /\ StateOf(j) \in {"aborted", "completed"} /\ StateOf(j)' = "none"
             /\ TurnOf(j)' = 0
    <3>1. Contract!Report(j)
      BY <2>2, <2>8 DEF Contract!Report, Contract!Become, States, Turns
    <3>2. QED
      BY <3>1 DEF Contract!Next
  <2>9. QED
    BY <1>1, <2>3, <2>4, <2>5, <2>6, <2>7, <2>8, OwnStepKeeps
<1>2. CASE (Environment /\ UNCHANGED run) \/ UNCHANGED vars
  <2>1. UNCHANGED <<pc, step, ok>>
    BY <1>2 DEF run, vars
  <2>2. \A j \in Jobs : StateOf(j)' = StateOf(j) /\ TurnOf(j)' = TurnOf(j)
    BY <2>1 DEF StateOf, TurnOf
  <2>3. QED
    BY <2>2 DEF States, Turns
<1>3. CASE Crash
  <2>1. \A j \in Jobs : StateOf(j)' = "none" /\ TurnOf(j)' = 0
    BY <1>3 DEF Crash, StateOf, TurnOf
  <2>2. Contract!Die
    BY <2>1 DEF Contract!Die
  <2>3. QED
    BY <2>2 DEF Contract!Next
<1>4. QED
  BY <1>1, <1>2, <1>3 DEF Next

\* For any jobs on any partitions and through any failures, time-outs and deaths of the
\* daemon, a run does what its caller is promised.
THEOREM RunImplementsContract == Spec => KeepsContract
<1>1. Init => Contract!Init
  BY DEF Init, Contract!Init, StateOf, TurnOf
<1>2. RunInv /\ [Next]_vars => [Contract!Next]_Contract!vars
  BY ContractStep
<1>3. QED
  BY <1>1, <1>2, RunInvariance, PTL DEF Spec, KeepsContract, Contract!Spec
-------------------------------------------------------------------------------
\* Jobs that share a partition which none of them releases: once it is mounted it stays so,
\* and a run that has a directory has seen it mounted.

\* What a run has seen of the mount table, and that only jobs that say so unmount.
HasSeen(j) ==
    /\ pc[j] = "getDir" => mounts[Part[j]] # {}
    /\ dir[j] # "" => dir[j] = "own" /\ mounts[Part[j]] # {}
    /\ call[j].ret = "own" => mounts[Part[j]] # {}

KeptFits(j) == OwnOnly(Part[j]) /\ HasSeen(j)
KeptsFit == \A j \in Jobs : Kept(Part[j]) => KeptFits(j)
UmountsWanted == \A j \in Jobs : pc[j] = "umounting" => j \in UmountAfterBackup

KeptInv == TypeInv /\ UmountsWanted /\ KeptsFit

\* Only a run of a job with umount_after_backup comes to unmount.
LEMMA WantedStep == TypeInv /\ UmountsWanted /\ [Next]_vars => UmountsWanted'
<1> SUFFICES ASSUME TypeInv, UmountsWanted, [Next]_vars, NEW j \in Jobs, pc'[j] = "umounting"
             PROVE  j \in UmountAfterBackup
  BY DEF UmountsWanted
<1>0. pc \in [Jobs -> Pc]
  BY DEF TypeInv, TypeOK
<1>1. CASE pc[j] = "umounting"
  BY <1>1 DEF UmountsWanted
<1>2. ASSUME pc[j] # "umounting", NEW i \in Jobs, Start(i) \/ RunStep(i)
      PROVE  j \in UmountAfterBackup
  <2>1. CASE Release(i)
    BY <1>0, <1>2, <2>1 DEF Release, Goto
  <2>2. CASE Start(i) \/ Lookup(i) \/ Probe(i) \/ GetDir(i) \/ MountReturns(i) \/ Recheck(i)
             \/ BeginStep(i) \/ EndStep(i) \/ SkipStep(i) \/ SendMail(i) \/ UmountReturns(i)
             \/ InCall(i) \/ Finish(i)
    <3>1. pc'[j] = pc[j] \/ pc'[j] # "umounting"
      BY <1>0, <2>2 DEF Start, Lookup, Probe, GetDir, MountReturns, Recheck, BeginStep, EndStep,
         SkipStep, SendMail, UmountReturns, InCall, Finish, Goto, run
    <3>2. QED
      BY <1>2, <3>1
  <2>3. QED
    BY <1>2, <2>1, <2>2 DEF RunStep
<1>3. CASE Environment /\ UNCHANGED run
  BY <1>1, <1>3 DEF run
<1>4. CASE Crash
  BY <1>4 DEF Crash
<1>5. CASE UNCHANGED vars
  BY <1>1, <1>5 DEF vars, run
<1>6. QED
  BY <1>1, <1>2, <1>3, <1>4, <1>5 DEF Next

\* The row of such a partition: unmounted, or mounted at its own directory from then on.
LEMMA KeptRow ==
    ASSUME TypeInv, UmountsWanted, [Next]_vars, NEW p \in Parts, Kept(p), OwnOnly(p)
    PROVE  OwnOnly(p)' /\ (mounts[p] # {} => mounts'[p] # {})
<1>0. MountTypeOK /\ call \in [Callers -> CallState]
  BY DEF TypeInv, TypeOK, MountTypeOK
<1> DEFINE Moves ==
          \/ UNCHANGED <<mounts, latest>>
          \/ AddMount(p, "own")
          \/ \E q \in Parts :
                q # p /\ (AddMount(q, "os") \/ AddMount(q, "own") \/ \E d : DropMount(q, d))
<1>1. Moves
  <2>1. ASSUME NEW j \in Jobs, InCall(j) PROVE Moves
    <3>1. Part[j] \in Parts
      BY PartAssumption DEF Jobs
    <3>2. CASE UmountDevice(j, InUse(Part[j], call[j].dir))
      <4>1. call[j].at = "umount"
        BY <3>2 DEF UmountDevice
      <4>2. pc[j] = "umounting"
        BY <2>1, <4>1 DEF InCall, TypeInv, CallMatchesPc, CallFits
      <4>3. Part[j] # p
        BY <4>2 DEF UmountsWanted, Kept
      <4>4. UNCHANGED <<mounts, latest>> \/ \E d : DropMount(Part[j], d)
        BY <3>2 DEF UmountDevice
      <4>5. QED
        BY <3>1, <4>3, <4>4
    <3>3. CASE MountDevice(j)
      <4>1. UNCHANGED <<mounts, latest>> \/ AddMount(Part[j], "own")
        BY <3>3 DEF MountDevice
      <4>2. QED
        BY <3>1, <4>1
    <3>4. CASE LuksOpen(j) \/ VerifyMount(j) \/ CheckUmount(j) \/ LuksClose(j)
      BY <3>4 DEF LuksOpen, VerifyMount, CheckUmount, LuksClose, kernel
    <3>5. QED
      BY <2>1, <3>2, <3>3, <3>4 DEF InCall, CallStep
  <2>2. ASSUME NEW j \in Jobs, Start(j) \/ RunStep(j), ~InCall(j)
        PROVE  UNCHANGED <<mounts, latest>>
    BY <2>2 DEF RunStep, Start, Lookup, Probe, GetDir, MountReturns, Recheck, BeginStep, EndStep,
       SkipStep, SendMail, Release, UmountReturns, Finish, kernel
  <2>3. CASE Environment
    BY <2>3 DEF Environment, PlugIn, PullOut, OsMount, Kept
  <2>4. CASE Crash \/ UNCHANGED vars
    BY <2>4 DEF Crash, vars, kernel
  <2>5. QED
    BY <2>1, <2>2, <2>3, <2>4 DEF Next, RunStep
<1>2. CASE UNCHANGED <<mounts, latest>>
  BY <1>2 DEF OwnOnly
<1>3. ASSUME NEW q \in Parts, q # p, AddMount(q, "os") \/ AddMount(q, "own") \/ \E d : DropMount(q, d)
      PROVE  mounts'[p] = mounts[p] /\ latest'[p] = latest[p]
  BY <1>0, <1>3, AddMountTable, DropMountTable DEF Dirs
<1>4. CASE AddMount(p, "own")
  <2>1. mounts'[p] = mounts[p] \cup {"own"} /\ latest'[p] = "own"
    BY <1>0, <1>4, AddMountTable DEF Dirs
  <2>2. mounts'[p] = {"own"}
    BY <2>1 DEF OwnOnly
  <2>3. QED
    BY <2>1, <2>2 DEF OwnOnly
<1>5. QED
  BY <1>1, <1>2, <1>3, <1>4 DEF OwnOnly

\* A run's own steps: it gets a directory only from what it has seen.
LEMMA KeptOwnStep ==
    ASSUME KeptInv, NEW j \in Jobs, Kept(Part[j]), Start(j) \/ RunStep(j),
           mounts[Part[j]] # {} => mounts'[Part[j]] # {}
    PROVE  HasSeen(j)'
<1>0. /\ pc \in [Jobs -> Pc] /\ dir \in [Jobs -> MaybeDir] /\ call \in [Jobs -> CallState]
      /\ OwnOnly(Part[j]) /\ HasSeen(j) /\ CallFits(j)
      /\ pc[j] # "umounting"
  BY DEF KeptInv, KeptsFit, KeptFits, TypeInv, TypeOK, MountTypeOK, Jobs, CallMatchesPc,
         UmountsWanted, Kept
<1>1. CASE Start(j) \/ Lookup(j) \/ Recheck(j) \/ BeginStep(j) \/ EndStep(j) \/ SkipStep(j)
           \/ SendMail(j) \/ Finish(j)
  <2>1. /\ pc'[j] # "getDir" /\ call'[j] = call[j]
        /\ dir'[j] = dir[j] \/ dir'[j] = ""
    BY <1>0, <1>1 DEF Start, Lookup, Recheck, BeginStep, EndStep, SkipStep, SendMail, Finish, Goto
  <2>2. QED
    BY <1>0, <2>1 DEF HasSeen
<1>2. CASE Probe(j) \/ Release(j)
  <2>1. /\ dir' = dir /\ UNCHANGED mounts
        /\ call'[j].ret = call[j].ret
        /\ pc'[j] = "getDir" => mounts[Part[j]] # {}
    BY <1>0, <1>2 DEF Probe, Release, IsMounted, MountPartition, UmountPartition, Enter, Goto,
       kernel, CallState
  <2>2. QED
    BY <1>0, <2>1 DEF HasSeen
<1>3. CASE GetDir(j)
  <2>1. /\ pc'[j] = "step" /\ call' = call /\ UNCHANGED mounts
        /\ dir'[j] = latest[Part[j]] /\ mounts[Part[j]] # {}
    BY <1>0, <1>3 DEF GetDir, GetMountDir, Goto, kernel, HasSeen
  <2>2. QED
    BY <1>0, <2>1 DEF HasSeen, OwnOnly
<1>4. CASE MountReturns(j)
  <2>1. /\ pc'[j] = "recheck" /\ UNCHANGED mounts /\ dir'[j] = call[j].ret
        /\ call'[j].ret = "" /\ call[j].ret \in {"", "own"}
    BY <1>0, <1>4 DEF MountReturns, Goto, kernel, NoCall, CallFits
  <2>2. QED
    BY <1>0, <2>1 DEF HasSeen
<1>5. CASE UmountReturns(j)
  BY <1>0, <1>5 DEF UmountReturns
<1>6. CASE InCall(j)
  <2>1. UNCHANGED <<pc, dir>> /\ pc[j] = "mounting"
    BY <1>0, <1>6 DEF InCall, run
  <2>2. call[j].at \notin {"umount", "check", "close"}
    BY <1>0, <2>1 DEF CallFits
  <2>3. CASE LuksOpen(j) \/ MountDevice(j)
    <3>1. Enter(j, "mount") \/ Enter(j, "verify") \/ Return(j, "")
      BY <2>3 DEF LuksOpen, MountDevice
    <3>2. call'[j].ret = call[j].ret \/ call'[j].ret = ""
      BY <1>0, <3>1, EnterCall, ReturnCall DEF CallAt, CallRet, MaybeDir, Jobs
    <3>3. QED
      BY <1>0, <2>1, <3>2 DEF HasSeen
  <2>4. CASE VerifyMount(j)
    <3>1. UNCHANGED mounts /\ Return(j, IF mounts[Part[j]] # {} THEN "own" ELSE "")
      BY <2>4 DEF VerifyMount, IsMounted, kernel
    <3>2. call'[j].ret = IF mounts[Part[j]] # {} THEN "own" ELSE ""
      BY <1>0, <3>1 DEF Return, CallState
    <3>3. QED
      BY <1>0, <2>1, <3>1, <3>2 DEF HasSeen
  <2>5. CASE UmountDevice(j, InUse(Part[j], call[j].dir)) \/ CheckUmount(j) \/ LuksClose(j)
    BY <2>2, <2>5 DEF UmountDevice, CheckUmount, LuksClose
  <2>6. QED
    BY <1>6, <2>3, <2>4, <2>5 DEF InCall, CallStep
<1>7. QED
  BY <1>1, <1>2, <1>3, <1>4, <1>5, <1>6 DEF RunStep

\* Every step keeps what the runs on such partitions have seen.
LEMMA KeptStep == KeptInv /\ [Next]_vars => KeptsFit'
<1> SUFFICES ASSUME KeptInv, [Next]_vars, NEW j \in Jobs, Kept(Part[j])
             PROVE  KeptFits(j)'
  BY DEF KeptsFit, Kept
<1>0. Part[j] \in Parts /\ OwnOnly(Part[j]) /\ HasSeen(j) /\ TypeInv /\ UmountsWanted
  BY PartAssumption DEF KeptInv, KeptsFit, KeptFits, Jobs
<1>1. OwnOnly(Part[j])' /\ (mounts[Part[j]] # {} => mounts'[Part[j]] # {})
  BY <1>0, KeptRow
<1>2. ASSUME pc'[j] = pc[j] \/ pc'[j] = "idle", dir'[j] = dir[j],
             call'[j] = call[j] \/ call'[j] = NoCall
      PROVE  HasSeen(j)'
  <2>1. NoCall.ret = ""
    BY DEF NoCall
  <2>2. call'[j].ret = call[j].ret \/ call'[j].ret = ""
    BY <1>2, <2>1
  <2>3. QED
    BY <1>0, <1>1, <1>2, <2>2 DEF HasSeen
<1>3. ASSUME NEW i \in Jobs, Start(i) \/ RunStep(i) PROVE HasSeen(j)'
  <2>1. CASE i = j
    BY <1>1, <1>3, <2>1, KeptOwnStep
  <2>2. CASE i # j
    <3>1. pc'[j] = pc[j] /\ call'[j] = call[j] /\ dir'[j] = dir[j]
      BY <1>0, <1>3, <2>2, OthersStay
    <3>2. QED
      BY <1>2, <3>1
  <2>3. QED
    BY <2>1, <2>2
<1>4. ASSUME Environment, UNCHANGED run PROVE HasSeen(j)'
  <2>1. UNCHANGED <<pc, dir, call>>
    BY <1>4 DEF Environment, PlugIn, PullOut, OsMount, run
  <2>2. QED
    BY <1>2, <2>1
<1>5. ASSUME Crash PROVE HasSeen(j)'
  <2>1. pc'[j] = "idle" /\ dir' = dir /\ call'[j] = NoCall
    BY <1>5 DEF Crash
  <2>2. QED
    BY <1>2, <2>1
<1>6. ASSUME UNCHANGED vars PROVE HasSeen(j)'
  <2>1. UNCHANGED <<pc, dir, call>>
    BY <1>6 DEF vars, run
  <2>2. QED
    BY <1>2, <2>1
<1>7. HasSeen(j)'
  BY <1>3, <1>4, <1>5, <1>6 DEF Next
<1>8. QED
  BY <1>1, <1>7 DEF KeptFits

\* Sharing is safe where nobody releases: what is written reaches the disk, through crashes,
\* failing and timed-out programs and any number of jobs that mount it, except by a run
\* whose own mount failed.
THEOREM SharedTargetReached == Spec => []KeptTargetHolds
<1>1. Init => KeptInv
  <2> SUFFICES ASSUME Init PROVE UmountsWanted /\ KeptsFit /\ TypeInv
    BY DEF KeptInv
  <2>1. UmountsWanted
    BY DEF Init, UmountsWanted
  <2>2. ASSUME NEW j \in Jobs PROVE KeptFits(j)
    <3>1. Part[j] \in Parts
      BY PartAssumption DEF Jobs
    <3>2. /\ mounts[Part[j]] = {} /\ latest[Part[j]] = "" /\ pc[j] = "idle" /\ dir[j] = ""
          /\ call[j] = NoCall
      BY <3>1 DEF Init, MountInit, Jobs
    <3>3. NoCall.ret = ""
      BY DEF NoCall
    <3>4. QED
      BY <3>2, <3>3 DEF KeptFits, OwnOnly, HasSeen
  <2>3. QED
    BY <2>1, <2>2, InitTypes DEF KeptsFit
<1>2. KeptInv /\ [Next]_vars => KeptInv'
  BY TypeStep, WantedStep, KeptStep DEF KeptInv
<1>3. KeptInv => KeptTargetHolds
  BY DEF KeptInv, KeptsFit, KeptFits, OwnOnly, HasSeen, KeptTargetHolds, OnTarget
<1>4. QED
  BY <1>1, <1>2, <1>3, PTL DEF Spec
===============================================================================
