---------------------------- MODULE ServerStoreProofs --------------------------
(***************************************************************************)
(* Theorems of ServerStore: with m_mutex taken where the code takes it, the  *)
(* store implements ItemStore for any number of threads, servers and names.  *)
(* The inductive invariant says what the holder of the mutex relies on:      *)
(* nobody else is between removing a file and writing it, and the files a    *)
(* scan has yet to deliver are still those it began with.                    *)
(***************************************************************************)
EXTENDS ServerStore, TLAPS

Held == {"write", "scan", "copyScan"}
Scanning == {"scan", "copyScan"}

\* Who is inside a locked section holds the mutex.
HolderIsInside == \A c \in Callers : call[c].op \in Held <=> mutex = c

\* A file has the base name of its item's uuid; there is none named by a name.
FilesFit ==
    /\ \A u \in Uuids : Exists(u) => files[u].uuid = u
    /\ \A n \in Names : ~Exists(n)

\* Between the removal and the writing of a file there is no file.
GapIsOpen == \A c \in Callers : call[c].op = "write" => ~Exists(call[c].item.uuid)

\* What was read and what is left to read are the files of the directory.
Present == {files[b] : b \in {x \in Bases : Exists(x)}}
ScanIsWhole ==
    (\E c \in Callers : call[c].op \in Scanning) =>
        /\ \A b \in todo : Exists(b)
        /\ Present = items \cup {files[b] : b \in todo}

IInv == TypeOK /\ HolderIsInside /\ FilesFit /\ GapIsOpen /\ ScanIsWhole

-------------------------------------------------------------------------------
\* A step of one caller leaves the calls of the others alone.
LEMMA BecomesOne ==
    ASSUME TypeOK, NEW c \in Callers, NEW n \in Call, Becomes(c, n)
    PROVE  /\ call' \in [Callers -> Call]
           /\ call'[c] = n
           /\ \A d \in Callers \ {c} : call'[d] = call[d]
BY DEF TypeOK, Becomes

\* Nobody else is inside a locked section while a caller is.
LEMMA OneInside ==
    ASSUME IInv, NEW c \in Callers, NEW d \in Callers, call[c].op \in Held, call[d].op \in Held
    PROVE  c = d
BY DEF IInv, HolderIsInside

\* A free mutex: nobody is inside.
LEMMA NobodyInside ==
    ASSUME IInv, mutex = NoCaller, NEW c \in Callers
    PROVE  call[c].op \notin Held
BY StoreAssumption DEF IInv, HolderIsInside

\* The store starts with nobody inside.
LEMMA InitInvariant == Init => IInv
<1> SUFFICES ASSUME Init PROVE IInv
  OBVIOUS
<1>1. \A c \in Callers : call[c].op = "none" /\ mutex # c
  BY StoreAssumption DEF Init, NoCall
<1>2. TypeOK
  BY DEF Init, TypeOK, NoCall, Call
<1>3. HolderIsInside /\ GapIsOpen /\ ScanIsWhole
  BY <1>1 DEF HolderIsInside, GapIsOpen, ScanIsWhole, Held, Scanning
<1>4. FilesFit
  <2>1. \A n \in Names : n \in Bases /\ n \notin Uuids
    BY StoreAssumption DEF Bases
  <2>2. \A b \in Bases : Exists(b) => files[b] \in Item /\ files[b].uuid = b
    BY DEF Init, Exists
  <2>3. QED
    BY <2>1, <2>2 DEF FilesFit, Bases, Item
<1>5. QED
  BY <1>2, <1>3, <1>4 DEF IInv

-------------------------------------------------------------------------------
\* A step that is not inside a locked section: the caller's call is another one.
LEMMA OutsideStep ==
    ASSUME IInv, NEW c \in Callers, NEW n \in Call, Becomes(c, n),
           call[c].op \notin Held, n.op \notin Held,
           UNCHANGED <<files, mutex, items, todo>>, reply' \in [Callers -> SUBSET Item]
    PROVE  IInv'
<1>1. /\ call' \in [Callers -> Call] /\ call'[c] = n
      /\ \A d \in Callers \ {c} : call'[d] = call[d]
  BY BecomesOne DEF IInv
<1>2. TypeOK'
  BY <1>1 DEF IInv, TypeOK
<1>3. HolderIsInside' /\ FilesFit' /\ GapIsOpen' /\ ScanIsWhole'
  <2>1. \A d \in Callers : call'[d].op \in Held <=> call[d].op \in Held
    BY <1>1
  <2>2. \A d \in Callers : call'[d].op \in Held => call'[d] = call[d]
    BY <1>1
  <2>3. Present' = Present /\ \A b : Exists(b)' <=> Exists(b)
    BY DEF Present, Exists
  <2>4. QED
    BY <2>1, <2>2, <2>3 DEF IInv, HolderIsInside, FilesFit, GapIsOpen, ScanIsWhole, Held, Scanning
<1>4. QED
  BY <1>2, <1>3 DEF IInv

\* Calling a function of the store.
LEMMA CallsStep == ASSUME IInv, NEW c \in Callers, Calls(c) PROVE IInv'
<1>1. call[c].op = "none" /\ reply' \in [Callers -> SUBSET Item]
  BY DEF Calls, NoCall, IInv, TypeOK
<1>2. /\ [op |-> "read"] \in Call
      /\ \A i \in Item : [op |-> "save", item |-> i] \in Call
      /\ \A m, n \in Names : /\ [op |-> "copy", from |-> m, to |-> n] \in Call
                            /\ [op |-> "rename", from |-> m, to |-> n] \in Call
      /\ \A b \in Bases : [op |-> "remove", base |-> b] \in Call
  BY DEF Call
<1>3. PICK n \in Call : Becomes(c, n) /\ n.op \notin Held
  <2>1. CASE Becomes(c, [op |-> "read"])
    BY <1>2, <2>1 DEF Held
  <2>2. CASE \E i \in Item : Becomes(c, [op |-> "save", item |-> i])
    BY <1>2, <2>2 DEF Held
  <2>3. CASE \E m, n \in Names : Becomes(c, [op |-> "copy", from |-> m, to |-> n])
    BY <1>2, <2>3 DEF Held
  <2>4. CASE \E m, n \in Names : Becomes(c, [op |-> "rename", from |-> m, to |-> n])
    BY <1>2, <2>4 DEF Held
  <2>5. CASE \E b \in Bases : Becomes(c, [op |-> "remove", base |-> b])
    BY <1>2, <2>5 DEF Held
  <2>6. QED
    BY <2>1, <2>2, <2>3, <2>4, <2>5 DEF Calls
<1>4. QED
  BY <1>1, <1>3, OutsideStep DEF Calls, Held

\* Entering saveItem's section: the gap opens.
LEMMA SaveRemovesStep == ASSUME IInv, NEW c \in Callers, SaveRemoves(c) PROVE IInv'
<1> DEFINE i == call[c].item
           n == [op |-> "write", item |-> i, old |-> files[i.uuid]]
<1>1. i \in Item /\ i.uuid \in Uuids /\ i.uuid \in Bases
  BY DEF SaveRemoves, IInv, TypeOK, Call, Item, Bases
<1>2. n \in Call /\ n.op = "write" /\ n.item = i
  BY <1>1 DEF Call, IInv, TypeOK
<1>3. /\ Becomes(c, n) /\ files' = [files EXCEPT ![i.uuid] = NoItem]
      /\ mutex = NoCaller /\ mutex' = c /\ UNCHANGED <<items, todo, reply>>
  BY DEF SaveRemoves, Locks
<1> HIDE DEF i, n
<1>4. /\ call' \in [Callers -> Call] /\ call'[c] = n
      /\ \A d \in Callers \ {c} : call'[d] = call[d] /\ call[d].op \notin Held
  BY <1>2, <1>3, BecomesOne, NobodyInside DEF IInv
<1>5. TypeOK'
  BY <1>3, <1>4 DEF IInv, TypeOK
<1>6. HolderIsInside' /\ ScanIsWhole'
  BY <1>2, <1>3, <1>4 DEF HolderIsInside, ScanIsWhole, Held, Scanning
<1>7. \A b \in Bases : files'[b] = IF b = i.uuid THEN NoItem ELSE files[b]
  BY <1>3 DEF IInv, TypeOK
<1>8. FilesFit' /\ GapIsOpen'
  BY <1>1, <1>2, <1>4, <1>7 DEF IInv, FilesFit, GapIsOpen, Exists, Bases, Held
<1>9. QED
  BY <1>5, <1>6, <1>8 DEF IInv

\* Leaving it: the gap is closed by the new file.
LEMMA SaveWritesStep == ASSUME IInv, NEW c \in Callers, SaveWrites(c) PROVE IInv'
<1> DEFINE i == call[c].item
<1>1. i \in Item /\ i.uuid \in Uuids /\ i.uuid \in Bases
  BY DEF SaveWrites, IInv, TypeOK, Call, Item, Bases
<1>2. /\ Becomes(c, NoCall) /\ files' = [files EXCEPT ![i.uuid] = i]
      /\ call[c].op = "write" /\ mutex = c /\ mutex' = NoCaller /\ UNCHANGED <<items, todo, reply>>
  BY DEF SaveWrites, Unlocks
<1> HIDE DEF i
<1>3. NoCall \in Call /\ NoCall.op = "none"
  BY DEF NoCall, Call
<1>4. /\ call' \in [Callers -> Call] /\ call'[c] = NoCall
      /\ \A d \in Callers \ {c} : call'[d] = call[d] /\ call[d].op \notin Held
  BY <1>2, <1>3, BecomesOne, OneInside DEF IInv, Held
<1>5. TypeOK'
  BY <1>1, <1>2, <1>4 DEF IInv, TypeOK
<1>6. \A d \in Callers : call'[d].op \notin Held /\ mutex' # d
  BY <1>2, <1>3, <1>4, StoreAssumption DEF Held
<1>7. HolderIsInside' /\ ScanIsWhole' /\ GapIsOpen'
  BY <1>6 DEF HolderIsInside, ScanIsWhole, GapIsOpen, Held, Scanning
<1>8. \A b \in Bases : files'[b] = IF b = i.uuid THEN i ELSE files[b]
  BY <1>2 DEF IInv, TypeOK
<1>9. FilesFit'
  BY <1>1, <1>8, StoreAssumption DEF IInv, FilesFit, Exists, Bases
<1>10. QED
  BY <1>5, <1>7, <1>9 DEF IInv

-------------------------------------------------------------------------------
\* A reader enters: nothing is read, every file is left to read.
LEMMA ReadBeginsStep == ASSUME IInv, NEW c \in Callers, ReadBegins(c) PROVE IInv'
<1> DEFINE n == [call[c] EXCEPT !.op = IF @ = "read" THEN "scan" ELSE "copyScan"]
<1>1. n \in Call /\ n.op \in Scanning
  <2>1. CASE call[c].op = "read"
    BY <2>1 DEF IInv, TypeOK, Call, Scanning
  <2>2. CASE call[c].op = "copy"
    BY <2>2 DEF IInv, TypeOK, Call, Scanning
  <2>3. QED
    BY <2>1, <2>2 DEF ReadBegins
<1>2. /\ Becomes(c, n) /\ mutex = NoCaller /\ mutex' = c
      /\ items' = {} /\ todo' = {b \in Bases : Exists(b)} /\ UNCHANGED <<files, reply>>
  BY DEF ReadBegins, Locks
<1> HIDE DEF n
<1>3. /\ call' \in [Callers -> Call] /\ call'[c] = n
      /\ \A d \in Callers \ {c} : call'[d] = call[d] /\ call[d].op \notin Held
  BY <1>1, <1>2, BecomesOne, NobodyInside DEF IInv
<1>4. TypeOK'
  BY <1>2, <1>3 DEF IInv, TypeOK
<1>5. HolderIsInside' /\ GapIsOpen' /\ FilesFit'
  BY <1>1, <1>2, <1>3 DEF IInv, HolderIsInside, GapIsOpen, FilesFit, Held, Scanning, Exists
<1>6. ScanIsWhole'
  BY <1>2 DEF ScanIsWhole, Present, Exists
<1>7. QED
  BY <1>4, <1>5, <1>6 DEF IInv

\* One file goes from those left to those read.
LEMMA ReadsFileStep == ASSUME IInv, NEW c \in Callers, ReadsFile(c) PROVE IInv'
<1>1. PICK b \in todo : items' = items \cup {files[b]} /\ todo' = todo \ {b}
  BY DEF ReadsFile
<1>2. call[c].op \in Scanning /\ UNCHANGED <<files, mutex, call, reply>>
  BY DEF ReadsFile, Scanning
<1>3. /\ \A x \in todo : Exists(x)
      /\ Present = items \cup {files[x] : x \in todo}
  BY <1>2 DEF IInv, ScanIsWhole
<1>4. files[b] \in Item
  BY <1>1, <1>3 DEF IInv, TypeOK, Exists
<1>5. TypeOK'
  BY <1>1, <1>2, <1>4 DEF IInv, TypeOK
<1>6. HolderIsInside' /\ GapIsOpen' /\ FilesFit'
  BY <1>2 DEF IInv, HolderIsInside, GapIsOpen, FilesFit, Exists
<1>7. ScanIsWhole'
  <2>1. {files[x] : x \in todo} = {files[b]} \cup {files[x] : x \in todo'}
    BY <1>1
  <2>2. Present' = items' \cup {files'[x] : x \in todo'}
    BY <1>1, <1>2, <1>3, <2>1 DEF Present, Exists
  <2>3. \A x \in todo' : Exists(x)'
    BY <1>1, <1>2, <1>3 DEF Exists
  <2>4. QED
    BY <2>2, <2>3 DEF ScanIsWhole
<1>8. QED
  BY <1>5, <1>6, <1>7 DEF IInv

\* A reader leaves with what it read.
LEMMA ReaderLeaves ==
    ASSUME IInv, NEW c \in Callers, call[c].op \in Scanning, NEW n \in Call, n.op \notin Held,
           Becomes(c, n), Unlocks(c), reply' = [reply EXCEPT ![c] = items],
           UNCHANGED <<files, items, todo>>
    PROVE  IInv'
<1>1. /\ call' \in [Callers -> Call] /\ call'[c] = n
      /\ \A d \in Callers \ {c} : call'[d] = call[d] /\ call[d].op \notin Held
  BY BecomesOne, OneInside DEF IInv, Held, Scanning
<1>2. TypeOK'
  BY <1>1 DEF IInv, TypeOK, Unlocks
<1>3. \A d \in Callers : call'[d].op \notin Held /\ mutex' # d
  BY <1>1, StoreAssumption DEF Unlocks
<1>4. HolderIsInside' /\ ScanIsWhole' /\ GapIsOpen' /\ FilesFit'
  BY <1>3 DEF IInv, HolderIsInside, ScanIsWhole, GapIsOpen, FilesFit, Held, Scanning, Exists
<1>5. QED
  BY <1>2, <1>4 DEF IInv

\* Reading, whoever the caller is, to the end.
LEMMA ReadReturnsStep == ASSUME IInv, NEW c \in Callers, ReadReturns(c) PROVE IInv'
BY ReaderLeaves DEF ReadReturns, NoCall, Call, Scanning, Held

\* The search of a copy, to its end.
LEMMA CopySearchStep ==
    ASSUME IInv, NEW c \in Callers, CopyFound(c) \/ CopyNotFound(c) PROVE IInv'
<1>1. CASE CopyNotFound(c)
  BY <1>1, ReaderLeaves DEF CopyNotFound, NoCall, Call, Scanning, Held
<1>2. CASE CopyFound(c)
  <2>1. call[c] \in Call /\ call[c].op = "copyScan"
    BY <1>2 DEF CopyFound, IInv, TypeOK
  <2>2. call[c].to \in Names
    BY <2>1 DEF Call
  <2>3. PICK u \in Uuids : Becomes(c, [op |-> "save", item |-> [uuid |-> u, name |-> call[c].to]])
    BY <1>2 DEF CopyFound
  <2>4. [op |-> "save", item |-> [uuid |-> u, name |-> call[c].to]] \in Call
    BY <2>2 DEF Call, Item
  <2>5. QED
    BY <1>2, <2>3, <2>4, ReaderLeaves DEF CopyFound, Scanning, Held
<1>3. QED
  BY <1>1, <1>2

\* Removing and renaming happen while nobody is inside.
LEMMA DirectoryStep ==
    ASSUME IInv, NEW c \in Callers, Removes(c) \/ Renames(c)
    PROVE  /\ IInv'
           /\ \/ UNCHANGED files
              \/ \E u \in Uuids : files' = [files EXCEPT ![u] = NoItem]
<1>1. Becomes(c, NoCall) /\ mutex = NoCaller /\ UNCHANGED <<mutex, items, todo, reply>>
  BY DEF Removes, Renames
<1>2. NoCall \in Call /\ NoCall.op = "none"
  BY DEF NoCall, Call
<1>3. \A d \in Callers : call[d].op \notin Held
  BY <1>1, NobodyInside
<1>4. call' \in [Callers -> Call] /\ \A d \in Callers : call'[d].op \notin Held
  BY <1>1, <1>2, <1>3, BecomesOne DEF IInv, Held
<1>5. \/ UNCHANGED files
      \/ \E u \in Uuids : files' = [files EXCEPT ![u] = NoItem]
  <2>1. CASE Removes(c)
    <3>1. call[c].base \in Bases /\ files' = [files EXCEPT ![call[c].base] = NoItem]
      BY <2>1 DEF Removes, IInv, TypeOK, Call
    <3>2. CASE call[c].base \in Uuids
      BY <3>1, <3>2
    <3>3. CASE call[c].base \in Names
      BY <3>1, <3>3 DEF IInv, TypeOK, FilesFit, Exists
    <3>4. QED
      BY <3>1, <3>2, <3>3 DEF Bases
  <2>2. CASE Renames(c)
    <3>1. call[c].from \in Names
      BY <2>2 DEF Renames, IInv, TypeOK, Call
    <3>2. QED
      BY <2>2, <3>1 DEF Renames, IInv, FilesFit
  <2>3. QED
    BY <2>1, <2>2
<1>6. files' \in [Bases -> Item \cup {NoItem}] /\ FilesFit'
  BY <1>5 DEF IInv, TypeOK, FilesFit, Exists, Bases
<1>7. TypeOK'
  BY <1>1, <1>4, <1>6 DEF IInv, TypeOK
<1>8. HolderIsInside' /\ ScanIsWhole' /\ GapIsOpen'
  BY <1>1, <1>4, StoreAssumption DEF HolderIsInside, ScanIsWhole, GapIsOpen, Held, Scanning
<1>9. QED
  BY <1>5, <1>6, <1>7, <1>8 DEF IInv

\* After a crash nobody is inside, and a file that was being replaced is lost.
LEMMA CrashStep == ASSUME IInv, Crash PROVE IInv'
<1>1. NoCall \in Call /\ NoCall.op = "none"
  BY DEF NoCall, Call
<1>2. \A c \in Callers : call'[c].op = "none" /\ mutex' # c
  BY <1>1, StoreAssumption DEF Crash
<1>3. TypeOK'
  BY <1>1 DEF Crash, IInv, TypeOK
<1>4. HolderIsInside' /\ ScanIsWhole' /\ GapIsOpen' /\ FilesFit'
  BY <1>2 DEF Crash, IInv, HolderIsInside, ScanIsWhole, GapIsOpen, FilesFit, Exists, Held, Scanning
<1>5. QED
  BY <1>3, <1>4 DEF IInv

\* Every step preserves the invariant.
LEMMA StepInvariant == IInv /\ [Next]_vars => IInv'
<1> SUFFICES ASSUME IInv, [Next]_vars PROVE IInv'
  OBVIOUS
<1>1. CASE Crash
  BY <1>1, CrashStep
<1>2. ASSUME NEW c \in Callers, Step(c) PROVE IInv'
  BY <1>2, CallsStep, SaveRemovesStep, SaveWritesStep, ReadBeginsStep, ReadsFileStep,
     ReadReturnsStep, CopySearchStep, DirectoryStep DEF Step
<1>3. CASE UNCHANGED vars
  BY <1>3 DEF vars, IInv, TypeOK, HolderIsInside, FilesFit, GapIsOpen, ScanIsWhole, Present, Exists
<1>4. QED
  BY <1>1, <1>2, <1>3 DEF Next

\* The inductive invariant.
LEMMA Invariance == Spec => []IInv
BY InitInvariant, StepInvariant, PTL DEF Spec

\* The type invariant of the store, its lock and the calls on it.
THEOREM StoreTypes == Spec => []TypeOK
<1>1. IInv => TypeOK
  BY DEF IInv
<1>2. QED
  BY <1>1, Invariance, PTL

-------------------------------------------------------------------------------
\* What the store holds, as ItemStore sees it.

\* While nobody writes it is what the files hold ...
LEMMA QuietContent ==
    ASSUME \A c \in Callers : call[c].op # "write", NEW u \in Uuids
    PROVE  Content(u) = files[u]
BY DEF Content, Writing

\* ... and the one who writes stands in for the file that is missing.
LEMMA GapContent ==
    ASSUME NEW c \in Callers, call[c].op = "write", \A d \in Callers \ {c} : call[d].op # "write",
           NEW u \in Uuids
    PROVE  Content(u) = IF u = call[c].item.uuid THEN call[c].old ELSE files[u]
<1>1. \A d \in Callers : Writing(u, d) <=> (d = c /\ u = call[c].item.uuid)
  BY DEF Writing
<1>2. CASE u = call[c].item.uuid
  <2>1. \A d \in Callers : Writing(u, d) <=> d = c
    BY <1>1, <1>2
  <2>2. (CHOOSE d \in Callers : Writing(u, d)) = c
    BY <2>1
  <2>3. QED
    BY <1>2, <2>1, <2>2 DEF Content
<1>3. CASE u # call[c].item.uuid
  BY <1>1, <1>3 DEF Content
<1>4. QED
  BY <1>2, <1>3

Contents == [u \in Uuids |-> Content(u)]

\* What a directory without a gap holds is what a whole scan has read.
LEMMA WholeRead ==
    ASSUME IInv, NEW c \in Callers, call[c].op \in Scanning, todo = {}
    PROVE  items = Atomic!Items(Contents)
<1>1. \A d \in Callers : call[d].op # "write"
  BY OneInside DEF Scanning, Held
<1>2. \A u \in Uuids : Content(u) = files[u]
  BY <1>1, QuietContent
<1>3. items = {files[b] : b \in {x \in Bases : Exists(x)}}
  BY DEF IInv, ScanIsWhole, Present
<1>4. {files[b] : b \in {x \in Bases : Exists(x)}} = {files[u] : u \in Uuids} \ {NoItem}
  BY DEF IInv, FilesFit, Exists, Bases
<1>5. QED
  BY <1>2, <1>3, <1>4 DEF Atomic!Items, Contents

\* What the store's steps are in ItemStore: a save, a removal, a read, a restart with
\* or without a loss, or nothing at all.
LEMMA RefinementStep ==
    ASSUME IInv, [Next]_vars
    PROVE  [AtomicNext]_<<Contents, reply>>
<1>0. IInv'
  BY StepInvariant
<1>1. ASSUME UNCHANGED <<files, reply>>,
             \A d \in Callers : /\ call[d].op = "write" <=> call'[d].op = "write"
                                /\ call[d].op = "write" => call'[d] = call[d]
      PROVE  UNCHANGED <<Contents, reply>>
  <2>1. \A u \in Uuids : \A d \in Callers : Writing(u, d)' <=> Writing(u, d)
    BY <1>1 DEF Writing
  <2>2. \A u \in Uuids : Content(u)' = Content(u)
    <3>1. CASE \E d \in Callers : call[d].op = "write"
      <4>1. PICK c \in Callers : call[c].op = "write"
        BY <3>1
      <4>2. \A d \in Callers : call[d].op = "write" => d = c
        BY <4>1, OneInside DEF Held
      <4>3. \A u \in Uuids : \A d \in Callers : Writing(u, d) => d = c
        BY <4>2 DEF Writing
      <4>4. \A u \in Uuids : (\E d \in Callers : Writing(u, d)) =>
                 /\ (CHOOSE d \in Callers : Writing(u, d)) = c
                 /\ (CHOOSE d \in Callers : Writing(u, d)') = c
        BY <2>1, <4>3
      <4>5. QED
        BY <1>1, <2>1, <4>1, <4>4 DEF Content
    <3>2. CASE \A d \in Callers : call[d].op # "write"
      BY <1>1, <3>2 DEF Content, Writing
    <3>3. QED
      BY <3>1, <3>2
  <2>3. QED
    BY <1>1, <2>2 DEF Contents
<1>2. ASSUME NEW c \in Callers, SaveRemoves(c) PROVE UNCHANGED <<Contents, reply>>
  <2> DEFINE i == call[c].item
             n == [op |-> "write", item |-> i, old |-> files[i.uuid]]
  <2>1. i \in Item /\ i.uuid \in Uuids /\ i.uuid \in Bases /\ files \in [Bases -> Item \cup {NoItem}]
    BY <1>2 DEF SaveRemoves, IInv, TypeOK, Call, Item, Bases
  <2>2. n \in Call /\ n.op = "write" /\ n.item = i /\ n.old = files[i.uuid]
    BY <2>1 DEF Call
  <2>3. /\ Becomes(c, n) /\ files' = [files EXCEPT ![i.uuid] = NoItem]
        /\ mutex = NoCaller /\ UNCHANGED reply /\ call[c].op = "save"
    BY <1>2 DEF SaveRemoves, Locks
  <2> HIDE DEF i, n
  <2>4. /\ call'[c] = n
        /\ \A d \in Callers \ {c} : call'[d] = call[d] /\ call[d].op # "write"
    BY <2>2, <2>3, BecomesOne, NobodyInside DEF IInv, Held
  <2>5. \A u \in Uuids : Content(u) = files[u]
    BY <2>3, <2>4, QuietContent
  <2>6. \A u \in Uuids : \A d \in Callers : Writing(u, d)' <=> (d = c /\ u = i.uuid)
    BY <2>2, <2>4 DEF Writing
  <2>7. ASSUME NEW u \in Uuids PROVE Content(u)' = files[u]
    <3>1. CASE u = i.uuid
      <4>1. \A d \in Callers : Writing(u, d)' <=> d = c
        BY <2>6, <3>1
      <4>2. (CHOOSE d \in Callers : Writing(u, d)') = c
        BY <4>1
      <4>3. QED
        BY <2>2, <2>4, <3>1, <4>1, <4>2 DEF Content
    <3>2. CASE u # i.uuid
      BY <2>1, <2>3, <2>6, <3>2 DEF Content, Bases
    <3>3. QED
      BY <3>1, <3>2
  <2>8. QED
    BY <2>3, <2>5, <2>7 DEF Contents
<1>3. ASSUME NEW c \in Callers, SaveWrites(c) PROVE \E i \in Item : Atomic!Save(i.uuid, i)
  <2> DEFINE i == call[c].item
  <2>1. i \in Item /\ i.uuid \in Uuids /\ i.uuid \in Bases /\ files \in [Bases -> Item \cup {NoItem}]
    BY <1>3 DEF SaveWrites, IInv, TypeOK, Call, Item, Bases
  <2>2. /\ Becomes(c, NoCall) /\ files' = [files EXCEPT ![i.uuid] = i]
        /\ call[c].op = "write" /\ UNCHANGED reply
    BY <1>3 DEF SaveWrites
  <2>3. NoCall \in Call /\ NoCall.op = "none"
    BY DEF NoCall, Call
  <2>4. /\ call'[c] = NoCall
        /\ \A d \in Callers \ {c} : call'[d] = call[d] /\ call[d].op # "write"
    BY <2>2, <2>3, BecomesOne, OneInside DEF IInv, Held
  <2>5. \A u \in Uuids : Content(u) = IF u = i.uuid THEN call[c].old ELSE files[u]
    BY <2>2, <2>4, GapContent
  <2> HIDE DEF i
  <2>6. \A u \in Uuids : Content(u)' = files'[u]
    BY <2>3, <2>4 DEF Content, Writing
  <2>7. Contents' = [Contents EXCEPT ![i.uuid] = i]
    BY <2>1, <2>2, <2>5, <2>6 DEF Contents, Bases
  <2>8. Atomic!Save(i.uuid, i)
    BY <2>2, <2>7 DEF Atomic!Save, Contents
  <2>9. QED
    BY <2>1, <2>8
<1>4. ASSUME NEW c \in Callers, ReadReturns(c) \/ CopyFound(c) \/ CopyNotFound(c)
      PROVE  Atomic!Read(c)
  <2>1. /\ call[c].op \in Scanning /\ todo = {} /\ UNCHANGED files
        /\ reply' = [reply EXCEPT ![c] = items]
    BY <1>4 DEF ReadReturns, CopyFound, CopyNotFound, Scanning
  <2>2. \A d \in Callers : call[d].op # "write"
    BY <2>1, OneInside DEF Scanning, Held
  <2>3. \A d \in Callers : call'[d].op # "write"
    <3>1. CASE CopyFound(c)
      <4>1. PICK u \in Uuids : Becomes(c, [op |-> "save", item |-> [uuid |-> u, name |-> call[c].to]])
        BY <3>1 DEF CopyFound
      <4>2. QED
        BY <2>2, <4>1 DEF Becomes, IInv, TypeOK
    <3>2. CASE Becomes(c, NoCall)
      BY <2>2, <3>2 DEF Becomes, NoCall, IInv, TypeOK
    <3>3. QED
      BY <1>4, <3>1, <3>2 DEF ReadReturns, CopyNotFound
  <2>4. \A u \in Uuids : Content(u) = files[u] /\ Content(u)' = files[u]
    BY <2>1, <2>2, <2>3, QuietContent DEF Content, Writing
  <2>5. UNCHANGED Contents /\ items = Atomic!Items(Contents)
    BY <2>1, <2>4, WholeRead DEF Contents
  <2>6. QED
    BY <2>1, <2>5 DEF Atomic!Read, Contents
<1>5. ASSUME NEW c \in Callers, Removes(c) \/ Renames(c)
      PROVE  UNCHANGED <<Contents, reply>> \/ \E u \in Uuids : Atomic!Remove(u)
  <2>1. \A d \in Callers : call[d].op # "write"
    BY <1>5, NobodyInside DEF Removes, Renames, Held
  <2>2. \A d \in Callers : call'[d].op # "write"
    BY <1>5, <2>1 DEF Removes, Renames, Becomes, NoCall, IInv, TypeOK
  <2>3. \A u \in Uuids : Content(u) = files[u] /\ Content(u)' = files'[u]
    BY <2>1, <2>2, QuietContent DEF Content, Writing
  <2>4. UNCHANGED reply
    BY <1>5 DEF Removes, Renames
  <2>5. CASE UNCHANGED files
    BY <2>3, <2>4, <2>5 DEF Contents
  <2>6. CASE \E u \in Uuids : files' = [files EXCEPT ![u] = NoItem]
    <3>1. PICK u \in Uuids : files' = [files EXCEPT ![u] = NoItem]
      BY <2>6
    <3>2. Contents' = [Contents EXCEPT ![u] = NoItem]
      BY <2>3, <3>1 DEF Contents, IInv, TypeOK, Bases
    <3>3. Atomic!Remove(u)
      BY <2>4, <3>2 DEF Atomic!Remove, Contents
    <3>4. QED
      BY <3>3
  <2>7. QED
    BY <1>5, <2>5, <2>6, DirectoryStep
<1>6. CASE Crash
  <2>1. \A d \in Callers : call'[d].op # "write"
    BY <1>6 DEF Crash, NoCall
  <2>2. \A u \in Uuids : Content(u)' = files[u]
    BY <1>6, <2>1 DEF Crash, Content, Writing
  <2>3. reply' = [d \in Callers |-> {}]
    BY <1>6 DEF Crash
  <2>4. CASE \A d \in Callers : call[d].op # "write"
    <3>1. UNCHANGED Contents
      BY <2>2, <2>4, QuietContent DEF Contents
    <3>2. QED
      BY <2>3, <3>1 DEF Atomic!Restart, Contents, AtomicNext
  <2>5. CASE \E d \in Callers : call[d].op = "write"
    <3>1. PICK c \in Callers : call[c].op = "write"
      BY <2>5
    <3>2. \A d \in Callers \ {c} : call[d].op # "write"
      BY <3>1, OneInside DEF Held
    <3>3. \A u \in Uuids : Content(u) = IF u = call[c].item.uuid THEN call[c].old ELSE files[u]
      BY <3>1, <3>2, GapContent
    <3>4. call[c].item.uuid \in Uuids /\ files[call[c].item.uuid] = NoItem
      BY <3>1 DEF IInv, TypeOK, Call, Item, GapIsOpen, Exists
    <3>5. Contents' = [Contents EXCEPT ![call[c].item.uuid] = NoItem]
      BY <2>2, <3>3, <3>4 DEF Contents
    <3>6. Atomic!Lose(call[c].item.uuid)
      BY <2>3, <3>5 DEF Atomic!Lose, Contents
    <3>7. QED
      BY <3>4, <3>6 DEF AtomicNext
  <2>6. QED
    BY <2>4, <2>5
<1>7. ASSUME NEW c \in Callers, Calls(c) \/ ReadBegins(c) \/ ReadsFile(c)
      PROVE  UNCHANGED <<Contents, reply>>
  <2>1. UNCHANGED <<files, reply>>
    BY <1>7 DEF Calls, ReadBegins, ReadsFile
  <2>2. call[c].op # "write" /\ call'[c].op # "write" /\ \A d \in Callers \ {c} : call'[d] = call[d]
    <3>1. CASE Calls(c)
      BY <3>1 DEF Calls, Becomes, NoCall, IInv, TypeOK
    <3>2. CASE ReadBegins(c)
      <4>1. call[c] \in Call /\ call[c].op \in {"read", "copy"}
        BY <3>2 DEF ReadBegins, IInv, TypeOK
      <4>2. [call[c] EXCEPT !.op = IF @ = "read" THEN "scan" ELSE "copyScan"].op # "write"
        BY <4>1 DEF Call
      <4>3. QED
        BY <3>2, <4>1, <4>2 DEF ReadBegins, Becomes, IInv, TypeOK
    <3>3. CASE ReadsFile(c)
      BY <3>3 DEF ReadsFile
    <3>4. QED
      BY <1>7, <3>1, <3>2, <3>3
  <2>3. QED
    BY <1>1, <2>1, <2>2
<1>8. CASE UNCHANGED vars
  BY <1>1, <1>8 DEF vars
<1>9. ASSUME NEW c \in Callers, Step(c) PROVE [AtomicNext]_<<Contents, reply>>
  BY <1>2, <1>3, <1>4, <1>5, <1>7, <1>9 DEF Step, AtomicNext
<1>10. QED
  BY <1>6, <1>8, <1>9 DEF Next

\* Every call on a server store takes effect at one moment, for any number of threads,
\* servers and names, with the daemon dying at any point.
THEOREM StoreIsAtomic == Spec => CallsAreAtomic
<1>1. IInv /\ [Next]_vars => [AtomicNext]_<<[u \in Uuids |-> Content(u)], reply>>
  BY RefinementStep DEF Contents
<1>2. QED
  BY <1>1, Invariance, PTL DEF Spec, CallsAreAtomic
===============================================================================
