---------------------------- MODULE StateFileProofs ----------------------------
(* What is proved of StateFile: its types, for any number of writers, and for  *)
(* one writer that neither name ever leads to a torn file.                     *)
EXTENDS StateFile, TLAPS

LEMMA ReturnTyped ==
  ASSUME TypeOK, NEW w \in Writer, Return(w)
  PROVE  /\ pc' \in [Writer -> {"idle", "open", "head", "tail", "sync", "rename"}]
         /\ value' \in [Writer -> Value \cup {Missing}]
         /\ file' \in [Writer -> Inode \cup {NoFile}]
         /\ \A u \in Writer : /\ pc'[u] = "idle" <=> value'[u] = Missing
                              /\ pc'[u] \in {"idle", "open"} <=> file'[u] = NoFile
BY SentinelAssumption DEF TypeOK, Return

LEMMA StopTyped ==
  ASSUME TypeOK, Stop
  PROVE  /\ pc' \in [Writer -> {"idle", "open", "head", "tail", "sync", "rename"}]
         /\ value' \in [Writer -> Value \cup {Missing}]
         /\ file' \in [Writer -> Inode \cup {NoFile}]
         /\ tmp' \in Inode \cup {NoFile}
         /\ \A u \in Writer : /\ pc'[u] = "idle" <=> value'[u] = Missing
                              /\ pc'[u] \in {"idle", "open"} <=> file'[u] = NoFile
BY SentinelAssumption DEF TypeOK, Stop

LEMMA Contents ==
  /\ Empty \in Content
  /\ \A v \in Value : Whole(v) \in Content
  /\ \A c \in Content, chunk \in Chunk, v \in Value : [c EXCEPT ![chunk] = v] \in Content
BY DEF Content, Empty, Whole, Chunk

LEMMA TypeInit == Init => TypeOK
BY Contents, SentinelAssumption DEF Init, TypeOK

LEMMA TypeStep == TypeOK /\ [Next]_vars => TypeOK'
<1> SUFFICES ASSUME TypeOK, [Next]_vars PROVE TypeOK'
  OBVIOUS
<1> USE SentinelAssumption DEF fs, local
<1>1. ASSUME NEW w \in Writer, NEW v \in Value, Save(w, v) PROVE TypeOK'
  BY <1>1 DEF Save, TypeOK
<1>2. ASSUME NEW w \in Writer, Open(w) PROVE TypeOK'
  BY <1>2, Contents DEF Open, TypeOK
<1>3. ASSUME NEW w \in Writer, Write(w, "head", "tail") \/ Write(w, "tail", "sync")
      PROVE  TypeOK'
  <2>1. PICK chunk \in Chunk : /\ pc[w] = chunk
                               /\ content' = [content EXCEPT ![file[w]] =
                                                [content[file[w]] EXCEPT ![chunk] = value[w]]]
    BY <1>3 DEF Write, Chunk
  <2>2. pc[w] \in {"head", "tail"} /\ file[w] \in Inode /\ value[w] \in Value
    BY <2>1 DEF TypeOK, Chunk
  <2>3. content' \in [Inode -> Content]
    BY <2>1, <2>2, Contents DEF TypeOK
  <2>4. /\ pc' \in [Writer -> {"idle", "open", "head", "tail", "sync", "rename"}]
        /\ \A u \in Writer : pc'[u] = pc[u] \/ (u = w /\ pc'[u] \in {"tail", "sync"})
        /\ UNCHANGED <<synced, path, tmp, onDisk, value, file>>
    BY <1>3 DEF Write, TypeOK
  <2> QED BY <2>2, <2>3, <2>4 DEF TypeOK
<1>4. ASSUME NEW w \in Writer, Sync(w) PROVE TypeOK'
  BY <1>4 DEF Sync, TypeOK
<1>5. ASSUME NEW w \in Writer, Fail(w) \/ Rename(w) \/ RenameFails(w) PROVE TypeOK'
  BY <1>5, ReturnTyped DEF Fail, Rename, RenameFails, TypeOK
<1>6. CASE Flush
  BY <1>6 DEF Flush, TypeOK
<1>7. CASE Kill
  BY <1>7, StopTyped DEF Kill, TypeOK
<1>8. CASE PowerLoss
  <2>1. content' \in [Inode -> Content] /\ synced' \in [Inode -> Content]
    BY <1>8 DEF PowerLoss, TypeOK
  <2> QED BY <1>8, <2>1, StopTyped DEF PowerLoss, TypeOK
<1>9. CASE UNCHANGED vars
  BY <1>9 DEF vars, TypeOK
<1> QED BY <1>1, <1>2, <1>3, <1>4, <1>5, <1>6, <1>7, <1>8, <1>9 DEF Next, Step

(* The names and the open files of any number of writers keep their types.     *)
THEOREM FileTyped == Spec => []TypeOK
BY TypeInit, TypeStep, PTL DEF Spec

-----------------------------------------------------------------------------
(* One writer.                                                                 *)

OneWriter == \A u, w \in Writer : u = w

Settled(i, v) == content[i] = Whole(v) /\ synced[i] = Whole(v)

(* What has been named or flushed is whole and on the disk.                    *)
Named ==
  /\ path # NoFile => \E v \in Value : Settled(path, v)
  /\ onDisk # NoFile => \E v \in Value : Settled(onDisk, v)

(* The temporary name has an inode of its own, which the writer has open, and  *)
(* which is as far as the writer is.                                           *)
Temporary ==
  /\ tmp # NoFile => tmp # path /\ tmp # onDisk
  /\ \A w \in Writer :
       /\ pc[w] \in {"head", "tail", "sync", "rename"} => file[w] = tmp
       /\ pc[w] = "tail" => content[tmp]["head"] = value[w]
       /\ pc[w] = "sync" => content[tmp] = Whole(value[w])
       /\ pc[w] = "rename" => Settled(tmp, value[w])

FileInv == TypeOK /\ Named /\ Temporary

LEMMA FileInit == Init => FileInv
BY TypeInit DEF Init, FileInv, Named, Temporary

(* A file that is not written to stays as it is.                               *)
LEMMA Kept ==
  ASSUME FileInv, NEW i \in Inode \cup {NoFile}, i # path, i # onDisk,
         \A j \in Inode : j # i => content'[j] = content[j] /\ synced'[j] = synced[j],
         UNCHANGED <<path, onDisk>>
  PROVE  Named'
BY DEF FileInv, TypeOK, Named, Settled

LEMMA FileStep ==
  ASSUME OneWriter
  PROVE  FileInv /\ [Next]_vars => FileInv'
<1> SUFFICES ASSUME FileInv, [Next]_vars PROVE Named' /\ Temporary'
  BY TypeStep DEF FileInv
<1> USE SentinelAssumption DEF fs, local
<1>a. TypeOK /\ Named /\ Temporary
  BY DEF FileInv
<1>b. TypeOK'
  BY <1>a, TypeStep
<1>1. ASSUME NEW w \in Writer, NEW v \in Value, Save(w, v) PROVE Named' /\ Temporary'
  BY <1>1, <1>a DEF Save, TypeOK, Named, Temporary, Settled
<1>2. ASSUME NEW w \in Writer, Open(w) PROVE Named' /\ Temporary'
  <2>1. PICK i \in Inode :
          /\ IF tmp # NoFile THEN i = tmp ELSE i \notin InUse
          /\ tmp' = i
          /\ content' = [content EXCEPT ![i] = Empty]
          /\ synced' = [synced EXCEPT ![i] = IF tmp = NoFile THEN Empty ELSE @]
          /\ file' = [file EXCEPT ![w] = i]
    BY <1>2 DEF Open
  <2>2. i # path /\ i # onDisk
    BY <1>a, <2>1 DEF Temporary, InUse
  <2>3. Named'
    BY <1>2, <1>a, <2>1, <2>2, Kept DEF Open, TypeOK
  <2>4. Temporary'
    BY <1>2, <1>a, <2>1, <2>2 DEF Open, Temporary, OneWriter, TypeOK
  <2> QED BY <2>3, <2>4
<1>3. ASSUME NEW w \in Writer, Write(w, "head", "tail") PROVE Named' /\ Temporary'
  <2>1. /\ file[w] = tmp /\ tmp \in Inode /\ tmp # path /\ tmp # onDisk /\ pc[w] = "head"
        /\ content' = [content EXCEPT ![tmp] = [content[tmp] EXCEPT !["head"] = value[w]]]
        /\ pc' = [pc EXCEPT ![w] = "tail"]
        /\ UNCHANGED <<synced, path, tmp, onDisk, value, file>>
    BY <1>3, <1>a DEF Write, TypeOK, Temporary
  <2>2. Named'
    BY <1>a, <2>1, Kept DEF TypeOK
  <2>3. content'[tmp]["head"] = value[w]
    BY <1>a, <2>1 DEF TypeOK, Content, Chunk
  <2> QED BY <1>a, <2>1, <2>2, <2>3 DEF Temporary, OneWriter, TypeOK
<1>4. ASSUME NEW w \in Writer, Write(w, "tail", "sync") PROVE Named' /\ Temporary'
  <2>1. /\ file[w] = tmp /\ tmp \in Inode /\ tmp # path /\ tmp # onDisk /\ pc[w] = "tail"
        /\ content' = [content EXCEPT ![tmp] = [content[tmp] EXCEPT !["tail"] = value[w]]]
        /\ pc' = [pc EXCEPT ![w] = "sync"]
        /\ UNCHANGED <<synced, path, tmp, onDisk, value, file>>
    BY <1>4, <1>a DEF Write, TypeOK, Temporary
  <2>2. Named'
    BY <1>a, <2>1, Kept DEF TypeOK
  <2>3. content'[tmp] = Whole(value[w])
    <3>1. content[tmp] \in [Chunk -> Value \cup {Missing}] /\ content[tmp]["head"] = value[w]
      BY <1>a, <2>1 DEF TypeOK, Content, Temporary
    <3> QED BY <1>a, <2>1, <3>1 DEF TypeOK, Whole, Chunk
  <2> QED BY <1>a, <2>1, <2>2, <2>3 DEF Temporary, OneWriter, TypeOK
<1>5. ASSUME NEW w \in Writer, Sync(w) PROVE Named' /\ Temporary'
  <2>1. /\ file[w] = tmp /\ tmp \in Inode /\ tmp # path /\ tmp # onDisk /\ pc[w] = "sync"
        /\ synced' = [synced EXCEPT ![tmp] = content[tmp]]
        /\ pc' = [pc EXCEPT ![w] = "rename"]
        /\ UNCHANGED <<content, path, tmp, onDisk, value, file>>
    BY <1>5, <1>a DEF Sync, TypeOK, Temporary
  <2>2. Named'
    BY <1>a, <2>1, Kept DEF TypeOK
  <2> QED BY <1>a, <2>1, <2>2 DEF Temporary, OneWriter, TypeOK, Settled
<1>6. ASSUME NEW w \in Writer, Fail(w) PROVE Named' /\ Temporary'
  BY <1>6, <1>a DEF Fail, Return, TypeOK, Named, Temporary, Settled, OneWriter
<1>7. ASSUME NEW w \in Writer, Rename(w) PROVE Named' /\ Temporary'
  <2>1. Settled(tmp, value[w]) /\ value[w] \in Value
    BY <1>7, <1>a DEF Rename, TypeOK, Temporary
  <2> QED BY <1>7, <1>a, <2>1 DEF Rename, Return, TypeOK, Named, Temporary, Settled, OneWriter
<1>8. ASSUME NEW w \in Writer, RenameFails(w) PROVE Named' /\ Temporary'
  BY <1>8, <1>a DEF RenameFails, Return, TypeOK, Named, Temporary, Settled, OneWriter
<1>9. CASE Flush
  BY <1>9, <1>a DEF Flush, Named, Temporary, Settled
<1>10. CASE Kill
  BY <1>10, <1>a DEF Kill, Stop, Named, Temporary, Settled
<1>11. CASE PowerLoss
  <2>1. content' = content /\ synced' = synced
    <3>1. SUFFICES ASSUME onDisk # NoFile PROVE content' = content /\ synced' = synced
      BY <1>11 DEF PowerLoss
    <3>2. PICK v \in Value : Settled(onDisk, v)
      BY <1>a, <3>1 DEF Named
    <3>3. PICK left \in Content :
            /\ \A chunk \in Chunk : left[chunk] \in {content[onDisk][chunk], synced[onDisk][chunk]}
            /\ content' = [content EXCEPT ![onDisk] = left]
            /\ synced' = [synced EXCEPT ![onDisk] = left]
      BY <1>11, <3>1 DEF PowerLoss
    <3>4. left = Whole(v)
      BY <3>2, <3>3 DEF Settled, Whole, Content
    <3> QED BY <1>a, <3>2, <3>3, <3>4 DEF Settled, TypeOK
  <2> QED BY <1>11, <1>a, <2>1 DEF PowerLoss, Stop, Named, Temporary, Settled
<1>12. CASE UNCHANGED vars
  BY <1>12, <1>a DEF vars, Named, Temporary, Settled
<1> QED
  BY <1>1, <1>2, <1>3, <1>4, <1>5, <1>6, <1>7, <1>8, <1>9, <1>10, <1>11, <1>12 DEF Next, Step

(* With one writer, and whatever fails, is killed or loses power at any call:  *)
(* the next start finds one whole value, or the file it never had.             *)
THEOREM NothingTorn == ASSUME OneWriter PROVE Spec => []NeverTorn
<1>1. FileInv => NeverTorn
  BY DEF FileInv, Named, NeverTorn, Settled
<1> QED BY <1>1, FileInit, FileStep, PTL DEF Spec

-----------------------------------------------------------------------------
(* Refinement.                                                                 *)

LEMMA WholeIsOne == \A u, v : Whole(u) = Whole(v) => u = v
BY DEF Whole, Chunk

LEMMA ReadWhole ==
  ASSUME NEW i \in Inode, NoFile \notin Inode, NEW v \in Value, content[i] = Whole(v)
  PROVE  Read(i) = v
BY WholeIsOne DEF Read

LEMMA OnDiskWhole ==
  ASSUME onDisk \in Inode, NoFile \notin Inode, NEW v \in Value, Settled(onDisk, v)
  PROVE  OnDisk = v
BY WholeIsOne DEF OnDisk, Settled

(* A step that moves neither name and keeps what they lead to does not show.   *)
LEMMA Unseen ==
  ASSUME FileInv, FileInv', UNCHANGED <<path, onDisk>>,
         path # NoFile => content'[path] = content[path],
         onDisk # NoFile => content'[onDisk] = content[onDisk] /\ synced'[onDisk] = synced[onDisk]
  PROVE  Read(path)' = Read(path) /\ OnDisk' = OnDisk
<1>1. TypeOK /\ Named /\ NoFile \notin Inode
  BY SentinelAssumption DEF FileInv
<1>2. Read(path)' = Read(path)
  <2>1. CASE path = NoFile
    BY <2>1 DEF Read
  <2>2. CASE path # NoFile
    <3>1. PICK v \in Value : Settled(path, v)
      BY <1>1, <2>2 DEF Named
    <3>2. Read(path) = v
      BY <1>1, <2>2, <3>1, ReadWhole DEF Settled, TypeOK
    <3>3. content'[path'] = Whole(v) /\ path' # NoFile
      BY <2>2, <3>1 DEF Settled
    <3> QED BY <3>2, <3>3, WholeIsOne DEF Read
  <2> QED BY <2>1, <2>2
<1>3. OnDisk' = OnDisk
  <2>1. CASE onDisk = NoFile
    BY <2>1 DEF OnDisk
  <2>2. CASE onDisk # NoFile
    <3>1. PICK v \in Value : Settled(onDisk, v)
      BY <1>1, <2>2 DEF Named
    <3>2. OnDisk = v
      BY <1>1, <2>2, <3>1, OnDiskWhole DEF TypeOK
    <3>3. content'[onDisk'] = Whole(v) /\ synced'[onDisk'] = Whole(v) /\ onDisk' # NoFile
      BY <2>2, <3>1 DEF Settled
    <3> QED BY <3>2, <3>3, WholeIsOne DEF OnDisk
  <2> QED BY <2>1, <2>2
<1> QED BY <1>2, <1>3

(* One writer saves what it was given, or nothing.                             *)
LEMMA SavingOne ==
  ASSUME OneWriter, NEW w \in Writer, NEW f
  PROVE  {f[u] : u \in Writer} \ {Missing} = {f[w]} \ {Missing}
BY DEF OneWriter

(* A writer that returns has nothing left to save.                             *)
LEMMA ReturnSaving ==
  ASSUME OneWriter, FileInv, NEW w \in Writer, Return(w)
  PROVE  Saving' = {}
<1>1. value'[w] = Missing
  BY DEF Return, FileInv, TypeOK
<1> QED BY <1>1, SavingOne DEF Saving

LEMMA StopSaving == Stop => Saving' = {}
BY DEF Stop, Saving

LEMMA RegisterStep ==
  ASSUME OneWriter
  PROVE  FileInv /\ FileInv' /\ [Next]_vars => [Register!Next]_<<Read(path), OnDisk, Saving>>
<1> SUFFICES ASSUME FileInv, FileInv', [Next]_vars
             PROVE  Register!Next \/ UNCHANGED <<Read(path), OnDisk, Saving>>
  OBVIOUS
<1> USE SentinelAssumption DEF fs, local
<1>a. TypeOK /\ Named /\ Temporary
  BY DEF FileInv
<1>1. ASSUME NEW w \in Writer, NEW v \in Value, Save(w, v)
      PROVE  Register!Save
  <2>1. Read(path)' = Read(path) /\ OnDisk' = OnDisk
    BY <1>1, Unseen DEF Save
  <2>2. value[w] = Missing /\ value'[w] = v /\ v # Missing
    BY <1>1, <1>a DEF Save, TypeOK
  <2>3. Saving = {} /\ Saving' = {v}
    <3>1. Saving = {value[w]} \ {Missing} /\ Saving' = {value'[w]} \ {Missing}
      BY SavingOne DEF Saving
    <3> QED BY <2>2, <3>1
  <2> QED BY <2>1, <2>3 DEF Register!Save
<1>2. ASSUME NEW w \in Writer, Open(w) PROVE UNCHANGED <<Read(path), OnDisk, Saving>>
  <2>1. PICK i \in Inode :
          /\ IF tmp # NoFile THEN i = tmp ELSE i \notin InUse
          /\ content' = [content EXCEPT ![i] = Empty]
          /\ synced' = [synced EXCEPT ![i] = IF tmp = NoFile THEN Empty ELSE @]
          /\ UNCHANGED <<path, onDisk, value>>
    BY <1>2 DEF Open
  <2>2. i # path /\ i # onDisk
    BY <1>a, <2>1 DEF Temporary, InUse
  <2>3. Read(path)' = Read(path) /\ OnDisk' = OnDisk
    BY <1>a, <2>1, <2>2, Unseen DEF TypeOK
  <2> QED BY <2>1, <2>3 DEF Saving
<1>3. ASSUME NEW w \in Writer, Write(w, "head", "tail") \/ Write(w, "tail", "sync") \/ Sync(w)
      PROVE  UNCHANGED <<Read(path), OnDisk, Saving>>
  <2>1. /\ file[w] = tmp /\ tmp \in Inode /\ tmp # path /\ tmp # onDisk
        /\ UNCHANGED <<path, onDisk, value>>
        /\ \A i \in Inode : i # tmp => content'[i] = content[i] /\ synced'[i] = synced[i]
    BY <1>3, <1>a DEF Write, Sync, TypeOK, Temporary
  <2>2. Read(path)' = Read(path) /\ OnDisk' = OnDisk
    BY <1>a, <2>1, Unseen DEF TypeOK
  <2> QED BY <2>1, <2>2 DEF Saving
<1>4. ASSUME NEW w \in Writer, Fail(w) \/ RenameFails(w)
      PROVE  Register!Abandon
  <2>1. Read(path)' = Read(path) /\ OnDisk' = OnDisk
    BY <1>4, Unseen DEF Fail, RenameFails
  <2>2. Saving' = {}
    BY <1>4, ReturnSaving DEF Fail, RenameFails
  <2> QED BY <2>1, <2>2 DEF Register!Abandon
<1>5. ASSUME NEW w \in Writer, Rename(w) PROVE Register!Succeed
  <2>1. Settled(tmp, value[w]) /\ value[w] \in Value /\ tmp \in Inode
    BY <1>5, <1>a DEF Rename, TypeOK, Temporary
  <2>2. path' = tmp /\ UNCHANGED <<content, synced, onDisk>>
    BY <1>5 DEF Rename
  <2>3. Read(path)' = Read(tmp)
    BY <2>2 DEF Read
  <2>4. Read(tmp) = value[w]
    BY <2>1, ReadWhole DEF Settled
  <2>5. OnDisk' = OnDisk
    BY <2>2 DEF OnDisk
  <2>6. value[w] \in Saving /\ Saving' = {}
    BY <1>5, <2>1, ReturnSaving DEF Rename, Saving
  <2> QED BY <2>3, <2>4, <2>5, <2>6 DEF Register!Succeed
<1>6. CASE Flush
  <2>1. onDisk' = path /\ UNCHANGED <<content, synced, path, value>>
    BY <1>6 DEF Flush
  <2>2. Read(path)' = Read(path)
    BY <2>1 DEF Read
  <2>3. OnDisk' = Read(path)
    <3>1. CASE path = NoFile
      BY <2>1, <3>1 DEF Read, OnDisk
    <3>2. CASE path # NoFile
      <4>1. PICK v \in Value : Settled(path, v)
        BY <1>a, <3>2 DEF Named
      <4>2. path \in Inode
        BY <1>a, <3>2 DEF TypeOK
      <4>3. Read(path) = v
        BY <4>1, <4>2, ReadWhole DEF Settled
      <4> QED BY <2>1, <4>1, <4>2, <4>3, WholeIsOne DEF OnDisk, Settled
    <3> QED BY <3>1, <3>2
  <2>4. Saving' = Saving
    BY <2>1 DEF Saving
  <2> QED BY <2>2, <2>3, <2>4 DEF Register!Next, Register!Flush
<1>7. CASE Kill
  <2>1. Read(path)' = Read(path) /\ OnDisk' = OnDisk
    BY <1>7, Unseen DEF Kill
  <2> QED BY <1>7, <2>1, StopSaving DEF Kill, Register!Next, Register!Abandon
<1>8. CASE PowerLoss
  <2>1. path' = onDisk /\ onDisk' = onDisk
    BY <1>8 DEF PowerLoss
  <2>s. Saving' = {}
    BY <1>8, StopSaving DEF PowerLoss
  <2>2. CASE onDisk = NoFile
    BY <2>1, <2>2, <2>s DEF Register!Next, Register!Lose, Read, OnDisk
  <2>3. CASE onDisk # NoFile
    <3>1. PICK v \in Value : Settled(onDisk, v)
      BY <1>a, <2>3 DEF Named
    <3>2. onDisk \in Inode
      BY <1>a, <2>3 DEF TypeOK
    <3>3. PICK left \in Content :
            /\ \A chunk \in Chunk : left[chunk] \in {content[onDisk][chunk], synced[onDisk][chunk]}
            /\ content' = [content EXCEPT ![onDisk] = left]
            /\ synced' = [synced EXCEPT ![onDisk] = left]
      BY <1>8, <2>3 DEF PowerLoss
    <3>4. left = Whole(v)
      BY <3>1, <3>3 DEF Settled, Whole, Content
    <3>5. UNCHANGED <<content, synced>>
      BY <1>a, <3>1, <3>2, <3>3, <3>4 DEF Settled, TypeOK
    <3>6. OnDisk = v
      BY <3>1, <3>2, OnDiskWhole
    <3>7. OnDisk' = OnDisk
      BY <2>1, <3>5 DEF OnDisk
    <3>8. Read(onDisk) = v
      BY <3>1, <3>2, ReadWhole DEF Settled
    <3>9. Read(path)' = Read(onDisk)
      BY <2>1, <3>5 DEF Read
    <3> QED BY <2>s, <3>6, <3>7, <3>8, <3>9 DEF Register!Next, Register!Lose
  <2> QED BY <2>2, <2>3
<1>9. CASE UNCHANGED vars
  <2>1. Read(path)' = Read(path) /\ OnDisk' = OnDisk
    BY <1>9, Unseen DEF vars
  <2> QED BY <1>9, <2>1 DEF vars, Saving
<1> QED
  BY <1>1, <1>2, <1>3, <1>4, <1>5, <1>6, <1>7, <1>8, <1>9 DEF Next, Step, Register!Next

(* With one writer the file is a register that a power loss may take back to   *)
(* what was flushed: only a rename that succeeds shows, it shows whole, and it *)
(* shows the value that this save was given.                                   *)
THEOREM FileIsRegister == ASSUME OneWriter PROVE Spec => ImplementsRegister
<1>1. Init => Register!Init
  BY DEF Init, Register!Init, Read, OnDisk, Saving
<1> QED
  BY <1>1, FileInit, FileStep, RegisterStep, PTL DEF Spec, ImplementsRegister, Register!Spec
=============================================================================
