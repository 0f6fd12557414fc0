------------------------------- MODULE StateFile -------------------------------
(* write_json of state.rs, by which the state file and the pin file are saved: *)
(* create or truncate <path>.<pid>.tmp, write it, sync it, rename it over the  *)
(* path.  The writers are tasks of one daemon that save the same file at once; *)
(* they have one pid and so one temporary name.  Any call may fail, the        *)
(* process may be killed and the machine may lose power.                       *)
(*                                                                             *)
(* Of the file system: a name leads to an inode, an open file stays with its   *)
(* inode whatever happens to the name, writes go to the page cache at the      *)
(* writer's own offset, and only a sync makes sure that they are on the disk.  *)
(* A rename is atomic; the directory reaches the disk some time later.         *)
EXTENDS FiniteSets

CONSTANTS Value,    \* what there is to save
          Missing,  \* data that is not there
          NoFile,   \* no inode
          Inode,    \* enough of them for every name and every open file
          Writer    \* tasks of the daemon that save

(* A value takes two writes; longer files only take more of the same.          *)
Chunk == {"head", "tail"}
Content == [Chunk -> Value \cup {Missing}]
Whole(value) == [chunk \in Chunk |-> value]
Empty == Whole(Missing)

ASSUME SentinelAssumption == Missing \notin Value /\ NoFile \notin Inode

VARIABLES
  content,    \* what a reader sees in an inode
  synced,     \* what is sure to be on the disk of it
  path, tmp,  \* the inodes that the two names lead to, or NoFile
  onDisk,     \* the inode that the directory on the disk has for path
  pc, value, file   \* each writer's step, what it saves, its open file

fs == <<content, synced, path, tmp, onDisk>>
local == <<pc, value, file>>
vars == <<fs, local>>

Init ==
  /\ content = [i \in Inode |-> Empty] /\ synced = [i \in Inode |-> Empty]
  /\ path = NoFile /\ tmp = NoFile /\ onDisk = NoFile
  /\ pc = [w \in Writer |-> "idle"]
  /\ value \in [Writer -> {Missing}] /\ file = [w \in Writer |-> NoFile]

InUse == {path, tmp, onDisk} \cup {file[w] : w \in Writer}

(* Mutant of Return: the writer keeps what it was saving.                       *)
ReturnOpen(w) ==
  /\ pc' = [pc EXCEPT ![w] = "idle"]
  /\ UNCHANGED <<value, file>>

Return(w) ==
  /\ pc' = [pc EXCEPT ![w] = "idle"]
  /\ value' = [value EXCEPT ![w] = Missing]
  /\ file' = [file EXCEPT ![w] = NoFile]

Save(w, v) ==
  /\ pc[w] = "idle"
  /\ pc' = [pc EXCEPT ![w] = "open"]
  /\ value' = [value EXCEPT ![w] = v]
  /\ UNCHANGED <<fs, file>>

(* Mutant of Open: the file itself is opened, with no temporary one.           *)
OpenInPlace(w) ==
  /\ pc[w] = "open"
  /\ \E i \in Inode :
       /\ IF path # NoFile THEN i = path ELSE i \notin InUse
       /\ tmp' = i
       /\ content' = [content EXCEPT ![i] = Empty]
       /\ file' = [file EXCEPT ![w] = i]
  /\ pc' = [pc EXCEPT ![w] = "head"]
  /\ UNCHANGED <<synced, path, onDisk, value>>

(* open with create and truncate: the inode of the name if there is one, else  *)
(* a new one.                                                                  *)
Open(w) ==
  /\ pc[w] = "open"
  /\ \E i \in Inode :
       /\ IF tmp # NoFile THEN i = tmp ELSE i \notin InUse
       /\ tmp' = i
       /\ content' = [content EXCEPT ![i] = Empty]
       /\ synced' = [synced EXCEPT ![i] = IF tmp = NoFile THEN Empty ELSE @]
       /\ file' = [file EXCEPT ![w] = i]
  /\ pc' = [pc EXCEPT ![w] = "head"]
  /\ UNCHANGED <<path, onDisk, value>>

(* write_all, chunk by chunk.                                                  *)
Write(w, chunk, next) ==
  /\ pc[w] = chunk
  /\ content' = [content EXCEPT ![file[w]][chunk] = value[w]]
  /\ pc' = [pc EXCEPT ![w] = next]
  /\ UNCHANGED <<synced, path, tmp, onDisk, value, file>>

(* Mutant of Sync: the data is left in the page cache.                         *)
NoSync(w) ==
  /\ pc[w] = "sync"
  /\ pc' = [pc EXCEPT ![w] = "rename"]
  /\ UNCHANGED <<fs, value, file>>

(* sync_all.                                                                   *)
Sync(w) ==
  /\ pc[w] = "sync"
  /\ synced' = [synced EXCEPT ![file[w]] = content[file[w]]]
  /\ pc' = [pc EXCEPT ![w] = "rename"]
  /\ UNCHANGED <<content, path, tmp, onDisk, value, file>>

(* open, write_all or sync_all fails: the error is returned and the temporary  *)
(* file stays where it is.                                                     *)
Fail(w) ==
  /\ pc[w] \in {"open", "head", "tail", "sync"}
  /\ Return(w)
  /\ UNCHANGED fs

(* The rename, of whatever file the temporary name leads to by now.            *)
Rename(w) ==
  /\ pc[w] = "rename"
  /\ tmp # NoFile
  /\ path' = tmp /\ tmp' = NoFile
  /\ Return(w)
  /\ UNCHANGED <<content, synced, onDisk>>

(* A rename that fails, as it must if the name is gone: the name is removed.   *)
RenameFails(w) ==
  /\ pc[w] = "rename"
  /\ tmp' = NoFile
  /\ Return(w)
  /\ UNCHANGED <<content, synced, path, onDisk>>

-----------------------------------------------------------------------------
(* The machine.                                                                *)

(* The directory gets to the disk.                                             *)
Flush == onDisk' = path /\ UNCHANGED <<content, synced, path, tmp, local>>

(* The next process has a temporary name of its own, so that the old one plays *)
(* no part any more, unless it is given the same pid, as in a container.       *)
Stop ==
  /\ pc' = [w \in Writer |-> "idle"]
  /\ value' = [w \in Writer |-> Missing] /\ file' = [w \in Writer |-> NoFile]
  /\ tmp' \in {tmp, NoFile}

(* The daemon is killed.  Nothing written is lost.                             *)
Kill == Stop /\ UNCHANGED <<content, synced, path, onDisk>>

(* The power goes.  Of data that was not synced any part may have been written.*)
PowerLoss ==
  /\ Stop
  /\ path' = onDisk
  /\ IF onDisk = NoFile THEN UNCHANGED <<content, synced>>
     ELSE \E left \in Content :
            /\ \A chunk \in Chunk : left[chunk] \in {content[onDisk][chunk], synced[onDisk][chunk]}
            /\ content' = [content EXCEPT ![onDisk] = left]
            /\ synced' = [synced EXCEPT ![onDisk] = left]
  /\ UNCHANGED onDisk

Step(w) ==
  \/ \E v \in Value : Save(w, v)
  \/ Open(w) \/ Write(w, "head", "tail") \/ Write(w, "tail", "sync") \/ Sync(w)
  \/ Fail(w) \/ Rename(w) \/ RenameFails(w)

Next == (\E w \in Writer : Step(w)) \/ Flush \/ Kill \/ PowerLoss

Spec == Init /\ [][Next]_vars

-----------------------------------------------------------------------------
(* Properties.                                                                 *)

(* What a reader finds under the name, and what the disk holds of it.          *)
Read(i) == IF i = NoFile THEN Missing
           ELSE IF \E v \in Value : content[i] = Whole(v)
           THEN CHOOSE v \in Value : content[i] = Whole(v) ELSE "torn"
OnDisk == IF onDisk = NoFile THEN Missing
          ELSE IF \E v \in Value : content[onDisk] = Whole(v) /\ synced[onDisk] = Whole(v)
          THEN CHOOSE v \in Value : content[onDisk] = Whole(v) ELSE "torn"

TypeOK ==
  /\ content \in [Inode -> Content] /\ synced \in [Inode -> Content]
  /\ {path, tmp, onDisk} \subseteq Inode \cup {NoFile}
  /\ pc \in [Writer -> {"idle", "open", "head", "tail", "sync", "rename"}]
  /\ value \in [Writer -> Value \cup {Missing}]
  /\ file \in [Writer -> Inode \cup {NoFile}]
  /\ \A w \in Writer : /\ pc[w] = "idle" <=> value[w] = Missing
                       /\ pc[w] \in {"idle", "open"} <=> file[w] = NoFile

(* "An interrupted write cannot destroy what was there" (state.rs), "replaced  *)
(* atomically" (CONTRACT.md): at any moment, were the daemon killed or the     *)
(* power lost, the next start finds one whole value, or the file it never had. *)
NeverTorn ==
  /\ path # NoFile => \E v \in Value : content[path] = Whole(v)
  /\ onDisk # NoFile => \E v \in Value : content[onDisk] = Whole(v) /\ synced[onDisk] = Whole(v)

(* With one writer the file is the register of LossyRegister: every step of    *)
(* write_json but the rename leaves the value alone, failed ones included, and *)
(* the rename puts there what this save was given.                             *)
Saving == {value[w] : w \in Writer} \ {Missing}

Register == INSTANCE LossyRegister
              WITH NoValue <- Missing, current <- Read(path), durable <- OnDisk, saving <- Saving

ImplementsRegister == Register!Spec
=============================================================================
