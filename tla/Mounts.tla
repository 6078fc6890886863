-------------------------------- MODULE Mounts --------------------------------
(***************************************************************************)
(* The merge of a checkpoint, run by the user interface while the          *)
(* dispatcher, another process, goes on writing and removing the files of  *)
(* module BackupFiles: CheckpointMerge finds a base image, copies it,      *)
(* lists the .bak files and writes them into the copy one after the other. *)
(*                                                                         *)
(* A file is read at once.  Files only grow at their end while they are    *)
(* written, and one that is removed stays as it was for who has it open:   *)
(* what CopyFile and processBackupFile read is what a file was when they   *)
(* met its end.                                                            *)
(***************************************************************************)
EXTENDS BackupFiles

VARIABLES
    mount,     \* the merge the user asked for last
    past,      \* history: the disk at the end of each minute
    appended   \* history: names of images that hold more than one full backup

allVars == <<vars, mount, past, appended>>

-----------------------------------------------------------------------------
Ended == {"idle", "done", "stale", "error", "panic"}

\* A block that no file gave content to.
Blank == [b \in Block |-> Never]

NoMount == [pc |-> "idle", kind |-> "bak", upto |-> 0, base |-> NoFile, image |-> Blank,
            files |-> {}, ok |-> TRUE, at |-> Never, once |-> TRUE, owed |-> {}]

MountsInit ==
    /\ Init
    /\ mount = NoMount /\ appended = {}
    /\ past = [m \in Name |-> disk]

\* CheckpointMerge of a .bak file.
MountBak(c) ==
    /\ mount.pc \in Ended
    /\ bak[c].at # Never
    /\ mount' = [NoMount EXCEPT !.pc = "base", !.upto = c]

\* Mutant: the base is left to latestSnapshot.
MountImgBare(m) ==
    /\ mount.pc \in Ended
    /\ m \in Images
    /\ mount' = [NoMount EXCEPT !.pc = "copy", !.kind = "img", !.upto = m]

\* CheckpointMergeFromSnapshot: an .img file is its own base.
MountImg(m) ==
    /\ mount.pc \in Ended
    /\ m \in Images
    /\ mount' = [NoMount EXCEPT !.pc = "copy", !.kind = "img", !.upto = m, !.base = m]

\* latestSnapshot: the last .img file by name, without asking for its age, and
\* without asking whether there is one.
FindBase ==
    /\ mount.pc = "base"
    /\ IF Images = {} THEN mount' = [mount EXCEPT !.pc = "panic"]
       ELSE \E m \in Images : /\ IsGreatest(m, Images)
                              /\ mount' = [mount EXCEPT !.pc = "copy", !.base = m]

\* CopyFile.  Past its end an image is blank.
CopyBase ==
    LET s == snap[mount.base]
    IN /\ mount.pc = "copy" /\ s.img # Never
       /\ mount' = [mount EXCEPT
                      !.pc = "list", !.at = s.img, !.once = mount.base \notin appended,
                      !.image = [b \in Block |-> IF b + 1 \in DOMAIN s.data
                                                 THEN s.data[b + 1] ELSE Never]]

\* CopyFile fails: nobody looks at the result of processAndCheckCompletion, and
\* the user gets what an earlier merge of this checkpoint may have left.
FailCopy ==
    /\ mount.pc = "copy"
    /\ snap[mount.base].img = Never \/ "file" \in Faults
    /\ mount' = [mount EXCEPT !.pc = IF mount.kind = "bak" THEN "stale" ELSE "error"]

\* What files up to minute c have to give: captures whose file is written and
\* not old enough for a cleanup that has started.
Due(c) ==
    {e \in captured \ gone : /\ e.file <= c /\ e.file < MinuteOf(now)
                             /\ e.file # writer.file /\ Fresh(e.file)}

\* Mutant: every file is selected.
ListBaksAll ==
    /\ mount.pc = "list"
    /\ mount' = [mount EXCEPT !.pc = "apply", !.files = {m \in Name : bak[m].at # Never},
                              !.owed = Due(mount.upto)]

\* ProcessIncrementalBackups lists and selects the files.
ListBaks ==
    /\ mount.pc = "list"
    /\ mount' = [mount EXCEPT !.pc = "apply", !.files = MergedFiles(mount.upto),
                              !.owed = Due(mount.upto)]

\* Mutant: the files in the order of their directory, or any other.
IsNextAny(m) == m \in mount.files

\* The files are taken in the order of their minutes.
IsNext(m) == m \in mount.files /\ \A k \in mount.files : m <= k

\* An image once the entries s are written into it one after the other.
Written(image, s) ==
    [b \in Block |-> IF Places(s, b) = {} THEN image[b] ELSE LastVer(s, b)]

\* processBackupFile
ApplyBak(m) ==
    /\ mount.pc = "apply" /\ IsNext(m)
    /\ bak[m].at # Never
    /\ mount' = [mount EXCEPT !.files = @ \ {m}, !.image = Written(@, bak[m].data)]

\* The file is gone.  CheckpointMerge returns the image all the same, but for an
\* .img checkpoint.
MissBak(m) ==
    /\ mount.pc = "apply" /\ IsNext(m)
    /\ bak[m].at = Never
    /\ mount' = [mount EXCEPT !.pc = IF mount.kind = "bak" THEN "done" ELSE "error",
                              !.ok = FALSE]

EndMerge ==
    /\ mount.pc = "apply" /\ mount.files = {}
    /\ mount' = [mount EXCEPT !.pc = "done"]

MountStep ==
    \/ FindBase \/ CopyBase \/ FailCopy \/ ListBaks \/ EndMerge
    \/ \E m \in Name : MountBak(m) \/ MountImg(m) \/ ApplyBak(m) \/ MissBak(m)

\* What the history keeps of a step of the dispatcher or the agent.
Remember ==
    /\ past' = [past EXCEPT ![MinuteOf(now')] = disk']
    /\ appended' = IF stream = NoStream /\ stream' # NoStream /\ snap[stream'.file].img # Never
                   THEN appended \cup {stream'.file} ELSE appended

MountsNext ==
    \/ Next /\ Remember /\ UNCHANGED mount
    \/ MountStep /\ UNCHANGED <<vars, past, appended>>

MountsSpec == MountsInit /\ [][MountsNext]_allVars

-----------------------------------------------------------------------------
(* Properties *)

MountsTypeOK ==
    /\ mount \in [pc : Ended \cup {"base", "copy", "list", "apply"}, kind : {"bak", "img"},
                  upto : Name, base : Name \cup {NoFile},
                  image : [Block -> Nat \cup {Never}], files : SUBSET Name, ok : BOOLEAN,
                  at : Stamp, once : BOOLEAN,
                  owed : SUBSET [blk : Block, ver : Nat, file : Name]]
    /\ mount.pc = "copy" => mount.base \in Name
    /\ past \in [Name -> [Block -> Nat]]
    /\ appended \subseteq Name

\* The later of minute m and that of time t.
LaterOf(m, t) == IF m <= MinuteOf(t) THEN MinuteOf(t) ELSE m

\* The merged image never holds content younger than both the checkpoint and the
\* base image: nothing from a file of a later minute gets in, and what the base
\* gives was on the disk when the base was last written; whatever is written,
\* appended and removed while the merge runs.  An image that a second full
\* backup was appended to is excepted.
PointInTime ==
    mount.pc = "done" /\ mount.once =>
        \A b \in Block : mount.image[b] <= past[LaterOf(mount.upto, mount.at)][b]

\* A merge that met no error gives each block at least as new as the files it
\* had to take captured it: listing the files and reading them one by one loses
\* nothing to the cleanup that goes on.
Gives(image, E) == \A e \in E : e.ver <= image[e.blk]

MountComplete == mount.pc = "done" /\ mount.ok => Gives(mount.image, mount.owed)

\* README.md line 186: "You can also mount the disk backups to any available
\* point in time".  With a base that is not later than the checkpoint, a block
\* whose content at the end of the checkpoint's minute is in a file the merge had
\* to take has exactly that content in the image.
MountExact ==
    mount.pc = "done" /\ mount.ok /\ mount.once /\ MinuteOf(mount.at) <= mount.upto =>
        \A e \in mount.owed :
            e.ver = past[mount.upto][e.blk] => mount.image[e.blk] = e.ver

(* Why they hold: the parts of an inductive invariant. *)

\* The history of the disk ends with the disk as it is, and blocks only get younger.
PastGrows ==
    /\ past[MinuteOf(now)] = disk
    /\ \A m \in Name, k \in Name, b \in Block :
          m <= k /\ k <= MinuteOf(now) => past[m][b] <= past[k][b]

\* Entries are no younger than the minute of their file.
UpToMinute(s, m) == \A x \in Elements(s) : x.ver <= past[m][x.blk]

FilesPast ==
    /\ \A m \in Name : /\ bak[m].at # Never => m <= MinuteOf(now)
                       /\ UpToMinute(bak[m].data, m)
    /\ writer.file # NoFile => UpToMinute(writer.enc, writer.file)

\* The blocks of an image are in their places, and no younger than the image.
ImagesPast ==
    \A m \in Images \ appended :
        \A i \in DOMAIN snap[m].data :
            i - 1 \in Block /\ snap[m].data[i] <= past[MinuteOf(snap[m].img)][i - 1]

\* The next block a full backup gets is the one its image lacks.
StreamInPlace ==
    stream # NoStream /\ stream.file \notin appended =>
        stream.next = IF snap[stream.file].img = Never THEN 0
                      ELSE Len(snap[stream.file].data)

\* The merged image so far is no younger than the checkpoint or the base.
ImageBounded ==
    /\ mount.pc # "idle" => mount.upto <= MinuteOf(now)
    /\ mount.at # Never => mount.at <= now
    /\ mount.pc \in {"list", "apply", "done"} =>
          /\ mount.at # Never
          /\ mount.once =>
                \A b \in Block : mount.image[b] <= past[LaterOf(mount.upto, mount.at)][b]
    /\ mount.pc = "apply" => \A m \in mount.files : m <= mount.upto

\* Captures the merge has to give are in files nobody writes to any more, and in
\* the image once it is past their file.
OwedStored ==
    /\ mount.pc = "apply" => \A e \in mount.owed :
          /\ e.file < MinuteOf(now) /\ e.file # writer.file
          /\ [blk |-> e.blk, ver |-> e.ver] \in Elements(bak[e.file].data)
          /\ \/ e.file \in mount.files
             \/ e.ver <= mount.image[e.blk] /\ \A m \in mount.files : e.file < m
    /\ MountComplete

MInv == /\ MountsTypeOK /\ PastGrows /\ FilesPast /\ ImagesPast /\ StreamInPlace
        /\ ImageBounded /\ OwedStored
=============================================================================
