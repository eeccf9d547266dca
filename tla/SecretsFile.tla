---------------------------- MODULE SecretsFile ----------------------------
(***************************************************************************)
(* TomlSecretProvider (iso-secrets): secrets.toml kept in memory and read  *)
(* again when its modification time changes, checked by every request, on  *)
(* the runtime's threads, and by the watcher.  The operator saves the file *)
(* whenever they like, each save with a modification time of its own.      *)
(***************************************************************************)
EXTENDS Naturals

CONSTANTS
  Readers,      \* requests in progress at once; the watcher is one that asks nothing
  MaxSaves,     \* how often the operator saves the file
  MaxRequests,  \* how many times each reader looks
  SavesAtLoad   \* the file may be saved while iso-secretsd starts

VARIABLES
  disk,    \* the file: which save it is of, whether it parses, its mtime
  cache,   \* what is in memory: which save, and the mtime recorded with it
  load,    \* TomlSecretProvider::load: where it is
  reader,  \* each reader: where it is, the mtime it saw, the save it read
  looks    \* how many times each reader has looked

vars == <<disk, cache, load, reader, looks>>

Quiet == [pc |-> "idle", mtime |-> 0, file |-> 0]

Init ==
  /\ disk = [save |-> 1, parses |-> TRUE, mtime |-> 1]
  /\ cache = [save |-> 0, mtime |-> 0]
  /\ load = "text"
  /\ reader = [r \in Readers |-> Quiet] /\ looks = [r \in Readers |-> 0]

\* The operator saves the file, well-formed or not.
Save ==
  /\ disk.save < MaxSaves
  /\ load = "up" \/ SavesAtLoad
  /\ \E ok \in BOOLEAN :
       disk' = [save |-> disk.save + 1, parses |-> ok, mtime |-> disk.mtime + 1]
  /\ UNCHANGED <<cache, load, reader, looks>>

\* load: the text first, its modification time after; not at all if it does
\* not parse.
LoadText ==
  /\ load = "text" /\ disk.parses
  /\ cache' = [cache EXCEPT !.save = disk.save]
  /\ load' = "mtime"
  /\ UNCHANGED <<disk, reader, looks>>

LoadMtime ==
  /\ load = "mtime"
  /\ cache' = [cache EXCEPT !.mtime = disk.mtime]
  /\ load' = "up"
  /\ UNCHANGED <<disk, reader, looks>>

-----------------------------------------------------------------------------
(* reload_if_changed, in the three places where others can get in between. *)

\* The file's mtime against the one in memory.
Look(r) ==
  /\ load = "up" /\ reader[r].pc = "idle" /\ looks[r] < MaxRequests
  /\ looks' = [looks EXCEPT ![r] = @ + 1]
  /\ reader' = [reader EXCEPT ![r] =
       [pc |-> IF cache.mtime = disk.mtime THEN "answer" ELSE "read",
        mtime |-> disk.mtime, file |-> 0]]
  /\ UNCHANGED <<disk, cache, load>>

\* read_to_string and from_str; a file that does not parse is left for later.
Read(r) ==
  /\ reader[r].pc = "read"
  /\ reader' = [reader EXCEPT ![r].file = disk.save,
                              ![r].pc = IF disk.parses THEN "install" ELSE "answer"]
  /\ UNCHANGED <<disk, cache, load, looks>>

InstallLateMtime(r) ==
  /\ reader[r].pc = "install"
  /\ cache' = [save |-> reader[r].file, mtime |-> disk.mtime]
  /\ reader' = [reader EXCEPT ![r].pc = "answer"]
  /\ UNCHANGED <<disk, load, looks>>

\* Installed with the mtime seen before the file was read.
Install(r) ==
  /\ reader[r].pc = "install"
  /\ cache' = [save |-> reader[r].file, mtime |-> reader[r].mtime]
  /\ reader' = [reader EXCEPT ![r].pc = "answer"]
  /\ UNCHANGED <<disk, load, looks>>

\* headers and names, answered from memory as it is by then.
Answer(r) ==
  /\ reader[r].pc = "answer"
  /\ reader' = [reader EXCEPT ![r] = Quiet]
  /\ UNCHANGED <<disk, cache, load, looks>>

Next ==
  \/ Save \/ LoadText \/ LoadMtime
  \/ \E r \in Readers : Look(r) \/ Read(r) \/ Install(r) \/ Answer(r)

Spec == Init /\ [][Next]_vars

(* No edit is lost: whenever memory carries the modification time the file  *)
(* has now, so that nobody will read it again, memory holds that very       *)
(* content, although readers install what they read in any order and a file *)
(* is saved between its mtime's reading and its own.                        *)
NoEditLost ==
  load = "up" /\ cache.mtime = disk.mtime => cache.save = disk.save
=============================================================================
