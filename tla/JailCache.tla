----------------------------- MODULE JailCache -----------------------------
(***************************************************************************)
(* link_or_cache (iso-firecracker, jail.rs) for a source on another        *)
(* filesystem than the jails: it is copied once into the cache directory,  *)
(* under a name beside its own made of the file's name and the process id, *)
(* then renamed, and the jails link the cached copy.  Jails are made by    *)
(* threads of the daemon, one per VM being created, and by a bake, which   *)
(* is a process of its own.  A file is an inode that writers share when    *)
(* they open the same name.                                                *)
(***************************************************************************)
EXTENDS Naturals

CONSTANTS
  Makers,      \* the calls of link_or_cache in progress at once
  InDaemon,    \* those of the daemon's threads; each other is a process of its own
  Inodes       \* files there may be at once; no jail is ever removed

VARIABLES
  at,       \* where each call is
  tmp,      \* the inode at each process's temporary name, 0 for none
  cached,   \* the inode at the cached name, 0 for none
  whole,    \* inodes that hold the whole source
  fd,       \* the inode each call writes, 0 once another call has truncated it
  jails,    \* the inodes calls have put into their jails
  shared    \* history: inodes opened while another call of the process was copying

vars == <<at, tmp, cached, whole, fd, jails, shared>>

Process(m) == IF m \in InDaemon THEN "daemon" ELSE m
Processes == {Process(m) : m \in Makers}

\* Another call of the process is between opening the temporary name and renaming.
Copying(m) == \E o \in Makers \ {m} : Process(o) = Process(m) /\ at[o] \in {"write", "rename"}

Fresh(i) == /\ i # cached /\ i \notin jails
            /\ \A p \in Processes : tmp[p] # i
            /\ \A m \in Makers : fd[m] # i

Init ==
  /\ at = [m \in Makers |-> "look"]
  /\ tmp = [p \in Processes |-> 0] /\ cached = 0
  /\ fd = [m \in Makers |-> 0]
  /\ whole = {} /\ jails = {} /\ shared = {}

\* if !cached.exists()
Look(m) ==
  /\ at[m] = "look"
  /\ at' = [at EXCEPT ![m] = IF cached # 0 THEN "link" ELSE "copy"]
  /\ UNCHANGED <<tmp, cached, whole, fd, jails, shared>>

\* The call opens inode i, truncating it: what others still write is lost.
Opens(m, i) ==
  /\ whole' = whole \ {i}
  /\ fd' = [o \in Makers |-> IF o = m THEN i ELSE IF fd[o] = i THEN 0 ELSE fd[o]]
  /\ shared' = IF Copying(m) THEN shared \cup {i} ELSE shared \ {i}
  /\ at' = [at EXCEPT ![m] = "write"]

CopyInPlace(m) ==
  /\ at[m] = "copy"
  /\ \E i \in Inodes :
       /\ IF cached # 0 THEN i = cached ELSE Fresh(i)
       /\ Opens(m, i)
       /\ cached' = i
  /\ UNCHANGED <<tmp, jails>>

\* fs::copy opens the temporary name, truncating what is there, ...
Copy(m) ==
  /\ at[m] = "copy"
  /\ \E i \in Inodes :
       /\ IF tmp[Process(m)] # 0 THEN i = tmp[Process(m)] ELSE Fresh(i)
       /\ Opens(m, i)
       /\ tmp' = [tmp EXCEPT ![Process(m)] = i]
  /\ UNCHANGED <<cached, jails>>

\* ... and writes it; the file is whole once whoever truncated it last is done.
Written(m) ==
  /\ at[m] = "write"
  /\ whole' = IF fd[m] # 0 THEN whole \cup {fd[m]} ELSE whole
  /\ fd' = [fd EXCEPT ![m] = 0]
  /\ at' = [at EXCEPT ![m] = "rename"]
  /\ UNCHANGED <<tmp, cached, jails, shared>>

\* A name that is gone fails the rename, and with it the call.
Rename(m) ==
  /\ at[m] = "rename"
  /\ IF tmp[Process(m)] = 0
       THEN at' = [at EXCEPT ![m] = "look"] /\ UNCHANGED <<tmp, cached>>
       ELSE /\ cached' = tmp[Process(m)]
            /\ tmp' = [tmp EXCEPT ![Process(m)] = 0]
            /\ at' = [at EXCEPT ![m] = "link"]
  /\ UNCHANGED <<whole, fd, jails, shared>>

\* The jail gets a link to the cached copy, or a copy of it where that fails.
LinkCached(m) ==
  /\ at[m] = "link"
  /\ \/ jails' = jails \cup {cached} /\ UNCHANGED <<whole, shared>>
     \/ \E i \in Inodes :
          /\ Fresh(i)
          /\ jails' = jails \cup {i}
          /\ whole' = IF cached \in whole THEN whole \cup {i} ELSE whole \ {i}
          /\ shared' = IF cached \in shared THEN shared \cup {i} ELSE shared \ {i}
  /\ at' = [at EXCEPT ![m] = "look"]
  /\ UNCHANGED <<tmp, cached, fd>>

\* A copy or link fails, and the call with it.
Fail(m) ==
  /\ at[m] \in {"copy", "write", "rename", "link"}
  /\ at' = [at EXCEPT ![m] = "look"]
  /\ fd' = [fd EXCEPT ![m] = 0]
  /\ UNCHANGED <<tmp, cached, whole, jails, shared>>

\* A process dies with its calls; its files stay.
Crash(p) ==
  /\ \E m \in Makers : Process(m) = p /\ at[m] # "look"
  /\ at' = [m \in Makers |-> IF Process(m) = p THEN "look" ELSE at[m]]
  /\ fd' = [m \in Makers |-> IF Process(m) = p THEN 0 ELSE fd[m]]
  /\ UNCHANGED <<tmp, cached, whole, jails, shared>>

Next ==
  \/ \E m \in Makers : \/ Look(m) \/ Copy(m) \/ Written(m) \/ Rename(m)
                       \/ LinkCached(m) \/ Fail(m)
  \/ \E p \in Processes : Crash(p)

Spec == Init /\ [][Next]_vars

\* What a jail is given is the whole source, and stays so: no crash or failure
\* leaves half a copy under the cached name, and no other process writes the
\* file a jail has linked (the comment on link_or_cache: copied once, then
\* linked).  The one file that may not be is a copy begun while another call of
\* the same process was at its own: the temporary name is the process's, and the
\* one renames what the other writes.
LinksWhole == jails \subseteq whole \cup shared

\* It does not hold of those: two creates in one daemon, the first to link a
\* kernel from another filesystem, may give a jail half of it.
AlwaysWhole == jails \subseteq whole
=============================================================================
