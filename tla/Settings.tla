------------------------------ MODULE Settings ------------------------------
(***************************************************************************)
(* What the operators change and a restart must find again: the runtime    *)
(* configuration (ServerState.ApplyRuntimePatch and ReloadConfig, the file *)
(* watcher, config/load/persist.go) and the bans (admin_data.go).  Both    *)
(* files are replaced by way of <file>.tmp, outside state.Mu and under no  *)
(* lock of their own.                                                      *)
(*                                                                         *)
(* An operation is one call of an HTTP handler or of a console command.    *)
(* Files are inodes, because a writer that has opened the temporary file   *)
(* goes on writing to it after another one has renamed it.                 *)
(***************************************************************************)
EXTENDS Naturals, FiniteSets

CONSTANTS Admins,     \* goroutines that run operations
          RtKeys,     \* keys that may change at run time
          BootKeys,   \* keys read at startup only
          Culprits,   \* users that may be banned
          MaxOps, MaxEdits, MaxCrashes   \* bounds

ASSUME SettingsAssumption ==
  /\ RtKeys \cap BootKeys = {}
  /\ IsFiniteSet(Admins) /\ {MaxOps, MaxEdits, MaxCrashes} \subseteq Nat

Keys == RtKeys \cup BootKeys
Files == {"config", "bans"}
Inodes == 1..(2 * Cardinality(Admins) + 3)
NoInode == 0
Nothing == [k |-> "nothing"]     \* also what a truncated file amounts to

VARIABLES inEffect,   \* ServerState.Config: key -> the number of the change that set it
          banned,     \* ServerState.BannedUsers
          undo,       \* LastRuntimeConfigRollback
          path, temp, \* the inode of a file and of its temporary file
          data,       \* what an inode holds
          signature,  \* of the configuration file
          seen,       \* FileWatcher: last
          loaded,     \* what the watcher has read and not yet applied
          call,       \* the operations under way
          ops, edits, crashes,
          kept        \* history: the answered operations' key values and bans

setVars == <<inEffect, banned, undo, path, temp, data, signature, seen, loaded, call,
             ops, edits, crashes, kept>>

NoOp == [pc |-> "idle", file |-> "bans", key |-> CHOOSE k \in RtKeys : TRUE, val |-> 0, clone |-> Nothing,
         before |-> 0, payload |-> Nothing, fd |-> NoInode]

Content(f) == IF path[f] = NoInode THEN Nothing ELSE data[path[f]]

SetInit ==
  /\ inEffect = [k \in Keys |-> 0] /\ banned = {} /\ undo = Nothing
  /\ path = [f \in Files |-> IF f = "config" THEN 1 ELSE NoInode]
  /\ temp = [f \in Files |-> NoInode]
  /\ data = [i \in Inodes |-> IF i = 1 THEN [k |-> "config", v |-> inEffect] ELSE Nothing]
  /\ signature = 0 /\ seen = 0 /\ loaded = Nothing
  /\ call = [a \in Admins |-> NoOp]
  /\ ops = 0 /\ edits = 0 /\ crashes = 0
  /\ kept = [config |-> inEffect, bans |-> {}]

\* ReloadConfig: a key that is read at startup only keeps its value.
ReloadConfig(next) ==
  inEffect' = [k \in Keys |-> IF k \in BootKeys THEN inEffect[k] ELSE next[k]]

-----------------------------------------------------------------------------
(* Operations                                                              *)

Begin(a, rec) == call[a].pc = "idle" /\ ops < MaxOps /\ ops' = ops + 1 /\ call' = [call EXCEPT ![a] = rec]

\* ApplyRuntimePatch: snapshot and clone under Mu, the patch into the clone.
ApplyRuntimePatch(a, k, v) ==
  Begin(a, [NoOp EXCEPT !.pc = "read", !.file = "config", !.key = k, !.val = v,
                        !.clone = [inEffect EXCEPT ![k] = v], !.before = inEffect[k]])

Patch(a, k) ==
  /\ ApplyRuntimePatch(a, k, ops + 1)
  /\ UNCHANGED <<inEffect, banned, undo, path, temp, data, signature, seen, loaded, edits, crashes, kept>>

\* POST /admin/runtime-config/rollback
Rollback(a) ==
  /\ undo # Nothing /\ ApplyRuntimePatch(a, undo.key, undo.val)
  /\ UNCHANGED <<inEffect, banned, undo, path, temp, data, signature, seen, loaded, edits, crashes, kept>>

\* Bans and unbans; the save takes its snapshot under the lock again.
Ban(a, u) ==
  /\ Begin(a, [NoOp EXCEPT !.pc = "snapshot"])
  /\ banned' \in {banned \cup {u}, banned \ {u}}
  /\ UNCHANGED <<inEffect, undo, path, temp, data, signature, seen, loaded, edits, crashes, kept>>

Snapshot(a) ==
  /\ call[a].pc = "snapshot"
  /\ call' = [call EXCEPT ![a].pc = "open", ![a].payload = [k |-> "bans", v |-> banned]]
  /\ UNCHANGED <<inEffect, banned, undo, path, temp, data, signature, seen, loaded, ops, edits, crashes, kept>>

PersistRead_FromMemory(a) ==
  /\ call[a].pc = "read"
  /\ call' = [call EXCEPT ![a].pc = "open", ![a].payload = [k |-> "config", v |-> call[a].clone]]
  /\ UNCHANGED <<inEffect, banned, undo, path, temp, data, signature, seen, loaded, ops, edits, crashes, kept>>

\* PersistConfigValues: the key is set in the text of the file.  A file that
\* is not there or that needs no change is not written; a missing one is only
\* warned of.
PersistRead(a) ==
  /\ call[a].pc = "read"
  /\ LET now == Content("config")
     IN call' = [call EXCEPT ![a] =
          IF now = Nothing \/ now.v[@.key] = @.val THEN [@ EXCEPT !.pc = "reload"]
          ELSE [@ EXCEPT !.pc = "open", !.payload = [k |-> "config", v |-> [now.v EXCEPT ![call[a].key] = call[a].val]]]]
  /\ UNCHANGED <<inEffect, banned, undo, path, temp, data, signature, seen, loaded, ops, edits, crashes, kept>>

Free(i) == (\A f \in Files : i \notin {path[f], temp[f]}) /\ \A b \in Admins : call[b].fd # i
Changed(f, i) == signature' = IF f = "config" /\ path[f] = i THEN signature + 1 ELSE signature

\* os.WriteFile(tmp): opened and truncated, then written.
OpenTemp(a) ==
  /\ call[a].pc = "open"
  /\ LET f == call[a].file
         i == IF temp[f] # NoInode THEN temp[f] ELSE CHOOSE n \in Inodes : Free(n)
     IN /\ temp' = [temp EXCEPT ![f] = i] /\ data' = [data EXCEPT ![i] = Nothing]
        /\ call' = [call EXCEPT ![a].pc = "write", ![a].fd = i]
  /\ UNCHANGED <<inEffect, banned, undo, path, signature, seen, loaded, ops, edits, crashes, kept>>

\* Two that write to one inode may leave a mixture behind.
WriteTemp(a) ==
  /\ call[a].pc = "write"
  /\ LET i == call[a].fd
         mixed == IF data[i] \in {Nothing, call[a].payload} THEN {} ELSE {Nothing}
     IN /\ \E d \in {call[a].payload} \cup mixed : data' = [data EXCEPT ![i] = d]
        /\ Changed(call[a].file, i)
  /\ call' = [call EXCEPT ![a].pc = "rename", ![a].fd = NoInode]
  /\ UNCHANGED <<inEffect, banned, undo, path, temp, seen, loaded, ops, edits, crashes, kept>>

Written(a) == IF call[a].file = "config" THEN "reload" ELSE "answer"

Replaced(f, i) ==
  /\ path' = [path EXCEPT ![f] = i]
  /\ signature' = IF f = "config" THEN signature + 1 ELSE signature

\* When the rename fails, the old file is removed and the rename tried again;
\* here it fails when the temporary file is gone.
Rename(a) ==
  LET f == call[a].file
  IN /\ call[a].pc \in {"rename", "again"}
     /\ IF temp[f] # NoInode
        THEN Replaced(f, temp[f]) /\ temp' = [temp EXCEPT ![f] = NoInode] /\ call' = [call EXCEPT ![a].pc = Written(a)]
        ELSE IF call[a].pc = "rename"
        THEN Replaced(f, NoInode) /\ call' = [call EXCEPT ![a].pc = "again"] /\ UNCHANGED temp
        ELSE call' = [call EXCEPT ![a].pc = Written(a)] /\ UNCHANGED <<path, temp, signature>>
     /\ UNCHANGED <<inEffect, banned, undo, data, seen, loaded, ops, edits, crashes, kept>>

PatchReload(a) ==
  /\ call[a].pc = "reload" /\ ReloadConfig(call[a].clone)
  /\ call' = [call EXCEPT ![a].pc = "answer"]
  /\ UNCHANGED <<banned, undo, path, temp, data, signature, seen, loaded, ops, edits, crashes, kept>>

\* The snapshot for the rollback is stored, the operator has the answer.
Answer(a) ==
  /\ call[a].pc = "answer" /\ call' = [call EXCEPT ![a] = NoOp]
  /\ IF call[a].file = "config"
     THEN /\ undo' = [k |-> "undo", key |-> call[a].key, val |-> call[a].before]
          /\ kept' = [kept EXCEPT !.config[call[a].key] = call[a].val]
     ELSE UNCHANGED undo /\ kept' = [kept EXCEPT !.bans = call[a].payload.v]
  /\ UNCHANGED <<inEffect, banned, path, temp, data, signature, seen, loaded, ops, edits, crashes>>

-----------------------------------------------------------------------------
(* The watcher, an editor, a restart                                       *)

\* loop: the signature is taken before the files are read.
Poll ==
  /\ loaded = Nothing /\ seen # signature /\ seen' = signature
  /\ loaded' = Content("config")
  /\ UNCHANGED <<inEffect, banned, undo, path, temp, data, signature, call, ops, edits, crashes, kept>>

WatcherReload ==
  /\ loaded # Nothing /\ ReloadConfig(loaded.v) /\ loaded' = Nothing
  /\ UNCHANGED <<banned, undo, path, temp, data, signature, seen, call, ops, edits, crashes, kept>>

\* Somebody saves the file in an editor; not a key that is also patched.
Edit(k) ==
  /\ edits < MaxEdits /\ edits' = edits + 1 /\ Content("config") # Nothing
  /\ data' = [data EXCEPT ![path["config"]].v[k] = edits'] /\ signature' = signature + 1
  /\ UNCHANGED <<inEffect, banned, undo, path, temp, seen, loaded, call, ops, crashes, kept>>

\* LoadAdminData takes a missing or broken file for no bans at all.
LoadAdminData == IF Content("bans") = Nothing THEN {} ELSE Content("bans").v

\* The process ends at any point and starts again with what the files hold.
SetRestart ==
  /\ crashes < MaxCrashes /\ crashes' = crashes + 1 /\ Content("config") # Nothing
  /\ inEffect' = Content("config").v /\ banned' = LoadAdminData
  /\ kept' = [config |-> Content("config").v, bans |-> LoadAdminData]
  /\ undo' = Nothing /\ loaded' = Nothing /\ seen' = signature
  /\ call' = [a \in Admins |-> NoOp]
  /\ UNCHANGED <<path, temp, data, signature, ops, edits>>

SetNext ==
  \/ \E a \in Admins :
       \/ \E k \in RtKeys : Patch(a, k)
       \/ \E u \in Culprits : Ban(a, u)
       \/ Rollback(a) \/ Snapshot(a) \/ PersistRead(a) \/ OpenTemp(a) \/ WriteTemp(a)
       \/ Rename(a) \/ PatchReload(a) \/ Answer(a)
  \/ Poll \/ WatcherReload \/ SetRestart
  \/ \E k \in BootKeys : Edit(k)

SetSpec == SetInit /\ [][SetNext]_setVars

-----------------------------------------------------------------------------

\* A restart at any moment finds what the operators were told is in force: the
\* file has the value of every answered patch and the bans of the last answered
\* save, or those of the operation under way.  One operator at a time, but
\* beside the watcher, whose reloads come in late, and an editor.
RestartKeeps ==
  /\ Content("config") # Nothing
  /\ \A k \in RtKeys :
       Content("config").v[k] \in {kept.config[k]} \cup {call[a].val : a \in {b \in Admins : call[b].file = "config" /\ call[b].key = k}}
  /\ LoadAdminData \in {kept.bans} \cup {call[a].payload.v : a \in {b \in Admins : call[b].payload # Nothing /\ call[b].file = "bans"}}

\* "SaveAdminData writes the bans back atomically (a temporary file, then
\* rename)": a ban that was answered is in a file that can be read.
BansAreSaved == kept.bans # {} => Content("bans") # Nothing
=============================================================================
