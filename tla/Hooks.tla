------------------------------- MODULE Hooks --------------------------------
(***************************************************************************)
(* Event hooks, src/src/hooks.rs.  Hooks are configured in a manifest file *)
(* and a script file each.  Every host process reads the manifest anew for *)
(* each command, and rewrites it in place, without a lock: fs::write first *)
(* empties the file, and a manifest that does not parse reads as no hooks. *)
(* A process can be torn down at any point, as the browser may do to the   *)
(* whole process group once it has its reply.                              *)
(*                                                                         *)
(* A hook is an id and its enabled flag; one lifecycle event stands for    *)
(* all, and what a script says, for any actions.                           *)
(***************************************************************************)
EXTENDS Naturals, Sequences, FiniteSets

CONSTANTS
  HookProc,   \* host processes
  HookId,     \* ids of hooks, as generated or given
  MaxHookOps  \* bound of the model: commands over the run

ASSUME HooksAssumption == MaxHookOps \in Nat

VARIABLES
  manifest,  \* hooks.json: a sequence of hooks (empty while torn)
  scripts,   \* ids whose script file exists
  task,      \* what each process is doing
  hookOps,   \* commands so far
  clashed,   \* history: two writers were active at once
  buried     \* history: hooks deleted and not touched since

hookVars == <<manifest, scripts, task, hookOps, clashed, buried>>

NoTask == [op |-> "none", id |-> "none", list |-> <<>>, todo |-> <<>>, ran |-> <<>>, clean |-> FALSE]
Hook(id, on) == [id |-> id, on |-> on]
Listed(list, id) == \E i \in DOMAIN list : list[i].id = id
Busy(p) == task[p].op # "none"
Changes(op) == op \in {"save", "delete", "enable"}
Changing(p) == Changes(task[p].op)

-----------------------------------------------------------------------------
HooksInit ==
  /\ manifest = <<>> /\ scripts = {} /\ hookOps = 0 /\ clashed = FALSE /\ buried = {}
  /\ task = [p \in HookProc |-> NoTask]

(* The list without a hook; ids are unique in it, so one entry goes.        *)
Retained(id) ==
  LET at == CHOOSE i \in DOMAIN manifest : manifest[i].id = id IN
  IF ~Listed(manifest, id) THEN manifest
  ELSE [i \in 1..(Len(manifest) - 1) |-> IF i < at THEN manifest[i] ELSE manifest[i + 1]]

(* The list as the command wants it: an entry replaced or appended (save), *)
(* removed (delete), its flag set if it is there (set_enabled).            *)
Revised(op, id, on) ==
  CASE op = "delete" -> Retained(id)
    [] op = "save" /\ ~Listed(manifest, id) -> Append(manifest, Hook(id, on))
    [] OTHER -> [i \in DOMAIN manifest |->
                   IF manifest[i].id = id THEN Hook(id, on) ELSE manifest[i]]

(* Mutant: the script of a deleted hook is left. *)
ScriptLeft(op, known) ==
  IF op = "save" /\ ~known THEN <<"scaffold", "empty", "write">> ELSE <<"empty", "write">>

(* The file operations of a command after it has read the manifest.        *)
FileSteps(op, known) ==
  CASE op = "save"   -> IF known THEN <<"empty", "write">> ELSE <<"scaffold", "empty", "write">>
    [] op = "enable" -> <<"empty", "write">>
    [] op = "delete" -> <<"empty", "write", "remove">>

(* hooks_save, hooks_delete and hooks_set_enabled: load_manifest first.    *)
Configure(p, op, id, on) ==
  /\ ~Busy(p) /\ hookOps < MaxHookOps
  /\ hookOps' = hookOps + 1
  /\ task' = [q \in HookProc |->
       IF q = p THEN [NoTask EXCEPT
              !.op = op, !.id = id, !.list = Revised(op, id, on),
              !.todo = FileSteps(op, Listed(manifest, id)),
              !.clean = \A o \in HookProc : ~(task[o].op = "save" /\ task[o].id = id)]
       ELSE IF op = "save" /\ task[q].id = id THEN [task[q] EXCEPT !.clean = FALSE]
       ELSE task[q]]
  /\ clashed' = (clashed \/ \E q \in HookProc : Changing(q))
  /\ buried' = IF op = "save" THEN buried \ {id} ELSE buried
  /\ UNCHANGED <<manifest, scripts>>

SaveHook(p) == \E id \in HookId, on \in BOOLEAN : Configure(p, "save", id, on)
DeleteHook(p) == \E id \in HookId : Configure(p, "delete", id, FALSE)
SetEnabled(p) == \E id \in HookId, on \in BOOLEAN : Configure(p, "enable", id, on)

(* hooks_set_script writes the script of any id it is given.               *)
SetScript(id) ==
  /\ hookOps < MaxHookOps /\ hookOps' = hookOps + 1
  /\ scripts' = scripts \cup {id}
  /\ buried' = buried \ {id}
  /\ task' = [q \in HookProc |->
       IF task[q].id = id THEN [task[q] EXCEPT !.clean = FALSE] ELSE task[q]]
  /\ UNCHANGED <<manifest, clashed>>

(* The next file operation of p; after the last one it replies.            *)
FileStep(p) ==
  LET t == task[p]  what == Head(t.todo)  last == Len(t.todo) = 1 IN
  /\ Changing(p)
  /\ manifest' = CASE what = "empty" -> <<>> [] what = "write" -> t.list [] OTHER -> manifest
  /\ scripts' = CASE what = "scaffold" -> scripts \cup {t.id}
                  [] what = "remove"   -> scripts \ {t.id}
                  [] OTHER             -> scripts
  /\ task' = [task EXCEPT ![p] = IF last THEN NoTask ELSE [t EXCEPT !.todo = Tail(t.todo)]]
  /\ buried' = IF last /\ t.op = "delete" /\ t.clean THEN buried \cup {t.id} ELSE buried
  /\ UNCHANGED <<hookOps, clashed>>

Matching == SelectSeq(manifest, LAMBDA h : h.on)

(* hook_fire (or an aborted transaction): the enabled hooks, in order, are *)
(* then run one after the other before the reply.                          *)
Fire(p) ==
  /\ ~Busy(p) /\ hookOps < MaxHookOps /\ hookOps' = hookOps + 1
  /\ Matching # <<>>
  /\ task' = [task EXCEPT ![p] = [NoTask EXCEPT !.op = "fire", !.todo = Matching]]
  /\ UNCHANGED <<manifest, scripts, clashed, buried>>

(* hooks_test_run: one listed hook, enabled or not.                        *)
TestRun(p) == \E i \in DOMAIN manifest :
  /\ ~Busy(p) /\ hookOps < MaxHookOps /\ hookOps' = hookOps + 1
  /\ task' = [task EXCEPT ![p] = [NoTask EXCEPT !.op = "fire", !.todo = <<manifest[i]>>]]
  /\ UNCHANGED <<manifest, scripts, clashed, buried>>

(* The next hook: skipped when its script is gone, run to its end if not.  *)
(* Reporting more than 4000 bytes of stderr panics when the cut falls      *)
(* inside a character, and with it go the hooks not yet run.               *)
RunHook(p) == \E panics \in BOOLEAN :
  LET t == task[p]  id == Head(t.todo).id  found == id \in scripts IN
  /\ t.op = "fire" /\ (panics => found)
  /\ LET ran == IF found THEN Append(t.ran, id) ELSE t.ran IN
     task' = [task EXCEPT ![p] =
       IF panics \/ Len(t.todo) = 1
       THEN [NoTask EXCEPT !.ran = ran]
       ELSE [t EXCEPT !.todo = Tail(t.todo), !.ran = ran]]
  /\ UNCHANGED <<manifest, scripts, hookOps, clashed, buried>>

TornDown(p) ==
  /\ Busy(p) /\ task' = [task EXCEPT ![p] = NoTask]
  /\ UNCHANGED <<manifest, scripts, hookOps, clashed, buried>>

HooksNext ==
  \/ \E p \in HookProc : SaveHook(p) \/ DeleteHook(p) \/ SetEnabled(p) \/ FileStep(p)
                         \/ Fire(p) \/ TestRun(p) \/ RunHook(p) \/ TornDown(p)
  \/ \E id \in HookId : SetScript(id)

HooksSpec == HooksInit /\ [][HooksNext]_hookVars

-----------------------------------------------------------------------------
HooksTypeOK ==
  /\ manifest \in Seq([id : HookId, on : BOOLEAN]) /\ scripts \subseteq HookId
  /\ \A p \in HookProc : task[p].op \in {"none", "save", "delete", "enable", "fire"}
  /\ buried \subseteq HookId /\ clashed \in BOOLEAN

(* A hook runs as configured.  One that was deleted, and neither saved nor *)
(* given a script since, never runs again: not by a fire that read the     *)
(* manifest before, nor when another writer's old copy of the manifest     *)
(* puts its entry back.  And one that is listed is never skipped silently  *)
(* for want of its script, in the middle of a command or after a teardown  *)
(* there, as long as commands that change hooks come one at a time.        *)
RunsAsConfigured == [][\A p \in HookProc :
  LET t == task[p]  ran == task'[p].ran IN
  /\ Len(ran) > Len(t.ran) => ran[Len(ran)] \notin buried
  /\ t.op = "fire" /\ task'[p] # t /\ ran = t.ran
       => clashed \/ Head(t.todo).id \in scripts \/ ~Listed(manifest, Head(t.todo).id)]_hookVars
=============================================================================
