----------------------------- MODULE ThemeStore -----------------------------
(***************************************************************************)
(* The fleet's shared theme on disk, src/src/store.rs.  Every host process *)
(* (the browser starts one per message) may write a field of global.toml,  *)
(* which it reads, changes and replaces while it holds an advisory lock on *)
(* a sidecar file; after the lock is released the writer refreshes, one    *)
(* file at a time, the one-line projections the native browser chrome      *)
(* reads instead of parsing TOML.                                          *)
(*                                                                         *)
(* A colour scheme or palette is a model value.  The light/fx preferences  *)
(* are a partial function, so that a shallow merge can be told from a      *)
(* replacement.  Replacing a file is one step here; what its temporary     *)
(* file adds is the subject of KvStore.                                    *)
(***************************************************************************)
EXTENDS Naturals, Sequences

CONSTANTS
  ThemeProc,      \* host processes
  SchemeName,     \* schemes a writer may choose
  DefaultScheme,  \* "cyberpunk"
  Palette,        \* resolved palettes, the empty one excluded
  NoFile,         \* an absent file, key or value
  MaxThemeWrites  \* bound of the model: writes over the run

ASSUME ThemeStoreAssumption ==
  /\ NoFile \notin ThemeProc \cup SchemeName \cup {DefaultScheme} \cup Palette
  /\ DefaultScheme \in SchemeName
  /\ MaxThemeWrites \in Nat

VARIABLES
  globalToml,  \* the four fields of [theme]; all unset when there is no file
  themeLock,   \* the process that holds global.toml.lock
  hud,         \* the projections hud-scheme, hud-light, hud-palette, legacy
  writer,      \* what each process is doing
  themeWrites, \* writes so far
  alone        \* history: writers nobody else has been active beside

storeVars == <<globalToml, themeLock, hud, writer, themeWrites, alone>>

Merge(partial, f) == [k \in DOMAIN f \cup DOMAIN partial |->
                        IF k \in DOMAIN partial THEN partial[k] ELSE f[k]]
NoPrefs == [k \in {} |-> FALSE]
Prefs == UNION {[K -> BOOLEAN] : K \in SUBSET {"light", "fx"}}
Unset == [scheme |-> NoFile, ui |-> NoPrefs, palette |-> NoFile, schemes |-> NoFile]
Light(prefs) == "light" \in DOMAIN prefs /\ prefs.light
Resting == [op |-> "none", arg |-> NoFile, pc |-> "idle", root |-> Unset, todo |-> <<>>, seen |-> NoFile]

Writing(p) == writer[p].pc # "idle"
ActiveWriters == {p \in ThemeProc : Writing(p)}
WriterAt(p, pc) == writer[p].pc = pc

-----------------------------------------------------------------------------
ThemeStoreInit ==
  /\ globalToml = Unset /\ themeLock = NoFile
  /\ hud = [scheme |-> NoFile, light |-> NoFile, palette |-> NoFile, legacy |-> NoFile]
  /\ writer = [p \in ThemeProc |-> Resting]
  /\ themeWrites = 0 /\ alone = {}

(* A write begins: any field, any time, by any process. *)
Start(p, op, arg) ==
  /\ ~Writing(p) /\ themeWrites < MaxThemeWrites
  /\ writer' = [writer EXCEPT ![p] = [Resting EXCEPT !.op = op, !.arg = arg, !.pc = "lock"]]
  /\ themeWrites' = themeWrites + 1
  /\ alone' = IF ActiveWriters = {} THEN {p} ELSE {}
  /\ UNCHANGED <<globalToml, themeLock, hud>>

WriteScheme(p) == \E s \in SchemeName : Start(p, "scheme", s)
WriteUi(p) == \E partial \in Prefs \ {NoPrefs} : Start(p, "ui", partial)
WritePalette(p) == \E c \in Palette : Start(p, "palette", c)
WriteSchemes(p) == \E c \in Palette : Start(p, "schemes", c)
(* At its start a host seeds the file, unless it is there already. *)
EnsureGlobal(p) == globalToml = Unset /\ Start(p, "ensure", DefaultScheme)

(* Mutant: the lock is not waited for. *)
LockFree == TRUE
LockAvailable == themeLock = NoFile

(* with_global_lock blocks, and the holder loads the file. *)
LockAndLoad(p) ==
  /\ WriterAt(p, "lock") /\ LockAvailable
  /\ themeLock' = p
  /\ writer' = [writer EXCEPT ![p].pc = "save", ![p].root = globalToml]
  /\ UNCHANGED <<globalToml, hud, themeWrites, alone>>

(* What the operation makes of the file it loaded. *)
Updated(w) ==
  CASE w.op = "scheme"  -> [w.root EXCEPT !.scheme = w.arg]
    [] w.op = "ui"      -> [w.root EXCEPT !.ui = Merge(w.arg, w.root.ui)]
    [] w.op = "palette" -> [w.root EXCEPT !.palette = w.arg]
    [] w.op = "schemes" -> [w.root EXCEPT !.schemes = w.arg]
    [] w.op = "ensure"  ->
         IF w.root # Unset THEN w.root
         ELSE [w.root EXCEPT !.scheme = DefaultScheme,
                             !.ui = Merge([k \in {"light"} |-> FALSE], w.root.ui)]

(* Mutant: a scheme write leaves hud-light to the next toggle. *)
ProjectionsShort(op) ==
  CASE op = "scheme"  -> <<"scheme", "readPalette", "palette", "legacy">>
    [] op = "ui"      -> <<"light">>
    [] op = "palette" -> <<"palette">>
    [] op = "schemes" -> <<>>
    [] op = "ensure"  -> <<"scheme", "light">>

(* The projections each write refreshes after the lock, in order. *)
Projections(op) ==
  CASE op = "scheme"  -> <<"scheme", "readUi", "light", "readPalette", "palette", "legacy">>
    [] op = "ui"      -> <<"light">>
    [] op = "palette" -> <<"palette">>
    [] op = "schemes" -> <<>>
    [] op = "ensure"  -> <<"scheme", "light">>

NextStep(p, todo) == IF todo = <<>> THEN "idle" ELSE "project"

SaveAndUnlock(p) ==
  /\ WriterAt(p, "save")
  /\ globalToml' = Updated(writer[p])
  /\ themeLock' = NoFile
  /\ LET todo == Projections(writer[p].op)
         seen == CASE writer[p].op = "ui" -> Light(Updated(writer[p]).ui)
                   [] writer[p].op = "ensure" -> FALSE
                   [] OTHER -> writer[p].arg
     IN writer' = [writer EXCEPT ![p].pc = NextStep(p, todo), ![p].todo = todo, ![p].seen = seen]
  /\ UNCHANGED <<hud, themeWrites, alone>>

(* One projection: a re-read of global.toml without the lock, or the       *)
(* replacement of one file.  An unresolved palette is not projected.       *)
Project(p) ==
  LET w == writer[p]  what == Head(w.todo)  rest == Tail(w.todo) IN
  /\ WriterAt(p, "project")
  /\ hud' = CASE what \in {"scheme", "legacy"} -> [hud EXCEPT ![what] = w.arg]
              [] what = "light"   -> [hud EXCEPT !.light = w.seen]
              [] what = "palette" -> [hud EXCEPT !.palette = IF w.seen = NoFile THEN @ ELSE w.seen]
              [] OTHER            -> hud
  /\ writer' = [writer EXCEPT ![p] =
       IF rest = <<>> THEN Resting
       ELSE [w EXCEPT !.todo = rest,
                      !.seen = CASE what = "readUi"      -> Light(globalToml.ui)
                                 [] what = "readPalette" -> globalToml.palette
                                 [] OTHER                -> @]]
  /\ UNCHANGED <<globalToml, themeLock, themeWrites, alone>>

(* The process is killed; the system takes its lock back.                  *)
WriterDies(p) ==
  /\ Writing(p)
  /\ themeLock' = IF themeLock = p THEN NoFile ELSE themeLock
  /\ writer' = [writer EXCEPT ![p] = Resting]
  /\ alone' = alone \ {p}
  /\ UNCHANGED <<globalToml, hud, themeWrites>>

ThemeStoreNext == \E p \in ThemeProc :
  \/ WriteScheme(p) \/ WriteUi(p) \/ WritePalette(p) \/ WriteSchemes(p) \/ EnsureGlobal(p)
  \/ LockAndLoad(p) \/ SaveAndUnlock(p) \/ Project(p) \/ WriterDies(p)

ThemeStoreSpec == ThemeStoreInit /\ [][ThemeStoreNext]_storeVars

-----------------------------------------------------------------------------
ThemeStoreTypeOK ==
  /\ globalToml \in [scheme : SchemeName \cup {NoFile}, ui : Prefs,
                     palette : Palette \cup {NoFile}, schemes : Palette \cup {NoFile}]
  /\ themeLock \in ThemeProc \cup {NoFile}
  /\ \A p \in ThemeProc : /\ writer[p].pc \in {"idle", "lock", "save", "project"}
                          /\ WriterAt(p, "save") <=> themeLock = p

(* A write never brings back the old value of a field it does not set, the *)
(* "sporadic picked scheme reverts" of store.rs:309: it replaces the whole *)
(* file from a copy, so everything rests on nobody having saved since.     *)
NoFieldReverts == [][globalToml' # globalToml => \E p \in ThemeProc :
  /\ WriterAt(p, "save")
  /\ \A field \in {"scheme", "palette", "schemes"} :
       globalToml'[field] # globalToml[field] => writer[p].op \in {field, "ensure"}
  /\ globalToml'.ui # globalToml.ui => writer[p].op \in {"ui", "ensure"}
  /\ DOMAIN globalToml.ui \subseteq DOMAIN globalToml'.ui]_storeVars

Matches(g) ==
  /\ hud.scheme = g.scheme /\ hud.legacy = g.scheme
  /\ hud.light = Light(g.ui)
  /\ hud.palette = g.palette \/ g.palette = NoFile

(* A scheme write that no other write overlapped leaves every projection   *)
(* equal to global.toml, whatever races or dead writers left them at.      *)
LoneSchemeWriteHeals == [][\A p \in alone \cap alone' :
  /\ writer[p].op = "scheme" /\ writer'[p].pc = "idle" /\ ActiveWriters = {p}
  => Matches(globalToml)']_storeVars
=============================================================================
