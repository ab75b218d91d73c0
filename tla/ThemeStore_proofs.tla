------------------------- MODULE ThemeStore_proofs --------------------------
(***************************************************************************)
(* Writers of the theme, for any number of processes, writes and deaths:   *)
(* the file stays well-formed and no write brings back the old value of a  *)
(* field it does not set.                                                  *)
(*                                                                         *)
(* A writer replaces the whole file from a copy, so what has to be shown   *)
(* is that the copy of whoever holds the lock is the file as it is now.    *)
(***************************************************************************)
EXTENDS ThemeStore, TLAPS

Theme == [scheme : SchemeName \cup {NoFile}, ui : Prefs,
          palette : Palette \cup {NoFile}, schemes : Palette \cup {NoFile}]

(* A writer's record has these fields; todo and seen do not matter here.   *)
Shaped(w) == w = [op |-> w.op, arg |-> w.arg, pc |-> w.pc,
                  root |-> w.root, todo |-> w.todo, seen |-> w.seen]

(* Up to the save a writer has the value of the field it is to set.        *)
ArgFits(w) ==
  \/ w.op = "scheme" /\ w.arg \in SchemeName
  \/ w.op = "ui" /\ w.arg \in Prefs
  \/ w.op \in {"palette", "schemes"} /\ w.arg \in Palette
  \/ w.op = "ensure"

WriterOK(p) ==
  /\ Shaped(writer[p])
  /\ writer[p].pc \in {"lock", "save"} => ArgFits(writer[p])
  /\ WriterAt(p, "save") => writer[p].root = globalToml

StoreInv ==
  /\ ThemeStoreTypeOK
  /\ writer = [p \in ThemeProc |-> writer[p]]
  /\ \A p \in ThemeProc : WriterOK(p)

(* Preferences are functions from some of the two names to BOOLEAN.        *)
LEMMA PrefsAre ==
  \A f : f \in Prefs <=> DOMAIN f \subseteq {"light", "fx"} /\ f \in [DOMAIN f -> BOOLEAN]
BY DEF Prefs

(* A shallow merge of preferences is preferences, with nothing forgotten.  *)
LEMMA MergePrefs ==
  ASSUME NEW f \in Prefs, NEW g \in Prefs
  PROVE  Merge(f, g) \in Prefs /\ DOMAIN g \subseteq DOMAIN Merge(f, g)
<1>1. /\ DOMAIN f \subseteq {"light", "fx"} /\ f \in [DOMAIN f -> BOOLEAN]
      /\ DOMAIN g \subseteq {"light", "fx"} /\ g \in [DOMAIN g -> BOOLEAN]
  BY PrefsAre
<1>2. DOMAIN Merge(f, g) = DOMAIN g \cup DOMAIN f
  BY DEF Merge
<1>3. Merge(f, g) \in [DOMAIN g \cup DOMAIN f -> BOOLEAN]
  BY <1>1 DEF Merge
<1>. QED  BY <1>1, <1>2, <1>3, PrefsAre

(* What a save makes of the file: only its own field changes, a merge      *)
(* keeps every preference, and seeding touches an unset file only.         *)
LEMMA UpdatedFile ==
  ASSUME NEW w, ArgFits(w), w.root \in Theme
  PROVE  /\ Updated(w) \in Theme
         /\ Updated(w).scheme # w.root.scheme => w.op \in {"scheme", "ensure"}
         /\ Updated(w).palette # w.root.palette => w.op \in {"palette", "ensure"}
         /\ Updated(w).schemes # w.root.schemes => w.op \in {"schemes", "ensure"}
         /\ Updated(w).ui # w.root.ui => w.op \in {"ui", "ensure"}
         /\ DOMAIN w.root.ui \subseteq DOMAIN Updated(w).ui
<1>1. CASE w.op = "scheme" /\ w.arg \in SchemeName
  BY <1>1 DEF Updated, Theme
<1>2. CASE w.op = "ui" /\ w.arg \in Prefs
  <2>1. w.root.ui \in Prefs
    BY DEF Theme
  <2>2. /\ Merge(w.arg, w.root.ui) \in Prefs
        /\ DOMAIN w.root.ui \subseteq DOMAIN Merge(w.arg, w.root.ui)
    BY <1>2, <2>1, MergePrefs
  <2>3. Updated(w) = [w.root EXCEPT !.ui = Merge(w.arg, w.root.ui)]
    BY <1>2 DEF Updated
  <2>. QED  BY <1>2, <2>2, <2>3 DEF Theme
<1>3. CASE w.op \in {"palette", "schemes"} /\ w.arg \in Palette
  BY <1>3 DEF Updated, Theme
<1>4. CASE w.op = "ensure"
  <2>. DEFINE dark == [k \in {"light"} |-> FALSE]
  <2>1. dark \in Prefs /\ w.root.ui \in Prefs
    <3>1. DOMAIN dark = {"light"} /\ dark \in [{"light"} -> BOOLEAN]
      OBVIOUS
    <3>. QED  BY <3>1, PrefsAre DEF Theme
  <2>2. /\ Merge(dark, w.root.ui) \in Prefs
        /\ DOMAIN w.root.ui \subseteq DOMAIN Merge(dark, w.root.ui)
    BY <2>1, MergePrefs
  <2>3. Updated(w) = IF w.root # Unset THEN w.root
          ELSE [w.root EXCEPT !.scheme = DefaultScheme, !.ui = Merge(dark, w.root.ui)]
    BY <1>4 DEF Updated
  <2>. HIDE DEF dark
  <2>. QED  BY <1>4, <2>2, <2>3, ThemeStoreAssumption DEF Theme
<1>. QED  BY <1>1, <1>2, <1>3, <1>4 DEF ArgFits

LEMMA StoreInvInit == ThemeStoreInit => StoreInv
<1>. SUFFICES ASSUME ThemeStoreInit PROVE StoreInv
  OBVIOUS
<1>1. NoPrefs \in Prefs
  BY PrefsAre DEF NoPrefs
<1>2. \A p \in ThemeProc : WriterOK(p)
  BY DEF ThemeStoreInit, WriterOK, WriterAt, Resting, Shaped
<1>3. ThemeStoreTypeOK
  BY <1>1, ThemeStoreAssumption
     DEF ThemeStoreInit, ThemeStoreTypeOK, WriterAt, Resting, Unset
<1>. QED  BY <1>2, <1>3 DEF ThemeStoreInit, StoreInv

(* A write begins: its writer waits for the lock with a fitting value.     *)
LEMMA StartInv ==
  ASSUME StoreInv, NEW p \in ThemeProc,
         WriteScheme(p) \/ WriteUi(p) \/ WritePalette(p) \/ WriteSchemes(p) \/ EnsureGlobal(p)
  PROVE  StoreInv' /\ globalToml' = globalToml
<1>1. PICK op, arg : Start(p, op, arg) /\ ArgFits([Resting EXCEPT !.op = op, !.arg = arg])
  BY DEF WriteScheme, WriteUi, WritePalette, WriteSchemes, EnsureGlobal, ArgFits, Resting
<1>2. /\ writer' = [writer EXCEPT ![p] = [Resting EXCEPT !.op = op, !.arg = arg, !.pc = "lock"]]
      /\ UNCHANGED <<globalToml, themeLock>> /\ ~Writing(p)
  BY <1>1 DEF Start
<1>3. \A q \in ThemeProc : WriterOK(q)'
  BY <1>1, <1>2 DEF StoreInv, WriterOK, WriterAt, Shaped, ArgFits, Resting
<1>4. ThemeStoreTypeOK'
  BY <1>2 DEF StoreInv, ThemeStoreTypeOK, WriterAt, Writing, Resting
<1>5. writer' = [q \in ThemeProc |-> writer'[q]]
  BY <1>2 DEF StoreInv
<1>. QED  BY <1>2, <1>3, <1>4, <1>5 DEF StoreInv

(* The new holder's copy is the file, and nobody else has a copy to save.  *)
LEMMA LockAndLoadInv ==
  ASSUME StoreInv, NEW p \in ThemeProc, LockAndLoad(p)
  PROVE  StoreInv' /\ globalToml' = globalToml
<1>1. /\ writer' = [writer EXCEPT ![p].pc = "save", ![p].root = globalToml]
      /\ globalToml' = globalToml /\ themeLock' = p /\ themeLock = NoFile
      /\ writer[p].pc = "lock"
  BY DEF LockAndLoad, LockAvailable, WriterAt
<1>2. \A q \in ThemeProc : q # p => writer'[q] = writer[q]
  BY <1>1 DEF StoreInv
<1>3. /\ writer'[p] = [writer[p] EXCEPT !.pc = "save", !.root = globalToml]
      /\ Shaped(writer[p]) /\ ArgFits(writer[p])
  BY <1>1 DEF StoreInv, WriterOK
<1>4. /\ writer'[p].pc = "save" /\ writer'[p].root = globalToml
      /\ writer'[p].op = writer[p].op /\ writer'[p].arg = writer[p].arg
      /\ Shaped(writer'[p])
  BY <1>3 DEF Shaped
<1>5. WriterOK(p)'
  BY <1>1, <1>3, <1>4 DEF WriterOK, WriterAt, ArgFits
<1>6. \A q \in ThemeProc : WriterOK(q)'
  BY <1>1, <1>2, <1>5 DEF StoreInv, WriterOK, WriterAt
<1>7. ThemeStoreTypeOK'
  BY <1>1, <1>2, <1>4, ThemeStoreAssumption DEF StoreInv, ThemeStoreTypeOK, WriterAt
<1>8. writer' = [q \in ThemeProc |-> writer'[q]]
  BY <1>1 DEF StoreInv
<1>. QED  BY <1>1, <1>6, <1>7, <1>8 DEF StoreInv

(* The save: the file is what the operation made of its current content.   *)
LEMMA SaveInv ==
  ASSUME StoreInv, NEW p \in ThemeProc, SaveAndUnlock(p)
  PROVE  /\ StoreInv'
         /\ WriterAt(p, "save") /\ writer[p].root = globalToml
         /\ ArgFits(writer[p]) /\ globalToml \in Theme
         /\ globalToml' = Updated(writer[p])
<1>1. /\ WriterAt(p, "save") /\ writer[p].root = globalToml
      /\ ArgFits(writer[p]) /\ Shaped(writer[p]) /\ globalToml \in Theme
      /\ globalToml' = Updated(writer[p]) /\ themeLock' = NoFile /\ themeLock = p
  BY DEF SaveAndUnlock, StoreInv, WriterOK, WriterAt, ThemeStoreTypeOK, Theme
<1>. DEFINE todo == Projections(writer[p].op)
            pc   == NextStep(p, todo)
            seen == CASE writer[p].op = "ui"     -> Light(Updated(writer[p]).ui)
                      [] writer[p].op = "ensure" -> FALSE
                      [] OTHER                   -> writer[p].arg
<1>2. /\ pc \in {"idle", "project"}
      /\ writer' = [writer EXCEPT ![p].pc = pc, ![p].todo = todo, ![p].seen = seen]
  BY DEF SaveAndUnlock, NextStep
<1>. HIDE DEF pc, todo, seen
<1>3. /\ \A q \in ThemeProc : q # p => writer'[q] = writer[q]
      /\ writer' = [q \in ThemeProc |-> writer'[q]]
  BY <1>2 DEF StoreInv
<1>4. writer'[p].pc \in {"idle", "project"} /\ Shaped(writer'[p])
  <2>1. writer'[p] = [writer[p] EXCEPT !.pc = pc, !.todo = todo, !.seen = seen]
    BY <1>2 DEF StoreInv
  <2>. QED  BY <1>1, <1>2, <2>1 DEF Shaped
<1>5. \A q \in ThemeProc : q # p => ~WriterAt(q, "save")
  BY <1>1 DEF StoreInv, ThemeStoreTypeOK, WriterAt
<1>6. \A q \in ThemeProc : WriterOK(q)'
  BY <1>3, <1>4, <1>5 DEF StoreInv, WriterOK, WriterAt
<1>7. globalToml' \in Theme
  BY <1>1, UpdatedFile
<1>8. ThemeStoreTypeOK'
  <2>1. \A q \in ThemeProc : writer'[q].pc \in {"idle", "lock", "project"}
    BY <1>3, <1>4, <1>5 DEF StoreInv, ThemeStoreTypeOK, WriterAt
  <2>. QED  BY <2>1, <1>1, <1>7, ThemeStoreAssumption
               DEF ThemeStoreTypeOK, WriterAt, Theme
<1>. QED  BY <1>1, <1>3, <1>6, <1>8 DEF StoreInv

(* After the save a writer only refreshes projections, or dies.            *)
LEMMA AfterwardsInv ==
  ASSUME StoreInv, NEW p \in ThemeProc, Project(p) \/ WriterDies(p)
  PROVE  StoreInv' /\ globalToml' = globalToml
<1>1. CASE Project(p)
  <2>1. PICK w :
          /\ writer' = [writer EXCEPT ![p] = w]
          /\ \/ w = Resting
             \/ \E todo, seen : w = [writer[p] EXCEPT !.todo = todo, !.seen = seen]
    BY <1>1 DEF Project
  <2>2. /\ writer[p].pc = "project" /\ Shaped(writer[p])
        /\ UNCHANGED <<globalToml, themeLock>>
    BY <1>1 DEF Project, WriterAt, StoreInv, WriterOK
  <2>3. w.pc \in {"idle", "project"} /\ Shaped(w)
    <3>1. CASE w = Resting
      BY <3>1 DEF Shaped, Resting
    <3>2. ASSUME NEW todo, NEW seen, w = [writer[p] EXCEPT !.todo = todo, !.seen = seen]
          PROVE  w.pc \in {"idle", "project"} /\ Shaped(w)
      BY <2>2, <3>2 DEF Shaped
    <3>. QED  BY <2>1, <3>1, <3>2
  <2>4. /\ \A q \in ThemeProc : writer'[q] = IF q = p THEN w ELSE writer[q]
        /\ writer' = [q \in ThemeProc |-> writer'[q]]
    BY <2>1 DEF StoreInv
  <2>5. \A q \in ThemeProc : WriterOK(q)'
    BY <2>2, <2>3, <2>4 DEF StoreInv, WriterOK, WriterAt
  <2>6. ThemeStoreTypeOK'
    BY <2>2, <2>3, <2>4 DEF StoreInv, ThemeStoreTypeOK, WriterAt
  <2>. QED  BY <2>2, <2>4, <2>5, <2>6 DEF StoreInv
<1>2. CASE WriterDies(p)
  <2>1. /\ writer' = [writer EXCEPT ![p] = Resting] /\ globalToml' = globalToml
        /\ themeLock' = IF themeLock = p THEN NoFile ELSE themeLock
    BY <1>2 DEF WriterDies
  <2>2. /\ \A q \in ThemeProc : writer'[q] = IF q = p THEN Resting ELSE writer[q]
        /\ writer' = [q \in ThemeProc |-> writer'[q]]
    BY <2>1 DEF StoreInv
  <2>3. \A q \in ThemeProc : WriterOK(q)'
    BY <2>1, <2>2 DEF StoreInv, WriterOK, WriterAt, Resting, Shaped
  <2>4. ThemeStoreTypeOK'
    BY <2>1, <2>2, ThemeStoreAssumption DEF StoreInv, ThemeStoreTypeOK, WriterAt, Resting
  <2>. QED  BY <2>1, <2>2, <2>3, <2>4 DEF StoreInv
<1>. QED  BY <1>1, <1>2

(* The invariant, and that only a save changes the file.                   *)
LEMMA StoreInvNext ==
  ASSUME StoreInv, [ThemeStoreNext]_storeVars
  PROVE  StoreInv' /\ (globalToml' # globalToml => \E p \in ThemeProc : SaveAndUnlock(p))
<1>1. ASSUME NEW p \in ThemeProc,
             \/ WriteScheme(p) \/ WriteUi(p) \/ WritePalette(p) \/ WriteSchemes(p) \/ EnsureGlobal(p)
             \/ LockAndLoad(p) \/ SaveAndUnlock(p) \/ Project(p) \/ WriterDies(p)
      PROVE  StoreInv' /\ (globalToml' # globalToml => SaveAndUnlock(p))
  BY <1>1, StartInv, LockAndLoadInv, SaveInv, AfterwardsInv
<1>2. CASE UNCHANGED storeVars
  BY <1>2 DEF storeVars, StoreInv, ThemeStoreTypeOK, WriterOK, WriterAt
<1>. QED  BY <1>1, <1>2 DEF ThemeStoreNext

(* The file is well-formed, and the copy of whoever holds the lock is the  *)
(* file as it is.                                                          *)
THEOREM StoreInvariant == ThemeStoreSpec => []StoreInv
BY StoreInvInit, StoreInvNext, PTL DEF ThemeStoreSpec

(* global.toml is always a theme, and one writer at most is between its    *)
(* read and its save: the one that holds the lock.                         *)
THEOREM ThemeStoreTypes == ThemeStoreSpec => []ThemeStoreTypeOK
<1>1. StoreInv => ThemeStoreTypeOK
  BY DEF StoreInv
<1>. QED  BY StoreInvariant, <1>1, PTL

(* store.rs:309: whatever writers interleave or die, a save changes the    *)
(* field it is for and no other, and forgets no preference.                *)
THEOREM StoreNoFieldReverts == ThemeStoreSpec => NoFieldReverts
<1>. DEFINE Kept == globalToml' # globalToml => \E p \in ThemeProc :
       /\ WriterAt(p, "save")
       /\ \A field \in {"scheme", "palette", "schemes"} :
            globalToml'[field] # globalToml[field] => writer[p].op \in {field, "ensure"}
       /\ globalToml'.ui # globalToml.ui => writer[p].op \in {"ui", "ensure"}
       /\ DOMAIN globalToml.ui \subseteq DOMAIN globalToml'.ui
<1>1. StoreInv /\ [ThemeStoreNext]_storeVars => [Kept]_storeVars
  <2>. SUFFICES ASSUME StoreInv, [ThemeStoreNext]_storeVars, globalToml' # globalToml
                PROVE  Kept
    OBVIOUS
  <2>1. PICK p \in ThemeProc : SaveAndUnlock(p)
    BY StoreInvNext
  <2>2. /\ WriterAt(p, "save") /\ writer[p].root = globalToml
        /\ ArgFits(writer[p]) /\ globalToml \in Theme
        /\ globalToml' = Updated(writer[p])
    BY <2>1, SaveInv
  <2>. QED  BY <2>2, UpdatedFile
<1>. QED  BY StoreInvariant, <1>1, PTL DEF ThemeStoreSpec, NoFieldReverts

-----------------------------------------------------------------------------
(***************************************************************************)
(* A scheme write by a lone writer leaves the projection as the file: what *)
(* each of its steps has achieved is what the steps before it were for.    *)
(***************************************************************************)

(* What a scheme write has left to project, and what it has achieved when  *)
(* that much is left.                                                      *)
ToDo(p, todo) == writer[p].todo = todo
SchemeShown(p) == hud.scheme = writer[p].arg
LightShown == hud.light = Light(globalToml.ui)
PaletteShown == hud.palette = globalToml.palette \/ globalToml.palette = NoFile

Achieved(p) ==
  \/ ToDo(p, <<"scheme", "readUi", "light", "readPalette", "palette", "legacy">>)
  \/ ToDo(p, <<"readUi", "light", "readPalette", "palette", "legacy">>) /\ SchemeShown(p)
  \/ /\ ToDo(p, <<"light", "readPalette", "palette", "legacy">>)
     /\ SchemeShown(p) /\ writer[p].seen = Light(globalToml.ui)
  \/ ToDo(p, <<"readPalette", "palette", "legacy">>) /\ SchemeShown(p) /\ LightShown
  \/ /\ ToDo(p, <<"palette", "legacy">>)
     /\ SchemeShown(p) /\ LightShown /\ writer[p].seen = globalToml.palette
  \/ ToDo(p, <<"legacy">>) /\ SchemeShown(p) /\ LightShown /\ PaletteShown

SchemeStage(p) == writer[p].op = "scheme" /\ WriterAt(p, "project") =>
  globalToml.scheme = writer[p].arg /\ Achieved(p)

(* A lone writer really is the only one, so that the file it projects does *)
(* not change under it.                                                    *)
HealInv ==
  /\ hud = [scheme |-> hud.scheme, light |-> hud.light, palette |-> hud.palette, legacy |-> hud.legacy]
  /\ alone \subseteq ThemeProc
  /\ \A p \in alone : Writing(p) => /\ \A q \in ThemeProc : Writing(q) => q = p
                                    /\ SchemeStage(p)

LEMMA HealInvInit == ThemeStoreInit => HealInv
BY DEF ThemeStoreInit, HealInv

LEMMA HealStart ==
  ASSUME StoreInv, HealInv, NEW p \in ThemeProc, NEW op, NEW arg, Start(p, op, arg)
  PROVE  HealInv'
<1>1. /\ writer' = [writer EXCEPT ![p] = [Resting EXCEPT !.op = op, !.arg = arg, !.pc = "lock"]]
      /\ hud' = hud /\ alone' = (IF ActiveWriters = {} THEN {p} ELSE {})
  BY DEF Start
<1>2. writer'[p].pc = "lock" /\ \A q \in ThemeProc : q # p => writer'[q] = writer[q]
  BY <1>1 DEF StoreInv, Resting
<1>3. \A q \in ThemeProc : q \in alone' => q = p /\ \A o \in ThemeProc : ~Writing(o)
  BY <1>1 DEF ActiveWriters
<1>4. \A q \in alone' : /\ \A o \in ThemeProc : Writing(o)' => o = q
                        /\ SchemeStage(q)'
  BY <1>1, <1>2, <1>3 DEF Writing, SchemeStage, WriterAt
<1>. QED  BY <1>1, <1>4 DEF HealInv

LEMMA HealLock ==
  ASSUME StoreInv, HealInv, NEW p \in ThemeProc, LockAndLoad(p)
  PROVE  HealInv'
<1>1. /\ writer' = [writer EXCEPT ![p].pc = "save", ![p].root = globalToml]
      /\ hud' = hud /\ alone' = alone /\ globalToml' = globalToml /\ writer[p].pc = "lock"
  BY DEF LockAndLoad, WriterAt
<1>2. writer'[p].pc = "save" /\ \A q \in ThemeProc : q # p => writer'[q] = writer[q]
  <2>1. \A q \in ThemeProc : q # p => writer'[q] = writer[q]
    BY <1>1 DEF StoreInv
  <2>2. /\ writer'[p] = [writer[p] EXCEPT !.pc = "save", !.root = globalToml]
        /\ Shaped(writer[p])
    BY <1>1 DEF StoreInv, WriterOK
  <2>. QED  BY <2>1, <2>2 DEF Shaped
<1>3. \A q \in alone : Writing(q)' => \A o \in ThemeProc : Writing(o)' => o = q
  BY <1>1, <1>2 DEF HealInv, Writing
<1>4. \A q \in alone : Writing(q)' => SchemeStage(q)'
  BY <1>1, <1>2, <1>3 DEF HealInv, Writing, SchemeStage, WriterAt
<1>. QED  BY <1>1, <1>3, <1>4 DEF HealInv

(* The save of a scheme leaves all its projections to do.                  *)
LEMMA HealSave ==
  ASSUME StoreInv, HealInv, NEW p \in ThemeProc, SaveAndUnlock(p)
  PROVE  HealInv' /\ (writer[p].op = "scheme" => writer'[p].pc = "project")
<1>1. /\ writer[p].pc = "save" /\ writer[p].root = globalToml
      /\ globalToml \in Theme /\ globalToml' = Updated(writer[p])
      /\ Shaped(writer[p]) /\ hud' = hud /\ alone' = alone
  BY SaveInv DEF WriterAt, StoreInv, WriterOK, SaveAndUnlock
<1>. DEFINE todo == Projections(writer[p].op)
            seen == CASE writer[p].op = "ui"     -> Light(Updated(writer[p]).ui)
                      [] writer[p].op = "ensure" -> FALSE
                      [] OTHER                   -> writer[p].arg
<1>2. writer' = [writer EXCEPT ![p].pc = NextStep(p, todo), ![p].todo = todo, ![p].seen = seen]
  BY DEF SaveAndUnlock
<1>3. writer[p].op = "scheme" =>
        /\ todo = <<"scheme", "readUi", "light", "readPalette", "palette", "legacy">>
        /\ NextStep(p, todo) = "project"
  BY DEF Projections, NextStep
<1>. HIDE DEF todo, seen
<1>4. PICK new, pc : /\ new = writer'[p] /\ pc = NextStep(p, todo)
                     /\ new = [writer[p] EXCEPT !.pc = pc, !.todo = todo, !.seen = seen]
  BY <1>2 DEF StoreInv
<1>5. new.pc = pc /\ new.todo = todo /\ new.op = writer[p].op /\ new.arg = writer[p].arg
  BY <1>1, <1>4 DEF Shaped
<1>6. \A q \in ThemeProc : q # p => writer'[q] = writer[q]
  BY <1>2 DEF StoreInv
<1>7. \A q \in alone : Writing(q)' => \A o \in ThemeProc : Writing(o)' => o = q
  BY <1>1, <1>6 DEF HealInv, Writing
<1>8. \A q \in alone : Writing(q)' => SchemeStage(q)'
  <2>. SUFFICES ASSUME NEW q \in alone, writer'[q].pc # "idle", writer'[q].op = "scheme"
                PROVE  globalToml'.scheme = writer'[q].arg /\ Achieved(q)'
    BY DEF Writing, SchemeStage
  <2>1. CASE q # p
    <3>1. q \in ThemeProc /\ Writing(q) /\ Writing(p)
      BY <1>1, <1>6, <2>1 DEF HealInv, Writing
    <3>. QED  BY <2>1, <3>1 DEF HealInv
  <2>2. CASE q = p
    <3>1. writer[p].op = "scheme" /\ writer'[p].todo = todo
      BY <1>4, <1>5, <2>2
    <3>2. globalToml' = [globalToml EXCEPT !.scheme = writer[p].arg]
      BY <1>1, <3>1 DEF Updated
    <3>3. globalToml'.scheme = writer[p].arg
      BY <1>1, <3>2 DEF Theme
    <3>. QED  BY <1>3, <1>4, <1>5, <2>2, <3>1, <3>3 DEF Achieved, ToDo
  <2>. QED  BY <2>1, <2>2
<1>. QED  BY <1>1, <1>3, <1>4, <1>5, <1>7, <1>8 DEF HealInv

LEMMA HealDies ==
  ASSUME StoreInv, HealInv, NEW p \in ThemeProc, WriterDies(p)
  PROVE  HealInv'
<1>1. /\ writer' = [writer EXCEPT ![p] = Resting] /\ globalToml' = globalToml
      /\ hud' = hud /\ alone' = alone \ {p}
  BY DEF WriterDies
<1>2. writer'[p].pc = "idle" /\ \A q \in ThemeProc : q # p => writer'[q] = writer[q]
  BY <1>1 DEF StoreInv, Resting
<1>3. \A q \in alone' : Writing(q)' => \A o \in ThemeProc : Writing(o)' => o = q
  BY <1>1, <1>2 DEF HealInv, Writing
<1>4. \A q \in alone' : Writing(q)' => SchemeStage(q)'
  BY <1>1, <1>2 DEF HealInv, Writing, SchemeStage, WriterAt, Achieved, ToDo, SchemeShown, LightShown, PaletteShown
<1>. QED  BY <1>1, <1>3, <1>4 DEF HealInv

(* The head and the tail of what is left, one step after the other.        *)
LEMMA LeftIs ==
  /\ LET s == <<"scheme", "readUi", "light", "readPalette", "palette", "legacy">> IN
     Head(s) = "scheme" /\ Tail(s) = <<"readUi", "light", "readPalette", "palette", "legacy">>
  /\ LET s == <<"readUi", "light", "readPalette", "palette", "legacy">> IN
     Head(s) = "readUi" /\ Tail(s) = <<"light", "readPalette", "palette", "legacy">>
  /\ LET s == <<"light", "readPalette", "palette", "legacy">> IN
     Head(s) = "light" /\ Tail(s) = <<"readPalette", "palette", "legacy">>
  /\ LET s == <<"readPalette", "palette", "legacy">> IN
     Head(s) = "readPalette" /\ Tail(s) = <<"palette", "legacy">>
  /\ LET s == <<"palette", "legacy">> IN Head(s) = "palette" /\ Tail(s) = <<"legacy">>
  /\ Head(<<"legacy">>) = "legacy" /\ Tail(<<"legacy">>) = <<>>
  /\ <<"readUi", "light", "readPalette", "palette", "legacy">> # <<>>
  /\ <<"light", "readPalette", "palette", "legacy">> # <<>>
  /\ <<"readPalette", "palette", "legacy">> # <<>>
  /\ <<"palette", "legacy">> # <<>>
  /\ <<"legacy">> # <<>>
OBVIOUS

(* One projection: the next stage, or the end with all of them current.    *)
LEMMA HealProject ==
  ASSUME StoreInv, HealInv, NEW p \in ThemeProc, Project(p)
  PROVE  /\ HealInv'
         /\ p \in alone /\ writer[p].op = "scheme" /\ writer'[p].pc = "idle"
              => Matches(globalToml)'
<1>. DEFINE what == Head(writer[p].todo)
            rest == Tail(writer[p].todo)
            seen == CASE what = "readUi"      -> Light(globalToml.ui)
                      [] what = "readPalette" -> globalToml.palette
                      [] OTHER                -> writer[p].seen
<1>1. /\ writer[p].pc = "project" /\ Shaped(writer[p]) /\ alone' = alone /\ globalToml' = globalToml
      /\ hud' = CASE what \in {"scheme", "legacy"} -> [hud EXCEPT ![what] = writer[p].arg]
                  [] what = "light"   -> [hud EXCEPT !.light = writer[p].seen]
                  [] what = "palette" -> [hud EXCEPT !.palette = IF writer[p].seen = NoFile THEN @ ELSE writer[p].seen]
                  [] OTHER            -> hud
      /\ writer' = [writer EXCEPT ![p] =
           IF rest = <<>> THEN Resting ELSE [writer[p] EXCEPT !.todo = rest, !.seen = seen]]
  BY DEF Project, WriterAt, StoreInv, WriterOK
<1>2. /\ \A q \in ThemeProc : q # p => writer'[q] = writer[q]
      /\ writer'[p] = IF rest = <<>> THEN Resting ELSE [writer[p] EXCEPT !.todo = rest, !.seen = seen]
  BY <1>1 DEF StoreInv
<1>3. PICK new : new = writer'[p]
  OBVIOUS
<1>4. IF rest = <<>> THEN new.pc = "idle"
      ELSE /\ new.pc = "project" /\ new.op = writer[p].op /\ new.arg = writer[p].arg
           /\ new.todo = rest /\ new.seen = seen
  <2>1. CASE rest = <<>>
    BY <1>2, <1>3, <2>1 DEF Resting
  <2>2. CASE rest # <<>>
    <3>1. new = [writer[p] EXCEPT !.todo = rest, !.seen = seen]
      BY <1>2, <1>3, <2>2
    <3>. HIDE DEF rest, seen
    <3>2. /\ new.pc = "project" /\ new.op = writer[p].op /\ new.arg = writer[p].arg
          /\ new.todo = rest /\ new.seen = seen
      BY <1>1, <3>1 DEF Shaped
    <3>. QED  BY <2>2, <3>2
  <2>. QED  BY <2>1, <2>2
<1>5. \A q \in alone : Writing(q)' => \A o \in ThemeProc : Writing(o)' => o = q
  BY <1>1, <1>2 DEF HealInv, Writing
<1>6. hud' = [scheme |-> hud'.scheme, light |-> hud'.light, palette |-> hud'.palette, legacy |-> hud'.legacy]
  BY <1>1 DEF HealInv
<1>7. ASSUME p \in alone, writer[p].op = "scheme"
      PROVE  /\ new.pc = "idle" => Matches(globalToml)'
             /\ new.pc # "idle" => globalToml'.scheme = new.arg /\ Achieved(p)'
  <2>1. globalToml.scheme = writer[p].arg /\ Achieved(p)
    BY <1>1, <1>7 DEF HealInv, SchemeStage, Writing, WriterAt
  <2>. USE LeftIs, <1>1, <1>3, <1>4 DEF ToDo, SchemeShown, LightShown, PaletteShown
  <2>2. CASE ToDo(p, <<"scheme", "readUi", "light", "readPalette", "palette", "legacy">>)
    BY <2>1, <2>2 DEF Achieved, HealInv
  <2>3. CASE ToDo(p, <<"readUi", "light", "readPalette", "palette", "legacy">>) /\ SchemeShown(p)
    BY <2>1, <2>3 DEF Achieved, HealInv
  <2>4. CASE /\ ToDo(p, <<"light", "readPalette", "palette", "legacy">>)
             /\ SchemeShown(p) /\ writer[p].seen = Light(globalToml.ui)
    BY <2>1, <2>4 DEF Achieved, HealInv
  <2>5. CASE ToDo(p, <<"readPalette", "palette", "legacy">>) /\ SchemeShown(p) /\ LightShown
    BY <2>1, <2>5 DEF Achieved, HealInv
  <2>6. CASE /\ ToDo(p, <<"palette", "legacy">>)
             /\ SchemeShown(p) /\ LightShown /\ writer[p].seen = globalToml.palette
    BY <2>1, <2>6 DEF Achieved, HealInv
  <2>7. CASE ToDo(p, <<"legacy">>) /\ SchemeShown(p) /\ LightShown /\ PaletteShown
    BY <2>1, <2>7 DEF Matches, HealInv
  <2>. QED  BY <2>1, <2>2, <2>3, <2>4, <2>5, <2>6, <2>7 DEF Achieved
<1>8. \A q \in alone : Writing(q)' => SchemeStage(q)'
  <2>. SUFFICES ASSUME NEW q \in alone, writer'[q].pc # "idle", writer'[q].op = "scheme"
                PROVE  globalToml'.scheme = writer'[q].arg /\ Achieved(q)'
    BY DEF Writing, SchemeStage
  <2>1. q = p
    <3>1. q # p => Writing(q) /\ Writing(p) /\ q \in ThemeProc
      BY <1>1, <1>2 DEF HealInv, Writing
    <3>. QED  BY <3>1 DEF HealInv
  <2>2. writer[p].op = "scheme"
    BY <1>3, <1>4, <2>1
  <2>. QED  BY <1>3, <1>7, <2>1, <2>2
<1>. QED  BY <1>1, <1>3, <1>5, <1>6, <1>7, <1>8 DEF HealInv

(* A lone scheme write has achieved what it no longer has to do.           *)
THEOREM HealInvariant == ThemeStoreSpec => [](StoreInv /\ HealInv)
<1>1. StoreInv /\ HealInv /\ [ThemeStoreNext]_storeVars => HealInv'
  <2>. SUFFICES ASSUME StoreInv, HealInv, [ThemeStoreNext]_storeVars PROVE HealInv'
    OBVIOUS
  <2>1. ASSUME NEW p \in ThemeProc,
               WriteScheme(p) \/ WriteUi(p) \/ WritePalette(p) \/ WriteSchemes(p) \/ EnsureGlobal(p)
        PROVE  HealInv'
    BY <2>1, HealStart DEF WriteScheme, WriteUi, WritePalette, WriteSchemes, EnsureGlobal
  <2>2. CASE UNCHANGED storeVars
    BY <2>2 DEF storeVars, HealInv, Writing, SchemeStage, WriterAt, Achieved, ToDo, SchemeShown,
                LightShown, PaletteShown
  <2>. QED  BY <2>1, <2>2, HealLock, HealSave, HealProject, HealDies DEF ThemeStoreNext
<1>. QED  BY <1>1, StoreInvInit, StoreInvNext, HealInvInit, PTL DEF ThemeStoreSpec

(* store.rs, set_global_scheme: when it ends and no other write overlapped *)
(* it, all four projections agree with global.toml, whatever earlier races *)
(* and deaths had left in them.                                            *)
THEOREM StoreLoneWriteHeals == ThemeStoreSpec => LoneSchemeWriteHeals
<1>. DEFINE Heals == \A p \in alone \cap alone' :
       /\ writer[p].op = "scheme" /\ writer'[p].pc = "idle" /\ ActiveWriters = {p}
       => Matches(globalToml)'
<1>1. StoreInv /\ HealInv /\ [ThemeStoreNext]_storeVars => [Heals]_storeVars
  <2>. SUFFICES ASSUME StoreInv, HealInv, ThemeStoreNext,
                       NEW p \in alone \cap alone', writer[p].op = "scheme",
                       writer'[p].pc = "idle", ActiveWriters = {p}
                PROVE  Matches(globalToml)'
    OBVIOUS
  <2>1. p \in ThemeProc /\ Writing(p) /\ \A q \in ThemeProc : Writing(q) => q = p
    BY DEF ActiveWriters
  <2>2. PICK q \in ThemeProc :
          \/ WriteScheme(q) \/ WriteUi(q) \/ WritePalette(q) \/ WriteSchemes(q) \/ EnsureGlobal(q)
          \/ LockAndLoad(q) \/ SaveAndUnlock(q) \/ Project(q) \/ WriterDies(q)
    BY DEF ThemeStoreNext
  <2>3. CASE WriteScheme(q) \/ WriteUi(q) \/ WritePalette(q) \/ WriteSchemes(q) \/ EnsureGlobal(q)
    BY <2>1, <2>3 DEF WriteScheme, WriteUi, WritePalette, WriteSchemes, EnsureGlobal, Start, ActiveWriters
  <2>4. CASE LockAndLoad(q)
    <3>1. q = p
      BY <2>1, <2>4 DEF LockAndLoad, WriterAt, Writing
    <3>2. PICK new : new = writer'[p]
      OBVIOUS
    <3>3. new = [writer[p] EXCEPT !.pc = "save", !.root = globalToml] /\ Shaped(writer[p])
      BY <2>1, <2>4, <3>1, <3>2 DEF LockAndLoad, StoreInv, WriterOK
    <3>4. new.pc = "save"
      BY <3>3 DEF Shaped
    <3>. QED  BY <3>2, <3>4
  <2>5. CASE SaveAndUnlock(q)
    <3>1. q = p
      BY <2>1, <2>5 DEF SaveAndUnlock, WriterAt, Writing
    <3>. QED  BY <2>5, <3>1, HealSave
  <2>6. CASE Project(q)
    <3>1. q = p
      BY <2>1, <2>6 DEF Project, WriterAt, Writing
    <3>. QED  BY <2>6, <3>1, HealProject
  <2>7. CASE WriterDies(q)
    BY <2>1, <2>7 DEF WriterDies
  <2>. QED  BY <2>2, <2>3, <2>4, <2>5, <2>6, <2>7
<1>. QED  BY <1>1, HealInvariant, PTL DEF ThemeStoreSpec, LoneSchemeWriteHeals
=============================================================================
