------------------------------ MODULE ToolHome ------------------------------
(***************************************************************************)
(* The user-level tool home (src/cli/tools/manager.ts): the packages npm   *)
(* has installed in it, and the registry of the tools the CLI mounts,      *)
(* under add, remove and update.                                           *)
(*                                                                         *)
(* A step ends where the command waits (for npm, for a module to load) or  *)
(* has changed a file. A package is named as users name it: by its name or *)
(* an alias of it, which may be the name or the command of another         *)
(* package's tool as well, or by name and version. The latter is no        *)
(* installed tool's name. update --check changes nothing and is left out,  *)
(* and so are the dependencies every tool home pins.                       *)
(*                                                                         *)
(* What may go wrong is the environment of a behavior, chosen at its start *)
(* and fixed: how commands name versions, what npm and the operating       *)
(* system do to them, and how many of them overlap.                        *)
(***************************************************************************)
EXTENDS Naturals, FiniteSets, SequencesExt

CONSTANTS Procs,         \* CLI processes
          Packages,      \* tool packages
          MaxVersion,    \* bound: versions of a package
          Names,         \* names of tools
          Paths,         \* command paths, each a sequence of segments
          Reserved,      \* names of root commands
          None,          \* no package, version, entry or tool
          Torn,          \* a registry file cut short
          Environments   \* what may happen, one of them in a behavior

Tools == [name : Names, path : Paths]

EnvironmentType ==
    [pins : SUBSET {"new", "again"}, \* add pkg@version: new, or of a tool that is there
     words : [Packages -> Names \cup {None}], \* a word that names the package
     tools : SUBSET Tools,           \* bound: the published tools
     npmFails : BOOLEAN,             \* npm may fail
     rollbackFails : BOOLEAN,        \* npm may fail in a rollback
     crashes : BOOLEAN,              \* processes may be killed
     atOnce : Nat,                   \* bound: commands that overlap
     maxAlone : Nat,                 \* bound: versions that load alone only
     maxRuns : Nat]                  \* bound: commands that start

ASSUME ProcsAssumption == IsFiniteSet(Procs)
ASSUME VersionsAssumption == MaxVersion \in Nat \ {0}
ASSUME PathsAssumption == \A path \in Paths : Len(path) \in Nat \ {0}
ASSUME EnvironmentsAssumption == Environments \subseteq EnvironmentType

VARIABLES contract,  \* the tool that a version of a package is, None if it is none
          alone,     \* versions that load in a home of their own only
          latest,    \* the version npm knows as latest
          registry,  \* registry.json
          installed, \* the version of each package in the tool home
          runs,      \* commands started
          env,       \* what may happen
          pc,        \* where each process is in its command
          job        \* its command, arguments and what it has read

Versions == 1..MaxVersion
vars == <<contract, alone, latest, registry, installed, runs, env, pc, job>>

Entries == [pkg : Packages, version : Versions, name : Names, path : Paths]

ASSUME NoneAssumption ==
    /\ None \notin Packages /\ None \notin Versions
    /\ None \notin Names /\ None \notin Tools /\ None \notin Entries
    /\ Torn \notin Seq(Entries)

Ended == {"done", "failed"}

Jobs == [cmd : {"none", "add", "remove", "update"}, pkg : Packages \cup {None},
         pin : Versions \cup {None}, entries : Seq(Entries),
         previous : Entries \cup {None},
         before : [Packages -> Versions \cup {None}] \cup {None},
         changed : Packages \cup {None}, next : Entries \cup {None},
         todo : SUBSET Packages]

NoJob == [cmd |-> "none", pkg |-> None, pin |-> None, entries |-> <<>>,
          previous |-> None, before |-> None, changed |-> None, next |-> None,
          todo |-> {}]

TypeOK ==
    /\ contract \in [Packages \X Versions -> Tools \cup {None}]
    /\ alone \subseteq Packages \X Versions
    /\ latest \in [Packages -> Versions]
    /\ registry \in Seq(Entries) \cup {Torn}
    /\ installed \in [Packages -> Versions \cup {None}]
    /\ env \in Environments /\ runs \in 0..env.maxRuns
    /\ pc \in [Procs -> Ended \cup {"install", "validate", "rollback", "write",
                                   "writing", "uninstall", "look", "apply",
                                   "applied"}]
    /\ job \in [Procs -> Jobs]

(* Whatever was ever published, of which npm knows the first versions; an  *)
(* empty tool home.                                                        *)
Init ==
    /\ env \in Environments
    /\ contract \in [Packages \X Versions -> env.tools \cup {None}]
    /\ alone \in SUBSET {v \in DOMAIN contract : contract[v] # None}
    /\ Cardinality(alone) <= env.maxAlone
    /\ latest = [pkg \in Packages |-> 1]
    /\ registry = <<>> /\ runs = 0
    /\ installed = [pkg \in Packages |-> None]
    /\ pc = [p \in Procs |-> "done"]
    /\ job = [p \in Procs |-> NoJob]

Publish(pkg) ==
    /\ latest[pkg] + 1 \in Versions
    /\ latest' = [latest EXCEPT ![pkg] = @ + 1]
    /\ UNCHANGED <<contract, alone, registry, installed, runs, env, pc, job>>

-----------------------------------------------------------------------------
(* Entries, conflicts and loaded tools. *)

(* path is under the path of another, or is that path. *)
Within(path, other) == IsPrefix(other, path)

Collide(path, other) == Within(path, other) \/ Within(other, path)

(* A variant that looks for the same path only. *)
SamePath(e, entries) ==
    \/ e.name \in Reserved \/ e.path[1] \in Reserved
    \/ \E o \in ToSet(entries) : o.pkg # e.pkg /\ e.path = o.path

getConflict(e, entries) ==
    \/ e.name \in Reserved \/ e.path[1] \in Reserved
    \/ \E o \in ToSet(entries) : o.pkg # e.pkg /\ Collide(e.path, o.path)

EntryOf(pkg, version) ==
    [pkg |-> pkg, version |-> version, name |-> contract[<<pkg, version>>].name,
     path |-> contract[<<pkg, version>>].path]

Valid(pkg, version) == version # None /\ contract[<<pkg, version>>] # None

Loads(pkg) ==
    Valid(pkg, installed[pkg]) /\ <<pkg, installed[pkg]>> \notin alone
Loaded(pkg) == EntryOf(pkg, installed[pkg])

(* The entries of all packages but one, in their order. *)
Without(entries, pkg) ==
    LET keep[i \in 0..Len(entries)] ==
            IF i = 0 THEN <<>>
            ELSE IF entries[i].pkg = pkg THEN keep[i - 1]
            ELSE Append(keep[i - 1], entries[i])
    IN  keep[Len(entries)]

-----------------------------------------------------------------------------
(* Every process first mounts the tools; only then does a command begin:   *)
(* it reads the registry, and package.json for an add.                     *)

(* A malformed registry mounts nothing. *)
Mounted ==
    IF registry = Torn THEN {}
    ELSE {i \in DOMAIN registry : ~getConflict(registry[i], registry)}

(* commander refuses a command where there is one, or a group of them. *)
Mounts ==
    \A i, k \in Mounted : i # k => ~Collide(registry[i].path, registry[k].path)

Begin(p, where, j) ==
    /\ pc[p] \in Ended /\ runs < env.maxRuns
    /\ Cardinality({q \in Procs : pc[q] \notin Ended}) < env.atOnce
    /\ Mounts
    /\ runs' = runs + 1
    /\ pc' = [pc EXCEPT ![p] = where]
    /\ job' = [job EXCEPT ![p] = [j EXCEPT !.entries = registry]]
    /\ UNCHANGED <<contract, alone, latest, registry, installed, env>>

(* The word that names pkg is also the name of a tool, or its command. *)
Called(tool, pkg) ==
    /\ env.words[pkg] # None
    /\ tool.name = env.words[pkg] \/ tool.path = <<env.words[pkg]>>

(* Only a bare name or an alias finds the entry to replace: the one of the *)
(* package or, failing that, the only one that is called so.               *)
Previous(pkg, pin) ==
    LET own == {e \in ToSet(registry) : e.pkg = pkg}
        called == {i \in DOMAIN registry : Called(registry[i], pkg)}
    IN  IF pin # None THEN {}
        ELSE IF own # {} THEN own
        ELSE IF Cardinality(called) = 1 THEN {registry[i] : i \in called} ELSE {}

BeginAdd(p) ==
    /\ registry # Torn
    /\ \E pkg \in Packages, pin \in Versions \cup {None} :
          /\ pin # None =>
                /\ pin <= latest[pkg]
                /\ IF \E e \in ToSet(registry) : e.pkg = pkg
                   THEN "again" \in env.pins ELSE "new" \in env.pins
          /\ LET found == Previous(pkg, pin)
             IN  \E e \in IF found = {} THEN {None} ELSE found :
                    Begin(p, "install",
                          [NoJob EXCEPT !.cmd = "add", !.pkg = pkg, !.pin = pin,
                                        !.previous = e, !.before = installed])

BeginRemove(p) ==
    /\ registry # Torn
    /\ \E e \in ToSet(registry) :
          Begin(p, "uninstall", [NoJob EXCEPT !.cmd = "remove", !.pkg = e.pkg])

(* One tool, or all. *)
BeginUpdate(p) ==
    /\ registry # Torn /\ registry # <<>>
    /\ LET all == {e.pkg : e \in ToSet(registry)}
       IN  \E targets \in {all} \cup {{pkg} : pkg \in all} :
              Begin(p, "look", [NoJob EXCEPT !.cmd = "update", !.todo = targets])

-----------------------------------------------------------------------------
(* Steps of commands. *)

End(p, how) ==
    /\ pc' = [pc EXCEPT ![p] = how]
    /\ job' = [job EXCEPT ![p] = NoJob]

GoTo(p, where) == pc' = [pc EXCEPT ![p] = where] /\ UNCHANGED job

(* A variant that takes a later version than the one asked for. *)
NpmLater(pkg, version) ==
    installed' = [installed EXCEPT
                     ![pkg] = IF version = None THEN None ELSE version + 1]

(* npm runs to its end, and saves the exact version. *)
Npm(pkg, version) == installed' = [installed EXCEPT ![pkg] = version]

(* The package an add finds changed: the one it replaces, or any that is   *)
(* not what it was before.                                                 *)
Changed(j) ==
    IF j.previous # None THEN {j.previous.pkg}
    ELSE LET differ == {pkg \in Packages : installed'[pkg] \notin {None, j.before[pkg]}}
         IN  IF differ = {} THEN {None} ELSE differ

Install(p) ==
    /\ pc[p] = "install"
    /\ LET j == job[p]
       IN  \/ /\ Npm(j.pkg, IF j.pin = None THEN latest[j.pkg] ELSE j.pin)
              /\ \E pkg \in Changed(j) :
                    job' = [job EXCEPT ![p].changed = pkg]
              /\ pc' = [pc EXCEPT ![p] = "validate"]
           \/ env.npmFails /\ End(p, "failed") /\ UNCHANGED installed
    /\ UNCHANGED <<contract, alone, latest, registry, runs, env>>

Save(p, entries) ==
    /\ pc' = [pc EXCEPT ![p] = "write"]
    /\ job' = [job EXCEPT ![p].entries = entries]

(* A variant that keeps the entry being replaced. *)
AppendEntry(j, e) == Append(j.entries, e)

Replaced(j, e) ==
    Append(IF j.previous = None THEN j.entries
           ELSE Without(j.entries, j.previous.pkg), e)

(* The package an add loads; a name with a version is none. *)
Target(j) ==
    IF j.changed # None THEN j.changed ELSE IF j.pin = None THEN j.pkg ELSE None

Validate(p) ==
    /\ pc[p] = "validate"
    /\ LET j == job[p]
           pkg == Target(j)
           ok == /\ pkg # None /\ Loads(pkg)
                 /\ ~getConflict(Loaded(pkg), j.entries)
       IN  \/ ok /\ Save(p, Replaced(j, Loaded(pkg)))
           \/ ~ok /\ GoTo(p, "rollback")
    /\ UNCHANGED <<contract, alone, latest, registry, installed, runs, env>>

(* A variant that leaves the package it could not add. *)
KeepAdded(j) == UNCHANGED installed

(* A variant that forgets the tool that was there before. *)
UninstallAdded(j) == Npm(IF j.changed # None THEN j.changed ELSE j.pkg, None)

UndoAdd(j) ==
    CASE j.previous # None -> Npm(j.previous.pkg, j.previous.version)
      [] j.previous = None /\ j.changed # None -> Npm(j.changed, None)
      [] OTHER -> UNCHANGED installed

(* A variant that does not undo an update. *)
KeepUpdated(j) == UNCHANGED installed

UndoUpdate(j) == Npm(j.previous.pkg, j.previous.version)

(* What an update does after a target: the next one, or it ends. *)
Continue(p) ==
    LET left == job[p].todo \ {job[p].next.pkg}
    IN  IF left = {} THEN End(p, "done")
        ELSE /\ pc' = [pc EXCEPT ![p] = "look"]
             /\ job' = [job EXCEPT ![p].todo = left, ![p].previous = None,
                                   ![p].next = None]

Undo(j) == IF j.cmd = "add" THEN UndoAdd(j) ELSE UndoUpdate(j)

Rollback(p) ==
    /\ pc[p] = "rollback"
    /\ \/ Undo(job[p])
       \/ env.rollbackFails /\ UNCHANGED installed
    /\ IF job[p].cmd = "add" THEN End(p, "failed") ELSE Continue(p)
    /\ UNCHANGED <<contract, alone, latest, registry, runs, env>>

(* writeRegistryEntries writes the registry in place. *)
Truncate(p) ==
    /\ pc[p] = "write"
    /\ registry' = Torn
    /\ GoTo(p, "writing")
    /\ UNCHANGED <<contract, alone, latest, installed, runs, env>>

Write(p) ==
    /\ pc[p] = "writing"
    /\ registry' = job[p].entries
    /\ IF job[p].cmd = "update" THEN Continue(p) ELSE End(p, "done")
    /\ UNCHANGED <<contract, alone, latest, installed, runs, env>>

UninstallPackage(pkg) == Npm(pkg, None)

Uninstall(p) ==
    /\ pc[p] = "uninstall"
    /\ \/ /\ UninstallPackage(job[p].pkg)
          /\ Save(p, Without(job[p].entries, job[p].pkg))
       \/ env.npmFails /\ End(p, "failed") /\ UNCHANGED installed
    /\ UNCHANGED <<contract, alone, latest, registry, runs, env>>

(* The latest version, loaded from a scratch home. *)
inspectLatest(pkg) == EntryOf(pkg, latest[pkg])

(* A target of an update that is broken, up to date, or has a latest       *)
(* version that cannot be looked at, is no tool or conflicts is passed     *)
(* over. The order of targets is of no account.                            *)
Updates(j, e) ==
    LET next == inspectLatest(e.pkg)
    IN  /\ Loads(e.pkg) /\ Loaded(e.pkg) = e
        /\ latest[e.pkg] # e.version
        /\ Valid(e.pkg, latest[e.pkg])
        /\ ~getConflict(next, Without(j.entries, e.pkg))

Look(p) ==
    /\ pc[p] = "look"
    /\ \E e \in ToSet(job[p].entries) :
          /\ e.pkg \in job[p].todo
          /\ \/ /\ Updates(job[p], e)
                /\ pc' = [pc EXCEPT ![p] = "apply"]
                /\ job' = [job EXCEPT ![p].previous = e,
                                      ![p].next = inspectLatest(e.pkg)]
             \/ /\ env.npmFails \/ ~Updates(job[p], e)
                /\ LET left == job[p].todo \ {e.pkg}
                   IN  IF left = {} THEN End(p, "done")
                       ELSE /\ job' = [job EXCEPT ![p].todo = left]
                            /\ UNCHANGED pc
    /\ UNCHANGED <<contract, alone, latest, registry, installed, runs, env>>

Apply(p) ==
    /\ pc[p] = "apply"
    /\ \/ /\ Npm(job[p].next.pkg, job[p].next.version)
          /\ GoTo(p, "applied")
       \/ env.npmFails /\ GoTo(p, "rollback") /\ UNCHANGED installed
    /\ UNCHANGED <<contract, alone, latest, registry, runs, env>>

Applied(p) ==
    /\ pc[p] = "applied"
    /\ LET j == job[p]
           others == Without(j.entries, j.previous.pkg)
           ok == /\ Loads(j.previous.pkg)
                 /\ ~getConflict(Loaded(j.previous.pkg), others)
                 /\ Loaded(j.previous.pkg).version = j.next.version
       IN  \/ ok /\ Save(p, [i \in DOMAIN j.entries |->
                                 IF j.entries[i].pkg = j.previous.pkg
                                 THEN Loaded(j.previous.pkg) ELSE j.entries[i]])
           \/ ~ok /\ GoTo(p, "rollback")
    /\ UNCHANGED <<contract, alone, latest, registry, installed, runs, env>>

(* The npm of a killed command is taken to end with it. *)
Crash(p) ==
    /\ env.crashes /\ pc[p] \notin Ended
    /\ End(p, "failed")
    /\ UNCHANGED <<contract, alone, latest, registry, installed, runs, env>>

Step(p) ==
    \/ Install(p) \/ Validate(p) \/ Rollback(p) \/ Truncate(p) \/ Write(p)
    \/ Uninstall(p) \/ Look(p) \/ Apply(p) \/ Applied(p)

Next ==
    \/ \E pkg \in Packages : Publish(pkg)
    \/ \E p \in Procs : BeginAdd(p) \/ BeginRemove(p) \/ BeginUpdate(p)
                        \/ Step(p) \/ Crash(p)

Spec == Init /\ [][Next]_vars

-----------------------------------------------------------------------------
(* Properties.                                                             *)

(* What `moneyos tools` makes of an entry of the registry. *)
ToolState(e) ==
    IF getConflict(e, registry) THEN "conflict"
    ELSE IF Loads(e.pkg) /\ Loaded(e.pkg) = e THEN "ok" ELSE "broken"

AtRest == \A p \in Procs : pc[p] \in Ended

(* One command at a time, each of which runs to its end and can undo what  *)
(* it did, and none that names a version of a tool that is there.          *)
Orderly ==
    /\ env.atOnce = 1 /\ ~env.crashes /\ ~env.rollbackFails
    /\ "again" \notin env.pins

(* Whatever npm failed on the way, between commands every tool of the      *)
(* registry is installed as the registry has it and its command is         *)
(* mounted: `moneyos tools` reports every one of them as ok                *)
(* (manager.ts:516).                                                       *)
ToolsWork ==
    Orderly /\ AtRest =>
        registry # Torn /\ \A e \in ToSet(registry) : ToolState(e) = "ok"

(* The packages that are named by a word that another package's tool is    *)
(* called by: an add by such a word installs the one and registers the     *)
(* other (manager.ts:402, 489).                                            *)
Namesakes ==
    {pkg \in Packages :
        \E other \in Packages \ {pkg}, version \in Versions :
            /\ contract[<<other, version>>] # None
            /\ Called(contract[<<other, version>>], pkg)}

(* Between commands the tool home holds no package that is not a           *)
(* registered tool: a failed add takes its package away again              *)
(* (test/cli-tool-manager.test.ts:854). Namesakes are an exception, as the *)
(* add that installs one registers another package.                        *)
NoStrays ==
    Orderly /\ AtRest =>
        \A pkg \in Packages :
            installed[pkg] # None =>
                pkg \in Namesakes \/ \E e \in ToSet(registry) : e.pkg = pkg

(* The registry never holds two packages whose commands collide, or a      *)
(* command in place of a root command, so that every tool in it is mounted *)
(* (manager.ts:457): not even when commands that overlap write registries  *)
(* they read long before.                                                  *)
NoConflicts ==
    registry # Torn =>
        \A e \in ToSet(registry) :
            /\ e.name \notin Reserved /\ e.path[1] \notin Reserved
            /\ \A f \in ToSet(registry) : e.pkg # f.pkg => ~Collide(e.path, f.path)

(* Every command of the CLI, those that could repair the tool home         *)
(* included, starts by mounting the tools (index.ts:49). As long as        *)
(* commands run one at a time, mounting never fails, whatever npm did and  *)
(* wherever a command was killed, its npm with it                          *)
(* (test/cli-tool-manager.test.ts:1631, "malformed tool registries do not  *)
(* crash root cli startup"), but for the commands that leave two entries   *)
(* (OneEntry, below).                                                      *)
CliStarts == env.atOnce = 1 /\ "again" \notin env.pins => Mounts

(* test/cli-tool-manager.test.ts:790, "re-adding an installed tool         *)
(* refreshes the registry instead of duplicating it". Two entries at one   *)
(* path stop the CLI from starting (manager.ts:470).                       *)
OneEntry ==
    registry # Torn =>
        \A i, k \in DOMAIN registry : registry[i].pkg = registry[k].pkg => i = k

(* test/cli-tool-manager.test.ts:854, an add that fails "rolls back the    *)
(* package": a tool that worked when an add began works when it has        *)
(* failed.                                                                 *)
FailedAddBreaksNothing ==
    [][\A p \in Procs :
          Orderly /\ job[p].cmd = "add" /\ pc[p] # "failed" /\ pc'[p] = "failed" =>
             \A e \in ToSet(job[p].entries) :
                job[p].before[e.pkg] = e.version => installed'[e.pkg] = e.version]_vars

=============================================================================
