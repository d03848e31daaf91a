---------------------------- MODULE PackageEngine ----------------------------
(* %install and the directives that go with it (SwiftPMEngine), over several *)
(* kernels: what is on disk outlives a kernel, what the engine and the       *)
(* process have in memory does not.                                          *)
(*                                                                           *)
(* A specification is what stands between %install and the products.  Each   *)
(* one has a folder of its own, in which SwiftPM builds, for all products    *)
(* and flags, with one database of what it has built; some flags select a    *)
(* folder within that.  A kernel may be killed between any two steps, and    *)
(* every call to the file system, SwiftPM or LLDB that the engine checks     *)
(* may fail.                                                                 *)
EXTENDS Naturals, Sequences, FiniteSets

CONSTANTS
  Line,           \* lines of %install, each [spec, products]
  Location,       \* install locations
  Default,        \* the first one, "/opt/swift/packages"
  Flag,           \* SwiftPM flags, the combinations of them
  NoFlags,
  BinDir,         \* [flags -> what --show-bin-path says, within a package]
  SwiftModule,    \* [line -> the Swift modules its products are built from]
  ClangModule,    \* [line -> the Clang modules with a module map]
  MaxKernels,     \* bound on the number of kernels
  MaxInstalls     \* bound on the number of %install

(* The Clang modules that were loaded, before the set is read.               *)
NotRead == {"(not read)"}

ASSUME ConstantsAssumption ==
  /\ Default \in Location /\ NoFlags \in Flag
  /\ \A line \in Line : ClangModule[line] \cap NotRead = {}
  /\ MaxKernels \in Nat \ {0} /\ MaxInstalls \in Nat

Spec_ == {line.spec : line \in Line}

VARIABLES
  \* On disk, for each location.
  index,             \* the specifications in the file "index"
  packages,          \* number -> the line that its manifest was written for
  rows,              \* <<number, bin folder, module>> that is in build.db
  mapRows,           \* <<number, Clang module>> with a module map in build.db
  libraries,         \* <<number, bin folder>> -> [line, flags] it was built for
  links,             \* module -> <<number, bin folder>>, where its link leads
  maps,              \* the Clang modules with a copy of their module map
  link,              \* where /opt/swift/install-location leads
  \* In memory.
  kernels,           \* number of the kernel
  installLocation,
  swiftPMFlags,
  loadedClangModules,  \* the set, or NotRead
  loaded,            \* <<location, number, bin folder>> -> the library that the
                     \* process has opened under this path
  install,           \* the %install that runs
  pc,
  installs,
  \* History.
  readFrom,          \* the location that loadedClangModules was read from
  searched,          \* link when the process was started
  seen               \* the Clang modules that it led to

disk == <<index, packages, rows, mapRows, libraries, links, maps, link>>
atStart == <<searched, seen>>
session == <<kernels, installLocation, swiftPMFlags, loadedClangModules, readFrom,
             loaded, atStart>>
vars == <<disk, session, install, pc, installs>>

Init ==
  /\ index = [l \in Location |-> <<>>] /\ packages = [l \in Location |-> <<>>]
  /\ rows = [l \in Location |-> {}] /\ mapRows = [l \in Location |-> {}]
  /\ libraries = [l \in Location |-> <<>>] /\ links = [l \in Location |-> <<>>]
  /\ maps = [l \in Location |-> {}] /\ link = {}
  /\ kernels = 1 /\ installLocation = Default /\ swiftPMFlags = NoFlags
  /\ loadedClangModules = NotRead /\ readFrom = Default /\ searched = {} /\ seen = {}
  /\ loaded = <<>> /\ install = <<>> /\ pc = "idle" /\ installs = 0

-----------------------------------------------------------------------------
(* The %install that runs goes on or ends.                                   *)
Continues(to) == pc' = to /\ UNCHANGED install
Ends == pc' = "idle" /\ install' = <<>>
Fails(from) == pc = from /\ Ends /\ UNCHANGED <<disk, session, installs>>
Go(from, to) == pc = from /\ Continues(to) /\ UNCHANGED installs

(* Sessions and directives.                                                  *)

(* The kernel is killed, at any step, and another is started.                *)
Restart ==
  /\ kernels < MaxKernels
  /\ kernels' = kernels + 1
  /\ installLocation' = Default /\ swiftPMFlags' = NoFlags
  /\ loadedClangModules' = NotRead /\ readFrom' = Default
  /\ searched' = link /\ seen' = UNION {maps[l] : l \in link}
  /\ loaded' = <<>> /\ Ends
  /\ UNCHANGED <<disk, installs>>

(* %install-location *)
InstallLocation ==
  /\ pc \in {"idle", "done"} /\ Ends
  /\ \E l \in Location : installLocation' = l
  /\ UNCHANGED <<disk, kernels, swiftPMFlags, loadedClangModules, readFrom, loaded, atStart,
                 installs>>

(* %install-swiftpm-flags and %install-extra-include-command: a line may add *)
(* flags, clear them, or clear them and then fail to parse the new ones.     *)
SwiftPMFlags ==
  /\ pc \in {"idle", "done"} /\ Ends
  /\ \E f \in Flag : swiftPMFlags' = f
  /\ UNCHANGED <<disk, kernels, installLocation, loadedClangModules, readFrom, loaded,
                 atStart, installs>>

-----------------------------------------------------------------------------
(* %install, step by step.                                                   *)

Position(specs, spec) == CHOOSE k \in DOMAIN specs : specs[k] = spec
Indexed(l, spec) == \E k \in DOMAIN index[l] : index[l][k] = spec
L == install.location
Bin == BinDir[install.flags]

(* A function of which some values were there before.                        *)
Over(new, old) ==
  [x \in DOMAIN new \cup DOMAIN old |-> IF x \in DOMAIN new THEN new[x] ELSE old[x]]

(* The folder, and the symbolic link to it, which is removed first.          *)
BeginInstall ==
  /\ pc \in {"idle", "done"} /\ installs < MaxInstalls
  /\ installs' = installs + 1
  /\ \/ /\ link' = {installLocation} /\ pc' = "index"
        /\ \E line \in Line :
             install' = [line |-> line, location |-> installLocation, id |-> 0,
                         flags |-> swiftPMFlags, warned |-> {}, first |-> FALSE]
     \/ link' \in {link, {}, {installLocation}} /\ Ends
  /\ UNCHANGED <<index, packages, rows, mapRows, libraries, links, maps, session>>

(* A mistake: the file is not written before the package is built.           *)
IndexInMemory ==
  /\ pc = "index" /\ pc' = "manifest"
  /\ install' = [install EXCEPT !.id =
       IF Indexed(L, install.line.spec) THEN Position(index[L], install.line.spec)
       ELSE Len(index[L]) + 1]
  /\ UNCHANGED <<disk, session, installs>>

(* A mistake: the file gets what this kernel has installed.                  *)
IndexOverwritten ==
  /\ pc = "index" /\ pc' = "manifest"
  /\ index' = [index EXCEPT ![L] =
       IF loaded = <<>> THEN <<install.line.spec>>
       ELSE IF Indexed(L, install.line.spec) THEN @ ELSE Append(@, install.line.spec)]
  /\ install' = [install EXCEPT !.id = Position(index'[L], install.line.spec)]
  /\ UNCHANGED <<packages, rows, mapRows, libraries, links, maps, link, session, installs>>

(* readInstalledPackages, the number of the specification, and               *)
(* writeInstalledPackages.  The name of the file is compared with the        *)
(* location, so that it is read each time.                                   *)
EnterIntoIndex ==
  \/ /\ pc = "index" /\ pc' = "manifest"
     /\ index' = [index EXCEPT ![L] =
          IF Indexed(L, install.line.spec) THEN @ ELSE Append(@, install.line.spec)]
     /\ install' = [install EXCEPT !.id = Position(index'[L], install.line.spec)]
     /\ UNCHANGED <<packages, rows, mapRows, libraries, links, maps, link, session, installs>>
  \/ Fails("index")

(* The folder of the package and its manifest.                               *)
WriteManifest ==
  \/ /\ Go("manifest", "build")
     /\ packages' = [packages EXCEPT ![L] =
          Over([k \in {install.id} |-> install.line], @)]
     /\ UNCHANGED <<index, rows, mapRows, libraries, links, maps, link, session>>
  \/ Fails("manifest")

Row(m) == <<install.id, Bin, m>>

(* swift-build in the folder builds what the manifest says, in place of what *)
(* an earlier one left in the same bin folder.  One that fails may have      *)
(* entered any of its modules in build.db, with or without a file, and taken *)
(* away the library; earlier rows stay.                                      *)
Build ==
  /\ pc = "build"
  /\ LET line    == packages[L][install.id]
         path    == <<install.id, Bin>>
         library == [line |-> line, flags |-> install.flags]
         Enter(swift, clang) ==
           /\ rows' = [rows EXCEPT ![L] = @ \cup {Row(m) : m \in swift}]
           /\ mapRows' = [mapRows EXCEPT ![L] = @ \cup {install.id} \X clang]
     IN  \/ /\ Continues("modules")
            /\ Enter(SwiftModule[line], ClangModule[line])
            /\ libraries' = [libraries EXCEPT ![L] = Over([p \in {path} |-> library], @)]
         \/ /\ Ends
            /\ \E swift \in SUBSET SwiftModule[line] :
                 \E clang \in SUBSET ClangModule[line] : Enter(swift, clang)
            /\ \/ UNCHANGED libraries
               \/ libraries' = [libraries EXCEPT ![L] = [p \in DOMAIN @ \ {path} |-> @[p]]]
  /\ UNCHANGED <<index, packages, links, maps, link, session, installs>>

(* A mistake: the Clang modules are looked up for each %install.             *)
ReadClangModulesAgain ==
  \/ /\ Go("modules", "links")
     /\ loadedClangModules' = maps[L] /\ readFrom' = L
     /\ UNCHANGED <<disk, kernels, installLocation, swiftPMFlags, loaded, atStart>>
  \/ Fails("modules")

(* readClangModules, once, and the test for build.db.                        *)
ReadClangModules ==
  /\ pc = "modules" /\ (Continues("links") \/ Ends)
  /\ IF loadedClangModules = NotRead
       THEN loadedClangModules' = maps[L] /\ readFrom' = L
       ELSE UNCHANGED <<loadedClangModules, readFrom>>
  /\ UNCHANGED <<disk, kernels, installLocation, swiftPMFlags, loaded, atStart, installs>>

(* The modules that build.db has for the package, from any build of it.      *)
ModulesOf(id) == {r[3] : r \in {q \in rows[L] : q[1] = id}}
Targets(modules) ==
  {to \in [modules -> {<<r[1], r[2]>> : r \in rows[L]}] :
     \A m \in modules : to[m][1] = install.id /\ <<to[m][1], to[m][2], m>> \in rows[L]}

(* A mistake: a link that is there already is kept.                          *)
KeepLinks ==
  \/ /\ Go("links", "maps")
     /\ \E new \in Targets(ModulesOf(install.id)) :
          links' = [links EXCEPT ![L] = Over(@, new)]
     /\ UNCHANGED <<index, packages, rows, mapRows, libraries, maps, link, session>>
  \/ Fails("links")

(* For each .swiftmodule in build.db a link, in place of one of that name;   *)
(* of several the last one stays, and the query asks for no order.  When one *)
(* cannot be made, the link it replaces is gone, and those before it are     *)
(* there.                                                                    *)
LinkSwiftModules ==
  /\ pc = "links" /\ UNCHANGED installs
  /\ \E made \in SUBSET ModulesOf(install.id) : \E new \in Targets(made) :
       LET rest == ModulesOf(install.id) \ made
       IN  \/ rest = {} /\ Continues("maps") /\ links' = [links EXCEPT ![L] = Over(new, @)]
           \/ /\ Ends
              /\ \E failed \in rest :
                   links' = [links EXCEPT ![L] =
                     Over(new, [m \in DOMAIN @ \ {failed} |-> @[m]])]
  /\ UNCHANGED <<index, packages, rows, mapRows, libraries, maps, link, session>>

(* The module maps in build.db, the same way, and the warning about those    *)
(* that are new to this kernel.                                              *)
CopyModuleMaps ==
  /\ pc = "maps"
  /\ LET modules == {r[2] : r \in {q \in mapRows[L] : q[1] = install.id}}
     IN  \E made \in SUBSET modules :
           /\ maps' = [maps EXCEPT ![L] = @ \cup made]
           /\ \/ /\ made = modules /\ pc' = "dlopen"
                 /\ install' = [install EXCEPT !.warned = modules \ loadedClangModules]
              \/ made # modules /\ Ends
  /\ UNCHANGED <<index, packages, rows, mapRows, libraries, links, link, session, installs>>

Path == <<L, install.id, Bin>>

(* dlopen of the library: one that the process has under this path stays,    *)
(* whatever was built there since.                                           *)
Dlopen ==
  \/ /\ pc = "dlopen" /\ pc' = "done" /\ UNCHANGED installs
     /\ loaded' = Over(loaded, [p \in {Path} |-> libraries[L][<<install.id, Bin>>]])
     /\ install' = [install EXCEPT !.first = Path \notin DOMAIN loaded]
     /\ UNCHANGED <<disk, kernels, installLocation, swiftPMFlags, loadedClangModules,
                    readFrom, atStart>>
  \/ Fails("dlopen")

-----------------------------------------------------------------------------
Next ==
  \/ Restart \/ InstallLocation \/ SwiftPMFlags \/ BeginInstall \/ EnterIntoIndex
  \/ WriteManifest \/ Build \/ ReadClangModules \/ LinkSwiftModules \/ CopyModuleMaps
  \/ Dlopen

Spec == Init /\ [][Next]_vars

-----------------------------------------------------------------------------
(* Properties.                                                               *)

(* The types of the variables: an index names nothing twice.                 *)
TypeOK ==
  /\ \A l \in Location :
       /\ index[l] \in Seq(Spec_) /\ DOMAIN packages[l] \subseteq Nat
       /\ \A j, k \in DOMAIN index[l] : index[l][j] = index[l][k] => j = k
  /\ link \subseteq Location /\ Cardinality(link) <= 1
  /\ kernels \in 1 .. MaxKernels /\ installs \in 0 .. MaxInstalls
  /\ pc \in {"idle", "index", "manifest", "build", "modules", "links", "maps", "dlopen", "done"}

(* Whatever fails and whenever a kernel is killed, the folder of a package   *)
(* is only ever used for one specification, the one that the index has under *)
(* its number: no build starts from what another package has left, and no    *)
(* process gets its library from another package's folder.                   *)
FoldersBelongToIndex ==
  \A l \in Location :
    LET Owns(id, spec) == id \in DOMAIN index[l] /\ index[l][id] = spec
    IN  /\ \A id \in DOMAIN packages[l] : Owns(id, packages[l][id].spec)
        /\ \A p \in DOMAIN libraries[l] : Owns(p[1], libraries[l][p].line.spec)
        /\ \A p \in DOMAIN loaded : p[1] = l => Owns(p[2], loaded[p].line.spec)

(* The link of a module leads to a place that a database of SwiftPM has for  *)
(* this very module.                                                         *)
LinksLeadToModules ==
  \A l \in Location : \A m \in DOMAIN links[l] :
    <<links[l][m][1], links[l][m][2], m>> \in rows[l]

(* An %install that succeeds leaves its package usable, whatever earlier     *)
(* ones, complete or not, left behind: imports look at its location; the     *)
(* link of each module it needs leads into its folder, and to what was just  *)
(* compiled unless the package was ever built for another bin folder; and    *)
(* the process has the library of its package, the one just built unless it  *)
(* had opened one under the same path before.                                *)
SuccessMeansUsable ==
  pc = "done" =>
    /\ link = {L}
    /\ \A m \in SwiftModule[install.line] :
         /\ m \in DOMAIN links[L] /\ links[L][m][1] = install.id
         /\ (\A r \in rows[L] : r[1] = install.id /\ r[3] = m => r[2] = Bin)
              => links[L][m] = <<install.id, Bin>>
    /\ Path \in DOMAIN loaded /\ loaded[Path].line.spec = install.line.spec
    /\ install.first => loaded[Path] = [line |-> install.line, flags |-> install.flags]

(* "dlopen the .so file that SwiftPM created" (ProcessInstalls.swift:134):   *)
(* not when the same specification was installed before in this kernel, with *)
(* other products or flags and the same bin folder.                          *)
LoadedIsBuilt ==
  pc = "done" => loaded[Path] = libraries[L][<<install.id, Bin>>]

(* The links of an %install that succeeds lead to what it has built: not     *)
(* when the package was built for another bin folder, even without success.  *)
LinkedIsBuilt ==
  pc = "done" => \A m \in SwiftModule[install.line] : links[L][m] = <<install.id, Bin>>

(* A Clang module that an %install does not warn about was on disk where the *)
(* compiler looked when the process was started, at whatever location it is  *)
(* installed now - provided that the first %install of this kernel was at    *)
(* the location that the link led to from before.                            *)
NoWarningMeansSeen ==
  pc = "done" /\ readFrom \in searched =>
    ClangModule[install.line] \ install.warned \subseteq seen

(* The same without the proviso, which the code does not keep.               *)
WarnedUnlessSeen ==
  pc = "done" => ClangModule[install.line] \ install.warned \subseteq seen

(* The invariant: the types, and folders and links that fit the index.       *)
DiskInv == TypeOK /\ FoldersBelongToIndex /\ LinksLeadToModules
=============================================================================
