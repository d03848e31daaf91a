------------------------- MODULE PackageEngineProofs -------------------------
(* Proofs about PackageEngine, for any lines, locations and flags, with      *)
(* failures and kills at any step: what %install leaves on disk fits the     *)
(* index, and an %install that succeeds is usable.                           *)
EXTENDS PackageEngine, FiniteSetTheorems, TLAPS

(* The steps of an %install from one of them on.                             *)
Busy      == {"index", "manifest", "build", "modules", "links", "maps", "dlopen", "done"}
Numbered  == Busy \ {"index"}
Written   == Numbered \ {"manifest"}
Built     == {"modules", "links", "maps", "dlopen", "done"}
Read      == {"links", "maps", "dlopen", "done"}
Linked    == {"maps", "dlopen", "done"}
Warned    == {"dlopen", "done"}

ThisLibrary == [line |-> install.line, flags |-> install.flags]

-----------------------------------------------------------------------------
(* The inductive invariant.                                                  *)

DiskTyped ==
  /\ index \in [Location -> Seq(Spec_)]
  /\ \A l \in Location : \A j, k \in DOMAIN index[l] : index[l][j] = index[l][k] => j = k
  /\ DOMAIN packages = Location
  /\ \A l \in Location : DOMAIN packages[l] \subseteq Nat
  /\ DOMAIN rows = Location /\ DOMAIN mapRows = Location /\ DOMAIN libraries = Location
  /\ DOMAIN links = Location /\ DOMAIN maps = Location
  /\ \A l \in Location : \A r \in mapRows[l] : r[2] \notin NotRead
  /\ \A l \in Location : maps[l] \cap NotRead = {}
  /\ \A l \in Location : \A m \in DOMAIN links[l] :
       links[l][m] = <<links[l][m][1], links[l][m][2]>>

EngineTyped ==
  /\ link = {} \/ \E l \in Location : link = {l}
  /\ kernels \in 1 .. MaxKernels /\ installs \in 0 .. MaxInstalls
  /\ installLocation \in Location /\ readFrom \in Location /\ swiftPMFlags \in Flag
  /\ pc \in Busy \cup {"idle"}

(* An %install under way has a line, a location and flags, from the second   *)
(* step on the number of its specification, and then its manifest.           *)
InstallTyped ==
  /\ pc \in Busy =>
       /\ DOMAIN install = {"line", "location", "id", "flags", "warned", "first"}
       /\ install.line \in Line /\ install.location \in Location
       /\ install.flags \in Flag /\ link = {L}
  /\ pc \in Numbered => install.id \in DOMAIN index[L] /\ index[L][install.id] = install.line.spec
  /\ pc \in Written => install.id \in DOMAIN packages[L] /\ packages[L][install.id] = install.line

(* What the steps that are over have done.                                   *)
StepsDone ==
  /\ pc \in Built =>
       /\ \A m \in SwiftModule[install.line] : Row(m) \in rows[L]
       /\ \A m \in ClangModule[install.line] : <<install.id, m>> \in mapRows[L]
       /\ <<install.id, Bin>> \in DOMAIN libraries[L]
       /\ libraries[L][<<install.id, Bin>>] = ThisLibrary
  /\ pc \in Linked => \A m \in SwiftModule[install.line] :
       m \in DOMAIN links[L] /\ links[L][m][1] = install.id
  /\ pc = "done" => Path \in DOMAIN loaded /\ (install.first => loaded[Path] = ThisLibrary)

(* The set of Clang modules is read before this kernel changes any.          *)
ModulesReadFirst ==
  /\ loadedClangModules = NotRead => seen = UNION {maps[l] : l \in searched}
  /\ loadedClangModules # NotRead /\ readFrom \in searched => loadedClangModules \subseteq seen
  /\ pc \in Read => loadedClangModules # NotRead
  /\ pc \in Warned => ClangModule[install.line] \ install.warned \subseteq loadedClangModules

IInv ==
  /\ DiskTyped /\ EngineTyped /\ InstallTyped
  /\ FoldersBelongToIndex /\ LinksLeadToModules
  /\ StepsDone /\ ModulesReadFirst

-----------------------------------------------------------------------------
(* What a kernel starts with is consistent, on the disk that it finds.       *)

LEMMA InitInvariant == Init => IInv
<1> SUFFICES ASSUME Init PROVE IInv
  OBVIOUS
<1>1. DiskTyped BY DEF Init, DiskTyped
<1>2. EngineTyped BY ConstantsAssumption DEF Init, EngineTyped
<1>3. InstallTyped BY DEF Init, InstallTyped, Busy, Numbered, Written
<1>4. FoldersBelongToIndex BY DEF Init, FoldersBelongToIndex
<1>5. LinksLeadToModules BY DEF Init, LinksLeadToModules
<1>6. StepsDone BY DEF Init, StepsDone, Built, Linked
<1>7. ModulesReadFirst BY DEF Init, ModulesReadFirst, Read, Warned
<1> QED BY <1>1, <1>2, <1>3, <1>4, <1>5, <1>6, <1>7 DEF IInv

-----------------------------------------------------------------------------
(* Each step keeps the invariant.                                            *)

(* What a step that does not write to the disk keeps.                        *)
LEMMA DiskKept ==
  ASSUME IInv, UNCHANGED <<index, packages, rows, mapRows, libraries, links, maps>>,
         loaded' = loaded \/ loaded' = <<>>
  PROVE  DiskTyped' /\ FoldersBelongToIndex' /\ LinksLeadToModules'
<1>1. DiskTyped' /\ LinksLeadToModules' BY DEF IInv, DiskTyped, LinksLeadToModules
<1>2. FoldersBelongToIndex'
  <2>1. CASE loaded' = loaded BY <2>1 DEF IInv, FoldersBelongToIndex
  <2>2. CASE loaded' = <<>> BY <2>2 DEF IInv, FoldersBelongToIndex
  <2> QED BY <2>1, <2>2
<1> QED BY <1>1, <1>2

(* Nothing is promised of an %install that has failed.                       *)
LEMMA NotBusy ==
  ASSUME pc' = "idle"
  PROVE  /\ InstallTyped' /\ StepsDone'
         /\ pc' \notin Read /\ pc' \notin Warned /\ pc' \in Busy \cup {"idle"}
BY DEF InstallTyped, StepsDone, Busy, Numbered, Written, Built, Linked, Read, Warned

LEMMA FailsKeeps ==
  ASSUME IInv, NEW from, Fails(from)
  PROVE  IInv'
<1> USE DEF IInv, Fails, Ends, disk, session
<1>1. InstallTyped' /\ StepsDone' /\ DiskTyped' /\ FoldersBelongToIndex' /\ LinksLeadToModules'
  BY NotBusy, DiskKept
<1>2. EngineTyped' BY NotBusy DEF EngineTyped
<1>3. ModulesReadFirst' BY NotBusy DEF ModulesReadFirst, atStart
<1> QED BY <1>1, <1>2, <1>3

LEMMA RestartKeeps ==
  ASSUME IInv, Restart
  PROVE  IInv'
<1> USE DEF IInv, Restart, Ends, disk
<1>1. InstallTyped' /\ StepsDone' /\ DiskTyped' /\ FoldersBelongToIndex' /\ LinksLeadToModules'
  BY NotBusy, DiskKept
<1>2. EngineTyped' BY NotBusy, ConstantsAssumption DEF EngineTyped
<1>3. ModulesReadFirst'
  <2>1. loadedClangModules' = NotRead /\ seen' = UNION {maps'[l] : l \in searched'}
    OBVIOUS
  <2> QED BY <2>1, NotBusy DEF ModulesReadFirst
<1> QED BY <1>1, <1>2, <1>3

LEMMA DirectiveKeeps ==
  ASSUME IInv, InstallLocation \/ SwiftPMFlags
  PROVE  IInv'
<1> USE DEF IInv, InstallLocation, SwiftPMFlags, Ends, disk
<1>1. InstallTyped' /\ StepsDone' /\ DiskTyped' /\ FoldersBelongToIndex' /\ LinksLeadToModules'
  BY NotBusy, DiskKept
<1>2. EngineTyped' BY NotBusy DEF EngineTyped
<1>3. ModulesReadFirst' BY NotBusy DEF ModulesReadFirst, atStart
<1> QED BY <1>1, <1>2, <1>3

LEMMA BeginInstallKeeps ==
  ASSUME IInv, BeginInstall
  PROVE  IInv'
<1>1. /\ UNCHANGED <<index, packages, rows, mapRows, libraries, links, maps, session>>
      /\ installs < MaxInstalls /\ installs' = installs + 1
  BY DEF BeginInstall
<1>2. link' = {} \/ \E l \in Location : link' = {l}
  BY DEF IInv, BeginInstall, EngineTyped
<1>3. DiskTyped' /\ FoldersBelongToIndex' /\ LinksLeadToModules' BY <1>1, DiskKept DEF session
<1>4. pc' = "index" \/ pc' = "idle" BY DEF BeginInstall, Ends
<1>5. EngineTyped'
  BY <1>1, <1>2, <1>4, ConstantsAssumption DEF IInv, EngineTyped, Busy, session
<1>6. ModulesReadFirst'
  BY <1>1, <1>4 DEF IInv, ModulesReadFirst, Read, Warned, session, atStart
<1>7. InstallTyped' /\ StepsDone'
  <2>1. CASE pc' = "idle" BY <2>1, NotBusy
  <2>2. CASE pc' = "index"
    <3>1. PICK line \in Line :
            /\ link' = {installLocation}
            /\ install' = [line |-> line, location |-> installLocation, id |-> 0,
                           flags |-> swiftPMFlags, warned |-> {}, first |-> FALSE]
      BY <2>2 DEF BeginInstall, Ends
    <3>2. InstallTyped'
      BY <2>2, <3>1 DEF IInv, InstallTyped, EngineTyped, Busy, Numbered, Written, L
    <3>3. StepsDone' BY <2>2 DEF StepsDone, Built, Linked
    <3> QED BY <3>2, <3>3
  <2> QED BY <1>4, <2>1, <2>2
<1> QED BY <1>3, <1>5, <1>6, <1>7 DEF IInv

(* The number of a specification is its place in the index, and the places   *)
(* of those before it stay.                                                  *)
LEMMA Entered ==
  ASSUME NEW S, NEW old \in Seq(S), NEW spec \in S, NEW specs,
         \A j, k \in DOMAIN old : old[j] = old[k] => j = k,
         specs = IF \E k \in DOMAIN old : old[k] = spec THEN old ELSE Append(old, spec)
  PROVE  /\ specs \in Seq(S)
         /\ \A k \in DOMAIN old : k \in DOMAIN specs /\ specs[k] = old[k]
         /\ \A j, k \in DOMAIN specs : specs[j] = specs[k] => j = k
         /\ \E k \in DOMAIN specs : specs[k] = spec
<1>1. CASE \E k \in DOMAIN old : old[k] = spec
  <2>1. specs = old BY <1>1
  <2> QED BY <1>1, <2>1
<1>2. CASE ~\E k \in DOMAIN old : old[k] = spec
  <2>1. specs = Append(old, spec) BY <1>2
  <2>2. /\ Len(specs) = Len(old) + 1 /\ specs \in Seq(S) /\ Len(old) \in Nat
        /\ DOMAIN old = 1 .. Len(old) /\ DOMAIN specs = 1 .. Len(specs)
        /\ specs[Len(specs)] = spec
        /\ \A k \in DOMAIN old : specs[k] = old[k]
    BY <2>1
  <2>3. \A k \in DOMAIN specs : k \in DOMAIN old \/ k = Len(specs) BY <2>2
  <2>4. \A j, k \in DOMAIN specs : specs[j] = specs[k] => j = k
    BY <1>2, <2>2, <2>3
  <2>5. \E k \in DOMAIN specs : specs[k] = spec BY <2>2
  <2> QED BY <2>2, <2>4, <2>5
<1> QED BY <1>1, <1>2

LEMMA EnterIntoIndexKeeps ==
  ASSUME IInv, EnterIntoIndex
  PROVE  IInv'
<1>1. CASE Fails("index") BY <1>1, FailsKeeps
<1>2. CASE ~Fails("index")
  <2>1. /\ pc = "index" /\ pc' = "manifest"
        /\ index' = [index EXCEPT ![L] =
             IF Indexed(L, install.line.spec) THEN @ ELSE Append(@, install.line.spec)]
        /\ install' = [install EXCEPT !.id = Position(index'[L], install.line.spec)]
        /\ UNCHANGED <<packages, rows, mapRows, libraries, links, maps, link, session, installs>>
    BY <1>2 DEF EnterIntoIndex
  <2>2. /\ install.line \in Line /\ install.line.spec \in Spec_ /\ L \in Location
        /\ install.flags \in Flag /\ link = {L}
        /\ DOMAIN install = {"line", "location", "id", "flags", "warned", "first"}
    BY <2>1 DEF IInv, InstallTyped, Busy, L, Spec_
  <2>3. /\ index'[L] = IF Indexed(L, install.line.spec) THEN index[L]
                       ELSE Append(index[L], install.line.spec)
        /\ \A l \in Location : l # L => index'[l] = index[l]
        /\ DOMAIN index' = Location
    BY <2>1, <2>2 DEF IInv, DiskTyped
  <2>4. /\ index'[L] \in Seq(Spec_)
        /\ \A k \in DOMAIN index[L] : k \in DOMAIN index'[L] /\ index'[L][k] = index[L][k]
        /\ \A j, k \in DOMAIN index'[L] : index'[L][j] = index'[L][k] => j = k
        /\ Position(index'[L], install.line.spec) \in DOMAIN index'[L]
        /\ index'[L][Position(index'[L], install.line.spec)] = install.line.spec
    <3> DEFINE old   == index[L]
               spec  == install.line.spec
               specs == index'[L]
    <3>1. old \in Seq(Spec_) /\ \A j, k \in DOMAIN old : old[j] = old[k] => j = k
      BY <2>2 DEF IInv, DiskTyped
    <3>2. specs = IF \E k \in DOMAIN old : old[k] = spec THEN old ELSE Append(old, spec)
      BY <2>3 DEF Indexed
    <3>3. spec \in Spec_ BY <2>2
    <3> HIDE DEF old, spec, specs
    <3>4. /\ specs \in Seq(Spec_)
          /\ \A k \in DOMAIN old : k \in DOMAIN specs /\ specs[k] = old[k]
          /\ \A j, k \in DOMAIN specs : specs[j] = specs[k] => j = k
          /\ \E k \in DOMAIN specs : specs[k] = spec
      BY <3>1, <3>2, <3>3, Entered
    <3> QED BY <3>4 DEF old, spec, specs, Position
  <2>5. DiskTyped'
    <3>1. index' \in [Location -> Seq(Spec_)]
      BY <2>1, <2>2, <2>3, <2>4 DEF IInv, DiskTyped
    <3>2. \A l \in Location : \A j, k \in DOMAIN index'[l] : index'[l][j] = index'[l][k] => j = k
      <4>1. ASSUME NEW l \in Location
            PROVE  \A j, k \in DOMAIN index'[l] : index'[l][j] = index'[l][k] => j = k
        <5>1. CASE l = L BY Zenon, <5>1, <2>4
        <5>2. CASE l # L
          <6>1. index'[l] = index[l] BY Zenon, <5>2, <2>3
          <6>2. \A j, k \in DOMAIN index[l] : index[l][j] = index[l][k] => j = k
            BY Zenon DEF IInv, DiskTyped
          <6> QED BY Zenon, <6>1, <6>2
        <5> QED BY Zenon, <5>1, <5>2
      <4> QED BY Zenon, <4>1
    <3> QED BY <2>1, <3>1, <3>2 DEF IInv, DiskTyped
  <2>6. EngineTyped' BY <2>1 DEF IInv, EngineTyped, session, Busy
  <2>7. /\ install'.line = install.line /\ L' = L /\ install'.flags = install.flags
        /\ DOMAIN install' = DOMAIN install
        /\ install'.id = Position(index'[L], install.line.spec)
    BY <2>1, <2>2 DEF L
  <2>8. InstallTyped'
    BY <2>1, <2>2, <2>4, <2>7 DEF InstallTyped, Written, Numbered, L
  <2>9. FoldersBelongToIndex'
    BY <2>1, <2>3, <2>4 DEF IInv, FoldersBelongToIndex, session
  <2>10. LinksLeadToModules' BY <2>1 DEF IInv, LinksLeadToModules
  <2>11. StepsDone' BY <2>1 DEF StepsDone, Built, Linked
  <2>12. ModulesReadFirst' BY <2>1 DEF IInv, ModulesReadFirst, Read, Warned, session, atStart
  <2> QED BY <2>5, <2>6, <2>8, <2>9, <2>10, <2>11, <2>12 DEF IInv
<1> QED BY <1>1, <1>2

LEMMA WriteManifestKeeps ==
  ASSUME IInv, WriteManifest
  PROVE  IInv'
<1>1. CASE Fails("manifest") BY <1>1, FailsKeeps
<1>2. CASE ~Fails("manifest")
  <2>1. /\ pc = "manifest" /\ pc' = "build" /\ UNCHANGED <<install, installs>>
        /\ packages' = [packages EXCEPT ![L] = Over([k \in {install.id} |-> install.line], @)]
        /\ UNCHANGED <<index, rows, mapRows, libraries, links, maps, link, session>>
    BY <1>2 DEF WriteManifest, Go, Continues
  <2>2. /\ install.line \in Line /\ L \in Location
        /\ install.id \in DOMAIN index[L] /\ index[L][install.id] = install.line.spec
    BY <2>1 DEF IInv, InstallTyped, Busy, Numbered, L
  <2>3. install.id \in Nat BY <2>2 DEF IInv, DiskTyped
  <2>4. /\ DOMAIN packages' = Location
        /\ \A l \in Location : l # L => packages'[l] = packages[l]
        /\ packages'[L] = Over([k \in {install.id} |-> install.line], packages[L])
    BY <2>1, <2>2 DEF IInv, DiskTyped
  <2>5. /\ DOMAIN packages'[L] = {install.id} \cup DOMAIN packages[L]
        /\ packages'[L][install.id] = install.line
        /\ \A k \in DOMAIN packages[L] : k # install.id => packages'[L][k] = packages[L][k]
    BY <2>4 DEF Over
  <2>6. DiskTyped'
    <3>1. \A l \in Location : DOMAIN packages'[l] \subseteq Nat
      BY <2>3, <2>4, <2>5 DEF IInv, DiskTyped
    <3> QED BY <2>1, <2>4, <3>1 DEF IInv, DiskTyped
  <2>7. EngineTyped' BY <2>1 DEF IInv, EngineTyped, session, Busy
  <2>8. InstallTyped' BY <2>1, <2>5 DEF IInv, InstallTyped, Busy, Numbered, Written, L
  <2>9. FoldersBelongToIndex'
    BY <2>1, <2>2, <2>4, <2>5 DEF IInv, FoldersBelongToIndex, session
  <2>10. LinksLeadToModules' BY <2>1 DEF IInv, LinksLeadToModules
  <2>11. StepsDone' BY <2>1 DEF StepsDone, Built, Linked
  <2>12. ModulesReadFirst' BY <2>1 DEF IInv, ModulesReadFirst, Read, Warned, session, atStart
  <2> QED BY <2>6, <2>7, <2>8, <2>9, <2>10, <2>11, <2>12 DEF IInv
<1> QED BY <1>1, <1>2

(* A build, complete or not, adds rows for modules of the line, and leaves   *)
(* its library, the one that was there, or none under its path.              *)
LEMMA BuildKeeps ==
  ASSUME IInv, Build
  PROVE  IInv'
<1> DEFINE path == <<install.id, Bin>>
<1>1. /\ pc = "build" /\ UNCHANGED <<index, packages, links, maps, link, session, installs>>
      /\ pc' = "modules" \/ pc' = "idle"
      /\ pc' = "modules" => UNCHANGED install
  BY DEF Build, Continues, Ends
<1>2. /\ install.line \in Line /\ L \in Location /\ install.flags \in Flag
      /\ install.id \in DOMAIN index[L] /\ index[L][install.id] = install.line.spec
      /\ packages[L][install.id] = install.line
  BY <1>1 DEF IInv, InstallTyped, Busy, Numbered, Written, L
<1>3. PICK swift \in SUBSET SwiftModule[install.line], clang \in SUBSET ClangModule[install.line] :
        /\ rows' = [rows EXCEPT ![L] = @ \cup {Row(m) : m \in swift}]
        /\ mapRows' = [mapRows EXCEPT ![L] = @ \cup {install.id} \X clang]
        /\ pc' = "modules" => swift = SwiftModule[install.line] /\ clang = ClangModule[install.line]
  BY <1>2 DEF Build, Continues, Ends
<1>4. /\ \/ /\ pc' = "modules"
            /\ libraries' = [libraries EXCEPT ![L] = Over([p \in {path} |-> ThisLibrary], @)]
         \/ pc' = "idle" /\ libraries' = libraries
         \/ /\ pc' = "idle"
            /\ libraries' = [libraries EXCEPT ![L] = [p \in DOMAIN @ \ {path} |-> @[p]]]
  BY <1>2 DEF Build, Continues, Ends, ThisLibrary
<1>5. /\ DOMAIN rows' = Location /\ DOMAIN mapRows' = Location /\ DOMAIN libraries' = Location
      /\ \A l \in Location : rows[l] \subseteq rows'[l]
      /\ \A m \in swift : Row(m) \in rows'[L]
      /\ \A m \in clang : <<install.id, m>> \in mapRows'[L]
      /\ \A l \in Location : \A r \in mapRows'[l] : r \in mapRows[l] \/ r[2] \in clang
  BY <1>2, <1>3, <1>4 DEF IInv, DiskTyped
<1>6. /\ \A l \in Location : \A p \in DOMAIN libraries'[l] :
           \/ p \in DOMAIN libraries[l] /\ libraries'[l][p] = libraries[l][p]
           \/ l = L /\ p = path /\ libraries'[l][p] = ThisLibrary
      /\ pc' = "modules" => path \in DOMAIN libraries'[L] /\ libraries'[L][path] = ThisLibrary
  <2>1. CASE pc' = "modules"
    <3>1. /\ \A l \in Location : l # L => libraries'[l] = libraries[l]
          /\ libraries'[L] = Over([p \in {path} |-> ThisLibrary], libraries[L])
      BY <1>2, <1>4, <2>1 DEF IInv, DiskTyped
    <3> HIDE DEF path
    <3>2. /\ DOMAIN libraries'[L] = {path} \cup DOMAIN libraries[L]
          /\ libraries'[L][path] = ThisLibrary
          /\ \A p \in DOMAIN libraries[L] : p # path => libraries'[L][p] = libraries[L][p]
      BY <3>1 DEF Over
    <3> QED BY <3>1, <3>2
  <2>2. CASE pc' = "idle" /\ libraries' = libraries BY <2>2
  <2>3. CASE pc' = "idle" /\ libraries' = [libraries EXCEPT ![L] = [p \in DOMAIN @ \ {path} |-> @[p]]]
    <3> HIDE DEF path
    <3>1. /\ \A l \in Location : l # L => libraries'[l] = libraries[l]
          /\ libraries'[L] = [p \in DOMAIN libraries[L] \ {path} |-> libraries[L][p]]
      BY <1>2, <2>3 DEF IInv, DiskTyped
    <3> QED BY <2>3, <3>1
  <2> QED BY <1>4, <2>1, <2>2, <2>3
<1>7. DiskTyped'
  <2>1. \A l \in Location : \A r \in mapRows'[l] : r[2] \notin NotRead
    BY <1>2, <1>5, ConstantsAssumption DEF IInv, DiskTyped
  <2> QED BY <1>1, <1>5, <2>1 DEF IInv, DiskTyped
<1>8. EngineTyped' BY <1>1 DEF IInv, EngineTyped, session, Busy
<1>9. FoldersBelongToIndex'
  <2>1. ThisLibrary.line.spec = install.line.spec BY DEF ThisLibrary
  <2>2. \A l \in Location : \A p \in DOMAIN libraries'[l] :
          p[1] \in DOMAIN index[l] /\ index[l][p[1]] = libraries'[l][p].line.spec
    BY <1>2, <1>6, <2>1 DEF IInv, FoldersBelongToIndex
  <2> QED BY <1>1, <2>2 DEF IInv, FoldersBelongToIndex, session
<1>10. LinksLeadToModules' BY <1>1, <1>5 DEF IInv, LinksLeadToModules
<1>11. InstallTyped' /\ StepsDone'
  <2>1. CASE pc' = "idle" BY <2>1, NotBusy
  <2>2. CASE pc' = "modules"
    <3>1. UNCHANGED <<install, L, Bin, ThisLibrary>> /\ \A m : Row(m)' = Row(m)
      BY <1>1, <2>2 DEF L, Bin, ThisLibrary, Row
    <3>2. InstallTyped' BY <1>1, <2>2, <3>1 DEF IInv, InstallTyped, Busy, Numbered, Written
    <3>3. StepsDone'
      BY <1>3, <1>5, <1>6, <2>2, <3>1 DEF StepsDone, Built, Linked
    <3> QED BY <3>2, <3>3
  <2> QED BY <1>1, <2>1, <2>2
<1>12. ModulesReadFirst' BY <1>1 DEF IInv, ModulesReadFirst, Read, Warned, session, atStart
<1> QED BY <1>7, <1>8, <1>9, <1>10, <1>11, <1>12 DEF IInv

LEMMA ReadClangModulesKeeps ==
  ASSUME IInv, ReadClangModules
  PROVE  IInv'
<1>1. /\ pc = "modules" /\ pc' \in {"links", "idle"} /\ UNCHANGED installs
      /\ pc' = "links" => UNCHANGED install
      /\ UNCHANGED <<disk, kernels, installLocation, swiftPMFlags, atStart, loaded>>
      /\ \/ /\ loadedClangModules = NotRead /\ loadedClangModules' = maps[L] /\ readFrom' = L
         \/ /\ loadedClangModules # NotRead /\ UNCHANGED <<loadedClangModules, readFrom>>
  BY DEF ReadClangModules, Continues, Ends
<1>2. L \in Location BY <1>1 DEF IInv, InstallTyped, Busy, L
<1>3. DiskTyped' /\ FoldersBelongToIndex' /\ LinksLeadToModules' BY <1>1, DiskKept DEF disk
<1>4. EngineTyped' BY <1>1, <1>2 DEF IInv, EngineTyped, disk, Busy
<1>5. InstallTyped' /\ StepsDone'
  <2>1. CASE pc' = "idle" BY <2>1, NotBusy
  <2>2. CASE pc' = "links"
    <3>1. UNCHANGED <<install, L, Bin, ThisLibrary>> /\ \A m : Row(m)' = Row(m)
      BY <1>1, <2>2 DEF L, Bin, ThisLibrary, Row
    <3>2. InstallTyped'
      BY <1>1, <2>2, <3>1 DEF IInv, InstallTyped, Busy, Numbered, Written, disk
    <3>3. StepsDone' BY <1>1, <2>2, <3>1 DEF IInv, StepsDone, Built, Linked, disk
    <3> QED BY <3>2, <3>3
  <2> QED BY <1>1, <2>1, <2>2
<1>6. ModulesReadFirst'
  <2>1. loadedClangModules' # NotRead
    <3>1. maps[L] \cap NotRead = {} BY <1>2 DEF IInv, DiskTyped
    <3>2. maps[L] # NotRead BY <3>1 DEF NotRead
    <3> QED BY <1>1, <3>2
  <2>2. readFrom' \in searched => loadedClangModules' \subseteq seen
    <3>1. CASE loadedClangModules = NotRead
      <4>1. seen = UNION {maps[l] : l \in searched} BY <3>1 DEF IInv, ModulesReadFirst
      <4>2. loadedClangModules' = maps[L] /\ readFrom' = L BY <1>1, <3>1
      <4> QED BY <4>1, <4>2
    <3>2. CASE loadedClangModules # NotRead BY <1>1, <3>2 DEF IInv, ModulesReadFirst
    <3> QED BY <3>1, <3>2
  <2>3. pc' \notin Warned BY <1>1 DEF Warned
  <2> QED BY <1>1, <2>1, <2>2, <2>3 DEF ModulesReadFirst, atStart
<1> QED BY <1>3, <1>4, <1>5, <1>6 DEF IInv

(* The links that are made lead to rows of this package; the others are      *)
(* those that were there.                                                    *)
LEMMA LinkSwiftModulesKeeps ==
  ASSUME IInv, LinkSwiftModules
  PROVE  IInv'
<1>1. /\ pc = "links"
      /\ UNCHANGED <<index, packages, rows, mapRows, libraries, maps, link, session, installs>>
  BY DEF LinkSwiftModules
<1>2. L \in Location BY <1>1 DEF IInv, InstallTyped, Busy, L
<1>3. PICK made \in SUBSET ModulesOf(install.id) : \E new \in Targets(made) :
        LET rest == ModulesOf(install.id) \ made
        IN  \/ /\ rest = {} /\ pc' = "maps" /\ UNCHANGED install
               /\ links' = [links EXCEPT ![L] = Over(new, @)]
            \/ /\ pc' = "idle"
               /\ \E failed \in rest :
                    links' = [links EXCEPT ![L] =
                      Over(new, [m \in DOMAIN @ \ {failed} |-> @[m]])]
  BY Zenon DEF LinkSwiftModules, Continues, Ends
<1>4. PICK new \in Targets(made) :
        \/ /\ ModulesOf(install.id) \ made = {} /\ pc' = "maps" /\ UNCHANGED install
           /\ links' = [links EXCEPT ![L] = Over(new, @)]
        \/ /\ pc' = "idle"
           /\ \E failed : links' = [links EXCEPT ![L] =
                Over(new, [m \in DOMAIN @ \ {failed} |-> @[m]])]
  BY <1>3, Zenon
<1>5. /\ DOMAIN new = made
      /\ \A m \in made : /\ new[m] = <<new[m][1], new[m][2]>> /\ new[m][1] = install.id
                         /\ <<new[m][1], new[m][2], m>> \in rows[L]
  BY DEF Targets
<1>6. PICK kept \in SUBSET DOMAIN links[L] :
        /\ DOMAIN links' = Location /\ \A l \in Location : l # L => links'[l] = links[l]
        /\ DOMAIN links'[L] = made \cup kept
        /\ \A m \in made : links'[L][m] = new[m]
        /\ \A m \in kept \ made : links'[L][m] = links[L][m]
  <2>1. CASE links' = [links EXCEPT ![L] = Over(new, @)]
    <3>1. /\ links'[L] = Over(new, links[L])
          /\ DOMAIN links' = Location /\ \A l \in Location : l # L => links'[l] = links[l]
      BY <1>2, <2>1 DEF IInv, DiskTyped
    <3> DEFINE kept == DOMAIN links[L]
    <3>2. /\ DOMAIN links'[L] = made \cup kept
          /\ \A m \in made : links'[L][m] = new[m]
          /\ \A m \in kept \ made : links'[L][m] = links[L][m]
      BY <1>5, <3>1 DEF Over
    <3> QED BY <3>1, <3>2
  <2>2. CASE \E failed : links' = [links EXCEPT ![L] = Over(new, [m \in DOMAIN @ \ {failed} |-> @[m]])]
    <3>1. PICK failed :
            links' = [links EXCEPT ![L] = Over(new, [m \in DOMAIN @ \ {failed} |-> @[m]])]
      BY <2>2
    <3> DEFINE kept == DOMAIN links[L] \ {failed}
               rest == [m \in kept |-> links[L][m]]
    <3>2. /\ links'[L] = Over(new, rest)
          /\ DOMAIN links' = Location /\ \A l \in Location : l # L => links'[l] = links[l]
      BY <1>2, <3>1 DEF IInv, DiskTyped
    <3>3. DOMAIN rest = kept /\ \A m \in kept : rest[m] = links[L][m] OBVIOUS
    <3>4. kept \in SUBSET DOMAIN links[L] OBVIOUS
    <3> HIDE DEF kept, rest
    <3>5. /\ DOMAIN links'[L] = made \cup kept
          /\ \A m \in made : links'[L][m] = new[m]
          /\ \A m \in kept \ made : links'[L][m] = links[L][m]
      BY <1>5, <3>2, <3>3 DEF Over
    <3> QED BY <3>2, <3>4, <3>5
  <2> QED BY <1>4, <2>1, <2>2
<1>7. \A m \in DOMAIN links'[L] :
        \/ m \in DOMAIN links[L] /\ links'[L][m] = links[L][m]
        \/ m \in made /\ links'[L][m] = new[m]
  BY <1>6
<1>8. DiskTyped'
  <2>1. \A l \in Location : \A m \in DOMAIN links'[l] :
          links'[l][m] = <<links'[l][m][1], links'[l][m][2]>>
    <3> SUFFICES ASSUME NEW l \in Location, NEW m \in DOMAIN links'[l]
                 PROVE  links'[l][m] = <<links'[l][m][1], links'[l][m][2]>>
      OBVIOUS
    <3>1. CASE l = L /\ m \in made /\ links'[l][m] = new[m] BY <1>5, <3>1
    <3>2. CASE m \in DOMAIN links[l] /\ links'[l][m] = links[l][m]
      BY <3>2 DEF IInv, DiskTyped
    <3> QED BY <1>6, <1>7, <3>1, <3>2
  <2> QED BY <1>1, <1>6, <2>1 DEF IInv, DiskTyped
<1>9. EngineTyped' BY <1>1, <1>4 DEF IInv, EngineTyped, session, Busy
<1>10. FoldersBelongToIndex' BY <1>1 DEF IInv, FoldersBelongToIndex, session
<1>11. LinksLeadToModules'
  <2> SUFFICES ASSUME NEW l \in Location, NEW m \in DOMAIN links'[l]
               PROVE  <<links'[l][m][1], links'[l][m][2], m>> \in rows[l]
    BY <1>1 DEF LinksLeadToModules
  <2>1. CASE l = L /\ m \in made /\ links'[l][m] = new[m] BY <1>5, <2>1
  <2>2. CASE m \in DOMAIN links[l] /\ links'[l][m] = links[l][m]
    BY <2>2 DEF IInv, LinksLeadToModules
  <2> QED BY <1>6, <1>7, <2>1, <2>2
<1>12. InstallTyped' /\ StepsDone'
  <2>1. CASE pc' = "idle" BY <2>1, NotBusy
  <2>2. CASE pc' = "maps"
    <3>1. made = ModulesOf(install.id) /\ UNCHANGED install BY <1>4, <2>2
    <3>2. UNCHANGED <<L, Bin, ThisLibrary>> /\ \A m : Row(m)' = Row(m)
      BY <3>1 DEF L, Bin, ThisLibrary, Row
    <3>3. InstallTyped' BY <1>1, <2>2, <3>1, <3>2 DEF IInv, InstallTyped, Busy, Numbered, Written
    <3>4. \A m \in SwiftModule[install.line] : m \in ModulesOf(install.id)
      <4>1. \A m \in SwiftModule[install.line] : Row(m) \in rows[L]
        BY <1>1 DEF IInv, StepsDone, Built
      <4>2. \A m : Row(m)[1] = install.id /\ Row(m)[3] = m BY DEF Row
      <4> QED BY <4>1, <4>2 DEF ModulesOf
    <3>5. \A m \in SwiftModule[install.line] : m \in DOMAIN links'[L] /\ links'[L][m][1] = install.id
      BY <1>5, <1>6, <3>1, <3>4
    <3>6. StepsDone' BY <1>1, <2>2, <3>1, <3>2, <3>5 DEF IInv, StepsDone, Built, Linked
    <3> QED BY <3>3, <3>6
  <2> QED BY <1>4, <2>1, <2>2
<1>13. ModulesReadFirst'
  BY <1>1, <1>4 DEF IInv, ModulesReadFirst, Read, Warned, session, atStart
<1> QED BY <1>8, <1>9, <1>10, <1>11, <1>12, <1>13 DEF IInv

LEMMA CopyModuleMapsKeeps ==
  ASSUME IInv, CopyModuleMaps
  PROVE  IInv'
<1> DEFINE modules == {r[2] : r \in {q \in mapRows[L] : q[1] = install.id}}
<1>1. /\ pc = "maps"
      /\ UNCHANGED <<index, packages, rows, mapRows, libraries, links, link, session, installs>>
      /\ \/ /\ pc' = "dlopen"
            /\ install' = [install EXCEPT !.warned = modules \ loadedClangModules]
         \/ pc' = "idle"
  BY DEF CopyModuleMaps, Ends
<1>2. PICK made \in SUBSET modules : maps' = [maps EXCEPT ![L] = @ \cup made]
  BY DEF CopyModuleMaps
<1>3. /\ install.line \in Line /\ L \in Location /\ install.flags \in Flag
      /\ DOMAIN install = {"line", "location", "id", "flags", "warned", "first"}
  BY <1>1 DEF IInv, InstallTyped, Busy, L
<1>4. DiskTyped'
  <2>1. made \cap NotRead = {} BY <1>2, <1>3 DEF IInv, DiskTyped
  <2>2. DOMAIN maps' = Location /\ \A l \in Location : maps'[l] \cap NotRead = {}
    BY <1>2, <1>3, <2>1 DEF IInv, DiskTyped
  <2> QED BY <1>1, <2>2 DEF IInv, DiskTyped
<1>5. EngineTyped' BY <1>1 DEF IInv, EngineTyped, session, Busy
<1>6. FoldersBelongToIndex' /\ LinksLeadToModules'
  BY <1>1 DEF IInv, FoldersBelongToIndex, LinksLeadToModules, session
<1>7. loadedClangModules # NotRead BY <1>1 DEF IInv, ModulesReadFirst, Read
<1>8. CASE pc' = "idle"
  <2>1. ModulesReadFirst'
    BY <1>1, <1>7, <1>8, NotBusy DEF IInv, ModulesReadFirst, session, atStart
  <2> QED BY <1>4, <1>5, <1>6, <1>8, <2>1, NotBusy DEF IInv
<1>9. CASE pc' = "dlopen"
  <2>1. /\ install'.line = install.line /\ install'.location = install.location
        /\ install'.flags = install.flags /\ install'.id = install.id
        /\ DOMAIN install' = DOMAIN install
        /\ install'.warned = modules \ loadedClangModules
    BY <1>1, <1>3, <1>9
  <2>2. UNCHANGED <<L, Bin, ThisLibrary>> /\ \A m : Row(m)' = Row(m)
    BY <2>1 DEF L, Bin, ThisLibrary, Row
  <2>3. InstallTyped'
    BY <1>1, <1>3, <1>9, <2>1, <2>2 DEF IInv, InstallTyped, Busy, Numbered, Written
  <2>4. StepsDone' BY <1>1, <1>9, <2>1, <2>2 DEF IInv, StepsDone, Built, Linked
  <2>5. \A m \in ClangModule[install.line] : m \in modules
    <3>1. \A m \in ClangModule[install.line] : <<install.id, m>> \in mapRows[L]
      BY <1>1 DEF IInv, StepsDone, Built
    <3>2. \A m : <<install.id, m>>[1] = install.id /\ <<install.id, m>>[2] = m OBVIOUS
    <3> QED BY <3>1, <3>2
  <2>6. ClangModule[install.line] \ install'.warned \subseteq loadedClangModules
    BY <2>1, <2>5
  <2>7. ModulesReadFirst'
    BY <1>1, <1>7, <2>1, <2>6 DEF IInv, ModulesReadFirst, session, atStart
  <2> QED BY <1>4, <1>5, <1>6, <2>3, <2>4, <2>7 DEF IInv
<1> QED BY <1>1, <1>8, <1>9

(* A path that the process has not opened gets the library that was built;   *)
(* the others keep theirs.                                                   *)
LEMMA DlopenKeeps ==
  ASSUME IInv, Dlopen
  PROVE  IInv'
<1>1. CASE Fails("dlopen") BY <1>1, FailsKeeps
<1>2. CASE ~Fails("dlopen")
  <2>1. /\ pc = "dlopen" /\ pc' = "done"
        /\ loaded' = Over(loaded, [p \in {Path} |-> libraries[L][<<install.id, Bin>>]])
        /\ install' = [install EXCEPT !.first = Path \notin DOMAIN loaded]
        /\ UNCHANGED <<installs, disk, kernels, installLocation, swiftPMFlags,
                       loadedClangModules, readFrom, atStart>>
    BY <1>2 DEF Dlopen
  <2>2. /\ L \in Location /\ install.id \in DOMAIN index[L]
        /\ index[L][install.id] = install.line.spec
        /\ DOMAIN install = {"line", "location", "id", "flags", "warned", "first"}
        /\ libraries[L][<<install.id, Bin>>] = ThisLibrary
    BY <2>1 DEF IInv, InstallTyped, StepsDone, Built, Busy, Numbered, L
  <2>3. /\ DOMAIN loaded' = DOMAIN loaded \cup {Path}
        /\ \A p \in DOMAIN loaded : loaded'[p] = loaded[p]
        /\ Path \notin DOMAIN loaded => loaded'[Path] = ThisLibrary
    BY <2>1, <2>2 DEF Over
  <2>4. /\ install'.line = install.line /\ install'.location = install.location
        /\ install'.flags = install.flags /\ install'.id = install.id
        /\ install'.warned = install.warned /\ DOMAIN install' = DOMAIN install
        /\ install'.first = (Path \notin DOMAIN loaded)
    BY <2>1, <2>2
  <2>5. UNCHANGED <<L, Bin, Path, ThisLibrary>> /\ \A m : Row(m)' = Row(m)
    BY <2>4 DEF L, Bin, Path, ThisLibrary, Row
  <2>6. DiskTyped' /\ LinksLeadToModules'
    BY <2>1 DEF IInv, DiskTyped, LinksLeadToModules, disk
  <2>7. FoldersBelongToIndex'
    <3>1. Path[1] = L /\ Path[2] = install.id /\ ThisLibrary.line.spec = install.line.spec
      BY DEF Path, ThisLibrary
    <3>2. \A p \in DOMAIN loaded' :
            \/ p \in DOMAIN loaded /\ loaded'[p] = loaded[p]
            \/ p = Path /\ loaded'[p] = ThisLibrary
      BY <2>3
    <3>3. \A l \in Location : \A p \in DOMAIN loaded' : p[1] = l =>
            p[2] \in DOMAIN index[l] /\ index[l][p[2]] = loaded'[p].line.spec
      BY <2>2, <3>1, <3>2 DEF IInv, FoldersBelongToIndex
    <3> QED BY <2>1, <3>3 DEF IInv, FoldersBelongToIndex, disk
  <2>8. EngineTyped' BY <2>1 DEF IInv, EngineTyped, disk, Busy
  <2>9. InstallTyped'
    BY <2>1, <2>4, <2>5 DEF IInv, InstallTyped, Busy, Numbered, Written, disk
  <2>10. StepsDone'
    BY <2>1, <2>3, <2>4, <2>5 DEF IInv, StepsDone, Built, Linked, disk
  <2>11. ModulesReadFirst'
    BY <2>1, <2>4 DEF IInv, ModulesReadFirst, Read, Warned, disk, atStart
  <2> QED BY <2>6, <2>7, <2>8, <2>9, <2>10, <2>11 DEF IInv
<1> QED BY <1>1, <1>2

-----------------------------------------------------------------------------
(* The theorems.                                                             *)

LEMMA StepKeeps == IInv /\ [Next]_vars => IInv'
<1> SUFFICES ASSUME IInv, [Next]_vars PROVE IInv'
  OBVIOUS
<1>1. CASE UNCHANGED vars
  <2>1. UNCHANGED <<disk, session, install, pc, installs, L, Bin, Path, ThisLibrary>>
    BY <1>1 DEF vars, L, Bin, Path, ThisLibrary
  <2>2. \A m : Row(m)' = Row(m) BY <2>1 DEF Row
  <2>3. DiskTyped' /\ FoldersBelongToIndex' /\ LinksLeadToModules'
    BY <2>1, DiskKept DEF disk, session
  <2>4. EngineTyped' BY <2>1 DEF IInv, EngineTyped, disk, session
  <2>5. InstallTyped' BY <2>1 DEF IInv, InstallTyped, disk
  <2>6. StepsDone' BY <2>1, <2>2 DEF IInv, StepsDone, disk, session
  <2>7. ModulesReadFirst' BY <2>1 DEF IInv, ModulesReadFirst, disk, session, atStart
  <2> QED BY <2>3, <2>4, <2>5, <2>6, <2>7 DEF IInv
<1>2. CASE Next
  BY <1>2, RestartKeeps, DirectiveKeeps, BeginInstallKeeps, EnterIntoIndexKeeps,
     WriteManifestKeeps, BuildKeeps, ReadClangModulesKeeps, LinkSwiftModulesKeeps,
     CopyModuleMapsKeeps, DlopenKeeps DEF Next
<1> QED BY <1>1, <1>2

LEMMA Invariant == Spec => []IInv
<1>1. Init => IInv BY InitInvariant
<1>2. IInv /\ [Next]_vars => IInv' BY StepKeeps
<1> QED BY <1>1, <1>2, PTL DEF Spec

(* Whatever step of an %install fails and whenever the kernel is killed      *)
(* (ProcessInstalls.swift:74-434), the folder of a package holds what the    *)
(* index has under its number, also where its library is open in a process,  *)
(* and links lead to modules that build.db has.                              *)
THEOREM DiskIsConsistent == Spec => []DiskInv
<1>1. IInv => DiskInv
  <2> SUFFICES ASSUME IInv PROVE DiskInv
    OBVIOUS
  <2>1. link \subseteq Location /\ Cardinality(link) <= 1
    <3>1. CASE link = {} BY <3>1, FS_EmptySet
    <3>2. CASE link # {}
      <4>1. PICK l \in Location : link = {l} BY <3>2 DEF IInv, EngineTyped
      <4>2. Cardinality(link) = 1 BY <4>1, FS_Singleton
      <4> QED BY <4>1, <4>2
    <3> QED BY <3>1, <3>2
  <2>2. \A l \in Location :
          /\ index[l] \in Seq(Spec_) /\ DOMAIN packages[l] \subseteq Nat
          /\ \A j, k \in DOMAIN index[l] : index[l][j] = index[l][k] => j = k
    BY DEF IInv, DiskTyped
  <2>3. TypeOK BY <2>1, <2>2 DEF TypeOK, IInv, EngineTyped, Busy
  <2> QED BY <2>3 DEF IInv, DiskInv
<1> QED BY <1>1, Invariant, PTL

(* An %install that returns without an error (ProcessInstalls.swift:434) has *)
(* its location linked and each of its modules importable from its own       *)
(* folder, the one just compiled if no other bin folder ever was in use; and *)
(* the process has a library of its package open, the one just built if it   *)
(* had none under this path before.                                          *)
THEOREM InstalledIsUsable == Spec => []SuccessMeansUsable
<1>1. IInv => SuccessMeansUsable
  <2> SUFFICES ASSUME IInv, pc = "done" PROVE SuccessMeansUsable
    BY DEF SuccessMeansUsable
  <2>1. /\ link = {L} /\ L \in Location /\ index[L][install.id] = install.line.spec
        /\ Path \in DOMAIN loaded
        /\ install.first => loaded[Path] = ThisLibrary
        /\ \A m \in SwiftModule[install.line] :
             m \in DOMAIN links[L] /\ links[L][m][1] = install.id
    BY DEF IInv, InstallTyped, StepsDone, Busy, Numbered, Linked, L
  <2>2. ASSUME NEW m \in SwiftModule[install.line],
               \A r \in rows[L] : r[1] = install.id /\ r[3] = m => r[2] = Bin
        PROVE  links[L][m] = <<install.id, Bin>>
    <3>1. /\ <<links[L][m][1], links[L][m][2], m>> \in rows[L]
          /\ links[L][m] = <<links[L][m][1], links[L][m][2]>>
      BY <2>1 DEF IInv, LinksLeadToModules, DiskTyped
    <3>2. links[L][m][2] = Bin BY <2>1, <2>2, <3>1
    <3> QED BY <2>1, <3>1, <3>2
  <2>3. loaded[Path].line.spec = install.line.spec
    <3>1. Path[1] = L /\ Path[2] = install.id BY DEF Path
    <3> QED BY <2>1, <3>1 DEF IInv, FoldersBelongToIndex
  <2> QED BY <2>1, <2>2, <2>3 DEF SuccessMeansUsable, ThisLibrary
<1> QED BY <1>1, Invariant, PTL

(* A Clang module without a warning was on disk where the compiler looked    *)
(* when its process was started (ProcessInstalls.swift:240), if the set that *)
(* is compared was read there.                                               *)
THEOREM UnwarnedIsSeen == Spec => []NoWarningMeansSeen
<1>1. IInv => NoWarningMeansSeen
  BY DEF IInv, ModulesReadFirst, NoWarningMeansSeen, Read, Warned
<1> QED BY <1>1, Invariant, PTL
=============================================================================
