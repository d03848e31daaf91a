------------------------ MODULE InstallScriptProofs ------------------------
(* Theorems about InstallScript, for every number of versions, of runs and  *)
(* of runs that are broken off.                                             *)
EXTENDS InstallScript, SequenceTheorems, FunctionTheorems, FiniteSetTheorems, TLAPS

-----------------------------------------------------------------------------
(* The invariant.                                                           *)

Installed == {"clone", "recordClone", "compileLLDB", "recordLLDB", "removeKernel",
              "compileKernel", "recordKernel", "register", "finished"}
Control == {"start", "layout", "compare", "putAway", "takeOut", "recordVersion",
            "check", "download", "move", "exited", "brokenOff"} \cup Installed

(* The control of the script, and the folders.                              *)
ControlTypes ==
  /\ pc \in Control
  /\ made \in 0 .. 5
  /\ pc = "layout" => made < 5
  /\ pc = "start" \/ version \in Version
FolderTypes ==
  /\ toolchain \in Seq(Toolchain)
  /\ toolchains \in [Version -> Seq(Toolchain)]
  /\ release \in [Version -> Seq(Toolchain)]
  /\ tar \in [Version -> {"none", "started", "extracting", "moved"}]
  /\ swift_version \in Version \cup {None}
  /\ using_cached_swift \in BOOLEAN

Whole(v) == [version |-> v, whole |-> TRUE]
Holds(folder, v) == folder # <<>> /\ folder[1] = Whole(v)

(* The toolchain of the last version is in its place, it has been put away, *)
(* or the one that was asked for has taken its place.                       *)
OldInPlace == Holds(toolchain, swift_version) /\ toolchains[swift_version] = <<>>
OldPutAway == toolchain = <<>> /\ toolchains[swift_version] # <<>>
NewInPlace == /\ Holds(toolchain, version) /\ toolchains[version] = <<>>
              /\ toolchains[swift_version] # <<>>

WhereToolchainsAre ==
  /\ \A v \in Version : toolchains[v] # <<>> => toolchains[v][1] = Whole(v)
  /\ swift_version = None =>
       /\ \A v \in Version : toolchains[v] = <<>>
       /\ toolchain # <<>> => Holds(toolchain, version)
  /\ swift_version = version /\ version # None => OldInPlace
  /\ swift_version \notin {None, version} => OldInPlace \/ OldPutAway \/ NewInPlace

(* What the switch from one toolchain to another relies on at each step.    *)
StepOfSwitch ==
  /\ pc = "putAway" => /\ swift_version \notin {None, version}
                       /\ using_cached_swift <=> toolchains[version] # <<>>
  /\ pc = "takeOut" => /\ swift_version \notin {None, version}
                       /\ using_cached_swift
                       /\ toolchain = <<>> /\ toolchains[version] # <<>>
  /\ pc = "recordVersion" => /\ swift_version # version
                             /\ Holds(toolchain, version) /\ toolchains[version] = <<>>
                             /\ swift_version # None => NewInPlace
  /\ pc = "check" => /\ using_cached_swift <=> swift_version = version
                     /\ toolchains[version] = <<>>
                     /\ swift_version \notin {None, version} => OldPutAway \/ NewInPlace
  /\ pc \in {"download", "move"} =>
       /\ ~using_cached_swift /\ swift_version # version
       /\ toolchain = <<>> /\ toolchains[version] = <<>>
       /\ swift_version # None => OldPutAway
  /\ pc = "move" /\ tar[version] = "none" => release[version] = <<Whole(version)>>
  /\ \A v \in Version : tar[v] # "moved"

(* A switch that was broken off is taken up again for the same version.     *)
SameVersionAgain ==
  /\ unfinished # None => version = unfinished
  /\ pc \in {"brokenOff", "exited"} => unfinished = version
  /\ pc \in {"compare", "putAway", "check"} /\ swift_version # version /\ Holds(toolchain, version)
       => unfinished = version
  /\ pc \in Installed => swift_version = version
  /\ pc = "finished" => unfinished = None

Compiled == {"removeKernel", "compileKernel", "recordKernel", "register", "finished"}

(* What progress/ says is there, unless it was compiled anew for the version *)
(* that the script runs for.                                                 *)
ProgressIsTrue ==
  /\ ~downloaded => lldb_compiler = None
  /\ downloaded => cloned
  /\ pc = "recordClone" => cloned
  /\ pc \in {"compileLLDB", "recordLLDB"} \cup Compiled => downloaded
  /\ lldb_compiler = version /\ version # None => lldb = version
  /\ lldb_compiler # None => "lldb" \in links
  /\ pc = "recordLLDB" => lldb = version /\ "lldb" \in links
  /\ pc \in Compiled => lldb = version /\ lldb_compiler = version
  /\ jupyterkernel_compiler = version /\ version # None => jupyterkernel = version
  /\ jupyterkernel_compiler # None => "jupyterkernel" \in links
  /\ pc = "recordKernel" => jupyterkernel = version /\ "jupyterkernel" \in links
  /\ pc \in {"register", "finished"} => jupyterkernel = version /\ jupyterkernel_compiler = version
  /\ pc = "finished" => registered
  /\ links \subseteq {"lldb", "jupyterkernel"}

(* The folders are made, all of them, before anything else happens.         *)
LayoutIsMade ==
  /\ pc \notin {"start", "layout"} => made = 5
  /\ pc \in {"start", "layout"} =>
       /\ swift_version = None /\ toolchain = <<>> /\ unfinished = None
       /\ ~downloaded /\ lldb_compiler = None /\ jupyterkernel_compiler = None
       /\ made < 5
  /\ pc = "start" => made = 0

ScriptParts ==
  /\ LayoutIsMade
  /\ WhereToolchainsAre
  /\ StepOfSwitch
  /\ SameVersionAgain
  /\ ProgressIsTrue
ScriptInvariant == ~disturbed => ScriptParts

-----------------------------------------------------------------------------
(* Types.                                                                   *)

LEMMA LayoutLength == Len(Layout) = 5
BY DEF Layout

LEMMA PutInFolder ==
  ASSUME NEW f \in [Version -> Seq(Toolchain)], NEW v, NEW s \in Seq(Toolchain)
  PROVE  [f EXCEPT ![v] = s] \in [Version -> Seq(Toolchain)]
OBVIOUS

(* What mv has done, or not.                                                *)
LEMMA PutAwayMoves ==
  ASSUME PutAway
  PROVE  \/ /\ Folder("toolchains") /\ toolchain # <<>> /\ toolchain' = <<>>
            /\ toolchains' = [toolchains EXCEPT ![swift_version] = @ \o toolchain]
         \/ /\ ~Folder("toolchains") \/ toolchain = <<>> \/ ~(Len(toolchains[swift_version]) <= 1)
            /\ UNCHANGED <<toolchain, toolchains>>
BY Zenon DEF PutAway, NameIsFree
LEMMA TakeOutMoves ==
  ASSUME TakeOut
  PROVE  \/ /\ toolchain' = toolchain \o toolchains[version]
            /\ toolchains' = [toolchains EXCEPT ![version] = <<>>]
         \/ ~(Len(toolchain) <= 1) /\ UNCHANGED <<toolchain, toolchains>>
BY Zenon DEF TakeOut, NameIsFree

LEMMA ControlInductive ==
  ASSUME ControlTypes, [Next]_vars PROVE ControlTypes'
<1> USE LayoutLength DEF ControlTypes, Control, Installed, Ended
<1> USE DEF scriptVars, folderVars, libraryVars, progressVars, historyVars
<1>1. CASE Start \/ BreakOff
  <2>1. CASE Start
    <3>1. /\ version' \in Version /\ made' = made
          /\ pc' = IF made = 0 THEN "layout" ELSE "compare"
      BY <2>1 DEF Start
    <3>2. CASE made = 0
      <4>1. pc' = "layout" /\ made' = 0
        BY <3>1, <3>2
      <4> QED BY <3>1, <4>1
    <3>3. CASE made # 0
      <4>1. pc' = "compare"
        BY <3>1, <3>3
      <4> QED BY <3>1, <4>1
    <3> QED BY <3>2, <3>3
  <2>2. CASE BreakOff BY <2>2 DEF BreakOff
  <2> QED BY <1>1, <2>1, <2>2
<1>2. CASE MakeFolder BY <1>2 DEF MakeFolder
<1>3. CASE CompareVersions \/ PutAway \/ TakeOut \/ RecordVersion \/ CheckToolchain
  BY <1>3 DEF CompareVersions, PutAway, TakeOut, RecordVersion, CheckToolchain
<1>4. CASE StartDownload \/ MoveToolchain \/ Clone \/ RecordClone
  BY <1>4 DEF StartDownload, MoveToolchain, Clone, RecordClone
<1>5. CASE CompileLLDB \/ RecordLLDB \/ RemoveKernel \/ CompileKernel \/ RecordKernel
           \/ Register
  BY <1>5 DEF CompileLLDB, RecordLLDB, RemoveKernel, CompileKernel, RecordKernel, Register
<1>6. CASE \E v \in Version : Extract(v) \/ DownloadFails(v)
  BY <1>6 DEF Extract, DownloadFails
<1>7. CASE UNCHANGED vars BY <1>7 DEF vars
<1> QED BY <1>1, <1>2, <1>3, <1>4, <1>5, <1>6, <1>7 DEF Next, Step

LEMMA TypesInductive ==
  ASSUME ControlTypes, FolderTypes, [Next]_vars PROVE FolderTypes'
<1> USE BoundsAssumption DEF FolderTypes
<1> USE DEF scriptVars, folderVars, libraryVars, progressVars, historyVars
<1>1. CASE Start BY <1>1 DEF Start
<1>2. CASE BreakOff BY <1>2 DEF BreakOff
<1>3. CASE MakeFolder BY <1>3 DEF MakeFolder
<1>4. CASE CompareVersions BY <1>4 DEF CompareVersions
<1>5. CASE PutAway
  <2>1. toolchain' \in Seq(Toolchain) /\ toolchains' \in [Version -> Seq(Toolchain)]
    <3>1. CASE /\ toolchains' = [toolchains EXCEPT ![swift_version] = @ \o toolchain]
               /\ toolchain' = <<>>
      <4>1. CASE swift_version \in Version
        <5>1. /\ toolchains[swift_version] \o toolchain \in Seq(Toolchain)
              /\ <<>> \in Seq(Toolchain)
          BY <4>1
        <5> QED BY <3>1, <5>1, PutInFolder
      <4>2. CASE swift_version \notin Version
        <5>1. toolchains' = toolchains /\ toolchain' = <<>>
          BY <3>1, <4>2
        <5> QED BY <5>1
      <4> QED BY <4>1, <4>2
    <3>2. CASE UNCHANGED <<toolchain, toolchains>> BY <3>2
    <3> QED BY <1>5, <3>1, <3>2, PutAwayMoves
  <2> QED BY <1>5, <2>1 DEF PutAway
<1>6. CASE TakeOut
  <2>1. version \in Version
    BY <1>6 DEF TakeOut, ControlTypes
  <2>2. toolchain \o toolchains[version] \in Seq(Toolchain) /\ <<>> \in Seq(Toolchain)
    BY <2>1
  <2>3. toolchain' \in Seq(Toolchain) /\ toolchains' \in [Version -> Seq(Toolchain)]
    <3>1. CASE /\ toolchains' = [toolchains EXCEPT ![version] = <<>>]
               /\ toolchain' = toolchain \o toolchains[version]
      BY <2>2, <3>1, PutInFolder
    <3>2. CASE UNCHANGED <<toolchain, toolchains>> BY <3>2
    <3> QED BY <1>6, <3>1, <3>2, TakeOutMoves
  <2> QED BY <1>6, <2>3 DEF TakeOut
<1>7. CASE RecordVersion BY <1>7 DEF RecordVersion, ControlTypes
<1>8. CASE CheckToolchain BY <1>8 DEF CheckToolchain
<1>9. CASE StartDownload BY <1>9 DEF StartDownload
<1>10. CASE MoveToolchain
  <2>1. version \in Version
    BY <1>10 DEF MoveToolchain, ControlTypes
  <2>2. tar' \in [Version -> {"none", "started", "extracting", "moved"}]
    BY <1>10, <2>1 DEF MoveToolchain
  <2>3. toolchain' \in Seq(Toolchain) /\ release' \in [Version -> Seq(Toolchain)]
    <3>1. <<>> \in Seq(Toolchain) /\ release[version] \in Seq(Toolchain)
      BY <2>1
    <3> QED BY <1>10, <3>1, PutInFolder DEF MoveToolchain
  <2> QED BY <1>10, <2>2, <2>3 DEF MoveToolchain
<1>11. CASE Clone BY <1>11 DEF Clone
<1>12. CASE RecordClone BY <1>12 DEF RecordClone
<1>13. CASE CompileLLDB BY <1>13 DEF CompileLLDB, Usable, Linked
<1>14. CASE RecordLLDB BY <1>14 DEF RecordLLDB
<1>15. CASE RemoveKernel BY <1>15 DEF RemoveKernel
<1>16. CASE CompileKernel BY <1>16 DEF CompileKernel, Usable, Linked
<1>17. CASE RecordKernel BY <1>17 DEF RecordKernel
<1>18. CASE Register BY <1>18 DEF Register
<1>19. ASSUME NEW v \in Version, Extract(v) PROVE FolderTypes'
  <2>1. \A whole \in BOOLEAN : <<[version |-> v, whole |-> whole]>> \in Seq(Toolchain)
    BY DEF Toolchain
  <2>2. \A whole \in BOOLEAN : Extracted(v, whole) \in [Version -> Seq(Toolchain)]
    BY <2>1 DEF Extracted
  <2>3. release' = release \/ \E whole \in BOOLEAN : release' = Extracted(v, whole)
    BY <1>19 DEF Extract
  <2>4. tar' \in [Version -> {"none", "started", "extracting", "moved"}]
    BY <1>19 DEF Extract
  <2> QED BY <1>19, <2>2, <2>3, <2>4 DEF Extract
<1>20. ASSUME NEW v \in Version, DownloadFails(v) PROVE FolderTypes'
  BY <1>20 DEF DownloadFails
<1>21. CASE UNCHANGED vars BY <1>21 DEF vars
<1> QED BY <1>1, <1>2, <1>3, <1>4, <1>5, <1>6, <1>7, <1>8, <1>9, <1>10, <1>11, <1>12, <1>13,
           <1>14, <1>15, <1>16, <1>17, <1>18, <1>19, <1>20, <1>21 DEF Next, Step

-----------------------------------------------------------------------------
(* Folders.                                                                 *)

(* Moving a folder into another leaves that one's toolchain at the root.    *)
LEMMA RootStays ==
  ASSUME NEW s \in Seq(Toolchain), NEW t \in Seq(Toolchain)
  PROVE  /\ s # <<>> => s \o t # <<>> /\ (s \o t)[1] = s[1]
         /\ s = <<>> => s \o t = t
<1>1. s # <<>> => Len(s) \in Nat \ {0}
  BY EmptySeq, LenProperties
<1> QED BY <1>1, ConcatProperties, ConcatEmptySeq

LEMMA AllFolders ==
  ASSUME made = 5
  PROVE  /\ Folder("toolchains") /\ Folder("progress") /\ Folder("lib")
         /\ Folder("internal-modules")
<1>1. Layout[2] = "internal-modules" /\ Layout[3] = "lib" /\ Layout[4] = "progress"
      /\ Layout[5] = "toolchains"
  BY DEF Layout
<1>2. {2, 3, 4, 5} \subseteq 1 .. made
  OBVIOUS
<1> QED BY <1>1, <1>2 DEF Folder

-----------------------------------------------------------------------------
(* The parts of the invariant, one by one.                                   *)

(* A run that goes on after BreakOff finds all folders, or disturbed is set. *)
LEMMA LayoutIsMadeInductive ==
  ASSUME ControlTypes, FolderTypes, ScriptParts, [Next]_vars, ~disturbed'
  PROVE  LayoutIsMade'
<1> USE BoundsAssumption, LayoutLength, AllFolders
<1> USE DEF ControlTypes, FolderTypes, ScriptParts, LayoutIsMade, SameVersionAgain, Control,
            Installed
<1> USE DEF scriptVars, folderVars, libraryVars, progressVars, historyVars
<1>1. CASE Start BY <1>1 DEF Start, Ended
<1>2. CASE BreakOff BY <1>2 DEF BreakOff, Ended
<1>3. CASE MakeFolder BY <1>3 DEF MakeFolder
<1>4. CASE CompareVersions BY <1>4 DEF CompareVersions
<1>5. CASE PutAway BY <1>5 DEF PutAway
<1>6. CASE TakeOut BY <1>6 DEF TakeOut
<1>7. CASE RecordVersion BY <1>7 DEF RecordVersion
<1>8. CASE CheckToolchain BY <1>8 DEF CheckToolchain
<1>9. CASE StartDownload BY <1>9 DEF StartDownload
<1>10. CASE MoveToolchain BY <1>10 DEF MoveToolchain
<1>11. CASE Clone BY <1>11 DEF Clone
<1>12. CASE RecordClone BY <1>12 DEF RecordClone
<1>13. CASE CompileLLDB BY <1>13 DEF CompileLLDB, Usable, Linked
<1>14. CASE RecordLLDB BY <1>14 DEF RecordLLDB
<1>15. CASE RemoveKernel BY <1>15 DEF RemoveKernel
<1>16. CASE CompileKernel BY <1>16 DEF CompileKernel, Usable, Linked
<1>17. CASE RecordKernel BY <1>17 DEF RecordKernel
<1>18. CASE Register BY <1>18 DEF Register
<1>19. ASSUME NEW v \in Version, Extract(v) PROVE LayoutIsMade'
  BY <1>19 DEF Extract, Extracted
<1>20. ASSUME NEW v \in Version, DownloadFails(v) PROVE FALSE
  BY <1>20 DEF DownloadFails
<1>21. CASE UNCHANGED vars BY <1>21 DEF vars
<1> QED BY <1>1, <1>2, <1>3, <1>4, <1>5, <1>6, <1>7, <1>8, <1>9, <1>10, <1>11, <1>12, <1>13,
           <1>14, <1>15, <1>16, <1>17, <1>18, <1>19, <1>20, <1>21 DEF Next, Step

(* mv moves a toolchain as a whole, out of one place into another that is   *)
(* empty: it is never without a place, and never in the place of another.   *)
LEMMA WhereToolchainsAreInductive ==
  ASSUME ControlTypes, FolderTypes, ScriptParts, [Next]_vars, ~disturbed'
  PROVE  WhereToolchainsAre'
<1> USE BoundsAssumption, LayoutLength, AllFolders
<1> USE DEF ControlTypes, FolderTypes, ScriptParts, LayoutIsMade, WhereToolchainsAre,
            StepOfSwitch, SameVersionAgain, OldInPlace, OldPutAway,
    NewInPlace, Holds, Whole, Installed, Control
<1> USE DEF scriptVars, folderVars, libraryVars, progressVars, historyVars
<1>1. CASE Start BY ZenonT(30), <1>1 DEF Start, Ended
<1>2. CASE BreakOff BY <1>2 DEF BreakOff, Ended
<1>3. CASE MakeFolder BY <1>3 DEF MakeFolder
<1>4. CASE CompareVersions BY <1>4 DEF CompareVersions
<1>5. CASE PutAway
  <2>1. /\ pc = "putAway" /\ made = 5 /\ swift_version \in Version /\ version \in Version
        /\ swift_version # version /\ UNCHANGED <<version, swift_version>>
    BY <1>5 DEF PutAway
  <2>2. /\ toolchains[swift_version] \in Seq(Toolchain) /\ toolchain \in Seq(Toolchain)
    BY <2>1
  <2>3. CASE /\ toolchain # <<>> /\ toolchain' = <<>>
             /\ toolchains' = [toolchains EXCEPT ![swift_version] = @ \o toolchain]
    <3>1. /\ toolchains' = [toolchains EXCEPT ![swift_version]
                               = toolchains[swift_version] \o toolchain]
          /\ toolchain' = <<>>
      BY <2>3
    <3>2. LET all == toolchains[swift_version] \o toolchain
          IN  all # <<>> /\ all[1] = Whole(swift_version)
      BY <2>1, <2>2, <2>3, RootStays
    <3>3. \A w \in Version : toolchains'[w] # <<>> => toolchains'[w][1] = Whole(w)
      BY <2>1, <3>1, <3>2
    <3>4. OldPutAway'
      BY <2>1, <3>1, <3>2
    <3> QED BY <2>1, <3>3, <3>4
  <2>4. CASE UNCHANGED <<toolchain, toolchains>> BY <2>1, <2>4
  <2> QED BY <1>5, <2>3, <2>4, PutAwayMoves
<1>6. CASE TakeOut
  <2>1. /\ pc = "takeOut" /\ made = 5 /\ swift_version \in Version /\ version \in Version
        /\ swift_version # version /\ UNCHANGED <<version, swift_version>>
        /\ toolchain = <<>> /\ toolchains[version] # <<>>
    BY <1>6 DEF TakeOut
  <2>2. Len(toolchain) <= 1 /\ toolchain \o toolchains[version] = toolchains[version]
    BY <2>1
  <2>3. /\ toolchain' = toolchains[version]
        /\ toolchains' = [toolchains EXCEPT ![version] = <<>>]
    BY <1>6, <2>2, TakeOutMoves
  <2>4. NewInPlace'
    BY <2>1, <2>3
  <2>5. \A w \in Version : toolchains'[w] # <<>> => toolchains'[w][1] = Whole(w)
    BY <2>1, <2>3
  <2> QED BY <2>1, <2>4, <2>5
<1>7. CASE RecordVersion BY <1>7 DEF RecordVersion
<1>8. CASE CheckToolchain BY <1>8 DEF CheckToolchain
<1>9. CASE StartDownload BY <1>9 DEF StartDownload
<1>10. CASE MoveToolchain
  <2>1. /\ pc = "move" /\ made = 5 /\ version \in Version
        /\ UNCHANGED <<version, swift_version, toolchains>> /\ toolchain' = release[version]
    BY <1>10 DEF MoveToolchain
  <2>2. tar[version] = "none"
    BY <1>10 DEF MoveToolchain
  <2>3. Holds(toolchain', version)
    <3>1. release[version] = <<Whole(version)>>
      BY <2>1, <2>2 DEF StepOfSwitch
    <3> QED BY <2>1, <3>1
  <2> QED BY <2>1, <2>3
<1>11. CASE Clone BY <1>11 DEF Clone
<1>12. CASE RecordClone BY <1>12 DEF RecordClone
<1>13. CASE CompileLLDB BY <1>13 DEF CompileLLDB, Usable, Linked
<1>14. CASE RecordLLDB BY <1>14 DEF RecordLLDB
<1>15. CASE RemoveKernel BY <1>15 DEF RemoveKernel
<1>16. CASE CompileKernel BY <1>16 DEF CompileKernel, Usable, Linked
<1>17. CASE RecordKernel BY <1>17 DEF RecordKernel
<1>18. CASE Register BY <1>18 DEF Register
<1>19. ASSUME NEW v \in Version, Extract(v) PROVE WhereToolchainsAre'
  BY <1>19 DEF Extract, Extracted
<1>20. ASSUME NEW v \in Version, DownloadFails(v) PROVE FALSE
  BY <1>20 DEF DownloadFails
<1>21. CASE UNCHANGED vars BY <1>21 DEF vars
<1> QED BY <1>1, <1>2, <1>3, <1>4, <1>5, <1>6, <1>7, <1>8, <1>9, <1>10, <1>11, <1>12, <1>13,
           <1>14, <1>15, <1>16, <1>17, <1>18, <1>19, <1>20, <1>21 DEF Next, Step

(* Each step of the switch finds what the steps before it have left.         *)
LEMMA StepOfSwitchInductive ==
  ASSUME ControlTypes, FolderTypes, ScriptParts, [Next]_vars, ~disturbed'
  PROVE  StepOfSwitch'
<1> USE BoundsAssumption, LayoutLength, AllFolders
<1> USE DEF ControlTypes, FolderTypes, ScriptParts, LayoutIsMade, WhereToolchainsAre,
            StepOfSwitch, SameVersionAgain, OldInPlace, OldPutAway,
    NewInPlace, Holds, Whole, Installed, Control
<1> USE DEF scriptVars, folderVars, libraryVars, progressVars, historyVars
<1>1. CASE Start BY <1>1 DEF Start, Ended
<1>2. CASE BreakOff BY <1>2 DEF BreakOff, Ended
<1>3. CASE MakeFolder BY <1>3 DEF MakeFolder
<1>4. CASE CompareVersions BY ZenonT(30), <1>4 DEF CompareVersions
<1>5. CASE PutAway
  <2>1. /\ pc = "putAway" /\ pc' = IF using_cached_swift THEN "takeOut" ELSE "check"
        /\ UNCHANGED <<version, swift_version, using_cached_swift, release, tar>>
        /\ swift_version \in Version /\ version \in Version
    BY <1>5 DEF PutAway
  <2>2. CASE /\ toolchain # <<>> /\ toolchain' = <<>>
             /\ toolchains' = [toolchains EXCEPT ![swift_version] = @ \o toolchain]
    <3>1. /\ toolchains'[swift_version] = toolchains[swift_version] \o toolchain
          /\ toolchains'[version] = toolchains[version]
      BY <2>1, <2>2
    <3>2. toolchains'[swift_version] # <<>>
      BY <2>1, <2>2, <3>1, RootStays
    <3> QED BY <2>1, <2>2, <3>1, <3>2
  <2>3. CASE /\ toolchain = <<>> \/ ~(Len(toolchains[swift_version]) <= 1)
             /\ UNCHANGED <<toolchain, toolchains>>
    <3>1. ~OldInPlace
      BY <2>1, <2>3
    <3>2. OldPutAway \/ NewInPlace
      BY <2>1, <3>1
    <3> QED BY <2>1, <2>3, <3>2
  <2>4. Folder("toolchains")
    BY <2>1
  <2> QED BY <1>5, <2>2, <2>3, <2>4, PutAwayMoves
<1>6. CASE TakeOut
  <2>1. /\ pc = "takeOut" /\ pc' = "recordVersion" /\ toolchain = <<>>
        /\ UNCHANGED <<version, swift_version, using_cached_swift, release, tar>>
        /\ swift_version \in Version /\ version \in Version
    BY <1>6 DEF TakeOut
  <2>2. Len(toolchain) <= 1 /\ toolchain \o toolchains[version] = toolchains[version]
    BY <2>1
  <2>3. toolchain' = toolchains[version] /\ toolchains' = [toolchains EXCEPT ![version] = <<>>]
    BY <1>6, <2>2, TakeOutMoves
  <2> QED BY <2>1, <2>3
<1>7. CASE RecordVersion BY <1>7 DEF RecordVersion
<1>8. CASE CheckToolchain BY <1>8 DEF CheckToolchain
<1>9. CASE StartDownload BY <1>9 DEF StartDownload
<1>10. CASE MoveToolchain
  <2>1. /\ pc = "move" /\ version \in Version /\ pc' = "recordVersion"
        /\ UNCHANGED <<version, swift_version, toolchains, using_cached_swift>>
        /\ toolchain' = release[version]
    BY <1>10 DEF MoveToolchain
  <2>2. tar[version] = "none"
    BY <1>10 DEF MoveToolchain
  <2>3. release[version] = <<Whole(version)>>
    BY <2>1, <2>2
  <2>4. /\ swift_version # version /\ toolchains[version] = <<>>
        /\ swift_version # None => OldPutAway
    BY <2>1
  <2>5. Holds(toolchain', version)
    BY <2>1, <2>3
  <2>6. (swift_version # None => NewInPlace)'
    BY <2>1, <2>4, <2>5
  <2>7. \A w \in Version : tar'[w] # "moved"
    BY <1>10, <2>1, <2>2 DEF MoveToolchain
  <2> QED BY <2>1, <2>4, <2>5, <2>6, <2>7
<1>11. CASE Clone BY <1>11 DEF Clone
<1>12. CASE RecordClone BY <1>12 DEF RecordClone
<1>13. CASE CompileLLDB BY <1>13 DEF CompileLLDB, Usable, Linked
<1>14. CASE RecordLLDB BY <1>14 DEF RecordLLDB
<1>15. CASE RemoveKernel BY <1>15 DEF RemoveKernel
<1>16. CASE CompileKernel BY <1>16 DEF CompileKernel, Usable, Linked
<1>17. CASE RecordKernel BY <1>17 DEF RecordKernel
<1>18. CASE Register BY <1>18 DEF Register
<1>19. ASSUME NEW v \in Version, Extract(v) PROVE StepOfSwitch'
  <2>1. /\ UNCHANGED <<pc, version, using_cached_swift, swift_version, toolchain, toolchains>>
        /\ tar[v] \in {"started", "extracting"}
    BY <1>19 DEF Extract
  <2>2. \A w \in Version \ {v} : tar'[w] = tar[w] /\ release'[w] = release[w]
    BY <1>19 DEF Extract, Extracted
  <2>3. \/ tar'[v] = "extracting"
        \/ tar'[v] = "none" /\ release'[v] = <<Whole(v)>>
    BY <1>19, <2>1 DEF Extract, Extracted
  <2>4. pc = "move" => version \in Version
    OBVIOUS
  <2>5. (pc = "move" /\ tar[version] = "none" => release[version] = <<Whole(version)>>)'
    BY <2>1, <2>2, <2>3, <2>4
  <2>6. \A w \in Version : tar'[w] # "moved"
    BY <2>2, <2>3
  <2> QED BY <2>1, <2>5, <2>6
<1>20. ASSUME NEW v \in Version, DownloadFails(v) PROVE FALSE
  BY <1>20 DEF DownloadFails
<1>21. CASE UNCHANGED vars BY <1>21 DEF vars
<1> QED BY <1>1, <1>2, <1>3, <1>4, <1>5, <1>6, <1>7, <1>8, <1>9, <1>10, <1>11, <1>12, <1>13,
           <1>14, <1>15, <1>16, <1>17, <1>18, <1>19, <1>20, <1>21 DEF Next, Step

(* Only the version of the last run finds a switch that is half done.        *)
LEMMA SameVersionAgainInductive ==
  ASSUME ControlTypes, FolderTypes, ScriptParts, [Next]_vars, ~disturbed'
  PROVE  SameVersionAgain'
<1> USE BoundsAssumption, LayoutLength, AllFolders
<1> USE DEF ControlTypes, FolderTypes, ScriptParts, LayoutIsMade, WhereToolchainsAre,
            StepOfSwitch, SameVersionAgain, OldInPlace, OldPutAway,
    NewInPlace, Holds, Whole, Installed, Control, Compiled
<1> USE DEF scriptVars, folderVars, libraryVars, progressVars, historyVars
<1>1. CASE Start
  <2>1. /\ pc \in Ended /\ version' \in Version
        /\ pc' = IF made = 0 THEN "layout" ELSE "compare"
        /\ UNCHANGED <<unfinished, swift_version, toolchain, toolchains, made>>
    BY <1>1 DEF Start
  <2>2. unfinished \in {None, version'}
    BY <1>1 DEF Start
  <2>3. CASE pc = "start"
    BY <2>1, <2>2, <2>3
  <2>4. CASE pc = "finished"
    BY <2>1, <2>2, <2>4
  <2>5. CASE pc \in {"brokenOff", "exited"}
    BY <2>1, <2>2, <2>5
  <2> QED BY <2>1, <2>3, <2>4, <2>5 DEF Ended
<1>2. CASE BreakOff BY <1>2 DEF BreakOff, Ended
<1>3. CASE MakeFolder BY <1>3 DEF MakeFolder
<1>4. CASE CompareVersions BY <1>4 DEF CompareVersions
<1>5. CASE PutAway BY <1>5 DEF PutAway
<1>6. CASE TakeOut BY <1>6 DEF TakeOut
<1>7. CASE RecordVersion BY <1>7 DEF RecordVersion
<1>8. CASE CheckToolchain BY <1>8 DEF CheckToolchain
<1>9. CASE StartDownload BY <1>9 DEF StartDownload
<1>10. CASE MoveToolchain BY <1>10 DEF MoveToolchain
<1>11. CASE Clone BY <1>11 DEF Clone
<1>12. CASE RecordClone BY <1>12 DEF RecordClone
<1>13. CASE CompileLLDB BY <1>13 DEF CompileLLDB, Usable, Linked
<1>14. CASE RecordLLDB BY <1>14 DEF RecordLLDB
<1>15. CASE RemoveKernel BY <1>15 DEF RemoveKernel
<1>16. CASE CompileKernel BY <1>16 DEF CompileKernel, Usable, Linked
<1>17. CASE RecordKernel BY <1>17 DEF RecordKernel
<1>18. CASE Register BY <1>18 DEF Register
<1>19. ASSUME NEW v \in Version, Extract(v) PROVE SameVersionAgain'
  BY <1>19 DEF Extract, Extracted
<1>20. ASSUME NEW v \in Version, DownloadFails(v) PROVE FALSE
  BY <1>20 DEF DownloadFails
<1>21. CASE UNCHANGED vars BY <1>21 DEF vars
<1> QED BY <1>1, <1>2, <1>3, <1>4, <1>5, <1>6, <1>7, <1>8, <1>9, <1>10, <1>11, <1>12, <1>13,
           <1>14, <1>15, <1>16, <1>17, <1>18, <1>19, <1>20, <1>21 DEF Next, Step

(* A file of progress/ is written after what it records, never before.       *)
LEMMA ProgressIsTrueInductive ==
  ASSUME ControlTypes, FolderTypes, ScriptParts, [Next]_vars, ~disturbed'
  PROVE  ProgressIsTrue'
<1> USE BoundsAssumption, LayoutLength, AllFolders
<1> USE DEF ControlTypes, FolderTypes, ScriptParts, LayoutIsMade, WhereToolchainsAre,
            StepOfSwitch, SameVersionAgain, OldInPlace, OldPutAway,
    NewInPlace, Holds, Whole, Installed, Control, ProgressIsTrue, Compiled
<1> USE DEF scriptVars, folderVars, libraryVars, progressVars, historyVars
<1>1. CASE Start
  <2>1. /\ pc \in Ended /\ version' \in Version
        /\ pc' \in {"layout", "compare"}
        /\ UNCHANGED <<unfinished, libraryVars, progressVars, cloned>>
    BY <1>1 DEF Start
  <2>2. unfinished \in {None, version'}
    BY <1>1 DEF Start
  <2>3. CASE pc = "start"
    BY <2>1, <2>3
  <2>4. CASE pc = "finished"
    BY <2>1, <2>4
  <2>5. CASE pc \in {"brokenOff", "exited"}
    BY <2>1, <2>2, <2>5
  <2> QED BY <2>1, <2>3, <2>4, <2>5 DEF Ended
<1>2. CASE BreakOff BY <1>2 DEF BreakOff, Ended
<1>3. CASE MakeFolder BY <1>3 DEF MakeFolder
<1>4. CASE CompareVersions BY <1>4 DEF CompareVersions
<1>5. CASE PutAway BY <1>5 DEF PutAway
<1>6. CASE TakeOut BY <1>6 DEF TakeOut
<1>7. CASE RecordVersion BY <1>7 DEF RecordVersion
<1>8. CASE CheckToolchain BY <1>8 DEF CheckToolchain
<1>9. CASE StartDownload BY <1>9 DEF StartDownload
<1>10. CASE MoveToolchain BY <1>10 DEF MoveToolchain
<1>11. CASE Clone BY <1>11 DEF Clone
<1>12. CASE RecordClone BY <1>12 DEF RecordClone
<1>13. CASE CompileLLDB
  <2>1. /\ pc = "compileLLDB" /\ made = 5 /\ version \in Version /\ cloned /\ downloaded
        /\ UNCHANGED <<version, cloned, progressVars, jupyterkernel>>
    BY <1>13 DEF CompileLLDB
  <2>2. CASE lldb_compiler = version
    <3>1. pc' = "removeKernel" /\ UNCHANGED libraryVars
      BY <1>13, <2>2 DEF CompileLLDB
    <3> QED BY <2>1, <2>2, <3>1
  <2>3. CASE lldb_compiler # version
    <3>1. Usable /\ toolchain[1].version = version
      BY <2>1 DEF Usable
    <3>2. lldb' = version /\ links' = links \cup {"lldb"} /\ pc' = "recordLLDB"
      BY <1>13, <2>1, <2>3, <3>1 DEF CompileLLDB, Linked
    <3> QED BY <2>1, <2>3, <3>2
  <2> QED BY <2>2, <2>3
<1>14. CASE RecordLLDB BY <1>14 DEF RecordLLDB
<1>15. CASE RemoveKernel BY <1>15 DEF RemoveKernel
<1>16. CASE CompileKernel BY <1>16 DEF CompileKernel, Usable, Linked
<1>17. CASE RecordKernel BY <1>17 DEF RecordKernel
<1>18. CASE Register BY <1>18 DEF Register
<1>19. ASSUME NEW v \in Version, Extract(v) PROVE ProgressIsTrue'
  BY <1>19 DEF Extract, Extracted
<1>20. ASSUME NEW v \in Version, DownloadFails(v) PROVE FALSE
  BY <1>20 DEF DownloadFails
<1>21. CASE UNCHANGED vars BY <1>21 DEF vars
<1> QED BY <1>1, <1>2, <1>3, <1>4, <1>5, <1>6, <1>7, <1>8, <1>9, <1>10, <1>11, <1>12, <1>13,
           <1>14, <1>15, <1>16, <1>17, <1>18, <1>19, <1>20, <1>21 DEF Next, Step

-----------------------------------------------------------------------------
(* The theorem.                                                              *)

(* What is lost is lost: disturbed is never reset.                           *)
LEMMA DisturbedStays ==
  ASSUME [Next]_vars, disturbed PROVE disturbed'
<1> USE DEF scriptVars, folderVars, libraryVars, progressVars, historyVars
<1>1. CASE Start \/ BreakOff BY <1>1 DEF Start, BreakOff
<1>2. CASE MakeFolder \/ CompareVersions \/ PutAway \/ TakeOut \/ RecordVersion
           \/ CheckToolchain
  BY <1>2 DEF MakeFolder, CompareVersions, PutAway, TakeOut, RecordVersion, CheckToolchain
<1>3. CASE StartDownload \/ MoveToolchain \/ Clone \/ RecordClone
  BY <1>3 DEF StartDownload, MoveToolchain, Clone, RecordClone
<1>4. CASE CompileLLDB \/ RecordLLDB \/ RemoveKernel \/ CompileKernel \/ RecordKernel
           \/ Register
  BY <1>4 DEF CompileLLDB, RecordLLDB, RemoveKernel, CompileKernel, RecordKernel, Register
<1>5. CASE \E v \in Version : Extract(v) \/ DownloadFails(v)
  BY <1>5 DEF Extract, DownloadFails
<1>6. CASE UNCHANGED vars BY <1>6 DEF vars
<1> QED BY <1>1, <1>2, <1>3, <1>4, <1>5, <1>6 DEF Next, Step

LEMMA ScriptInductive ==
  ASSUME ControlTypes, FolderTypes, ScriptInvariant, [Next]_vars
  PROVE  ScriptInvariant'
<1>1. SUFFICES ASSUME ~disturbed' PROVE ScriptParts'
  BY DEF ScriptInvariant
<1>2. ScriptParts
  BY <1>1, DisturbedStays DEF ScriptInvariant
<1> QED
  BY <1>1, <1>2, LayoutIsMadeInductive, WhereToolchainsAreInductive, StepOfSwitchInductive,
     SameVersionAgainInductive, ProgressIsTrueInductive
  DEF ScriptParts

LEMMA InitEstablishes == Init => ControlTypes /\ FolderTypes /\ ScriptInvariant
<1> SUFFICES ASSUME Init PROVE ControlTypes /\ FolderTypes /\ ScriptParts
  BY DEF ScriptInvariant
<1> USE BoundsAssumption DEF Init
<1>1. ControlTypes
  BY DEF ControlTypes, Control
<1>2. FolderTypes
  <2>1. <<>> \in Seq(Toolchain)
    OBVIOUS
  <2> QED BY <2>1 DEF FolderTypes
<1>3. LayoutIsMade
  BY DEF LayoutIsMade
<1>4. WhereToolchainsAre
  BY DEF WhereToolchainsAre
<1>5. StepOfSwitch
  BY DEF StepOfSwitch
<1>6. SameVersionAgain /\ ProgressIsTrue
  BY DEF SameVersionAgain, ProgressIsTrue, Compiled, Installed
<1> QED BY <1>1, <1>2, <1>3, <1>4, <1>5, <1>6 DEF ScriptParts

(* A script that runs to its end leaves the version it was asked for, whole,  *)
(* with both libraries compiled with it and linked, whatever was installed    *)
(* before and wherever earlier runs were broken off (install_swift.sh:48-226).*)
THEOREM FinishedAlwaysInstalled == Spec => []FinishedMeansInstalled
<1>1. Init => ControlTypes /\ FolderTypes /\ ScriptInvariant
  BY InitEstablishes
<1>2. ControlTypes /\ FolderTypes /\ ScriptInvariant /\ [Next]_vars
        => (ControlTypes /\ FolderTypes /\ ScriptInvariant)'
  BY ControlInductive, TypesInductive, ScriptInductive
<1>3. ControlTypes /\ FolderTypes /\ ScriptInvariant => FinishedMeansInstalled
  <2> SUFFICES ASSUME ControlTypes, FolderTypes, ScriptParts, pc = "finished"
               PROVE  /\ toolchain # <<>>
                      /\ toolchain[1] = [version |-> version, whole |-> TRUE]
                      /\ swift_version = version
                      /\ lldb = version /\ jupyterkernel = version
                      /\ links = {"lldb", "jupyterkernel"} /\ registered
    BY DEF ScriptInvariant, FinishedMeansInstalled
  <2>1. version \in Version /\ version # None /\ swift_version = version
    BY BoundsAssumption DEF ControlTypes, ScriptParts, SameVersionAgain, Installed
  <2>2. Holds(toolchain, version)
    BY <2>1 DEF ScriptParts, WhereToolchainsAre, OldInPlace
  <2>3. /\ lldb = version /\ lldb_compiler = version
        /\ jupyterkernel = version /\ jupyterkernel_compiler = version /\ registered
    BY DEF ScriptParts, ProgressIsTrue, Compiled
  <2>4. links = {"lldb", "jupyterkernel"}
    BY <2>1, <2>3 DEF ScriptParts, ProgressIsTrue
  <2> QED BY <2>1, <2>2, <2>3, <2>4 DEF Holds, Whole
<1> QED BY <1>1, <1>2, <1>3, PTL DEF Spec

-----------------------------------------------------------------------------
(* The cache.                                                                *)

(* The remaining types.                                                      *)
LibraryTypes ==
  /\ version \in Version \cup {None}
  /\ lldb \in Version \cup {None} /\ jupyterkernel \in Version \cup {None}
  /\ links \subseteq {"lldb", "jupyterkernel"}
  /\ breaks \in Nat /\ downloads \in [Version -> Nat]

(* As long as nothing is broken off: a version that was downloaded is in its *)
(* place, put away, or being installed; only the version that the script     *)
(* runs for is being downloaded.                                             *)
CacheParts ==
  /\ unfinished = None
  /\ pc \notin {"exited", "brokenOff"}
  /\ \A v \in Version : downloads[v] <= 1
  /\ \A v \in Version : downloads[v] = 1 =>
       \/ toolchains[v] # <<>> \/ v = swift_version
       \/ v = version /\ pc \in {"move", "recordVersion"}
  /\ \A v \in Version : tar[v] # "none" => pc = "move" /\ v = version
CacheInvariant == breaks = 0 /\ ~disturbed => CacheParts

LEMMA LibraryTypesInductive ==
  ASSUME ControlTypes, FolderTypes, LibraryTypes, [Next]_vars PROVE LibraryTypes'
<1> USE DEF LibraryTypes
<1> USE DEF scriptVars, folderVars, libraryVars, progressVars, historyVars
<1>1. Usable => toolchain[1].version \in Version
  <2> SUFFICES ASSUME Usable PROVE toolchain[1].version \in Version
    OBVIOUS
  <2>1. toolchain # <<>> /\ toolchain \in Seq(Toolchain)
    BY DEF Usable, FolderTypes
  <2>2. 1 \in 1 .. Len(toolchain)
    BY <2>1, EmptySeq
  <2>3. toolchain[1] \in Toolchain
    BY <2>1, <2>2, ElementOfSeq
  <2> QED
    BY <2>3 DEF Toolchain
<1>2. CASE Start BY <1>2 DEF Start
<1>3. CASE BreakOff BY <1>3 DEF BreakOff
<1>4. CASE MakeFolder \/ CompareVersions \/ PutAway \/ TakeOut \/ RecordVersion
           \/ CheckToolchain
  BY <1>4 DEF MakeFolder, CompareVersions, PutAway, TakeOut, RecordVersion, CheckToolchain
<1>5. CASE StartDownload
  <2>1. version \in Version /\ downloads[version] + 1 \in Nat
    BY <1>5 DEF StartDownload, ControlTypes
  <2>2. downloads' \in [Version -> Nat]
    BY <1>5, <2>1 DEF StartDownload
  <2> QED
    BY <1>5, <2>2 DEF StartDownload
<1>6. CASE MoveToolchain \/ Clone \/ RecordClone
  BY <1>6 DEF MoveToolchain, Clone, RecordClone
<1>7. CASE CompileLLDB BY <1>1, <1>7 DEF CompileLLDB, Linked
<1>8. CASE CompileKernel BY <1>1, <1>8 DEF CompileKernel, Linked
<1>9. CASE RecordLLDB \/ RemoveKernel \/ RecordKernel \/ Register
  BY <1>9 DEF RecordLLDB, RemoveKernel, RecordKernel, Register
<1>10. CASE \E v \in Version : Extract(v) \/ DownloadFails(v)
  BY <1>10 DEF Extract, DownloadFails
<1>11. CASE UNCHANGED vars BY <1>11 DEF vars
<1> QED
  BY <1>2, <1>3, <1>4, <1>5, <1>6, <1>7, <1>8, <1>9, <1>10, <1>11 DEF Next, Step

LEMMA CacheInductive ==
  ASSUME ControlTypes, FolderTypes, LibraryTypes, ScriptInvariant, CacheInvariant, [Next]_vars
  PROVE  CacheInvariant'
<1> SUFFICES ASSUME breaks' = 0, ~disturbed' PROVE CacheParts'
  BY DEF CacheInvariant
<1> USE DEF scriptVars, folderVars, libraryVars, progressVars, historyVars
<1>1. breaks = 0 /\ UNCHANGED breaks
  <2>1. BreakOff => breaks' = breaks + 1
    BY DEF BreakOff
  <2>2. UNCHANGED breaks \/ BreakOff
    BY DEF Next, Step, Start, MakeFolder, CompareVersions, PutAway, TakeOut, RecordVersion,
       CheckToolchain, StartDownload, MoveToolchain, Clone, RecordClone, CompileLLDB,
       RecordLLDB, RemoveKernel, CompileKernel, RecordKernel, Register, Extract,
       DownloadFails, vars
  <2> QED
    BY <2>1, <2>2 DEF LibraryTypes
<1>2. ~disturbed
  BY DisturbedStays
<1>3. ScriptParts /\ CacheParts
  BY <1>1, <1>2 DEF ScriptInvariant, CacheInvariant
<1> USE DEF CacheParts
<1>4. CASE Start
  <2>1. /\ pc \in {"start", "finished"} /\ pc' \in {"layout", "compare"}
        /\ UNCHANGED <<unfinished, toolchains, swift_version, tar, downloads>>
    BY <1>3, <1>4 DEF Start, Ended
  <2> QED
    BY <1>3, <2>1
<1>5. CASE BreakOff
  BY <1>1, <1>5 DEF BreakOff, LibraryTypes
<1>6. CASE MakeFolder BY <1>3, <1>6 DEF MakeFolder
<1>7. CASE CompareVersions BY <1>3, <1>7 DEF CompareVersions
<1>8. CASE PutAway
  <2>1. /\ pc = "putAway" /\ pc' \in {"takeOut", "check"}
        /\ UNCHANGED <<unfinished, version, swift_version, tar, downloads>>
    BY <1>8 DEF PutAway
  <2>2. \A v \in Version : toolchains[v] # <<>> => toolchains'[v] # <<>>
    <3>1. CASE toolchains' = [toolchains EXCEPT ![swift_version] = @ \o toolchain]
      <4>1. toolchains' = [toolchains EXCEPT ![swift_version] = toolchains[swift_version] \o toolchain]
        BY <3>1
      <4>2. ASSUME NEW v \in Version, toolchains[v] # <<>> PROVE toolchains'[v] # <<>>
        <5>1. CASE v = swift_version
          <6>1. toolchains[v] \o toolchain # <<>>
            BY <4>2, RootStays DEF FolderTypes
          <6> QED
            BY <4>1, <5>1, <6>1 DEF FolderTypes
        <5>2. CASE v # swift_version
          BY <4>1, <4>2, <5>2 DEF FolderTypes
        <5> QED
          BY <5>1, <5>2
      <4> QED
        BY <4>2
    <3>2. CASE UNCHANGED <<toolchain, toolchains>>
      BY <3>2
    <3> QED
      BY <1>8, <3>1, <3>2, PutAwayMoves
  <2> QED
    BY <1>3, <2>1, <2>2
<1>9. CASE TakeOut
  <2>1. /\ pc = "takeOut" /\ pc' = "recordVersion" /\ version \in Version
        /\ UNCHANGED <<unfinished, version, swift_version, tar, downloads>>
    BY <1>9 DEF TakeOut, ControlTypes
  <2>2. \A v \in Version \ {version} : toolchains'[v] = toolchains[v]
    BY <1>9 DEF TakeOut, FolderTypes
  <2> QED
    BY <1>3, <2>1, <2>2
<1>10. CASE RecordVersion
  <2>1. /\ pc = "recordVersion" /\ made = 5 /\ version \in Version
        /\ swift_version # None => toolchains[swift_version] # <<>>
    BY <1>3, <1>10 DEF RecordVersion, ControlTypes, ScriptParts, LayoutIsMade, StepOfSwitch,
       NewInPlace
  <2>2. /\ swift_version' = version /\ pc' \in {"check", "clone"}
        /\ UNCHANGED <<unfinished, version, toolchains, tar, downloads>>
    BY <1>10, <2>1, AllFolders DEF RecordVersion
  <2>3. \A v \in Version : v # None
    BY BoundsAssumption
  <2> QED
    BY <1>3, <2>1, <2>2, <2>3
<1>11. CASE CheckToolchain
  <2>1. /\ pc = "check" /\ version \in Version /\ version # None
        /\ UNCHANGED <<unfinished, version, swift_version, toolchains, tar, downloads>>
    BY <1>11, BoundsAssumption DEF CheckToolchain, ControlTypes
  <2>2. using_cached_swift <=> swift_version = version
    BY <1>3, <2>1 DEF ScriptParts, StepOfSwitch
  <2>3. swift_version = version => toolchain # <<>>
    BY <1>3, <2>1 DEF ScriptParts, WhereToolchainsAre, OldInPlace, Holds
  <2>4. ~Holds(toolchain, version) \/ swift_version = version
    BY <1>3, <2>1 DEF ScriptParts, SameVersionAgain
  <2>5. swift_version # version => toolchain = <<>>
    <3>1. swift_version = None /\ toolchain # <<>> => Holds(toolchain, version)
      BY <1>3 DEF ScriptParts, WhereToolchainsAre
    <3>2. swift_version \notin {None, version} => OldPutAway \/ NewInPlace
      BY <1>3, <2>1 DEF ScriptParts, StepOfSwitch
    <3>3. NewInPlace => Holds(toolchain, version)
      BY DEF NewInPlace
    <3>4. OldPutAway => toolchain = <<>>
      BY DEF OldPutAway
    <3> QED
      BY <2>4, <3>1, <3>2, <3>3, <3>4
  <2>6. pc' \in {"clone", "download"}
    BY <1>11, <2>2, <2>3, <2>5 DEF CheckToolchain, FolderTypes
  <2> QED
    BY <1>3, <2>1, <2>6
<1>12. CASE StartDownload
  <2>1. /\ pc = "download" /\ pc' = "move" /\ version \in Version
        /\ tar' = [tar EXCEPT ![version] = "started"]
        /\ downloads' = [downloads EXCEPT ![version] = downloads[version] + 1]
        /\ UNCHANGED <<unfinished, version, swift_version, toolchains>>
    BY <1>12 DEF StartDownload, ControlTypes
  <2>2. swift_version # version /\ toolchains[version] = <<>>
    BY <1>3, <2>1 DEF ScriptParts, StepOfSwitch
  <2>3. downloads[version] \in Nat /\ downloads[version] <= 1 /\ downloads[version] # 1
    BY <1>3, <2>1, <2>2 DEF LibraryTypes
  <2>4. downloads'[version] = 1 /\ \A v \in Version \ {version} : downloads'[v] = downloads[v]
    BY <2>1, <2>3 DEF LibraryTypes
  <2>5. \A v \in Version : tar'[v] # "none" => v = version
    BY <1>3, <2>1 DEF FolderTypes
  <2> QED
    BY <1>3, <2>1, <2>4, <2>5
<1>13. CASE MoveToolchain
  <2>1. /\ pc = "move" /\ pc' = "recordVersion" /\ version \in Version
        /\ UNCHANGED <<unfinished, version, swift_version, toolchains, downloads>>
    BY <1>13 DEF MoveToolchain, ControlTypes
  <2>2. tar[version] = "none"
    BY <1>13 DEF MoveToolchain
  <2>3. \A v \in Version : tar'[v] = "none"
    BY <1>3, <1>13, <2>1, <2>2 DEF MoveToolchain, FolderTypes
  <2> QED
    BY <1>3, <2>1, <2>3
<1>14. CASE Clone BY <1>3, <1>14 DEF Clone
<1>15. CASE RecordClone BY <1>3, <1>15 DEF RecordClone
<1>16. CASE CompileLLDB BY <1>3, <1>16 DEF CompileLLDB
<1>17. CASE RecordLLDB BY <1>3, <1>17 DEF RecordLLDB
<1>18. CASE RemoveKernel BY <1>3, <1>18 DEF RemoveKernel
<1>19. CASE CompileKernel BY <1>3, <1>19 DEF CompileKernel
<1>20. CASE RecordKernel BY <1>3, <1>20 DEF RecordKernel
<1>21. CASE Register BY <1>3, <1>21 DEF Register
<1>22. ASSUME NEW v \in Version, Extract(v) PROVE CacheParts'
  <2>1. /\ UNCHANGED <<pc, unfinished, version, swift_version, toolchains, downloads>>
        /\ tar[v] # "none" /\ \A w \in Version \ {v} : tar'[w] = tar[w]
    BY <1>22 DEF Extract, FolderTypes
  <2> QED
    BY <1>3, <2>1
<1>23. ASSUME NEW v \in Version, DownloadFails(v) PROVE FALSE
  BY <1>23 DEF DownloadFails
<1>24. CASE UNCHANGED vars BY <1>3, <1>24 DEF vars
<1> QED
  BY <1>4, <1>5, <1>6, <1>7, <1>8, <1>9, <1>10, <1>11, <1>12, <1>13, <1>14, <1>15, <1>16,
     <1>17,
     <1>18, <1>19, <1>20, <1>21, <1>22, <1>23, <1>24 DEF Next, Step

LEMMA CacheInitially == Init => LibraryTypes /\ CacheInvariant
<1> SUFFICES ASSUME Init PROVE LibraryTypes /\ CacheParts
  BY DEF CacheInvariant
<1> QED
  BY DEF Init, LibraryTypes, CacheParts

(* As long as no run is broken off and no download is late, a toolchain is    *)
(* downloaded once, and neither exit is taken (install_swift.sh:67 and 72).   *)
THEOREM CacheIsUsed == Spec => []ScriptInv
<1> DEFINE All == /\ ControlTypes /\ FolderTypes /\ ScriptInvariant
                  /\ LibraryTypes /\ CacheInvariant
<1>1. Init => All
  BY InitEstablishes, CacheInitially
<1>2. All /\ [Next]_vars => All'
  BY ControlInductive, TypesInductive, ScriptInductive, LibraryTypesInductive, CacheInductive
<1>3. All => ScriptInv
  <2> SUFFICES ASSUME All PROVE TypeOK /\ UndisturbedIsCached
    BY DEF ScriptInv
  <2>1. TypeOK
    BY LayoutLength
    DEF TypeOK, ControlTypes, FolderTypes, LibraryTypes, CacheInvariant, CacheParts
  <2>2. UndisturbedIsCached
    BY DEF UndisturbedIsCached, CacheInvariant, CacheParts
  <2> QED
    BY <2>1, <2>2
<1> QED
  BY <1>1, <1>2, <1>3, PTL DEF Spec

-----------------------------------------------------------------------------
(* The toolchains that are kept.                                             *)

(* Where a toolchain is moved to there is none: also when runs were broken   *)
(* off or disturbed.                                                         *)
OneOf(v, whole) == <<[version |-> v, whole |-> whole]>>
OneOrNone(v, folder) == folder = <<>> \/ \E whole \in BOOLEAN : folder = OneOf(v, whole)
PlacesFree ==
  /\ pc \in {"download", "move"} => toolchain = <<>>
  /\ pc = "putAway" => swift_version \in Version
  /\ \A v \in Version : /\ OneOrNone(v, release[v])
                        /\ tar[v] = "moved" => release[v] = <<>>
Countable == \A v \in Version : IsFiniteSet(Copies(v))

LEMMA PlacesFreeInductive ==
  ASSUME ControlTypes, FolderTypes, PlacesFree, [Next]_vars PROVE PlacesFree'
<1> USE DEF PlacesFree
<1> USE DEF scriptVars, folderVars, libraryVars, progressVars, historyVars
<1>1. CASE Start BY <1>1 DEF Start
<1>2. CASE BreakOff BY <1>2 DEF BreakOff
<1>3. CASE MakeFolder BY <1>3 DEF MakeFolder
<1>4. CASE CompareVersions BY <1>4 DEF CompareVersions, FolderTypes
<1>5. CASE PutAway BY <1>5 DEF PutAway
<1>6. CASE TakeOut BY <1>6 DEF TakeOut
<1>7. CASE RecordVersion BY <1>7 DEF RecordVersion
<1>8. CASE CheckToolchain BY <1>8 DEF CheckToolchain, FolderTypes
<1>9. CASE StartDownload
  <2>1. \A v \in Version : tar'[v] = "moved" => tar[v] = "moved"
    BY <1>9 DEF StartDownload, FolderTypes
  <2> QED BY <1>9, <2>1 DEF StartDownload
<1>10. CASE MoveToolchain
  <2>1. /\ pc' = "recordVersion"
        /\ release' = [release EXCEPT ![version] = <<>>]
        /\ \A v \in Version \ {version} : tar'[v] = tar[v]
    BY <1>10 DEF MoveToolchain, FolderTypes
  <2>2. \A v \in Version : release'[v] = IF v = version THEN <<>> ELSE release[v]
    BY <2>1 DEF FolderTypes
  <2>3. \A v \in Version : OneOrNone(v, release'[v])
    BY <2>2 DEF OneOrNone
  <2> QED BY <2>1, <2>2, <2>3
<1>11. CASE Clone \/ RecordClone BY <1>11 DEF Clone, RecordClone
<1>12. CASE CompileLLDB \/ RecordLLDB BY <1>12 DEF CompileLLDB, RecordLLDB
<1>13. CASE RemoveKernel \/ CompileKernel BY <1>13 DEF RemoveKernel, CompileKernel
<1>14. CASE RecordKernel \/ Register BY <1>14 DEF RecordKernel, Register
<1>15. ASSUME NEW v \in Version, Extract(v) PROVE PlacesFree'
  <2>1. UNCHANGED <<pc, toolchain, swift_version>>
    BY <1>15 DEF Extract
  <2>2. \A w \in Version \ {v} : tar'[w] = tar[w] /\ release'[w] = release[w]
    BY <1>15 DEF Extract, Extracted, FolderTypes
  <2>3. tar'[v] # "moved"
    BY <1>15 DEF Extract, FolderTypes
  <2>4. OneOrNone(v, release'[v])
    <3>1. \A whole \in BOOLEAN : Extracted(v, whole)[v] = OneOf(v, whole)
      BY DEF Extracted, FolderTypes, OneOf
    <3>2. release' = release \/ \E whole \in BOOLEAN : release' = Extracted(v, whole)
      BY <1>15 DEF Extract
    <3>3. CASE release' = release
      BY <3>3
    <3>4. CASE \E whole \in BOOLEAN : release' = Extracted(v, whole)
      BY <3>1, <3>4 DEF OneOrNone
    <3> QED BY <3>2, <3>3, <3>4
  <2> QED BY <2>1, <2>2, <2>3, <2>4
<1>16. ASSUME NEW v \in Version, DownloadFails(v) PROVE PlacesFree'
  <2>1. \A w \in Version : tar'[w] = "moved" => tar[w] = "moved"
    BY <1>16 DEF DownloadFails, FolderTypes
  <2> QED BY <1>16, <2>1 DEF DownloadFails
<1>17. CASE UNCHANGED vars BY <1>17 DEF vars
<1> QED
  BY <1>1, <1>2, <1>3, <1>4, <1>5, <1>6, <1>7, <1>8, <1>9, <1>10, <1>11, <1>12, <1>13, <1>14,
     <1>15, <1>16, <1>17 DEF Next, Step

(* The copies of a version, by the folder they are in.                       *)
LEMMA CopiesByFolder ==
  ASSUME NEW v, NEW x
  PROVE  x \in Copies(v) <=>
           \/ \E k \in Among(v, toolchain) : x = <<"toolchain", v, k>>
           \/ \E k \in Among(v, release[v]) : x = <<"release", v, k>>
           \/ \E w \in Version : \E k \in Among(v, toolchains[w]) : x = <<"toolchains", w, k>>
BY DEF Copies
LEMMA CopiesByFolderLater ==
  ASSUME NEW v, NEW x
  PROVE  x \in Copies(v)' <=>
           \/ \E k \in Among(v, toolchain') : x = <<"toolchain", v, k>>
           \/ \E k \in Among(v, release'[v]) : x = <<"release", v, k>>
           \/ \E w \in Version : \E k \in Among(v, toolchains'[w]) : x = <<"toolchains", w, k>>
<1>1. /\ Among(v, toolchain)' = Among(v, toolchain')
      /\ Among(v, release[v])' = Among(v, release'[v])
      /\ \A w \in Version : Among(v, toolchains[w])' = Among(v, toolchains'[w])
  BY DEF Among
<1>2. x \in Copies(v)' <=>
        \/ \E k \in Among(v, toolchain)' : x = <<"toolchain", v, k>>
        \/ \E k \in Among(v, release[v])' : x = <<"release", v, k>>
        \/ \E w \in Version : \E k \in Among(v, toolchains[w])' : x = <<"toolchains", w, k>>
  BY DEF Copies
<1> QED BY <1>1, <1>2

(* What is moved behind the toolchains of another folder keeps its order.    *)
LEMMA AmongMoved ==
  ASSUME NEW v, NEW s \in Seq(Toolchain), NEW t \in Seq(Toolchain)
  PROVE  /\ \A k \in Among(v, s) : k \in Nat /\ k >= 1 /\ k <= Len(s)
         /\ \A k : k \in Among(v, s \o t) <=>
              k \in Among(v, s) \/ \E j \in Among(v, t) : k = Len(s) + j
<1> DEFINE st == s \o t
<1>1. /\ st \in Seq(Toolchain) /\ Len(st) = Len(s) + Len(t) /\ Len(s) \in Nat /\ Len(t) \in Nat
      /\ \A i \in 1 .. Len(s) + Len(t) : st[i] = IF i <= Len(s) THEN s[i] ELSE t[i - Len(s)]
      /\ DOMAIN s = 1 .. Len(s) /\ DOMAIN t = 1 .. Len(t) /\ DOMAIN st = 1 .. Len(st)
  BY ConcatProperties, LenProperties
<1> HIDE DEF st
<1>2. \A k \in Among(v, s) : k \in Nat /\ k >= 1 /\ k <= Len(s)
  BY <1>1 DEF Among
<1>3. ASSUME NEW k \in Among(v, st)
      PROVE  k \in Among(v, s) \/ \E j \in Among(v, t) : k = Len(s) + j
  <2>1. k \in 1 .. Len(s) + Len(t) /\ st[k] = [version |-> v, whole |-> TRUE]
    BY <1>1, <1>3 DEF Among
  <2>2. CASE k <= Len(s)
    <3>1. k \in 1 .. Len(s) /\ st[k] = s[k]
      BY <1>1, <2>1, <2>2
    <3> QED BY <1>1, <2>1, <3>1 DEF Among
  <2>3. CASE ~(k <= Len(s))
    <3>1. k - Len(s) \in 1 .. Len(t) /\ k = Len(s) + (k - Len(s))
      <4> DEFINE m == Len(s)
      <4> DEFINE n == Len(t)
      <4>1. m \in Nat /\ n \in Nat /\ k \in 1 .. m + n /\ ~(k <= m)
        BY <1>1, <2>1, <2>3
      <4> HIDE DEF m, n
      <4>2. k - m \in 1 .. n /\ k = m + (k - m)
        BY <4>1
      <4> QED BY <4>2 DEF m, n
    <3>2. st[k] = t[k - Len(s)]
      BY <1>1, <2>1, <2>3
    <3>3. k - Len(s) \in Among(v, t)
      BY <1>1, <2>1, <3>1, <3>2 DEF Among
    <3> QED BY <3>1, <3>3
  <2> QED BY <2>2, <2>3
<1>4. ASSUME NEW k \in Among(v, s) PROVE k \in Among(v, st)
  <2>1. k \in 1 .. Len(s) /\ k \in 1 .. Len(s) + Len(t) /\ s[k] = [version |-> v, whole |-> TRUE]
    BY <1>1, <1>4 DEF Among
  <2>2. st[k] = s[k]
    BY <1>1, <2>1
  <2> QED BY <1>1, <2>1, <2>2 DEF Among
<1>5. ASSUME NEW j \in Among(v, t) PROVE Len(s) + j \in Among(v, st)
  <2>1. j \in 1 .. Len(t) /\ t[j] = [version |-> v, whole |-> TRUE]
    BY <1>1, <1>5 DEF Among
  <2>2. /\ Len(s) + j \in 1 .. Len(s) + Len(t) /\ ~(Len(s) + j <= Len(s))
        /\ (Len(s) + j) - Len(s) = j
    BY <1>1, <2>1
  <2>3. st[Len(s) + j] = t[(Len(s) + j) - Len(s)]
    BY <1>1, <2>2
  <2> QED BY <1>1, <2>1, <2>2, <2>3 DEF Among
<1> QED BY <1>2, <1>3, <1>4, <1>5 DEF st

LEMMA NoneAmongNone == \A v : Among(v, <<>>) = {}
BY DEF Among
LEMMA OneAmongOne ==
  ASSUME NEW v, NEW w, NEW whole \in BOOLEAN
  PROVE  Among(w, OneOf(v, whole)) = IF w = v /\ whole THEN {1} ELSE {}
<1>1. DOMAIN OneOf(v, whole) = {1} /\ OneOf(v, whole)[1] = [version |-> v, whole |-> whole]
  BY DEF OneOf
<1>2. [version |-> v, whole |-> whole] = [version |-> w, whole |-> TRUE] <=> w = v /\ whole
  OBVIOUS
<1> QED BY <1>1, <1>2 DEF Among
LEMMA AmongOneOrNone ==
  ASSUME NEW v, NEW w, NEW folder, OneOrNone(v, folder)
  PROVE  Among(w, folder) \subseteq {1} /\ (w # v => Among(w, folder) = {})
BY NoneAmongNone, OneAmongOne DEF OneOrNone

(* Copies that are moved together, each behind what is there, stay as many.  *)
MovesBehind(R, K, p, v, S, q, u, m, T) ==
  /\ K \subseteq Nat /\ m \in Nat
  /\ S = R \cup {<<p, v, k>> : k \in K}
  /\ T = R \cup {<<q, u, m + k>> : k \in K}
  /\ \A k \in K : <<p, v, k>> \notin R /\ <<q, u, m + k>> \notin R
LEMMA MovedTogether ==
  ASSUME NEW R, NEW K, NEW p, NEW v, NEW S, NEW q, NEW u, NEW m, NEW T,
         MovesBehind(R, K, p, v, S, q, u, m, T), IsFiniteSet(S)
  PROVE  IsFiniteSet(T) /\ Cardinality(T) >= Cardinality(S)
<1> USE DEF MovesBehind
<1> DEFINE f == [x \in S |-> IF x \in R THEN x ELSE <<q, u, m + x[3]>>]
<1>1. \A x \in S : x \in R \/ (x \notin R /\ \E k \in K : x = <<p, v, k>> /\ x[3] = k)
  <2>1. \A k \in K : <<p, v, k>>[3] = k
    OBVIOUS
  <2>2. \A x \in S : x \in R \/ \E k \in K : x = <<p, v, k>>
    OBVIOUS
  <2> QED BY <2>1, <2>2
<1>2. \A x \in S : f[x] = IF x \in R THEN x ELSE <<q, u, m + x[3]>>
  OBVIOUS
<1> HIDE DEF f
<1>3. \A x \in S : f[x] \in T
  BY <1>1, <1>2
<1>4. f \in [S -> T]
  BY <1>3 DEF f
<1>5. ASSUME NEW x \in S, NEW y \in S, f[x] = f[y] PROVE x = y
  <2>1. CASE x \in R /\ y \in R
    BY <1>2, <1>5, <2>1
  <2>2. CASE x \in R /\ y \notin R
    BY <1>1, <1>2, <1>5, <2>2
  <2>3. CASE x \notin R /\ y \in R
    BY <1>1, <1>2, <1>5, <2>3
  <2>4. CASE x \notin R /\ y \notin R
    <3>1. PICK k \in K : x = <<p, v, k>> /\ x[3] = k
      BY <1>1, <2>4
    <3>2. PICK j \in K : y = <<p, v, j>> /\ y[3] = j
      BY <1>1, <2>4
    <3>3. <<q, u, m + k>> = <<q, u, m + j>>
      BY <1>2, <1>5, <2>4, <3>1, <3>2
    <3>4. m + k = m + j /\ k \in Nat /\ j \in Nat
      BY <3>3
    <3>5. k = j
      BY <3>4
    <3> QED BY <3>1, <3>2, <3>5
  <2> QED BY <2>1, <2>2, <2>3, <2>4
<1>6. ASSUME NEW z \in T PROVE \E x \in S : f[x] = z
  <2>1. CASE z \in R
    <3>1. z \in S /\ f[z] = z
      BY <1>2, <2>1
    <3> QED BY <3>1
  <2>2. CASE z \notin R
    <3>1. PICK k \in K : z = <<q, u, m + k>>
      BY <2>2
    <3>2. <<p, v, k>> \in S /\ <<p, v, k>> \notin R /\ <<p, v, k>>[3] = k
      OBVIOUS
    <3>3. f[<<p, v, k>>] = z
      BY <1>2, <3>1, <3>2
    <3> QED BY <3>2, <3>3
  <2> QED BY <2>1, <2>2
<1>7. ExistsBijection(S, T)
  <2>1. f \in Bijection(S, T)
    BY <1>4, <1>5, <1>6, Fun_IsBij
  <2> QED BY <2>1 DEF ExistsBijection
<1> QED BY <1>7, FS_Bijection, FS_CardinalityType

(* Where nothing is moved or extracted.                                      *)
LEMMA StillCopies ==
  ASSUME UNCHANGED <<toolchain, toolchains, release>>, NEW v PROVE Copies(v)' = Copies(v)
<1>1. \A x : x \in Copies(v)' <=> x \in Copies(v)
  BY CopiesByFolder, CopiesByFolderLater
<1>2. Copies(v)' = {x \in Copies(v)' : TRUE} /\ Copies(v) = {x \in Copies(v) : TRUE}
  OBVIOUS
<1> QED BY <1>1

Kept(v) == IsFiniteSet(Copies(v)') /\ Cardinality(Copies(v)') >= Cardinality(Copies(v))
Stays(v) == IF WritesOver(v) THEN Copies(v) \ {<<"release", v, 1>>} \subseteq Copies(v)'
            ELSE Cardinality(Copies(v)') >= Cardinality(Copies(v))

LEMMA PutAwayKeeps ==
  ASSUME ControlTypes, FolderTypes, PlacesFree, PutAway,
         NEW v \in Version, IsFiniteSet(Copies(v))
  PROVE  Kept(v)
<1> DEFINE sv == swift_version
<1>1. CASE UNCHANGED <<toolchain, toolchains>>
  <2>1. Copies(v)' = Copies(v)
    BY <1>1, StillCopies DEF PutAway
  <2> QED BY <2>1, FS_CardinalityType DEF Kept
<1>2. CASE /\ toolchains' = [toolchains EXCEPT ![sv] = @ \o toolchain]
           /\ toolchain' = <<>>
  <2> DEFINE old == toolchains[sv]
  <2> DEFINE m == Len(old)
  <2> DEFINE K == Among(v, toolchain)
  <2> DEFINE A == {<<"toolchain", v, k>> : k \in K}
  <2> DEFINE B == {<<"toolchains", sv, m + k>> : k \in K}
  <2> DEFINE R == Copies(v) \ A
  <2>1. sv \in Version /\ release' = release
    BY DEF PlacesFree, PutAway
  <2>2. \A w \in Version :
          toolchains'[w] = IF w = sv THEN old \o toolchain ELSE toolchains[w]
    BY <1>2, <2>1 DEF FolderTypes
  <2>3. /\ old \in Seq(Toolchain) /\ toolchain \in Seq(Toolchain) /\ m \in Nat
    BY <2>1, LenProperties DEF FolderTypes
  <2>4. /\ \A k \in Among(v, old) : k \in Nat /\ k >= 1 /\ k <= m
        /\ \A k \in K : k \in Nat /\ k >= 1
        /\ \A k : k \in Among(v, old \o toolchain) <=>
             k \in Among(v, old) \/ \E j \in K : k = m + j
    BY SMTT(30), <2>3, AmongMoved
  <2>5. Copies(v) = R \cup A
    <3>1. \A x \in A : x \in Copies(v)
      BY CopiesByFolder
    <3> QED BY <3>1
  <2>6. \A x : x \in R <=>
          \/ \E k \in Among(v, release[v]) : x = <<"release", v, k>>
          \/ \E w \in Version : \E k \in Among(v, toolchains[w]) : x = <<"toolchains", w, k>>
    <3>1. \A k \in Among(v, release[v]) : <<"release", v, k>> \notin A
      OBVIOUS
    <3>2. \A w \in Version : \A k \in Among(v, toolchains[w]) : <<"toolchains", w, k>> \notin A
      OBVIOUS
    <3> HIDE DEF A
    <3> DEFINE InA(x) == \E k \in K : x = <<"toolchain", v, k>>
    <3>3. \A x : x \in A <=> InA(x)
      BY DEF A
    <3> QED BY <3>1, <3>2, <3>3, CopiesByFolder
  <2>7. Copies(v)' = R \cup B
    <3>1. \A x : x \in Copies(v)' <=>
            \/ \E k \in Among(v, release[v]) : x = <<"release", v, k>>
            \/ \E w \in Version : \E k \in Among(v, toolchains'[w]) : x = <<"toolchains", w, k>>
      BY <1>2, <2>1, CopiesByFolderLater, NoneAmongNone
    <3>2. \A x : (\E w \in Version : \E k \in Among(v, toolchains'[w]) : x = <<"toolchains", w, k>>)
            <=> \/ \E w \in Version : \E k \in Among(v, toolchains[w]) : x = <<"toolchains", w, k>>
                \/ \E k \in K : x = <<"toolchains", sv, m + k>>
      <4> HIDE DEF old, K, m
      <4>1. Among(v, toolchains'[sv]) = Among(v, old \o toolchain) /\ Among(v, toolchains[sv]) = Among(v, old)
        BY <2>1, <2>2 DEF old
      <4>2. \A w \in Version \ {sv} : Among(v, toolchains'[w]) = Among(v, toolchains[w])
        BY <2>2
      <4> QED BY <2>1, <2>4, <4>1, <4>2
    <3> HIDE DEF R
    <3>3. \A x : x \in B <=> \E k \in K : x = <<"toolchains", sv, m + k>>
      OBVIOUS
    <3> HIDE DEF B
    <3>4. \A x : x \in Copies(v)' <=> x \in R \/ x \in B
      BY <2>6, <3>1, <3>2, <3>3
    <3> QED BY <3>4
  <2>8. \A k \in K : <<"toolchain", v, k>> \notin R /\ <<"toolchains", sv, m + k>> \notin R
    <3>1. ASSUME NEW k \in K PROVE <<"toolchains", sv, m + k>> \notin R
      <4>1. SUFFICES ASSUME <<"toolchains", sv, m + k>> \in R PROVE FALSE
        OBVIOUS
      <4>2. PICK w \in Version :
              \E j \in Among(v, toolchains[w]) :
                <<"toolchains", sv, m + k>> = <<"toolchains", w, j>>
        <5> HIDE DEF R
        <5> QED BY <2>6, <4>1
      <4>3. PICK j \in Among(v, toolchains[w]) :
              <<"toolchains", sv, m + k>> = <<"toolchains", w, j>>
        BY <4>2
      <4>4. w = sv /\ j = m + k /\ j \in Among(v, old)
        BY <4>3
      <4> HIDE DEF m, K
      <4>5. j \in Nat /\ j <= m /\ k \in Nat /\ k >= 1
        BY <2>4, <4>4
      <4> QED BY <2>3, <4>4, <4>5
    <3> QED BY <3>1
  <2>9. K \subseteq Nat
    BY <2>4
  <2> DEFINE S == Copies(v)
  <2> DEFINE T == Copies(v)'
  <2> HIDE DEF R, m, K
  <2>10. MovesBehind(R, K, "toolchain", v, Copies(v), "toolchains", sv, m, Copies(v)')
    BY <2>3, <2>5, <2>7, <2>8, <2>9 DEF MovesBehind
  <2> QED BY <2>10, MovedTogether DEF Kept
<1> QED BY <1>1, <1>2 DEF PutAway

LEMMA TakeOutKeeps ==
  ASSUME ControlTypes, FolderTypes, TakeOut, NEW v \in Version, IsFiniteSet(Copies(v))
  PROVE  Kept(v)
<1>1. CASE UNCHANGED <<toolchain, toolchains>>
  <2>1. Copies(v)' = Copies(v)
    BY <1>1, StillCopies DEF TakeOut
  <2> QED BY <2>1, FS_CardinalityType DEF Kept
<1>2. CASE /\ toolchain' = toolchain \o toolchains[version]
           /\ toolchains' = [toolchains EXCEPT ![version] = <<>>]
  <2> DEFINE new == toolchains[version]
  <2> DEFINE m == Len(toolchain)
  <2> DEFINE K == Among(v, new)
  <2> DEFINE A == {<<"toolchains", version, k>> : k \in K}
  <2> DEFINE B == {<<"toolchain", v, m + k>> : k \in K}
  <2> DEFINE R == Copies(v) \ A
  <2>1. version \in Version /\ release' = release
    BY DEF ControlTypes, TakeOut
  <2>2. \A w \in Version : toolchains'[w] = IF w = version THEN <<>> ELSE toolchains[w]
    BY <1>2, <2>1 DEF FolderTypes
  <2>3. new \in Seq(Toolchain) /\ toolchain \in Seq(Toolchain) /\ m \in Nat
    BY <2>1, LenProperties DEF FolderTypes
  <2>4. /\ \A k \in Among(v, toolchain) : k \in Nat /\ k >= 1 /\ k <= m
        /\ \A k \in K : k \in Nat /\ k >= 1
        /\ \A k : k \in Among(v, toolchain \o new) <=>
             k \in Among(v, toolchain) \/ \E j \in K : k = m + j
    BY <2>3, AmongMoved
  <2>5. Copies(v) = R \cup A
    <3>1. \A x \in A : x \in Copies(v)
      BY <2>1, CopiesByFolder
    <3> QED BY <3>1
  <2>6. \A x : x \in A <=> \E k \in K : x = <<"toolchains", version, k>>
    OBVIOUS
  <2>7. \A x : x \in B <=> \E k \in K : x = <<"toolchain", v, m + k>>
    OBVIOUS
  <2>8. \A x : x \in R <=> x \in Copies(v) /\ x \notin A
    OBVIOUS
  <2>9. \A x : x \in R <=>
          \/ \E k \in Among(v, toolchain) : x = <<"toolchain", v, k>>
          \/ \E k \in Among(v, release[v]) : x = <<"release", v, k>>
          \/ \E w \in Version \ {version} :
               \E k \in Among(v, toolchains[w]) : x = <<"toolchains", w, k>>
    <3> DEFINE InPlace(x) == \E k \in Among(v, toolchain) : x = <<"toolchain", v, k>>
    <3> DEFINE Released(x) == \E k \in Among(v, release[v]) : x = <<"release", v, k>>
    <3> DEFINE Away(w, x) == \E k \in Among(v, toolchains[w]) : x = <<"toolchains", w, k>>
    <3>1. \A x : x \in A <=> Away(version, x)
      BY <2>6
    <3>2. \A x : InPlace(x) \/ Released(x) => ~Away(version, x)
      OBVIOUS
    <3>3. \A w \in Version \ {version} : \A x : Away(w, x) => ~Away(version, x)
      OBVIOUS
    <3>4. \A x : x \in Copies(v) <=>
                   InPlace(x) \/ Released(x) \/ \E w \in Version : Away(w, x)
      BY CopiesByFolder
    <3> HIDE DEF R, A, InPlace, Released, Away
    <3>5. \A x : x \in R <=>
            InPlace(x) \/ Released(x) \/ \E w \in Version \ {version} : Away(w, x)
      BY <2>1, <2>8, <3>1, <3>2, <3>3, <3>4
    <3> QED BY <3>5 DEF InPlace, Released, Away
  <2>10. Copies(v)' = R \cup B
    <3>1. \A x : x \in Copies(v)' <=>
            \/ \E k \in Among(v, toolchain \o new) : x = <<"toolchain", v, k>>
            \/ \E k \in Among(v, release[v]) : x = <<"release", v, k>>
            \/ \E w \in Version \ {version} :
                 \E k \in Among(v, toolchains[w]) : x = <<"toolchains", w, k>>
      <4>1. Among(v, toolchains'[version]) = {}
        BY <2>1, <2>2, NoneAmongNone
      <4>2. \A w \in Version \ {version} : Among(v, toolchains'[w]) = Among(v, toolchains[w])
        BY <2>2
      <4>3. \A x : (\E w \in Version :
                      \E k \in Among(v, toolchains'[w]) : x = <<"toolchains", w, k>>)
              <=> \E w \in Version \ {version} :
                    \E k \in Among(v, toolchains[w]) : x = <<"toolchains", w, k>>
        BY <4>1, <4>2
      <4>4. toolchain' = toolchain \o new /\ release' = release
        BY <1>2, <2>1
      <4> HIDE DEF new
      <4> QED BY <4>3, <4>4, CopiesByFolderLater
    <3>2. \A x : (\E k \in Among(v, toolchain \o new) : x = <<"toolchain", v, k>>)
            <=> \/ \E k \in Among(v, toolchain) : x = <<"toolchain", v, k>>
                \/ \E k \in K : x = <<"toolchain", v, m + k>>
      <4> HIDE DEF new, K, m
      <4> QED BY <2>4
    <3> HIDE DEF R, B, K, m, new
    <3>3. \A x : x \in Copies(v)' <=> x \in R \/ x \in B
      BY <2>7, <2>9, <3>1, <3>2
    <3> QED BY <3>3
  <2>11. ASSUME NEW k \in K PROVE <<"toolchain", v, m + k>> \notin R
    <3>1. SUFFICES ASSUME <<"toolchain", v, m + k>> \in R PROVE FALSE
      OBVIOUS
    <3>2. PICK j \in Among(v, toolchain) : <<"toolchain", v, m + k>> = <<"toolchain", v, j>>
      <4> HIDE DEF R
      <4> QED BY <2>9, <3>1
    <3>3. j = m + k
      BY <3>2
    <3> HIDE DEF m, K
    <3>4. j \in Nat /\ j <= m /\ k \in Nat /\ k >= 1
      BY <2>4
    <3> QED BY <2>3, <3>3, <3>4
  <2>12. K \subseteq Nat
    BY <2>4
  <2>13. \A k \in K : <<"toolchains", version, k>> \notin R
    BY <2>6, <2>8
  <2> HIDE DEF R, m, K
  <2>14. MovesBehind(R, K, "toolchains", version, Copies(v), "toolchain", v, m, Copies(v)')
    BY <2>3, <2>5, <2>10, <2>11, <2>12, <2>13 DEF MovesBehind
  <2> QED BY <2>14, MovedTogether DEF Kept
<1> QED BY <1>1, <1>2 DEF TakeOut

LEMMA MoveToolchainKeeps ==
  ASSUME ControlTypes, FolderTypes, PlacesFree, MoveToolchain,
         NEW v \in Version, IsFiniteSet(Copies(v))
  PROVE  Kept(v)
<1>1. /\ version \in Version /\ toolchain = <<>> /\ toolchains' = toolchains
      /\ toolchain' = release[version] /\ release' = [release EXCEPT ![version] = <<>>]
  BY DEF ControlTypes, PlacesFree, MoveToolchain
<1>2. \A w \in Version : release'[w] = IF w = version THEN <<>> ELSE release[w]
  BY <1>1 DEF FolderTypes
<1>3. /\ Among(v, release[version]) \subseteq {1}
      /\ version # v => Among(v, release[version]) = {}
  BY <1>1, AmongOneOrNone DEF PlacesFree
<1>4. Among(v, toolchain) = {}
  BY <1>1, NoneAmongNone
<1> DEFINE Away(x) == \E w \in Version : \E k \in Among(v, toolchains[w]) : x = <<"toolchains", w, k>>
<1>5. \A x : x \in Copies(v) <=> Away(x) \/ \E k \in Among(v, release[v]) : x = <<"release", v, k>>
  BY <1>4, CopiesByFolder
<1>6. CASE v # version
  <2>1. Among(v, toolchain') = {} /\ release'[v] = release[v] /\ toolchains' = toolchains
    BY <1>1, <1>2, <1>3, <1>6
  <2>2. \A x : x \in Copies(v)' <=>
                 Away(x) \/ \E k \in Among(v, release[v]) : x = <<"release", v, k>>
    BY <2>1, CopiesByFolderLater
  <2> HIDE DEF Away
  <2>3. Copies(v)' = Copies(v)
    <3>1. \A x : x \in Copies(v)' <=> x \in Copies(v)
      BY <1>5, <2>2
    <3> QED BY <3>1, StillCopies
  <2> QED BY <2>3, FS_CardinalityType DEF Kept
<1>7. CASE v = version
  <2> DEFINE K == Among(v, release[v])
  <2> DEFINE A == {<<"release", v, k>> : k \in K}
  <2> DEFINE B == {<<"toolchain", v, 0 + k>> : k \in K}
  <2> DEFINE R == {x \in Copies(v) : Away(x)}
  <2>1. K \subseteq Nat
    BY <1>3, <1>7
  <2>2. \A x : x \in A <=> \E k \in K : x = <<"release", v, k>>
    OBVIOUS
  <2>3. \A x : x \in B <=> \E k \in K : x = <<"toolchain", v, k>>
    <3>1. \A k \in K : 0 + k = k
      BY <2>1
    <3> QED BY <3>1
  <2>4. \A x : x \in Copies(v)' <=> Away(x) \/ \E k \in K : x = <<"toolchain", v, k>>
    <3>1. Among(v, toolchain') = K /\ Among(v, release'[v]) = {} /\ toolchains' = toolchains
      BY <1>1, <1>2, <1>7, NoneAmongNone
    <3> HIDE DEF K
    <3> QED BY <3>1, CopiesByFolderLater
  <2>5. \A k \in K : ~Away(<<"release", v, k>>) /\ ~Away(<<"toolchain", v, 0 + k>>)
    OBVIOUS
  <2> HIDE DEF Away, A, B
  <2>6. Copies(v) = R \cup A
    <3>1. \A x : x \in Copies(v) <=> x \in R \/ x \in A
      BY <1>5, <2>2
    <3> QED BY <3>1
  <2>7. Copies(v)' = R \cup B
    <3>1. \A x : x \in R <=> Away(x)
      BY <1>5
    <3>2. \A x : x \in Copies(v)' <=> x \in R \/ x \in B
      BY <2>3, <2>4, <3>1
    <3> HIDE DEF R
    <3> QED BY <3>2
  <2>8. \A k \in K : <<"release", v, k>> \notin R /\ <<"toolchain", v, 0 + k>> \notin R
    BY <2>5
  <2> HIDE DEF R, K
  <2>9. MovesBehind(R, K, "release", v, Copies(v), "toolchain", v, 0, Copies(v)')
    BY <2>1, <2>6, <2>7, <2>8 DEF MovesBehind, A, B
  <2> QED BY <2>9, MovedTogether DEF Kept
<1> QED BY <1>6, <1>7

(* What is extracted is new, is there again, or is what tar writes over.     *)
LEMMA ExtractKeeps ==
  ASSUME FolderTypes, PlacesFree, NEW u \in Version, Extract(u),
         NEW v \in Version, IsFiniteSet(Copies(v))
  PROVE  IsFiniteSet(Copies(v)') /\ Stays(v)
<1> DEFINE New == <<"release", v, 1>>
<1>1. toolchain' = toolchain /\ toolchains' = toolchains
  BY DEF Extract
<1>2. Among(v, release[v]) \subseteq {1} /\ Among(v, release'[v]) \subseteq {1}
  <2>1. Among(v, release[v]) \subseteq {1}
    BY AmongOneOrNone DEF PlacesFree
  <2>2. release'[v] = release[v] \/ OneOrNone(v, release'[v])
    <3>1. CASE v # u
      BY <3>1 DEF Extract, Extracted, FolderTypes
    <3>2. CASE v = u
      <4>1. PICK whole \in BOOLEAN : release' = Extracted(v, whole)
        BY <3>2 DEF Extract
      <4> QED BY <4>1 DEF Extracted, FolderTypes, OneOf, OneOrNone
    <3> QED BY <3>1, <3>2
  <2> QED BY <2>1, <2>2, AmongOneOrNone
<1>3. /\ \A x : x \in Copies(v)' => x \in Copies(v) \/ x = New
      /\ \A x : x \in Copies(v) => x \in Copies(v)' \/ x = New
  BY <1>1, <1>2, CopiesByFolder, CopiesByFolderLater
<1>4. CASE Among(v, release[v]) \subseteq Among(v, release'[v])
  <2>1. \A x : x \in Copies(v) => x \in Copies(v)'
    BY <1>1, <1>4, CopiesByFolder, CopiesByFolderLater
  <2> HIDE DEF New
  <2>2. Copies(v)' = Copies(v) \/ Copies(v)' = Copies(v) \cup {New}
    BY <1>3, <2>1
  <2>3. Kept(v)
    <3>1. CASE Copies(v)' = Copies(v)
      BY <3>1, FS_CardinalityType DEF Kept
    <3>2. CASE Copies(v)' = Copies(v) \cup {New}
      <4>1. /\ IsFiniteSet(Copies(v) \cup {New})
            /\ \/ Cardinality(Copies(v) \cup {New}) = Cardinality(Copies(v))
               \/ Cardinality(Copies(v) \cup {New}) = Cardinality(Copies(v)) + 1
        BY FS_AddElement
      <4>2. Cardinality(Copies(v)) \in Nat
        BY FS_CardinalityType
      <4> QED BY <3>2, <4>1, <4>2 DEF Kept
    <3> QED BY <2>2, <3>1, <3>2
  <2>4. Copies(v) \ {New} \subseteq Copies(v)'
    BY <2>1
  <2> QED BY <2>3, <2>4 DEF Kept, Stays, New
<1>5. CASE ~(Among(v, release[v]) \subseteq Among(v, release'[v]))
  <2>1. v = u /\ release[v] # <<>>
    <3>1. CASE v # u
      BY <1>5, <3>1 DEF Extract, Extracted, FolderTypes
    <3>2. CASE release[v] = <<>>
      BY <1>5, <3>2, NoneAmongNone
    <3> QED BY <3>1, <3>2
  <2>2. tar[v] # "moved"
    BY <2>1 DEF PlacesFree
  <2>3. ~(tar[v] = "extracting" /\ release' = Extracted(v, TRUE))
    <3>1. ASSUME release' = Extracted(v, TRUE) PROVE FALSE
      <4>1. release'[v] = OneOf(v, TRUE)
        BY <3>1 DEF Extracted, FolderTypes, OneOf
      <4>2. Among(v, release'[v]) = {1}
        BY <4>1, OneAmongOne
      <4> QED BY <1>2, <1>5, <4>2
    <3> QED BY <3>1
  <2>4. WritesOver(v)
    BY <2>1, <2>2, <2>3 DEF Extract, WritesOver, FolderTypes
  <2>5. IsFiniteSet(Copies(v)') /\ Copies(v) \ {New} \subseteq Copies(v)'
    <3> HIDE DEF New
    <3>1. Copies(v)' \subseteq Copies(v) \cup {New}
      BY <1>3
    <3>2. IsFiniteSet(Copies(v) \cup {New})
      BY FS_AddElement
    <3> QED BY <1>3, <3>1, <3>2, FS_Subset
  <2> QED BY <2>4, <2>5 DEF Stays
<1> QED BY <1>4, <1>5

LEMMA StepKeeps ==
  ASSUME ControlTypes, FolderTypes, PlacesFree, Countable, [Next]_vars, NEW v \in Version
  PROVE  IsFiniteSet(Copies(v)') /\ Stays(v)
<1>1. IsFiniteSet(Copies(v))
  BY DEF Countable
<1>2. CASE UNCHANGED <<toolchain, toolchains, release>>
  <2>1. Copies(v)' = Copies(v)
    BY <1>2, StillCopies
  <2> QED BY <1>1, <2>1, FS_CardinalityType DEF Stays
<1>3. CASE PutAway
  <2>1. Kept(v) BY <1>1, <1>3, PutAwayKeeps
  <2>2. ~WritesOver(v) BY <1>3 DEF PutAway, WritesOver
  <2> QED BY <2>1, <2>2 DEF Kept, Stays
<1>4. CASE TakeOut
  <2>1. Kept(v) BY <1>1, <1>4, TakeOutKeeps
  <2>2. ~WritesOver(v) BY <1>4 DEF TakeOut, WritesOver
  <2> QED BY <2>1, <2>2 DEF Kept, Stays
<1>5. CASE MoveToolchain
  <2>1. Kept(v) BY <1>1, <1>5, MoveToolchainKeeps
  <2>2. ~WritesOver(v) BY <1>5 DEF MoveToolchain, WritesOver, FolderTypes
  <2> QED BY <2>1, <2>2 DEF Kept, Stays
<1>6. CASE \E u \in Version : Extract(u)
  BY <1>1, <1>6, ExtractKeeps
<1>7. UNCHANGED <<toolchain, toolchains, release>> \/ PutAway \/ TakeOut \/ MoveToolchain
        \/ \E u \in Version : Extract(u)
  <2> USE DEF folderVars
  <2>1. CASE Start \/ BreakOff \/ MakeFolder BY <2>1 DEF Start, BreakOff, MakeFolder
  <2>2. CASE CompareVersions \/ RecordVersion \/ CheckToolchain
    BY <2>2 DEF CompareVersions, RecordVersion, CheckToolchain
  <2>3. CASE StartDownload \/ Clone \/ RecordClone BY <2>3 DEF StartDownload, Clone,
                                                      RecordClone
  <2>4. CASE CompileLLDB \/ RecordLLDB BY <2>4 DEF CompileLLDB, RecordLLDB
  <2>5. CASE RemoveKernel \/ CompileKernel BY <2>5 DEF RemoveKernel, CompileKernel
  <2>6. CASE RecordKernel \/ Register BY <2>6 DEF RecordKernel, Register
  <2>7. CASE \E u \in Version : DownloadFails(u) BY <2>7 DEF DownloadFails
  <2>8. CASE UNCHANGED vars BY <2>8 DEF vars
  <2> QED BY <2>1, <2>2, <2>3, <2>4, <2>5, <2>6, <2>7, <2>8 DEF Next, Step
<1> QED BY <1>2, <1>3, <1>4, <1>5, <1>6, <1>7

(* A toolchain that was downloaded is not lost, but for the one that a run   *)
(* broken off before the move (install_swift.sh:112) has left in its release *)
(* folder, over which the next download of it is extracted (line 100): the   *)
(* others are moved, put away or buried (lines 55, 56 and 60).               *)
THEOREM ToolchainsStay == Spec => ToolchainsAreKept
<1> DEFINE All == ControlTypes /\ FolderTypes /\ PlacesFree /\ Countable
<1> DEFINE Kind == \A v \in Version : Stays(v)
<1>1. Init => All
  <2> SUFFICES ASSUME Init PROVE PlacesFree /\ Countable
    BY InitEstablishes
  <2>1. PlacesFree
    BY DEF Init, PlacesFree, OneOrNone
  <2>2. ASSUME NEW v \in Version PROVE Copies(v) = {}
    <3>1. /\ Among(v, toolchain) = {} /\ Among(v, release[v]) = {}
          /\ \A w \in Version : Among(v, toolchains[w]) = {}
      BY NoneAmongNone DEF Init
    <3>2. \A x : x \notin Copies(v)
      BY <3>1, CopiesByFolder
    <3> QED BY <3>2
  <2> QED BY <2>1, <2>2, FS_EmptySet DEF Countable
<1>2. All /\ [Next]_vars => All'
  <2> SUFFICES ASSUME All, [Next]_vars PROVE All'
    OBVIOUS
  <2>1. Countable'
    BY StepKeeps DEF Countable
  <2> QED BY <2>1, ControlInductive, TypesInductive, PlacesFreeInductive
<1>3. All /\ [Next]_vars => [Kind]_vars
  BY StepKeeps
<1>4. Spec => [][Kind]_vars
  BY <1>1, <1>2, <1>3, PTL DEF Spec
<1> QED BY <1>4 DEF ToolchainsAreKept, Stays
=============================================================================
