---------------------------- MODULE InstallScript ----------------------------
(* install_swift.sh: the toolchain in /opt/swift, those put away in          *)
(* toolchains/, the libraries compiled with them, and the files of progress/ *)
(* that say what need not be done again.                                     *)
(*                                                                           *)
(* The script has no error handling: a command that fails is followed by the *)
(* next one.  It may be broken off between any two steps, and be run again   *)
(* for the same version or for another.  Its download goes on in the         *)
(* background.                                                               *)
(*                                                                           *)
(* A folder is the sequence of the toolchains in it, the one at its root     *)
(* first: mv puts a folder into one that exists, unless the name is taken.   *)
(* The names in a folder are not kept: with one toolchain in it any name is  *)
(* free, with more this is left open.                                        *)
EXTENDS Naturals, Sequences, FiniteSets

CONSTANTS
  Version,       \* what the script is asked to install
  None,
  MaxRuns,       \* bound on the runs of the script
  MaxBreaks,     \* bound on the runs that are broken off
  Faults         \* whether downloads and clones may fail, or be late

ASSUME BoundsAssumption ==
  MaxRuns \in Nat /\ MaxBreaks \in Nat /\ Faults \in BOOLEAN /\ None \notin Version

Layout == <<"/opt/swift", "internal-modules", "lib", "progress", "toolchains">>
Toolchain == [version : Version, whole : BOOLEAN]

VARIABLES
  (* the script *)
  pc, version, using_cached_swift,
  (* folders: how many of Layout, and <<>> for a folder that is not there *)
  made, toolchain, toolchains, release,
  tar,           \* per version, the background job: none, started, extracting or moved
  cloned,        \* swift-colab is there
  lldb, jupyterkernel,     \* the libraries: None, or the toolchain they are compiled with
  links,         \* the libraries that lib/ has links to
  (* progress/ *)
  swift_version, downloaded, lldb_compiler, jupyterkernel_compiler, registered,
  (* history *)
  runs, breaks,
  unfinished,    \* the version of the last run, if it was broken off
  disturbed,     \* something happened that running the script again does not mend
  downloads      \* number of downloads per version

scriptVars   == <<pc, version, using_cached_swift>>
folderVars   == <<made, toolchain, toolchains, release>>
libraryVars  == <<lldb, jupyterkernel, links>>
progressVars == <<swift_version, downloaded, lldb_compiler, jupyterkernel_compiler,
                  registered>>
historyVars  == <<runs, breaks, unfinished, disturbed, downloads>>
vars == <<scriptVars, folderVars, tar, cloned, libraryVars, progressVars, historyVars>>

Init ==
  /\ pc = "start" /\ version = None /\ using_cached_swift = FALSE
  /\ made = 0 /\ toolchain = <<>> /\ toolchains = [v \in Version |-> <<>>]
  /\ release = [v \in Version |-> <<>>] /\ tar = [v \in Version |-> "none"]
  /\ cloned = FALSE /\ lldb = None /\ jupyterkernel = None /\ links = {}
  /\ swift_version = None /\ downloaded = FALSE
  /\ lldb_compiler = None /\ jupyterkernel_compiler = None /\ registered = FALSE
  /\ runs = 0 /\ breaks = 0 /\ unfinished = None /\ disturbed = FALSE
  /\ downloads = [v \in Version |-> 0]

Ended == {"start", "finished", "exited", "brokenOff"}
NameIsFree(folder) == {TRUE, Len(folder) <= 1}
Folder(name) == \E k \in 1 .. made : Layout[k] = name

-----------------------------------------------------------------------------
(* A run begins, or is broken off.                                           *)

Start ==
  /\ pc \in Ended /\ runs < MaxRuns
  /\ runs' = runs + 1
  /\ version' \in Version
  /\ disturbed' = (disturbed \/ unfinished \notin {None, version'})
  /\ pc' = IF made = 0 THEN "layout" ELSE "compare"
  /\ using_cached_swift' = FALSE
  /\ UNCHANGED <<folderVars, tar, cloned, libraryVars, progressVars, breaks, unfinished,
                 downloads>>

BreakOff ==
  /\ pc \notin Ended /\ breaks < MaxBreaks
  /\ breaks' = breaks + 1
  /\ pc' = "brokenOff"
  /\ unfinished' = version
  /\ disturbed' = (disturbed \/ pc = "layout")
  /\ UNCHANGED <<version, using_cached_swift, folderVars, tar, cloned, libraryVars,
                 progressVars, runs, downloads>>

(* Lines 2-13: nothing is made when /opt/swift is there. *)
MakeFolder ==
  /\ pc = "layout"
  /\ made' = made + 1
  /\ pc' = IF made' = Len(Layout) THEN "compare" ELSE "layout"
  /\ UNCHANGED <<version, using_cached_swift, toolchain, toolchains, release, tar, cloned,
                 libraryVars, progressVars, historyVars>>

-----------------------------------------------------------------------------
(* Lines 48-74: which toolchain is used.                                     *)

CompareVersions ==
  /\ pc = "compare"
  /\ using_cached_swift' = (swift_version # None
                            /\ (version = swift_version \/ toolchains[version] # <<>>))
  /\ pc' = IF swift_version \in {None, version} THEN "check" ELSE "putAway"
  /\ UNCHANGED <<version, folderVars, tar, cloned, libraryVars, progressVars, historyVars>>

(* A mistake: the toolchain that is put away replaces what is there.         *)
PutAwayAndReplace ==
  /\ pc = "putAway"
  /\ toolchains' = [toolchains EXCEPT ![swift_version] = toolchain]
  /\ toolchain' = <<>>
  /\ pc' = IF using_cached_swift THEN "takeOut" ELSE "check"
  /\ UNCHANGED <<version, using_cached_swift, made, release, tar, cloned, libraryVars,
                 progressVars, historyVars>>

(* A mistake: the toolchain is put away under the new version.               *)
PutAwayAsNew ==
  /\ pc = "putAway"
  /\ IF Folder("toolchains") /\ toolchain # <<>> /\ Len(toolchains[version]) <= 1
       THEN /\ toolchains' = [toolchains EXCEPT ![version] = @ \o toolchain]
            /\ toolchain' = <<>>
       ELSE UNCHANGED <<toolchain, toolchains>>
  /\ pc' = IF using_cached_swift THEN "takeOut" ELSE "check"
  /\ UNCHANGED <<version, using_cached_swift, made, release, tar, cloned, libraryVars,
                 progressVars, historyVars>>

(* mv "toolchain" "toolchains/$old_version" *)
PutAway ==
  /\ pc = "putAway"
  /\ \E free \in NameIsFree(toolchains[swift_version]) :
       IF Folder("toolchains") /\ toolchain # <<>> /\ free
         THEN /\ toolchains' = [toolchains EXCEPT ![swift_version] = @ \o toolchain]
              /\ toolchain' = <<>>
         ELSE UNCHANGED <<toolchain, toolchains>>
  /\ pc' = IF using_cached_swift THEN "takeOut" ELSE "check"
  /\ UNCHANGED <<version, using_cached_swift, made, release, tar, cloned, libraryVars,
                 progressVars, historyVars>>

(* mv "toolchains/$version" "toolchain" *)
TakeOut ==
  /\ pc = "takeOut"
  /\ \E free \in NameIsFree(toolchain) :
       IF free
         THEN /\ toolchain' = toolchain \o toolchains[version]
              /\ toolchains' = [toolchains EXCEPT ![version] = <<>>]
         ELSE UNCHANGED <<toolchain, toolchains>>
  /\ pc' = "recordVersion"
  /\ UNCHANGED <<version, using_cached_swift, made, release, tar, cloned, libraryVars,
                 progressVars, historyVars>>

(* echo $version > "progress/swift-version", after a switch or a download    *)
RecordVersion ==
  /\ pc = "recordVersion"
  /\ swift_version' = IF Folder("progress") THEN version ELSE swift_version
  /\ pc' = IF using_cached_swift THEN "check" ELSE "clone"
  /\ UNCHANGED <<version, using_cached_swift, folderVars, tar, cloned, libraryVars,
                 downloaded, lldb_compiler, jupyterkernel_compiler, registered, historyVars>>

(* The two exits. *)
CheckToolchain ==
  /\ pc = "check"
  /\ pc' = IF using_cached_swift = (toolchain # <<>>)
             THEN IF using_cached_swift THEN "clone" ELSE "download"
             ELSE "exited"
  /\ UNCHANGED <<version, using_cached_swift, folderVars, tar, cloned, libraryVars,
                 progressVars, historyVars>>

-----------------------------------------------------------------------------
(* Lines 89-114: the download, in the background until it is done.  One of   *)
(* the same version that still runs since a run that was broken off writes   *)
(* the same files: the two count as one.                                     *)

StartDownload ==
  /\ pc = "download"
  /\ tar' = [tar EXCEPT ![version] = "started"]
  /\ downloads' = [downloads EXCEPT ![version] = @ + 1]
  /\ pc' = "move"
  /\ UNCHANGED <<version, using_cached_swift, folderVars, cloned, libraryVars, progressVars,
                 runs, breaks, unfinished, disturbed>>

Extracted(v, whole) == [release EXCEPT ![v] = <<[version |-> v, whole |-> whole]>>]

(* tar makes the folder, or writes over the files of one that is there,      *)
(* which is not whole until it ends; it makes the folder again when it was   *)
(* moved away.                                                               *)
Extract(v) ==
  /\ \/ /\ tar[v] = "started"
        /\ tar' = [tar EXCEPT ![v] = "extracting"]
        /\ release' = Extracted(v, FALSE)
     \/ tar[v] = "extracting" /\ tar' = [tar EXCEPT ![v] = "none"] /\ release' = Extracted(v, TRUE)
     \/ tar[v] = "moved" /\ tar' = [tar EXCEPT ![v] = "none"] /\ release' = Extracted(v, FALSE)
  /\ UNCHANGED <<scriptVars, made, toolchain, toolchains, cloned, libraryVars, progressVars,
                 historyVars>>

DownloadFails(v) ==
  /\ Faults /\ tar[v] # "none"
  /\ tar' = [tar EXCEPT ![v] = "none"]
  /\ disturbed' = TRUE
  /\ UNCHANGED <<scriptVars, folderVars, cloned, libraryVars, progressVars, runs, breaks,
                 unfinished, downloads>>

(* apt and the library that is made in between take their time; the move     *)
(* does not wait for the download.                                           *)
MoveToolchain ==
  /\ pc = "move"
  /\ tar[version] = "none" \/ Faults
  /\ toolchain' = release[version]
  /\ release' = [release EXCEPT ![version] = <<>>]
  /\ tar' = [tar EXCEPT ![version] = IF @ = "extracting" THEN "moved" ELSE @]
  /\ disturbed' = (disturbed \/ tar[version] # "none")
  /\ pc' = "recordVersion"
  /\ UNCHANGED <<version, using_cached_swift, made, toolchains, cloned, libraryVars,
                 progressVars, runs, breaks, unfinished, downloads>>

-----------------------------------------------------------------------------
(* Lines 121-143: the source, once; a clone that is there is removed, with   *)
(* the library that was compiled in it.                                      *)

Clone ==
  /\ pc = "clone"
  /\ IF downloaded
       THEN pc' = "compileLLDB" /\ UNCHANGED <<cloned, lldb, disturbed>>
       ELSE /\ pc' = "recordClone" /\ lldb' = None
            /\ cloned' \in {TRUE, ~Faults}
            /\ disturbed' = (disturbed \/ ~cloned')
  /\ UNCHANGED <<version, using_cached_swift, folderVars, tar, jupyterkernel, links,
                 progressVars, runs, breaks, unfinished, downloads>>

RecordClone ==
  /\ pc = "recordClone"
  /\ downloaded' = Folder("progress")
  /\ pc' = "compileLLDB"
  /\ UNCHANGED <<version, using_cached_swift, folderVars, tar, cloned, libraryVars,
                 swift_version, lldb_compiler, jupyterkernel_compiler, registered,
                 historyVars>>

-----------------------------------------------------------------------------
(* Lines 147-226: the libraries and the registration.                        *)

Usable == toolchain # <<>> /\ toolchain[1].whole
Linked(library) == IF Folder("lib") THEN links \cup {library} ELSE links

(* A mistake: a library that is there is not compiled again.                 *)
CompileOnce ==
  /\ pc = "compileLLDB"
  /\ IF lldb_compiler # None
       THEN pc' = "removeKernel" /\ UNCHANGED libraryVars
       ELSE /\ lldb' = IF Usable /\ cloned THEN toolchain[1].version ELSE lldb
            /\ links' = Linked("lldb") /\ UNCHANGED jupyterkernel
            /\ pc' = "recordLLDB"
  /\ UNCHANGED <<version, using_cached_swift, folderVars, tar, cloned, progressVars,
                 historyVars>>

CompileLLDB ==
  /\ pc = "compileLLDB"
  /\ IF lldb_compiler = version
       THEN pc' = "removeKernel" /\ UNCHANGED libraryVars
       ELSE /\ lldb' = IF Usable /\ cloned THEN toolchain[1].version ELSE lldb
            /\ links' = Linked("lldb") /\ UNCHANGED jupyterkernel
            /\ pc' = "recordLLDB"
  /\ UNCHANGED <<version, using_cached_swift, folderVars, tar, cloned, progressVars,
                 historyVars>>

RecordLLDB ==
  /\ pc = "recordLLDB"
  /\ lldb_compiler' = IF Folder("progress") THEN version ELSE lldb_compiler
  /\ pc' = "removeKernel"
  /\ UNCHANGED <<version, using_cached_swift, folderVars, tar, cloned, libraryVars,
                 swift_version, downloaded, jupyterkernel_compiler, registered, historyVars>>

RemoveKernel ==
  /\ pc = "removeKernel"
  /\ IF jupyterkernel_compiler = version
       THEN pc' = "register" /\ UNCHANGED jupyterkernel
       ELSE pc' = "compileKernel" /\ jupyterkernel' = None
  /\ UNCHANGED <<version, using_cached_swift, folderVars, tar, cloned, lldb, links,
                 progressVars, historyVars>>

CompileKernel ==
  /\ pc = "compileKernel"
  /\ jupyterkernel' = IF Usable /\ cloned /\ Folder("internal-modules")
                        THEN toolchain[1].version ELSE None
  /\ links' = Linked("jupyterkernel")
  /\ pc' = "recordKernel"
  /\ UNCHANGED <<version, using_cached_swift, folderVars, tar, cloned, lldb, progressVars,
                 historyVars>>

RecordKernel ==
  /\ pc = "recordKernel"
  /\ jupyterkernel_compiler' = IF Folder("progress") THEN version ELSE jupyterkernel_compiler
  /\ pc' = "register"
  /\ UNCHANGED <<version, using_cached_swift, folderVars, tar, cloned, libraryVars,
                 swift_version, downloaded, lldb_compiler, registered, historyVars>>

(* The library is loaded to register the kernel, and the registration is     *)
(* recorded.                                                                 *)
Register ==
  /\ pc = "register"
  /\ registered' = (registered \/ Folder("progress"))
  /\ pc' = "finished"
  /\ unfinished' = None
  /\ UNCHANGED <<version, using_cached_swift, folderVars, tar, cloned, libraryVars,
                 swift_version, downloaded, lldb_compiler, jupyterkernel_compiler,
                 runs, breaks, disturbed, downloads>>

-----------------------------------------------------------------------------
Step ==
  \/ MakeFolder \/ CompareVersions \/ PutAway \/ TakeOut \/ RecordVersion \/ CheckToolchain
  \/ StartDownload \/ MoveToolchain \/ Clone \/ RecordClone
  \/ CompileLLDB \/ RecordLLDB \/ RemoveKernel \/ CompileKernel \/ RecordKernel \/ Register

Next ==
  \/ Start \/ BreakOff \/ Step
  \/ \E v \in Version : Extract(v) \/ DownloadFails(v)

Spec == Init /\ [][Next]_vars

-----------------------------------------------------------------------------
(* Properties.                                                               *)

(* The types of the variables; at most one version is being downloaded       *)
(* unless a script was broken off or did not wait for it.                    *)
TypeOK ==
  /\ version \in Version \cup {None} /\ using_cached_swift \in BOOLEAN
  /\ made \in 0 .. Len(Layout) /\ toolchain \in Seq(Toolchain)
  /\ toolchains \in [Version -> Seq(Toolchain)] /\ release \in [Version -> Seq(Toolchain)]
  /\ tar \in [Version -> {"none", "started", "extracting", "moved"}]
  /\ lldb \in Version \cup {None} /\ jupyterkernel \in Version \cup {None}
  /\ swift_version \in Version \cup {None} /\ links \subseteq {"lldb", "jupyterkernel"}
  /\ breaks = 0 /\ ~disturbed =>
       \A v, w \in Version : tar[v] # "none" /\ tar[w] # "none" => v = w

(* A script that runs to its end leaves the version it was asked for, whole, *)
(* with both libraries compiled with it and linked - whatever was installed  *)
(* before, and also after runs that were broken off, provided that they were *)
(* run again for the same version and had made the folders; and provided     *)
(* that no download failed or was late, and no clone failed: all this is     *)
(* ~disturbed.  Without it the script ends without a toolchain, or with one  *)
(* that is not whole.                                                        *)
FinishedMeansInstalled ==
  pc = "finished" /\ ~disturbed =>
    /\ toolchain # <<>> /\ toolchain[1] = [version |-> version, whole |-> TRUE]
    /\ swift_version = version
    /\ lldb = version /\ jupyterkernel = version
    /\ links = {"lldb", "jupyterkernel"} /\ registered

(* The places where a whole toolchain of a version is.                       *)
Among(v, folder) == {k \in DOMAIN folder : folder[k] = [version |-> v, whole |-> TRUE]}
Copies(v) ==
  {<<"toolchain", v, k>> : k \in Among(v, toolchain)}
    \cup {<<"release", v, k>> : k \in Among(v, release[v])}
    \cup UNION {{<<"toolchains", w, k>> : k \in Among(v, toolchains[w])} : w \in Version}

(* A toolchain that was downloaded is kept, whatever is broken off, late or  *)
(* fails: moved, put away, or buried in another's folder.  The one that may  *)
(* be lost is the one in its release folder, where a run that was broken off *)
(* before the move has left it: tar writes over it when the next run begins  *)
(* the download again, and the others stay.                                  *)
WritesOver(v) == tar[v] = "started" /\ tar'[v] = "extracting"
ToolchainsAreKept ==
  [][\A v \in Version :
       IF WritesOver(v) THEN Copies(v) \ {<<"release", v, 1>>} \subseteq Copies(v)'
       ELSE Cardinality(Copies(v)') >= Cardinality(Copies(v))]_vars

(* As long as nothing is broken off and no download is late, no version is   *)
(* downloaded twice, however the versions alternate, and neither of the two  *)
(* exits is taken (install_swift.sh:67 and 72).                              *)
UndisturbedIsCached ==
  breaks = 0 /\ ~disturbed =>
    /\ \A v \in Version : downloads[v] <= 1
    /\ pc # "exited"

(* The invariant: the types, and a cache that is used.                       *)
ScriptInv == TypeOK /\ UndisturbedIsCached
=============================================================================
