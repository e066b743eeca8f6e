------------------------------ MODULE FileMenu ------------------------------
(***************************************************************************)
(* loader/loadermenu.cpp: choosing a file.  Fifteen entries of three menus     *)
(* open a device; the directories are shown in a menu of their own, whose      *)
(* entries of all devices share one array, fsDirParam.                         *)
(***************************************************************************)
EXTENDS Integers, Sequences

CONSTANTS
  Choices,       \* bound: pairs of a setting and a device that are tried
  MaxPath        \* MAX_PATH_LEN, in names

VARIABLES
  menu,          \* current menu; "list" is the fileMenu of listOf
  listOf,        \* the fsRootParam_t whose fileMenu was shown last
  fileName,      \* rootParam->fileName: the names after the device
  fsDirParam,    \* rootParam and directory of the entries in the array
  target,        \* configfile, kernelFilename and initrdFilename
  spinning,      \* the drive turns for the file system on the disc
  failed         \* history: a directory could not be opened since the last list

vars == <<menu, listOf, fileName, fsDirParam, target, spinning, failed>>

Devices == {"mass0:", "mc0:", "mc1:", "host:", "cdfs:"}

(* The fsRootParam_t of the three menus: the variable filled, the menu that    *)
(* shows the devices and the one to return to.                                 *)
ConfigRoots == {[target |-> "configfile", fs |-> d, menu |-> "config", mainMenu |-> "file"]
                 : d \in Devices}
KernelRoots == {[target |-> "kernelFilename", fs |-> d, menu |-> "linux", mainMenu |-> "advanced"]
                 : d \in Devices}
InitrdRoots == {[target |-> "initrdFilename", fs |-> d, menu |-> "initrd", mainMenu |-> "advanced"]
                 : d \in Devices}
Roots == {r \in ConfigRoots \cup KernelRoots \cup InitrdRoots : <<r.target, r.fs>> \in Choices}

(* The menus that lead there, by addSubMenu: each one's parent. *)
Parent == [boot |-> "none", advanced |-> "boot", file |-> "advanced", config |-> "file",
           linux |-> "advanced", initrd |-> "advanced"]
Fixed == DOMAIN Parent

(* What every device holds: two directories, one in the other, and in each a   *)
(* file "f" (external).                                                        *)
Directories == {<<>>, <<"d">>, <<"d", "e">>}
Names(dir, isRoot) == {"f"} \cup {n \in {"d", "e"} : Append(dir, n) \in Directories}
                      \cup (IF isRoot THEN {} ELSE {".."})
IsDirectory(n) == n # "f"

NoRoot == [target |-> "none", fs |-> "none", menu |-> "none", mainMenu |-> "none"]
NoEntries == [root |-> NoRoot, dir |-> <<>>, isRoot |-> TRUE]

-----------------------------------------------------------------------------
(* fsGenerateDirListMenu.  A directory that cannot be opened leaves the menu   *)
(* as it was.                                                                  *)
fsGenerateDirListMenu(r, path, isRoot) ==
  \/ /\ path \in Directories
     /\ menu' = "list" /\ listOf' = r
     /\ fsDirParam' = [root |-> r, dir |-> path, isRoot |-> isRoot]
     /\ spinning' = (spinning \/ r.fs = "cdfs:")
     /\ failed' = FALSE
  \/ /\ failed' = TRUE
     /\ UNCHANGED <<menu, listOf, fsDirParam, spinning>>

fsroot ==
  \E r \in Roots :
    /\ menu = r.menu
    /\ fileName' = [fileName EXCEPT ![r] = <<>>]
    /\ fsGenerateDirListMenu(r, <<>>, TRUE)
    /\ UNCHANGED target

TooLong(path) == Len(path) + 1 >= MaxPath
Shorter(path) == IF path = <<>> THEN <<>> ELSE SubSeq(path, 1, Len(path) - 1)

fsDir(r, name) ==
  /\ IsDirectory(name)
  /\ IF name # ".." /\ TooLong(fileName[r])
     THEN UNCHANGED vars
     ELSE LET path == IF name # ".." THEN Append(fileName[r], name) ELSE Shorter(fileName[r])
          IN /\ fileName' = [fileName EXCEPT ![r] = path]
             /\ fsGenerateDirListMenu(r, path, FALSE)
             /\ UNCHANGED target

fsFile(r, name) ==
  /\ ~IsDirectory(name)
  /\ IF TooLong(fileName[r])
     THEN UNCHANGED vars
     ELSE /\ fileName' = [fileName EXCEPT ![r] = Append(@, name)]
          /\ target' = [target EXCEPT ![r.target] = <<r.fs, fileName'[r]>>]
          /\ spinning' = (spinning /\ r.fs # "cdfs:")
          /\ menu' = r.mainMenu
          /\ UNCHANGED <<listOf, fsDirParam, failed>>

(* CROSS on an entry of the directory shown: the entry points into fsDirParam. *)
Entry ==
  /\ menu = "list"
  /\ \E name \in Names(fsDirParam.dir, fsDirParam.isRoot) :
       fsDir(fsDirParam.root, name) \/ fsFile(fsDirParam.root, name)

(* The first entry of the directory shown: for a disc it stops the drive. *)
setCurrentMenuAndStopCDVD ==
  /\ menu = "list"
  /\ menu' = listOf.menu
  /\ spinning' = (spinning /\ listOf.fs # "cdfs:")
  /\ UNCHANGED <<listOf, fileName, fsDirParam, target, failed>>

(* Entries of the fixed menus: a sub menu, the way back, CIRCLE; and TRIANGLE. *)
(* The menu of a directory has no parent, so CIRCLE does nothing there.        *)
setCurrentMenu ==
  /\ \/ menu \in Fixed /\ \E m \in Fixed : (Parent[m] = menu \/ Parent[menu] = m) /\ menu' = m
     \/ menu # "advanced" /\ menu' = "advanced"
  /\ UNCHANGED <<listOf, fileName, fsDirParam, target, spinning, failed>>

(* mcLoadConfig with a file of the disc stops the drive afterwards;            *)
(* unsetFilename empties the name of the RAM disc.                             *)
mcLoadConfig ==
  /\ menu \in {"boot", "file"}
  /\ spinning' = FALSE
  /\ UNCHANGED <<menu, listOf, fileName, fsDirParam, target, failed>>

unsetFilename ==
  /\ menu = "initrd"
  /\ target' = [target EXCEPT !["initrdFilename"] = <<>>]
  /\ UNCHANGED <<menu, listOf, fileName, fsDirParam, spinning, failed>>

-----------------------------------------------------------------------------
Init ==
  /\ menu = "boot" /\ listOf = NoRoot /\ fileName = [r \in Roots |-> <<>>]
  /\ fsDirParam = NoEntries /\ spinning = FALSE /\ failed = FALSE
  /\ target = [t \in {"configfile", "kernelFilename", "initrdFilename"} |-> <<>>]

Next == fsroot \/ Entry \/ setCurrentMenuAndStopCDVD \/ setCurrentMenu \/ mcLoadConfig
        \/ unsetFilename

Spec == Init /\ [][Next]_vars

-----------------------------------------------------------------------------
(* The directory shown is the one its entries and the path agree on: the       *)
(* entries in the shared array are those of the menu shown, and unless a       *)
(* directory could not be opened since, the path continued by the next entry   *)
(* is the directory the user sees.                                             *)
ListingTrue ==
  menu = "list" => (/\ fsDirParam.root = listOf
                    /\ failed \/ fileName[listOf] = fsDirParam.dir)

=============================================================================
