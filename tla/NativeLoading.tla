---------------------------- MODULE NativeLoading ----------------------------
(***************************************************************************)
(* Corvid.load() and the extraction of the two native libraries, engine    *)
(* and shim, from the classpath into a directory that all JVMs of a user   *)
(* share.  Several processes run it at once; each can end at any step and  *)
(* be followed by another, possibly with another version of the jar.       *)
(*                                                                         *)
(* Threads of one JVM are not told apart: load() is synchronized.          *)
(***************************************************************************)
EXTENDS Naturals

CONSTANTS
  Jvm,      \* slots for processes; a slot is reused when its process ended
  Version,  \* versions of the jar, and of the pair of libraries in it
  Size,     \* [Version -> Nat]: the length of a library file
  Abi,      \* [Version -> Nat]: its FFI version
  Links,    \* the pairs <<v, w>> such that the shim of v links with the engine of w
  None,     \* no version
  Worlds    \* the machines the JVMs may be on

ASSUME VersionAssumption == None \notin Version /\ {"shared", "given"} \cap Jvm = {}
ASSUME SizeAssumption == Size \in [Version -> Nat \ {0}] /\ Abi \in [Version -> Nat]
ASSUME LinksAssumption == Links \subseteq Version \X Version /\ \A v \in Version : <<v, v>> \in Links

(* Of a machine: do processes run at the same time?  Can writing a file or *)
(* making a directory fail?  Can files be moved atomically?  Does it       *)
(* refuse to replace a loaded library, as Windows does?                    *)
ASSUME WorldsAssumption ==
  Worlds \subseteq [overlap : BOOLEAN, faults : BOOLEAN, atomic : BOOLEAN, locks : BOOLEAN]

VARIABLES
  world,   \* the machine
  shared,  \* the shared directory: is it there, and verifiably ours?
  fs,      \* [Dir -> [File -> Content]]: the library files
  pc,      \* [Jvm -> Step]: where loadOnce() is, "off" without a process
  jar,     \* [Jvm -> Version]: the jar on the classpath
  place,   \* [Jvm -> Place]: where the search finds the pair first
  dir,     \* [Jvm -> Dir]: the directory the pair is in
  file,    \* [Jvm -> File]: the file being extracted
  tries,   \* [Jvm -> 1..2]: directories extracted into
  lib      \* [Jvm -> [File -> Content]]: the libraries in the process

vars == <<world, shared, fs, pc, jar, place, dir, file, tries, lib>>
search == <<world, jar, place>>

File == {"engine", "shim"}
Dir == {"shared", "given"} \cup Jvm        \* j is the private directory of j
Content == [ver : Version \cup {None}, len : Nat]
Absent == [ver |-> None, len |-> 0]
Whole(v) == [ver |-> v, len |-> Size[v]]
IsWhole(c) == c.ver # None /\ c = Whole(c.ver)
NoPair == [f \in File |-> Absent]

(* Where the search finds the pair, in its order: in a directory the user  *)
(* named, on the classpath, in a development checkout, on java.library.path. *)
Place == {"named", "classpath", "checkout", "path", "none"}
Step == {"off", "find", "dir", "tighten", "lookup", "extract", "move", "copy",
         "engine", "shim", "verify", "ready", "failed"}

Target(j) == fs[dir[j]][file[j]]
Goto(j, s) == pc' = [pc EXCEPT ![j] = s]
Write(j, c) == fs' = [fs EXCEPT ![dir[j]][file[j]] = c]
Locked(j) == world.locks /\ \E k \in Jvm : dir[k] = dir[j] /\ lib[k][file[j]] # Absent

(* Behind the engine comes the shim, behind the shim the loading. *)
Extracted(j) ==
  IF file[j] = "engine"
    THEN file' = [file EXCEPT ![j] = "shim"] /\ Goto(j, "extract")
    ELSE UNCHANGED file /\ Goto(j, "engine")

(* Mutant: a private directory is followed by another one. *)
GiveUpNever(j) ==
  /\ tries' = [tries EXCEPT ![j] = @ + 1]
  /\ dir' = [dir EXCEPT ![j] = j]
  /\ file' = [file EXCEPT ![j] = "engine"]
  /\ fs' = [fs EXCEPT ![j] = NoPair]
  /\ Goto(j, "extract")

(* Mutant: the extraction is tried again in the same directory. *)
GiveUpLater(j) ==
  /\ file' = [file EXCEPT ![j] = "engine"]
  /\ Goto(j, "extract")
  /\ UNCHANGED <<tries, dir, fs>>

(* fromClasspath: an IOException in the first directory leads to a private *)
(* one, in the second to an IllegalStateException.                         *)
GiveUp(j) ==
  IF tries[j] = 1
    THEN /\ tries' = [tries EXCEPT ![j] = 2]
         /\ dir' = [dir EXCEPT ![j] = j]
         /\ file' = [file EXCEPT ![j] = "engine"]
         /\ fs' = [fs EXCEPT ![j] = NoPair]
         /\ Goto(j, "extract")
    ELSE Goto(j, "failed") /\ UNCHANGED <<tries, dir, file, fs>>

----------------------------------------------------------------------------
(* A new process calls load() for the first time. *)
Start(j) ==
  /\ pc[j] = "off"
  /\ world.overlap \/ \A k \in Jvm : pc[k] = "off"
  /\ \E v \in Version, p \in Place :
       /\ jar' = [jar EXCEPT ![j] = v]
       /\ place' = [place EXCEPT ![j] = p]
  /\ Goto(j, "find")
  /\ UNCHANGED <<world, shared, fs, dir, file, tries, lib>>

(* A named directory is looked into before the classpath. *)
Find(j) ==
  /\ pc[j] = "find"
  /\ IF place[j] = "named"
       THEN Goto(j, "engine") /\ dir' = [dir EXCEPT ![j] = "given"]
       ELSE Goto(j, "dir") /\ UNCHANGED dir
  /\ UNCHANGED <<shared, fs, search, file, tries, lib>>

(* The classpath is looked at once the extraction directory is chosen; the *)
(* checkout after it.  A pair on java.library.path only: loadLibrary has   *)
(* loaded the shim, but loadOnce() goes on with the relative marker        *)
(* File("corvidjni"), and its System.load throws.                          *)
Lookup(j) ==
  /\ pc[j] = "lookup"
  /\ CASE place[j] = "classpath" -> Goto(j, "extract") /\ UNCHANGED dir
       [] place[j] = "checkout"  -> Goto(j, "engine") /\ dir' = [dir EXCEPT ![j] = "given"]
       [] OTHER                  -> Goto(j, "failed") /\ UNCHANGED dir
  /\ UNCHANGED <<shared, fs, search, file, tries, lib>>

----------------------------------------------------------------------------
(* reusableNativeDir.                                                      *)

(* privateNativeDir: if no directory can be made, the last resort is the   *)
(* shared one after all, trusted or not, there or not.                     *)
PrivateDir(j) ==
  /\ \/ dir' = [dir EXCEPT ![j] = j]
     \/ world.faults /\ dir' = [dir EXCEPT ![j] = "shared"]
  /\ Goto(j, "lookup")

(* The directory is there: ours and locked down, or not to be trusted. *)
UseDir(j) ==
  /\ pc[j] = "dir" /\ shared # "absent"
  /\ IF shared = "ours"
       THEN dir' = [dir EXCEPT ![j] = "shared"] /\ Goto(j, "lookup")
       ELSE PrivateDir(j)
  /\ UNCHANGED <<shared, fs, search, file, tries, lib>>

(* createDirectory gives it the permissions of the umask ... *)
MakeDir(j) ==
  /\ pc[j] = "dir" /\ shared = "absent"
  /\ \/ shared' = "loose" /\ Goto(j, "tighten") /\ UNCHANGED dir
     \/ world.faults /\ PrivateDir(j) /\ UNCHANGED shared
  /\ UNCHANGED <<fs, search, file, tries, lib>>

(* ... which tightenPermissions then takes away from all others, or fails  *)
(* to: the directory is used all the same.                                 *)
Tighten(j) ==
  /\ pc[j] = "tighten"
  /\ \/ shared' = "ours"
     \/ world.faults /\ UNCHANGED shared
  /\ dir' = [dir EXCEPT ![j] = "shared"]
  /\ Goto(j, "lookup")
  /\ UNCHANGED <<fs, search, file, tries, lib>>

----------------------------------------------------------------------------
(* extract.                                                                *)

(* Mutant: a file that is there is taken for complete. *)
ReuseAny(j) ==
  /\ pc[j] = "extract" /\ Target(j) # Absent
  /\ Extracted(j)
  /\ UNCHANGED <<shared, fs, search, dir, tries, lib>>

(* A file of the expected length is reused untouched. *)
Reuse(j) ==
  /\ pc[j] = "extract" /\ Target(j).len = Size[jar[j]]
  /\ Extracted(j)
  /\ UNCHANGED <<shared, fs, search, dir, tries, lib>>

(* Any other is replaced: first a copy under a unique name of its own.     *)
(* That needs the directory; where it could not be made, so does a second  *)
(* one that createTempDirectory or mkdirs did not make.                    *)
Stage(j) ==
  /\ pc[j] = "extract" /\ Target(j).len # Size[jar[j]]
  /\ \/ /\ ~(dir[j] = "shared" /\ shared = "absent")
        /\ Goto(j, "move") /\ UNCHANGED <<fs, dir, file, tries>>
     \/ world.faults /\ GiveUp(j)
  /\ UNCHANGED <<shared, search, lib>>

(* Mutant: the target is emptied and written in place. *)
MoveInPlace(j) ==
  /\ pc[j] = "move" /\ world.atomic
  /\ Write(j, Absent) /\ Goto(j, "copy")
  /\ UNCHANGED <<shared, search, dir, file, tries, lib>>

(* Then the atomic move over the target. *)
Move(j) ==
  /\ pc[j] = "move" /\ world.atomic
  /\ \/ ~Locked(j) /\ Write(j, Whole(jar[j])) /\ Extracted(j) /\ UNCHANGED <<dir, tries>>
     \/ (Locked(j) \/ world.faults) /\ GiveUp(j)
  /\ UNCHANGED <<shared, search, lib>>

(* Where that is not supported, the target is deleted and copied anew. *)
Clear(j) ==
  /\ pc[j] = "move" /\ ~world.atomic
  /\ \/ ~Locked(j) /\ Write(j, Absent) /\ Goto(j, "copy") /\ UNCHANGED <<dir, file, tries>>
     \/ (Locked(j) \/ world.faults) /\ GiveUp(j)
  /\ UNCHANGED <<shared, search, lib>>

(* Block by block; a copy that fails leaves what it wrote. *)
Copy(j) ==
  /\ pc[j] = "copy"
  /\ \/ /\ Target(j).len < Size[jar[j]]
        /\ Write(j, [ver |-> jar[j], len |-> Target(j).len + 1])
        /\ UNCHANGED <<pc, dir, file, tries>>
     \/ /\ Target(j).len >= Size[jar[j]]
        /\ Extracted(j) /\ UNCHANGED <<fs, dir, tries>>
     \/ world.faults /\ GiveUp(j)
  /\ UNCHANGED <<shared, search, lib>>

----------------------------------------------------------------------------
(* loadOnce, with the pair found.                                          *)

(* System.load of the engine, if there is one beside the shim; and of the  *)
(* shim.  A file that is missing or cut short does not load.  A shim that  *)
(* asks for more than the engine in the process has, or than the one that  *)
(* the linker finds without it, may load or not: the linker may leave      *)
(* missing functions until they are called.                                *)
Unlinked(j, f, c) == f = "shim" /\ <<c.ver, lib[j]["engine"].ver>> \notin Links

Load(j, f, next) ==
  /\ pc[j] = f
  /\ LET c == fs[dir[j]][f] IN
       \/ IsWhole(c) /\ lib' = [lib EXCEPT ![j][f] = c] /\ Goto(j, next)
       \/ /\ ~IsWhole(c) \/ Unlinked(j, f, c)
          /\ Goto(j, IF f = "engine" /\ c = Absent THEN next ELSE "failed")
          /\ UNCHANGED lib
  /\ UNCHANGED <<shared, fs, search, dir, file, tries>>

(* verifyFfiVersion asks the engine in the process; without one beside it, *)
(* the linker may have found the shim some other engine or none.           *)
Verify(j) ==
  /\ pc[j] = "verify"
  /\ \E v \in IF lib[j]["engine"] = Absent THEN Version ELSE {lib[j]["engine"].ver} :
       Goto(j, IF Abi[v] = Abi[jar[j]] THEN "ready" ELSE "failed")
  /\ UNCHANGED <<shared, fs, search, dir, file, tries, lib>>

(* The process ends, by itself or killed; its private directory has a name *)
(* nobody will find again.                                                 *)
End(j) ==
  /\ pc[j] # "off"
  /\ Goto(j, "off")
  /\ fs' = [fs EXCEPT ![j] = NoPair]
  /\ dir' = [dir EXCEPT ![j] = j]
  /\ file' = [file EXCEPT ![j] = "engine"]
  /\ tries' = [tries EXCEPT ![j] = 1]
  /\ lib' = [lib EXCEPT ![j] = NoPair]
  /\ UNCHANGED <<shared, search>>

----------------------------------------------------------------------------
(* The shared directory may be somebody else's, with what it holds, be     *)
(* left over, or be missing; a given directory holds a shim, with or       *)
(* without an engine.                                                      *)
Init ==
  /\ world \in Worlds
  /\ shared \in {"absent", "loose", "ours", "foreign"}
  /\ \E v \in Version :
       fs \in [Dir -> {NoPair} \cup [engine : {Absent, Whole(v)}, shim : {Whole(v)}]]
  /\ \A j \in Jvm : fs[j] = NoPair
  /\ shared # "foreign" => fs["shared"] = NoPair
  /\ fs["given"] # NoPair
  /\ pc = [j \in Jvm |-> "off"]
  /\ jar \in [Jvm -> Version]
  /\ place \in [Jvm -> {"none"}]
  /\ dir = [j \in Jvm |-> j]
  /\ file = [j \in Jvm |-> "engine"]
  /\ tries = [j \in Jvm |-> 1]
  /\ lib = [j \in Jvm |-> NoPair]

Next ==
  \E j \in Jvm :
    \/ Start(j) \/ Find(j) \/ Lookup(j)
    \/ UseDir(j) \/ MakeDir(j) \/ Tighten(j)
    \/ Reuse(j) \/ Stage(j) \/ Move(j) \/ Clear(j) \/ Copy(j)
    \/ Load(j, "engine", "shim") \/ Load(j, "shim", "verify") \/ Verify(j)
    \/ End(j)

Spec == Init /\ [][Next]_vars

----------------------------------------------------------------------------
(* The types; a process extracts into two directories at most before it    *)
(* gives up.                                                               *)
TypeOK ==
  /\ world \in Worlds
  /\ shared \in {"absent", "loose", "ours", "foreign"}
  /\ fs \in [Dir -> [File -> Content]]
  /\ pc \in [Jvm -> Step]
  /\ jar \in [Jvm -> Version] /\ place \in [Jvm -> Place]
  /\ dir \in [Jvm -> Dir] /\ file \in [Jvm -> File] /\ tries \in [Jvm -> 1..2]
  /\ lib \in [Jvm -> [File -> Content]]

(* "The extraction is self-consistent per JVM": a process that is through  *)
(* load() with the pair of its classpath runs the engine and the shim of   *)
(* its own jar.                                                            *)
OwnPair ==
  \A j \in Jvm :
    pc[j] = "ready" /\ place[j] = "classpath" =>
      lib[j] = [f \in File |-> Whole(jar[j])]

(* It does so whatever the processes before it, of other versions, did to  *)
(* the shared directory and wherever they were stopped, and whatever       *)
(* failed, as long as no other process runs beside it.                     *)
OwnPairAlone == ~world.overlap => OwnPair

(* Of the length alone, which is all that is compared: what such a process *)
(* runs is whole and as long as its own libraries.  It can be another      *)
(* version only if that one has the same length.                           *)
OwnLengthAlone ==
  ~world.overlap =>
    \A j \in Jvm, f \in File :
      pc[j] = "ready" /\ place[j] = "classpath" =>
        IsWhole(lib[j][f]) /\ lib[j][f].len = Size[jar[j]]

(* All versions have one FFI version, and any shim links with any engine.  *)
Compatible ==
  \A v, w \in Version : Abi[v] = Abi[w] /\ <<v, w>> \in Links

(* With its pair on the classpath, load() succeeds, whatever the processes *)
(* beside it and before it did and wherever they were stopped, as long as  *)
(* files can be written and moved atomically and the versions that meet in *)
(* the directory are compatible.                                           *)
ClasspathSuffices ==
  Compatible /\ ~world.faults /\ world.atomic =>
    \A j \in Jvm : place[j] = "classpath" => pc[j] # "failed"

(* "java.library.path lookup, last": a pair found there is loaded.         *)
PathSuffices == \A j \in Jvm : place[j] = "path" => pc[j] # "failed"

(* How many steps are left to a process in load(), at most: "move" and     *)
(* "copy" are the two ways behind "extract", for two files in each of two  *)
(* directories; a copied block is no step of its own.                      *)
StepsBehind ==
  [find |-> 19, dir |-> 18, tighten |-> 17, lookup |-> 16,
   extract |-> 6, move |-> 5, copy |-> 4,
   engine |-> 3, shim |-> 2, verify |-> 1, ready |-> 0, failed |-> 0, off |-> 0]
Extracting == {"extract", "move", "copy"}
StepsLeft(s, f, t) ==
  IF s \in Extracting
    THEN StepsBehind[s] + (IF f = "engine" THEN 3 ELSE 0) + 6 * (2 - t)
    ELSE StepsBehind[s]

(* load() is never back where it was: whatever fails, is locked or is      *)
(* replaced by others, no loop of retries keeps it from its end.           *)
LoadAdvances ==
  [][\A j \in Jvm :
       pc[j] # "off" /\ pc'[j] # "off" =>
         \/ UNCHANGED <<pc[j], file[j], tries[j]>>
         \/ StepsLeft(pc'[j], file'[j], tries'[j]) < StepsLeft(pc[j], file[j], tries[j])]_vars

----------------------------------------------------------------------------
(* The inductive invariant behind them.                                    *)

Loading == {"engine", "shim", "verify", "ready"}
OnClasspath(j) == place[j] = "classpath"

OneAtATime ==
  ~world.overlap => \A j, k \in Jvm : pc[j] # "off" /\ pc[k] # "off" => j = k

(* Before it extracts, a process has touched no file; its second directory *)
(* is its own, and libraries are only in it once it loads them, and whole. *)
Begins(j, p, d, f, t, l) ==
  /\ d \in {j, "shared", "given"}
  /\ t = 2 => d = j
  /\ p \notin Extracting \cup Loading \cup {"failed"} => f = "engine" /\ t = 1
  /\ p \notin Loading \cup {"failed"} => l = NoPair
  /\ \A g \in File : l[g] = Absent \/ IsWhole(l[g])

ProcessesBegin ==
  \A j \in Jvm : Begins(j, pc[j], dir[j], file[j], tries[j], lib[j])

(* A process that is alone: each file it is through with has the length s  *)
(* of its own, and so has each library that got into it.                   *)
StaysOwn(p, f, l, pair, s) ==
  /\ p = "copy" => pair[f].len <= s
  /\ p \in Extracting /\ f = "shim" => pair["engine"].len = s
  /\ p \in Loading => \A g \in File : pair[g].len = s
  /\ p \in {"shim", "verify", "ready"} => l["engine"].len = s
  /\ p \in {"verify", "ready"} => l["shim"].len = s

AloneStaysOwn ==
  ~world.overlap => \A j \in Jvm : OnClasspath(j) =>
    StaysOwn(pc[j], file[j], lib[j], fs[dir[j]], Size[jar[j]])

(* Where files are moved atomically, each is whole or absent, and one that *)
(* is there never goes away under the process that looks for it.           *)
StaysThere(p, f, l, pair) ==
  /\ p \in Extracting /\ f = "shim" => pair["engine"] # Absent
  /\ p \in Loading => \A g \in File : pair[g] # Absent
  /\ p \in {"shim", "verify"} => l["engine"] # Absent

FilesStayWhole ==
  world.atomic =>
    /\ \A d \in Dir, f \in File : fs[d][f] = Absent \/ IsWhole(fs[d][f])
    /\ \A j \in Jvm :
         /\ pc[j] # "copy"
         /\ OnClasspath(j) => StaysThere(pc[j], file[j], lib[j], fs[dir[j]])

IInv ==
  /\ TypeOK /\ OneAtATime /\ ProcessesBegin /\ AloneStaysOwn /\ FilesStayWhole
=============================================================================
