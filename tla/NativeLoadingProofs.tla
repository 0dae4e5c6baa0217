------------------------ MODULE NativeLoadingProofs ------------------------
(***************************************************************************)
(* Proofs about NativeLoading, for any number of processes, versions and   *)
(* lengths, on any machines.                                               *)
(***************************************************************************)
EXTENDS NativeLoading, TLAPS

(* The libraries of two versions differ in length: all that a process      *)
(* looks at before it reuses a file.                                       *)
LengthsDiffer == \A v, w \in Version : Size[v] = Size[w] => v = w

(* What a file can hold. *)
LEMMA ContentFacts ==
  /\ Absent \in Content /\ NoPair \in [File -> Content] /\ Absent.len = 0
  /\ \A f \in File : NoPair[f] = Absent
  /\ \A v \in Version :
       /\ Size[v] \in Nat \ {0} /\ Whole(v) \in Content /\ Whole(v) # Absent
       /\ Whole(v).len = Size[v] /\ IsWhole(Whole(v))
  /\ ~IsWhole(Absent)
  /\ \A c \in Content : IsWhole(c) => c.ver \in Version /\ c.len = Size[c.ver]
BY VersionAssumption, SizeAssumption
   DEF Absent, NoPair, Content, Whole, IsWhole

LEMMA FileFacts ==
  /\ "engine" \in File /\ "shim" \in File
  /\ \A f \in File : f = "engine" \/ f = "shim"
  /\ "shared" \in Dir /\ "given" \in Dir /\ \A j \in Jvm : j \in Dir
  /\ \A j \in Jvm : j # "shared" /\ j # "given"
BY VersionAssumption DEF File, Dir

(* Writing one file changes no other. *)
LEMMA WriteFacts ==
  ASSUME TypeOK, NEW j \in Jvm, NEW c \in Content, Write(j, c)
  PROVE  /\ fs' \in [Dir -> [File -> Content]]
         /\ fs'[dir[j]][file[j]] = c
         /\ \A d \in Dir, f \in File :
              (d # dir[j] \/ f # file[j]) => fs'[d][f] = fs[d][f]
<1>1. /\ fs \in [Dir -> [File -> Content]]
      /\ dir[j] \in Dir /\ file[j] \in File
  BY DEF TypeOK
<1>2. fs' = [fs EXCEPT ![dir[j]] = [fs[dir[j]] EXCEPT ![file[j]] = c]]
  BY <1>1 DEF Write
<1>3. [fs[dir[j]] EXCEPT ![file[j]] = c] \in [File -> Content]
  BY <1>1
<1> QED
  BY <1>1, <1>2, <1>3

(* Emptying the private directory of a process changes no other. *)
LEMMA EmptyFacts ==
  ASSUME TypeOK, NEW j \in Jvm, fs' = [fs EXCEPT ![j] = NoPair]
  PROVE  /\ fs' \in [Dir -> [File -> Content]]
         /\ \A f \in File : fs'[j][f] = Absent
         /\ \A d \in Dir : d # j => fs'[d] = fs[d]
BY ContentFacts, FileFacts DEF TypeOK

(* What a step of process j leaves of it, *)
Becomes(j, p, d, f, t, l, v, q) ==
  /\ pc' = [pc EXCEPT ![j] = p] /\ dir' = [dir EXCEPT ![j] = d]
  /\ file' = [file EXCEPT ![j] = f] /\ tries' = [tries EXCEPT ![j] = t]
  /\ lib' = [lib EXCEPT ![j] = l]
  /\ jar' = [jar EXCEPT ![j] = v] /\ place' = [place EXCEPT ![j] = q]

(* and of the files: in the directories of others it leaves whole files.   *)
FilesChange(j) ==
  /\ fs' \in [Dir -> [File -> Content]]
  /\ world.atomic => \A d \in Dir, f \in File :
       \/ fs'[d][f] = fs[d][f]
       \/ IsWhole(fs'[d][f])
       \/ d = j /\ fs'[d][f] = Absent

(* What the invariant asks of process j behind the step. *)
Fits(j, p, d, f, t, l, v, q) ==
  /\ Begins(j, p, d, f, t, l)
  /\ ~world.overlap /\ q = "classpath" => StaysOwn(p, f, l, fs'[d], Size[v])
  /\ world.atomic => p # "copy" /\ (q = "classpath" => StaysThere(p, f, l, fs'[d]))

LEMMA SameProcess ==
  ASSUME TypeOK, NEW j \in Jvm
  PROVE  /\ pc = [pc EXCEPT ![j] = pc[j]] /\ dir = [dir EXCEPT ![j] = dir[j]]
         /\ file = [file EXCEPT ![j] = file[j]] /\ tries = [tries EXCEPT ![j] = tries[j]]
         /\ lib = [lib EXCEPT ![j] = lib[j]]
         /\ jar = [jar EXCEPT ![j] = jar[j]] /\ place = [place EXCEPT ![j] = place[j]]
         /\ pc[j] \in Step /\ dir[j] \in Dir /\ file[j] \in File /\ tries[j] \in 1..2
         /\ lib[j] \in [File -> Content] /\ jar[j] \in Version /\ place[j] \in Place
BY DEF TypeOK

(* One process makes a step. *)
LEMMA ProcessStep ==
  ASSUME IInv, NEW j \in Jvm,
         NEW p \in Step, NEW d \in Dir, NEW f \in File, NEW t \in 1..2,
         NEW l \in [File -> Content], NEW v \in Version, NEW q \in Place,
         Becomes(j, p, d, f, t, l, v, q), Fits(j, p, d, f, t, l, v, q),
         FilesChange(j), world' = world,
         shared' \in {"absent", "loose", "ours", "foreign"},
         ~world.overlap => \A k \in Jvm : k # j => pc[k] = "off"
  PROVE  IInv'
<1>a. /\ TypeOK /\ OneAtATime /\ ProcessesBegin /\ AloneStaysOwn /\ FilesStayWhole
  BY DEF IInv
<1>b. /\ pc'[j] = p /\ dir'[j] = d /\ file'[j] = f /\ tries'[j] = t /\ lib'[j] = l
      /\ jar'[j] = v /\ place'[j] = q
  BY <1>a DEF TypeOK, Becomes
<1>c. \A k \in Jvm : k # j =>
        /\ pc'[k] = pc[k] /\ dir'[k] = dir[k] /\ file'[k] = file[k] /\ tries'[k] = tries[k]
        /\ lib'[k] = lib[k] /\ jar'[k] = jar[k] /\ place'[k] = place[k]
  BY <1>a DEF TypeOK, Becomes
<1>1. TypeOK'
  BY <1>a DEF TypeOK, Becomes, FilesChange
<1>2. OneAtATime'
  BY <1>c DEF OneAtATime
<1>3. ProcessesBegin'
  BY <1>a, <1>b, <1>c DEF ProcessesBegin, Fits
<1>4. AloneStaysOwn'
  <2> SUFFICES ASSUME ~world.overlap, NEW k \in Jvm, place'[k] = "classpath"
               PROVE  StaysOwn(pc'[k], file'[k], lib'[k], fs'[dir'[k]], Size[jar'[k]])
    BY DEF AloneStaysOwn, OnClasspath
  <2>1. CASE k = j
    BY <1>b, <2>1 DEF Fits
  <2>2. CASE k # j
    BY <1>c, <2>2 DEF StaysOwn, Extracting, Loading
  <2> QED
    BY <2>1, <2>2
<1>5. FilesStayWhole'
  <2> SUFFICES ASSUME world.atomic
               PROVE  /\ \A e \in Dir, g \in File : fs'[e][g] = Absent \/ IsWhole(fs'[e][g])
                      /\ \A k \in Jvm :
                           /\ pc'[k] # "copy"
                           /\ place'[k] = "classpath" =>
                                StaysThere(pc'[k], file'[k], lib'[k], fs'[dir'[k]])
    BY DEF FilesStayWhole, OnClasspath
  <2>1. \A e \in Dir, g \in File : fs'[e][g] = Absent \/ IsWhole(fs'[e][g])
    BY <1>a DEF FilesStayWhole, FilesChange
  <2>2. ASSUME NEW k \in Jvm, k # j
        PROVE  /\ pc'[k] # "copy"
               /\ place'[k] = "classpath" =>
                    StaysThere(pc'[k], file'[k], lib'[k], fs'[dir'[k]])
    <3>1. dir[k] \in Dir /\ dir[k] # j
      BY <1>a, <2>2, FileFacts DEF ProcessesBegin, Begins, TypeOK
    <3>2. \A g \in File : fs[dir[k]][g] # Absent => fs'[dir[k]][g] # Absent
      BY <3>1, ContentFacts DEF FilesChange
    <3>3. pc[k] # "copy" /\ (place[k] = "classpath" =>
             StaysThere(pc[k], file[k], lib[k], fs[dir[k]]))
      BY <1>a DEF FilesStayWhole, OnClasspath
    <3> QED
      BY <1>c, <2>2, <3>2, <3>3, FileFacts DEF StaysThere
  <2> QED
    BY <1>b, <2>1, <2>2 DEF Fits
<1> QED
  BY <1>1, <1>2, <1>3, <1>4, <1>5 DEF IInv

LEMMA Initially == Init => IInv
<1> SUFFICES ASSUME Init PROVE IInv
  OBVIOUS
<1>1. TypeOK
  <2>1. fs \in [Dir -> [File -> Content]]
    <3>1. PICK v \in Version : 
            fs \in [Dir -> {NoPair} \cup [engine : {Absent, Whole(v)}, shim : {Whole(v)}]]
      BY DEF Init
    <3>2. \A p \in [engine : {Absent, Whole(v)}, shim : {Whole(v)}] : p \in [File -> Content]
      BY ContentFacts DEF File
    <3> QED
      BY <3>1, <3>2, ContentFacts
  <2>2. lib \in [Jvm -> [File -> Content]]
    BY ContentFacts DEF Init
  <2> QED
    BY <2>1, <2>2, FileFacts DEF Init, TypeOK, Step, Place
<1>2. OneAtATime /\ ProcessesBegin
  BY ContentFacts, FileFacts
     DEF Init, OneAtATime, ProcessesBegin, Begins, Extracting, Loading
<1>3. AloneStaysOwn
  BY DEF Init, AloneStaysOwn, StaysOwn, OnClasspath
<1>4. FilesStayWhole
  <2>1. \A d \in Dir, f \in File : fs[d][f] = Absent \/ IsWhole(fs[d][f])
    BY ContentFacts DEF Init, File
  <2> QED
    BY <2>1 DEF Init, FilesStayWhole, OnClasspath
<1> QED
  BY <1>1, <1>2, <1>3, <1>4 DEF IInv


LEMMA Inductively == IInv /\ [Next]_vars => IInv'
<1> SUFFICES ASSUME IInv, [Next]_vars PROVE IInv'
  OBVIOUS
<1> USE ContentFacts, FileFacts
<1>a. /\ TypeOK /\ OneAtATime /\ ProcessesBegin /\ AloneStaysOwn /\ FilesStayWhole
      /\ world \in Worlds
  BY DEF IInv, TypeOK
<1>b. \A j \in Jvm :
        /\ Begins(j, pc[j], dir[j], file[j], tries[j], lib[j])
        /\ ~world.overlap /\ place[j] = "classpath" =>
             StaysOwn(pc[j], file[j], lib[j], fs[dir[j]], Size[jar[j]])
        /\ world.atomic =>
             /\ pc[j] # "copy"
             /\ place[j] = "classpath" =>
                  StaysThere(pc[j], file[j], lib[j], fs[dir[j]])
  BY <1>a DEF ProcessesBegin, AloneStaysOwn, FilesStayWhole, OnClasspath
<1>c. \A j \in Jvm : pc[j] # "off" /\ ~world.overlap => \A k \in Jvm : k # j => pc[k] = "off"
  BY <1>a DEF OneAtATime
<1>d. \A j \in Jvm : fs' = fs => FilesChange(j)
  BY <1>a DEF FilesChange, TypeOK
<1>e. \A j \in Jvm : fs' = [fs EXCEPT ![j] = NoPair] => FilesChange(j)
  BY <1>a, EmptyFacts DEF FilesChange
<1>f. \A s \in {"off", "find", "dir", "tighten", "lookup", "extract", "move", "copy",
                "engine", "shim", "verify", "ready", "failed"} : s \in Step
  BY DEF Step
<1>g. shared \in {"absent", "loose", "ours", "foreign"}
      /\ fs \in [Dir -> [File -> Content]]
  BY <1>a DEF TypeOK
<1>h. ASSUME NEW j \in Jvm, pc[j] \in {"extract", "move", "copy"}, GiveUp(j),
             UNCHANGED <<shared, search, lib>>
      PROVE  IInv'
  <2>1. /\ world' = world /\ shared' \in {"absent", "loose", "ours", "foreign"}
        /\ ~world.overlap => \A k \in Jvm : k # j => pc[k] = "off"
    BY <1>c, <1>g, <1>h DEF search
  <2>2. CASE tries[j] = 1
    <3>1. Becomes(j, "extract", j, "engine", 2, lib[j], jar[j], place[j])
      BY <1>a, <1>h, <2>2, SameProcess DEF GiveUp, Goto, search, Becomes
    <3>2. fs' = [fs EXCEPT ![j] = NoPair] /\ FilesChange(j)
      BY <1>e, <1>h, <2>2 DEF GiveUp
    <3>3. Fits(j, "extract", j, "engine", 2, lib[j], jar[j], place[j])
      BY <1>b, <1>h DEF Fits, Begins, StaysOwn, StaysThere, Extracting, Loading
    <3>4. /\ "extract" \in Step /\ j \in Dir /\ "engine" \in File /\ 2 \in 1..2
          /\ lib[j] \in [File -> Content] /\ jar[j] \in Version /\ place[j] \in Place
      BY <1>a, <1>f, SameProcess
    <3> HIDE ContentFacts, FileFacts
    <3> QED
      BY <2>1, <3>1, <3>2, <3>3, <3>4, ProcessStep
  <2>3. CASE tries[j] # 1
    <3>1. Becomes(j, "failed", dir[j], file[j], tries[j], lib[j], jar[j], place[j])
      BY <1>a, <1>h, <2>3, SameProcess DEF GiveUp, Goto, search, Becomes
    <3>2. FilesChange(j)
      BY <1>d, <1>h, <2>3 DEF GiveUp
    <3>3. Fits(j, "failed", dir[j], file[j], tries[j], lib[j], jar[j], place[j])
      BY <1>b, <1>h DEF Fits, Begins, StaysOwn, StaysThere, Extracting, Loading
    <3> QED
      BY <1>a, <1>f, <2>1, <3>1, <3>2, <3>3, SameProcess, ProcessStep
  <2> QED
    BY <2>2, <2>3
<1>1. ASSUME NEW j \in Jvm, Start(j) PROVE IInv'
  <2>1. PICK v \in Version, p \in Place :
          jar' = [jar EXCEPT ![j] = v] /\ place' = [place EXCEPT ![j] = p]
    BY <1>1 DEF Start
  <2>2. Becomes(j, "find", dir[j], file[j], tries[j], lib[j], v, p)
    BY <1>a, <1>1, <2>1, SameProcess DEF Start, Goto, Becomes
  <2>3. Fits(j, "find", dir[j], file[j], tries[j], lib[j], v, p)
    BY <1>b, <1>1 DEF Start, Fits, Begins, StaysOwn, StaysThere, Extracting, Loading
  <2>4. FilesChange(j) /\ world' = world /\ shared' = shared
        /\ (~world.overlap => \A k \in Jvm : k # j => pc[k] = "off")
    BY <1>d, <1>1 DEF Start
  <2> QED
    BY <1>a, <1>f, <1>g, <2>2, <2>3, <2>4, SameProcess, ProcessStep
<1>2. ASSUME NEW j \in Jvm, Find(j) PROVE IInv'
  <2>a. /\ pc[j] # "off" /\ world' = world
        /\ shared' \in {"absent", "loose", "ours", "foreign"}
    BY <1>g, <1>2 DEF Find, search
  <2>1. CASE place[j] = "named"
    <3>1. Becomes(j, "engine", "given", file[j], tries[j], lib[j], jar[j], place[j])
      BY <1>a, <1>2, <2>1, SameProcess DEF Find, Goto, search, Becomes
    <3>2. fs' = fs /\ FilesChange(j)
      BY <1>d, <1>2, <2>1 DEF Find, Goto
    <3>3. Fits(j, "engine", "given", file[j], tries[j], lib[j], jar[j], place[j])
      BY <1>a, <1>b, <1>2, <2>1, <3>2, SameProcess, SizeAssumption
         DEF Find, Goto, Fits, Begins, StaysOwn, StaysThere, Extracting, Loading
    <3> QED
      BY <1>a, <1>c, <1>f, <1>g, <2>a, <3>1, <3>2, <3>3, SameProcess, ProcessStep
  <2>2. CASE place[j] # "named"
    <3>1. Becomes(j, "dir", dir[j], file[j], tries[j], lib[j], jar[j], place[j])
      BY <1>a, <1>2, <2>2, SameProcess DEF Find, Goto, search, Becomes
    <3>2. fs' = fs /\ FilesChange(j)
      BY <1>d, <1>2, <2>2 DEF Find, Goto
    <3>3. Fits(j, "dir", dir[j], file[j], tries[j], lib[j], jar[j], place[j])
      BY <1>a, <1>b, <1>2, <2>2, <3>2, SameProcess, SizeAssumption
         DEF Find, Goto, Fits, Begins, StaysOwn, StaysThere, Extracting, Loading
    <3> QED
      BY <1>a, <1>c, <1>f, <1>g, <2>a, <3>1, <3>2, <3>3, SameProcess, ProcessStep
  <2> QED
    BY <1>2, <2>1, <2>2 DEF Find, Goto
<1>3. ASSUME NEW j \in Jvm, Lookup(j) PROVE IInv'
  <2>a. /\ pc[j] # "off" /\ world' = world
        /\ shared' \in {"absent", "loose", "ours", "foreign"}
    BY <1>g, <1>3 DEF Lookup, search
  <2>1. CASE place[j] = "classpath"
    <3>1. Becomes(j, "extract", dir[j], file[j], tries[j], lib[j], jar[j], place[j])
      BY <1>a, <1>3, <2>1, SameProcess DEF Lookup, Goto, search, Becomes
    <3>2. fs' = fs /\ FilesChange(j)
      BY <1>d, <1>3, <2>1 DEF Lookup, Goto
    <3>3. Fits(j, "extract", dir[j], file[j], tries[j], lib[j], jar[j], place[j])
      BY <1>a, <1>b, <1>3, <2>1, <3>2, SameProcess, SizeAssumption
         DEF Lookup, Goto, Fits, Begins, StaysOwn, StaysThere, Extracting, Loading
    <3> QED
      BY <1>a, <1>c, <1>f, <1>g, <2>a, <3>1, <3>2, <3>3, SameProcess, ProcessStep
  <2>2. CASE place[j] = "checkout"
    <3>1. Becomes(j, "engine", "given", file[j], tries[j], lib[j], jar[j], place[j])
      BY <1>a, <1>3, <2>2, SameProcess DEF Lookup, Goto, search, Becomes
    <3>2. fs' = fs /\ FilesChange(j)
      BY <1>d, <1>3, <2>2 DEF Lookup, Goto
    <3>3. Fits(j, "engine", "given", file[j], tries[j], lib[j], jar[j], place[j])
      BY <1>a, <1>b, <1>3, <2>2, <3>2, SameProcess, SizeAssumption
         DEF Lookup, Goto, Fits, Begins, StaysOwn, StaysThere, Extracting, Loading
    <3> QED
      BY <1>a, <1>c, <1>f, <1>g, <2>a, <3>1, <3>2, <3>3, SameProcess, ProcessStep
  <2>3. CASE place[j] \notin {"classpath", "checkout"}
    <3>1. Becomes(j, "failed", dir[j], file[j], tries[j], lib[j], jar[j], place[j])
      BY <1>a, <1>3, <2>3, SameProcess DEF Lookup, Goto, search, Becomes
    <3>2. fs' = fs /\ FilesChange(j)
      BY <1>d, <1>3, <2>3 DEF Lookup, Goto
    <3>3. Fits(j, "failed", dir[j], file[j], tries[j], lib[j], jar[j], place[j])
      BY <1>a, <1>b, <1>3, <2>3, <3>2, SameProcess, SizeAssumption
         DEF Lookup, Goto, Fits, Begins, StaysOwn, StaysThere, Extracting, Loading
    <3> QED
      BY <1>a, <1>c, <1>f, <1>g, <2>a, <3>1, <3>2, <3>3, SameProcess, ProcessStep
  <2> QED
    BY <1>3, <2>1, <2>2, <2>3 DEF Lookup, Goto
<1>4. ASSUME NEW j \in Jvm, UseDir(j) PROVE IInv'
  <2>a. /\ pc[j] # "off" /\ world' = world
        /\ shared' \in {"absent", "loose", "ours", "foreign"}
    BY <1>g, <1>4 DEF UseDir, search
  <2>1. CASE dir' = [dir EXCEPT ![j] = "shared"]
    <3>1. Becomes(j, "lookup", "shared", file[j], tries[j], lib[j], jar[j], place[j])
      BY <1>a, <1>4, <2>1, SameProcess DEF UseDir, PrivateDir, Goto, search, Becomes
    <3>2. fs' = fs /\ FilesChange(j)
      BY <1>d, <1>4, <2>1 DEF UseDir, PrivateDir, Goto
    <3>3. Fits(j, "lookup", "shared", file[j], tries[j], lib[j], jar[j], place[j])
      BY <1>a, <1>b, <1>4, <2>1, <3>2, SameProcess, SizeAssumption
         DEF UseDir, PrivateDir, Goto, Fits, Begins, StaysOwn, StaysThere, Extracting, Loading
    <3> QED
      BY <1>a, <1>c, <1>f, <1>g, <2>a, <3>1, <3>2, <3>3, SameProcess, ProcessStep
  <2>2. CASE dir' = [dir EXCEPT ![j] = j]
    <3>1. Becomes(j, "lookup", j, file[j], tries[j], lib[j], jar[j], place[j])
      BY <1>a, <1>4, <2>2, SameProcess DEF UseDir, PrivateDir, Goto, search, Becomes
    <3>2. fs' = fs /\ FilesChange(j)
      BY <1>d, <1>4, <2>2 DEF UseDir, PrivateDir, Goto
    <3>3. Fits(j, "lookup", j, file[j], tries[j], lib[j], jar[j], place[j])
      BY <1>a, <1>b, <1>4, <2>2, <3>2, SameProcess, SizeAssumption
         DEF UseDir, PrivateDir, Goto, Fits, Begins, StaysOwn, StaysThere, Extracting, Loading
    <3> QED
      BY <1>a, <1>c, <1>f, <1>g, <2>a, <3>1, <3>2, <3>3, SameProcess, ProcessStep
  <2> QED
    BY <1>4, <2>1, <2>2 DEF UseDir, PrivateDir, Goto
<1>5. ASSUME NEW j \in Jvm, MakeDir(j) PROVE IInv'
  <2>a. /\ pc[j] # "off" /\ world' = world
        /\ shared' \in {"absent", "loose", "ours", "foreign"}
    BY <1>g, <1>5 DEF MakeDir, PrivateDir, search
  <2>1. CASE shared' = "loose" /\ Goto(j, "tighten") /\ UNCHANGED dir
    <3>1. Becomes(j, "tighten", dir[j], file[j], tries[j], lib[j], jar[j], place[j])
      BY <1>a, <1>5, <2>1, SameProcess DEF MakeDir, PrivateDir, Goto, search, Becomes
    <3>2. fs' = fs /\ FilesChange(j)
      BY <1>d, <1>5, <2>1 DEF MakeDir, PrivateDir, Goto
    <3>3. Fits(j, "tighten", dir[j], file[j], tries[j], lib[j], jar[j], place[j])
      BY <1>a, <1>b, <1>5, <2>1, <3>2, SameProcess, SizeAssumption
         DEF MakeDir, PrivateDir, Goto, Fits, Begins, StaysOwn, StaysThere, Extracting, Loading
    <3> QED
      BY <1>a, <1>c, <1>f, <1>g, <2>a, <3>1, <3>2, <3>3, SameProcess, ProcessStep
  <2>2. CASE Goto(j, "lookup") /\ dir' = [dir EXCEPT ![j] = j]
    <3>1. Becomes(j, "lookup", j, file[j], tries[j], lib[j], jar[j], place[j])
      BY <1>a, <1>5, <2>2, SameProcess DEF MakeDir, PrivateDir, Goto, search, Becomes
    <3>2. fs' = fs /\ FilesChange(j)
      BY <1>d, <1>5, <2>2 DEF MakeDir, PrivateDir, Goto
    <3>3. Fits(j, "lookup", j, file[j], tries[j], lib[j], jar[j], place[j])
      BY <1>a, <1>b, <1>5, <2>2, <3>2, SameProcess, SizeAssumption
         DEF MakeDir, PrivateDir, Goto, Fits, Begins, StaysOwn, StaysThere, Extracting, Loading
    <3> QED
      BY <1>a, <1>c, <1>f, <1>g, <2>a, <3>1, <3>2, <3>3, SameProcess, ProcessStep
  <2>3. CASE Goto(j, "lookup") /\ dir' = [dir EXCEPT ![j] = "shared"]
    <3>1. Becomes(j, "lookup", "shared", file[j], tries[j], lib[j], jar[j], place[j])
      BY <1>a, <1>5, <2>3, SameProcess DEF MakeDir, PrivateDir, Goto, search, Becomes
    <3>2. fs' = fs /\ FilesChange(j)
      BY <1>d, <1>5, <2>3 DEF MakeDir, PrivateDir, Goto
    <3>3. Fits(j, "lookup", "shared", file[j], tries[j], lib[j], jar[j], place[j])
      BY <1>a, <1>b, <1>5, <2>3, <3>2, SameProcess, SizeAssumption
         DEF MakeDir, PrivateDir, Goto, Fits, Begins, StaysOwn, StaysThere, Extracting, Loading
    <3> QED
      BY <1>a, <1>c, <1>f, <1>g, <2>a, <3>1, <3>2, <3>3, SameProcess, ProcessStep
  <2> QED
    BY <1>5, <2>1, <2>2, <2>3 DEF MakeDir, PrivateDir, Goto
<1>6. ASSUME NEW j \in Jvm, Tighten(j) PROVE IInv'
  <2>a. /\ pc[j] # "off" /\ world' = world
        /\ shared' \in {"absent", "loose", "ours", "foreign"}
    BY <1>g, <1>6 DEF Tighten, search
  <2>1. CASE TRUE
    <3>1. Becomes(j, "lookup", "shared", file[j], tries[j], lib[j], jar[j], place[j])
      BY <1>a, <1>6, <2>1, SameProcess DEF Tighten, Goto, search, Becomes
    <3>2. fs' = fs /\ FilesChange(j)
      BY <1>d, <1>6, <2>1 DEF Tighten, Goto
    <3>3. Fits(j, "lookup", "shared", file[j], tries[j], lib[j], jar[j], place[j])
      BY <1>a, <1>b, <1>6, <2>1, <3>2, SameProcess, SizeAssumption
         DEF Tighten, Goto, Fits, Begins, StaysOwn, StaysThere, Extracting, Loading
    <3> QED
      BY <1>a, <1>c, <1>f, <1>g, <2>a, <3>1, <3>2, <3>3, SameProcess, ProcessStep
  <2> QED
    BY <1>6, <2>1 DEF Tighten, Goto
<1>7. ASSUME NEW j \in Jvm, Reuse(j) PROVE IInv'
  <2>a. /\ pc[j] # "off" /\ world' = world
        /\ shared' \in {"absent", "loose", "ours", "foreign"}
    BY <1>g, <1>7 DEF Reuse, search
  <2>1. CASE file[j] = "engine"
    <3>1. Becomes(j, "extract", dir[j], "shim", tries[j], lib[j], jar[j], place[j])
      BY <1>a, <1>7, <2>1, SameProcess DEF Reuse, Goto, Extracted, Target, search, Becomes
    <3>2. fs' = fs /\ FilesChange(j)
      BY <1>d, <1>7, <2>1 DEF Reuse, Goto, Extracted, Target
    <3>3. Fits(j, "extract", dir[j], "shim", tries[j], lib[j], jar[j], place[j])
      BY <1>a, <1>b, <1>7, <2>1, <3>2, SameProcess, SizeAssumption, SMTT(30)
         DEF Reuse, Goto, Extracted, Target, Fits, Begins, StaysOwn, StaysThere, Extracting, Loading
    <3> QED
      BY <1>a, <1>c, <1>f, <1>g, <2>a, <3>1, <3>2, <3>3, SameProcess, ProcessStep
  <2>2. CASE file[j] # "engine"
    <3>1. Becomes(j, "engine", dir[j], file[j], tries[j], lib[j], jar[j], place[j])
      BY <1>a, <1>7, <2>2, SameProcess DEF Reuse, Goto, Extracted, Target, search, Becomes
    <3>2. fs' = fs /\ FilesChange(j)
      BY <1>d, <1>7, <2>2 DEF Reuse, Goto, Extracted, Target
    <3>3. Fits(j, "engine", dir[j], file[j], tries[j], lib[j], jar[j], place[j])
      BY <1>a, <1>b, <1>7, <2>2, <3>2, SameProcess, SizeAssumption, SMTT(30)
         DEF Reuse, Goto, Extracted, Target, Fits, Begins, StaysOwn, StaysThere, Extracting, Loading
    <3> QED
      BY <1>a, <1>c, <1>f, <1>g, <2>a, <3>1, <3>2, <3>3, SameProcess, ProcessStep
  <2> QED
    BY <1>7, <2>1, <2>2 DEF Reuse, Goto, Extracted, Target
<1>8. ASSUME NEW j \in Jvm, Stage(j) PROVE IInv'
  <2>a. /\ pc[j] # "off" /\ world' = world
        /\ shared' \in {"absent", "loose", "ours", "foreign"}
    BY <1>g, <1>8 DEF Stage, search
  <2>1. CASE Goto(j, "move") /\ UNCHANGED <<fs, dir, file, tries>>
    <3>1. Becomes(j, "move", dir[j], file[j], tries[j], lib[j], jar[j], place[j])
      BY <1>a, <1>8, <2>1, SameProcess DEF Stage, Goto, search, Becomes
    <3>2. fs' = fs /\ FilesChange(j)
      BY <1>d, <1>8, <2>1 DEF Stage, Goto
    <3>3. Fits(j, "move", dir[j], file[j], tries[j], lib[j], jar[j], place[j])
      BY <1>a, <1>b, <1>8, <2>1, <3>2, SameProcess, SizeAssumption
         DEF Stage, Goto, Fits, Begins, StaysOwn, StaysThere, Extracting, Loading
    <3> QED
      BY <1>a, <1>c, <1>f, <1>g, <2>a, <3>1, <3>2, <3>3, SameProcess, ProcessStep
  <2>2. CASE GiveUp(j)
    BY <1>h, <1>8, <2>2 DEF Stage
  <2> QED
    BY <1>8, <2>1, <2>2 DEF Stage, Goto
<1>9. ASSUME NEW j \in Jvm, Move(j) PROVE IInv'
  <2>a. /\ pc[j] # "off" /\ world' = world
        /\ shared' \in {"absent", "loose", "ours", "foreign"}
    BY <1>g, <1>9 DEF Move, search
  <2>1. CASE GiveUp(j)
    BY <1>h, <1>9, <2>1 DEF Move
  <2>2. CASE /\ Write(j, Whole(jar[j])) /\ Extracted(j) /\ UNCHANGED <<dir, tries>>
             /\ file[j] = "engine"
    <3>1. Becomes(j, "extract", dir[j], "shim", tries[j], lib[j], jar[j], place[j])
      BY <1>a, <1>9, <2>2, SameProcess DEF Move, Goto, Extracted, search, Becomes
    <3>2. /\ fs'[dir[j]][file[j]] = Whole(jar[j]) /\ FilesChange(j)
          /\ \A g \in File : g # file[j] => fs'[dir[j]][g] = fs[dir[j]][g]
      <4>1. Whole(jar[j]) \in Content /\ Write(j, Whole(jar[j]))
        BY <1>a, <1>g, <1>9, <2>2, SameProcess, SizeAssumption DEF Move, Goto, Extracted, Content
      <4>2. world.atomic => IsWhole(Whole(jar[j]))
        BY <1>a, <1>b, <1>9, SameProcess DEF Move
      <4> QED
        BY <1>a, <4>1, <4>2, WriteFacts, SameProcess DEF FilesChange
    <3>3. Fits(j, "extract", dir[j], "shim", tries[j], lib[j], jar[j], place[j])
      BY <1>a, <1>b, <1>9, <2>2, <3>2, SameProcess, SizeAssumption
         DEF Move, Goto, Extracted, Fits, Begins, StaysOwn, StaysThere, Extracting, Loading
    <3> QED
      BY <1>a, <1>c, <1>f, <1>g, <2>a, <3>1, <3>2, <3>3, SameProcess, ProcessStep
  <2>3. CASE /\ Write(j, Whole(jar[j])) /\ Extracted(j) /\ UNCHANGED <<dir, tries>>
             /\ file[j] # "engine"
    <3>1. Becomes(j, "engine", dir[j], file[j], tries[j], lib[j], jar[j], place[j])
      BY <1>a, <1>9, <2>3, SameProcess DEF Move, Goto, Extracted, search, Becomes
    <3>2. /\ fs'[dir[j]][file[j]] = Whole(jar[j]) /\ FilesChange(j)
          /\ \A g \in File : g # file[j] => fs'[dir[j]][g] = fs[dir[j]][g]
      <4>1. Whole(jar[j]) \in Content /\ Write(j, Whole(jar[j]))
        BY <1>a, <1>g, <1>9, <2>3, SameProcess, SizeAssumption DEF Move, Goto, Extracted, Content
      <4>2. world.atomic => IsWhole(Whole(jar[j]))
        BY <1>a, <1>b, <1>9, SameProcess DEF Move
      <4> QED
        BY <1>a, <4>1, <4>2, WriteFacts, SameProcess DEF FilesChange
    <3>3. Fits(j, "engine", dir[j], file[j], tries[j], lib[j], jar[j], place[j])
      BY <1>a, <1>b, <1>9, <2>3, <3>2, SameProcess, SizeAssumption
         DEF Move, Goto, Extracted, Fits, Begins, StaysOwn, StaysThere, Extracting, Loading
    <3> QED
      BY <1>a, <1>c, <1>f, <1>g, <2>a, <3>1, <3>2, <3>3, SameProcess, ProcessStep
  <2> QED
    BY <1>9, <2>1, <2>2, <2>3 DEF Move, Goto, Extracted
<1>10. ASSUME NEW j \in Jvm, Clear(j) PROVE IInv'
  <2>a. /\ pc[j] # "off" /\ world' = world
        /\ shared' \in {"absent", "loose", "ours", "foreign"}
    BY <1>g, <1>10 DEF Clear, search
  <2>1. CASE GiveUp(j)
    BY <1>h, <1>10, <2>1 DEF Clear
  <2>2. CASE Write(j, Absent) /\ Goto(j, "copy") /\ UNCHANGED <<dir, file, tries>>
    <3>1. Becomes(j, "copy", dir[j], file[j], tries[j], lib[j], jar[j], place[j])
      BY <1>a, <1>10, <2>2, SameProcess DEF Clear, Goto, search, Becomes
    <3>2. /\ fs'[dir[j]][file[j]] = Absent /\ FilesChange(j)
          /\ \A g \in File : g # file[j] => fs'[dir[j]][g] = fs[dir[j]][g]
      <4>1. Absent \in Content /\ Write(j, Absent)
        BY <1>a, <1>g, <1>10, <2>2, SameProcess, SizeAssumption DEF Clear, Goto, Content
      <4>2. world.atomic => IsWhole(Absent)
        BY <1>a, <1>b, <1>10, SameProcess DEF Clear
      <4> QED
        BY <1>a, <4>1, <4>2, WriteFacts, SameProcess DEF FilesChange
    <3>3. Fits(j, "copy", dir[j], file[j], tries[j], lib[j], jar[j], place[j])
      BY <1>a, <1>b, <1>10, <2>2, <3>2, SameProcess, SizeAssumption
         DEF Clear, Goto, Fits, Begins, StaysOwn, StaysThere, Extracting, Loading
    <3> QED
      BY <1>a, <1>c, <1>f, <1>g, <2>a, <3>1, <3>2, <3>3, SameProcess, ProcessStep
  <2> QED
    BY <1>10, <2>1, <2>2 DEF Clear, Goto
<1>11. ASSUME NEW j \in Jvm, Copy(j) PROVE IInv'
  <2>a. /\ pc[j] # "off" /\ world' = world
        /\ shared' \in {"absent", "loose", "ours", "foreign"}
    BY <1>g, <1>11 DEF Copy, search
  <2>b. /\ fs[dir[j]][file[j]].len \in Nat /\ Size[jar[j]] \in Nat
        /\ (~world.overlap /\ place[j] = "classpath" =>
              /\ fs[dir[j]][file[j]].len <= Size[jar[j]]
              /\ Target(j).len >= Size[jar[j]] => fs[dir[j]][file[j]].len = Size[jar[j]])
    <3>1. fs[dir[j]][file[j]] \in Content
      BY <1>a, <1>g, SameProcess
    <3>2. fs[dir[j]][file[j]].len \in Nat /\ Size[jar[j]] \in Nat
      BY <1>a, <3>1, SameProcess, SizeAssumption DEF Content
    <3>3. ~world.overlap /\ place[j] = "classpath" => fs[dir[j]][file[j]].len <= Size[jar[j]]
      BY <1>b, <1>11 DEF Copy, StaysOwn
    <3> QED
      BY <3>2, <3>3 DEF Target
  <2>1. CASE /\ Target(j).len < Size[jar[j]]
             /\ Write(j, [ver |-> jar[j], len |-> Target(j).len + 1])
             /\ UNCHANGED <<pc, dir, file, tries>>
    <3>1. Becomes(j, pc[j], dir[j], file[j], tries[j], lib[j], jar[j], place[j])
      BY <1>a, <1>11, <2>1, SameProcess DEF Copy, Goto, Extracted, Target, search, Becomes
    <3>2. /\ fs'[dir[j]][file[j]] = [ver |-> jar[j], len |-> Target(j).len + 1] /\ FilesChange(j)
          /\ \A g \in File : g # file[j] => fs'[dir[j]][g] = fs[dir[j]][g]
      <4>1. [ver |-> jar[j], len |-> Target(j).len + 1] \in Content /\ Write(j, [ver |-> jar[j], len |-> Target(j).len + 1])
        BY <1>a, <1>g, <1>11, <2>1, SameProcess, SizeAssumption DEF Copy, Goto, Extracted, Target, Content
      <4>2. world.atomic => IsWhole([ver |-> jar[j], len |-> Target(j).len + 1])
        BY <1>a, <1>b, <1>11, SameProcess DEF Copy
      <4> QED
        BY <1>a, <4>1, <4>2, WriteFacts, SameProcess DEF FilesChange
    <3>3. Fits(j, pc[j], dir[j], file[j], tries[j], lib[j], jar[j], place[j])
      BY <1>a, <1>b, <2>b, <1>11, <2>1, <3>2, SameProcess, SizeAssumption
         DEF Copy, Goto, Extracted, Target, Fits, Begins, StaysOwn, StaysThere, Extracting, Loading
    <3> QED
      BY <1>a, <1>c, <1>f, <1>g, <2>a, <3>1, <3>2, <3>3, SameProcess, ProcessStep
  <2>2. CASE /\ Target(j).len >= Size[jar[j]]
             /\ Extracted(j) /\ UNCHANGED <<fs, dir, tries>>
             /\ file[j] = "engine"
    <3>1. Becomes(j, "extract", dir[j], "shim", tries[j], lib[j], jar[j], place[j])
      BY <1>a, <1>11, <2>2, SameProcess DEF Copy, Goto, Extracted, Target, search, Becomes
    <3>2. fs' = fs /\ FilesChange(j)
      BY <1>d, <1>11, <2>2 DEF Copy, Goto, Extracted, Target
    <3>3. Fits(j, "extract", dir[j], "shim", tries[j], lib[j], jar[j], place[j])
      BY <1>a, <1>b, <2>b, <1>11, <2>2, <3>2, SameProcess, SizeAssumption
         DEF Copy, Goto, Extracted, Target, Fits, Begins, StaysOwn, StaysThere, Extracting, Loading
    <3> QED
      BY <1>a, <1>c, <1>f, <1>g, <2>a, <3>1, <3>2, <3>3, SameProcess, ProcessStep
  <2>3. CASE /\ Target(j).len >= Size[jar[j]]
             /\ Extracted(j) /\ UNCHANGED <<fs, dir, tries>>
             /\ file[j] # "engine"
    <3>1. Becomes(j, "engine", dir[j], file[j], tries[j], lib[j], jar[j], place[j])
      BY <1>a, <1>11, <2>3, SameProcess DEF Copy, Goto, Extracted, Target, search, Becomes
    <3>2. fs' = fs /\ FilesChange(j)
      BY <1>d, <1>11, <2>3 DEF Copy, Goto, Extracted, Target
    <3>3. Fits(j, "engine", dir[j], file[j], tries[j], lib[j], jar[j], place[j])
      BY <1>a, <1>b, <2>b, <1>11, <2>3, <3>2, SameProcess, SizeAssumption
         DEF Copy, Goto, Extracted, Target, Fits, Begins, StaysOwn, StaysThere, Extracting, Loading
    <3> QED
      BY <1>a, <1>c, <1>f, <1>g, <2>a, <3>1, <3>2, <3>3, SameProcess, ProcessStep
  <2>4. CASE GiveUp(j)
    BY <1>h, <1>11, <2>4 DEF Copy
  <2> QED
    BY <1>11, <2>1, <2>2, <2>3, <2>4 DEF Copy, Goto, Extracted, Target
<1>12. ASSUME NEW j \in Jvm, Load(j, "engine", "shim") PROVE IInv'
  <2>a. /\ pc[j] # "off" /\ world' = world
        /\ shared' \in {"absent", "loose", "ours", "foreign"}
    BY <1>g, <1>12 DEF Load, search
  <2>1. CASE /\ IsWhole(fs[dir[j]]["engine"])
             /\ lib' = [lib EXCEPT ![j]["engine"] = fs[dir[j]]["engine"]]
             /\ Goto(j, "shim")
    <3> DEFINE l == [lib[j] EXCEPT !["engine"] = fs[dir[j]]["engine"]]
    <3>1. Becomes(j, "shim", dir[j], file[j], tries[j], l, jar[j], place[j])
      BY <1>a, <1>12, <2>1, SameProcess DEF Load, Goto, search, Becomes
    <3>2. fs' = fs /\ FilesChange(j)
      BY <1>d, <1>12, <2>1 DEF Load, Goto
    <3>6. l \in [File -> Content]
      <4>1. fs[dir[j]]["engine"] \in Content /\ lib[j] \in [File -> Content]
        BY <1>a, <1>g, SameProcess
      <4> QED
        BY <4>1
    <3>3. Fits(j, "shim", dir[j], file[j], tries[j], l, jar[j], place[j])
      BY <1>a, <1>b, <1>12, <2>1, <3>2, SameProcess, SizeAssumption
         DEF Load, Goto, Fits, Begins, StaysOwn, StaysThere, Extracting, Loading
    <3> HIDE DEF l
    <3> QED
      BY <1>a, <1>c, <1>f, <1>g, <2>a, <3>1, <3>2, <3>3, <3>6, SameProcess, ProcessStep
  <2>2. CASE Goto(j, "shim") /\ fs[dir[j]]["engine"] = Absent /\ UNCHANGED lib
    <3>1. Becomes(j, "shim", dir[j], file[j], tries[j], lib[j], jar[j], place[j])
      BY <1>a, <1>12, <2>2, SameProcess DEF Load, Goto, search, Becomes
    <3>2. fs' = fs /\ FilesChange(j)
      BY <1>d, <1>12, <2>2 DEF Load, Goto
    <3>3. Fits(j, "shim", dir[j], file[j], tries[j], lib[j], jar[j], place[j])
      BY <1>a, <1>b, <1>12, <2>2, <3>2, SameProcess, SizeAssumption
         DEF Load, Goto, Fits, Begins, StaysOwn, StaysThere, Extracting, Loading
    <3> QED
      BY <1>a, <1>c, <1>f, <1>g, <2>a, <3>1, <3>2, <3>3, SameProcess, ProcessStep
  <2>3. CASE Goto(j, "failed") /\ UNCHANGED lib
    <3>1. Becomes(j, "failed", dir[j], file[j], tries[j], lib[j], jar[j], place[j])
      BY <1>a, <1>12, <2>3, SameProcess DEF Load, Goto, search, Becomes
    <3>2. fs' = fs /\ FilesChange(j)
      BY <1>d, <1>12, <2>3 DEF Load, Goto
    <3>3. Fits(j, "failed", dir[j], file[j], tries[j], lib[j], jar[j], place[j])
      BY <1>a, <1>b, <1>12, <2>3, <3>2, SameProcess, SizeAssumption
         DEF Load, Goto, Fits, Begins, StaysOwn, StaysThere, Extracting, Loading
    <3> QED
      BY <1>a, <1>c, <1>f, <1>g, <2>a, <3>1, <3>2, <3>3, SameProcess, ProcessStep
  <2> QED
    BY <1>12, <2>1, <2>2, <2>3 DEF Load, Unlinked, Goto
<1>13. ASSUME NEW j \in Jvm, Load(j, "shim", "verify") PROVE IInv'
  <2>a. /\ pc[j] # "off" /\ world' = world
        /\ shared' \in {"absent", "loose", "ours", "foreign"}
    BY <1>g, <1>13 DEF Load, search
  <2>1. CASE /\ IsWhole(fs[dir[j]]["shim"])
             /\ lib' = [lib EXCEPT ![j]["shim"] = fs[dir[j]]["shim"]]
             /\ Goto(j, "verify")
    <3> DEFINE l == [lib[j] EXCEPT !["shim"] = fs[dir[j]]["shim"]]
    <3>1. Becomes(j, "verify", dir[j], file[j], tries[j], l, jar[j], place[j])
      BY <1>a, <1>13, <2>1, SameProcess DEF Load, Goto, search, Becomes
    <3>2. fs' = fs /\ FilesChange(j)
      BY <1>d, <1>13, <2>1 DEF Load, Goto
    <3>6. l \in [File -> Content]
      <4>1. fs[dir[j]]["shim"] \in Content /\ lib[j] \in [File -> Content]
        BY <1>a, <1>g, SameProcess
      <4> QED
        BY <4>1
    <3>3. Fits(j, "verify", dir[j], file[j], tries[j], l, jar[j], place[j])
      BY <1>a, <1>b, <1>13, <2>1, <3>2, SameProcess, SizeAssumption
         DEF Load, Goto, Fits, Begins, StaysOwn, StaysThere, Extracting, Loading
    <3> HIDE DEF l
    <3> QED
      BY <1>a, <1>c, <1>f, <1>g, <2>a, <3>1, <3>2, <3>3, <3>6, SameProcess, ProcessStep
  <2>2. CASE Goto(j, "failed") /\ UNCHANGED lib
    <3>1. Becomes(j, "failed", dir[j], file[j], tries[j], lib[j], jar[j], place[j])
      BY <1>a, <1>13, <2>2, SameProcess DEF Load, Goto, search, Becomes
    <3>2. fs' = fs /\ FilesChange(j)
      BY <1>d, <1>13, <2>2 DEF Load, Goto
    <3>3. Fits(j, "failed", dir[j], file[j], tries[j], lib[j], jar[j], place[j])
      BY <1>a, <1>b, <1>13, <2>2, <3>2, SameProcess, SizeAssumption
         DEF Load, Goto, Fits, Begins, StaysOwn, StaysThere, Extracting, Loading
    <3> QED
      BY <1>a, <1>c, <1>f, <1>g, <2>a, <3>1, <3>2, <3>3, SameProcess, ProcessStep
  <2> QED
    BY <1>13, <2>1, <2>2 DEF Load, Unlinked, Goto
<1>14. ASSUME NEW j \in Jvm, Verify(j) PROVE IInv'
  <2>a. /\ pc[j] # "off" /\ world' = world
        /\ shared' \in {"absent", "loose", "ours", "foreign"}
    BY <1>g, <1>14 DEF Verify, search
  <2>1. CASE Goto(j, "ready")
    <3>1. Becomes(j, "ready", dir[j], file[j], tries[j], lib[j], jar[j], place[j])
      BY <1>a, <1>14, <2>1, SameProcess DEF Verify, Goto, search, Becomes
    <3>2. fs' = fs /\ FilesChange(j)
      BY <1>d, <1>14, <2>1 DEF Verify, Goto
    <3>3. Fits(j, "ready", dir[j], file[j], tries[j], lib[j], jar[j], place[j])
      BY <1>a, <1>b, <1>14, <2>1, <3>2, SameProcess, SizeAssumption
         DEF Verify, Goto, Fits, Begins, StaysOwn, StaysThere, Extracting, Loading
    <3> QED
      BY <1>a, <1>c, <1>f, <1>g, <2>a, <3>1, <3>2, <3>3, SameProcess, ProcessStep
  <2>2. CASE Goto(j, "failed")
    <3>1. Becomes(j, "failed", dir[j], file[j], tries[j], lib[j], jar[j], place[j])
      BY <1>a, <1>14, <2>2, SameProcess DEF Verify, Goto, search, Becomes
    <3>2. fs' = fs /\ FilesChange(j)
      BY <1>d, <1>14, <2>2 DEF Verify, Goto
    <3>3. Fits(j, "failed", dir[j], file[j], tries[j], lib[j], jar[j], place[j])
      BY <1>a, <1>b, <1>14, <2>2, <3>2, SameProcess, SizeAssumption
         DEF Verify, Goto, Fits, Begins, StaysOwn, StaysThere, Extracting, Loading
    <3> QED
      BY <1>a, <1>c, <1>f, <1>g, <2>a, <3>1, <3>2, <3>3, SameProcess, ProcessStep
  <2> QED
    BY <1>14, <2>1, <2>2 DEF Verify, Goto
<1>15. ASSUME NEW j \in Jvm, End(j) PROVE IInv'
  <2>a. /\ pc[j] # "off" /\ world' = world
        /\ shared' \in {"absent", "loose", "ours", "foreign"}
    BY <1>g, <1>15 DEF End, search
  <2>1. CASE TRUE
    <3>1. Becomes(j, "off", j, "engine", 1, NoPair, jar[j], place[j])
      BY <1>a, <1>15, <2>1, SameProcess DEF End, Goto, search, Becomes
    <3>2. fs' = [fs EXCEPT ![j] = NoPair] /\ fs'[j] = NoPair /\ FilesChange(j)
      BY <1>e, <1>g, <1>15, <2>1 DEF End, Goto
    <3>3. Fits(j, "off", j, "engine", 1, NoPair, jar[j], place[j])
      BY <1>a, <1>b, <1>15, <2>1, <3>2, SameProcess, SizeAssumption
         DEF End, Goto, Fits, Begins, StaysOwn, StaysThere, Extracting, Loading
    <3> QED
      BY <1>a, <1>c, <1>f, <1>g, <2>a, <3>1, <3>2, <3>3, SameProcess, ProcessStep, SMTT(30)
  <2> QED
    BY <1>15, <2>1 DEF End, Goto
<1>16. CASE UNCHANGED vars
  BY <1>a, <1>16 DEF vars, IInv, TypeOK, OneAtATime, ProcessesBegin, AloneStaysOwn,
     FilesStayWhole, OnClasspath
<1> QED
  BY <1>1, <1>2, <1>3, <1>4, <1>5, <1>6, <1>7, <1>8, <1>9, <1>10, <1>11, <1>12, <1>13, <1>14, <1>15, <1>16 DEF Next

(* The inductive invariant holds of every behaviour. *)
THEOREM Inductive == Spec => []IInv
BY Initially, Inductively, PTL DEF Spec

(* Every variable stays in its type: no process extracts into a third      *)
(* directory.                                                              *)
THEOREM TypeCorrect == Spec => []TypeOK
<1>1. IInv => TypeOK
  BY DEF IInv
<1> QED
  BY <1>1, Inductive, PTL

(* Processes that run one after the other, and are stopped anywhere, each  *)
(* load whole libraries of the length of their own, if nothing at all is   *)
(* known of the lengths of other versions.                                 *)
THEOREM AloneRunsOwnLength == Spec => []OwnLengthAlone
<1>1. IInv => OwnLengthAlone
  <2> SUFFICES ASSUME IInv, ~world.overlap, NEW j \in Jvm, NEW f \in File,
                      pc[j] = "ready", place[j] = "classpath"
               PROVE  IsWhole(lib[j][f]) /\ lib[j][f].len = Size[jar[j]]
    BY DEF OwnLengthAlone
  <2>1. lib[j][f] \in Content /\ jar[j] \in Version
    BY SameProcess DEF IInv
  <2>2. lib[j]["engine"].len = Size[jar[j]] /\ lib[j]["shim"].len = Size[jar[j]]
    BY DEF IInv, AloneStaysOwn, OnClasspath, StaysOwn
  <2>3. lib[j][f].len = Size[jar[j]]
    BY <2>2, FileFacts
  <2>4. lib[j][f] = Absent \/ IsWhole(lib[j][f])
    BY DEF IInv, ProcessesBegin, Begins
  <2> QED
    BY <2>1, <2>3, <2>4, ContentFacts
<1> QED
  BY <1>1, Inductive, PTL

(* So they load the pair of their own jar, if versions can be told apart   *)
(* by the length of their libraries.                                       *)
THEOREM AloneRunsOwnPair == LengthsDiffer => (Spec => []OwnPairAlone)
<1> SUFFICES ASSUME LengthsDiffer PROVE Spec => []OwnPairAlone
  OBVIOUS
<1>1. IInv /\ OwnLengthAlone => OwnPairAlone
  <2> SUFFICES ASSUME IInv, OwnLengthAlone, ~world.overlap, NEW j \in Jvm,
                      pc[j] = "ready", place[j] = "classpath"
               PROVE  lib[j] = [f \in File |-> Whole(jar[j])]
    BY DEF OwnPairAlone, OwnPair
  <2>1. lib[j] \in [File -> Content] /\ jar[j] \in Version
    BY SameProcess DEF IInv
  <2>2. ASSUME NEW f \in File PROVE lib[j][f] = Whole(jar[j])
    <3>1. IsWhole(lib[j][f]) /\ lib[j][f].len = Size[jar[j]] /\ lib[j][f] \in Content
      BY <2>1 DEF OwnLengthAlone
    <3>2. lib[j][f].ver = jar[j]
      BY <2>1, <3>1, ContentFacts DEF LengthsDiffer
    <3> QED
      BY <3>1, <3>2 DEF IsWhole
  <2> QED
    BY <2>1, <2>2
<1> QED
  BY <1>1, AloneRunsOwnLength, Inductive, PTL

(* A process with its pair on the classpath never fails to load, whatever  *)
(* others do at the same time, if nothing prevents it from writing files   *)
(* and moving them, and the versions that meet can be mixed.               *)
THEOREM AlwaysLoads == Spec => []ClasspathSuffices
<1>1. Init => ClasspathSuffices
  BY DEF Init, ClasspathSuffices
<1>2. IInv /\ ClasspathSuffices /\ [Next]_vars => ClasspathSuffices'
  <2> SUFFICES ASSUME IInv, ClasspathSuffices, [Next]_vars,
                      Compatible, ~world'.faults, world'.atomic,
                      NEW k \in Jvm, place'[k] = "classpath", pc'[k] = "failed"
               PROVE  FALSE
    BY DEF ClasspathSuffices
  <2>a. TypeOK
    BY DEF IInv
  <2>b. world' = world
    BY DEF Next, vars, Start, Find, Lookup, UseDir, MakeDir, Tighten, Reuse, Stage, Move,
           Clear, Copy, Load, Verify, End, search
  <2>c. pc[k] # "failed" \/ place[k] # "classpath"
    BY <2>b DEF ClasspathSuffices
  <2>d. /\ Begins(k, pc[k], dir[k], file[k], tries[k], lib[k])
        /\ pc[k] # "copy"
        /\ place[k] = "classpath" => StaysThere(pc[k], file[k], lib[k], fs[dir[k]])
    BY <2>b DEF IInv, ProcessesBegin, FilesStayWhole, OnClasspath
  <2>e. \A d \in Dir, f \in File : fs[d][f] = Absent \/ IsWhole(fs[d][f])
    BY <2>b DEF IInv, FilesStayWhole
  <2>1. CASE UNCHANGED vars
    BY <2>1, <2>c DEF vars
  <2>2. ASSUME NEW j \in Jvm, Start(j) PROVE FALSE
    BY <2>2, <2>a, <2>c DEF Start, Goto, TypeOK
  <2>3. ASSUME NEW j \in Jvm, End(j) PROVE FALSE
    BY <2>3, <2>a, <2>c DEF End, Goto, search, TypeOK
  <2>4. ASSUME NEW j \in Jvm,
               Find(j) \/ Lookup(j) \/ UseDir(j) \/ MakeDir(j) \/ Tighten(j)
        PROVE  FALSE
    BY <2>4, <2>a, <2>c
       DEF Find, Lookup, UseDir, MakeDir, Tighten, PrivateDir, Goto, search, TypeOK
  <2>5. ASSUME NEW j \in Jvm, Reuse(j) PROVE FALSE
    BY <2>5, <2>a, <2>c DEF Reuse, Extracted, Goto, search, TypeOK
  <2>6. ASSUME NEW j \in Jvm, Stage(j) PROVE FALSE
    BY <2>6, <2>a, <2>b, <2>c DEF Stage, Goto, search, TypeOK
  <2>7. ASSUME NEW j \in Jvm, Clear(j) \/ Copy(j) PROVE FALSE
    <3>1. world.atomic => pc[j] # "copy"
      BY DEF IInv, FilesStayWhole
    <3> QED
      BY <2>7, <2>b, <3>1 DEF Clear, Copy
  <2>8. ASSUME NEW j \in Jvm, Move(j) PROVE FALSE
    <3>1. CASE j # k
      BY <2>8, <2>a, <2>c, <3>1 DEF Move, GiveUp, Extracted, Goto, search, TypeOK
    <3>2. CASE j = k
      <4>1. Locked(k) /\ tries[k] # 1
        BY <2>8, <2>a, <2>b, <3>2 DEF Move, GiveUp, Extracted, Goto, TypeOK
      <4>2. dir[k] = k /\ lib[k] = NoPair /\ file[k] \in File
        BY <2>8, <2>a, <2>d, <3>2, <4>1, SameProcess
           DEF Move, Begins, Extracting, Loading
      <4>3. PICK i \in Jvm : dir[i] = dir[k] /\ lib[i][file[k]] # Absent
        BY <4>1 DEF Locked
      <4>4. i = k
        BY <4>2, <4>3, FileFacts DEF IInv, ProcessesBegin, Begins
      <4> QED
        BY <4>2, <4>3, <4>4, ContentFacts
    <3> QED
      BY <3>1, <3>2
  <2>9. ASSUME NEW j \in Jvm, NEW f \in {"engine", "shim"}, NEW next \in {"shim", "verify"},
               Load(j, f, next)
        PROVE  FALSE
    <3>1. CASE j # k
      BY <2>9, <2>a, <2>c, <3>1 DEF Load, Goto, search, TypeOK
    <3>2. CASE j = k
      <4>1. place[k] = "classpath" /\ pc[k] = f /\ dir[k] \in Dir /\ f \in File
        BY <2>9, <2>a, <3>2, SameProcess, FileFacts DEF Load, search
      <4>2. fs[dir[k]][f] # Absent
        BY <2>d, <4>1 DEF StaysThere, Loading
      <4>3. IsWhole(fs[dir[k]][f])
        BY <2>e, <4>1, <4>2
      <4>4. ~Unlinked(k, f, fs[dir[k]][f])
        <5> SUFFICES ASSUME f = "shim"
                     PROVE  <<fs[dir[k]][f].ver, lib[k]["engine"].ver>> \in Links
          BY DEF Unlinked
        <5>1. lib[k]["engine"] # Absent /\ lib[k] \in [File -> Content]
          BY <2>a, <2>d, <4>1, SameProcess DEF StaysThere
        <5>2. IsWhole(lib[k]["engine"]) /\ lib[k]["engine"] \in Content
          BY <2>d, <5>1, FileFacts DEF Begins
        <5>3. fs[dir[k]][f] \in Content
          BY <2>a, <4>1 DEF TypeOK
        <5> QED
          BY <4>3, <5>2, <5>3, ContentFacts DEF Compatible
      <4> QED
        BY <2>9, <2>a, <3>2, <4>3, <4>4 DEF Load, Goto, TypeOK
    <3> QED
      BY <3>1, <3>2
  <2>10. ASSUME NEW j \in Jvm, Verify(j) PROVE FALSE
    <3>1. CASE j # k
      BY <2>10, <2>a, <2>c, <3>1 DEF Verify, Goto, search, TypeOK
    <3>2. CASE j = k
      <4>1. place[k] = "classpath" /\ pc[k] = "verify" /\ jar[k] \in Version
            /\ lib[k] \in [File -> Content]
        BY <2>10, <2>a, <3>2, SameProcess DEF Verify, search
      <4>2. lib[k]["engine"] # Absent
        BY <2>d, <4>1 DEF StaysThere
      <4>3. lib[k]["engine"].ver \in Version
        <5>1. IsWhole(lib[k]["engine"]) /\ lib[k]["engine"] \in Content
          BY <2>d, <4>1, <4>2, FileFacts DEF Begins
        <5> QED
          BY <5>1, ContentFacts
      <4>4. Abi[lib[k]["engine"].ver] = Abi[jar[k]]
        BY <4>1, <4>3 DEF Compatible
      <4> QED
        BY <2>10, <2>a, <3>2, <4>2, <4>4 DEF Verify, Goto, TypeOK
    <3> QED
      BY <3>1, <3>2
  <2> QED
    BY <2>1, <2>2, <2>3, <2>4, <2>5, <2>6, <2>7, <2>8, <2>9, <2>10 DEF Next
<1> QED
  BY <1>1, <1>2, Inductive, PTL DEF Spec

(* The counts behind StepsLeft. *)
LEMMA StepFacts ==
  /\ StepsBehind["find"] = 19 /\ StepsBehind["dir"] = 18 /\ StepsBehind["tighten"] = 17
  /\ StepsBehind["lookup"] = 16 /\ StepsBehind["extract"] = 6 /\ StepsBehind["move"] = 5
  /\ StepsBehind["copy"] = 4 /\ StepsBehind["engine"] = 3 /\ StepsBehind["shim"] = 2
  /\ StepsBehind["verify"] = 1 /\ StepsBehind["ready"] = 0 /\ StepsBehind["failed"] = 0
BY DEF StepsBehind

(* Process j, alone, comes nearer to its end. *)
Advances(j) ==
  /\ \A k \in Jvm \ {j} : UNCHANGED <<pc[k], file[k], tries[k]>>
  /\ \/ UNCHANGED <<pc[j], file[j], tries[j]>>
     \/ StepsLeft(pc'[j], file'[j], tries'[j]) < StepsLeft(pc[j], file[j], tries[j])

(* The next file, or the loading behind the second. *)
LEMMA ExtractedAdvances ==
  ASSUME TypeOK, NEW j \in Jvm, pc[j] \in Extracting, Extracted(j), UNCHANGED tries
  PROVE  Advances(j)
<1>1. tries[j] \in 1..2 /\ file[j] \in {"engine", "shim"}
  BY DEF TypeOK, File
<1> QED
  BY <1>1, StepFacts
     DEF TypeOK, Extracted, Goto, Advances, StepsLeft, Extracting

(* The second directory, or the end. *)
LEMMA GiveUpAdvances ==
  ASSUME TypeOK, NEW j \in Jvm, pc[j] \in {"extract", "move", "copy"}, GiveUp(j)
  PROVE  Advances(j)
<1>1. tries[j] \in 1..2 /\ file[j] \in {"engine", "shim"}
  BY DEF TypeOK, File
<1> QED
  BY <1>1, StepFacts DEF TypeOK, GiveUp, Goto, Advances, StepsLeft, Extracting

(* Each step of a process in load() is one nearer to its end, and nobody   *)
(* else's moves it back: on any machine, however many processes race.      *)
THEOREM EveryStepAdvances == Spec => LoadAdvances
<1>1. IInv /\ [Next]_vars =>
        \A j \in Jvm :
          pc[j] # "off" /\ pc'[j] # "off" =>
            \/ UNCHANGED <<pc[j], file[j], tries[j]>>
            \/ StepsLeft(pc'[j], file'[j], tries'[j]) < StepsLeft(pc[j], file[j], tries[j])
  <2> SUFFICES ASSUME IInv, [Next]_vars, NEW k \in Jvm, pc[k] # "off", pc'[k] # "off"
               PROVE  \/ UNCHANGED <<pc[k], file[k], tries[k]>>
                      \/ StepsLeft(pc'[k], file'[k], tries'[k])
                           < StepsLeft(pc[k], file[k], tries[k])
    OBVIOUS
  <2>a. TypeOK
    BY DEF IInv
  <2>b. ASSUME NEW j \in Jvm, Advances(j)
        PROVE  \/ UNCHANGED <<pc[k], file[k], tries[k]>>
               \/ StepsLeft(pc'[k], file'[k], tries'[k])
                    < StepsLeft(pc[k], file[k], tries[k])
    BY <2>b DEF Advances
  <2>c. \A j \in Jvm : /\ tries[j] \in 1..2 /\ file[j] \in {"engine", "shim"}
                       /\ pc[j] \notin Extracting \cup Loading \cup {"failed"} =>
                            file[j] = "engine" /\ tries[j] = 1
    BY DEF IInv, ProcessesBegin, Begins, TypeOK, File
  <2>1. CASE UNCHANGED vars
    BY <2>1 DEF vars
  <2>2. ASSUME NEW j \in Jvm, Start(j) \/ End(j)
        PROVE  UNCHANGED <<pc[k], file[k], tries[k]>>
    BY <2>2, <2>a DEF Start, End, Goto, TypeOK
  <2>3. ASSUME NEW j \in Jvm, Find(j) \/ UseDir(j) \/ MakeDir(j) \/ Tighten(j)
        PROVE  Advances(j)
    BY <2>3, <2>a, StepFacts
       DEF Find, UseDir, MakeDir, Tighten, PrivateDir, Goto, Advances, StepsLeft, Extracting, TypeOK
  <2>4. ASSUME NEW j \in Jvm, Lookup(j) PROVE Advances(j)
    <3>1. file[j] = "engine" /\ tries[j] = 1
      BY <2>4, <2>c DEF Lookup, Extracting, Loading
    <3> QED
      BY <2>4, <2>a, <3>1, StepFacts
         DEF Lookup, Goto, Advances, StepsLeft, Extracting, TypeOK
  <2>5. ASSUME NEW j \in Jvm, Reuse(j) PROVE Advances(j)
    BY <2>5, <2>a, ExtractedAdvances DEF Reuse, Extracting
  <2>6. ASSUME NEW j \in Jvm, Stage(j) PROVE Advances(j)
    <3>1. CASE GiveUp(j)
      BY <2>6, <2>a, <3>1, GiveUpAdvances DEF Stage
    <3>2. CASE Goto(j, "move") /\ UNCHANGED <<fs, dir, file, tries>>
      <4>1. pc[j] = "extract" /\ file[j] \in {"engine", "shim"} /\ tries[j] \in 1..2
        BY <2>6, <2>c DEF Stage
      <4> QED
        BY <2>a, <3>2, <4>1, StepFacts DEF Goto, Advances, StepsLeft, Extracting, TypeOK
    <3> QED
      BY <2>6, <3>1, <3>2 DEF Stage
  <2>7. ASSUME NEW j \in Jvm, Move(j) PROVE Advances(j)
    BY <2>7, <2>a, GiveUpAdvances, ExtractedAdvances DEF Move, Extracting
  <2>8. ASSUME NEW j \in Jvm, Clear(j) PROVE Advances(j)
    <3>1. CASE GiveUp(j)
      BY <2>8, <2>a, <3>1, GiveUpAdvances DEF Clear
    <3>2. CASE Goto(j, "copy") /\ UNCHANGED <<dir, file, tries>>
      BY <2>8, <2>a, <2>c, <3>2, StepFacts
         DEF Clear, Goto, Advances, StepsLeft, Extracting, TypeOK
    <3> QED
      BY <2>8, <3>1, <3>2 DEF Clear
  <2>9. ASSUME NEW j \in Jvm, Copy(j) PROVE Advances(j)
    <3>1. CASE UNCHANGED <<pc, dir, file, tries>>
      BY <3>1 DEF Advances
    <3>2. CASE Extracted(j) /\ UNCHANGED <<fs, dir, tries>>
      BY <2>9, <2>a, <3>2, ExtractedAdvances DEF Copy, Extracting
    <3>3. CASE GiveUp(j)
      BY <2>9, <2>a, <3>3, GiveUpAdvances DEF Copy
    <3> QED
      BY <2>9, <3>1, <3>2, <3>3 DEF Copy
  <2>10. ASSUME NEW j \in Jvm, Load(j, "engine", "shim") \/ Load(j, "shim", "verify")
         PROVE  Advances(j)
    BY <2>10, <2>a, StepFacts DEF Load, Goto, Advances, StepsLeft, Extracting, TypeOK
  <2>11. ASSUME NEW j \in Jvm, Verify(j) PROVE Advances(j)
    BY <2>11, <2>a, StepFacts DEF Verify, Goto, Advances, StepsLeft, Extracting, TypeOK
  <2> QED
    BY <2>1, <2>2, <2>3, <2>4, <2>5, <2>6, <2>7, <2>8, <2>9, <2>10, <2>11, <2>b DEF Next
<1> QED
  BY <1>1, Inductive, PTL DEF Spec, LoadAdvances
=============================================================================
