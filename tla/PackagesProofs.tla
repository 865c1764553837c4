---------------------------- MODULE PackagesProofs ----------------------------
(* Proofs about the package manager: what a directory with metadata holds,    *)
(* and that no command drops what another has written to lunex.lock, with any *)
(* number of processes, libraries, files, versions and commands.              *)
EXTENDS Packages, StackLemmas

Entries == [Names -> Versions \cup {-1}]
Manifest == [Names -> Libs \cup {NoLib}]

-----------------------------------------------------------------------------
(* The invariant                                                             *)

(* File f of directory d is whole, broken, or being written.                  *)
Right(d, f) == InPlace(d, f) \/ <<d, f>> \in broken \/ \E q \in Procs : Writes(q, d, f)
Fetching(p) == cmd[p].phase \in {"fetch", "write"}

(* A directory that is being filled has right the files that are no longer   *)
(* to do, one with metadata all; and what is removed while it is written is  *)
(* broken.                                                                   *)
Filled ==
    /\ \A p \in Procs : Fetching(p) =>
           \A f \in Installable \ Range(cmd[p].todo) : Right(Dir(p), f)
    /\ \A d \in Dirs : HasMeta(d) => \A f \in Installable : Right(d, f)
    /\ \A p \in Procs : cmd[p].phase = "write" =>
           Head(cmd[p].todo) \in Present(Dir(p)) \/ <<Dir(p), Head(cmd[p].todo)>> \in broken

(* What entries of lunex.lock name was installed to the end.                 *)
PinnedIn(entries, done) ==
    \A n \in Names : entries[n] >= 0 => \E r \in Roots : <<r, n, entries[n]>> \in done
Pinned(entries) == PinnedIn(entries, completed)

Locking(p) == cmd[p].phase \in {"truncatelock", "writelock"}

(* lunex.lock, and what a command has read of it to write it again, pin      *)
(* only what was installed to the end.                                       *)
AllPinned ==
    /\ Pinned(lock)
    /\ \A p \in Procs : Locking(p) => Pinned(cmd[p].snap)
    /\ \A p \in Procs : Locking(p) \/ cmd[p].phase \in {"link", "readlock"} =>
           Dir(p) \in completed

(* While commands do not meet, one runs at a time; lunex.lock has the last   *)
(* installs but while it is rewritten, and then the command has them.        *)
OneAtATime ==
    alone =>
        /\ \A p, q \in Procs : ~Idle(p) /\ ~Idle(q) => p = q
        /\ (\A p \in Procs : cmd[p].phase # "writelock") => lock = last
        /\ \A p \in Procs : Locking(p) => cmd[p].snap = last

-----------------------------------------------------------------------------
(* The versions and files that commands work with                            *)

LEMMA ResolutionsInRange ==
    ASSUME PackagesTypeOK, NEW n \in Names, NEW t
    PROVE  Resolutions(n, t) \subseteq Versions /\ Releases(n, t) \subseteq Versions
<1>1. tags[n] \in Versions /\ MaxTag \in Nat
  BY PackagesAssumption DEF PackagesTypeOK
<1>2. 0 \in Versions /\ 1 .. tags[n] \subseteq Versions
  BY <1>1 DEF Versions
<1>3. \A vs \in Listed(n) : \A v \in vs : v.major \in Versions
  BY <1>2 DEF Listed, Version
<1>4. \A c : \A vs \in Listed(n) : \A v \in Bests(c, vs) : v.major \in Versions
  BY <1>3, Zenon DEF Bests
<1>5. Resolutions(n, t) \subseteq Versions
  <2> SUFFICES ASSUME NEW i \in Resolutions(n, t) PROVE i \in Versions
    BY Zenon
  <2>1. CASE ~LooksAtTags(t)
    BY <2>1, <1>2, Zenon DEF Resolutions
  <2>2. CASE LooksAtTags(t)
    <3>1. PICK vs \in Listed(n) :
              i \in LET best == Bests(ParseConstraint(t), vs) IN
                    IF best # {} THEN {v.major : v \in best}
                    ELSE IF ParseConstraint(t).latest THEN {0} ELSE {}
      BY <2>2, Zenon DEF Resolutions
    <3>2. i = 0 \/ i \in {v.major : v \in Bests(ParseConstraint(t), vs)}
      BY <3>1
    <3> QED
      BY <3>2, <1>2, <1>4, Zenon
  <2> QED
    BY <2>1, <2>2
<1>6. Releases(n, t) \subseteq Versions
  <2>1. {tags[n]} \ {0} \subseteq Versions
    BY <1>1
  <2>2. {i \in 1 .. tags[n] : t.form = "fields" /\ t.fields[1].ver = Version(i, 0, 0)}
          \subseteq Versions
    BY <1>2
  <2> QED
    BY <2>1, <2>2, Zenon DEF Releases
<1> QED
  BY <1>5, <1>6

(* Every way of fetching lists files, and but for the tree at least the      *)
(* installable ones.                                                         *)
LEMMA ListingsFacts ==
    ASSUME NEW way \in 1..4, NEW todo \in Listings(way)
    PROVE  todo \in Seq(FileNames)
<1>1. Files \in Seq(FileNames)
  BY PackagesAssumption
<1>2. ASSUME NEW L \in SUBSET (1..Len(Files)) PROVE Picked(Files, L) \in Seq(FileNames)
  BY <1>1, <1>2, PickedFacts, SMT
<1> DEFINE K == {k \in 1..Len(Files) : Files[k] \in Installable}
<1>3. K \in SUBSET (1..Len(Files)) /\ \A m : {k \in K : k <= m} \in SUBSET (1..Len(Files))
  OBVIOUS
<1>4. CASE way \in {1, 4}
  BY <1>1, <1>4 DEF Listings
<1>5. CASE way = 3
  <2>1. todo = Picked(Files, K)
    BY <1>5 DEF Listings
  <2> HIDE DEF K
  <2> QED
    BY <1>2, <1>3, <2>1
<1>6. CASE way = 2
  <2>1. PICK m \in K : todo = Picked(Files, {k \in K : k <= m})
    BY <1>6 DEF Listings
  <2> HIDE DEF K
  <2> QED
    BY <1>2, <1>3, <2>1
<1> QED
  BY <1>4, <1>5, <1>6

(* What the commands of each phase have.                                     *)
LEMMA CommandFacts ==
    ASSUME NEW c \in CommandRecords
    PROVE  /\ c.phase = "idle" => c = NoCommand
           /\ c.phase \notin {"idle", "remove", "unlink"} =>
                  c.left \subseteq Jobs /\ c.add \in BOOLEAN
           /\ c.phase \in {"mkdir", "fetch", "write", "link", "readlock", "truncatelock", "writelock",
                           "readtoml", "truncatetoml", "writetoml"} => c.job \in Jobs
           /\ c.phase \in {"mkdir", "fetch", "write", "link", "readlock", "truncatelock", "writelock"}
                => c.ver \in Versions
           /\ c.phase \in {"remove", "unlink"} => c.name \in Names
           /\ c.phase = "unlink" => c.dir \in Dirs
           /\ c.phase \in {"fetch", "write", "link", "readlock"} =>
                  c.todo \in Seq(FileNames) /\ c.way \in 1..4
           /\ c.phase = "write" => c.todo # <<>>
           /\ c.phase = "mkdir" => c.way \in {1, 4}
           /\ c.phase \in {"truncatelock", "writelock"} => c.snap \in Entries
           /\ c.phase \in {"truncatetoml", "writetoml"} => c.snap \in Manifest
  BY DEF CommandRecords, NoCommand, Entries, Manifest

(* A step of the program that process p takes, or none: what it does to cmd.  *)
LEMMA Acting ==
    ASSUME PackagesTypeOK, NEW p \in Procs, NEW c, cmd' = [cmd EXCEPT ![p] = c],
           c \in CommandRecords
    PROVE  /\ cmd' \in [Procs -> CommandRecords]
           /\ cmd'[p] = c /\ \A q \in Procs \ {p} : cmd'[q] = cmd[q]
  BY DEF PackagesTypeOK

(* A step of process p.                                                      *)
Acts(p) ==
    \/ InstallSpec(p) \/ InstallAll(p) \/ Update(p) \/ UpdateOne(p) \/ RemoveLibrary(p)
    \/ Pick(p) \/ PickLocal(p) \/ Done(p) \/ MakeDir(p)
    \/ OpenFile(p) \/ FetchFile(p) \/ WayFails(p) \/ WriteMeta(p) \/ Link(p)
    \/ ReadLock(p) \/ TruncateLock(p) \/ WriteLock(p)
    \/ ReadToml(p) \/ TruncateToml(p) \/ WriteToml(p)
    \/ RemoveDir(p) \/ Unlink(p) \/ Rmdir(p) \/ RemoveFails(p) \/ Removed(p) \/ Kill(p)

LEMMA SomeActs == PackagesNext <=> (\E n \in Names : Publish(n)) \/ \E p \in Procs : Acts(p)
  BY Zenon DEF PackagesNext, Acts

-----------------------------------------------------------------------------
(* Types                                                                     *)

LEMMA TypesInitially == PackagesInit => PackagesTypeOK
<1> SUFFICES ASSUME PackagesInit PROVE PackagesTypeOK
  OBVIOUS
<1> USE DEF PackagesInit
<1>1. MaxTag \in Nat \ {0}
  BY PackagesAssumption
<1>2. NoDir \in [made : BOOLEAN, files : [FileNames -> Contents],
                 entry : {"", "index.lx", "cli.lx"}]
  BY DEF NoDir, Contents
<1>3. NoCommand \in CommandRecords
  BY DEF CommandRecords
<1>4. tags \in [Names -> Versions]
  BY <1>1 DEF Versions
<1>5. store \in [Dirs -> [made : BOOLEAN, files : [FileNames -> Contents],
                           entry : {"", "index.lx", "cli.lx"}]]
  BY <1>2, Zenon
<1>6. toml \in [Names -> Libs \cup {NoLib}]
  BY PackagesAssumption
<1>7. bins \in [Roots \X Names -> Dirs \cup {<<>>} \cup {PathOf(n) : n \in Names}]
  OBVIOUS
<1>8. \A d \in Dirs : ~store[d].made => store[d] = NoDir
  OBVIOUS
<1>9. /\ lock \in [Names -> Versions \cup {-1}] /\ last \in [Names -> Versions \cup {-1}]
      /\ completed \subseteq Dirs /\ broken \subseteq Dirs \X FileNames
      /\ commands \in Nat /\ alone \in BOOLEAN
  OBVIOUS
<1>10. cmd \in [Procs -> CommandRecords]
  BY <1>3
<1> QED
  BY <1>4, <1>5, <1>6, <1>7, <1>8, <1>9, <1>10, Zenon DEF PackagesTypeOK

(* The new commands are records of commands, and change one process.         *)
LEMMA CommandsKept ==
    ASSUME PackagesTypeOK, PackagesNext
    PROVE  cmd' \in [Procs -> CommandRecords]
<1>1. cmd \in [Procs -> CommandRecords] /\ toml \in [Names -> Libs \cup {NoLib}]
      /\ lock \in [Names -> Versions \cup {-1}]
  BY DEF PackagesTypeOK
<1>2. CASE \E n \in Names : Publish(n)
  BY <1>1, <1>2 DEF Publish
<1>3. ASSUME NEW p \in Procs, NEW c \in CommandRecords, cmd' = [cmd EXCEPT ![p] = c]
      PROVE  cmd' \in [Procs -> CommandRecords]
  BY <1>1, <1>3
<1>4. NoCommand \in CommandRecords
  BY DEF CommandRecords
<1>5. ASSUME NEW p \in Procs, NEW left \in SUBSET Jobs, NEW add \in BOOLEAN
      PROVE  Installing(left, add) \in CommandRecords
  BY DEF Installing, CommandRecords
<1>6. ASSUME NEW p \in Procs, InstallSpec(p) PROVE cmd' \in [Procs -> CommandRecords]
  <2>1. PICK n \in Names, t \in Texts, r \in Roots : \E add \in {FALSE, r = "local"} :
            /\ "github" \in Sources
            /\ Begin(p, Installing({[name |-> n, root |-> r,
                                  lib |-> [source |-> "github", text |-> t]]}, add))
    BY <1>6, Zenon DEF InstallSpec
  <2>a. PICK add \in {FALSE, r = "local"} :
            /\ "github" \in Sources
            /\ Begin(p, Installing({[name |-> n, root |-> r,
                                  lib |-> [source |-> "github", text |-> t]]}, add))
    BY <2>1, Zenon
  <2>2. {[name |-> n, root |-> r, lib |-> [source |-> "github", text |-> t]]} \in SUBSET Jobs
    BY <2>1 DEF Jobs, Libs
  <2>3. add \in BOOLEAN
    OBVIOUS
  <2> QED
    BY <1>3, <1>5, <2>a, <2>2, <2>3, Zenon DEF Begin
<1>7. ASSUME NEW p \in Procs, InstallAll(p) PROVE cmd' \in [Procs -> CommandRecords]
  <2> DEFINE J == {[name |-> n, root |-> "local", lib |-> toml[n]] :
                            n \in {m \in Names : toml[m] # NoLib}}
  <2>1. Begin(p, Installing(J, FALSE))
    BY <1>7 DEF InstallAll
  <2>2. J \in SUBSET Jobs
    BY <1>1, PackagesAssumption DEF Jobs
  <2> QED
    BY <1>3, <1>5, <2>1, <2>2, Zenon DEF Begin
<1>8. \A d \in InManifest : JobOf(d) \in Jobs
  BY <1>1 DEF InManifest, JobOf, Jobs, Dirs
<1>9. ASSUME NEW p \in Procs, Update(p) \/ UpdateOne(p) PROVE cmd' \in [Procs -> CommandRecords]
  <2>1. {JobOf(d) : d \in InManifest} \in SUBSET Jobs
    BY <1>8
  <2>2. \A d \in InManifest : {JobOf(d)} \in SUBSET Jobs
    BY <1>8
  <2>3. CASE Update(p)
    BY <1>3, <1>5, <2>1, <2>3, Zenon DEF Begin, Update
  <2>4. CASE UpdateOne(p)
    <3>1. PICK d \in InManifest : Begin(p, Installing({JobOf(d)}, FALSE))
      BY <2>4, Zenon DEF UpdateOne
    <3> QED
      BY <1>3, <1>5, <2>2, <3>1, Zenon DEF Begin
  <2> QED
    BY <1>9, <2>3, <2>4
<1>10. ASSUME NEW p \in Procs, RemoveLibrary(p) PROVE cmd' \in [Procs -> CommandRecords]
  <2>1. PICK n \in Names : Begin(p, [phase |-> "remove", name |-> n])
    BY <1>10, Zenon DEF RemoveLibrary
  <2>2. [phase |-> "remove", name |-> n] \in CommandRecords
    BY DEF CommandRecords
  <2> QED
    BY <1>3, <2>1, <2>2, Zenon DEF Begin
<1>11. ASSUME NEW p \in Procs, End(p) PROVE cmd' \in [Procs -> CommandRecords]
  BY <1>11, <1>3, <1>4, Zenon DEF End
<1>12. ASSUME NEW p \in Procs, Pick(p) PROVE cmd' \in [Procs -> CommandRecords]
  <2>1. PICK j \in cmd[p].left :
           \/ \E v \in Offers(j.name, j.lib) :
                cmd' = [cmd EXCEPT ![p] =
                    [phase |-> "mkdir", left |-> cmd[p].left \ {j}, add |-> cmd[p].add,
                     job |-> j, ver |-> v, way |-> FirstWay(j.lib)]]
           \/ End(p)
    BY <1>12, Zenon DEF Pick
  <2>2. cmd[p].phase = "pick" /\ cmd[p] \in CommandRecords
    BY <1>1, <1>12 DEF Pick
  <2>3. cmd[p].left \subseteq Jobs /\ cmd[p].add \in BOOLEAN
    BY <2>2, CommandFacts
  <2>4. j.name \in Names
    BY <2>1, <2>3 DEF Jobs
  <2>5. CASE End(p)
    BY <2>5, <1>11
  <2>6. ASSUME NEW v \in Offers(j.name, j.lib),
               cmd' = [cmd EXCEPT ![p] =
                    [phase |-> "mkdir", left |-> cmd[p].left \ {j}, add |-> cmd[p].add,
                     job |-> j, ver |-> v, way |-> FirstWay(j.lib)]]
        PROVE  cmd' \in [Procs -> CommandRecords]
    <3>1. v \in Versions
      BY <2>4, ResolutionsInRange DEF Offers
    <3>2. FirstWay(j.lib) \in {1, 4}
      BY DEF FirstWay
    <3>3. cmd[p].left \ {j} \in SUBSET Jobs /\ j \in Jobs
      BY <2>1, <2>3
    <3>4. [phase |-> "mkdir", left |-> cmd[p].left \ {j}, add |-> cmd[p].add,
           job |-> j, ver |-> v, way |-> FirstWay(j.lib)] \in CommandRecords
      BY <2>3, <3>1, <3>2, <3>3 DEF CommandRecords
    <3> QED
      BY <2>6, <3>4, <1>3, Zenon
  <2> QED
    BY <2>1, <2>5, <2>6
<1>13. ASSUME NEW p \in Procs, PickLocal(p) PROVE cmd' \in [Procs -> CommandRecords]
  <2>1. PICK j \in cmd[p].left : cmd' = [cmd EXCEPT ![p] = [cmd[p] EXCEPT !.left = @ \ {j}]]
    BY <1>13 DEF PickLocal
  <2>2. cmd[p].phase = "pick" /\ cmd[p] \in CommandRecords
    BY <1>1, <1>13 DEF PickLocal
  <2>3. [cmd[p] EXCEPT !.left = @ \ {j}] \in CommandRecords
    BY <2>2 DEF CommandRecords, NoCommand
  <2> QED
    BY <2>1, <2>3, <1>3, Zenon
<1>14. ASSUME NEW p \in Procs, NEW way \in 1..4, FetchFrom(p, way),
              cmd[p].phase \in {"mkdir", "fetch", "write"}
       PROVE  cmd' \in [Procs -> CommandRecords]
  <2>1. cmd[p] \in CommandRecords
    BY <1>1
  <2>2. /\ cmd[p].left \subseteq Jobs /\ cmd[p].add \in BOOLEAN /\ cmd[p].job \in Jobs
        /\ cmd[p].ver \in Versions
    BY <2>1, <1>14, CommandFacts
  <2>3. PICK todo \in Listings(way) :
            cmd' = [cmd EXCEPT ![p] = [phase |-> "fetch", left |-> cmd[p].left, add |-> cmd[p].add,
                                      job |-> cmd[p].job, ver |-> cmd[p].ver, way |-> way,
                                      todo |-> todo]]
    BY <1>14, Zenon DEF FetchFrom
  <2>4. todo \in Seq(FileNames)
    BY ListingsFacts
  <2>5. [phase |-> "fetch", left |-> cmd[p].left, add |-> cmd[p].add,
         job |-> cmd[p].job, ver |-> cmd[p].ver, way |-> way,
         todo |-> todo] \in CommandRecords
    BY <2>2, <2>4 DEF CommandRecords
  <2> QED
    BY <1>3, <2>3, <2>5, Zenon
<1>15. ASSUME NEW p \in Procs, MakeDir(p) \/ WayFails(p) PROVE cmd' \in [Procs -> CommandRecords]
  <2>1. cmd[p] \in CommandRecords
    BY <1>1
  <2>2. CASE MakeDir(p)
    <3>1. cmd[p].phase = "mkdir" /\ cmd[p].way \in 1..4
      BY <2>1, <2>2, CommandFacts DEF MakeDir
    <3> QED
      BY <2>2, <3>1, <1>14 DEF MakeDir
  <2>3. CASE WayFails(p)
    <3>1. cmd[p].phase \in {"fetch", "write"}
      BY <2>3 DEF WayFails
    <3>2. CASE cmd[p].way \in {1, 2}
      <4>1. FetchFrom(p, cmd[p].way + 1) /\ cmd[p].way + 1 \in 1..4
        BY <2>3, <3>2 DEF WayFails
      <4> QED
        BY <4>1, <3>1, <1>14
    <3>3. CASE cmd[p].way \notin {1, 2}
      BY <2>3, <3>3, <1>11 DEF WayFails
    <3> QED
      BY <3>2, <3>3
  <2> QED
    BY <1>15, <2>2, <2>3
<1>16. ASSUME NEW p \in Procs, FetchFile(p) PROVE cmd' \in [Procs -> CommandRecords]
  <2>1. cmd[p].phase = "write" /\ cmd[p] \in CommandRecords
    BY <1>1, <1>16 DEF FetchFile
  <2>2. cmd' = [cmd EXCEPT ![p] = [cmd[p] EXCEPT !.phase = "fetch", !.todo = Tail(@)]]
    BY <1>16 DEF FetchFile
  <2>3. Tail(cmd[p].todo) \in Seq(FileNames)
    <3>1. cmd[p].todo \in Seq(FileNames) /\ cmd[p].todo # <<>>
      BY <2>1, CommandFacts
    <3> QED
      BY <3>1, HeadTailProperties
  <2>4. [cmd[p] EXCEPT !.phase = "fetch", !.todo = Tail(@)] \in CommandRecords
    <3>1. PICK rest : rest = Tail(cmd[p].todo)
      OBVIOUS
    <3>2. cmd[p] \in [phase : {"write"}, left : SUBSET Jobs, add : BOOLEAN, job : Jobs,
                      ver : Versions, way : 1..4, todo : Seq(FileNames) \ {<<>>}]
      BY <2>1 DEF CommandRecords, NoCommand
    <3>3. [cmd[p] EXCEPT !.phase = "fetch", !.todo = rest]
            \in [phase : {"fetch", "link", "readlock"}, left : SUBSET Jobs, add : BOOLEAN, job : Jobs,
                 ver : Versions, way : 1..4, todo : Seq(FileNames)]
      BY <2>3, <3>1, <3>2
    <3> QED
      BY <3>1, <3>3 DEF CommandRecords
  <2> QED
    BY <2>2, <2>4, <1>3, Zenon
<1>17. ASSUME NEW p \in Procs, NEW from, NEW to, To(p, to), cmd[p].phase = from,
              <<from, to>> \in {<<"fetch", "link">>, <<"link", "readlock">>,
                                <<"truncatelock", "writelock">>, <<"truncatetoml", "writetoml">>}
       PROVE  cmd' \in [Procs -> CommandRecords]
  <2>1. cmd[p] \in CommandRecords
    BY <1>1
  <2>2. cmd' = [cmd EXCEPT ![p] = [cmd[p] EXCEPT !.phase = to]]
    BY <1>17 DEF To
  <2>3. [cmd[p] EXCEPT !.phase = to] \in CommandRecords
    BY <2>1, <1>17 DEF CommandRecords, NoCommand
  <2> QED
    BY <2>2, <2>3, <1>3, Zenon
<1>18. ASSUME NEW p \in Procs, WriteMeta(p) \/ Link(p) \/ TruncateLock(p) \/ TruncateToml(p)
       PROVE  cmd' \in [Procs -> CommandRecords]
  BY <1>17, <1>18 DEF WriteMeta, Link, TruncateLock, TruncateToml
<1>19. ASSUME NEW p \in Procs, ReadLock(p) PROVE cmd' \in [Procs -> CommandRecords]
  <2>1. cmd[p].phase = "readlock" /\ cmd[p] \in CommandRecords
    BY <1>1, <1>19 DEF ReadLock
  <2>2. /\ cmd[p].left \subseteq Jobs /\ cmd[p].add \in BOOLEAN /\ cmd[p].job \in Jobs
        /\ cmd[p].ver \in Versions
    BY <2>1, CommandFacts
  <2>3. [phase |-> "truncatelock", left |-> cmd[p].left, add |-> cmd[p].add,
         job |-> cmd[p].job, ver |-> cmd[p].ver, snap |-> lock] \in CommandRecords
    BY <1>1, <2>2 DEF CommandRecords
  <2> QED
    BY <1>3, <1>19, <2>3, Zenon DEF ReadLock
<1>20. ASSUME NEW p \in Procs, WriteLock(p) PROVE cmd' \in [Procs -> CommandRecords]
  <2>1. cmd[p].phase = "writelock" /\ cmd[p] \in CommandRecords
    BY <1>1, <1>20 DEF WriteLock
  <2>2. cmd[p].left \subseteq Jobs /\ cmd[p].add \in BOOLEAN /\ cmd[p].job \in Jobs
    BY <2>1, CommandFacts
  <2>3. [phase |-> "readtoml", left |-> cmd[p].left, add |-> TRUE, job |-> cmd[p].job]
          \in CommandRecords
    BY <2>2 DEF CommandRecords
  <2>4. [phase |-> "pick", left |-> cmd[p].left, add |-> cmd[p].add] \in CommandRecords
    BY <2>2 DEF CommandRecords
  <2> QED
    BY <1>3, <1>20, <2>3, <2>4, Zenon DEF WriteLock
<1>21. ASSUME NEW p \in Procs, ReadToml(p) PROVE cmd' \in [Procs -> CommandRecords]
  <2>1. cmd[p].phase = "readtoml" /\ cmd[p] \in CommandRecords
    BY <1>1, <1>21 DEF ReadToml
  <2>2. cmd[p].left \subseteq Jobs /\ cmd[p].job \in Jobs
    BY <2>1, CommandFacts
  <2>3. [phase |-> "truncatetoml", left |-> cmd[p].left,
         add |-> TRUE, job |-> cmd[p].job, snap |-> toml] \in CommandRecords
    BY <1>1, <2>2 DEF CommandRecords
  <2> QED
    BY <1>3, <1>21, <2>3, Zenon DEF ReadToml
<1>22. ASSUME NEW p \in Procs, WriteToml(p) PROVE cmd' \in [Procs -> CommandRecords]
  <2>1. cmd[p].phase = "writetoml" /\ cmd[p] \in CommandRecords
    BY <1>1, <1>22 DEF WriteToml
  <2>2. cmd[p].left \subseteq Jobs
    BY <2>1, CommandFacts
  <2>3. [phase |-> "pick", left |-> cmd[p].left, add |-> TRUE] \in CommandRecords
    BY <2>2 DEF CommandRecords
  <2> QED
    BY <1>3, <1>22, <2>3, Zenon DEF WriteToml
<1>23. ASSUME NEW p \in Procs, Done(p) \/ Removed(p) \/ Kill(p) \/ RemoveFails(p)
       PROVE  cmd' \in [Procs -> CommandRecords]
  BY <1>11, <1>23, Zenon DEF Done, Removed, Kill, RemoveFails
<1>24. ASSUME NEW p \in Procs, OpenFile(p) PROVE cmd' \in [Procs -> CommandRecords]
  <2>1. cmd[p].phase = "fetch" /\ cmd[p] \in CommandRecords /\ cmd[p].todo # <<>>
    BY <1>1, <1>24 DEF OpenFile
  <2>2. cmd' = [cmd EXCEPT ![p] = [cmd[p] EXCEPT !.phase = "write"]]
    BY <1>24 DEF OpenFile, To
  <2>3. [cmd[p] EXCEPT !.phase = "write"] \in CommandRecords
    BY <2>1 DEF CommandRecords, NoCommand
  <2> QED
    BY <2>2, <2>3, <1>3, Zenon
<1>25. ASSUME NEW p \in Procs, RemoveDir(p) \/ Unlink(p) \/ Rmdir(p)
       PROVE  cmd' \in [Procs -> CommandRecords]
  <2>1. cmd[p].phase \in {"remove", "unlink"} /\ cmd[p] \in CommandRecords
    BY <1>1, <1>25 DEF RemoveDir, Unlink, Rmdir
  <2>2. cmd[p].name \in Names
    BY <2>1, CommandFacts
  <2>3. CASE RemoveDir(p)
    <3>1. PICK d \in OfLibrary(cmd[p].name) :
             cmd' = [cmd EXCEPT ![p] = [phase |-> "unlink", name |-> cmd[p].name, dir |-> d]]
      BY <2>3, Zenon DEF RemoveDir
    <3>2. d \in Dirs
      BY <3>1 DEF OfLibrary
    <3>3. [phase |-> "unlink", name |-> cmd[p].name, dir |-> d] \in CommandRecords
      BY <2>2, <3>2 DEF CommandRecords
    <3> QED
      BY <1>3, <3>1, <3>3, Zenon
  <2>4. CASE Unlink(p)
    BY <1>1, <2>4 DEF Unlink
  <2>5. CASE Rmdir(p)
    <3>1. cmd' = [cmd EXCEPT ![p] = [phase |-> "remove", name |-> cmd[p].name]]
      BY <2>5, Zenon DEF Rmdir
    <3>2. [phase |-> "remove", name |-> cmd[p].name] \in CommandRecords
      BY <2>2 DEF CommandRecords
    <3> QED
      BY <1>3, <3>1, <3>2, Zenon
  <2> QED
    BY <1>25, <2>3, <2>4, <2>5
<1> QED
  BY <1>2, <1>6, <1>7, <1>9, <1>10, <1>12, <1>13, <1>15, <1>16, <1>18, <1>19, <1>20, <1>21,
     <1>22, <1>23, <1>24, <1>25 DEF PackagesNext

DirRecords == [made : BOOLEAN, files : [FileNames -> Contents],
               entry : {"", "index.lx", "cli.lx"}]

(* The directory a command works on.                                         *)
LEMMA DirFacts ==
    ASSUME PackagesTypeOK, NEW p \in Procs,
           cmd[p].phase \in {"mkdir", "fetch", "write", "link", "readlock", "truncatelock", "writelock"}
    PROVE  /\ Dir(p) \in Dirs /\ Dir(p)[3] = cmd[p].ver
           /\ cmd[p].job.name \in Names /\ cmd[p].job.root \in Roots
           /\ ContentOf(cmd[p].job.name, cmd[p].ver) \in Versions
           /\ Dir(p)[3] > 0 => ContentOf(cmd[p].job.name, cmd[p].ver) = Dir(p)[3]
<1>1. cmd[p] \in CommandRecords
  BY DEF PackagesTypeOK
<1>2. cmd[p].job \in Jobs /\ cmd[p].ver \in Versions
  BY <1>1, CommandFacts
<1>3. cmd[p].job.name \in Names /\ cmd[p].job.root \in Roots
  BY <1>2 DEF Jobs
<1>4. Dir(p) \in Dirs /\ Dir(p)[3] = cmd[p].ver
  BY <1>2, <1>3 DEF Dir, Dirs
<1>5. ContentOf(cmd[p].job.name, cmd[p].ver) \in Versions
  BY <1>2, <1>3 DEF ContentOf, PackagesTypeOK
<1>6. Dir(p)[3] > 0 => ContentOf(cmd[p].job.name, cmd[p].ver) = Dir(p)[3]
  BY <1>4 DEF ContentOf
<1> QED
  BY <1>3, <1>4, <1>5, <1>6

(* What a step does to the files: nothing, or it changes one directory.      *)
LEMMA DirectorySteps ==
    ASSUME PackagesTypeOK, PackagesNext
    PROVE  \/ store' = store
           \/ \E p \in Procs : \/ MakeDir(p) \/ OpenFile(p) \/ FetchFile(p) \/ WriteMeta(p)
                               \/ Unlink(p) \/ Rmdir(p)
  BY DEF PackagesNext, Publish, InstallSpec, InstallAll, Update, UpdateOne, RemoveLibrary, Begin,
         Pick, PickLocal, Done, WayFails, Link, ReadLock, TruncateLock, WriteLock, ReadToml,
         TruncateToml, WriteToml, RemoveDir, RemoveFails, Removed, Kill, disk

LEMMA StoreTypes ==
    PackagesTypeOK => /\ store \in [Dirs -> DirRecords]
                      /\ \A d \in Dirs : ~store[d].made => store[d] = NoDir
  BY DEF PackagesTypeOK, DirRecords

LEMMA MakeDirStore ==
    ASSUME PackagesTypeOK, NEW p \in Procs, MakeDir(p)
    PROVE  /\ Dir(p) \in Dirs
           /\ store' = [store EXCEPT ![Dir(p)] = [store[Dir(p)] EXCEPT !.made = TRUE]]
<1>1. Dir(p) \in Dirs
  BY DirFacts DEF MakeDir
<1> QED
  BY <1>1 DEF MakeDir

(* A file gets a content, in a directory that then exists.                   *)
Put(d, f, c) ==
    \E r \in DirRecords :
        /\ store' = [store EXCEPT ![d] = r]
        /\ r.made /\ r.entry = store[d].entry /\ r.files = [store[d].files EXCEPT ![f] = c]

LEMMA OpenFileStore ==
    ASSUME PackagesTypeOK, NEW p \in Procs, OpenFile(p)
    PROVE  /\ Dir(p) \in Dirs /\ Head(cmd[p].todo) \in FileNames
           /\ Put(Dir(p), Head(cmd[p].todo), Opened)
<1>1. Dir(p) \in Dirs
  BY DirFacts DEF OpenFile
<1>2. cmd[p] \in CommandRecords /\ cmd[p].phase = "fetch" /\ cmd[p].todo # <<>>
  BY DEF PackagesTypeOK, OpenFile
<1>3. Head(cmd[p].todo) \in FileNames
  BY <1>2, CommandFacts, HeadTailProperties
<1> DEFINE d == Dir(p)
           h == Head(cmd[p].todo)
           r1 == [store[d] EXCEPT !.made = TRUE]
           r2 == [r1 EXCEPT !.files = [r1.files EXCEPT ![h] = Opened]]
<1>4. store' = [store EXCEPT ![d].made = TRUE, ![d].files[h] = Opened]
  BY DEF OpenFile
<1>5. store[d] \in DirRecords /\ store \in [Dirs -> DirRecords]
  BY <1>1, StoreTypes
<1> HIDE DEF d, h
<1>6. store' = [store EXCEPT ![d] = r2]
  BY <1>1, <1>4, <1>5 DEF d
<1>7. r1 \in DirRecords /\ r1.made /\ r1.entry = store[d].entry /\ r1.files = store[d].files
  BY <1>5 DEF DirRecords
<1> HIDE DEF r1
<1>8. h \in FileNames /\ Opened \in Contents
  BY <1>3 DEF h, Contents
<1>9. /\ r2 \in DirRecords /\ r2.made /\ r2.entry = store[d].entry
      /\ r2.files = [store[d].files EXCEPT ![h] = Opened]
  BY <1>7, <1>8 DEF DirRecords
<1>10. Put(d, h, Opened)
  BY <1>6, <1>9 DEF Put
<1> QED
  BY <1>1, <1>3, <1>10 DEF d, h

LEMMA FileStore ==
    ASSUME PackagesTypeOK, NEW d \in Dirs, NEW f \in Present(d), NEW c \in Contents,
           store' = [store EXCEPT ![d].files[f] = c]
    PROVE  Put(d, f, c)
<1> DEFINE r == [store[d] EXCEPT !.files = [store[d].files EXCEPT ![f] = c]]
<1>1. store[d] \in DirRecords /\ store \in [Dirs -> DirRecords] /\ f \in FileNames
  BY StoreTypes DEF Present
<1>2. store' = [store EXCEPT ![d] = r]
  BY <1>1
<1>3. r \in DirRecords /\ r.entry = store[d].entry /\ r.files = [store[d].files EXCEPT ![f] = c]
  BY <1>1 DEF DirRecords
<1>4. r.made
  <2>1. store[d].made
    <3>1. NoDir.files[f] = Absent /\ store[d].files[f] # Absent
      BY <1>1 DEF NoDir, Present
    <3>2. ~store[d].made => store[d] = NoDir
      BY StoreTypes
    <3> QED
      BY <3>1, <3>2
  <2>2. r.made = store[d].made
    BY <1>1 DEF DirRecords
  <2> QED
    BY <2>1, <2>2, Zenon
<1> HIDE DEF r
<1> QED
  BY <1>2, <1>3, <1>4, Zenon DEF Put

LEMMA FetchFileStore ==
    ASSUME PackagesTypeOK, NEW p \in Procs, FetchFile(p)
    PROVE  /\ Dir(p) \in Dirs /\ Head(cmd[p].todo) \in FileNames
           /\ \/ Head(cmd[p].todo) \notin Present(Dir(p)) /\ store' = store /\ broken' = broken
              \/ /\ Put(Dir(p), Head(cmd[p].todo), ContentOf(cmd[p].job.name, cmd[p].ver))
                 /\ broken' = broken \ {<<Dir(p), Head(cmd[p].todo)>>}
<1>1. Dir(p) \in Dirs /\ ContentOf(cmd[p].job.name, cmd[p].ver) \in Contents
  BY DirFacts DEF FetchFile, Contents
<1>2. cmd[p] \in CommandRecords /\ cmd[p].phase = "write"
  BY DEF PackagesTypeOK, FetchFile
<1>3. Head(cmd[p].todo) \in FileNames
  BY <1>2, CommandFacts, HeadTailProperties
<1>4. CASE Head(cmd[p].todo) \notin Present(Dir(p))
  BY <1>1, <1>3, <1>4 DEF FetchFile
<1>5. CASE Head(cmd[p].todo) \in Present(Dir(p))
  <2>1. /\ store' = [store EXCEPT ![Dir(p)].files[Head(cmd[p].todo)] =
                                 ContentOf(cmd[p].job.name, cmd[p].ver)]
        /\ broken' = broken \ {<<Dir(p), Head(cmd[p].todo)>>}
    BY <1>5 DEF FetchFile
  <2> QED
    BY <1>1, <1>3, <1>5, <2>1, FileStore
<1> QED
  BY <1>4, <1>5

LEMMA UnlinkStore ==
    ASSUME PackagesTypeOK, NEW p \in Procs, Unlink(p)
    PROVE  /\ cmd[p].dir \in Dirs
           /\ \/ \E f \in Present(cmd[p].dir) :
                    /\ Put(cmd[p].dir, f, Absent)
                    /\ broken' = broken \cup {<<cmd[p].dir, f>>}
              \/ /\ store[cmd[p].dir].made /\ broken' = broken
                 /\ store' = [store EXCEPT ![cmd[p].dir] = [store[cmd[p].dir] EXCEPT !.entry = ""]]
<1> DEFINE d == cmd[p].dir
<1>1. cmd[p] \in CommandRecords /\ cmd[p].phase = "unlink"
  BY DEF PackagesTypeOK, Unlink
<1>2. d \in Dirs
  BY <1>1, CommandFacts
<1>3. ASSUME NEW f \in Present(d), store' = [store EXCEPT ![d].files[f] = Absent]
      PROVE  Put(d, f, Absent)
  <2>1. Absent \in Contents
    BY DEF Contents
  <2> QED
    BY <1>2, <1>3, <2>1, FileStore
<1>4. HasMeta(d) => store[d].made
  <2>1. ~store[d].made => store[d] = NoDir
    BY <1>2, StoreTypes
  <2>2. NoDir.entry = ""
    BY DEF NoDir
  <2> QED
    BY <2>1, <2>2 DEF HasMeta
<1>5. store \in [Dirs -> DirRecords]
  BY StoreTypes
<1> QED
  BY <1>2, <1>3, <1>4, <1>5 DEF Unlink

LEMMA RmdirStore ==
    ASSUME PackagesTypeOK, NEW p \in Procs, Rmdir(p)
    PROVE  /\ cmd[p].dir \in Dirs /\ store' = [store EXCEPT ![cmd[p].dir] = NoDir]
           /\ Present(cmd[p].dir) = {} /\ broken' \subseteq broken
           /\ \/ broken' = broken
              \/ /\ \A q \in Procs : ~Fills(q, cmd[p].dir)
                 /\ broken' = broken \ ({cmd[p].dir} \X FileNames)
<1>1. cmd[p] \in CommandRecords /\ cmd[p].phase = "unlink"
  BY DEF PackagesTypeOK, Rmdir
<1>2. cmd[p].dir \in Dirs
  BY <1>1, CommandFacts
<1> QED
  BY <1>2 DEF Rmdir

LEMMA WriteMetaStore ==
    ASSUME PackagesTypeOK, NEW p \in Procs, WriteMeta(p)
    PROVE  /\ Dir(p) \in Dirs /\ broken' = broken
           /\ \/ store' = store
              \/ /\ store[Dir(p)].made
                 /\ store' = [store EXCEPT ![Dir(p)] =
                                 [store[Dir(p)] EXCEPT !.entry = FindEntry(Dir(p))]]
<1>1. Dir(p) \in Dirs
  BY DirFacts DEF WriteMeta
<1> QED
  BY <1>1 DEF WriteMeta

LEMMA StoreKept ==
    ASSUME PackagesTypeOK, PackagesNext
    PROVE  /\ store' \in [Dirs -> DirRecords]
           /\ \A d \in Dirs : ~store'[d].made => store'[d] = NoDir
<1>1. store \in [Dirs -> DirRecords] /\ \A d \in Dirs : ~store[d].made => store[d] = NoDir
  BY StoreTypes
<1>2. ASSUME NEW d \in Dirs, NEW r \in DirRecords, ~r.made => r = NoDir,
             store' = [store EXCEPT ![d] = r]
      PROVE  /\ store' \in [Dirs -> DirRecords]
             /\ \A e \in Dirs : ~store'[e].made => store'[e] = NoDir
  BY <1>1, <1>2
<1>3. ASSUME NEW p \in Procs, MakeDir(p)
      PROVE  /\ store' \in [Dirs -> DirRecords]
             /\ \A e \in Dirs : ~store'[e].made => store'[e] = NoDir
  <2>1. [store[Dir(p)] EXCEPT !.made = TRUE] \in DirRecords
        /\ [store[Dir(p)] EXCEPT !.made = TRUE].made
    BY <1>1, <1>3, MakeDirStore DEF DirRecords
  <2> QED
    BY <1>2, <1>3, <2>1, MakeDirStore
<1>4. ASSUME NEW d \in Dirs, NEW f, NEW c, Put(d, f, c)
      PROVE  /\ store' \in [Dirs -> DirRecords]
             /\ \A e \in Dirs : ~store'[e].made => store'[e] = NoDir
  BY <1>2, <1>4 DEF Put
<1>5. ASSUME NEW p \in Procs, WriteMeta(p)
      PROVE  /\ store' \in [Dirs -> DirRecords]
             /\ \A e \in Dirs : ~store'[e].made => store'[e] = NoDir
  <2> DEFINE r == [store[Dir(p)] EXCEPT !.entry = FindEntry(Dir(p))]
  <2>1. /\ Dir(p) \in Dirs
        /\ \/ store' = store
           \/ store[Dir(p)].made /\ store' = [store EXCEPT ![Dir(p)] = r]
    BY <1>5, WriteMetaStore
  <2>2. FindEntry(Dir(p)) \in {"", "index.lx", "cli.lx"}
    BY DEF FindEntry
  <2>3. store[Dir(p)].made => r \in DirRecords /\ r.made
    BY <1>1, <2>1, <2>2 DEF DirRecords
  <2> HIDE DEF r
  <2> QED
    BY <1>1, <1>2, <2>1, <2>3
<1>6. ASSUME NEW p \in Procs, OpenFile(p) \/ FetchFile(p) \/ Unlink(p) \/ Rmdir(p)
      PROVE  /\ store' \in [Dirs -> DirRecords]
             /\ \A e \in Dirs : ~store'[e].made => store'[e] = NoDir
  <2>1. CASE OpenFile(p)
    BY <1>4, <2>1, OpenFileStore
  <2>2. CASE FetchFile(p)
    BY <1>1, <1>4, <2>2, FetchFileStore
  <2>3. CASE Unlink(p)
    <3> DEFINE d == cmd[p].dir
               r == [store[d] EXCEPT !.entry = ""]
    <3>1. /\ d \in Dirs
          /\ \/ \E f : Put(d, f, Absent)
             \/ store[d].made /\ store' = [store EXCEPT ![d] = r]
      BY <2>3, UnlinkStore
    <3>2. store[d].made => r \in DirRecords /\ r.made
      <4>1. store[d] \in DirRecords
        BY <1>1, <3>1, Zenon
      <4> HIDE DEF d
      <4> QED
        BY <4>1 DEF DirRecords
    <3> HIDE DEF d, r
    <3> QED
      BY <1>2, <1>4, <3>1, <3>2
  <2>4. CASE Rmdir(p)
    <3>1. NoDir \in DirRecords
      BY DEF NoDir, DirRecords, Contents
    <3> QED
      BY <1>2, <2>4, <3>1, RmdirStore
  <2> QED
    BY <1>6, <2>1, <2>2, <2>3, <2>4
<1> QED
  BY <1>1, <1>3, <1>5, <1>6, DirectorySteps

(* The files of the project, of which a step may rewrite one.                *)
LEMMA ProjectKept ==
    ASSUME PackagesTypeOK, PackagesNext
    PROVE  /\ bins' \in [Roots \X Names -> Dirs \cup {<<>>} \cup {PathOf(n) : n \in Names}]
           /\ lock' \in Entries /\ last' \in Entries /\ toml' \in Manifest
<1> DEFINE Shims == Dirs \cup {<<>>} \cup {PathOf(n) : n \in Names}
<1>1. /\ bins \in [Roots \X Names -> Shims]
      /\ lock \in Entries /\ last \in Entries /\ toml \in Manifest
      /\ cmd \in [Procs -> CommandRecords]
  BY DEF PackagesTypeOK, Entries, Manifest
<1>2. ASSUME NEW p \in Procs, PickLocal(p)
      PROVE  bins' \in [Roots \X Names -> Shims] /\ UNCHANGED <<lock, last, toml>>
  <2>1. cmd[p].phase = "pick" /\ cmd[p] \in CommandRecords
    BY <1>1, <1>2 DEF PickLocal
  <2>2. cmd[p].left \subseteq Jobs
    BY <2>1, CommandFacts
  <2>3. PICK j \in Jobs : bins' = [bins EXCEPT ![<<j.root, j.name>>] = PathOf(j.name)]
    BY <1>2, <2>2 DEF PickLocal
  <2>4. PathOf(j.name) \in Shims /\ j.name \in Names
    BY DEF Jobs
  <2> HIDE DEF Shims
  <2>5. bins' \in [Roots \X Names -> Shims]
    BY <1>1, <2>3, <2>4, Zenon
  <2> QED
    BY <2>5, <1>2 DEF PickLocal
<1>3. ASSUME NEW p \in Procs, Link(p)
      PROVE  bins' \in [Roots \X Names -> Shims] /\ UNCHANGED <<lock, last, toml>>
  <2>1. Dir(p) \in Shims
    BY <1>3, DirFacts DEF Link
  <2> HIDE DEF Shims
  <2>2. bins' = bins \/ bins' = [bins EXCEPT ![<<cmd[p].job.root, cmd[p].job.name>>] = Dir(p)]
    BY <1>3 DEF Link
  <2>3. bins' \in [Roots \X Names -> Shims]
    BY <1>1, <2>1, <2>2, Zenon
  <2> QED
    BY <2>3, <1>3 DEF Link
<1>4. ASSUME NEW p \in Procs, RemoveDir(p)
      PROVE  bins' \in [Roots \X Names -> Shims] /\ UNCHANGED <<lock, last, toml>>
  <2>1. <<>> \in Shims
    OBVIOUS
  <2> HIDE DEF Shims
  <2>2. PICK d \in OfLibrary(cmd[p].name) :
          bins' = [b \in DOMAIN bins |->
              IF bins[b] = d /\ HasMeta(d) /\ store[d].entry = BinFile THEN <<>> ELSE bins[b]]
    BY <1>4 DEF RemoveDir
  <2>3. DOMAIN bins = Roots \X Names /\ \A b \in DOMAIN bins : bins[b] \in Shims
    BY <1>1
  <2>4. bins' \in [Roots \X Names -> Shims]
    BY <2>1, <2>2, <2>3
  <2> QED
    BY <2>4, <1>4 DEF RemoveDir
<1>5. ASSUME NEW p \in Procs, TruncateLock(p)
      PROVE  lock' \in Entries /\ UNCHANGED <<bins, last, toml>>
  BY <1>5 DEF TruncateLock, Entries
<1>6. ASSUME NEW p \in Procs, WriteLock(p)
      PROVE  lock' \in Entries /\ last' \in Entries /\ UNCHANGED <<bins, toml>>
  <2>1. cmd[p].phase = "writelock" /\ cmd[p] \in CommandRecords
    BY <1>1, <1>6 DEF WriteLock
  <2>2. cmd[p].snap \in Entries /\ cmd[p].ver \in Versions
    BY <2>1, CommandFacts
  <2>3. /\ lock' = [cmd[p].snap EXCEPT ![cmd[p].job.name] = cmd[p].ver]
        /\ last' = [last EXCEPT ![cmd[p].job.name] = cmd[p].ver]
    BY <1>6 DEF WriteLock, WithEntry
  <2>4. lock' \in Entries /\ last' \in Entries
    BY <1>1, <2>2, <2>3 DEF Entries
  <2> QED
    BY <2>4, <1>6 DEF WriteLock
<1>7. ASSUME NEW p \in Procs, TruncateToml(p)
      PROVE  toml' \in Manifest /\ UNCHANGED <<bins, last, lock>>
  BY <1>7 DEF TruncateToml, Manifest
<1>8. ASSUME NEW p \in Procs, WriteToml(p)
      PROVE  toml' \in Manifest /\ UNCHANGED <<bins, last, lock>>
  <2>1. cmd[p].phase = "writetoml" /\ cmd[p] \in CommandRecords
    BY <1>1, <1>8 DEF WriteToml
  <2>2. cmd[p].snap \in Manifest /\ cmd[p].job \in Jobs
    BY <2>1, CommandFacts
  <2>3. cmd[p].job.lib \in Libs
    BY <2>2 DEF Jobs
  <2>4. toml' = [cmd[p].snap EXCEPT ![cmd[p].job.name] = cmd[p].job.lib]
    BY <1>8 DEF WriteToml
  <2>5. toml' \in Manifest
    BY <2>2, <2>3, <2>4, Zenon DEF Manifest
  <2> QED
    BY <2>5, <1>8 DEF WriteToml
<1>9. \/ UNCHANGED <<bins, lock, last, toml>>
      \/ \E p \in Procs : \/ PickLocal(p) \/ Link(p) \/ RemoveDir(p) \/ TruncateLock(p)
                          \/ WriteLock(p) \/ TruncateToml(p) \/ WriteToml(p)
  <2>1. ASSUME NEW p \in Procs,
               \/ InstallSpec(p) \/ InstallAll(p) \/ Update(p) \/ UpdateOne(p) \/ RemoveLibrary(p)
        PROVE  UNCHANGED <<bins, lock, last, toml>>
    BY <2>1 DEF InstallSpec, InstallAll, Update, UpdateOne, RemoveLibrary, Begin, disk
  <2>2. ASSUME NEW p \in Procs,
               \/ Pick(p) \/ Done(p) \/ MakeDir(p) \/ OpenFile(p) \/ FetchFile(p) \/ WayFails(p)
               \/ WriteMeta(p) \/ ReadLock(p) \/ ReadToml(p) \/ Unlink(p) \/ Rmdir(p)
               \/ RemoveFails(p) \/ Removed(p) \/ Kill(p)
        PROVE  UNCHANGED <<bins, lock, last, toml>>
    BY <2>2 DEF Pick, Done, MakeDir, OpenFile, FetchFile, WayFails, WriteMeta, ReadLock, ReadToml,
                Unlink, Rmdir, RemoveFails, Removed, Kill, disk
  <2>3. ASSUME NEW n \in Names, Publish(n) PROVE UNCHANGED <<bins, lock, last, toml>>
    BY <2>3 DEF Publish, disk
  <2> QED
    BY <2>1, <2>2, <2>3, Zenon DEF PackagesNext
<1> HIDE DEF Shims
<1>10. bins' \in [Roots \X Names -> Shims]
  BY <1>1, <1>2, <1>3, <1>4, <1>5, <1>6, <1>7, <1>8, <1>9
<1>11. lock' \in Entries /\ last' \in Entries /\ toml' \in Manifest
  BY <1>1, <1>2, <1>3, <1>4, <1>5, <1>6, <1>7, <1>8, <1>9
<1> QED
  BY <1>10, <1>11 DEF Shims

(* What was completed stays so; what is broken stays so, but for a file that *)
(* is fetched and a directory that is deleted.                               *)
LEMMA HistorySteps ==
    ASSUME PackagesTypeOK, PackagesNext
    PROVE  /\ completed \subseteq completed' /\ completed' \subseteq Dirs
           /\ broken' \subseteq Dirs \X FileNames
           /\ broken \subseteq broken' \/ \E p \in Procs : FetchFile(p) \/ Rmdir(p)
<1>1. completed \subseteq Dirs /\ broken \subseteq Dirs \X FileNames
  BY DEF PackagesTypeOK
<1>2. ASSUME NEW p \in Procs PROVE Spoilt(p) \subseteq Dirs \X FileNames
  <2>1. CASE cmd[p].phase = "write"
    <3>1. Dir(p) \in Dirs /\ cmd[p] \in CommandRecords
      BY <2>1, DirFacts DEF PackagesTypeOK
    <3>2. Head(cmd[p].todo) \in FileNames
      BY <2>1, <3>1, CommandFacts, HeadTailProperties
    <3> QED
      BY <2>1, <3>1, <3>2 DEF Spoilt
  <2> QED
    BY <2>1 DEF Spoilt
<1>3. ASSUME NEW p \in Procs, NEW way, FetchFrom(p, way), cmd[p].phase \in {"mkdir", "fetch", "write"}
      PROVE  broken \subseteq broken' /\ broken' \subseteq Dirs \X FileNames
  <2>1. PICK todo : broken' = broken \cup Spoilt(p) \cup LeftOut(Dir(p), todo)
    BY <1>3, Zenon DEF FetchFrom
  <2>2. Dir(p) \in Dirs
    BY <1>3, DirFacts
  <2>3. LeftOut(Dir(p), todo) \subseteq Dirs \X FileNames
    BY <2>2 DEF LeftOut, Installable
  <2> QED
    BY <1>1, <1>2, <2>1, <2>3
<1>4. ASSUME NEW p \in Procs, MakeDir(p)
      PROVE  completed' = completed /\ broken \subseteq broken' /\ broken' \subseteq Dirs \X FileNames
  BY <1>3, <1>4 DEF MakeDir
<1>5. ASSUME NEW p \in Procs, WayFails(p)
      PROVE  completed' = completed /\ broken \subseteq broken' /\ broken' \subseteq Dirs \X FileNames
  <2>1. completed' = completed /\ cmd[p].phase \in {"fetch", "write"}
    BY <1>5 DEF WayFails
  <2>2. (\E way : FetchFrom(p, way)) \/ broken' = broken \cup Spoilt(p)
    BY <1>5, Zenon DEF WayFails
  <2> QED
    BY <1>1, <1>2, <1>3, <2>1, <2>2
<1>6. ASSUME NEW p \in Procs, Kill(p)
      PROVE  completed' = completed /\ broken \subseteq broken' /\ broken' \subseteq Dirs \X FileNames
  BY <1>1, <1>2, <1>6 DEF Kill
<1>7. ASSUME NEW p \in Procs, FetchFile(p) \/ Rmdir(p)
      PROVE  completed' = completed /\ broken' \subseteq Dirs \X FileNames
  BY <1>1, <1>7 DEF FetchFile, Rmdir
<1>8. ASSUME NEW p \in Procs, Unlink(p)
      PROVE  completed' = completed /\ broken \subseteq broken' /\ broken' \subseteq Dirs \X FileNames
  <2>1. /\ cmd[p].dir \in Dirs
        /\ broken' = broken \/ \E f \in Present(cmd[p].dir) : broken' = broken \cup {<<cmd[p].dir, f>>}
    BY <1>8, UnlinkStore
  <2>2. completed' = completed
    BY <1>8 DEF Unlink
  <2> QED
    BY <1>1, <2>1, <2>2 DEF Present
<1>9. ASSUME NEW p \in Procs, WriteMeta(p)
      PROVE  broken' = broken /\ completed \subseteq completed' /\ completed' \subseteq Dirs
  BY <1>1, <1>9, WriteMetaStore DEF WriteMeta
<1>10. ASSUME NEW p \in Procs,
             \/ InstallSpec(p) \/ InstallAll(p) \/ Update(p) \/ UpdateOne(p) \/ RemoveLibrary(p)
      PROVE  broken' = broken /\ completed' = completed
  BY <1>10 DEF InstallSpec, InstallAll, Update, UpdateOne, RemoveLibrary, Begin
<1>11. ASSUME NEW p \in Procs,
             \/ Pick(p) \/ PickLocal(p) \/ Done(p) \/ OpenFile(p)
             \/ Link(p) \/ ReadLock(p) \/ TruncateLock(p) \/ WriteLock(p) \/ ReadToml(p)
             \/ TruncateToml(p) \/ WriteToml(p) \/ RemoveDir(p) \/ RemoveFails(p) \/ Removed(p)
      PROVE  broken' = broken /\ completed' = completed
  BY <1>11 DEF Pick, PickLocal, Done, OpenFile, Link, ReadLock, TruncateLock, WriteLock,
               ReadToml, TruncateToml, WriteToml, RemoveDir, RemoveFails, Removed
<1>12. ASSUME NEW n \in Names, Publish(n) PROVE broken' = broken /\ completed' = completed
  BY <1>12 DEF Publish
<1> QED
  BY <1>1, <1>4, <1>5, <1>6, <1>7, <1>8, <1>9, <1>10, <1>11, <1>12 DEF PackagesNext

LEMMA TypesKept == PackagesTypeOK /\ [PackagesNext]_vars => PackagesTypeOK'
<1> SUFFICES ASSUME PackagesTypeOK, [PackagesNext]_vars PROVE PackagesTypeOK'
  OBVIOUS
<1>1. CASE UNCHANGED vars
  BY <1>1 DEF PackagesTypeOK, vars, disk, HasMeta
<1>2. CASE PackagesNext
  <2>1. tags' \in [Names -> Versions]
    <3>1. tags' = tags \/ \E n \in Names : Publish(n)
      BY <1>2 DEF PackagesNext, InstallSpec, InstallAll, Update, UpdateOne, RemoveLibrary, Begin,
         Pick, PickLocal, Done, MakeDir, OpenFile, FetchFile, WayFails, WriteMeta, Link, ReadLock,
         TruncateLock, WriteLock, ReadToml, TruncateToml, WriteToml, RemoveDir, Unlink, Rmdir,
         RemoveFails, Removed, Kill
    <3>2. tags \in [Names -> Versions] /\ MaxTag \in Nat
      BY PackagesAssumption DEF PackagesTypeOK
    <3> QED
      BY <3>1, <3>2 DEF Publish, Versions
  <2>2. completed' \subseteq Dirs /\ broken' \subseteq Dirs \X FileNames
    BY <1>2, HistorySteps
  <2>3. commands' \in Nat /\ alone' \in BOOLEAN
    <3>1. commands \in Nat /\ alone \in BOOLEAN
      BY DEF PackagesTypeOK
    <3>2. \/ UNCHANGED <<commands, alone>>
          \/ alone' = FALSE /\ commands' = commands
          \/ \E p \in Procs : \E c : Begin(p, c)
      <4>1. ASSUME NEW p \in Procs,
                   \/ InstallSpec(p) \/ InstallAll(p) \/ Update(p) \/ UpdateOne(p) \/ RemoveLibrary(p)
            PROVE  \E c : Begin(p, c)
        BY <4>1 DEF InstallSpec, InstallAll, Update, UpdateOne, RemoveLibrary
      <4>2. ASSUME NEW p \in Procs, Kill(p) PROVE alone' = FALSE /\ commands' = commands
        BY <4>2 DEF Kill
      <4>3. ASSUME NEW p \in Procs,
                   \/ Pick(p) \/ PickLocal(p) \/ Done(p) \/ MakeDir(p) \/ OpenFile(p) \/ FetchFile(p)
                   \/ WayFails(p) \/ WriteMeta(p) \/ Link(p) \/ ReadLock(p) \/ TruncateLock(p)
                   \/ WriteLock(p) \/ ReadToml(p) \/ TruncateToml(p) \/ WriteToml(p)
                   \/ RemoveDir(p) \/ Unlink(p) \/ Rmdir(p) \/ RemoveFails(p) \/ Removed(p)
            PROVE  UNCHANGED <<commands, alone>>
        BY <4>3 DEF Pick, PickLocal, Done, MakeDir, OpenFile, FetchFile, WayFails, WriteMeta, Link,
                    ReadLock, TruncateLock, WriteLock, ReadToml, TruncateToml, WriteToml, RemoveDir,
                    Unlink, Rmdir, RemoveFails, Removed
      <4>4. ASSUME NEW n \in Names, Publish(n) PROVE UNCHANGED <<commands, alone>>
        BY <4>4 DEF Publish
      <4> QED
        BY <1>2, <4>1, <4>2, <4>3, <4>4, Zenon DEF PackagesNext
    <3>3. ASSUME NEW p \in Procs, NEW c, Begin(p, c) PROVE commands' \in Nat /\ alone' \in BOOLEAN
      <4>1. commands' \in Nat
        BY <3>1, <3>3 DEF Begin
      <4>2. alone' \in BOOLEAN
        BY <3>3, Zenon DEF Begin
      <4> QED
        BY <4>1, <4>2
    <3> QED
      BY <3>1, <3>2, <3>3
  <2>4. /\ store' \in [Dirs -> DirRecords]
        /\ \A d \in Dirs : ~store'[d].made => store'[d] = NoDir
    BY <1>2, StoreKept
  <2>5. /\ bins' \in [Roots \X Names -> Dirs \cup {<<>>} \cup {PathOf(n) : n \in Names}]
        /\ lock' \in Entries /\ last' \in Entries /\ toml' \in Manifest
    BY <1>2, ProjectKept
  <2>6. cmd' \in [Procs -> CommandRecords]
    BY <1>2, CommandsKept
  <2> QED
    BY <2>1, <2>2, <2>3, <2>4, <2>5, <2>6 DEF PackagesTypeOK, DirRecords, Entries, Manifest
<1> QED
  BY <1>1, <1>2

-----------------------------------------------------------------------------
(* Directories hold the whole library                                        *)

(* How a step leaves each command: as it was, or one the step belongs to.    *)
LEMMA OthersKept ==
    ASSUME PackagesTypeOK, NEW p \in Procs, NEW q \in Procs \ {p}, Acts(p)
    PROVE  cmd'[q] = cmd[q]
<1>1. cmd \in [Procs -> CommandRecords]
  BY DEF PackagesTypeOK
<1>2. ASSUME NEW c, cmd' = [cmd EXCEPT ![p] = c] PROVE cmd'[q] = cmd[q]
  BY <1>1, <1>2
<1>3. CASE InstallSpec(p) \/ InstallAll(p) \/ Update(p) \/ UpdateOne(p) \/ RemoveLibrary(p)
  <2>1. \E c : Begin(p, c)
    BY <1>3 DEF InstallSpec, InstallAll, Update, UpdateOne, RemoveLibrary
  <2> QED
    BY <2>1, <1>2 DEF Begin
<1>4. CASE Done(p) \/ RemoveFails(p) \/ Removed(p) \/ Kill(p)
  BY <1>2, <1>4 DEF Done, RemoveFails, Removed, Kill, End
<1>5. CASE Pick(p)
  BY <1>1, <1>5 DEF Pick, End
<1>6. CASE PickLocal(p)
  BY <1>1, <1>6 DEF PickLocal
<1>7. CASE MakeDir(p) \/ WayFails(p)
  BY <1>1, <1>7 DEF MakeDir, WayFails, FetchFrom, End
<1>8. CASE FetchFile(p)
  BY <1>1, <1>8 DEF FetchFile
<1>9. CASE OpenFile(p) \/ WriteMeta(p) \/ Link(p) \/ TruncateLock(p) \/ TruncateToml(p)
  BY <1>1, <1>9 DEF OpenFile, WriteMeta, Link, TruncateLock, TruncateToml, To
<1>10. CASE ReadLock(p) \/ WriteLock(p) \/ ReadToml(p) \/ WriteToml(p)
  BY <1>2, <1>10 DEF ReadLock, WriteLock, ReadToml, WriteToml
<1>11. CASE RemoveDir(p) \/ Unlink(p) \/ Rmdir(p)
  BY <1>2, <1>11 DEF RemoveDir, Unlink, Rmdir
<1> QED
  BY <1>3, <1>4, <1>5, <1>6, <1>7, <1>8, <1>9, <1>10, <1>11, Zenon DEF Acts

(* What the steps of fetching do with the command that takes them.           *)
LEMMA FileCommands ==
    ASSUME PackagesTypeOK, NEW q \in Procs
    PROVE  /\ OpenFile(q) => /\ cmd'[q].phase = "write" /\ Dir(q)' = Dir(q)
                              /\ cmd'[q].todo = cmd[q].todo
           /\ FetchFile(q) => /\ cmd'[q].phase = "fetch" /\ Dir(q)' = Dir(q)
                               /\ cmd'[q].todo = Tail(cmd[q].todo)
           /\ \A way : FetchFrom(q, way) =>
                  /\ cmd'[q].phase = "fetch" /\ Dir(q)' = Dir(q)
                  /\ Spoilt(q) \subseteq broken' /\ LeftOut(Dir(q), cmd'[q].todo) \subseteq broken'
<1>1. cmd \in [Procs -> CommandRecords] /\ cmd[q] \in CommandRecords
  BY DEF PackagesTypeOK
<1>2. cmd[q].phase \in {"fetch", "write"} =>
        DOMAIN cmd[q] = {"phase", "left", "add", "job", "ver", "way", "todo"}
  BY <1>1 DEF CommandRecords, NoCommand
<1>3. OpenFile(q) => /\ cmd'[q].phase = "write" /\ Dir(q)' = Dir(q)
                     /\ cmd'[q].todo = cmd[q].todo
  <2>1. OpenFile(q) => cmd' = [cmd EXCEPT ![q] = [cmd[q] EXCEPT !.phase = "write"]]
    BY DEF OpenFile, To
  <2> QED
    BY <1>1, <1>2, <2>1 DEF OpenFile, Dir
<1>4. FetchFile(q) => /\ cmd'[q].phase = "fetch" /\ Dir(q)' = Dir(q)
                      /\ cmd'[q].todo = Tail(cmd[q].todo)
  <2>1. FetchFile(q) =>
          cmd' = [cmd EXCEPT ![q] = [cmd[q] EXCEPT !.phase = "fetch", !.todo = Tail(cmd[q].todo)]]
    BY DEF FetchFile
  <2> QED
    BY <1>1, <1>2, <2>1 DEF FetchFile, Dir
<1>5. ASSUME NEW way, FetchFrom(q, way)
      PROVE  /\ cmd'[q].phase = "fetch" /\ Dir(q)' = Dir(q)
             /\ Spoilt(q) \subseteq broken' /\ LeftOut(Dir(q), cmd'[q].todo) \subseteq broken'
  <2>1. PICK todo \in Listings(way) :
        /\ cmd' = [cmd EXCEPT ![q] = [phase |-> "fetch", left |-> cmd[q].left, add |-> cmd[q].add,
                                      job |-> cmd[q].job, ver |-> cmd[q].ver, way |-> way,
                                      todo |-> todo]]
        /\ broken' = broken \cup Spoilt(q) \cup LeftOut(Dir(q), todo)
    BY <1>5, Zenon DEF FetchFrom
  <2>2. cmd'[q].phase = "fetch" /\ Dir(q)' = Dir(q) /\ cmd'[q].todo = todo
    BY <1>1, <2>1 DEF Dir
  <2> QED
    BY <2>1, <2>2
<1> QED
  BY <1>3, <1>4, <1>5

(* A command that fetches after a step did so before, or begins to.          *)
LEMMA FetchSteps ==
    ASSUME PackagesTypeOK, PackagesNext, NEW q \in Procs, cmd'[q].phase \in {"fetch", "write"}
    PROVE  \/ cmd'[q] = cmd[q]
           \/ /\ cmd[q].phase \in {"mkdir", "fetch", "write"}
              /\ \E way : FetchFrom(q, way)
           \/ OpenFile(q)
           \/ FetchFile(q)
<1>1. cmd \in [Procs -> CommandRecords] /\ cmd[q] \in CommandRecords
  BY DEF PackagesTypeOK
<1>2. CASE \E n \in Names : Publish(n)
  BY <1>2 DEF Publish
<1>3. ASSUME NEW p \in Procs \ {q}, Acts(p) PROVE  cmd'[q] = cmd[q]
  BY <1>3, OthersKept
<1>4. CASE InstallSpec(q) \/ InstallAll(q) \/ Update(q) \/ UpdateOne(q) \/ RemoveLibrary(q)
  <2>1. ASSUME NEW c, Begin(q, c), c.phase \in {"pick", "remove"}
        PROVE  cmd'[q].phase \notin {"fetch", "write"}
    BY <1>1, <2>1 DEF Begin
  <2>2. \E c : Begin(q, c) /\ c.phase \in {"pick", "remove"}
    <3>1. \A left, add : Installing(left, add).phase \in {"pick", "remove"}
      BY DEF Installing
    <3>2. \A n : [phase |-> "remove", name |-> n].phase \in {"pick", "remove"}
      OBVIOUS
    <3>3. CASE InstallSpec(q)
      BY <3>1, <3>3, Zenon DEF InstallSpec
    <3>4. CASE InstallAll(q) \/ Update(q) \/ UpdateOne(q)
      BY <3>1, <3>4, Zenon DEF InstallAll, Update, UpdateOne
    <3>5. CASE RemoveLibrary(q)
      BY <3>2, <3>5, Zenon DEF RemoveLibrary
    <3> QED
      BY <1>4, <3>3, <3>4, <3>5
  <2> QED
    BY <2>1, <2>2
<1>5. CASE Done(q) \/ RemoveFails(q) \/ Removed(q) \/ Kill(q)
  BY <1>1, <1>5 DEF Done, RemoveFails, Removed, Kill, End, NoCommand
<1>6. CASE Pick(q)
  BY <1>1, <1>6 DEF Pick, End, NoCommand
<1>7. CASE PickLocal(q)
  <2>1. PICK j : cmd' = [cmd EXCEPT ![q] = [cmd[q] EXCEPT !.left = @ \ {j}]]
    BY <1>7 DEF PickLocal
  <2>2. cmd'[q].phase = cmd[q].phase /\ cmd[q].phase = "pick"
    BY <1>1, <1>7, <2>1 DEF PickLocal
  <2> QED
    BY <2>2
<1>9. CASE MakeDir(q)
  BY <1>9, Zenon DEF MakeDir
<1>10. CASE WayFails(q)
  <2>1. CASE cmd[q].way \in {1, 2}
    BY <1>10, <2>1, Zenon DEF WayFails
  <2>2. CASE cmd[q].way \notin {1, 2}
    BY <1>1, <1>10, <2>2 DEF WayFails, End, NoCommand
  <2> QED
    BY <2>1, <2>2
<1>11. ASSUME NEW to \in {"link", "readlock", "writelock", "writetoml"}, To(q, to)
       PROVE  cmd'[q].phase \notin {"fetch", "write"}
  <2>1. "phase" \in DOMAIN cmd[q]
    BY <1>1 DEF CommandRecords, NoCommand
  <2>2. cmd' = [cmd EXCEPT ![q] = [cmd[q] EXCEPT !.phase = to]]
    BY <1>11 DEF To
  <2>3. cmd'[q].phase = to
    BY <1>1, <2>1, <2>2
  <2> QED
    BY <2>3
<1>12. CASE WriteMeta(q) \/ Link(q) \/ TruncateLock(q) \/ TruncateToml(q)
  BY <1>11, <1>12 DEF WriteMeta, Link, TruncateLock, TruncateToml
<1>13. CASE ReadLock(q) \/ WriteLock(q) \/ ReadToml(q) \/ WriteToml(q)
  BY <1>1, <1>13 DEF ReadLock, WriteLock, ReadToml, WriteToml
<1>14. CASE RemoveDir(q) \/ Unlink(q) \/ Rmdir(q)
  <2>1. RemoveDir(q) => \E d : cmd' = [cmd EXCEPT ![q] = [phase |-> "unlink", name |-> cmd[q].name, dir |-> d]]
    BY Zenon DEF RemoveDir
  <2>2. RemoveDir(q) => cmd'[q].phase = "unlink"
    BY <1>1, <2>1
  <2>3. Unlink(q) => cmd'[q].phase = "unlink"
    BY DEF Unlink
  <2>4. Rmdir(q) => cmd'[q].phase = "remove"
    BY <1>1 DEF Rmdir
  <2> QED
    BY <1>14, <2>2, <2>3, <2>4
<1> QED
  BY <1>2, <1>3, <1>4, <1>5, <1>6, <1>7, <1>9, <1>10, <1>12, <1>13, <1>14, SomeActs DEF Acts

(* A command that writes a file ends it, spoils it or has not moved.         *)
LEMMA WriteSteps ==
    ASSUME PackagesTypeOK, PackagesNext, NEW q \in Procs, cmd[q].phase = "write"
    PROVE  \/ cmd'[q] = cmd[q]
           \/ FetchFile(q)
           \/ <<Dir(q), Head(cmd[q].todo)>> \in broken'
<1>1. Spoilt(q) = {<<Dir(q), Head(cmd[q].todo)>>}
  BY DEF Spoilt
<1>2. CASE \E n \in Names : Publish(n)
  BY <1>2 DEF Publish
<1>3. ASSUME NEW p \in Procs \ {q}, Acts(p) PROVE  cmd'[q] = cmd[q]
  BY <1>3, OthersKept
<1>4. CASE Kill(q)
  BY <1>1, <1>4 DEF Kill
<1>5. CASE WayFails(q)
  <2>1. CASE cmd[q].way \in {1, 2}
    <3>1. FetchFrom(q, cmd[q].way + 1)
      BY <1>5, <2>1 DEF WayFails
    <3> QED
      BY <1>1, <3>1, FileCommands
  <2>2. CASE cmd[q].way \notin {1, 2}
    BY <1>1, <1>5, <2>2 DEF WayFails
  <2> QED
    BY <2>1, <2>2
<1>6. ASSUME InstallSpec(q) \/ InstallAll(q) \/ Update(q) \/ UpdateOne(q) \/ RemoveLibrary(q)
      PROVE  FALSE
  BY <1>6 DEF InstallSpec, InstallAll, Update, UpdateOne, RemoveLibrary, Begin, Idle
<1>7. ASSUME \/ Pick(q) \/ PickLocal(q) \/ Done(q) \/ MakeDir(q) \/ OpenFile(q) \/ WriteMeta(q)
             \/ Link(q) \/ ReadLock(q) \/ TruncateLock(q) \/ WriteLock(q) \/ ReadToml(q)
             \/ TruncateToml(q) \/ WriteToml(q) \/ RemoveDir(q) \/ Unlink(q) \/ Rmdir(q)
             \/ RemoveFails(q) \/ Removed(q)
      PROVE  FALSE
  BY <1>7 DEF Pick, PickLocal, Done, MakeDir, OpenFile, WriteMeta, Link, ReadLock, TruncateLock,
              WriteLock, ReadToml, TruncateToml, WriteToml, RemoveDir, Unlink, Rmdir, RemoveFails,
              Removed
<1> QED
  BY <1>2, <1>3, <1>4, <1>5, <1>6, <1>7, SomeActs DEF Acts

(* What a step does to one file.                                             *)
LEMMA PutFile ==
    ASSUME PackagesTypeOK, NEW e \in Dirs, NEW g \in FileNames, NEW c, Put(e, g, c),
           NEW d \in Dirs, NEW f \in FileNames
    PROVE  store'[d].files[f] = IF d = e /\ f = g THEN c ELSE store[d].files[f]
<1>1. store \in [Dirs -> DirRecords]
  BY StoreTypes
<1>2. PICK r \in DirRecords : /\ store' = [store EXCEPT ![e] = r]
                              /\ r.files = [store[e].files EXCEPT ![g] = c]
  BY Zenon DEF Put
<1>3. store[e].files \in [FileNames -> Contents]
  BY <1>1 DEF DirRecords
<1>4. CASE d = e
  <2>1. store'[d] = r
    BY <1>1, <1>2, <1>4
  <2> QED
    BY <1>2, <1>3, <1>4, <2>1
<1>5. CASE d # e
  BY <1>1, <1>2, <1>5
<1> QED
  BY <1>4, <1>5

LEMMA FileSteps ==
    ASSUME PackagesTypeOK, PackagesNext, NEW d \in Dirs, NEW f \in FileNames
    PROVE  \/ store'[d].files[f] = store[d].files[f]
           \/ /\ store'[d].files[f] = Opened
              /\ \E p \in Procs : OpenFile(p) /\ d = Dir(p) /\ f = Head(cmd[p].todo)
           \/ AsTagged(store'[d].files[f], d[3])
           \/ <<d, f>> \in broken'
<1>1. /\ store \in [Dirs -> DirRecords]
      /\ \A e \in Dirs : DOMAIN store[e] = {"made", "files", "entry"}
  BY StoreTypes DEF DirRecords
<1>2. CASE store' = store
  BY <1>2
<1>3. ASSUME NEW p \in Procs, MakeDir(p) PROVE store'[d].files[f] = store[d].files[f]
  BY <1>1, <1>3, MakeDirStore
<1>4. ASSUME NEW p \in Procs, WriteMeta(p) PROVE store'[d].files[f] = store[d].files[f]
  BY <1>1, <1>4, WriteMetaStore
<1>5. ASSUME NEW p \in Procs, OpenFile(p)
      PROVE  \/ store'[d].files[f] = store[d].files[f]
             \/ store'[d].files[f] = Opened /\ d = Dir(p) /\ f = Head(cmd[p].todo)
  <2>1. Dir(p) \in Dirs /\ Head(cmd[p].todo) \in FileNames /\ Put(Dir(p), Head(cmd[p].todo), Opened)
    BY <1>5, OpenFileStore
  <2> QED
    BY <2>1, PutFile
<1>6. ASSUME NEW p \in Procs, FetchFile(p)
      PROVE  store'[d].files[f] = store[d].files[f] \/ AsTagged(store'[d].files[f], d[3])
  <2> DEFINE h == Head(cmd[p].todo)
             c == ContentOf(cmd[p].job.name, cmd[p].ver)
  <2>1. Dir(p) \in Dirs /\ h \in FileNames /\ (store' = store \/ Put(Dir(p), h, c))
    BY <1>6, FetchFileStore
  <2>2. c \in Versions /\ (Dir(p)[3] > 0 => c = Dir(p)[3])
    BY <1>6, DirFacts DEF FetchFile
  <2> HIDE DEF h, c
  <2>3. CASE store' = store
    BY <2>3
  <2>4. CASE Put(Dir(p), h, c)
    <3>1. store'[d].files[f] = IF d = Dir(p) /\ f = h THEN c ELSE store[d].files[f]
      BY <2>1, <2>4, PutFile
    <3> QED
      BY <2>2, <3>1 DEF AsTagged
  <2> QED
    BY <2>1, <2>3, <2>4
<1>7. ASSUME NEW p \in Procs, Unlink(p)
      PROVE  store'[d].files[f] = store[d].files[f] \/ <<d, f>> \in broken'
  <2> DEFINE e == cmd[p].dir
  <2>1. /\ e \in Dirs
        /\ \/ \E g \in Present(e) : Put(e, g, Absent) /\ broken' = broken \cup {<<e, g>>}
           \/ store' = [store EXCEPT ![e] = [store[e] EXCEPT !.entry = ""]]
    BY <1>7, UnlinkStore
  <2> HIDE DEF e
  <2>2. ASSUME NEW g \in Present(e), Put(e, g, Absent), broken' = broken \cup {<<e, g>>}
        PROVE  store'[d].files[f] = store[d].files[f] \/ <<d, f>> \in broken'
    <3>1. g \in FileNames
      BY DEF Present
    <3>e. e \in Dirs
      BY <2>1
    <3>2. store'[d].files[f] = IF d = e /\ f = g THEN Absent ELSE store[d].files[f]
      BY <2>2, <3>1, <3>e, PutFile
    <3> QED
      BY <2>2, <3>2
  <2>3. CASE store' = [store EXCEPT ![e] = [store[e] EXCEPT !.entry = ""]]
    BY <1>1, <2>1, <2>3
  <2> QED
    BY <2>1, <2>2, <2>3
<1>8. ASSUME NEW p \in Procs, Rmdir(p) PROVE store'[d].files[f] = store[d].files[f]
  <2>1. /\ cmd[p].dir \in Dirs /\ store' = [store EXCEPT ![cmd[p].dir] = NoDir]
        /\ Present(cmd[p].dir) = {}
    BY <1>8, RmdirStore
  <2>2. NoDir.files[f] = Absent
    BY DEF NoDir
  <2>3. d = cmd[p].dir => store[d].files[f] = Absent
    BY <2>1 DEF Present
  <2> QED
    BY <1>1, <2>1, <2>2, <2>3
<1> QED
  BY <1>2, <1>3, <1>4, <1>5, <1>6, <1>7, <1>8, DirectorySteps

(* A broken file stays broken until it is written, while its directory is    *)
(* filled or has metadata.                                                   *)
LEMMA BrokenSteps ==
    ASSUME PackagesTypeOK, PackagesNext, NEW d \in Dirs, NEW f \in FileNames, <<d, f>> \in broken
    PROVE  \/ <<d, f>> \in broken'
           \/ AsTagged(store'[d].files[f], d[3])
           \/ ~HasMeta(d)' /\ \A q \in Procs : ~Fills(q, d)
<1>1. CASE broken \subseteq broken'
  BY <1>1
<1>2. ASSUME NEW p \in Procs, FetchFile(p), <<d, f>> \notin broken'
      PROVE  AsTagged(store'[d].files[f], d[3])
  <2> DEFINE h == Head(cmd[p].todo)
             c == ContentOf(cmd[p].job.name, cmd[p].ver)
  <2>1. /\ Dir(p) \in Dirs /\ h \in FileNames
        /\ broken' = broken \/ (Put(Dir(p), h, c) /\ broken' = broken \ {<<Dir(p), h>>})
    BY <1>2, FetchFileStore
  <2>2. c \in Versions /\ (Dir(p)[3] > 0 => c = Dir(p)[3])
    BY <1>2, DirFacts DEF FetchFile
  <2> HIDE DEF h, c
  <2>3. d = Dir(p) /\ f = h /\ Put(Dir(p), h, c)
    BY <1>2, <2>1
  <2>4. store'[d].files[f] = c
    BY <2>1, <2>3, PutFile
  <2> QED
    BY <2>2, <2>3, <2>4 DEF AsTagged
<1>3. ASSUME NEW p \in Procs, Rmdir(p), <<d, f>> \notin broken'
      PROVE  ~HasMeta(d)' /\ \A q \in Procs : ~Fills(q, d)
  <2>1. /\ cmd[p].dir \in Dirs /\ store' = [store EXCEPT ![cmd[p].dir] = NoDir]
        /\ \/ broken' = broken
           \/ /\ \A q \in Procs : ~Fills(q, cmd[p].dir)
              /\ broken' = broken \ ({cmd[p].dir} \X FileNames)
    BY <1>3, RmdirStore
  <2>2. d = cmd[p].dir /\ \A q \in Procs : ~Fills(q, d)
    BY <1>3, <2>1
  <2>3. NoDir.entry = ""
    BY DEF NoDir
  <2>4. store'[d] = NoDir
    BY <2>1, <2>2, StoreTypes
  <2> QED
    BY <2>2, <2>3, <2>4 DEF HasMeta
<1> QED
  BY <1>1, <1>2, <1>3, HistorySteps

(* A right file stays right while its directory is filled or has metadata.   *)
LEMMA RightStays ==
    ASSUME PackagesTypeOK, Filled, PackagesNext, NEW d \in Dirs, NEW f \in FileNames, Right(d, f),
           HasMeta(d)' \/ \E q \in Procs : Fills(q, d)
    PROVE  Right(d, f)'
<1>1. AsTagged(store'[d].files[f], d[3]) => Right(d, f)'
  BY Zenon DEF Right, InPlace
<1>2. <<d, f>> \in broken' => Right(d, f)'
  BY Zenon DEF Right
<1>3. ASSUME NEW q \in Procs, cmd'[q].phase = "write", Dir(q)' = d, Head(cmd'[q].todo) = f
      PROVE  Right(d, f)'
  BY <1>3, Zenon DEF Right, Writes
<1>4. CASE InPlace(d, f)
  <2>1. CASE store'[d].files[f] = store[d].files[f]
    BY <1>1, <1>4, <2>1 DEF InPlace
  <2>2. ASSUME NEW p \in Procs, OpenFile(p), d = Dir(p), f = Head(cmd[p].todo) PROVE Right(d, f)'
    <3>1. cmd'[p].phase = "write" /\ Dir(p)' = d /\ Head(cmd'[p].todo) = f
      BY <2>2, FileCommands
    <3> QED
      BY <1>3, <3>1
  <2> QED
    BY <1>1, <1>2, <2>1, <2>2, FileSteps
<1>5. CASE <<d, f>> \in broken
  BY <1>1, <1>2, <1>5, BrokenSteps
<1>6. ASSUME NEW q \in Procs, Writes(q, d, f) PROVE Right(d, f)'
  <2>1. cmd[q].phase = "write" /\ Dir(q) = d /\ Head(cmd[q].todo) = f
    BY <1>6 DEF Writes
  <2>2. CASE cmd'[q] = cmd[q]
    <3>1. cmd'[q].phase = "write" /\ Dir(q)' = d /\ Head(cmd'[q].todo) = f
      BY <2>1, <2>2 DEF Dir
    <3> QED
      BY <1>3, <3>1
  <2>3. CASE FetchFile(q)
    <3> DEFINE c == ContentOf(cmd[q].job.name, cmd[q].ver)
    <3>1. \/ f \notin Present(d) /\ broken' = broken
          \/ Put(d, f, c)
      BY <2>1, <2>3, FetchFileStore
    <3>2. c \in Versions /\ (d[3] > 0 => c = d[3])
      BY <2>1, DirFacts
    <3> HIDE DEF c
    <3>3. CASE f \notin Present(d) /\ broken' = broken
      BY <1>2, <2>1, <3>3 DEF Filled
    <3>4. CASE Put(d, f, c)
      <4>1. store'[d].files[f] = c
        BY <3>4, PutFile
      <4> QED
        BY <1>1, <3>2, <4>1 DEF AsTagged
    <3> QED
      BY <3>1, <3>3, <3>4
  <2> QED
    BY <1>2, <2>1, <2>2, <2>3, WriteSteps
<1> QED
  BY <1>4, <1>5, <1>6 DEF Right

(* So is a file that is there or broken, while its directory is filled.      *)
LEMMA OpenedStays ==
    ASSUME PackagesTypeOK, PackagesNext, NEW d \in Dirs, NEW f \in FileNames,
           f \in Present(d) \/ <<d, f>> \in broken, NEW q \in Procs, Fills(q, d)
    PROVE  f \in Present(d)' \/ <<d, f>> \in broken'
<1>1. store'[d].files[f] \in Versions \cup {Opened} => f \in Present(d)'
  BY DEF Present, Versions, Opened, Absent
<1>2. AsTagged(store'[d].files[f], d[3]) => f \in Present(d)'
  BY <1>1 DEF AsTagged
<1>3. CASE f \in Present(d)
  <2>1. store[d].files[f] = store'[d].files[f] => f \in Present(d)'
    BY <1>3 DEF Present
  <2> QED
    BY <1>1, <1>2, <2>1, FileSteps
<1>4. CASE <<d, f>> \in broken
  BY <1>2, <1>4, BrokenSteps
<1> QED
  BY <1>3, <1>4

(* Metadata comes of writing it.                                             *)
LEMMA MetaSteps ==
    ASSUME PackagesTypeOK, PackagesNext, NEW d \in Dirs, HasMeta(d)', ~HasMeta(d)
    PROVE  \E p \in Procs : WriteMeta(p) /\ d = Dir(p)
<1>1. /\ store \in [Dirs -> DirRecords]
      /\ \A e \in Dirs : DOMAIN store[e] = {"made", "files", "entry"}
  BY StoreTypes DEF DirRecords
<1>2. store' # store /\ store'[d].entry # store[d].entry
  BY DEF HasMeta
<1>3. ASSUME NEW p \in Procs, MakeDir(p) PROVE FALSE
  BY <1>1, <1>2, <1>3, MakeDirStore
<1>4. ASSUME NEW e \in Dirs, NEW f, NEW c, Put(e, f, c) PROVE FALSE
  <2>1. PICK r \in DirRecords : store' = [store EXCEPT ![e] = r] /\ r.entry = store[e].entry
    BY <1>4, Zenon DEF Put
  <2> QED
    BY <1>1, <1>2, <2>1
<1>5. ASSUME NEW p \in Procs, OpenFile(p) \/ FetchFile(p) PROVE FALSE
  BY <1>2, <1>4, <1>5, OpenFileStore, FetchFileStore
<1>6. ASSUME NEW e \in Dirs, NEW r, store' = [store EXCEPT ![e] = r], ~(r.entry # "") PROVE FALSE
  BY <1>1, <1>2, <1>6 DEF HasMeta
<1>7. ASSUME NEW p \in Procs, Unlink(p) PROVE FALSE
  <2> DEFINE e == cmd[p].dir
             r == [store[e] EXCEPT !.entry = ""]
  <2>1. e \in Dirs /\ ((\E f, c : Put(e, f, c)) \/ store' = [store EXCEPT ![e] = r])
    BY <1>7, UnlinkStore
  <2>2. ~(r.entry # "")
    BY <1>1, <2>1
  <2> HIDE DEF e, r
  <2> QED
    BY <1>4, <1>6, <2>1, <2>2
<1>8. ASSUME NEW p \in Procs, Rmdir(p) PROVE FALSE
  <2>1. ~(NoDir.entry # "")
    BY DEF NoDir
  <2> QED
    BY <1>6, <1>8, <2>1, RmdirStore
<1>9. ASSUME NEW p \in Procs, WriteMeta(p) PROVE d = Dir(p)
  BY <1>1, <1>2, <1>9, WriteMetaStore
<1> QED
  BY <1>2, <1>3, <1>5, <1>7, <1>8, <1>9, DirectorySteps

LEMMA RangeOfTail ==
    ASSUME NEW T, NEW s \in Seq(T), s # <<>>, NEW x \in Range(s), x \notin Range(Tail(s))
    PROVE  x = Head(s)
<1>1. PICK i \in 1..Len(s) : s[i] = x
  BY DEF Range
<1>2. CASE i = 1
  BY <1>1, <1>2
<1>3. CASE i # 1
  <2>1. /\ Tail(s) \in Seq(T) /\ Len(Tail(s)) = Len(s) - 1
        /\ \A j \in 1..Len(Tail(s)) : Tail(s)[j] = s[j + 1]
    BY HeadTailProperties
  <2>2. i - 1 \in 1..Len(Tail(s)) /\ Tail(s)[i - 1] = x
    BY <1>1, <1>3, <2>1
  <2>3. x \in Range(Tail(s))
    <3> DEFINE t == Tail(s)
    <3> HIDE DEF t
    <3>1. t \in Seq(T) /\ i - 1 \in 1..Len(t) /\ t[i - 1] = x
      BY <2>1, <2>2 DEF t
    <3>2. x \in Range(t)
      BY <3>1 DEF Range
    <3> QED
      BY <3>2 DEF t
  <2> QED
    BY <2>3
<1> QED
  BY <1>2, <1>3

LEMMA FilledKept ==
    ASSUME PackagesTypeOK, Filled, PackagesNext
    PROVE  Filled'
<1>1. Installable \subseteq FileNames
  BY DEF Installable
<1>2. ASSUME NEW q \in Procs, cmd'[q].phase \in {"fetch", "write"},
             NEW f \in Installable \ Range(cmd'[q].todo)
      PROVE  Right(Dir(q), f)'
  <2>1. ASSUME Dir(q)' = Dir(q), Fetching(q), Right(Dir(q), f) PROVE Right(Dir(q), f)'
    <3>1. PICK d : d = Dir(q)
      OBVIOUS
    <3>2. d \in Dirs /\ Fills(q, d)
      BY <2>1, <3>1, DirFacts DEF Fetching, Fills
    <3>3. Right(d, f)'
      BY <1>1, <1>2, <2>1, <3>1, <3>2, RightStays
    <3>4. Dir(q)' = d
      BY <2>1, <3>1
    <3> QED
      BY <3>3, <3>4, Zenon
  <2>2. CASE cmd'[q] = cmd[q]
    <3>1. Dir(q)' = Dir(q) /\ Fetching(q) /\ f \notin Range(cmd[q].todo)
      BY <1>2, <2>2 DEF Dir, Fetching
    <3> QED
      BY <2>1, <3>1 DEF Filled
  <2>3. ASSUME NEW way, FetchFrom(q, way) PROVE Right(Dir(q), f)'
    <3>1. LeftOut(Dir(q), cmd'[q].todo) \subseteq broken' /\ Dir(q)' = Dir(q)
      BY <2>3, FileCommands
    <3>2. <<Dir(q)', f>> \in broken'
      BY <1>2, <3>1 DEF LeftOut
    <3> QED
      BY <3>2, Zenon DEF Right
  <2>4. CASE OpenFile(q)
    <3>1. Dir(q)' = Dir(q) /\ Fetching(q) /\ f \notin Range(cmd[q].todo)
      BY <1>2, <2>4, FileCommands DEF OpenFile, Fetching
    <3> QED
      BY <2>1, <3>1 DEF Filled
  <2>5. CASE FetchFile(q)
    <3>1. cmd[q].phase = "write" /\ cmd[q] \in CommandRecords
      BY <2>5 DEF FetchFile, PackagesTypeOK
    <3>2. cmd[q].todo \in Seq(FileNames) /\ cmd[q].todo # <<>>
      BY <3>1, CommandFacts
    <3>3. Dir(q)' = Dir(q) /\ Fetching(q) /\ cmd'[q].todo = Tail(cmd[q].todo)
      BY <2>5, <3>1, FileCommands DEF Fetching
    <3>4. f \in Range(cmd[q].todo) => f = Head(cmd[q].todo)
      BY <1>2, <3>2, <3>3, RangeOfTail
    <3>5. f = Head(cmd[q].todo) => Right(Dir(q), f)
      BY <3>1, Zenon DEF Right, Writes
    <3>6. f \notin Range(cmd[q].todo) => Right(Dir(q), f)
      BY <1>2, <3>3 DEF Filled
    <3> QED
      BY <2>1, <3>3, <3>4, <3>5, <3>6
  <2> QED
    BY <1>2, <2>2, <2>3, <2>4, <2>5, FetchSteps
<1>3. ASSUME NEW d \in Dirs, HasMeta(d)', NEW f \in Installable
      PROVE  Right(d, f)'
  <2>1. CASE HasMeta(d)
    <3>1. Right(d, f)
      BY <2>1 DEF Filled
    <3> QED
      BY <1>1, <1>3, <3>1, RightStays
  <2>2. CASE ~HasMeta(d)
    <3>1. PICK p \in Procs : WriteMeta(p) /\ d = Dir(p)
      BY <1>3, <2>2, MetaSteps
    <3>2. cmd[p].phase = "fetch" /\ cmd[p].todo = <<>>
      BY <3>1 DEF WriteMeta, Fetched
    <3>3. f \notin Range(cmd[p].todo)
      BY <3>2 DEF Range
    <3>4. Right(d, f)
      BY <3>1, <3>2, <3>3 DEF Filled, Fetching
    <3> QED
      BY <1>1, <1>3, <3>4, RightStays
  <2> QED
    BY <2>1, <2>2
<1>4. ASSUME NEW q \in Procs, cmd'[q].phase = "write"
      PROVE  Head(cmd'[q].todo) \in Present(Dir(q))' \/ <<Dir(q)', Head(cmd'[q].todo)>> \in broken'
  <2>1. CASE cmd'[q] = cmd[q]
    <3>1. PICK d, f : d = Dir(q) /\ f = Head(cmd[q].todo)
      OBVIOUS
    <3>2. cmd[q].phase = "write" /\ cmd[q] \in CommandRecords
      BY <1>4, <2>1 DEF PackagesTypeOK
    <3>3. d \in Dirs /\ f \in FileNames /\ Fills(q, d)
      BY <3>1, <3>2, DirFacts, CommandFacts, HeadTailProperties DEF Fills
    <3>4. f \in Present(d)' \/ <<d, f>> \in broken'
      BY <3>1, <3>2, <3>3, OpenedStays DEF Filled
    <3>5. Dir(q)' = d /\ Head(cmd'[q].todo) = f
      BY <2>1, <3>1 DEF Dir
    <3> QED
      BY <3>4, <3>5, Zenon
  <2>2. CASE OpenFile(q)
    <3>1. PICK d, f : d = Dir(q) /\ f = Head(cmd[q].todo)
      OBVIOUS
    <3>2. d \in Dirs /\ f \in FileNames /\ Put(d, f, Opened)
      BY <2>2, <3>1, OpenFileStore
    <3>3. store'[d].files[f] = Opened
      BY <3>2, PutFile
    <3>4. f \in Present(d)'
      BY <3>2, <3>3 DEF Present, Opened, Absent
    <3>5. Dir(q)' = d /\ Head(cmd'[q].todo) = f
      BY <2>2, <3>1, FileCommands
    <3> QED
      BY <3>4, <3>5, Zenon
  <2>3. FetchFile(q) \/ (\E way : FetchFrom(q, way)) => cmd'[q].phase = "fetch"
    BY FileCommands
  <2> QED
    BY <1>4, <2>1, <2>2, <2>3, FetchSteps
<1> QED
  BY <1>2, <1>3, <1>4 DEF Filled, Fetching

-----------------------------------------------------------------------------
(* lunex.lock                                                                *)

Quiet == {"idle", "pick", "remove", "unlink", "mkdir", "fetch", "write", "readtoml", "truncatetoml",
          "writetoml"}

(* Where a step takes a command, as far as it has to do with lunex.lock.     *)
LEMMA NextPhase ==
    ASSUME PackagesTypeOK, PackagesNext, NEW q \in Procs
    PROVE  \/ cmd'[q] = cmd[q]
           \/ cmd'[q].phase \in Quiet
           \/ WriteMeta(q) \/ Link(q) \/ ReadLock(q) \/ TruncateLock(q)
<1>1. cmd \in [Procs -> CommandRecords] /\ cmd[q] \in CommandRecords
  BY DEF PackagesTypeOK
<1>2. CASE \E n \in Names : Publish(n)
  BY <1>2 DEF Publish
<1>3. ASSUME NEW p \in Procs \ {q}, Acts(p) PROVE  cmd'[q] = cmd[q]
  BY <1>3, OthersKept
<1>4. ASSUME NEW c, cmd' = [cmd EXCEPT ![q] = c], c.phase \in Quiet PROVE cmd'[q].phase \in Quiet
  BY <1>1, <1>4
<1>5. CASE InstallSpec(q) \/ InstallAll(q) \/ Update(q) \/ UpdateOne(q) \/ RemoveLibrary(q)
  <2>1. \A left, add : Installing(left, add).phase \in Quiet
    BY DEF Installing, Quiet
  <2>2. \A n : [phase |-> "remove", name |-> n].phase \in Quiet
    BY DEF Quiet
  <2>3. CASE InstallSpec(q)
    <3>1. \E c : Begin(q, c) /\ c.phase \in Quiet
      BY <2>1, <2>3, Zenon DEF InstallSpec
    <3> QED
      BY <1>4, <3>1, Zenon DEF Begin
  <2>4. CASE InstallAll(q) \/ Update(q) \/ UpdateOne(q)
    BY <1>4, <2>1, <2>4, Zenon DEF InstallAll, Update, UpdateOne, Begin
  <2>5. CASE RemoveLibrary(q)
    BY <1>4, <2>2, <2>5, Zenon DEF RemoveLibrary, Begin
  <2> QED
    BY <1>5, <2>3, <2>4, <2>5
<1>6. CASE Done(q) \/ RemoveFails(q) \/ Removed(q) \/ Kill(q) \/ Pick(q)
  BY <1>1, <1>6 DEF Done, RemoveFails, Removed, Kill, Pick, End, NoCommand, Quiet
<1>7. CASE PickLocal(q)
  <2>1. PICK j : cmd' = [cmd EXCEPT ![q] = [cmd[q] EXCEPT !.left = @ \ {j}]]
    BY <1>7 DEF PickLocal
  <2>2. cmd'[q].phase = cmd[q].phase /\ cmd[q].phase = "pick"
    BY <1>1, <1>7, <2>1 DEF PickLocal
  <2> QED
    BY <2>2 DEF Quiet
<1>8. CASE MakeDir(q) \/ OpenFile(q) \/ FetchFile(q)
  <2>1. MakeDir(q) => \E way : FetchFrom(q, way)
    BY Zenon DEF MakeDir
  <2>2. cmd'[q].phase \in {"fetch", "write"}
    BY <1>8, <2>1, FileCommands
  <2> QED
    BY <2>2 DEF Quiet
<1>9. CASE WayFails(q)
  <2>1. End(q) \/ \E way : FetchFrom(q, way)
    BY <1>9, Zenon DEF WayFails
  <2>2. End(q) => cmd'[q].phase = "idle"
    BY <1>1 DEF End, NoCommand
  <2>3. cmd'[q].phase \in {"idle", "fetch"}
    BY <2>1, <2>2, FileCommands
  <2> QED
    BY <2>3 DEF Quiet
<1>10. CASE WriteLock(q) \/ ReadToml(q) \/ WriteToml(q)
  BY <1>1, <1>10 DEF WriteLock, ReadToml, WriteToml, Quiet
<1>11. CASE TruncateToml(q)
  <2>1. DOMAIN cmd[q] = {"phase", "left", "add", "job", "snap"}
    BY <1>1, <1>11 DEF TruncateToml, CommandRecords, NoCommand
  <2>2. cmd'[q].phase = "writetoml"
    BY <1>1, <1>11, <2>1 DEF TruncateToml, To
  <2> QED
    BY <2>2 DEF Quiet
<1>12. CASE RemoveDir(q) \/ Unlink(q) \/ Rmdir(q)
  <2>1. RemoveDir(q) => \E d : cmd' = [cmd EXCEPT ![q] = [phase |-> "unlink", name |-> cmd[q].name, dir |-> d]]
    BY Zenon DEF RemoveDir
  <2>2. RemoveDir(q) => cmd'[q].phase = "unlink"
    BY <1>1, <2>1
  <2>3. Unlink(q) => cmd'[q].phase = "unlink"
    BY DEF Unlink
  <2>4. Rmdir(q) => cmd'[q].phase = "remove"
    BY <1>1 DEF Rmdir
  <2> QED
    BY <1>12, <2>2, <2>3, <2>4 DEF Quiet
<1> QED
  BY <1>2, <1>3, <1>5, <1>6, <1>7, <1>8, <1>9, <1>10, <1>11, <1>12, SomeActs DEF Acts

(* What the steps to lunex.lock do with the command that takes them.         *)
LEMMA LockPhases ==
    ASSUME PackagesTypeOK, NEW q \in Procs
    PROVE  /\ WriteMeta(q) => cmd'[q].phase = "link" /\ Dir(q)' = Dir(q)
           /\ Link(q) => cmd'[q].phase = "readlock" /\ Dir(q)' = Dir(q)
           /\ ReadLock(q) => cmd'[q].phase = "truncatelock" /\ Dir(q)' = Dir(q)
                             /\ cmd'[q].snap = lock
           /\ TruncateLock(q) => cmd'[q].phase = "writelock" /\ Dir(q)' = Dir(q)
                                 /\ cmd'[q].snap = cmd[q].snap
<1>1. cmd \in [Procs -> CommandRecords] /\ cmd[q] \in CommandRecords
  BY DEF PackagesTypeOK
<1>2. cmd[q].phase \in {"fetch", "link"} =>
        DOMAIN cmd[q] = {"phase", "left", "add", "job", "ver", "way", "todo"}
  BY <1>1 DEF CommandRecords, NoCommand
<1>3. cmd[q].phase = "truncatelock" =>
        DOMAIN cmd[q] = {"phase", "left", "add", "job", "ver", "snap"}
  BY <1>1 DEF CommandRecords, NoCommand
<1>4. WriteMeta(q) => cmd'[q].phase = "link" /\ Dir(q)' = Dir(q)
  BY <1>1, <1>2 DEF WriteMeta, To, Dir
<1>5. Link(q) => cmd'[q].phase = "readlock" /\ Dir(q)' = Dir(q)
  BY <1>1, <1>2 DEF Link, To, Dir
<1>6. ReadLock(q) => cmd'[q].phase = "truncatelock" /\ Dir(q)' = Dir(q) /\ cmd'[q].snap = lock
  BY <1>1 DEF ReadLock, Dir
<1>7. TruncateLock(q) => cmd'[q].phase = "writelock" /\ Dir(q)' = Dir(q)
                         /\ cmd'[q].snap = cmd[q].snap
  BY <1>1, <1>3 DEF TruncateLock, To, Dir
<1> QED
  BY <1>4, <1>5, <1>6, <1>7

LEMMA LockSteps ==
    ASSUME PackagesTypeOK, PackagesNext
    PROVE  \/ lock' = lock /\ last' = last
           \/ \E p \in Procs : TruncateLock(p) \/ WriteLock(p)
<1>1. ASSUME NEW p \in Procs,
             \/ InstallSpec(p) \/ InstallAll(p) \/ Update(p) \/ UpdateOne(p) \/ RemoveLibrary(p)
      PROVE  lock' = lock /\ last' = last
  BY <1>1 DEF InstallSpec, InstallAll, Update, UpdateOne, RemoveLibrary, Begin, disk
<1>2. ASSUME NEW p \in Procs,
             \/ Pick(p) \/ PickLocal(p) \/ Done(p) \/ MakeDir(p) \/ OpenFile(p) \/ FetchFile(p)
             \/ WayFails(p) \/ WriteMeta(p) \/ Link(p) \/ ReadLock(p) \/ ReadToml(p)
             \/ TruncateToml(p) \/ WriteToml(p) \/ RemoveDir(p) \/ Unlink(p) \/ Rmdir(p)
             \/ RemoveFails(p) \/ Removed(p) \/ Kill(p)
      PROVE  lock' = lock /\ last' = last
  BY <1>2 DEF Pick, PickLocal, Done, MakeDir, OpenFile, FetchFile, WayFails, WriteMeta, Link,
              ReadLock, ReadToml, TruncateToml, WriteToml, RemoveDir, Unlink, Rmdir, RemoveFails,
              Removed, Kill, disk
<1>3. ASSUME NEW n \in Names, Publish(n) PROVE lock' = lock /\ last' = last
  BY <1>3 DEF Publish, disk
<1> QED
  BY <1>1, <1>2, <1>3, Zenon DEF PackagesNext

LEMMA AllPinnedKept ==
    ASSUME PackagesTypeOK, AllPinned, PackagesNext
    PROVE  AllPinned'
<1>1. completed \subseteq completed' /\ completed \subseteq Dirs
  BY HistorySteps DEF PackagesTypeOK
<1>2. \A entries : PinnedIn(entries, completed) => PinnedIn(entries, completed')
  BY <1>1, Zenon DEF PinnedIn
<1>3. Pinned(lock)'
  <2>1. CASE lock' = lock
    BY <1>2, <2>1 DEF AllPinned, Pinned
  <2>2. ASSUME NEW p \in Procs, TruncateLock(p) PROVE Pinned(lock)'
    BY <2>2 DEF TruncateLock, Pinned, PinnedIn
  <2>3. ASSUME NEW p \in Procs, WriteLock(p) PROVE Pinned(lock)'
    <3>1. cmd[p].phase = "writelock" /\ cmd[p] \in CommandRecords
      BY <2>3 DEF WriteLock, PackagesTypeOK
    <3>2. cmd[p].snap \in Entries /\ cmd[p].ver \in Versions
      BY <3>1, CommandFacts
    <3>3. Pinned(cmd[p].snap) /\ Dir(p) \in completed
      BY <3>1 DEF AllPinned, Locking
    <3>4. cmd[p].job.root \in Roots
      BY <3>1, DirFacts
    <3>5. lock' = [cmd[p].snap EXCEPT ![cmd[p].job.name] = cmd[p].ver]
      BY <2>3 DEF WriteLock, WithEntry
    <3>6. ASSUME NEW n \in Names, lock'[n] >= 0
          PROVE  \E r \in Roots : <<r, n, lock'[n]>> \in completed
      <4>1. CASE n = cmd[p].job.name
        <5>1. lock'[n] = cmd[p].ver
          BY <3>2, <3>5, <4>1 DEF Entries
        <5> QED
          BY <3>3, <3>4, <4>1, <5>1 DEF Dir
      <4>2. CASE n # cmd[p].job.name
        <5>1. lock'[n] = cmd[p].snap[n]
          BY <3>2, <3>5, <4>2 DEF Entries
        <5> QED
          BY <3>3, <3>6, <5>1 DEF Pinned, PinnedIn
      <4> QED
        BY <4>1, <4>2
    <3> QED
      BY <1>1, <3>6 DEF Pinned, PinnedIn
  <2> QED
    BY <2>1, <2>2, <2>3, LockSteps
<1>4. ASSUME NEW q \in Procs, Locking(q)' \/ cmd'[q].phase \in {"link", "readlock"}
      PROVE  Dir(q)' \in completed' /\ (Locking(q)' => PinnedIn(cmd'[q].snap, completed'))
  <2>1. CASE cmd'[q] = cmd[q]
    <3>1. Dir(q)' = Dir(q) /\ (Locking(q)' <=> Locking(q))
      BY <2>1 DEF Dir, Locking
    <3>2. Dir(q) \in completed /\ (Locking(q) => PinnedIn(cmd[q].snap, completed))
      BY <1>4, <2>1, <3>1 DEF AllPinned, Pinned
    <3> QED
      BY <1>1, <1>2, <2>1, <3>1, <3>2
  <2>2. CASE WriteMeta(q)
    <3>1. cmd'[q].phase = "link" /\ Dir(q)' = Dir(q) /\ Dir(q) \in completed'
      BY <2>2, LockPhases DEF WriteMeta
    <3> QED
      BY <3>1 DEF Locking
  <2>3. CASE Link(q)
    <3>1. cmd'[q].phase = "readlock" /\ Dir(q)' = Dir(q) /\ Dir(q) \in completed
      BY <2>3, LockPhases DEF Link, AllPinned
    <3> QED
      BY <1>1, <3>1 DEF Locking
  <2>4. CASE ReadLock(q)
    <3>1. cmd'[q].snap = lock /\ Dir(q)' = Dir(q) /\ Dir(q) \in completed
      BY <2>4, LockPhases DEF ReadLock, AllPinned
    <3> QED
      BY <1>1, <1>2, <3>1 DEF AllPinned, Pinned
  <2>5. CASE TruncateLock(q)
    <3>1. cmd'[q].snap = cmd[q].snap /\ Dir(q)' = Dir(q) /\ Locking(q)
      BY <2>5, LockPhases DEF TruncateLock, Locking
    <3>2. Dir(q) \in completed /\ PinnedIn(cmd[q].snap, completed)
      BY <3>1 DEF AllPinned, Pinned
    <3> QED
      BY <1>1, <1>2, <3>1, <3>2
  <2>6. CASE cmd'[q].phase \in Quiet
    BY <1>4, <2>6 DEF Quiet, Locking
  <2> QED
    BY <2>1, <2>2, <2>3, <2>4, <2>5, <2>6, NextPhase
<1> QED
  BY <1>3, <1>4 DEF AllPinned, Pinned

LEMMA OneAtATimeKept ==
    ASSUME PackagesTypeOK, OneAtATime, PackagesNext
    PROVE  OneAtATime'
<1> SUFFICES ASSUME alone'
             PROVE  /\ \A p, q \in Procs : ~Idle(p)' /\ ~Idle(q)' => p = q
                    /\ (\A p \in Procs : cmd'[p].phase # "writelock") => lock' = last'
                    /\ \A p \in Procs : Locking(p)' => cmd'[p].snap = last'
  BY DEF OneAtATime
<1>1. cmd \in [Procs -> CommandRecords] /\ lock \in Entries /\ last \in Entries
  BY DEF PackagesTypeOK, Entries
<1>2. CASE \E n \in Names : Publish(n)
  <2>1. cmd' = cmd /\ lock' = lock /\ last' = last /\ alone
    BY <1>2 DEF Publish, disk
  <2> QED
    BY <2>1 DEF OneAtATime, Idle, Locking
(* One command acts, the only one that is not idle after it. *)
<1>3. ASSUME NEW p \in Procs, alone, \A q \in Procs \ {p} : Idle(q) /\ cmd'[q] = cmd[q],
             cmd[p].phase = "writelock" => WriteLock(p)
      PROVE  /\ \A r, q \in Procs : ~Idle(r)' /\ ~Idle(q)' => r = q
             /\ (\A q \in Procs : cmd'[q].phase # "writelock") => lock' = last'
             /\ \A q \in Procs : Locking(q)' => cmd'[q].snap = last'
  <2>1. \A q \in Procs \ {p} : Idle(q)' /\ ~Locking(q)'
    BY <1>3 DEF Idle, Locking
  <2>2. cmd[p].phase # "writelock" => lock = last
    <3>1. cmd[p].phase # "writelock" => \A q \in Procs : cmd[q].phase # "writelock"
      BY <1>3 DEF Idle
    <3> QED
      BY <1>3, <3>1 DEF OneAtATime
  <2>3. (\A q \in Procs : cmd'[q].phase # "writelock") => lock' = last'
    <3>1. CASE WriteLock(p)
      <4>1. /\ lock' = [cmd[p].snap EXCEPT ![cmd[p].job.name] = cmd[p].ver]
            /\ last' = [last EXCEPT ![cmd[p].job.name] = cmd[p].ver]
            /\ cmd[p].phase = "writelock"
        BY <3>1 DEF WriteLock, WithEntry
      <4>2. cmd[p].snap = last
        BY <1>3, <4>1 DEF OneAtATime, Locking
      <4> QED
        BY <4>1, <4>2
    <3>2. CASE TruncateLock(p)
      BY <3>2, LockPhases
    <3>3. ASSUME ~WriteLock(p), ~TruncateLock(p), NEW q \in Procs, WriteLock(q) \/ TruncateLock(q)
          PROVE  FALSE
      <4>1. q # p /\ ~Idle(q)
        BY <3>3 DEF WriteLock, TruncateLock, Idle
      <4> QED
        BY <1>3, <4>1
    <3>4. CASE ~WriteLock(p) /\ ~TruncateLock(p)
      <4>1. lock' = lock /\ last' = last
        BY <3>3, <3>4, LockSteps
      <4> QED
        BY <1>3, <2>2, <3>4, <4>1
    <3> QED
      BY <3>1, <3>2, <3>4
  <2>4. ASSUME Locking(p)' PROVE cmd'[p].snap = last'
    <3>1. cmd'[p].phase \in {"truncatelock", "writelock"}
      BY <2>4 DEF Locking
    <3>2. ASSUME NEW q \in Procs, WriteLock(q) PROVE q = p
      BY <1>3, <3>2 DEF WriteLock, Idle
    <3>3. ASSUME WriteLock(p) PROVE FALSE
      <4>1. cmd'[p].phase \in {"readtoml", "pick"}
        BY <1>1, <3>3 DEF WriteLock
      <4> QED
        BY <3>1, <4>1
    <3>4. last' = last
      <4>1. ASSUME NEW q \in Procs, TruncateLock(q) PROVE last' = last
        BY <4>1 DEF TruncateLock
      <4> QED
        BY <3>2, <3>3, <4>1, LockSteps
    <3>5. CASE cmd'[p] = cmd[p]
      BY <1>3, <3>1, <3>4, <3>5 DEF OneAtATime, Locking
    <3>6. CASE ReadLock(p)
      <4>1. cmd'[p].snap = lock /\ cmd[p].phase # "writelock"
        BY <3>6, LockPhases DEF ReadLock
      <4> QED
        BY <2>2, <3>4, <4>1
    <3>7. CASE TruncateLock(p)
      <4>1. cmd'[p].snap = cmd[p].snap /\ Locking(p)
        BY <3>7, LockPhases DEF TruncateLock, Locking
      <4> QED
        BY <1>3, <3>4, <4>1 DEF OneAtATime
    <3>8. CASE WriteMeta(p) \/ Link(p) \/ cmd'[p].phase \in Quiet
      <4>1. cmd'[p].phase \in {"link", "readlock"} \cup Quiet
        BY <3>8, LockPhases
      <4> QED
        BY <3>1, <4>1 DEF Quiet
    <3> QED
      BY <3>5, <3>6, <3>7, <3>8, NextPhase
  <2> QED
    BY <2>1, <2>3, <2>4
<1>4. ASSUME NEW p \in Procs,
           \/ InstallSpec(p) \/ InstallAll(p) \/ Update(p) \/ UpdateOne(p) \/ RemoveLibrary(p)
      PROVE  /\ alone /\ cmd[p].phase # "writelock"
             /\ \A q \in Procs \ {p} : Idle(q) /\ cmd'[q] = cmd[q]
  <2>1. PICK c : Begin(p, c)
    BY <1>4 DEF InstallSpec, InstallAll, Update, UpdateOne, RemoveLibrary
  <2>2. alone /\ (\A q \in Procs : Idle(q)) /\ cmd' = [cmd EXCEPT ![p] = c]
    BY <2>1, Zenon DEF Begin
  <2> QED
    BY <1>1, <2>2 DEF Idle
<1>5. ASSUME NEW p \in Procs,
           \/ Pick(p) \/ PickLocal(p) \/ Done(p) \/ MakeDir(p) \/ OpenFile(p) \/ FetchFile(p)
           \/ WayFails(p) \/ WriteMeta(p) \/ Link(p)
           \/ ReadLock(p) \/ TruncateLock(p) \/ WriteLock(p)
           \/ ReadToml(p) \/ TruncateToml(p) \/ WriteToml(p)
           \/ RemoveDir(p) \/ Unlink(p) \/ Rmdir(p) \/ RemoveFails(p) \/ Removed(p)
      PROVE  /\ alone /\ (cmd[p].phase = "writelock" => WriteLock(p))
             /\ \A q \in Procs \ {p} : Idle(q) /\ cmd'[q] = cmd[q]
  <2>1. alone /\ ~Idle(p)
    BY <1>5 DEF Pick, PickLocal, Done, MakeDir, OpenFile, FetchFile, WayFails, WriteMeta, Link,
         ReadLock, TruncateLock, WriteLock, ReadToml, TruncateToml, WriteToml, RemoveDir, Unlink,
         Rmdir, RemoveFails, Removed, Idle
  <2>2. cmd[p].phase = "writelock" => WriteLock(p)
    BY <1>5 DEF Pick, PickLocal, Done, MakeDir, OpenFile, FetchFile, WayFails, WriteMeta, Link,
         ReadLock, TruncateLock, ReadToml, TruncateToml, WriteToml, RemoveDir, Unlink, Rmdir,
         RemoveFails, Removed
  <2>3. \A q \in Procs \ {p} : Idle(q)
    BY <2>1, Zenon DEF OneAtATime
  <2>4. \A q \in Procs \ {p} : cmd'[q] = cmd[q]
    BY <1>5, OthersKept DEF Acts
  <2> QED
    BY <2>1, <2>2, <2>3, <2>4
<1>6. ASSUME NEW p \in Procs, Kill(p) PROVE FALSE
  BY <1>6 DEF Kill
<1>7. CASE \E p \in Procs : Acts(p)
  <2>1. \E p \in Procs : /\ alone /\ (cmd[p].phase = "writelock" => WriteLock(p))
                         /\ \A q \in Procs \ {p} : Idle(q) /\ cmd'[q] = cmd[q]
    BY <1>4, <1>5, <1>6, <1>7, Zenon DEF Acts
  <2> QED
    BY <1>3, <2>1
<1> QED
  BY <1>2, <1>7, SomeActs

-----------------------------------------------------------------------------
(* The theorems                                                              *)

LEMMA InvariantInitially ==
    PackagesInit => Filled /\ AllPinned /\ OneAtATime
<1> SUFFICES ASSUME PackagesInit PROVE Filled /\ AllPinned /\ OneAtATime
  OBVIOUS
<1> USE DEF PackagesInit, NoCommand
<1>1. Filled
  BY DEF Filled, Fetching, HasMeta, NoDir
<1>2. AllPinned
  BY DEF AllPinned, Pinned, PinnedIn, Locking
<1>3. OneAtATime
  BY DEF OneAtATime, Idle, Locking
<1> QED
  BY <1>1, <1>2, <1>3

LEMMA InvariantKept ==
    PackagesTypeOK /\ Filled /\ AllPinned /\ OneAtATime /\ [PackagesNext]_vars
        => (Filled /\ AllPinned /\ OneAtATime)'
<1> SUFFICES ASSUME PackagesTypeOK, Filled, AllPinned, OneAtATime, [PackagesNext]_vars
             PROVE  (Filled /\ AllPinned /\ OneAtATime)'
  OBVIOUS
<1>1. CASE UNCHANGED vars
  <2>0. /\ cmd' = cmd /\ store' = store /\ broken' = broken
        /\ \A p : Dir(p)' = Dir(p) /\ (Fetching(p)' <=> Fetching(p))
        /\ \A d : (HasMeta(d)' <=> HasMeta(d)) /\ Present(d)' = Present(d)
    BY <1>1 DEF vars, disk, Dir, Fetching, HasMeta, Present
  <2>a. \A d, f : Right(d, f) => Right(d, f)'
    BY <2>0 DEF Right, Writes, InPlace
  <2>b. \A p \in Procs : \A f : Right(Dir(p), f) => Right(Dir(p), f)'
    BY <2>0 DEF Right, Writes, InPlace
  <2>1. Filled'
    BY <2>0, <2>a, <2>b DEF Filled
  <2>2. AllPinned'
    BY <1>1 DEF AllPinned, Pinned, PinnedIn, Locking, Dir, vars, disk
  <2>3. OneAtATime'
    BY <1>1 DEF OneAtATime, Locking, Idle, vars, disk
  <2> QED
    BY <2>1, <2>2, <2>3
<1>2. CASE PackagesNext
  BY <1>2, FilledKept, AllPinnedKept, OneAtATimeKept
<1> QED
  BY <1>1, <1>2

(* The stores, the lock file, the manifest and what each command has still  *)
(* to do are of their types in every reachable state.                        *)
THEOREM PackagesTypes == PackagesSpec => []PackagesTypeOK
  BY TypesInitially, TypesKept, PTL DEF PackagesSpec

(* Whichever ways of fetching fail, and whichever commands meet or are        *)
(* killed: a directory with metadata holds every installable file of its      *)
(* version as the tag has it, but for those that are being written and those *)
(* broken (by a remove, a write cut half-way or a truncated listing) and not *)
(* written since; and lunex.lock names only what some install completed.      *)
THEOREM OnlyWholeInstalls == PackagesSpec => []InstalledWhole
<1>1. Filled /\ AllPinned => InstalledWhole
  BY DEF Filled, Right, AllPinned, Pinned, PinnedIn, InstalledWhole
<1> QED
  BY <1>1, TypesInitially, TypesKept, InvariantInitially, InvariantKept, PTL DEF PackagesSpec

(* When no two commands met and none was killed, lunex.lock has between       *)
(* commands the last installed version of every library.                      *)
THEOREM LockFileKept == PackagesSpec => []LockKept
<1>1. OneAtATime => LockKept
  BY DEF OneAtATime, LockKept, Idle
<1> QED
  BY <1>1, TypesInitially, TypesKept, InvariantInitially, InvariantKept, PTL DEF PackagesSpec
=============================================================================
