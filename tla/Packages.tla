------------------------------- MODULE Packages -------------------------------
(* The package manager: internal/pkg (pkg.go, github.go), the manifest and    *)
(* the lock file (internal/manifest/manifest.go) and the commands that use    *)
(* them (internal/app/app.go): install, add, update, remove.                  *)
(*                                                                            *)
(* Each command is a process of its own; several may run at once in one       *)
(* project and any of them may be killed.  They share the two stores of       *)
(* installed modules, the bin directories, lunex.lock and lunex.toml, and     *)
(* nothing is locked.  Version i of a library is its i-th tag, <<i, 0, 0>>;   *)
(* version 0 is its default branch ("main"), which reads as 0.0.0.            *)
EXTENDS Semver, Functions, Ordered

CONSTANTS
    Procs,       \* processes that run commands
    Files,       \* the files of a library, in the order of a listing, some of
                 \* "cli.lx", "data.bin", "index.lx", "lunex.toml"
    Names,       \* libraries, each with one command of its name
    Roots,       \* stores a command may install into, of "local" and "global"
    Texts,       \* version texts a user may write
    Sources,     \* of "github", "release" and "local"
    Manifests,   \* what users may have written to lunex.toml before
    MaxTag,      \* bound: tags of a library
    MaxCommands  \* bound: commands of a run

Versions == 0 .. MaxTag
Dirs == Roots \X Names \X Versions

\* A file that is not installable is fetched by the first way of fetching only.
FileNames == Range(Files)
Installable == FileNames \ {"data.bin"}
BinFile == "cli.lx"

\* Where a library with source "local" is.
PathOf(n) == <<"path", n>>

\* The content of a file: none, what an opened file holds until it is written,
\* or that of a version.
Absent == -1
Opened == -2
Contents == Versions \cup {Absent, Opened}

NoDir == [made |-> FALSE, files |-> [f \in FileNames |-> Absent], entry |-> ""]
NoCommand == [phase |-> "idle"]
NoLib == [source |-> "", text |-> [form |-> ""]]
Libs == [source : Sources, text : Texts]
Jobs == [name : Names, lib : Libs, root : Roots]

\* A process that runs a command: what it has left to do, and what it works on.
CommandRecords ==
    LET Left == SUBSET Jobs IN
    {NoCommand}
    \cup [phase : {"remove"}, name : Names]
    \cup [phase : {"unlink"}, name : Names, dir : Dirs]
    \cup [phase : {"pick"}, left : Left, add : BOOLEAN]
    \cup [phase : {"mkdir"}, left : Left, add : BOOLEAN, job : Jobs, ver : Versions,
          way : {1, 4}]
    \cup [phase : {"fetch", "link", "readlock"}, left : Left, add : BOOLEAN, job : Jobs,
          ver : Versions, way : 1..4, todo : Seq(FileNames)]
    \cup [phase : {"write"}, left : Left, add : BOOLEAN, job : Jobs,
          ver : Versions, way : 1..4, todo : Seq(FileNames) \ {<<>>}]
    \cup [phase : {"truncatelock", "writelock"}, left : Left, add : BOOLEAN, job : Jobs,
          ver : Versions, snap : [Names -> Versions \cup {-1}]]
    \cup [phase : {"readtoml"}, left : Left, add : BOOLEAN, job : Jobs]
    \cup [phase : {"truncatetoml", "writetoml"}, left : Left, add : BOOLEAN, job : Jobs,
          snap : [Names -> Libs \cup {NoLib}]]

ASSUME PackagesAssumption ==
    /\ "local" \in Roots
    /\ Files \in Seq(FileNames)
    /\ MaxTag \in Nat \ {0}
    /\ Manifests \subseteq [Names -> Libs \cup {NoLib}]

VARIABLES
    tags,        \* per library: how many versions its repository has
    store,       \* per directory <name>@<version>: files with their content, metadata
    bins,        \* per store and command: the directory its shim runs, or none
    lock,        \* lunex.lock: per library the version, -1 when it has none
    toml,        \* lunex.toml: per library its entry, or none
    cmd,         \* what each process does
    commands,    \* how many commands were started
    completed,   \* ghost: directories some install filled to the end
    broken,      \* ghost: files that a remove deleted, whose write was cut or that
                 \* a truncated listing left out, and no command wrote since
    last,        \* ghost: per library the version of the last install that ended
    alone        \* ghost: no two commands met and none was killed so far

disk == <<store, bins, lock, toml>>
vars == <<tags, disk, cmd, commands, completed, broken, last, alone>>

Present(d) == {f \in FileNames : store[d].files[f] # Absent}

\* The metadata of a directory: what writeModuleMeta has written there.
HasMeta(d) == store[d].entry # ""

PackagesTypeOK ==
    /\ tags \in [Names -> Versions]
    /\ store \in [Dirs -> [made : BOOLEAN, files : [FileNames -> Contents],
                           entry : {"", "index.lx", "cli.lx"}]]
    /\ bins \in [Roots \X Names -> Dirs \cup {<<>>} \cup {PathOf(n) : n \in Names}]
    /\ lock \in [Names -> Versions \cup {-1}]
    /\ toml \in [Names -> Libs \cup {NoLib}]
    /\ \A d \in Dirs : ~store[d].made => store[d] = NoDir
    /\ cmd \in [Procs -> CommandRecords]
    /\ commands \in Nat /\ alone \in BOOLEAN
    /\ completed \subseteq Dirs /\ broken \subseteq Dirs \X FileNames
    /\ last \in [Names -> Versions \cup {-1}]

PackagesInit ==
    /\ tags \in [Names -> {0, 1}]
    /\ store = [d \in Dirs |-> NoDir]
    /\ bins = [b \in Roots \X Names |-> <<>>]
    /\ lock = [n \in Names |-> -1]
    /\ toml \in Manifests
    /\ cmd = [p \in Procs |-> NoCommand]
    /\ commands = 0
    /\ completed = {}
    /\ broken = {}
    /\ last = [n \in Names |-> -1]
    /\ alone = TRUE

-----------------------------------------------------------------------------
(* Which version of a library an install takes                               *)

\* The repository's tags, when the API answers; an empty set when it does not.
Listed(n) == {{}, {Version(i, 0, 0) : i \in 1 .. tags[n]}}

\* Whether resolveVersionForInstall looks at the tags at all.
LooksAtTags(t) ==
    \/ t.form \in {"latest", "x", "caret"}
    \/ t.form = "fields" /\ ~(Len(t.fields) = 1 /\ t.fields[1].op = "=")
    \/ t.form = "word" /\ t.marked

\* The versions the text may resolve to; none is an error.
Resolutions(n, t) ==
    IF ~LooksAtTags(t) THEN {0}
    ELSE UNION {LET best == Bests(ParseConstraint(t), vs) IN
                IF best # {} THEN {v.major : v \in best}
                ELSE IF ParseConstraint(t).latest THEN {0} ELSE {} : vs \in Listed(n)}

\* github-release: the tag named, or the latest.
Releases(n, t) ==
    IF t.form = "latest" THEN {tags[n]} \ {0}
    ELSE {i \in 1 .. tags[n] : t.form = "fields" /\ t.fields[1].ver = Version(i, 0, 0)}

\* What the reference of version v holds now: a tag stays as it is, the
\* branch is as new as the newest tag.
ContentOf(n, v) == IF v = 0 THEN tags[n] ELSE v

\* A release is published.
Publish(n) ==
    /\ tags[n] < MaxTag
    /\ tags' = [tags EXCEPT ![n] = @ + 1]
    /\ UNCHANGED <<disk, cmd, commands, completed, broken, last, alone>>

-----------------------------------------------------------------------------
(* Commands                                                                  *)

Idle(p) == cmd[p].phase = "idle"

Begin(p, c) ==
    /\ Idle(p) /\ commands < MaxCommands
    /\ commands' = commands + 1
    /\ cmd' = [cmd EXCEPT ![p] = c]
    /\ alone' = (alone /\ \A q \in Procs : Idle(q))
    /\ UNCHANGED <<tags, disk, completed, broken, last>>

\* A command that installs the jobs of left; add says whether lunex.toml is to
\* name them.
Installing(left, add) == [phase |-> "pick", left |-> left, add |-> add]

\* install -g, install -l and add: one library, from github.  Only an install
\* into the local store names it in lunex.toml.
InstallSpec(p) ==
    \E n \in Names, t \in Texts, r \in Roots :
        /\ "github" \in Sources
        /\ \E add \in {FALSE, r = "local"} :
            Begin(p, Installing({[name |-> n, root |-> r,
                                  lib |-> [source |-> "github", text |-> t]]}, add))

\* install: everything lunex.toml names, into the local store.
InstallAll(p) ==
    /\ \E n \in Names : toml[n] # NoLib
    /\ Begin(p, Installing({[name |-> n, root |-> "local", lib |-> toml[n]] :
                            n \in {m \in Names : toml[m] # NoLib}}, FALSE))

JobOf(d) == [name |-> d[2], root |-> d[1], lib |-> toml[d[2]]]
InManifest == {d \in Dirs : store[d].made /\ toml[d[2]] # NoLib}

\* update: the libraries of both stores that lunex.toml names; or one of them,
\* where it is found first.
Update(p) ==
    /\ \E d \in Dirs : store[d].made
    /\ Begin(p, Installing({JobOf(d) : d \in InManifest}, FALSE))

UpdateOne(p) ==
    \E d \in InManifest :
        /\ d[1] = "local" => \A e \in InManifest : ~(e[1] = "global" /\ e[2] = d[2])
        /\ Begin(p, Installing({JobOf(d)}, FALSE))

RemoveLibrary(p) ==
    \E n \in Names :
        /\ \E d \in Dirs : store[d].made /\ d[2] = n
        /\ Begin(p, [phase |-> "remove", name |-> n])

To(p, phase) == cmd' = [cmd EXCEPT ![p].phase = phase]
End(p) == cmd' = [cmd EXCEPT ![p] = NoCommand]
Dir(p) == <<cmd[p].job.root, cmd[p].job.name, cmd[p].ver>>

\* Command q has opened file f of directory d to write it, and the file that
\* is spoilt when it gets no further.
Writes(q, d, f) == cmd[q].phase = "write" /\ Dir(q) = d /\ Head(cmd[q].todo) = f
Spoilt(q) == IF cmd[q].phase = "write" THEN {<<Dir(q), Head(cmd[q].todo)>>} ELSE {}

\* Which versions the source of a library offers for its text, and the first
\* way of fetching it.
Offers(n, lib) ==
    IF lib.source = "github" THEN Resolutions(n, lib.text) ELSE Releases(n, lib.text)
FirstWay(lib) == IF lib.source = "github" THEN 1 ELSE 4

\* The next library of the command, and its version: an error ends the command.
Pick(p) ==
    /\ cmd[p].phase = "pick"
    /\ \E j \in cmd[p].left :
        /\ j.lib.source \in {"github", "release"}
        /\ \/ \E v \in Offers(j.name, j.lib) :
                cmd' = [cmd EXCEPT ![p] =
                    [phase |-> "mkdir", left |-> cmd[p].left \ {j}, add |-> cmd[p].add,
                     job |-> j, ver |-> v, way |-> FirstWay(j.lib)]]
           \/ End(p)
    /\ UNCHANGED <<tags, disk, commands, completed, broken, last, alone>>

\* A library on this disk is not copied: its commands are linked.
PickLocal(p) ==
    /\ cmd[p].phase = "pick"
    /\ \E j \in cmd[p].left :
        /\ j.lib.source = "local"
        /\ bins' = [bins EXCEPT ![<<j.root, j.name>>] = PathOf(j.name)]
        /\ cmd' = [cmd EXCEPT ![p].left = @ \ {j}]
    /\ UNCHANGED <<tags, store, lock, toml, commands, completed, broken, last, alone>>

Done(p) ==
    /\ cmd[p].phase = "pick" /\ cmd[p].left = {}
    /\ End(p)
    /\ UNCHANGED <<tags, disk, commands, completed, broken, last, alone>>

-----------------------------------------------------------------------------
(* Fetching: three ways for the source of a repository, one after the other  *)
(* fails (the contents API, the tree API, a zip of codeload), and one for a  *)
(* release.  A way that fails leaves what it wrote.                          *)

\* What each way lists.  The listing of the tree may be truncated, to its first
\* files: a note is printed and they are installed.
Listings(way) ==
    LET K == {k \in 1..Len(Files) : Files[k] \in Installable}
    IN  CASE way \in {1, 4} -> {Files}
          [] way = 3 -> {Picked(Files, K)}
          [] way = 2 -> {Picked(Files, {k \in K : k <= m}) : m \in K}

LeftOut(d, todo) == {d} \X (Installable \ Range(todo))

FetchFrom(p, way) ==
    \E todo \in Listings(way) :
        /\ cmd' = [cmd EXCEPT ![p] = [phase |-> "fetch", left |-> cmd[p].left, add |-> cmd[p].add,
                                      job |-> cmd[p].job, ver |-> cmd[p].ver, way |-> way,
                                      todo |-> todo]]
        /\ broken' = broken \cup Spoilt(p) \cup LeftOut(Dir(p), todo)

MakeDir(p) ==
    /\ cmd[p].phase = "mkdir"
    /\ store' = [store EXCEPT ![Dir(p)].made = TRUE]
    /\ FetchFrom(p, cmd[p].way)
    /\ UNCHANGED <<tags, bins, lock, toml, commands, completed, last, alone>>

\* One file, when it has come: os.WriteFile empties it and then writes.  Its
\* directory is made again if it is gone.
OpenFile(p) ==
    /\ cmd[p].phase = "fetch" /\ cmd[p].todo # <<>>
    /\ store' = [store EXCEPT ![Dir(p)].made = TRUE, ![Dir(p)].files[Head(cmd[p].todo)] = Opened]
    /\ To(p, "write")
    /\ UNCHANGED <<tags, bins, lock, toml, commands, completed, broken, last, alone>>

\* A file that was removed since it was opened does not come back; if another
\* install has made it again, it has the same content.
FetchFile(p) ==
    LET f == Head(cmd[p].todo)
        there == f \in Present(Dir(p))
    IN
    /\ cmd[p].phase = "write"
    /\ store' = IF there
                THEN [store EXCEPT ![Dir(p)].files[f] = ContentOf(cmd[p].job.name, cmd[p].ver)]
                ELSE store
    /\ broken' = IF there THEN broken \ {<<Dir(p), f>>} ELSE broken
    /\ cmd' = [cmd EXCEPT ![p].phase = "fetch", ![p].todo = Tail(@)]
    /\ UNCHANGED <<tags, bins, lock, toml, commands, completed, last, alone>>

\* mutant: the error of the last way is lost.
WayFailsUnseen(p) ==
    /\ cmd[p].phase \in {"fetch", "write"} /\ cmd[p].todo # <<>>
    /\ \/ cmd[p].way \in {1, 2} /\ FetchFrom(p, cmd[p].way + 1)
       \/ cmd[p].way \notin {1, 2} /\ To(p, "readlock") /\ broken' = broken \cup Spoilt(p)
    /\ UNCHANGED <<tags, disk, commands, completed, last, alone>>

\* A request fails, after its retries, or a write does.
WayFails(p) ==
    /\ cmd[p].phase \in {"fetch", "write"} /\ cmd[p].todo # <<>>
    /\ \/ cmd[p].way \in {1, 2} /\ FetchFrom(p, cmd[p].way + 1)
       \/ cmd[p].way \notin {1, 2} /\ End(p) /\ broken' = broken \cup Spoilt(p)
    /\ UNCHANGED <<tags, disk, commands, completed, last, alone>>

\* mutant: what a way that failed has left counts as an install.
FetchedIfAny(p) == Present(Dir(p)) # {}

Fetched(p) == cmd[p].todo = <<>>

FindEntry(d) ==
    CASE "index.lx" \in Present(d) -> "index.lx"
      [] "index.lx" \notin Present(d) /\ "cli.lx" \in Present(d) -> "cli.lx"
      [] OTHER -> "index.lx"

\* writeModuleMeta; its error is ignored, and without the directory it fails.
WriteMeta(p) ==
    /\ cmd[p].phase = "fetch" /\ Fetched(p)
    /\ store' = IF store[Dir(p)].made
                THEN [store EXCEPT ![Dir(p)].entry = FindEntry(Dir(p))] ELSE store
    /\ completed' = completed \cup {Dir(p)}
    /\ To(p, "link")
    /\ UNCHANGED <<tags, bins, lock, toml, commands, broken, last, alone>>

\* linkBinaries: the commands that the library's lunex.toml declares.
Link(p) ==
    /\ cmd[p].phase = "link"
    /\ bins' = IF \E f \in Present(Dir(p)) : f = "lunex.toml" /\ store[Dir(p)].files[f] # Opened
               THEN [bins EXCEPT ![<<cmd[p].job.root, cmd[p].job.name>>] = Dir(p)]
               ELSE bins
    /\ To(p, "readlock")
    /\ UNCHANGED <<tags, store, lock, toml, commands, completed, broken, last, alone>>

-----------------------------------------------------------------------------
(* lunex.lock and lunex.toml are read, changed in memory and written whole;   *)
(* a write empties the file first.  An empty file reads as one with no entry. *)

ReadLock(p) ==
    /\ cmd[p].phase = "readlock"
    /\ cmd' = [cmd EXCEPT ![p] = [phase |-> "truncatelock", left |-> cmd[p].left,
                                  add |-> cmd[p].add, job |-> cmd[p].job,
                                  ver |-> cmd[p].ver, snap |-> lock]]
    /\ UNCHANGED <<tags, disk, commands, completed, broken, last, alone>>

TruncateLock(p) ==
    /\ cmd[p].phase = "truncatelock"
    /\ lock' = [n \in Names |-> -1]
    /\ To(p, "writelock")
    /\ UNCHANGED <<tags, store, bins, toml, commands, completed, broken, last, alone>>

\* mutant: the lock file holds what this command installed.
WithOnly(entries, n, v) == [m \in Names |-> IF m = n THEN v ELSE -1]

\* Lock.Set
WithEntry(entries, n, v) == [entries EXCEPT ![n] = v]

WriteLock(p) ==
    LET n == cmd[p].job.name
        rest == [phase |-> "pick", left |-> cmd[p].left, add |-> cmd[p].add]
    IN
    /\ cmd[p].phase = "writelock"
    /\ lock' = WithEntry(cmd[p].snap, n, cmd[p].ver)
    /\ last' = [last EXCEPT ![n] = cmd[p].ver]
    /\ cmd' = [cmd EXCEPT ![p] = IF cmd[p].add
                                 THEN [phase |-> "readtoml", left |-> cmd[p].left,
                                       add |-> TRUE, job |-> cmd[p].job]
                                 ELSE rest]
    /\ UNCHANGED <<tags, store, bins, toml, commands, completed, broken, alone>>

ReadToml(p) ==
    /\ cmd[p].phase = "readtoml"
    /\ cmd' = [cmd EXCEPT ![p] = [phase |-> "truncatetoml", left |-> cmd[p].left,
                                  add |-> TRUE, job |-> cmd[p].job, snap |-> toml]]
    /\ UNCHANGED <<tags, disk, commands, completed, broken, last, alone>>

TruncateToml(p) ==
    /\ cmd[p].phase = "truncatetoml"
    /\ toml' = [n \in Names |-> NoLib]
    /\ To(p, "writetoml")
    /\ UNCHANGED <<tags, store, bins, lock, commands, completed, broken, last, alone>>

WriteToml(p) ==
    /\ cmd[p].phase = "writetoml"
    /\ toml' = [cmd[p].snap EXCEPT ![cmd[p].job.name] = cmd[p].job.lib]
    /\ cmd' = [cmd EXCEPT ![p] = [phase |-> "pick", left |-> cmd[p].left, add |-> TRUE]]
    /\ UNCHANGED <<tags, store, bins, lock, commands, completed, broken, last, alone>>

-----------------------------------------------------------------------------
(* remove, and the end of a process                                          *)

OfLibrary(n) == {d \in Dirs : store[d].made /\ d[2] = n}

\* Fills(q, d): command q is between making directory d and its metadata.
Fills(q, d) == cmd[q].phase \in {"fetch", "write"} /\ Dir(q) = d

\* One directory, the local store first.  The shims that go are those that
\* run the entry of the metadata, in either bin directory.
RemoveDir(p) ==
    /\ cmd[p].phase = "remove"
    /\ \E d \in OfLibrary(cmd[p].name) :
        /\ d[1] = "global" => \A e \in OfLibrary(cmd[p].name) : e[1] = "global"
        /\ bins' = [b \in DOMAIN bins |->
                      IF bins[b] = d /\ HasMeta(d) /\ store[d].entry = BinFile THEN <<>> ELSE bins[b]]
        /\ cmd' = [cmd EXCEPT ![p] = [phase |-> "unlink", name |-> cmd[p].name, dir |-> d]]
    /\ UNCHANGED <<tags, store, lock, toml, commands, completed, broken, last, alone>>

\* os.RemoveAll deletes what it finds in the directory, the metadata too, in
\* any order,
Unlink(p) ==
    LET d == cmd[p].dir IN
    /\ cmd[p].phase = "unlink"
    /\ \/ \E f \in Present(d) :
            /\ store' = [store EXCEPT ![d].files[f] = Absent]
            /\ broken' = broken \cup {<<d, f>>}
       \/ HasMeta(d) /\ store' = [store EXCEPT ![d].entry = ""] /\ UNCHANGED broken
    /\ UNCHANGED <<tags, bins, lock, toml, cmd, commands, completed, last, alone>>

\* and the directory at last.
Rmdir(p) ==
    LET d == cmd[p].dir IN
    /\ cmd[p].phase = "unlink" /\ Present(d) = {} /\ ~HasMeta(d)
    /\ store' = [store EXCEPT ![d] = NoDir]
    /\ broken' = IF \E q \in Procs : Fills(q, d) THEN broken ELSE broken \ ({d} \X FileNames)
    /\ cmd' = [cmd EXCEPT ![p] = [phase |-> "remove", name |-> cmd[p].name]]
    /\ UNCHANGED <<tags, bins, lock, toml, commands, completed, last, alone>>

\* It fails, as when a file came after it had read the directory; or what is
\* left came after the store was listed.
RemoveFails(p) ==
    /\ cmd[p].phase \in {"remove", "unlink"}
    /\ End(p)
    /\ UNCHANGED <<tags, disk, commands, completed, broken, last, alone>>

Removed(p) ==
    /\ cmd[p].phase = "remove" /\ OfLibrary(cmd[p].name) = {}
    /\ End(p)
    /\ UNCHANGED <<tags, disk, commands, completed, broken, last, alone>>

Kill(p) ==
    /\ ~Idle(p)
    /\ End(p)
    /\ broken' = broken \cup Spoilt(p)
    /\ alone' = FALSE
    /\ UNCHANGED <<tags, disk, commands, completed, last>>

PackagesNext ==
    \/ \E n \in Names : Publish(n)
    \/ \E p \in Procs :
        \/ InstallSpec(p) \/ InstallAll(p) \/ Update(p) \/ UpdateOne(p) \/ RemoveLibrary(p)
        \/ Pick(p) \/ PickLocal(p) \/ Done(p) \/ MakeDir(p)
        \/ OpenFile(p) \/ FetchFile(p) \/ WayFails(p) \/ WriteMeta(p) \/ Link(p)
        \/ ReadLock(p) \/ TruncateLock(p) \/ WriteLock(p)
        \/ ReadToml(p) \/ TruncateToml(p) \/ WriteToml(p)
        \/ RemoveDir(p) \/ Unlink(p) \/ Rmdir(p) \/ RemoveFails(p) \/ Removed(p) \/ Kill(p)

PackagesSpec == PackagesInit /\ [][PackagesNext]_vars

-----------------------------------------------------------------------------
(* Which file an import of a library finds                                   *)

InStore(r, n) == {d \in Dirs : store[d].made /\ d[1] = r /\ d[2] = n}

\* The pinned version if the store has it, else its greatest.
ChosenDir(r, n) ==
    IF <<r, n, lock[n]>> \in InStore(r, n) THEN <<r, n, lock[n]>>
    ELSE CHOOSE d \in InStore(r, n) : \A e \in InStore(r, n) : d[3] >= e[3]

\* The entry of the metadata, an index, or the first source file.
EntryIn(d) ==
    LET named == {f \in {store[d].entry} : f \in Present(d)} IN
    IF named # {} THEN named
    ELSE IF "index.lx" \in Present(d) THEN {"index.lx"}
    ELSE {"cli.lx"} \cap Present(d)

ResolvesIn(r, n) == r \in Roots /\ InStore(r, n) # {} /\ EntryIn(ChosenDir(r, n)) # {}

\* The directory of the file, or none.
Resolved(n) ==
    CASE ResolvesIn("local", n) -> {ChosenDir("local", n)}
      [] ~ResolvesIn("local", n) /\ ResolvesIn("global", n) -> {ChosenDir("global", n)}
      [] OTHER -> {}

-----------------------------------------------------------------------------
(* Properties                                                                *)

\* File f of directory d is there, as the tag of d has it.
AsTagged(content, v) == content \in Versions /\ (v > 0 => content = v)
InPlace(d, f) == AsTagged(store[d].files[f], d[3])

\* A directory with metadata holds the whole library, each file as the tag has
\* it (installGitHubSource, pkg.go:457-505), however fetches failed, commands
\* met or were killed.  But for the files a command is writing just now, and
\* those that were broken and not written since: a remove deleted them and
\* did not end or an install of the same version was under way, the write of
\* a reinstall was killed or failed half-way, or the listing was truncated
\* (github.go:441).  lunex.lock names only what some install completed ("the
\* exact version ... of every installed library", modulesys.md:78-80).
InstalledWhole ==
    /\ \A d \in Dirs : HasMeta(d) =>
         \A f \in Installable :
             InPlace(d, f) \/ <<d, f>> \in broken \/ \E q \in Procs : Writes(q, d, f)
    /\ \A n \in Names : lock[n] >= 0 => \E r \in Roots : <<r, n, lock[n]>> \in completed

\* As long as commands neither met nor were killed, lunex.lock has the last
\* installed version of every library between commands (lockModule,
\* pkg.go:651-672): no command drops the entry of another library.
LockKept == alone /\ (\A p \in Procs : Idle(p)) => lock = last

\* "Local store, matching the version pinned in lunex.lock if one is present"
\* (modulesys.md:215): an import finds the pinned version when a store has it.
\* It does not hold: the directory that a failed local install left is enough to
\* hide the pinned version of the global store.
PinnedResolved ==
    \A n \in Names :
        (\A p \in Procs : Idle(p)) /\ alone /\ lock[n] >= 0
            /\ (\E r \in Roots : HasMeta(<<r, n, lock[n]>>))
        => \A d \in Resolved(n) : d[3] = lock[n]
===============================================================================
