------------------------------- MODULE FileTree -------------------------------
(***************************************************************************)
(* The name space: os/kernel/src/naming/api.rs and lookup.rs, the          *)
(* directories of tmpfs.rs, and procfs.rs mounted on /proc.                *)
(*                                                                         *)
(* A path is the sequence of what stands between its slashes, so "/" is    *)
(* <<"">> and "/a/" is <<"a", "">>.  Objects of tmpfs are numbered in the  *)
(* order they are made; nothing is ever removed, so a walk along a path is *)
(* one step.  Threads open, create, list and change directory; processes   *)
(* come and go under /proc.                                                *)
(***************************************************************************)
EXTENDS Naturals, Sequences, FiniteSets, SequencesExt

CONSTANTS Thread, Pids,
          Paths,      \* absolute paths the threads use
          MaxNodes    \* objects of tmpfs

Root == 1
Hidden == 2           \* the directory of tmpfs under the mount

TreeAssumption == MaxNodes \in Nat /\ MaxNodes >= Hidden

VARIABLES
  kind,     \* of each object of tmpfs: a sequence of "dir", "file" and "pipe"
  files,    \* of each object, its entries <<name, object>>
  procs,    \* active_processes
  ended,    \* processes that have ended
  cwd,      \* CWD
  th        \* what each thread does and its last result

vars == <<kind, files, procs, ended, cwd, th>>

NONE == <<"none", 0>>
Tmp(n) == <<"tmp", n>>
ProcRoot == <<"proc", "root">>

IsDir(o) ==
  \/ o[1] = "tmp" /\ kind[o[2]] = "dir"
  \/ o[1] \in {"proc", "pid"}

\* The files of /proc: ps, ticks and meminfo are one name.
StaticFiles == <<"ps">>

\* Dir::lookup, ProcDir::lookup and ProcPidDir::lookup
LookupIn(o, name) ==
  CASE o[1] = "tmp" ->
         LET hits == SelectSeq(files[o[2]], LAMBDA e : e[1] = name)
         IN  IF hits = <<>> THEN NONE ELSE Tmp(Head(hits)[2])
    [] o[1] = "proc" /\ name \in ToSet(procs) -> <<"pid", name>>
    [] o[1] = "proc" /\ name \in ToSet(StaticFiles) -> <<"procfile", name>>
    [] o[1] = "pid" /\ name = "status" -> <<"procfile", o[2]>>
    [] OTHER -> NONE

Mounted(at) == at = <<"proc">>

\* lookup_named_object: at is cur_path, which an empty name leaves at "/".
Walk(w, name) ==
  LET at == IF w.at = <<>> /\ name = "" THEN <<>> ELSE Append(w.at, name)
      o == IF w.o # NONE /\ IsDir(w.o) THEN LookupIn(w.o, name) ELSE NONE
  IN  [at |-> at, o |-> IF o # NONE /\ Mounted(at) THEN ProcRoot ELSE o]
Lookup(p) ==
  IF p = <<"">> THEN Tmp(Root)
  ELSE LET w[i \in 0..Len(p)] == IF i = 0 THEN [at |-> <<>>, o |-> Tmp(Root)]
                                 ELSE Walk(w[i - 1], p[i])
       IN  w[Len(p)].o

Parent(p) == IF Len(p) = 1 THEN <<"">> ELSE Front(p)

-----------------------------------------------------------------------------
\* What a thread does: idle, in an open that creates, or reading a directory.
\* Errors are told apart where they lead to different steps.
Idle == [pc |-> "idle"]
Listing(o, owed) == [pc |-> "list", o |-> o, pos |-> 0, seen |-> <<>>, owed |-> owed]

Init ==
  /\ kind = <<"dir", "dir">>
  /\ files = << << <<"proc", Hidden>> >>, <<>> >>
  /\ procs \in {<<p>> : p \in Pids}
  /\ ended = {} /\ cwd = <<"">>
  /\ th = [t \in Thread |-> Idle]

\* Mutant of CanCreate: the name is not looked for.
CanCreateTwice(o, name) == o[1] = "tmp" /\ kind[o[2]] = "dir"
\* create_file, create_dir and create_pipe; /proc refuses them.
CanCreate(o, name) ==
  o[1] = "tmp" /\ kind[o[2]] = "dir" /\ LookupIn(o, name) = NONE

Insert(es, e) == Append(es, e)

NewNode == Len(kind) + 1

Create(p, k) ==
  LET o == Lookup(Parent(p))
      name == p[Len(p)]
  IN  /\ Len(kind) < MaxNodes
      /\ CanCreate(o, name)
      /\ kind' = Append(kind, k)
      /\ files' = Append([files EXCEPT ![o[2]] = Insert(@, <<name, NewNode>>)], <<>>)

Refused(p) == ~CanCreate(Lookup(Parent(p)), p[Len(p)])

\* mkdir, touch and mkfifo; an error changes nothing.
Make(t, p, k) ==
  /\ th[t].pc = "idle"
  /\ \/ Create(p, k)
     \/ Refused(p) /\ UNCHANGED <<kind, files>>
  /\ UNCHANGED <<procs, ended, cwd, th>>

-----------------------------------------------------------------------------
\* Of the flags, whether a directory is asked for and whether to write.
Flags == [dir : BOOLEAN, write : BOOLEAN]

\* The entries readdir has to give, with the index as their order.
Entries(o) ==
  CASE o[1] = "tmp" -> [i \in DOMAIN files[o[2]] |-> files[o[2]][i][1]]
    [] o[1] = "proc" -> StaticFiles \o procs
    [] OTHER -> <<"status">>

\* open_objects::open
OpenObject(p, f, create) ==
  LET o == Lookup(p) IN
    CASE o = NONE -> "ENOENT"
      [] o # NONE /\ f.dir /\ ~IsDir(o) -> "ENOTDIR"
      [] o # NONE /\ ~f.dir /\ o[1] = "tmp" /\ kind[o[2]] = "pipe" /\ create -> "EINVAL"
      [] o # NONE /\ IsDir(o) /\ f.write -> "EISDIR"
      [] OTHER -> "OK"

Opened(p, r) ==
  IF r = "OK" /\ IsDir(Lookup(p)) THEN Listing(Lookup(p), Entries(Lookup(p)))
  ELSE Idle

\* open without CREATE
Open(t, p, f) ==
  /\ th[t].pc = "idle"
  /\ th' = [th EXCEPT ![t] = Opened(p, OpenObject(p, f, FALSE))]
  /\ UNCHANGED <<kind, files, procs, ended, cwd>>

\* open with CREATE: the path must not be there,
OpenCreate(t, p, f) ==
  /\ th[t].pc = "idle"
  /\ th' = [th EXCEPT ![t] =
       IF Lookup(p) # NONE THEN Idle   \* EEXIST
       ELSE [pc |-> "open", path |-> p, flags |-> f]]
  /\ UNCHANGED <<kind, files, procs, ended, cwd>>

\* is opened if another thread has made it meanwhile, or else made,
TryOpen(t) ==
  /\ th[t].pc = "open"
  /\ LET r == OpenObject(th[t].path, th[t].flags, TRUE) IN
       th' = [th EXCEPT ![t] =
         IF r = "OK" THEN Opened(th[t].path, r) ELSE [th[t] EXCEPT !.pc = "touch"]]
  /\ UNCHANGED <<kind, files, procs, ended, cwd>>

Touch(t) ==
  /\ th[t].pc = "touch"
  /\ \/ Create(th[t].path, "file") /\ th' = [th EXCEPT ![t].pc = "reopen"]
     \/ /\ Refused(th[t].path)
        /\ th' = [th EXCEPT ![t] = Idle]   \* ENOTDIR
        /\ UNCHANGED <<kind, files>>
  /\ UNCHANGED <<procs, ended, cwd>>

\* and opened.
Reopen(t) ==
  /\ th[t].pc = "reopen"
  /\ th' = [th EXCEPT ![t] =
       Opened(th[t].path, OpenObject(th[t].path, th[t].flags, TRUE))]
  /\ UNCHANGED <<kind, files, procs, ended, cwd>>

\* readdir: the entry at the position, or the end.
ReadDir(t) ==
  /\ th[t].pc = "list"
  /\ LET es == Entries(th[t].o) IN
       th' = [th EXCEPT ![t] =
         IF @.pos < Len(es)
         THEN [@ EXCEPT !.pos = @ + 1, !.seen = Append(@, es[th[t].pos + 1])]
         ELSE [@ EXCEPT !.pc = "listed"]]
  /\ UNCHANGED <<kind, files, procs, ended, cwd>>

CloseDir(t) ==
  /\ th[t].pc \in {"list", "listed"}
  /\ th' = [th EXCEPT ![t] = Idle]
  /\ UNCHANGED <<kind, files, procs, ended, cwd>>

\* Mutant of CanCd: any object will do.
CanCdAny(p) == Lookup(p) # NONE
CanCd(p) == Lookup(p) # NONE /\ IsDir(Lookup(p))

\* cd
Cd(t, p) ==
  /\ th[t].pc = "idle" /\ CanCd(p)
  /\ cwd' = p
  /\ UNCHANGED <<kind, files, procs, ended, th>>

\* create_process, and exit or kill, which fills the gap with the last process.
Start(p) ==
  /\ p \notin ToSet(procs) \cup ended
  /\ procs' = Append(procs, p)
  /\ UNCHANGED <<kind, files, ended, cwd, th>>
End(i) ==
  /\ i \in DOMAIN procs /\ i # 1
  /\ procs' = Front([procs EXCEPT ![i] = procs[Len(procs)]])
  /\ ended' = ended \cup {procs[i]}
  /\ UNCHANGED <<kind, files, cwd, th>>

Next ==
  \/ \E t \in Thread, p \in Paths :
       \/ \E k \in {"dir", "file", "pipe"} : Make(t, p, k)
       \/ \E f \in Flags : Open(t, p, f) \/ OpenCreate(t, p, f)
       \/ Cd(t, p)
  \/ \E t \in Thread : TryOpen(t) \/ Touch(t) \/ Reopen(t) \/ ReadDir(t) \/ CloseDir(t)
  \/ \E p \in Pids : Start(p)
  \/ \E i \in DOMAIN procs : End(i)

Spec == Init /\ [][Next]_vars

-----------------------------------------------------------------------------
\* Entries lead to objects that exist, each made for one entry.
TypeOK ==
  /\ Len(kind) = Len(files) /\ Len(kind) <= MaxNodes
  /\ \A n \in DOMAIN kind : kind[n] \in {"dir", "file", "pipe"}
  /\ \A n \in DOMAIN kind \ {Root} :
       Cardinality({<<d, i>> \in (DOMAIN kind) \X (1..MaxNodes) :
                      i \in DOMAIN files[d] /\ files[d][i][2] = n}) = 1
  /\ cwd \in Paths \cup {<<"">>}

\* A directory has a name once, whatever threads create it at the same time.
NamesUnique ==
  \A d \in DOMAIN files : \A i, j \in DOMAIN files[d] :
    files[d][i][1] = files[d][j][1] => i = j

\* Nothing is made in the directory that the mount hides.
HiddenEmpty == files[Hidden] = <<>>

\* A path of tmpfs leads to the same object for ever.
PathStableStep ==
  \A p \in Paths : Lookup(p)[1] = "tmp" => Lookup(p)' = Lookup(p)

\* Reading a directory of tmpfs to its end gives every entry it had when it was
\* opened, and none twice.
ListComplete ==
  \A t \in Thread : th[t].pc = "listed" /\ th[t].o[1] = "tmp" =>
    /\ ToSet(th[t].owed) \subseteq ToSet(th[t].seen)
    /\ Cardinality(ToSet(th[t].seen)) = Len(th[t].seen)

\* The working directory is a directory, unless its process has ended.
CwdIsDir == IsDir(Lookup(cwd)) \/ (cwd[1] = "proc" /\ Len(cwd) > 1)
=============================================================================
