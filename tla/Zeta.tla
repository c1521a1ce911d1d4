-------------------------------- MODULE Zeta --------------------------------
(***************************************************************************)
(* The user-space file server (zeta): the vfs class with the one file       *)
(* system main mounts, devfs at /dev.  The loop that would serve requests   *)
(* from other processes is commented out in main.cpp; the actions here are  *)
(* the calls it would make, one at a time, on behalf of a thread.           *)
(*                                                                          *)
(* A path is a sequence of components and is absolute or relative; the      *)
(* length of a component is all that is kept of its characters.             *)
(***************************************************************************)
EXTENDS Integers, Sequences, SequencesExt

CONSTANTS
    ZtThreads,      \* threads on whose behalf files are opened
    ZtPaths,        \* the paths they use: [rel, parts]
    ZtMaxFd,        \* bound: descriptors handed out or named
    ZtMaxCalls      \* bound: calls made

VARIABLES
    ztFds,          \* per thread: fd -> the file it is open on
    ztFree,         \* per thread: free_fd
    ztDup,          \* per thread: numbers dup2 was asked for (ghost)
    ztReady,        \* threads whose entry is initialised
    ztResult,       \* the last call and what it returned
    ztCalls,        \* calls made so far
    ztAborted       \* an exception nobody catches

ztVars == <<ztFds, ztFree, ztDup, ztReady, ztResult, ztCalls, ztAborted>>

\* devfs: the files, and which of them can be read.  All are block devices.
Files == {"kmsg", "null", "zero", "full", "stdout", "stderr"}
Readable == {"null", "zero", "full"}
MountPoint == <<"dev">>
CharsIn(c) ==
    CASE c = "." -> 1 [] c = ".." -> 2 [] c = "dev" -> 3
      [] c \in {"kmsg", "null", "zero", "full"} -> 4 [] OTHER -> 6

(***************************************************************************)
(* The loop of make_path_absolute, with its iterator i.  After "." is erased *)
(* the iterator is at the following component, and the loop's increment     *)
(* passes over it.  After ".." it is moved back by one, which makes up for  *)
(* that only if no component was erased in front.  When what is erased is   *)
(* the last component, the increment takes the iterator past the end, and   *)
(* the loop runs on through memory until it faults.                         *)
(***************************************************************************)
Fault == <<"fault">>
Special == {".", ".."}
RECURSIVE ResolveFrom(_, _)
ResolveFrom(parts, i) ==
    IF i > Len(parts) THEN parts
    ELSE IF parts[i] \notin Special THEN ResolveFrom(parts, i + 1)
    ELSE IF parts[i] = ".." /\ i = 1 THEN ResolveFrom(Tail(parts), 1)
    ELSE IF i = Len(parts) THEN Fault
    ELSE IF parts[i] = "." THEN ResolveFrom(RemoveAt(parts, i), i + 1)
    ELSE ResolveFrom(RemoveAt(RemoveAt(parts, i), i - 1), i)
DropDots(parts) == SelectSeq(parts, LAMBDA c : c \notin Special)
Resolve(parts) == ResolveFrom(parts, 1)

\* What the components mean.
Meaning(parts) ==
    FoldLeft(LAMBDA dir, c : IF c = "." THEN dir
                             ELSE IF c = ".." THEN IF dir = << >> THEN dir ELSE Front(dir)
                             ELSE Append(dir, c),
             << >>, parts)

\* Every thread's cwd is the empty string, so a relative path is prefixed with
\* what cwd[-1] makes of it: a separator, or (when the byte there is one)
\* nothing, and then split_path drops the first component.
Absolute(path) ==
    IF path.rel THEN {path.parts, Tail(path.parts)} ELSE {path.parts}
PathLength(path) ==
    LET sum == FoldLeft(LAMBDA n, c : n + CharsIn(c) + 1, 0, path.parts)
    IN  IF path.rel THEN sum - 1 ELSE sum

(***************************************************************************)
(* get_mountpoint: the file system comes from the absolute path, the local  *)
(* path is cut from the path as given.  The result is a file of devfs,      *)
(* "none", or "throw" when the path is shorter than the mount point's name. *)
(***************************************************************************)
Mounted(parts) == IsPrefix(MountPoint, parts)
LocalFile(path, resolved) ==
    IF resolved = Fault THEN "fault"
    ELSE IF ~Mounted(resolved) THEN "none"
    ELSE IF PathLength(path) < 4 THEN "throw"
    ELSE IF ~path.rel /\ Len(path.parts) = 2 /\ path.parts[1] = "dev"
            /\ path.parts[2] \in Files
         THEN path.parts[2] ELSE "none"

ZetaInit ==
    /\ ztFds = [t \in ZtThreads |-> << >>]
    /\ ztFree = [t \in ZtThreads |-> 3] /\ ztDup = [t \in ZtThreads |-> {}]
    /\ ztReady = {} /\ ztResult = [call |-> "none"] /\ ztCalls = 0
    /\ ztAborted = FALSE

With(f, k, v) == [x \in DOMAIN f \cup {k} |-> IF x = k THEN v ELSE f[x]]
Without(f, k) == [x \in DOMAIN f \ {k} |-> f[x]]

\* get_thread_entry: the first use of a thread opens stdout and stderr (as 3
\* and 4) and duplicates them to 1 and 2.
FirstFds == (1 :> "stdout") @@ (2 :> "stderr") @@ (3 :> "stdout") @@ (4 :> "stderr")
Fds(t) == IF t \in ztReady THEN ztFds[t] ELSE FirstFds
FreeFd(t) == IF t \in ztReady THEN ztFree[t] ELSE 5
Enter(t, fds, free) ==
    /\ ztReady' = ztReady \cup {t}
    /\ ztFds' = [ztFds EXCEPT ![t] = fds]
    /\ ztFree' = [ztFree EXCEPT ![t] = free]

SameFd(fd) == fd
NextFd(fd) == fd + 1
ZtOpen(t, path) ==
    \E parts \in Absolute(path) :
      LET file == LocalFile(path, Resolve(parts))
          fd == FreeFd(t)
          opened == file \in Files
      IN  /\ fd <= ZtMaxFd
          /\ ztAborted' = (file \in {"throw", "fault"}) /\ UNCHANGED ztDup
          /\ Enter(t, IF opened THEN With(Fds(t), fd, file) ELSE Fds(t),
                      IF opened THEN NextFd(fd) ELSE fd)
          /\ ztResult' = [call |-> "open", thread |-> t, fd |-> IF opened THEN fd ELSE -1,
                          was |-> opened /\ fd \in DOMAIN Fds(t),
                          parts |-> parts, resolved |-> Resolve(parts)]

\* dup2: closes newfd if it is open, then copies.
ZtDup2(t, old, new) ==
    /\ Enter(t, IF old \in DOMAIN Fds(t) THEN With(Fds(t), new, Fds(t)[old]) ELSE Fds(t),
             FreeFd(t))
    /\ ztDup' = [ztDup EXCEPT ![t] = @ \cup {new}]
    /\ ztResult' = [call |-> "dup2", thread |-> t,
                    fd |-> IF old \in DOMAIN Fds(t) THEN new ELSE -1]
    /\ UNCHANGED ztAborted

ZtClose(t, fd) ==
    /\ Enter(t, Without(Fds(t), fd), FreeFd(t))
    /\ ztResult' = [call |-> "close", thread |-> t, fd |-> fd]
    /\ UNCHANGED <<ztDup, ztAborted>>

\* read and write call the node's function, which devfs may not have set.
ZtTransfer(t, fd, call) ==
    /\ Enter(t, Fds(t), FreeFd(t))
    /\ ztAborted' = (call = "read" /\ fd \in DOMAIN Fds(t) /\ Fds(t)[fd] \notin Readable)
    /\ ztResult' = [call |-> call, thread |-> t, fd |-> fd,
                    ok |-> fd \in DOMAIN Fds(t)]
    /\ UNCHANGED ztDup

\* seek and tell do not initialise the thread's entry; no file of devfs is of the
\* type seek moves in, so every offset stays 0.
ZtOffset(t, fd, call) ==
    /\ ztResult' = [call |-> call, thread |-> t, fd |-> fd, ok |-> fd \in DOMAIN ztFds[t]]
    /\ UNCHANGED <<ztFds, ztFree, ztDup, ztReady, ztAborted>>

ZetaNext ==
    /\ ~ztAborted /\ ztCalls < ZtMaxCalls /\ ztCalls' = ztCalls + 1
    /\ \E t \in ZtThreads :
         \/ \E path \in ZtPaths : ZtOpen(t, path)
         \/ \E old, new \in 1 .. ZtMaxFd : ZtDup2(t, old, new)
         \/ \E fd \in 1 .. ZtMaxFd :
              \/ ZtClose(t, fd)
              \/ \E call \in {"read", "write"} : ZtTransfer(t, fd, call)
              \/ \E call \in {"seek", "tell"} : ZtOffset(t, fd, call)

ZtTypeOK ==
    /\ \A t \in ZtThreads : /\ DOMAIN ztFds[t] \subseteq 1 .. ZtMaxFd
                            /\ \A fd \in DOMAIN ztFds[t] : ztFds[t][fd] \in Files
    /\ ztFree \in [ZtThreads -> 3 .. ZtMaxFd + 1]
    /\ ztReady \subseteq ZtThreads /\ ztAborted \in BOOLEAN

(***************************************************************************)
(* make_path_absolute gives a path its meaning as long as no "." or ".."    *)
(* comes last or directly after another one; nothing is claimed for paths   *)
(* that do have such a component.                                           *)
(***************************************************************************)
ZtPlain(parts) ==
    \A i \in DOMAIN parts :
      parts[i] \in Special => i < Len(parts) /\ parts[i + 1] \notin Special
ZtResolves ==
    ztResult.call = "open" /\ ZtPlain(ztResult.parts) =>
        ztResult.resolved = Meaning(ztResult.parts)

(***************************************************************************)
(* open hands out a number that is not open already, unless dup2 took that  *)
(* number ahead of it: numbers are counted up and never reused, but dup2    *)
(* may name any.                                                            *)
(***************************************************************************)
ZtOpenFresh ==
    ztResult.call = "open" /\ ztResult.was => ztResult.fd \in ztDup[ztResult.thread]
=============================================================================
