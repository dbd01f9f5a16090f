---------------------------- MODULE LeaderGuard -----------------------------
(***************************************************************************)
(* How a hisnosd process becomes the only one (core/runtime/               *)
(* leader_guard.go): a flock on the inode the lock path names, the PID     *)
(* written into that file, and the IPC socket it takes over.  A process is *)
(* one start of the daemon; it may crash at any step.  flock excludes per  *)
(* inode and ends with the process; a PID is not reused.                   *)
(***************************************************************************)
EXTENDS Naturals

CONSTANTS
    Procs,      \* starts of the daemon
    NoProc,     \* model value: no process, no PID
    MaxInodes   \* bound: lock files created, two for every start suffice

ASSUME GuardAssumption ==
    NoProc \notin Procs /\ MaxInodes \in Nat

Inodes == 1..MaxInodes
NoInode == 0

VARIABLES
    pc,         \* process -> where it is
    fd,         \* process -> the inode its descriptor refers to
    saw,        \* process -> the PID it read
    path,       \* the inode /run/user/<uid>/hisnosd.lock names
    made,       \* inodes created so far
    content,    \* inode -> the PID written in it
    holder,     \* inode -> the process that has it flocked
    socket,     \* the process whose listener made the socket file
    overlapped  \* history: has a process been started while another was starting?

files == <<path, made, content>>
guardvars == <<pc, fd, saw, files, holder, socket, overlapped>>

Goto(p, there) == pc' = [pc EXCEPT ![p] = there]

Dead == {"new", "refused", "gone"}
Starting == {"open", "flock", "read", "check", "unlink", "reopen", "reflock",
             "truncate", "write", "bind"}
Leading == {"bind", "lead"}
Holding == {"truncate", "write", "bind", "lead", "clear", "unlock"}

-----------------------------------------------------------------------------
(* AcquireLeadership.                                                      *)
Start(p) ==
    /\ pc[p] = "new"
    /\ overlapped' = (overlapped \/ \E q \in Procs : pc[q] \in Starting)
    /\ Goto(p, "open")
    /\ UNCHANGED <<fd, saw, files, holder, socket>>

(* O_CREAT: the named inode, or a new one.                                 *)
OpenLock(p) ==
    \E from, to \in {"open", "flock", "reopen", "reflock"} :
        /\ <<from, to>> \in {<<"open", "flock">>, <<"reopen", "reflock">>}
        /\ pc[p] = from
        /\ Goto(p, to)
        /\ IF path # NoInode THEN UNCHANGED <<made, path>>
           ELSE made < MaxInodes /\ made' = made + 1 /\ path' = made'
        /\ fd' = [fd EXCEPT ![p] = path']
        /\ UNCHANGED <<saw, content, holder, socket, overlapped>>

(* LOCK_EX|LOCK_NB.  The first refusal looks at the PID, the second ends.  *)
Flock(p) ==
    /\ pc[p] \in {"flock", "reflock"}
    /\ \/ /\ holder[fd[p]] = NoProc
          /\ holder' = [holder EXCEPT ![fd[p]] = p]
          /\ Goto(p, "truncate")
       \/ /\ holder[fd[p]] # NoProc
          /\ Goto(p, IF pc[p] = "flock" THEN "read" ELSE "refused")
          /\ UNCHANGED holder
    /\ UNCHANGED <<fd, saw, files, socket, overlapped>>

(* Variant: the PID in the file is never parsed.                           *)
RecordedUnparsed == NoProc

(* readPIDFromLockFile goes by the path; no file or no number is no PID.   *)
Recorded == IF path = NoInode THEN NoProc ELSE content[path]

ReadPID(p) ==
    /\ pc[p] = "read"
    /\ saw' = [saw EXCEPT ![p] = Recorded]
    /\ Goto(p, "check")
    /\ UNCHANGED <<fd, files, holder, socket, overlapped>>

(* Variant: a PID is taken for alive without asking the kernel.            *)
AliveUnasked(pid) == pid # NoProc

(* kill(pid, 0)                                                            *)
ProcessAlive(pid) == pid # NoProc /\ pc[pid] \notin Dead

CheckAlive(p) ==
    /\ pc[p] = "check"
    /\ Goto(p, IF ProcessAlive(saw[p]) THEN "refused" ELSE "unlink")
    /\ UNCHANGED <<fd, saw, files, holder, socket, overlapped>>

UnlinkStale(p) ==
    /\ pc[p] = "unlink"
    /\ path' = NoInode
    /\ Goto(p, "reopen")
    /\ UNCHANGED <<fd, saw, made, content, holder, socket, overlapped>>

(* Two system calls: between them the file is empty.                       *)
WritePID(p) ==
    /\ \/ /\ pc[p] = "truncate"
          /\ content' = [content EXCEPT ![fd[p]] = NoProc]
          /\ Goto(p, "write")
       \/ /\ pc[p] = "write"
          /\ content' = [content EXCEPT ![fd[p]] = p]
          /\ Goto(p, "bind")
    /\ UNCHANGED <<fd, saw, path, made, holder, socket, overlapped>>

(* validateSocket and Server.Run remove whatever socket is there.          *)
BindSocket(p) ==
    /\ pc[p] = "bind"
    /\ socket' = p
    /\ Goto(p, "lead")
    /\ UNCHANGED <<fd, saw, files, holder, overlapped>>

-----------------------------------------------------------------------------
(* A clean shutdown closes the listener, which unlinks the socket, and     *)
(* only then runs the deferred Release: truncate, unlock.                  *)
Shutdown(p) ==
    /\ pc[p] = "lead"
    /\ socket' = NoProc
    /\ Goto(p, "clear")
    /\ UNCHANGED <<fd, saw, files, holder, overlapped>>

Unlocked(p) == [i \in Inodes |-> IF holder[i] = p THEN NoProc ELSE holder[i]]

Release(p) ==
    /\ \/ /\ pc[p] = "clear"
          /\ content' = [content EXCEPT ![fd[p]] = NoProc]
          /\ Goto(p, "unlock")
          /\ UNCHANGED holder
       \/ /\ pc[p] = "unlock"
          /\ holder' = Unlocked(p)
          /\ Goto(p, "exit")
          /\ UNCHANGED content
       \/ /\ pc[p] = "exit"
          /\ Goto(p, "gone")
          /\ UNCHANGED <<content, holder>>
    /\ UNCHANGED <<fd, saw, path, made, socket, overlapped>>

(* SIGKILL: the kernel drops the lock, the files stay as they are.         *)
Crash(p) ==
    /\ pc[p] \notin Dead
    /\ holder' = Unlocked(p)
    /\ Goto(p, "gone")
    /\ UNCHANGED <<fd, saw, files, socket, overlapped>>

-----------------------------------------------------------------------------
GuardInit ==
    /\ pc = [p \in Procs |-> "new"]
    /\ fd = [p \in Procs |-> NoInode]
    /\ saw = [p \in Procs |-> NoProc]
    /\ path = NoInode /\ made = 0
    /\ content = [i \in Inodes |-> NoProc]
    /\ holder = [i \in Inodes |-> NoProc]
    /\ socket = NoProc
    /\ overlapped = FALSE

GuardNext ==
    \E p \in Procs :
        \/ Start(p) \/ OpenLock(p) \/ Flock(p) \/ ReadPID(p) \/ CheckAlive(p)
        \/ UnlinkStale(p) \/ WritePID(p) \/ BindSocket(p)
        \/ Shutdown(p) \/ Release(p) \/ Crash(p)

GuardSpec == GuardInit /\ [][GuardNext]_guardvars

-----------------------------------------------------------------------------
GuardTypeOK ==
    /\ pc \in [Procs -> Dead \cup Starting
                          \cup {"lead", "clear", "unlock", "exit"}]
    /\ fd \in [Procs -> Inodes \cup {NoInode}]
    /\ saw \in [Procs -> Procs \cup {NoProc}]
    /\ path \in 0..made /\ made \in Inodes \cup {0}
    /\ content \in [Inodes -> Procs \cup {NoProc}]
    /\ holder \in [Inodes -> Procs \cup {NoProc}]
    /\ \A i \in Inodes : holder[i] # NoProc => pc[holder[i]] \in Holding
    /\ socket \in Procs \cup {NoProc}
    /\ overlapped \in BOOLEAN

(* leader_guard.go: exactly one hisnosd is active at any time.             *)
OneLeader ==
    \A p, q \in Procs : pc[p] \in Leading /\ pc[q] \in Leading => p = q

(* Unless two starts have overlapped, at most one process leads, whatever  *)
(* crashed at whatever step and left its files behind.                     *)
OneLeaderAtATime == ~overlapped => OneLeader

(* The socket clients connect to is then the leader's, although the server *)
(* removes and the closing listener unlinks it by its path.                *)
SocketIsLeaders ==
    ~overlapped => \A p \in Procs : pc[p] = "lead" => socket = p

(* A start is refused only while another process of the daemon exists: no  *)
(* crash, wherever it happens, keeps the next start out.                   *)
RefusedByTheLiving ==
    [][\A p \in Procs : pc[p] # "refused" /\ pc'[p] = "refused" =>
          \E q \in Procs \ {p} : pc[q] \notin Dead]_guardvars

=============================================================================
