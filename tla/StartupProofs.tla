--------------------------- MODULE StartupProofs ----------------------------
(***************************************************************************)
(* Proofs about how the system starts.  One leader at a time, for any      *)
(* number of starts and crashes, as long as no two starts overlap, and no  *)
(* start refused without another process of the daemon.  The journal: what *)
(* it calls committed is in the state file, for any number of power        *)
(* losses, any size of the journal and any number of updates.  The wizard  *)
(* of the first boot, for any number of handlers at work, of writes that   *)
(* fail and of deaths of the process.                                      *)
(***************************************************************************)
EXTENDS LeaderGuard, TransactionManager, Onboarding, SequenceTheorems, TLAPS

-----------------------------------------------------------------------------
(* No variable leaves its type.  The lock needs no such care: only a       *)
(* process that is alive has one.                                          *)
THEOREM GuardTypeCorrect == GuardSpec => []GuardTypeOK
<1> USE GuardAssumption
<1>1. ASSUME GuardInit
      PROVE  GuardTypeOK
  <2>1. overlapped \in BOOLEAN
    BY <1>1 DEF GuardInit
  <2>2. \A i \in Inodes : holder[i] = NoProc
    BY <1>1 DEF GuardInit
  <2> QED
    BY <1>1, <2>1, <2>2 DEF GuardInit, GuardTypeOK, Inodes, NoInode, Dead
<1>2. GuardTypeOK /\ [GuardNext]_guardvars => GuardTypeOK'
  <2> SUFFICES ASSUME GuardTypeOK, [GuardNext]_guardvars
               PROVE  GuardTypeOK'
    OBVIOUS
  <2>1. CASE UNCHANGED guardvars
    BY <2>1
       DEF guardvars, files, GuardTypeOK, Inodes, NoInode, Dead, Starting,
           Holding
  <2>2. ASSUME NEW p \in Procs, Start(p)
        PROVE  GuardTypeOK'
    BY <2>2
       DEF Start, Goto, files, GuardTypeOK, Inodes, NoInode, Dead, Starting,
           Holding
  <2>3. ASSUME NEW p \in Procs, OpenLock(p)
        PROVE  GuardTypeOK'
    BY <2>3
       DEF OpenLock, Goto, GuardTypeOK, Inodes, NoInode, Dead, Starting, Holding
  <2>4. ASSUME NEW p \in Procs, Flock(p)
        PROVE  GuardTypeOK'
    <3>1. pc' \in [Procs -> Dead \cup Starting
                             \cup {"lead", "clear", "unlock", "exit"}]
      BY <2>4 DEF Flock, Goto, GuardTypeOK, Dead, Starting
    <3>2. /\ holder' \in [Inodes -> Procs \cup {NoProc}]
          /\ content' \in [Inodes -> Procs \cup {NoProc}]
      BY <2>4 DEF Flock, files, GuardTypeOK
    <3>3. \A i \in Inodes : holder'[i] # NoProc => pc'[holder'[i]] \in Holding
      BY <2>4, <3>1, <3>2 DEF Flock, Goto, files, GuardTypeOK, Holding
    <3> QED
      BY <2>4, <3>1, <3>2, <3>3 DEF Flock, files, GuardTypeOK
  <2>5. ASSUME NEW p \in Procs, ReadPID(p)
        PROVE  GuardTypeOK'
    BY <2>5
       DEF ReadPID, Recorded, Goto, files, GuardTypeOK, Inodes, NoInode, Dead,
       Starting, Holding
  <2>6. ASSUME NEW p \in Procs, CheckAlive(p)
        PROVE  GuardTypeOK'
    BY <2>6
       DEF CheckAlive, Goto, files, GuardTypeOK, Inodes, NoInode, Dead,
           Starting, Holding
  <2>7. ASSUME NEW p \in Procs, UnlinkStale(p)
        PROVE  GuardTypeOK'
    BY <2>7
       DEF UnlinkStale, Goto, GuardTypeOK, Inodes, NoInode, Dead, Starting,
           Holding
  <2>8. ASSUME NEW p \in Procs, WritePID(p)
        PROVE  GuardTypeOK'
    <3>1. pc' \in [Procs -> Dead \cup Starting
                             \cup {"lead", "clear", "unlock", "exit"}]
      BY <2>8 DEF WritePID, Goto, GuardTypeOK, Dead, Starting
    <3>2. /\ holder' \in [Inodes -> Procs \cup {NoProc}]
          /\ content' \in [Inodes -> Procs \cup {NoProc}]
      BY <2>8 DEF WritePID, files, GuardTypeOK
    <3>3. \A i \in Inodes : holder'[i] # NoProc => pc'[holder'[i]] \in Holding
      BY <2>8, <3>1, <3>2 DEF WritePID, Goto, files, GuardTypeOK, Holding
    <3> QED
      BY <2>8, <3>1, <3>2, <3>3 DEF WritePID, files, GuardTypeOK
  <2>9. ASSUME NEW p \in Procs, BindSocket(p) \/ Shutdown(p)
        PROVE  GuardTypeOK'
    BY <2>9
       DEF BindSocket, Shutdown, Goto, files, GuardTypeOK, Inodes, NoInode,
           Dead,
       Starting, Holding
  <2>10. ASSUME NEW p \in Procs, Release(p)
         PROVE  GuardTypeOK'
    <3>1. pc' \in [Procs -> Dead \cup Starting
                             \cup {"lead", "clear", "unlock", "exit"}]
      BY <2>10 DEF Release, Goto, GuardTypeOK, Dead, Starting
    <3>2. /\ holder' \in [Inodes -> Procs \cup {NoProc}]
          /\ content' \in [Inodes -> Procs \cup {NoProc}]
      BY <2>10 DEF Release, Unlocked, files, GuardTypeOK
    <3>3. \A i \in Inodes : holder'[i] # NoProc => pc'[holder'[i]] \in Holding
      BY <2>10, <3>1, <3>2
         DEF Release, Unlocked, Goto, files, GuardTypeOK, Holding
    <3> QED
      BY <2>10, <3>1, <3>2, <3>3 DEF Release, files, GuardTypeOK
  <2>11. ASSUME NEW p \in Procs, Crash(p)
         PROVE  GuardTypeOK'
    BY <2>11
       DEF Crash, Unlocked, Goto, files, GuardTypeOK, Inodes, NoInode, Dead,
       Starting, Holding
  <2> QED
    BY <2>1, <2>2, <2>3, <2>4, <2>5, <2>6, <2>7, <2>8, <2>9, <2>10, <2>11
    DEF GuardNext
<1> QED
  BY <1>1, <1>2, PTL DEF GuardSpec

-----------------------------------------------------------------------------
(* Why one leader at a time: a starting process is alone, whoever is past  *)
(* its flock owns the inode its descriptor refers to, that inode is the    *)
(* one the path names while it takes over and leads, and its PID is there  *)
(* for the next start to find, which therefore never gets as far as the    *)
(* unlink.                                                                 *)
Taking == {"unlink", "reopen", "reflock", "truncate", "write", "bind"}

Alone ==
    \A p, q \in Procs : pc[p] \in Starting /\ pc[q] \in Starting => p = q

OwnsLock ==
    \A p \in Procs : pc[p] \in Holding => fd[p] \in Inodes /\ holder[fd[p]] = p

OnThePath ==
    \A p \in Procs :
        pc[p] \in {"flock", "reflock", "truncate", "write", "bind", "lead"} =>
            path \in Inodes /\ fd[p] = path

Announced == \A p \in Procs : pc[p] \in Leading => content[fd[p]] = p

Undisturbed ==
    \A p, q \in Procs : pc[p] = "lead" =>
        pc[q] \notin Taking /\ (pc[q] = "check" => saw[q] = p)

GuardInv == Alone /\ OwnsLock /\ OnThePath /\ Announced /\ Undisturbed

(* The five parts are enough.                                              *)
LEMMA GuardInvIsEnough == ASSUME GuardTypeOK, GuardInv PROVE OneLeader
<1> SUFFICES ASSUME NEW p \in Procs, NEW q \in Procs,
                    pc[p] \in Leading, pc[q] \in Leading
             PROVE  p = q
  BY DEF OneLeader
<1>1. CASE pc[p] = "lead" /\ pc[q] = "lead"
  BY <1>1 DEF GuardInv, OwnsLock, OnThePath, Holding
<1>2. CASE pc[p] = "bind" /\ pc[q] = "bind"
  BY <1>2 DEF GuardInv, Alone, Starting
<1>3. CASE pc[p] # pc[q]
  BY <1>3 DEF GuardInv, Undisturbed, Taking, Leading
<1> QED
  BY <1>1, <1>2, <1>3 DEF Leading

LEMMA GuardInvIsKept ==
    ASSUME ~overlapped', GuardTypeOK, GuardInv, [GuardNext]_guardvars
    PROVE  GuardInv'
<1> USE GuardAssumption DEF Starting, Holding, Leading, Taking
<1>1. CASE UNCHANGED guardvars
  BY <1>1 DEF guardvars, files, GuardInv, Alone, OwnsLock, OnThePath, Announced,
     Undisturbed
<1>2. ASSUME NEW p \in Procs, Start(p)
      PROVE  GuardInv'
  <2>1. Alone'
    BY ZenonT(40), <1>2 DEF Start, Goto, files, GuardTypeOK, GuardInv, Alone
  <2>2. OwnsLock'
    BY <1>2 DEF Start, Goto, files, GuardTypeOK, GuardInv, OwnsLock, OnThePath
  <2>3. OnThePath'
    BY <1>2
       DEF Start, Goto, files, GuardTypeOK, GuardInv, Alone, OnThePath,
           Undisturbed,
       Inodes, NoInode
  <2>4. Announced'
    BY <1>2
       DEF Start, Goto, files, GuardTypeOK, GuardInv, OwnsLock, OnThePath,
           Announced
  <2>5. Undisturbed'
    BY <1>2
       DEF Start, Goto, files, GuardTypeOK, GuardInv, Alone, OwnsLock,
           OnThePath,
       Announced, Undisturbed, Inodes, NoInode
  <2> QED
    BY <2>1, <2>2, <2>3, <2>4, <2>5 DEF GuardInv
<1>3. ASSUME NEW p \in Procs, OpenLock(p)
      PROVE  GuardInv'
  <2>1. Alone'
    BY <1>3 DEF OpenLock, Goto, files, GuardTypeOK, GuardInv, Alone
  <2>2. OwnsLock'
    BY <1>3
       DEF OpenLock, Goto, files, GuardTypeOK, GuardInv, OwnsLock, OnThePath
  <2>3. OnThePath'
    BY <1>3
       DEF OpenLock, Goto, files, GuardTypeOK, GuardInv, Alone, OnThePath,
           Undisturbed,
       Inodes, NoInode
  <2>4. Announced'
    BY <1>3
       DEF OpenLock, Goto, files, GuardTypeOK, GuardInv, OwnsLock, OnThePath,
           Announced
  <2>5. Undisturbed'
    BY <1>3
       DEF OpenLock, Goto, files, GuardTypeOK, GuardInv, Alone, OwnsLock,
           OnThePath,
       Announced, Undisturbed, Inodes, NoInode
  <2> QED
    BY <2>1, <2>2, <2>3, <2>4, <2>5 DEF GuardInv
<1>4. ASSUME NEW p \in Procs, Flock(p)
      PROVE  GuardInv'
  <2>1. Alone'
    BY <1>4 DEF Flock, Goto, files, GuardTypeOK, GuardInv, Alone
  <2>2. OwnsLock'
    BY <1>4 DEF Flock, Goto, files, GuardTypeOK, GuardInv, OwnsLock, OnThePath
  <2>3. OnThePath'
    BY <1>4
       DEF Flock, Goto, files, GuardTypeOK, GuardInv, Alone, OnThePath,
           Undisturbed,
       Inodes, NoInode
  <2>4. Announced'
    BY <1>4
       DEF Flock, Goto, files, GuardTypeOK, GuardInv, OwnsLock, OnThePath,
           Announced
  <2>5. Undisturbed'
    BY <1>4
       DEF Flock, Goto, files, GuardTypeOK, GuardInv, Alone, OwnsLock,
           OnThePath,
       Announced, Undisturbed, Inodes, NoInode
  <2> QED
    BY <2>1, <2>2, <2>3, <2>4, <2>5 DEF GuardInv
<1>5. ASSUME NEW p \in Procs, ReadPID(p)
      PROVE  GuardInv'
  <2>1. Alone'
    BY <1>5 DEF ReadPID, Goto, files, Recorded, GuardTypeOK, GuardInv, Alone
  <2>2. OwnsLock'
    BY <1>5
       DEF ReadPID, Goto, files, Recorded, GuardTypeOK, GuardInv, OwnsLock,
           OnThePath
  <2>3. OnThePath'
    BY <1>5
       DEF ReadPID, Goto, files, Recorded, GuardTypeOK, GuardInv, Alone,
           OnThePath, Undisturbed,
       Inodes, NoInode
  <2>4. Announced'
    BY <1>5
       DEF ReadPID, Goto, files, Recorded, GuardTypeOK, GuardInv, OwnsLock,
           OnThePath, Announced
  <2>5. Undisturbed'
    BY <1>5
       DEF ReadPID, Goto, files, Recorded, GuardTypeOK, GuardInv, Alone,
           OwnsLock, OnThePath,
       Announced, Undisturbed, Inodes, NoInode
  <2> QED
    BY <2>1, <2>2, <2>3, <2>4, <2>5 DEF GuardInv
<1>6. ASSUME NEW p \in Procs, CheckAlive(p)
      PROVE  GuardInv'
  <2>1. Alone'
    BY <1>6
       DEF CheckAlive, Goto, files, ProcessAlive, Dead, GuardTypeOK, GuardInv,
           Alone
  <2>2. OwnsLock'
    BY <1>6
       DEF CheckAlive, Goto, files, ProcessAlive, Dead, GuardTypeOK, GuardInv,
           OwnsLock, OnThePath
  <2>3. OnThePath'
    BY <1>6
       DEF CheckAlive, Goto, files, ProcessAlive, Dead, GuardTypeOK, GuardInv,
           Alone, OnThePath, Undisturbed,
       Inodes, NoInode
  <2>4. Announced'
    BY <1>6
       DEF CheckAlive, Goto, files, ProcessAlive, Dead, GuardTypeOK, GuardInv,
           OwnsLock, OnThePath, Announced
  <2>5. Undisturbed'
    BY <1>6
       DEF CheckAlive, Goto, files, ProcessAlive, Dead, GuardTypeOK, GuardInv,
           Alone, OwnsLock, OnThePath,
       Announced, Undisturbed, Inodes, NoInode
  <2> QED
    BY <2>1, <2>2, <2>3, <2>4, <2>5 DEF GuardInv
<1>7. ASSUME NEW p \in Procs, UnlinkStale(p)
      PROVE  GuardInv'
  <2>1. Alone'
    BY <1>7 DEF UnlinkStale, Goto, files, GuardTypeOK, GuardInv, Alone
  <2>2. OwnsLock'
    BY <1>7
       DEF UnlinkStale, Goto, files, GuardTypeOK, GuardInv, OwnsLock, OnThePath
  <2>3. OnThePath'
    BY <1>7
       DEF UnlinkStale, Goto, files, GuardTypeOK, GuardInv, Alone, OnThePath,
           Undisturbed,
       Inodes, NoInode
  <2>4. Announced'
    BY <1>7
       DEF UnlinkStale, Goto, files, GuardTypeOK, GuardInv, OwnsLock,
           OnThePath, Announced
  <2>5. Undisturbed'
    BY <1>7
       DEF UnlinkStale, Goto, files, GuardTypeOK, GuardInv, Alone, OwnsLock,
           OnThePath,
       Announced, Undisturbed, Inodes, NoInode
  <2> QED
    BY <2>1, <2>2, <2>3, <2>4, <2>5 DEF GuardInv
<1>8. ASSUME NEW p \in Procs, WritePID(p)
      PROVE  GuardInv'
  <2>1. Alone'
    BY <1>8 DEF WritePID, Goto, files, GuardTypeOK, GuardInv, Alone
  <2>2. OwnsLock'
    BY <1>8
       DEF WritePID, Goto, files, GuardTypeOK, GuardInv, OwnsLock, OnThePath
  <2>3. OnThePath'
    BY <1>8
       DEF WritePID, Goto, files, GuardTypeOK, GuardInv, Alone, OnThePath,
           Undisturbed,
       Inodes, NoInode
  <2>4. Announced'
    BY <1>8
       DEF WritePID, Goto, files, GuardTypeOK, GuardInv, OwnsLock, OnThePath,
           Announced
  <2>5. Undisturbed'
    BY <1>8
       DEF WritePID, Goto, files, GuardTypeOK, GuardInv, Alone, OwnsLock,
           OnThePath,
       Announced, Undisturbed, Inodes, NoInode
  <2> QED
    BY <2>1, <2>2, <2>3, <2>4, <2>5 DEF GuardInv
<1>9. ASSUME NEW p \in Procs, BindSocket(p)
      PROVE  GuardInv'
  <2>1. Alone'
    BY <1>9 DEF BindSocket, Goto, files, GuardTypeOK, GuardInv, Alone
  <2>2. OwnsLock'
    BY <1>9
       DEF BindSocket, Goto, files, GuardTypeOK, GuardInv, OwnsLock, OnThePath
  <2>3. OnThePath'
    BY <1>9
       DEF BindSocket, Goto, files, GuardTypeOK, GuardInv, Alone, OnThePath,
           Undisturbed,
       Inodes, NoInode
  <2>4. Announced'
    BY <1>9
       DEF BindSocket, Goto, files, GuardTypeOK, GuardInv, OwnsLock,
           OnThePath, Announced
  <2>5. Undisturbed'
    BY <1>9
       DEF BindSocket, Goto, files, GuardTypeOK, GuardInv, Alone, OwnsLock,
           OnThePath,
       Announced, Undisturbed, Inodes, NoInode
  <2> QED
    BY <2>1, <2>2, <2>3, <2>4, <2>5 DEF GuardInv
<1>10. ASSUME NEW p \in Procs, Shutdown(p)
      PROVE  GuardInv'
  <2>1. Alone'
    BY <1>10 DEF Shutdown, Goto, files, GuardTypeOK, GuardInv, Alone
  <2>2. OwnsLock'
    BY <1>10
       DEF Shutdown, Goto, files, GuardTypeOK, GuardInv, OwnsLock, OnThePath
  <2>3. OnThePath'
    BY <1>10
       DEF Shutdown, Goto, files, GuardTypeOK, GuardInv, Alone, OnThePath,
           Undisturbed,
       Inodes, NoInode
  <2>4. Announced'
    BY <1>10
       DEF Shutdown, Goto, files, GuardTypeOK, GuardInv, OwnsLock, OnThePath,
           Announced
  <2>5. Undisturbed'
    BY <1>10
       DEF Shutdown, Goto, files, GuardTypeOK, GuardInv, Alone, OwnsLock,
           OnThePath,
       Announced, Undisturbed, Inodes, NoInode
  <2> QED
    BY <2>1, <2>2, <2>3, <2>4, <2>5 DEF GuardInv
<1>11. ASSUME NEW p \in Procs, Release(p)
      PROVE  GuardInv'
  <2>1. Alone'
    BY <1>11 DEF Release, Goto, files, Unlocked, GuardTypeOK, GuardInv, Alone
  <2>2. OwnsLock'
    BY <1>11
       DEF Release, Goto, files, Unlocked, GuardTypeOK, GuardInv, OwnsLock,
           OnThePath
  <2>3. OnThePath'
    BY <1>11
       DEF Release, Goto, files, Unlocked, GuardTypeOK, GuardInv, Alone,
           OnThePath, Undisturbed,
       Inodes, NoInode
  <2>4. Announced'
    BY <1>11
       DEF Release, Goto, files, Unlocked, GuardTypeOK, GuardInv, OwnsLock,
           OnThePath, Announced
  <2>5. Undisturbed'
    BY <1>11
       DEF Release, Goto, files, Unlocked, GuardTypeOK, GuardInv, Alone,
           OwnsLock, OnThePath,
       Announced, Undisturbed, Inodes, NoInode
  <2> QED
    BY <2>1, <2>2, <2>3, <2>4, <2>5 DEF GuardInv
<1>12. ASSUME NEW p \in Procs, Crash(p)
      PROVE  GuardInv'
  <2>1. Alone'
    BY <1>12
       DEF Crash, Goto, files, Unlocked, Dead, GuardTypeOK, GuardInv, Alone
  <2>2. OwnsLock'
    BY <1>12
       DEF Crash, Goto, files, Unlocked, Dead, GuardTypeOK, GuardInv,
           OwnsLock, OnThePath
  <2>3. OnThePath'
    BY <1>12
       DEF Crash, Goto, files, Unlocked, Dead, GuardTypeOK, GuardInv, Alone,
           OnThePath, Undisturbed,
       Inodes, NoInode
  <2>4. Announced'
    BY <1>12
       DEF Crash, Goto, files, Unlocked, Dead, GuardTypeOK, GuardInv,
           OwnsLock, OnThePath, Announced
  <2>5. Undisturbed'
    BY <1>12
       DEF Crash, Goto, files, Unlocked, Dead, GuardTypeOK, GuardInv, Alone,
           OwnsLock, OnThePath,
       Announced, Undisturbed, Inodes, NoInode
  <2> QED
    BY <2>1, <2>2, <2>3, <2>4, <2>5 DEF GuardInv
<1> QED
  BY <1>1, <1>2, <1>3, <1>4, <1>5, <1>6, <1>7, <1>8, <1>9,
     <1>10, <1>11, <1>12 DEF GuardNext

(* The history variable is never reset.                                    *)
LEMMA OverlapStays ==
    ASSUME GuardTypeOK, [GuardNext]_guardvars, ~overlapped'
    PROVE  ~overlapped
<1>1. CASE UNCHANGED guardvars
  BY <1>1 DEF guardvars
<1>2. ASSUME NEW p \in Procs, Start(p)
      PROVE  ~overlapped
  BY <1>2 DEF Start
<1>3. ASSUME NEW p \in Procs,
             \/ OpenLock(p) \/ Flock(p) \/ ReadPID(p) \/ CheckAlive(p)
             \/ UnlinkStale(p) \/ WritePID(p) \/ BindSocket(p)
             \/ Shutdown(p) \/ Release(p) \/ Crash(p)
      PROVE  ~overlapped
  BY <1>3 DEF OpenLock, Flock, ReadPID, CheckAlive, UnlinkStale, WritePID,
     BindSocket, Shutdown, Release, Crash
<1> QED
  BY <1>1, <1>2, <1>3 DEF GuardNext

(* leader_guard.go: one hisnosd is active at any time, provided no two     *)
(* starts overlap: however many are started and killed, and wherever, two  *)
(* never lead.                                                             *)
THEOREM LeadersDoNotMeet == GuardSpec => []OneLeaderAtATime
<1> DEFINE Inv == ~overlapped => GuardInv
<1>1. GuardInit => Inv
  BY
     DEF GuardInit, GuardInv, Alone, OwnsLock, OnThePath, Announced,
         Undisturbed,
     Starting, Holding, Leading
<1>2. GuardTypeOK /\ Inv /\ [GuardNext]_guardvars => Inv'
  BY GuardInvIsKept, OverlapStays
<1>3. GuardTypeOK /\ Inv => OneLeaderAtATime
  BY GuardInvIsEnough DEF OneLeaderAtATime
<1> QED
  BY <1>1, <1>2, <1>3, GuardTypeCorrect, PTL DEF GuardSpec

(* server.go listens on the path its predecessor's listener unlinks: the   *)
(* socket is nevertheless the leader's, under the same proviso.            *)
THEOREM SocketFollowsTheLeader == GuardSpec => []SocketIsLeaders
<1>1. GuardInit => SocketIsLeaders
  BY DEF GuardInit, SocketIsLeaders
<1>2. GuardTypeOK /\ OneLeaderAtATime /\ SocketIsLeaders
        /\ [GuardNext]_guardvars => SocketIsLeaders'
  <2> SUFFICES ASSUME GuardTypeOK, OneLeaderAtATime, SocketIsLeaders,
                      [GuardNext]_guardvars, ~overlapped'
               PROVE  SocketIsLeaders'
    BY DEF SocketIsLeaders
  <2> ~overlapped
    BY OverlapStays
  <2> USE DEF GuardTypeOK, SocketIsLeaders, Goto, files
  <2>1. CASE UNCHANGED guardvars
    BY <2>1 DEF guardvars
  <2>2. ASSUME NEW p \in Procs, Start(p) \/ OpenLock(p) \/ Flock(p)
        PROVE  SocketIsLeaders'
    BY <2>2 DEF Start, OpenLock, Flock
  <2>3. ASSUME NEW p \in Procs, ReadPID(p) \/ CheckAlive(p) \/ UnlinkStale(p)
        PROVE  SocketIsLeaders'
    BY <2>3 DEF ReadPID, CheckAlive, UnlinkStale
  <2>4. ASSUME NEW p \in Procs, WritePID(p) \/ Release(p) \/ Crash(p)
        PROVE  SocketIsLeaders'
    BY <2>4 DEF WritePID, Release, Crash
  <2>5. ASSUME NEW p \in Procs, BindSocket(p) \/ Shutdown(p)
        PROVE  SocketIsLeaders'
    BY <2>5 DEF BindSocket, Shutdown, OneLeaderAtATime, OneLeader, Leading
  <2> QED
    BY <2>1, <2>2, <2>3, <2>4, <2>5 DEF GuardNext
<1> QED
  BY <1>1, <1>2, GuardTypeCorrect, LeadersDoNotMeet, PTL DEF GuardSpec

-----------------------------------------------------------------------------
(* Why no start is refused in vain.  A process that has not written its    *)
(* PID finds itself in no lock file, so the PID it asks the kernel about   *)
(* is another's; and one that waits for the lock has a file to lock.       *)
Unwritten == {"new", "open", "flock", "read", "check", "unlink", "reopen",
              "reflock", "truncate", "write"}

NotWritten ==
    \A p \in Procs : pc[p] \in Unwritten =>
        saw[p] # p /\ \A i \in Inodes : content[i] # p

HasOpened == \A p \in Procs : pc[p] \in {"flock", "reflock"} => fd[p] \in Inodes

(* No step takes a process back to where it has not written its PID.       *)
LEMMA UnwrittenEnds ==
    ASSUME GuardTypeOK, [GuardNext]_guardvars, NEW q \in Procs,
           pc'[q] \in Unwritten
    PROVE  pc[q] \in Unwritten
<1> USE DEF GuardTypeOK, Goto, Unwritten
<1>1. ASSUME NEW p \in Procs, Start(p) \/ OpenLock(p) \/ Flock(p) \/ ReadPID(p)
      PROVE  pc[q] \in Unwritten
  BY <1>1 DEF Start, OpenLock, Flock, ReadPID
<1>2. ASSUME NEW p \in Procs, CheckAlive(p) \/ UnlinkStale(p) \/ WritePID(p)
      PROVE  pc[q] \in Unwritten
  BY <1>2 DEF CheckAlive, UnlinkStale, WritePID
<1>3. ASSUME NEW p \in Procs,
             BindSocket(p) \/ Shutdown(p) \/ Release(p) \/ Crash(p)
      PROVE  pc[q] \in Unwritten
  BY <1>3 DEF BindSocket, Shutdown, Release, Crash
<1>4. CASE UNCHANGED guardvars
  BY <1>4 DEF guardvars
<1> QED
  BY <1>1, <1>2, <1>3, <1>4 DEF GuardNext

LEMMA NotWrittenKept ==
    ASSUME GuardTypeOK, NotWritten, [GuardNext]_guardvars
    PROVE  NotWritten'
<1> SUFFICES ASSUME NEW q \in Procs, pc'[q] \in Unwritten
             PROVE  saw'[q] # q /\ \A i \in Inodes : content'[i] # q
  BY DEF NotWritten
<1>1. saw[q] # q /\ \A i \in Inodes : content[i] # q
  BY UnwrittenEnds DEF NotWritten
<1>2. ASSUME NEW p \in Procs, ReadPID(p)
      PROVE  saw'[q] # q /\ content' = content
  <2>1. path # NoInode => path \in Inodes
    BY GuardAssumption DEF GuardTypeOK, Inodes, NoInode
  <2>2. Recorded # q
    BY <1>1, <2>1, GuardAssumption DEF Recorded
  <2> QED
    BY <1>1, <1>2, <2>2 DEF ReadPID, files, GuardTypeOK
<1>3. ASSUME NEW p \in Procs, WritePID(p) \/ Release(p)
      PROVE  saw' = saw /\ \A i \in Inodes : content'[i] # q
  <2>1. saw' = saw
    BY <1>3 DEF WritePID, Release
  <2>2. CASE content' \in {content, [content EXCEPT ![fd[p]] = NoProc]}
    BY <1>1, <2>1, <2>2, GuardAssumption DEF GuardTypeOK
  <2>3. CASE content' = [content EXCEPT ![fd[p]] = p] /\ pc'[p] = "bind"
    BY <1>1, <2>1, <2>3 DEF GuardTypeOK, Unwritten
  <2> QED
    BY <1>3, <2>2, <2>3 DEF WritePID, Release, Goto, GuardTypeOK
<1>4. ASSUME NEW p \in Procs, Start(p) \/ OpenLock(p) \/ Flock(p)
      PROVE  UNCHANGED <<saw, content>>
  BY <1>4 DEF Start, OpenLock, Flock, files
<1>5. ASSUME NEW p \in Procs, CheckAlive(p) \/ UnlinkStale(p) \/ BindSocket(p)
      PROVE  UNCHANGED <<saw, content>>
  BY <1>5 DEF CheckAlive, UnlinkStale, BindSocket, files
<1>6. ASSUME NEW p \in Procs, Shutdown(p) \/ Crash(p)
      PROVE  UNCHANGED <<saw, content>>
  BY <1>6 DEF Shutdown, Crash, files
<1>7. CASE UNCHANGED guardvars
  BY <1>1, <1>7 DEF guardvars, files
<1> QED
  BY <1>1, <1>2, <1>3, <1>4, <1>5, <1>6, <1>7 DEF GuardNext

LEMMA HasOpenedKept ==
    ASSUME GuardTypeOK, HasOpened, [GuardNext]_guardvars
    PROVE  HasOpened'
<1> USE DEF GuardTypeOK, Goto, HasOpened
<1>1. ASSUME NEW p \in Procs, OpenLock(p)
      PROVE  HasOpened'
  <2>1. path' \in Inodes /\ fd' = [fd EXCEPT ![p] = path']
    BY <1>1, GuardAssumption DEF OpenLock, Inodes, NoInode
  <2> QED
    BY <1>1, <2>1 DEF OpenLock
<1>2. ASSUME NEW p \in Procs,
             Start(p) \/ Flock(p) \/ ReadPID(p) \/ CheckAlive(p)
      PROVE  HasOpened'
  BY <1>2 DEF Start, Flock, ReadPID, CheckAlive
<1>3. ASSUME NEW p \in Procs, UnlinkStale(p) \/ WritePID(p) \/ BindSocket(p)
      PROVE  HasOpened'
  BY <1>3 DEF UnlinkStale, WritePID, BindSocket
<1>4. ASSUME NEW p \in Procs, Shutdown(p) \/ Release(p) \/ Crash(p)
      PROVE  HasOpened'
  BY <1>4 DEF Shutdown, Release, Crash
<1>5. CASE UNCHANGED guardvars
  BY <1>5 DEF guardvars
<1> QED
  BY <1>1, <1>2, <1>3, <1>4, <1>5 DEF GuardNext

(* leader_guard.go refuses a start for a PID that is alive or a lock that  *)
(* is held: either is another process of the daemon, which has not ended.  *)
THEOREM NoStartIsRefusedInVain == GuardSpec => RefusedByTheLiving
<1> DEFINE Kept == NotWritten /\ HasOpened
<1>1. GuardInit => Kept
  <2> SUFFICES ASSUME GuardInit PROVE Kept
    OBVIOUS
  <2>1. \A p \in Procs : pc[p] = "new" /\ saw[p] = NoProc
    BY DEF GuardInit
  <2>2. \A i \in Inodes : content[i] = NoProc
    BY DEF GuardInit
  <2> QED
    BY <2>1, <2>2, GuardAssumption DEF NotWritten, HasOpened
<1>2. GuardTypeOK /\ Kept /\ [GuardNext]_guardvars => Kept'
  BY NotWrittenKept, HasOpenedKept
<1>3. GuardTypeOK /\ Kept /\ [GuardNext]_guardvars =>
        [\A p \in Procs : pc[p] # "refused" /\ pc'[p] = "refused" =>
            \E q \in Procs \ {p} : pc[q] \notin Dead]_guardvars
  <2> SUFFICES ASSUME GuardTypeOK, NotWritten, HasOpened, GuardNext,
                      NEW p \in Procs, pc[p] # "refused", pc'[p] = "refused"
               PROVE  \E q \in Procs \ {p} : pc[q] \notin Dead
    OBVIOUS
  <2> USE DEF GuardTypeOK, Goto
  <2>1. CASE Flock(p)
    <3>1. pc[p] = "reflock" /\ holder[fd[p]] # NoProc
      BY <2>1 DEF Flock
    <3>2. fd[p] \in Inodes /\ holder[fd[p]] \in Procs
      BY <3>1 DEF HasOpened
    <3>3. pc[holder[fd[p]]] \in Holding
      BY <3>1, <3>2
    <3> QED
      BY <3>1, <3>2, <3>3 DEF Holding, Dead
  <2>2. CASE CheckAlive(p)
    <3>1. pc[p] = "check" /\ ProcessAlive(saw[p])
      BY <2>2 DEF CheckAlive
    <3>2. saw[p] \in Procs /\ saw[p] # p
      BY <3>1 DEF ProcessAlive, NotWritten, Unwritten
    <3> QED
      BY <3>1, <3>2 DEF ProcessAlive
  <2>3. Flock(p) \/ CheckAlive(p)
    <3>1. PICK r \in Procs :
            \/ Start(r) \/ OpenLock(r) \/ Flock(r) \/ ReadPID(r)
            \/ CheckAlive(r) \/ UnlinkStale(r) \/ WritePID(r)
            \/ BindSocket(r) \/ Shutdown(r) \/ Release(r) \/ Crash(r)
      BY DEF GuardNext
    <3>2. r = p
      BY <3>1 DEF Start, OpenLock, Flock, ReadPID, CheckAlive, UnlinkStale,
                  WritePID, BindSocket, Shutdown, Release, Crash
    <3> QED
      BY <3>1, <3>2
         DEF Start, OpenLock, ReadPID, UnlinkStale, WritePID, BindSocket,
             Shutdown, Release, Crash
  <2> QED
    BY <2>1, <2>2, <2>3
<1> QED
  BY <1>1, <1>2, <1>3, GuardTypeCorrect, PTL DEF GuardSpec, RefusedByTheLiving

-----------------------------------------------------------------------------
(* The journal.  What its helpers do to the lines of a file.               *)

LEMMA AppendedElements ==
    ASSUME NEW S, NEW j \in Seq(S), NEW e \in S
    PROVE  /\ Append(j, e) \in Seq(S)
           /\ ToSet(Append(j, e)) \subseteq ToSet(j) \cup {e}
<1>1. /\ Append(j, e) \in Seq(S)
      /\ Len(Append(j, e)) = Len(j) + 1
      /\ \A i \in 1..Len(j) : Append(j, e)[i] = j[i]
      /\ Append(j, e)[Len(j) + 1] = e
  BY AppendProperties
<1>2. /\ Len(j) \in Nat /\ DOMAIN j = 1..Len(j)
      /\ DOMAIN Append(j, e) = 1..(Len(j) + 1)
  BY <1>1, LenProperties
<1>3. \A i \in 1..(Len(j) + 1) : Append(j, e)[i] \in ToSet(j) \cup {e}
  BY <1>1, <1>2 DEF ToSet
<1> QED
  BY <1>1, <1>2, <1>3 DEF ToSet

(* Without its last line, a file has no other lines.                       *)
LEMMA FrontLines ==
    ASSUME NEW S, NEW j \in Seq(S), j # <<>>
    PROVE  Front(j) \in Seq(S) /\ ToSet(Front(j)) \subseteq ToSet(j)
<1>1. Len(j) \in Nat \ {0} /\ DOMAIN j = 1..Len(j)
  BY LenProperties, EmptySeq
<1>2. \A i \in 1..(Len(j) - 1) : j[i] \in S
  BY <1>1, ElementOfSeq
<1>3. /\ Front(j) \in Seq(S) /\ Len(Front(j)) = Len(j) - 1
      /\ \A i \in 1..(Len(j) - 1) : Front(j)[i] = j[i]
  BY <1>1, <1>2, SubSeqProperties DEF Front
<1>4. DOMAIN Front(j) = 1..(Len(j) - 1)
  BY <1>3, LenProperties
<1> QED
  BY <1>1, <1>3, <1>4 DEF ToSet

LEMMA AppendedLines ==
    ASSUME NEW S, Garbage \in S, NEW j \in Seq(S), NEW e \in S
    PROVE  /\ Appended(j, e) \in Seq(S)
           /\ ToSet(Appended(j, e)) \subseteq ToSet(j) \cup {e, Garbage}
<1>1. CASE j # <<>> /\ Last(j) = Stump
  <2>1. Appended(j, e) = Append(Front(j), Garbage)
    BY <1>1 DEF Appended
  <2>2. Front(j) \in Seq(S) /\ ToSet(Front(j)) \subseteq ToSet(j)
    BY <1>1, FrontLines
  <2> QED
    BY <2>1, <2>2, AppendedElements
<1>2. CASE ~(j # <<>> /\ Last(j) = Stump)
  <2>1. Appended(j, e) = Append(j, e)
    BY <1>2 DEF Appended
  <2> QED
    BY <2>1, AppendedElements
<1> QED
  BY <1>1, <1>2

LEMMA CutShortLines ==
    ASSUME NEW S, Stump \in S, NEW j \in Seq(S)
    PROVE  /\ CutShort(j) \in Seq(S)
           /\ ToSet(CutShort(j)) \subseteq ToSet(j) \cup {Stump}
BY AppendedElements DEF CutShort

(* rotate keeps the last lines.                                            *)
LEMMA RotatedLines ==
    ASSUME NEW S, Garbage \in S, journal \in Seq(S)
    PROVE  /\ Rotated \in Seq(S)
           /\ ToSet(Rotated) \subseteq ToSet(journal) \cup {Garbage}
<1>1. /\ Len(journal) \in Nat /\ DOMAIN journal = 1..Len(journal)
      /\ \A i \in 1..Len(journal) : journal[i] \in S
  BY LenProperties, ElementOfSeq
<1>2. CASE Len(journal) <= MaxJournal
  BY <1>2 DEF Rotated
<1>3. CASE ~(Len(journal) <= MaxJournal)
  <2> DEFINE first == Len(journal) - MaxJournal
             Kept(i) == IF journal[first + i] = Stump THEN Garbage
                        ELSE journal[first + i]
  <2>1. Rotated = [i \in 1..MaxJournal |-> Kept(i)]
    BY <1>3 DEF Rotated
  <2>2. \A i \in 1..MaxJournal : first + i \in 1..Len(journal)
    BY <1>1, <1>3, JournalAssumption
  <2>3. \A i \in 1..MaxJournal :
          journal[first + i] \in S /\ journal[first + i] \in ToSet(journal)
    BY <1>1, <2>2 DEF ToSet
  <2>4. \A i \in 1..MaxJournal :
          Kept(i) \in S /\ Kept(i) \in ToSet(journal) \cup {Garbage}
    BY <2>3
  <2> HIDE DEF Kept
  <2>5. Rotated \in Seq(S)
    BY <2>1, <2>4, JournalAssumption, IsASeq
  <2>6. DOMAIN Rotated = 1..MaxJournal
    BY <2>1
  <2>7. \A i \in 1..MaxJournal : Rotated[i] = Kept(i)
    BY <2>1
  <2> QED
    BY <2>4, <2>5, <2>6, <2>7 DEF ToSet
<1> QED
  BY <1>2, <1>3

LEMMA TailLines ==
    ASSUME NEW S, NEW j \in Seq(S), j # <<>>
    PROVE  /\ Tail(j) \in Seq(S) /\ ToSet(Tail(j)) \subseteq ToSet(j)
           /\ Head(j) \in ToSet(j)
<1>1. /\ Tail(j) \in Seq(S) /\ Len(Tail(j)) = Len(j) - 1
      /\ \A i \in 1..Len(Tail(j)) : Tail(j)[i] = j[i + 1]
  BY HeadTailProperties
<1>2. /\ Len(j) \in Nat \ {0} /\ DOMAIN j = 1..Len(j)
      /\ DOMAIN Tail(j) = 1..(Len(j) - 1)
  BY <1>1, LenProperties, EmptySeq
<1>3. Head(j) = j[1]
  OBVIOUS
<1> QED
  BY <1>1, <1>2, <1>3 DEF ToSet

-----------------------------------------------------------------------------
(* The types.                                                              *)
AnyLine == Lines \cup {Stump, Garbage}

LEMMA StatesAreHashed ==
    ASSUME NEW s \in SystemStates, NEW t \in 0..MaxClock
    PROVE  /\ Compact(s) \in Sums
           /\ Migrated(s) \in SystemStates /\ Migrated(s).ver = Current
           /\ [s EXCEPT !.at = t] \in SystemStates
           /\ [s EXCEPT !.at = t].at = t /\ [s EXCEPT !.at = t].ver = s.ver
           /\ DefaultState(t) \in SystemStates
BY DEF Sums, Compact, Migrated, SystemStates, Versions, Current, DefaultState

LEMMA MarkedLine ==
    ASSUME NEW e \in Lines
    PROVE  /\ [e EXCEPT !.committed = TRUE] \in Lines
           /\ [e EXCEPT !.committed = TRUE].id = e.id
           /\ [e EXCEPT !.committed = TRUE].after = e.after
BY DEF Lines

LEMMA JournalTypeStarts == JournalInit => JournalTypeOK
<1> SUFFICES ASSUME JournalInit PROVE JournalTypeOK
  OBVIOUS
<1>1. 0 \in 0..MaxClock /\ 0 \in 0..MaxLosses
  BY JournalAssumption
<1>2. coreState \in SystemStates \cup {NoState}
  BY <1>1 DEF JournalInit, SystemStates
<1>3. DefaultState(0) \in SystemStates /\ Compact(DefaultState(0)) \in Sums
  <2>1. DefaultState(0) \in SystemStates
    BY <1>1 DEF DefaultState, SystemStates, Versions, Current
  <2> QED
    BY <1>1, <2>1, StatesAreHashed
<1>4. txn \in Lines
  BY <1>1, <1>3 DEF JournalInit, NoTxn, Lines
<1>5. <<>> \in Seq(AnyLine)
  OBVIOUS
<1>6. corrupted \in BOOLEAN /\ rotating \in BOOLEAN
  BY DEF JournalInit
<1> QED
  BY <1>1, <1>2, <1>3, <1>4, <1>5, <1>6
     DEF JournalInit, JournalTypeOK, AnyLine

LEMMA UpdateTypes ==
    ASSUME JournalTypeOK, NEW s \in SystemStates, NEW ok \in BOOLEAN,
           UpdateState(s, ok)
    PROVE  /\ clock' = clock + 1 /\ clock' \in 0..MaxClock
           /\ memory' \in SystemStates
           /\ memory'.at = clock' /\ memory'.ver = s.ver
           /\ coreState' \in {coreState, memory'}
<1>1. clock' = clock + 1 /\ clock' \in 0..MaxClock
  BY JournalAssumption DEF UpdateState, JournalTypeOK
<1>2. memory' = [s EXCEPT !.at = clock'] /\ coreState' \in {coreState, memory'}
  BY DEF UpdateState
<1> QED
  BY <1>1, <1>2, StatesAreHashed

LEMMA JournalTypeKept ==
    ASSUME JournalTypeOK, [JournalNext]_journalvars
    PROVE  JournalTypeOK'
<1>1. CASE Load
  <2>1. clock' \in 0..MaxClock
    BY <1>1, JournalAssumption DEF Load, JournalTypeOK
  <2>2. memory' \in SystemStates
    BY <1>1, <2>1, StatesAreHashed DEF Load, JournalTypeOK
  <2> QED
    BY <1>1, <2>1, <2>2 DEF Load, JournalTypeOK
<1>2. CASE Replay
  BY <1>2 DEF Replay, JournalTypeOK
<1>3. CASE ReplayLine
  <2>1. Tail(todo) \in Seq(AnyLine) /\ Head(todo) \in AnyLine
    BY <1>3, TailLines, HeadTailProperties
       DEF ReplayLine, JournalTypeOK, AnyLine
  <2>2. ASSUME Redone(Head(todo))
        PROVE  [Head(todo) EXCEPT !.committed = TRUE] \in AnyLine
    BY <2>1, <2>2, MarkedLine DEF Redone, Pending, AnyLine
  <2>3. journal' \in Seq(AnyLine)
    <3>1. \/ journal' = journal
          \/ /\ Redone(Head(todo))
             /\ journal' =
                   Appended(journal, [Head(todo) EXCEPT !.committed = TRUE])
      BY <1>3 DEF ReplayLine
    <3>2. journal \in Seq(AnyLine) /\ Garbage \in AnyLine
      BY DEF JournalTypeOK, AnyLine
    <3> QED
      BY <2>2, <3>1, <3>2, AppendedLines
  <2>4. corrupted' \in BOOLEAN
    BY <1>3 DEF ReplayLine, JournalTypeOK
  <2> QED
    BY <1>3, <2>1, <2>3, <2>4 DEF ReplayLine, JournalTypeOK, AnyLine
<1>4. CASE ReplayEnd
  BY <1>4 DEF ReplayEnd, JournalTypeOK
<1>5. CASE MigrateSchema
  <2>1. startup' \in {"safe", "running", "intent"}
    BY <1>5 DEF MigrateSchema, AfterApply
  <2>2. clock' \in 0..MaxClock
    BY <1>5, JournalAssumption DEF MigrateSchema, JournalTypeOK
  <2>3. txn' \in Lines
    <3>1. CASE txn' = txn
      BY <3>1 DEF JournalTypeOK
    <3>2. CASE txn' = [id |-> clock', before |-> Compact(memory),
                 after |-> Compact([Migrated(memory) EXCEPT !.at = clock']),
                 committed |-> FALSE]
      <4>1. /\ Compact(memory) \in Sums
            /\ Compact([Migrated(memory) EXCEPT !.at = clock']) \in Sums
        BY <2>2, StatesAreHashed DEF JournalTypeOK
      <4> QED
        BY <3>2, <4>1, <2>2 DEF Lines
    <3> QED
      BY <1>5, <3>1, <3>2 DEF MigrateSchema
  <2> QED
    BY <1>5, <2>1, <2>2, <2>3 DEF MigrateSchema, JournalTypeOK
<1>6. CASE ApplyIntent
  <2>1. journal' \in Seq(AnyLine)
    BY <1>6, AppendedLines DEF ApplyIntent, JournalTypeOK, AnyLine
  <2>2. startup' \in {"safe", "running", "update"}
    BY <1>6 DEF ApplyIntent, AfterApply
  <2> QED
    BY <1>6, <2>1, <2>2 DEF ApplyIntent, JournalTypeOK, AnyLine
<1>7. CASE ApplyUpdate
  <2>1. PICK ok \in BOOLEAN : /\ UpdateState(Migrated(memory), ok)
                              /\ startup' = AfterUpdate(ok)
    BY <1>7 DEF ApplyUpdate
  <2>2. Migrated(memory) \in SystemStates
    BY JournalAssumption DEF JournalTypeOK, Migrated, SystemStates, Versions,
                             Current
  <2>3. /\ clock' \in 0..MaxClock /\ memory' \in SystemStates
        /\ coreState' \in SystemStates \cup {NoState}
    BY <2>1, <2>2, UpdateTypes DEF JournalTypeOK
  <2>4. startup' \in {"commit", "safe", "running"}
    BY <2>1 DEF AfterUpdate, AfterApply
  <2> QED
    BY <1>7, <2>3, <2>4 DEF ApplyUpdate, JournalTypeOK
<1>8. CASE ApplyCommit
  <2>1. journal' \in Seq(AnyLine)
    BY <1>8, AppendedLines, MarkedLine DEF ApplyCommit, JournalTypeOK, AnyLine
  <2>2. startup' \in {"safe", "running"}
    BY <1>8 DEF ApplyCommit, AfterApply
  <2> QED
    BY <1>8, <2>1, <2>2 DEF ApplyCommit, JournalTypeOK, AnyLine
<1>9. CASE DirectUpdate
  <2>1. /\ clock' \in 0..MaxClock /\ memory' \in SystemStates
        /\ coreState' \in SystemStates \cup {NoState}
    BY <1>9, UpdateTypes DEF DirectUpdate, JournalTypeOK
  <2> QED
    BY <1>9, <2>1 DEF DirectUpdate, JournalTypeOK
<1>10. CASE Rotate
  <2>1. journal' \in Seq(AnyLine)
    BY <1>10, RotatedLines DEF Rotate, JournalTypeOK, AnyLine
  <2> QED
    BY <1>10, <2>1 DEF Rotate, JournalTypeOK, AnyLine
<1>11. CASE PowerLoss
  <2>1. journal' \in Seq(AnyLine)
    BY <1>11, CutShortLines DEF PowerLoss, JournalTypeOK, AnyLine
  <2>2. losses' \in 0..MaxLosses
    BY <1>11, JournalAssumption DEF PowerLoss, JournalTypeOK
  <2>3. <<>> \in Seq(AnyLine)
    OBVIOUS
  <2> QED
    BY <1>11, <2>1, <2>2, <2>3 DEF PowerLoss, JournalTypeOK, AnyLine
<1>12. CASE UNCHANGED journalvars
  BY <1>12 DEF journalvars, JournalTypeOK
<1> QED
  BY <1>1, <1>2, <1>3, <1>4, <1>5, <1>6, <1>7, <1>8, <1>9, <1>10, <1>11,
     <1>12 DEF JournalNext

(* The journal, the state file and what startup holds keep their types:    *)
(* no line is ever anything but an entry, a stump or garbage.              *)
THEOREM JournalTypeCorrect == JournalSpec => []JournalTypeOK
<1>1. JournalInit => JournalTypeOK
  BY JournalTypeStarts
<1>2. JournalTypeOK /\ [JournalNext]_journalvars => JournalTypeOK'
  BY JournalTypeKept
<1> QED
  BY <1>1, <1>2, PTL DEF JournalSpec

-----------------------------------------------------------------------------
(* Why what is committed took effect.  Apply's sums are of one encoding    *)
(* and the file's of another, so that no line read back is ever redone and *)
(* the only commit mark is Apply's own; a migration is under way only      *)
(* while the state file is not current, when nothing is committed yet; and *)
(* the file is current ever after, with an UpdatedAt that only grows.      *)
CommitMarks == {e \in JournalEntries : e.committed}

CompactSums ==
    /\ txn.after[1] = "compact"
    /\ \A e \in JournalEntries : e.after[1] = "compact"
    /\ \A e \in ToSet(todo) \ {Stump, Garbage} : e.after[1] = "compact"

InThePast ==
    /\ coreState # NoState => coreState.at <= clock
    /\ txn.after[2].at <= clock

TxnIsOpen == txn.committed = FALSE

UpToDate == coreState # NoState /\ coreState.ver = Current

MarksTookEffect ==
    /\ \A e \in CommitMarks : UpToDate /\ coreState.at > e.after[2].at
    /\ \A d, e \in CommitMarks : d.id = e.id

(* What Apply has done and has still to do.                                *)
Stages ==
    /\ startup \in {"intent", "update"} => memory.ver # Current
    /\ startup = "commit" =>
          UpToDate /\ coreState.at > txn.after[2].at /\ CommitMarks = {}

(* Once loaded, memory is as current as the file.                          *)
InStep == startup # "load" /\ UpToDate => memory.ver = Current

JournalInv ==
    /\ CompactSums /\ InThePast /\ TxnIsOpen /\ MarksTookEffect /\ Stages
    /\ InStep

(* FileSum is the sum of an indented text, which Apply's never is.         *)
LEMMA NothingToRedo ==
    ASSUME JournalTypeOK, CompactSums, todo # <<>>
    PROVE  ~Redone(Head(todo))
<1>1. Head(todo) \in ToSet(todo)
  BY TailLines DEF JournalTypeOK
<1>2. CASE Head(todo) \in {Stump, Garbage}
  BY <1>2 DEF Redone, Pending
<1>3. CASE Head(todo) \notin {Stump, Garbage}
  <2>1. Head(todo).after[1] = "compact"
    BY <1>1, <1>3 DEF CompactSums
  <2>2. FileSum[1] = "indented"
    BY DEF FileSum, Indented
  <2> QED
    BY <2>1, <2>2 DEF Redone
<1> QED
  BY <1>2, <1>3

(* What a step may add to the entries of the journal.                      *)
LEMMA JournalGrows ==
    ASSUME JournalTypeOK, CompactSums, [JournalNext]_journalvars
    PROVE  \/ JournalEntries' \subseteq JournalEntries
           \/ ApplyIntent /\ JournalEntries' \subseteq JournalEntries \cup {txn}
           \/ /\ ApplyCommit
              /\ JournalEntries' \subseteq
                    JournalEntries \cup {[txn EXCEPT !.committed = TRUE]}
<1> USE DEF JournalEntries
<1>0. /\ journal \in Seq(AnyLine) /\ txn \in AnyLine
      /\ [txn EXCEPT !.committed = TRUE] \in AnyLine
      /\ Stump \in AnyLine /\ Garbage \in AnyLine
  BY MarkedLine DEF JournalTypeOK, AnyLine
<1>1. CASE ReplayLine
  <2>1. ~Redone(Head(todo))
    BY <1>1, NothingToRedo DEF ReplayLine
  <2> QED
    BY <1>1, <2>1 DEF ReplayLine
<1>2. CASE ApplyIntent
  <2>1. journal' \in {journal, Appended(journal, txn)}
    BY <1>2 DEF ApplyIntent
  <2> QED
    BY <1>0, <1>2, <2>1, AppendedLines
<1>3. CASE ApplyCommit
  <2>1. journal' \in
          {journal, Appended(journal, [txn EXCEPT !.committed = TRUE])}
    BY <1>3 DEF ApplyCommit
  <2> QED
    BY ZenonT(40), <1>0, <1>3, <2>1, AppendedLines
<1>4. CASE Rotate
  <2>1. journal' = Rotated
    BY <1>4 DEF Rotate
  <2> QED
    BY <1>0, <2>1, RotatedLines
<1>5. CASE PowerLoss
  <2>1. journal' \in {journal, CutShort(journal)}
    BY <1>5 DEF PowerLoss
  <2> QED
    BY <1>0, <2>1, CutShortLines
<1>6. CASE UNCHANGED journal
  BY <1>6
<1> QED
  BY <1>1, <1>2, <1>3, <1>4, <1>5, <1>6
     DEF JournalNext, Load, Replay, ReplayEnd, MigrateSchema, ApplyUpdate,
         DirectUpdate, journalvars

LEMMA CompactSumsKept ==
    ASSUME JournalTypeOK, CompactSums, [JournalNext]_journalvars
    PROVE  CompactSums'
<1>1. txn'.after[1] = "compact"
  <2>1. CASE txn' = txn
    BY <2>1 DEF CompactSums
  <2>2. CASE txn' = [id |-> clock', before |-> Compact(memory),
                 after |-> Compact([Migrated(memory) EXCEPT !.at = clock']),
                 committed |-> FALSE]
    BY <2>2 DEF Compact
  <2> QED
    BY <2>1, <2>2
       DEF JournalNext, Load, Replay, ReplayLine, ReplayEnd, MigrateSchema,
           ApplyIntent, ApplyUpdate, ApplyCommit, DirectUpdate, Rotate,
           PowerLoss, journalvars
<1>2. \A e \in JournalEntries' : e.after[1] = "compact"
  <2>1. [txn EXCEPT !.committed = TRUE].after = txn.after
    BY MarkedLine DEF JournalTypeOK
  <2> QED
    BY <2>1, JournalGrows DEF CompactSums
<1>3. ToSet(todo') \subseteq ToSet(todo) \cup ToSet(journal)
  <2>1. CASE ReplayLine
    BY <2>1, TailLines DEF ReplayLine, JournalTypeOK
  <2>2. CASE todo' \in {todo, journal}
    BY <2>2
  <2>3. CASE todo' = <<>>
    BY <2>3 DEF ToSet
  <2> QED
    BY <2>1, <2>2, <2>3
       DEF JournalNext, Load, Replay, ReplayEnd, MigrateSchema, ApplyIntent,
           ApplyUpdate, ApplyCommit, DirectUpdate, Rotate, PowerLoss,
           journalvars
<1>4. \A e \in ToSet(todo') \ {Stump, Garbage} : e.after[1] = "compact"
  BY <1>3 DEF CompactSums, JournalEntries
<1> QED
  BY <1>1, <1>2, <1>4 DEF CompactSums

LEMMA JournalLines == JournalTypeOK => JournalEntries \subseteq Lines
<1> SUFFICES ASSUME JournalTypeOK PROVE JournalEntries \subseteq Lines
  OBVIOUS
<1>1. journal \in Seq(AnyLine)
  BY DEF JournalTypeOK, AnyLine
<1>2. \A i \in DOMAIN journal : journal[i] \in AnyLine
  BY <1>1
<1> QED
  BY <1>2 DEF JournalEntries, ToSet, AnyLine

(* The clock, the state file and the version in memory at each step.       *)
LEMMA ClockNeverGoesBack ==
    ASSUME JournalTypeOK, [JournalNext]_journalvars
    PROVE  /\ clock \in Nat /\ clock' \in Nat /\ clock <= clock'
           /\ coreState' # coreState => coreState'.at = clock + 1
           /\ coreState' # coreState => clock' = clock + 1
           /\ coreState' # coreState => coreState' = memory'
<1>0. clock \in Nat /\ memory \in SystemStates
  BY JournalAssumption DEF JournalTypeOK
<1>1. CASE ApplyUpdate \/ DirectUpdate
  <2>1. PICK s \in SystemStates, ok \in BOOLEAN : UpdateState(s, ok)
    <3>1. Migrated(memory) \in SystemStates
      BY <1>0 DEF Migrated, SystemStates, Versions, Current
    <3> QED
      BY <1>0, <1>1, <3>1 DEF ApplyUpdate, DirectUpdate
  <2> QED
    BY <1>0, <2>1, UpdateTypes
<1>2. CASE Load \/ MigrateSchema
  BY <1>0, <1>2 DEF Load, MigrateSchema
<1>3. CASE UNCHANGED <<clock, coreState>>
  BY <1>0, <1>3
<1> QED
  BY <1>1, <1>2, <1>3
     DEF JournalNext, Replay, ReplayLine, ReplayEnd, ApplyIntent, ApplyCommit,
         Rotate, PowerLoss, journalvars

LEMMA InThePastKept ==
    ASSUME JournalTypeOK, InThePast, TxnIsOpen, [JournalNext]_journalvars
    PROVE  InThePast' /\ TxnIsOpen'
<1>0. /\ clock \in Nat /\ clock' \in Nat /\ clock <= clock'
      /\ coreState' # coreState => coreState'.at = clock + 1
      /\ coreState' # coreState => clock' = clock + 1
  BY ClockNeverGoesBack
<1>1. coreState' # NoState => coreState'.at <= clock'
  <2>1. coreState # NoState => coreState.at \in Nat
    BY JournalAssumption DEF JournalTypeOK, SystemStates
  <2>2. CASE coreState' = coreState
    BY <1>0, <2>1, <2>2 DEF InThePast
  <2>3. CASE coreState' # coreState
    BY <1>0, <2>3
  <2> QED
    BY <2>2, <2>3
<1>2. txn'.after[2].at <= clock' /\ txn'.committed = FALSE
  <2>1. CASE txn' = txn
    <3>1. txn.after \in Sums
      BY DEF JournalTypeOK, Lines
    <3>2. txn.after[2].at \in Nat
      BY <3>1, JournalAssumption DEF Sums, SystemStates
    <3> QED
      BY <1>0, <2>1, <3>2 DEF InThePast, TxnIsOpen
  <2>2. CASE MigrateSchema /\ txn' # txn
    <3>1. txn' = [id |-> clock', before |-> Compact(memory),
                 after |-> Compact([Migrated(memory) EXCEPT !.at = clock']),
                 committed |-> FALSE]
      BY <2>2 DEF MigrateSchema
    <3>2. /\ Migrated(memory) \in SystemStates
          /\ txn'.after[2] = [Migrated(memory) EXCEPT !.at = clock']
          /\ txn'.committed = FALSE
      BY <3>1 DEF Compact, JournalTypeOK, Migrated, SystemStates, Versions,
                  Current
    <3>3. txn'.after[2].at = clock'
      BY <3>2 DEF SystemStates
    <3> QED
      BY <1>0, <3>2, <3>3
  <2> QED
    BY <2>1, <2>2
       DEF JournalNext, Load, Replay, ReplayLine, ReplayEnd, ApplyIntent,
           ApplyUpdate, ApplyCommit, DirectUpdate, Rotate, PowerLoss,
           journalvars
<1> QED
  BY <1>1, <1>2 DEF InThePast, TxnIsOpen

(* Only Apply's commit mark is a mark.                                     *)
LEMMA MarksGrow ==
    ASSUME JournalTypeOK, CompactSums, TxnIsOpen, [JournalNext]_journalvars
    PROVE  \/ CommitMarks' \subseteq CommitMarks
           \/ /\ ApplyCommit
              /\ CommitMarks' \subseteq
                CommitMarks \cup {[txn EXCEPT !.committed = TRUE]}
<1>1. ~txn.committed
  BY DEF TxnIsOpen
<1> QED
  BY <1>1, JournalGrows DEF CommitMarks

(* Nothing is committed while the file is not current.                     *)
LEMMA NoMarkBeforeMigration ==
    ASSUME JournalInv, startup \in {"intent", "update"}
    PROVE  ~UpToDate /\ CommitMarks = {}
BY DEF JournalInv, MarksTookEffect, Stages, InStep

LEMMA InStepKept ==
    ASSUME JournalTypeOK, JournalInv, [JournalNext]_journalvars
    PROVE  InStep'
<1> SUFFICES ASSUME startup' # "load", UpToDate'
             PROVE  memory'.ver = Current
  BY DEF InStep
<1>1. CASE Load
  BY <1>1 DEF Load, UpToDate, Current
<1>2. CASE coreState' # coreState
  BY <1>2, ClockNeverGoesBack DEF UpToDate
<1>3. CASE ApplyUpdate
  <2>1. PICK ok \in BOOLEAN : UpdateState(Migrated(memory), ok)
    BY <1>3 DEF ApplyUpdate
  <2>2. memory \in SystemStates
    BY DEF JournalTypeOK
  <2>3. Migrated(memory) \in SystemStates /\ Migrated(memory).ver = Current
    BY <2>2 DEF Migrated, SystemStates, Versions, Current
  <2> QED
    BY <2>1, <2>3, UpdateTypes
<1>4. CASE DirectUpdate /\ coreState' = coreState
  <2>1. PICK ok \in BOOLEAN : UpdateState(memory, ok)
    BY <1>4 DEF DirectUpdate
  <2>2. memory \in SystemStates
    BY DEF JournalTypeOK
  <2>3. memory'.ver = memory.ver
    BY <2>1, <2>2, UpdateTypes
  <2>4. memory.ver = Current
    BY <1>4 DEF DirectUpdate, JournalInv, InStep, UpToDate
  <2> QED
    BY <2>3, <2>4
<1>5. CASE startup # "load" /\ UNCHANGED <<memory, coreState>>
  BY <1>5 DEF JournalInv, InStep, UpToDate
<1>6. CASE UNCHANGED journalvars
  BY <1>6 DEF journalvars, JournalInv, InStep, UpToDate
<1>7. CASE Rotate
  BY <1>7 DEF Rotate, JournalInv, InStep, UpToDate
<1> QED
  BY <1>1, <1>2, <1>3, <1>4, <1>5, <1>6, <1>7
     DEF JournalNext, Replay, ReplayLine, ReplayEnd, MigrateSchema,
         ApplyIntent, ApplyCommit, PowerLoss

LEMMA StagesKept ==
    ASSUME JournalTypeOK, JournalInv, [JournalNext]_journalvars
    PROVE  Stages'
<1>1. CASE MigrateSchema
  <2>1. startup' = "intent" => memory'.ver # Current
    BY <1>1 DEF MigrateSchema, NeedsMigration, AfterApply
  <2>2. startup' \in {"intent", "safe", "running"}
    BY <1>1 DEF MigrateSchema, AfterApply
  <2> QED
    BY <2>1, <2>2 DEF Stages
<1>2. CASE ApplyIntent
  <2>1. startup = "intent" /\ UNCHANGED memory
    BY <1>2 DEF ApplyIntent
  <2>2. startup' \in {"update", "safe", "running"}
    BY <1>2 DEF ApplyIntent, AfterApply
  <2> QED
    BY <2>1, <2>2 DEF JournalInv, Stages
<1>3. CASE ApplyUpdate
  <2>1. PICK ok \in BOOLEAN : /\ UpdateState(Migrated(memory), ok)
                              /\ startup' = AfterUpdate(ok)
    BY <1>3 DEF ApplyUpdate
  <2>2. CASE ok = FALSE
    BY <2>1, <2>2 DEF AfterUpdate, AfterApply, Stages
  <2>3. CASE ok = TRUE
    <3>1. Migrated(memory) \in SystemStates /\ Migrated(memory).ver = Current
      BY DEF JournalTypeOK, Migrated, SystemStates, Versions, Current
    <3>2. /\ coreState' = memory' /\ memory' \in SystemStates
          /\ memory'.at = clock + 1 /\ memory'.ver = Current
      BY <2>1, <2>3, <3>1, UpdateTypes DEF UpdateState
    <3>3. UpToDate'
      BY <3>2, JournalAssumption DEF UpToDate
    <3>4. CommitMarks = {} /\ UNCHANGED <<journal, txn>>
      BY <1>3, NoMarkBeforeMigration DEF ApplyUpdate
    <3>5. CommitMarks' = {}
      BY <3>4 DEF CommitMarks, JournalEntries
    <3>6. txn.after[2].at \in Nat /\ clock \in Nat
      <4>1. txn.after \in Sums
        BY DEF JournalTypeOK, Lines
      <4> QED
        BY <4>1, JournalAssumption DEF JournalTypeOK, Sums, SystemStates
    <3>7. coreState'.at > txn'.after[2].at
      BY <3>2, <3>4, <3>6 DEF JournalInv, InThePast
    <3>8. startup' = "commit"
      BY <2>1, <2>3 DEF AfterUpdate
    <3> QED
      BY <3>3, <3>5, <3>7, <3>8 DEF Stages
  <2> QED
    BY <2>2, <2>3
<1>4. CASE ApplyCommit
  BY <1>4 DEF ApplyCommit, AfterApply, Stages
<1>5. CASE DirectUpdate
  BY <1>5 DEF DirectUpdate, Stages
<1>6. CASE Load \/ Replay \/ PowerLoss
  BY <1>6 DEF Load, Replay, PowerLoss, Stages
<1>7. CASE ReplayLine \/ ReplayEnd
  BY <1>7 DEF ReplayLine, ReplayEnd, Stages
<1>8. CASE Rotate \/ UNCHANGED journalvars
  <2>1. UNCHANGED <<startup, memory, coreState, txn>>
    BY <1>8 DEF Rotate, journalvars
  <2>2. CommitMarks' \subseteq CommitMarks
    <3>1. ~ApplyCommit
      BY <2>1 DEF ApplyCommit, AfterApply
    <3> QED
      BY <3>1, MarksGrow DEF JournalInv
  <2> QED
    BY <2>1, <2>2 DEF JournalInv, Stages, UpToDate
<1> QED
  BY <1>1, <1>2, <1>3, <1>4, <1>5, <1>6, <1>7, <1>8 DEF JournalNext

LEMMA MarksTookEffectKept ==
    ASSUME JournalTypeOK, JournalInv, [JournalNext]_journalvars
    PROVE  MarksTookEffect'
<1>0. \/ CommitMarks' \subseteq CommitMarks
      \/ /\ ApplyCommit
         /\ CommitMarks' \subseteq CommitMarks \cup {[txn EXCEPT !.committed = TRUE]}
  BY MarksGrow DEF JournalInv
<1>1. CASE ApplyCommit
  <2>1. /\ startup = "commit" /\ UNCHANGED coreState
    BY <1>1 DEF ApplyCommit
  <2>2. CommitMarks = {} /\ UpToDate /\ coreState.at > txn.after[2].at
    BY <2>1 DEF JournalInv, Stages
  <2>3. [txn EXCEPT !.committed = TRUE].after = txn.after
    BY MarkedLine DEF JournalTypeOK
  <2>4. \A e \in CommitMarks' : e = [txn EXCEPT !.committed = TRUE]
    BY <1>0, <2>2
  <2> QED
    BY <2>1, <2>2, <2>3, <2>4 DEF MarksTookEffect, UpToDate
<1>2. CASE ~ApplyCommit /\ coreState' = coreState
  BY <1>0, <1>2 DEF JournalInv, MarksTookEffect, UpToDate
<1>3. CASE ~ApplyCommit /\ coreState' # coreState
  <2>1. CommitMarks' \subseteq CommitMarks
    BY <1>0, <1>3
  <2>2. CASE ApplyUpdate
    <3>1. CommitMarks = {}
      BY <2>2, NoMarkBeforeMigration DEF ApplyUpdate
    <3> QED
      BY <2>1, <3>1 DEF MarksTookEffect
  <2>3. CASE DirectUpdate
    <3>1. SUFFICES ASSUME NEW e \in CommitMarks
                   PROVE  UpToDate' /\ coreState'.at > e.after[2].at
      BY <2>1 DEF JournalInv, MarksTookEffect
    <3>2. UpToDate /\ coreState.at > e.after[2].at /\ coreState.at <= clock
      BY <3>1 DEF JournalInv, MarksTookEffect, InThePast, UpToDate
    <3>3. startup # "load" /\ memory.ver = Current
      BY <2>3, <3>2 DEF DirectUpdate, JournalInv, InStep
    <3>4. memory \in SystemStates /\ clock \in Nat
      BY JournalAssumption DEF JournalTypeOK
    <3>5. /\ coreState' = memory' /\ memory' \in SystemStates
          /\ memory'.at = clock + 1 /\ memory'.ver = Current
      BY <1>3, <2>3, <3>3, <3>4, UpdateTypes DEF DirectUpdate
    <3>6. e.after[2].at \in Nat /\ coreState.at \in Nat
      <4>1. e \in Lines
        BY <3>1, JournalLines DEF CommitMarks
      <4>2. e.after \in Sums
        BY <4>1 DEF Lines
      <4>3. coreState \in SystemStates
        BY <3>2 DEF JournalTypeOK, UpToDate
      <4> QED
        BY <4>2, <4>3, JournalAssumption DEF Sums, SystemStates
    <3> QED
      BY <3>2, <3>4, <3>5, <3>6, JournalAssumption DEF UpToDate
  <2>4. ApplyUpdate \/ DirectUpdate
    BY <1>3 DEF JournalNext, Load, Replay, ReplayLine, ReplayEnd,
                MigrateSchema, ApplyIntent, Rotate, PowerLoss, journalvars
  <2> QED
    BY <2>2, <2>3, <2>4
<1> QED
  BY <1>1, <1>2, <1>3

LEMMA JournalInvStarts == JournalInit => JournalInv
<1> SUFFICES ASSUME JournalInit PROVE JournalInv
  OBVIOUS
<1>1. JournalEntries = {} /\ CommitMarks = {} /\ ToSet(todo) = {}
  BY DEF JournalInit, JournalEntries, CommitMarks, ToSet
<1>2. txn.after = <<"compact", DefaultState(0)>> /\ txn.committed = FALSE
  BY DEF JournalInit, NoTxn, Compact
<1>3. txn.after[1] = "compact" /\ txn.after[2].at = 0
  BY <1>2 DEF DefaultState
<1>4. clock = 0 /\ startup = "load"
  BY DEF JournalInit
<1>5. coreState # NoState => coreState.at = 0
  BY DEF JournalInit
<1> QED
  BY <1>1, <1>2, <1>3, <1>4, <1>5
     DEF JournalInv, CompactSums, InThePast, TxnIsOpen, MarksTookEffect,
         Stages, InStep

THEOREM JournalInvariant == JournalSpec => []JournalInv
<1>1. JournalInit => JournalInv
  BY JournalInvStarts
<1>2. JournalTypeOK /\ JournalInv /\ [JournalNext]_journalvars => JournalInv'
  <2> SUFFICES ASSUME JournalTypeOK, JournalInv, [JournalNext]_journalvars
               PROVE  JournalInv'
    OBVIOUS
  <2>1. CompactSums'
    BY CompactSumsKept DEF JournalInv
  <2>2. InThePast' /\ TxnIsOpen'
    BY InThePastKept DEF JournalInv
  <2>3. MarksTookEffect' /\ Stages' /\ InStep'
    BY MarksTookEffectKept, StagesKept, InStepKept
  <2> QED
    BY <2>1, <2>2, <2>3 DEF JournalInv
<1> QED
  BY <1>1, <1>2, JournalTypeCorrect, PTL DEF JournalSpec

(* transaction_manager.go writes the mark after the state file: whatever   *)
(* power losses cut short and rotate drops, what the journal calls         *)
(* committed is in the file, and it is one transaction.                    *)
THEOREM CommittedIsInTheFile == JournalSpec => []CommittedTookEffect
<1>1. JournalInv => CommittedTookEffect
  BY DEF JournalInv, MarksTookEffect, UpToDate, CommitMarks, CommittedTookEffect
<1> QED
  BY <1>1, JournalInvariant, PTL

(* ReplayJournal marks a transaction whose result it finds in the file as  *)
(* committed; it never finds one, however the machine loses power: Apply   *)
(* has hashed another encoding than the file's.                            *)
NothingIsRedone == todo # <<>> => ~Redone(Head(todo))

THEOREM ReplayRedoesNothing == JournalSpec => []NothingIsRedone
<1>1. JournalTypeOK /\ JournalInv => NothingIsRedone
  BY NothingToRedo DEF JournalInv, NothingIsRedone
<1> QED
  BY <1>1, JournalTypeCorrect, JournalInvariant, PTL

-----------------------------------------------------------------------------
(* The wizard of the first boot.                                           *)

(* What is needed of the types.                                            *)
WizardTyped ==
    /\ mem \in States
    /\ stateFile \in {NoFile} \cup States
    /\ job \in [Requests -> {NoRequest} \cup Jobs]
    /\ {running, vault, swap, acked} \subseteq BOOLEAN
    /\ badWrites \in Nat

(* Nobody is at work in a wizard that is gone.                             *)
GoneIsIdle == ~running => \A r \in Requests : job[r] = NoRequest

(* There is a vault once one is recorded, and when one is about to be; on  *)
(* a machine with swap anything may be recorded.                           *)
Made == vault \/ swap

RecordsMade ==
    /\ mem.vaultInitialized => Made
    /\ stateFile # NoFile => (stateFile.vaultInitialized => Made)
    /\ \A r \in Requests :
          job[r].name = "vault" =>
              /\ job[r].at # "warn"
              /\ job[r].at = "record" => Made

WizardInv == WizardTyped /\ GoneIsIdle /\ RecordsMade /\ CompletionLasts

LEMMA TheSteps ==
    /\ StepNames = {"welcome", "vault", "firewall", "threat", "gaming",
                    "verify"}
    /\ \A n : NextStep(n) \in StepNames
<1>1. Len(AllSteps) = 6
  BY DEF AllSteps
<1>2. \A i \in 1..6 : AllSteps[i] \in StepNames
  BY <1>1 DEF StepNames
<1>3. StepNames = {"welcome", "vault", "firewall", "threat", "gaming", "verify"}
  BY <1>1 DEF StepNames, AllSteps
<1>4. ASSUME NEW n PROVE NextStep(n) \in StepNames
  <2>1. CASE \E i \in 1..(Len(AllSteps) - 1) : AllSteps[i] = n
    <3> DEFINE j == CHOOSE i \in 1..(Len(AllSteps) - 1) : AllSteps[i] = n
    <3>1. j \in 1..5
      BY <1>1, <2>1
    <3>2. NextStep(n) = AllSteps[1 + j]
      BY <2>1 DEF NextStep
    <3> HIDE DEF j
    <3> QED
      BY <1>2, <3>1, <3>2
  <2>2. CASE ~\E i \in 1..(Len(AllSteps) - 1) : AllSteps[i] = n
    BY <1>3, <2>2 DEF NextStep
  <2> QED
    BY <2>1, <2>2
<1> QED
  BY <1>3, <1>4

LEMMA FreshType ==
    Fresh \in States /\ ~Fresh.completed /\ ~Fresh.vaultInitialized
BY TheSteps DEF Fresh, States

(* An update keeps what memory says of the vault and of the end, or adds.  *)
LEMMA UpdateKeeps ==
    ASSUME WizardInv, running, UNCHANGED <<running, vault, swap, acked>>,
           NEW new \in States, Update(new),
           mem.completed => new.completed,
           new.vaultInitialized => Made
    PROVE  /\ mem' \in States /\ stateFile' \in {NoFile} \cup States
           /\ badWrites' \in Nat
           /\ mem'.vaultInitialized => Made'
           /\ stateFile' # NoFile => (stateFile'.vaultInitialized => Made')
           /\ CompletionLasts'
<1>1. mem' = new /\ stateFile' \in {new, stateFile} /\ badWrites' \in Nat
  BY DEF Update, Persist, WizardInv, WizardTyped
<1>2. new # NoFile
  BY WizardAssumption
<1>3. Made' = Made
  BY DEF Made
<1>4. CompletionLasts'
  BY <1>1, <1>2 DEF WizardInv, CompletionLasts
<1> QED
  BY <1>1, <1>3, <1>4 DEF WizardInv, WizardTyped, RecordsMade

(* Where a handler that is at work can be.                                 *)
Places == {"run", "warn", "warn to mark", "record", "mark"}

(* A job that was not there, or at another place, is typed.                *)
LEMMA JobMoves ==
    ASSUME WizardTyped, NEW r \in Requests,
           NEW from \in Places, NEW to \in Places, Moves(r, from, to)
    PROVE  /\ job' \in [Requests -> {NoRequest} \cup Jobs]
           /\ job[r].at = from /\ job'[r].at = to /\ job'[r].name = job[r].name
           /\ \A q \in Requests \ {r} : job'[q] = job[q]
           /\ job[r] # NoRequest
<1>1. job[r] \in Jobs /\ job[r].at = from
  <2>1. job[r] \in {NoRequest} \cup Jobs /\ job[r].at = from
    BY DEF WizardTyped, Moves
  <2>2. NoRequest.at = "idle"
    BY DEF NoRequest
  <2> QED
    BY <2>1, <2>2 DEF Places
<1>2. job' = [job EXCEPT ![r] = [job[r] EXCEPT !.at = to]]
  BY DEF Moves
<1>3. /\ [job[r] EXCEPT !.at = to] \in Jobs
      /\ [job[r] EXCEPT !.at = to].at = to
      /\ [job[r] EXCEPT !.at = to].name = job[r].name
  BY <1>1 DEF Jobs, Places
<1>4. job[r] # NoRequest
  <2>1. job[r].at # "idle"
    BY <1>1 DEF Jobs
  <2> QED
    BY <2>1 DEF NoRequest
<1> QED
  BY <1>1, <1>2, <1>3, <1>4 DEF WizardTyped

LEMMA JobEnds ==
    ASSUME WizardTyped, NEW r \in Requests, NEW from, Ends(r, from),
           from # "idle"
    PROVE  /\ job' \in [Requests -> {NoRequest} \cup Jobs]
           /\ job'[r] = NoRequest /\ job[r] # NoRequest /\ job[r].at = from
           /\ \A q \in Requests \ {r} : job'[q] = job[q]
<1>1. job[r] # NoRequest
  BY DEF Ends, NoRequest
<1> QED
  BY <1>1 DEF Ends, WizardTyped

(* A handler that begins, at a step that is none of recording.             *)
LEMMA ServeKeeps ==
    ASSUME WizardInv, NEW r \in Requests, NEW n \in StepNames,
           NEW to \in {"run", "warn to mark", "mark"}, Serve(r, n, to),
           UNCHANGED <<running, mem, stateFile, vault, swap, acked, badWrites>>
    PROVE  WizardInv'
<1> DEFINE j == [at |-> to, name |-> n]
<1>1. running /\ job' = [job EXCEPT ![r] = j]
  BY DEF Serve, Arrives
<1>2. j \in Jobs /\ j.at = to
  BY DEF Jobs
<1> HIDE DEF j
<1>3. /\ job' \in [Requests -> {NoRequest} \cup Jobs] /\ job'[r] = j
      /\ \A q \in Requests \ {r} : job'[q] = job[q]
  BY <1>1, <1>2 DEF WizardInv, WizardTyped
<1>4. WizardTyped' /\ GoneIsIdle'
  BY <1>1, <1>3 DEF WizardInv, WizardTyped, GoneIsIdle
<1>5. RecordsMade'
  BY <1>2, <1>3 DEF WizardInv, RecordsMade, Made
<1>6. CompletionLasts'
  BY DEF WizardInv, CompletionLasts
<1> QED
  BY <1>4, <1>5, <1>6 DEF WizardInv

(* The wizard is gone, with its handlers and its memory.                   *)
LEMMA ExitKeeps ==
    ASSUME WizardInv, NEW released \in BOOLEAN, Exits(released),
           stateFile' \in {stateFile, mem}, badWrites' \in Nat
    PROVE  WizardInv'
<1>1. /\ running /\ ~running' /\ running' \in BOOLEAN /\ mem' = Fresh
      /\ \A r \in Requests : job'[r] = NoRequest
      /\ job' \in [Requests -> {NoRequest} \cup Jobs]
      /\ UNCHANGED <<vault, swap, acked>>
  BY DEF Exits
<1>2. WizardTyped'
  BY <1>1, FreshType DEF WizardInv, WizardTyped
<1>3. GoneIsIdle'
  BY <1>1 DEF GoneIsIdle
<1>4. RecordsMade'
  BY <1>1, FreshType DEF WizardInv, RecordsMade, Made, NoRequest
<1>5. CompletionLasts'
  <2>1. mem # NoFile
    BY WizardAssumption DEF WizardInv, WizardTyped
  <2> QED
    BY <1>1, <2>1 DEF WizardInv, CompletionLasts
<1> QED
  BY <1>2, <1>3, <1>4, <1>5 DEF WizardInv

-----------------------------------------------------------------------------
(* The steps.                                                              *)

(* A handler that goes on, having written what it records of the vault.    *)
LEMMA WriteKeeps ==
    ASSUME WizardInv, NEW r \in Requests, job[r] # NoRequest,
           NEW new \in States, Update(new),
           mem.completed => new.completed,
           new.vaultInitialized => Made,
           UNCHANGED <<running, vault, swap, acked>>,
           job' \in [Requests -> {NoRequest} \cup Jobs],
           \A q \in Requests \ {r} : job'[q] = job[q],
           job'[r].name = "vault" =>
              job'[r].at # "warn" /\ (job'[r].at = "record" => Made)
    PROVE  WizardInv'
<1>1. running
  BY DEF WizardInv, GoneIsIdle
<1>2. /\ mem' \in States /\ stateFile' \in {NoFile} \cup States
      /\ badWrites' \in Nat
      /\ mem'.vaultInitialized => Made'
      /\ stateFile' # NoFile => (stateFile'.vaultInitialized => Made')
      /\ CompletionLasts'
  BY <1>1, UpdateKeeps
<1>3. WizardTyped' /\ GoneIsIdle'
  BY <1>1, <1>2 DEF WizardInv, WizardTyped, GoneIsIdle
<1>4. RecordsMade'
  BY <1>2 DEF WizardInv, RecordsMade, Made
<1> QED
  BY <1>2, <1>3, <1>4 DEF WizardInv

LEMMA RunsKeep ==
    ASSUME WizardInv, NEW r \in Requests, Runs(r)
    PROVE  WizardInv'
<1>0. /\ job[r].at = "run"
      /\ UNCHANGED <<running, mem, stateFile, swap, acked, badWrites>>
  BY DEF Runs
<1>1. job[r] # NoRequest
  BY <1>0 DEF NoRequest
<1>2. running
  BY <1>1 DEF WizardInv, GoneIsIdle
<1>3. CompletionLasts'
  BY <1>0 DEF WizardInv, CompletionLasts
<1>4. CASE Moves(r, "run", "record")
  <2>1. /\ job' \in [Requests -> {NoRequest} \cup Jobs]
        /\ job'[r].at = "record" /\ job'[r].name = job[r].name
        /\ \A q \in Requests \ {r} : job'[q] = job[q]
    BY <1>4, JobMoves DEF WizardInv, Places
  <2>2. vault' \in BOOLEAN /\ (vault => vault')
    BY DEF Runs, VaultMade, OtherRuns, WizardInv, WizardTyped
  <2>3. job[r].name = "vault" => vault' \/ swap
    BY <1>4, JobEnds, <2>1, <2>2
       DEF Runs, VaultMade, Ends, WizardInv, WizardTyped, NoRequest
  <2>4. WizardTyped' /\ GoneIsIdle'
    BY <1>0, <1>2, <2>1, <2>2 DEF WizardInv, WizardTyped, GoneIsIdle
  <2>5. RecordsMade'
    BY <1>0, <2>1, <2>2, <2>3 DEF WizardInv, RecordsMade, Made
  <2> QED
    BY <1>3, <2>4, <2>5 DEF WizardInv
<1>5. CASE /\ job[r].name \in {"firewall", "gaming"}
           /\ Moves(r, "run", "warn") /\ UNCHANGED vault
  <2>1. /\ job' \in [Requests -> {NoRequest} \cup Jobs]
        /\ job'[r].at = "warn" /\ job'[r].name = job[r].name
        /\ \A q \in Requests \ {r} : job'[q] = job[q]
    BY <1>5, JobMoves DEF WizardInv, Places
  <2>2. WizardTyped' /\ GoneIsIdle'
    BY <1>0, <1>2, <1>5, <2>1 DEF WizardInv, WizardTyped, GoneIsIdle
  <2>3. RecordsMade'
    BY <1>0, <1>5, <2>1 DEF WizardInv, RecordsMade, Made
  <2> QED
    BY <1>3, <2>2, <2>3 DEF WizardInv
<1>6. CASE Ends(r, "run") /\ UNCHANGED vault
  <2>1. /\ job' \in [Requests -> {NoRequest} \cup Jobs]
        /\ job'[r] = NoRequest /\ \A q \in Requests \ {r} : job'[q] = job[q]
    BY <1>6, JobEnds DEF WizardInv
  <2>2. WizardTyped' /\ GoneIsIdle'
    BY <1>0, <1>2, <1>6, <2>1 DEF WizardInv, WizardTyped, GoneIsIdle
  <2>3. RecordsMade'
    BY <1>0, <1>6, <2>1 DEF WizardInv, RecordsMade, Made, NoRequest
  <2> QED
    BY <1>3, <2>2, <2>3 DEF WizardInv
<1> QED
  BY <1>4, <1>5, <1>6 DEF Runs, VaultMade, OtherRuns

LEMMA HandlesKeep ==
    ASSUME WizardInv, NEW r \in Requests, Handles(r)
    PROVE  WizardInv'
<1>0. mem \in States
  BY DEF WizardInv, WizardTyped
<1>1. CASE StepWelcome(r)
  BY <1>1, ServeKeeps, TheSteps DEF StepWelcome
<1>2. ASSUME NEW n \in StepNames, StepChoosing(r, n) PROVE WizardInv'
  BY <1>2, ServeKeeps DEF StepChoosing
<1>3. ASSUME NEW n \in StepNames, Skip(r, n) PROVE WizardInv'
  BY <1>3, ServeKeeps DEF Skip
<1>4. CASE Runs(r)
  BY <1>4, RunsKeep
<1>5. CASE Warns(r)
  <2>1. Update(mem) /\ UNCHANGED <<running, vault, swap, acked>>
    BY <1>5 DEF Warns, AddWarning
  <2>2. /\ job' \in [Requests -> {NoRequest} \cup Jobs]
        /\ \A q \in Requests \ {r} : job'[q] = job[q]
        /\ job[r] # NoRequest
        /\ job'[r].at \in {"record", "mark"}
        /\ job'[r].at = "record" => job[r].at = "warn"
        /\ job'[r].name = job[r].name
    <3>1. CASE Moves(r, "warn", "record")
      BY <3>1, JobMoves DEF WizardInv, Places
    <3>2. CASE Moves(r, "warn to mark", "mark")
      BY <3>2, JobMoves DEF WizardInv, Places
    <3> QED
      BY <1>5, <3>1, <3>2 DEF Warns
  <2>3. mem.vaultInitialized => Made
    BY DEF WizardInv, RecordsMade
  <2>4. job[r].name = "vault" => job[r].at # "warn"
    BY DEF WizardInv, RecordsMade
  <2> QED
    BY <1>0, <2>1, <2>2, <2>3, <2>4, WriteKeeps
<1>6. CASE Records(r)
  <2> DEFINE new == [mem EXCEPT !.vaultInitialized = @ \/ job[r].name = "vault"]
  <2>1. Update(new) /\ UNCHANGED <<running, vault, swap, acked>>
    BY <1>6 DEF Records
  <2>2. /\ job' \in [Requests -> {NoRequest} \cup Jobs]
        /\ \A q \in Requests \ {r} : job'[q] = job[q]
        /\ job[r] # NoRequest /\ job[r].at = "record" /\ job'[r].at = "mark"
    BY <1>6, JobMoves DEF Records, WizardInv, Places
  <2>3. new \in States /\ new.completed = mem.completed
    BY <1>0 DEF States
  <2>4. new.vaultInitialized => mem.vaultInitialized \/ job[r].name = "vault"
    BY <1>0 DEF States
  <2>5. new.vaultInitialized => Made
    BY <2>2, <2>4 DEF WizardInv, RecordsMade
  <2> HIDE DEF new
  <2> QED
    BY <2>1, <2>2, <2>3, <2>5, WriteKeeps
<1>7. CASE Marks(r)
  <2> DEFINE new == Marked(job[r].name)
  <2>1. Update(new) /\ UNCHANGED <<running, vault, swap, acked>>
    BY <1>7 DEF Marks, MarkStepComplete
  <2>2. /\ job' \in [Requests -> {NoRequest} \cup Jobs]
        /\ \A q \in Requests \ {r} : job'[q] = job[q]
        /\ job[r] # NoRequest /\ job'[r] = NoRequest /\ job[r].at = "mark"
    BY <1>7, JobEnds DEF Marks, WizardInv
  <2>3. job[r].name \in StepNames
    BY <2>2 DEF WizardInv, WizardTyped, Jobs
  <2>4. /\ new \in States /\ new.completed = mem.completed
        /\ new.vaultInitialized = mem.vaultInitialized
    BY <1>0, <2>3, TheSteps DEF States, Marked
  <2>5. new.vaultInitialized => Made
    BY <2>4 DEF WizardInv, RecordsMade
  <2>6. job'[r].name # "vault"
    BY <2>2 DEF NoRequest
  <2> HIDE DEF new
  <2> QED
    BY <2>1, <2>2, <2>4, <2>5, <2>6, WriteKeeps
<1>8. CASE Complete(r)
  <2> DEFINE new == [mem EXCEPT !.completed = TRUE, !.cur = "verify"]
  <2>1. /\ running /\ mem' = new /\ Persist(new)
        /\ UNCHANGED <<running, vault, swap, job>>
        /\ acked' = (acked \/ SaysDone)
    BY <1>8 DEF Complete, Arrives, Update
  <2>2. /\ new \in States /\ new.completed
        /\ new.vaultInitialized = mem.vaultInitialized
    BY <1>0, TheSteps DEF States
  <2>3. new # NoFile
    BY <2>2, WizardAssumption
  <2> HIDE DEF new
  <2>4. /\ stateFile' \in {new, stateFile} /\ badWrites' \in Nat
        /\ SaysDone => stateFile' = new
    BY <2>1 DEF Persist, SaysDone, WizardInv, WizardTyped
  <2>5. WizardTyped'
    BY <2>1, <2>2, <2>4 DEF WizardInv, WizardTyped
  <2>6. GoneIsIdle'
    BY <2>1 DEF GoneIsIdle
  <2>7. RecordsMade'
    BY <2>1, <2>2, <2>3, <2>4 DEF WizardInv, RecordsMade, Made
  <2>8. CompletionLasts'
    BY <2>1, <2>2, <2>3, <2>4 DEF WizardInv, CompletionLasts
  <2> QED
    BY <2>5, <2>6, <2>7, <2>8 DEF WizardInv
<1> QED
  BY <1>1, <1>2, <1>3, <1>4, <1>5, <1>6, <1>7, <1>8 DEF Handles

(* A wizard that starts serves only a state that is not completed.         *)
LEMMA StartKeeps ==
    ASSUME WizardInv, NEW by, WizardStarts(by)
    PROVE  WizardInv'
<1>1. ~running /\ UNCHANGED <<stateFile, vault, swap, job, acked, badWrites>>
  BY DEF WizardStarts
<1>2. CASE mem' = LoadedState /\ ~mem'.completed /\ running' = TRUE
  <2>1. /\ LoadedState \in States
        /\ LoadedState.vaultInitialized =>
              stateFile # NoFile /\ stateFile.vaultInitialized
        /\ stateFile # NoFile => LoadedState.completed = stateFile.completed
    BY FreshType DEF LoadedState, WizardInv, WizardTyped
  <2>2. WizardTyped'
    BY <1>1, <1>2, <2>1 DEF WizardInv, WizardTyped
  <2>3. GoneIsIdle'
    BY <1>2 DEF GoneIsIdle
  <2>4. RecordsMade'
    BY <1>1, <1>2, <2>1 DEF WizardInv, RecordsMade, Made
  <2>5. CompletionLasts'
    BY <1>1, <1>2, <2>1 DEF WizardInv, CompletionLasts
  <2> QED
    BY <2>2, <2>3, <2>4, <2>5 DEF WizardInv
<1>3. CASE UNCHANGED <<mem, running>>
  BY <1>1, <1>3
     DEF WizardInv, WizardTyped, GoneIsIdle, RecordsMade, Made, CompletionLasts
<1> QED
  BY <1>2, <1>3 DEF WizardStarts

LEMMA WizardKeeps ==
    ASSUME WizardInv, [WizardNext]_wizardvars
    PROVE  WizardInv'
<1>1. ASSUME NEW r \in Requests, Handles(r) PROVE WizardInv'
  BY <1>1, HandlesKeep
<1>2. ASSUME NEW by, WizardStarts(by) PROVE WizardInv'
  BY <1>2, StartKeeps
<1>3. CASE WizardStops
  BY <1>3, ExitKeeps DEF WizardStops, WizardInv, WizardTyped
<1>4. CASE SessionTimeout
  <2>1. stateFile' \in {stateFile, mem} /\ badWrites' \in Nat
    BY <1>4 DEF SessionTimeout, Persist, WizardInv, WizardTyped
  <2> QED
    BY <1>4, <2>1, ExitKeeps DEF SessionTimeout
<1>5. CASE DisableUnit
  BY <1>5, ExitKeeps DEF DisableUnit, WizardInv, WizardTyped
<1>6. CASE WizardDies
  BY <1>6, ExitKeeps DEF WizardDies, WizardInv, WizardTyped
<1>7. CASE UNCHANGED wizardvars
  BY <1>7
     DEF wizardvars, WizardInv, WizardTyped, GoneIsIdle, RecordsMade, Made,
         CompletionLasts
<1> QED
  BY <1>1, <1>2, <1>3, <1>4, <1>5, <1>6, <1>7 DEF WizardNext

LEMMA WizardInvariant == WizardSpec => []WizardInv
<1>1. WizardInit => WizardInv
  <2> SUFFICES ASSUME WizardInit PROVE WizardInv
    OBVIOUS
  <2>1. WizardTyped
    BY FreshType DEF WizardInit, WizardTyped
  <2>2. GoneIsIdle /\ CompletionLasts
    BY DEF WizardInit, GoneIsIdle, CompletionLasts
  <2>3. RecordsMade
    BY FreshType DEF WizardInit, RecordsMade, NoRequest
  <2> QED
    BY <2>1, <2>2, <2>3 DEF WizardInv
<1>2. WizardInv /\ [WizardNext]_wizardvars => WizardInv'
  BY WizardKeeps
<1> QED
  BY <1>1, <1>2, PTL DEF WizardSpec

(* What the invariant leaves out of the types: the unit, the lock file and *)
(* the bounds.                                                             *)
WizardBounds ==
    /\ {pidfile, enabled, disabling} \subseteq BOOLEAN
    /\ requests \in 0..MaxRequests
    /\ badWrites \in 0..MaxBadWrites /\ kills \in 0..MaxKills

LEMMA PersistKeepsBounds ==
    ASSUME WizardBounds, NEW new, Persist(new)
    PROVE  badWrites' \in 0..MaxBadWrites
BY WizardAssumption DEF WizardBounds, Persist

LEMMA HandlesKeepBounds ==
    ASSUME WizardBounds, WizardTyped, NEW r \in Requests, Handles(r)
    PROVE  WizardBounds'
<1> USE WizardAssumption DEF WizardBounds
<1>1. ASSUME NEW n, NEW to, Serve(r, n, to),
             UNCHANGED <<pidfile, enabled, disabling, badWrites, kills>>
      PROVE  WizardBounds'
  <2>1. requests < MaxRequests /\ requests' = requests + 1
    BY <1>1 DEF Serve, Arrives
  <2> QED
    BY <1>1, <2>1
<1>2. ASSUME NEW n, StepWelcome(r) \/ StepChoosing(r, n) \/ Skip(r, n)
      PROVE  WizardBounds'
  BY <1>1, <1>2 DEF StepWelcome, StepChoosing, Skip
<1>3. CASE Runs(r)
  BY <1>3 DEF Runs
<1>4. CASE Warns(r)
  BY <1>4, PersistKeepsBounds DEF Warns, AddWarning, Update
<1>5. CASE Records(r)
  BY <1>5, PersistKeepsBounds DEF Records, Update
<1>6. CASE Marks(r)
  BY <1>6, PersistKeepsBounds DEF Marks, MarkStepComplete, Update
<1>7. CASE Complete(r)
  <2>1. badWrites' \in 0..MaxBadWrites
    BY <1>7, PersistKeepsBounds DEF Complete, Update
  <2>2. requests' \in 0..MaxRequests
    BY <1>7 DEF Complete, Arrives
  <2>3. disabling' \in BOOLEAN /\ UNCHANGED <<pidfile, enabled, kills>>
    BY <1>7 DEF Complete, SaysDone
  <2> QED
    BY <2>1, <2>2, <2>3
<1> QED
  BY <1>2, <1>3, <1>4, <1>5, <1>6, <1>7 DEF Handles

LEMMA BoundsAreKept ==
    ASSUME WizardBounds, WizardTyped, [WizardNext]_wizardvars
    PROVE  WizardBounds'
<1> USE WizardAssumption DEF WizardBounds
<1>1. ASSUME NEW r \in Requests, Handles(r) PROVE WizardBounds'
  BY <1>1, HandlesKeepBounds
<1>2. ASSUME NEW by, WizardStarts(by) PROVE WizardBounds'
  BY <1>2 DEF WizardStarts
<1>3. CASE WizardStops \/ DisableUnit
  BY <1>3 DEF WizardStops, DisableUnit, Exits
<1>4. CASE SessionTimeout
  BY <1>4, PersistKeepsBounds DEF SessionTimeout, Exits
<1>5. CASE WizardDies
  <2>1. kills' \in 0..MaxKills
    BY <1>5 DEF WizardDies
  <2>2. pidfile' = TRUE /\ disabling' = FALSE /\ enabled' = enabled
    BY <1>5 DEF WizardDies, Exits
  <2>3. requests' = requests /\ badWrites' = badWrites
    BY <1>5 DEF WizardDies, Exits
  <2> QED
    BY <2>1, <2>2, <2>3
<1>6. CASE UNCHANGED wizardvars
  BY <1>6 DEF wizardvars
<1> QED
  BY <1>1, <1>2, <1>3, <1>4, <1>5, <1>6 DEF WizardNext

(* The wizard's state keeps its type over handlers, failed writes, deaths. *)
THEOREM WizardTypeCorrect == WizardSpec => []WizardTypeOK
<1>1. WizardInit => WizardBounds
  <2> SUFFICES ASSUME WizardInit PROVE WizardBounds
    OBVIOUS
  <2>1. {pidfile, enabled, disabling} \subseteq BOOLEAN
    BY DEF WizardInit
  <2>2. requests = 0 /\ badWrites = 0 /\ kills = 0
    BY DEF WizardInit
  <2>3. /\ requests \in 0..MaxRequests /\ badWrites \in 0..MaxBadWrites
        /\ kills \in 0..MaxKills
    BY <2>2, WizardAssumption
  <2> QED
    BY <2>1, <2>3 DEF WizardBounds
<1>2. WizardInv /\ WizardBounds /\ [WizardNext]_wizardvars => WizardBounds'
  BY BoundsAreKept DEF WizardInv
<1>3. WizardInv /\ WizardBounds => WizardTypeOK
  BY DEF WizardInv, WizardTyped, WizardBounds, WizardTypeOK
<1> QED
  BY <1>1, <1>2, <1>3, WizardInvariant, PTL DEF WizardSpec

(* A wizard that has answered that it is done is done for ever.            *)
THEOREM WizardStaysDone == WizardSpec => []CompletionLasts
<1>1. WizardInv => CompletionLasts
  BY DEF WizardInv
<1> QED
  BY <1>1, WizardInvariant, PTL

(* Where there is no swap, a vault that is recorded has been made.         *)
THEOREM UnswappedVaultIsMade == WizardSpec => []UnswappedVaultIsTrue
<1>1. WizardInv => UnswappedVaultIsTrue
  BY DEF WizardInv, RecordsMade, Made, UnswappedVaultIsTrue, VaultRecordIsTrue
<1> QED
  BY <1>1, WizardInvariant, PTL

=============================================================================
