------------------------- MODULE TransactionManager -------------------------
(***************************************************************************)
(* The write-ahead journal around the state file of hisnosd                *)
(* (core/runtime/transaction_manager.go over core/state/state.go) and the  *)
(* startup sequence of main.go that uses it: load the state, replay the    *)
(* journal, migrate the schema, and enter safe mode if the replay reported *)
(* corruption.  Everything after startup updates the state manager         *)
(* directly.  The machine may lose power between any two steps and in the  *)
(* middle of an append.                                                    *)
(***************************************************************************)
EXTENDS Naturals, Sequences, SequencesExt

CONSTANTS
    MaxJournal,     \* MaxJournalEntries, 500
    MaxClock,       \* bound: distinct values of time.Now()
    MaxLosses,      \* bound: power losses
    NoState,        \* model value: there is no state file
    Stump,          \* model value: a line cut short by a power loss
    Garbage         \* model value: a line with text glued to such a stump

Current == 1        \* StateVersion
Versions == 0..2    \* 0: no version field; 2: written by a later release

(* A state: its schema version, whether it still holds what earlier runs   *)
(* recorded (defaultState does not), and UpdatedAt.                        *)
SystemStates == [ver : Versions, kept : BOOLEAN, at : 0..MaxClock]

(* sha256 is injective; what is hashed is an encoding and a state.  Apply  *)
(* hashes json.Marshal's, the file holds json.MarshalIndent's.             *)
Compact(s)  == <<"compact", s>>
Indented(s) == <<"indented", s>>

Sums == {"compact", "indented"} \X SystemStates

Lines == [id : 0..MaxClock, before : Sums, after : Sums, committed : BOOLEAN]

ASSUME JournalAssumption ==
    /\ MaxJournal \in Nat /\ MaxClock \in Nat /\ MaxLosses \in Nat
    /\ NoState \notin SystemStates
    /\ {Stump, Garbage} \cap Lines = {}

VARIABLES
    coreState,  \* core-state.json
    journal,    \* the lines of state.journal
    memory,     \* state.Manager.state
    startup,    \* where startup is
    todo,       \* the lines ReplayJournal has read and not yet looked at
    txn,        \* the entry Apply is working on
    corrupted,  \* the result of ReplayJournal
    rotating,   \* the goroutine of journal.rotate has not run yet
    clock, losses

journalvars == <<coreState, journal, memory, startup, todo, txn, corrupted,
                 rotating, clock, losses>>

FileSum == Indented(coreState)

DefaultState(t) == [ver |-> Current, kept |-> FALSE, at |-> t]

NoTxn == [id |-> 0, before |-> Compact(DefaultState(0)),
          after |-> Compact(DefaultState(0)), committed |-> FALSE]

-----------------------------------------------------------------------------
(* The journal.                                                            *)

(* The file is opened with O_APPEND: a new line continues a stump.  A line *)
(* that lacks nothing but its newline is counted with the stumps.          *)
Appended(j, e) ==
    IF j # <<>> /\ Last(j) = Stump THEN Append(Front(j), Garbage)
    ELSE Append(j, e)

CutShort(j) == IF j # <<>> /\ Last(j) = Stump THEN j ELSE Append(j, Stump)

(* readAll skips the lines json.Unmarshal rejects.                         *)
JournalEntries == ToSet(journal) \ {Stump, Garbage}

(* rotate writes the last lines back, each with its newline.               *)
Rotated ==
    LET first == Len(journal) - MaxJournal
    IN  IF Len(journal) <= MaxJournal THEN journal
        ELSE [i \in 1..MaxJournal |->
                IF journal[first + i] = Stump THEN Garbage
                ELSE journal[first + i]]

Rotate ==
    /\ rotating
    /\ journal' = Rotated
    /\ rotating' = FALSE
    /\ UNCHANGED <<coreState, memory, startup, todo, txn, corrupted, clock,
                   losses>>

-----------------------------------------------------------------------------
(* NewManager: a missing file or one without a version gives the defaults. *)
Load ==
    /\ startup = "load"
    /\ clock < MaxClock
    /\ clock' = clock + 1
    /\ memory' = IF coreState = NoState THEN DefaultState(clock')
                 ELSE IF coreState.ver = 0 THEN DefaultState(clock')
                 ELSE coreState
    /\ startup' = "replay"
    /\ UNCHANGED <<coreState, journal, todo, txn, corrupted, rotating, losses>>

(* ReplayJournal reads the lines.  Without a state file the checksum fails *)
(* and nothing is replayed.                                                *)
Replay ==
    /\ startup = "replay"
    /\ \/ /\ coreState = NoState
          /\ startup' = "migrate"
          /\ UNCHANGED todo
       \/ /\ coreState # NoState
          /\ startup' = "scan"
          /\ todo' = journal
    /\ UNCHANGED <<coreState, journal, memory, txn, corrupted, rotating, clock,
                   losses>>

(* It looks at every line that says committed=false.                       *)
Pending(e) == e \notin {Stump, Garbage} /\ ~e.committed
Redone(e)  == Pending(e) /\ FileSum = e.after
Corrupt(e) == Pending(e) /\ FileSum \notin {e.before, e.after}

(* The mark of a mutation that has succeeded; a failed append is ignored.  *)
ReplayLine ==
    /\ startup = "scan"
    /\ todo # <<>>
    /\ todo' = Tail(todo)
    /\ corrupted' = (corrupted \/ Corrupt(Head(todo)))
    /\ journal' \in {journal} \cup
          (IF Redone(Head(todo))
           THEN {Appended(journal, [Head(todo) EXCEPT !.committed = TRUE])}
           ELSE {})
    /\ UNCHANGED <<coreState, memory, startup, txn, rotating, clock, losses>>

ReplayEnd ==
    /\ startup = "scan"
    /\ todo = <<>>
    /\ startup' = "migrate"
    /\ rotating' = TRUE
    /\ UNCHANGED <<coreState, journal, memory, todo, txn, corrupted, clock,
                   losses>>

-----------------------------------------------------------------------------
(* MigrateSchema and Apply.                                                *)

AfterApply == IF corrupted THEN "safe" ELSE "running"

NeedsMigration(s) == s.ver # Current

(* Variant: one version up instead of to the current one.                  *)
MigratedUp(s) == [s EXCEPT !.ver = @ + 1]

Migrated(s) == [s EXCEPT !.ver = Current]

MigrateSchema ==
    /\ startup = "migrate"
    /\ \/ /\ ~NeedsMigration(memory)
          /\ startup' = AfterApply
          /\ UNCHANGED <<txn, clock>>
       \/ /\ NeedsMigration(memory)
          /\ clock < MaxClock
          /\ clock' = clock + 1
          /\ txn' = [id |-> clock', before |-> Compact(memory),
                     after |-> Compact([Migrated(memory) EXCEPT !.at = clock']),
                     committed |-> FALSE]
          /\ startup' = "intent"
    /\ UNCHANGED <<coreState, journal, memory, todo, corrupted, rotating,
                   losses>>

(* An append that fails writes nothing.                                    *)
ApplyIntent ==
    /\ startup = "intent"
    /\ \/ journal' = Appended(journal, txn) /\ startup' = "update"
       \/ UNCHANGED journal /\ startup' = AfterApply
    /\ UNCHANGED <<coreState, memory, todo, txn, corrupted, rotating, clock,
                   losses>>

(* state.Manager.Update: new UpdatedAt, then tmp, fsync and rename.        *)
UpdateState(s, ok) ==
    /\ clock < MaxClock
    /\ clock' = clock + 1
    /\ memory' = [s EXCEPT !.at = clock']
    /\ coreState' = IF ok THEN memory' ELSE coreState

(* Variant: the error of Update is not looked at.                          *)
AfterUpdateIgnored(ok) == "commit"

AfterUpdate(ok) == IF ok THEN "commit" ELSE AfterApply

ApplyUpdate ==
    /\ startup = "update"
    /\ \E ok \in BOOLEAN :
        /\ UpdateState(Migrated(memory), ok)
        /\ startup' = AfterUpdate(ok)
    /\ UNCHANGED <<journal, todo, txn, corrupted, rotating, losses>>

(* The commit mark is a second line; a failed append is only logged.       *)
ApplyCommit ==
    /\ startup = "commit"
    /\ journal' \in
          {journal, Appended(journal, [txn EXCEPT !.committed = TRUE])}
    /\ startup' = AfterApply
    /\ UNCHANGED <<coreState, memory, todo, txn, corrupted, rotating, clock,
                   losses>>

-----------------------------------------------------------------------------
(* main's answer to corruption, and everybody's updates afterwards.        *)
DirectUpdate ==
    /\ startup \in {"safe", "running"}
    /\ \E ok \in BOOLEAN : UpdateState(memory, ok)
    /\ startup' = "running"
    /\ UNCHANGED <<journal, todo, txn, corrupted, rotating, losses>>

(* An append may be under way.                                             *)
Appending ==
    \/ startup \in {"intent", "commit"}
    \/ startup = "scan" /\ todo # <<>> /\ Redone(Head(todo))

PowerLoss ==
    /\ losses < MaxLosses
    /\ losses' = losses + 1
    /\ journal' \in {journal} \cup
          (IF Appending THEN {CutShort(journal)} ELSE {})
    /\ startup' = "load"
    /\ todo' = <<>>
    /\ corrupted' = FALSE
    /\ rotating' = FALSE
    /\ UNCHANGED <<coreState, memory, txn, clock>>

-----------------------------------------------------------------------------
JournalInit ==
    /\ coreState \in {NoState} \cup [ver : Versions, kept : {TRUE}, at : {0}]
    /\ journal = <<>>
    /\ memory = DefaultState(0)
    /\ startup = "load"
    /\ todo = <<>>
    /\ txn = NoTxn
    /\ corrupted = FALSE /\ rotating = FALSE
    /\ clock = 0 /\ losses = 0

JournalNext ==
    \/ Load \/ Replay \/ ReplayLine \/ ReplayEnd \/ MigrateSchema
    \/ ApplyIntent \/ ApplyUpdate \/ ApplyCommit
    \/ DirectUpdate \/ Rotate \/ PowerLoss

JournalSpec == JournalInit /\ [][JournalNext]_journalvars

-----------------------------------------------------------------------------
JournalTypeOK ==
    /\ coreState \in SystemStates \cup {NoState}
    /\ journal \in Seq(Lines \cup {Stump, Garbage})
    /\ todo \in Seq(Lines \cup {Stump, Garbage})
    /\ memory \in SystemStates
    /\ startup \in {"load", "replay", "scan", "migrate", "intent", "update",
                    "commit", "safe", "running"}
    /\ txn \in Lines
    /\ corrupted \in BOOLEAN /\ rotating \in BOOLEAN
    /\ clock \in 0..MaxClock /\ losses \in 0..MaxLosses

(* A transaction the journal calls committed has reached the state file,   *)
(* whatever was lost, cut short or rotated away around it; and none is     *)
(* committed twice: the migration is done once over any number of power    *)
(* losses.                                                                 *)
CommittedTookEffect ==
    \A d, e \in JournalEntries :
        e.committed => /\ coreState # NoState /\ coreState.at > e.after[2].at
                       /\ d.committed => d.id = e.id

=============================================================================
